SPECIFICATION FairSpec
CONSTANTS
  Bots = {b1, b2}
  b1 = b1
  group = group
  instance = instance
  private = private
  Conversations <- MCConversations
  Groups <- MCGroups
  Root <- MCRoot
  SessionKey <- MCRoot
  Peer <- MCPeer
  NoConversation = NoConversation
  Stranger = Stranger
  MaxMessages = 2
  MaxDeliveries = 3
  MaxTroubles = 1
INVARIANTS
  WindowsAreRight
  ContextIsOfConversation
  SoleBotIsAssignee
  OutcomesAreTold
PROPERTIES
  EveryCallEnds
CHECK_DEADLOCK FALSE
