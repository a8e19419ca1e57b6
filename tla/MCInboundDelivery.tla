-------------------------- MODULE MCInboundDelivery --------------------------
(* Instances of InboundDelivery for TLC: a group with one conversation instance, and a *)
(* private chat. *)
EXTENDS InboundDelivery

CONSTANTS b1, group, instance, private

MCConversations == {group, instance, private}
MCGroups == {group, instance}
MCRoot == [c \in MCConversations |-> IF c = instance THEN group ELSE c]
MCPeer == [c \in {private} |-> b1]
=============================================================================
