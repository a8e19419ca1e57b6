SPECIFICATION QuotaSpec
CONSTANTS
  Credentials = {cr1}
  Quotas <- MCQuotas
  ToolCalls = {c1, c2, c3, c4, c5}
  Limit <- MCLimit
  Concurrent <- MCConcurrent
  Window = 3
  MaxTime = 6
SYMMETRY Symmetry
INVARIANTS
  LimitsHold
  RetryAfterIsEnough
CHECK_DEADLOCK FALSE
