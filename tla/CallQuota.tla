----------------------------- MODULE CallQuota -----------------------------
(***************************************************************************)
(* The quotas of SandboxMcpService: how often a test credential may call   *)
(* (a sliding window per credential and category) and how many calls it    *)
(* may have running (a counter per credential and category).               *)
(*                                                                         *)
(* A timestamp of rateWindows is the call that left it, so a window is a   *)
(* set of calls.  What a call does is left out: it runs until it ends.     *)
(***************************************************************************)
EXTENDS Naturals, FiniteSets

CONSTANTS
  Credentials,  \* ids of test credentials (randomUUID: created once)
  Quotas,       \* categories: "read", "mutation", "wait", "upload"
  ToolCalls,    \* calls of the tools, by whatever credential
  Limit,        \* rateLimits: calls of a category per window
  Concurrent,   \* concurrentLimits ("read" has none)
  Window,       \* the length of a window (a minute)
  MaxTime       \* bound: time

QuotaKeys == Credentials \X Quotas

ASSUME QuotaAssumption ==
  /\ IsFiniteSet(ToolCalls)
  /\ "read" \in Quotas
  /\ Limit \in [Quotas -> Nat \ {0}]
  /\ Concurrent \in [Quotas -> Nat \ {0}]
  /\ Window \in Nat \ {0} /\ MaxTime \in Nat

NoQuotaKey == <<"none", "none">>

VARIABLES
  now,      \* Date.now()
  status,   \* credential: "none", "enabled", "disabled" or "revoked"
  window,   \* rateWindows, per key
  active,   \* activeCalls, per key (0: no entry)
  stage,    \* call: "idle", "running", "ended", or "refused"
  of,       \* the key a call was made under
  at,       \* when its timestamp was taken
  admitted, \* history: the calls that were counted, per key
  retryAt   \* history: when the last refusal of a key said to retry (0: none since)

timingVars == <<stage, of, at>>
quotaVars == <<now, status, window, active, timingVars, admitted, retryAt>>

-----------------------------------------------------------------------------
QuotaInit ==
  /\ now = 1
  /\ status = [cr \in Credentials |-> "none"]
  /\ window = [k \in QuotaKeys |-> {}]
  /\ active = [k \in QuotaKeys |-> 0]
  /\ stage = [c \in ToolCalls |-> "idle"]
  /\ of = [c \in ToolCalls |-> NoQuotaKey]
  /\ at = [c \in ToolCalls |-> 0]
  /\ admitted = [k \in QuotaKeys |-> {}]
  /\ retryAt = [k \in QuotaKeys |-> 0]

Tick ==
  /\ now < MaxTime
  /\ now' = now + 1
  /\ UNCHANGED <<status, window, active, timingVars, admitted, retryAt>>

CreateCredential(cr) ==
  /\ status[cr] = "none"
  /\ status' = [status EXCEPT ![cr] = "enabled"]
  /\ UNCHANGED <<now, window, active, timingVars, admitted, retryAt>>

SetCredentialEnabled(cr, enabled) ==
  /\ status[cr] \in {"enabled", "disabled"}
  /\ status' = [status EXCEPT ![cr] = IF enabled THEN "enabled" ELSE "disabled"]
  /\ UNCHANGED <<now, window, active, timingVars, admitted, retryAt>>

\* Its windows go, its running calls go on.
RevokeCredential(cr) ==
  /\ status[cr] \in {"enabled", "disabled"}
  /\ status' = [status EXCEPT ![cr] = "revoked"]
  /\ window' = [k \in QuotaKeys |-> IF k[1] = cr THEN {} ELSE window[k]]
  /\ UNCHANGED <<now, active, timingVars, admitted, retryAt>>

-----------------------------------------------------------------------------
(* callTool *)

\* Mutants of Recent: a window one tick longer, or one tick shorter.
RecentTooLong(k) == {c \in window[k] : at[c] + Window >= now}
RecentTooShort(k) == {c \in window[k] : at[c] + Window > now + 1}

\* The calls of the window that are not older than its length.
Recent(k) == {c \in window[k] : at[c] + Window > now}

\* window[0]: a timestamp no other of the window is older than.
Oldest(k) == {c \in Recent(k) : \A d \in Recent(k) : at[c] <= at[d]}

\* requireCredential, then the call under its key.
Enter(c, k) ==
  /\ stage[c] = "idle" /\ status[k[1]] = "enabled"
  /\ of' = [of EXCEPT ![c] = k]

\* consumeRateLimit: room in the window, and the call is counted.
Consume(c, k) ==
  /\ Cardinality(Recent(k)) < Limit[k[2]]
  /\ window' = [window EXCEPT ![k] = Recent(k) \cup {c}]
  /\ at' = [at EXCEPT ![c] = now]
  /\ admitted' = [admitted EXCEPT ![k] = @ \cup {c}]
  /\ retryAt' = [retryAt EXCEPT ![k] = 0]

\* rate_limited, with the time until the oldest timestamp has left the window.
RefuseRate(c, k) ==
  /\ Enter(c, k)
  /\ Cardinality(Recent(k)) >= Limit[k[2]]
  /\ stage' = [stage EXCEPT ![c] = "refused"]
  /\ \E d \in Oldest(k) : retryAt' = [retryAt EXCEPT ![k] = at[d] + Window]
  /\ UNCHANGED <<now, status, window, active, at, admitted>>

\* withConcurrency refuses; a read is not gated.
Full(k) == k[2] # "read" /\ active[k] >= Concurrent[k[2]]

\* concurrency_limited: counted all the same.
RefuseConcurrency(c, k) ==
  /\ Enter(c, k) /\ Consume(c, k) /\ Full(k)
  /\ stage' = [stage EXCEPT ![c] = "refused"]
  /\ UNCHANGED <<now, status, active>>

\* The call runs, and a gate is taken.
Admit(c, k) ==
  /\ Enter(c, k) /\ Consume(c, k) /\ ~Full(k)
  /\ stage' = [stage EXCEPT ![c] = "running"]
  /\ active' = [active EXCEPT ![k] = IF k[2] = "read" THEN @ ELSE @ + 1]
  /\ UNCHANGED <<now, status>>

\* It returns or throws: the gate is given back either way.
End(c) ==
  /\ stage[c] = "running"
  /\ stage' = [stage EXCEPT ![c] = "ended"]
  /\ LET k == of[c]
     IN  active' = [active EXCEPT ![k] = IF k[2] = "read" \/ @ = 0 THEN @ ELSE @ - 1]
  /\ UNCHANGED <<now, status, window, of, at, admitted, retryAt>>

-----------------------------------------------------------------------------
Manage == \E cr \in Credentials :
            \/ CreateCredential(cr)
            \/ \E b \in BOOLEAN : SetCredentialEnabled(cr, b)
            \/ RevokeCredential(cr)
Call == \E c \in ToolCalls :
          \/ \E k \in QuotaKeys : RefuseRate(c, k) \/ RefuseConcurrency(c, k) \/ Admit(c, k)
          \/ End(c)
QuotaNext == Tick \/ Manage \/ Call
QuotaSpec == QuotaInit /\ [][QuotaNext]_quotaVars

-----------------------------------------------------------------------------
(* Properties *)

QuotaTypeOK ==
  /\ now \in Nat \ {0}
  /\ status \in [Credentials -> {"none", "enabled", "disabled", "revoked"}]
  /\ window \in [QuotaKeys -> SUBSET ToolCalls]
  /\ active \in [QuotaKeys -> Nat]
  /\ stage \in [ToolCalls -> {"idle", "running", "ended", "refused"}]
  /\ of \in [ToolCalls -> QuotaKeys \cup {NoQuotaKey}]
  /\ at \in [ToolCalls -> Nat]
  /\ admitted \in [QuotaKeys -> SUBSET ToolCalls]
  /\ retryAt \in [QuotaKeys -> Nat]

\* The calls of k that were counted in the window that ends at t.
During(k, t) == {c \in admitted[k] : at[c] <= t /\ t < at[c] + Window}

\* In no stretch of time as long as a window, wherever it begins, are more calls of a
\* credential and category counted than its limit.
RateIsBounded == \A k \in QuotaKeys, t \in 1 .. now : Cardinality(During(k, t)) <= Limit[k[2]]

\* The calls of k that hold a gate.
Running(k) == {c \in ToolCalls : stage[c] = "running" /\ of[c] = k}

\* activeCalls counts the calls that run, whatever was refused, failed or revoked
\* meanwhile: a gate is never lost and never given back twice.
GatesAreCounted == \A k \in QuotaKeys : k[2] # "read" => active[k] = Cardinality(Running(k))

\* No credential runs more calls of a category than its gate lets in.
ConcurrencyIsBounded ==
  \A k \in QuotaKeys : k[2] # "read" => Cardinality(Running(k)) <= Concurrent[k[2]]

\* The limits of a credential hold, over time and at once.
LimitsHold == RateIsBounded /\ ConcurrencyIsBounded

\* "重试时间": who waits as long as the refusal said is not refused again, unless another
\* call took the place.
RetryAfterIsEnough ==
  \A k \in QuotaKeys : retryAt[k] # 0 /\ now >= retryAt[k] => Cardinality(Recent(k)) < Limit[k[2]]
=============================================================================
