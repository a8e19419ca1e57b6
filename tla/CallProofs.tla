----------------------------- MODULE CallProofs -----------------------------
(***************************************************************************)
(* The quotas of SandboxMcpService hold for any number of credentials,     *)
(* categories and calls, any limits and any length of the window; and what *)
(* an orchestrator may rely on when it retries or confirms a call holds    *)
(* for any number of calls, slots, tokens and any size of the cache.       *)
(*                                                                         *)
(* RateIsBounded says more than the code checks: the code counts the       *)
(* window that ends now, the property every window that ever ended.  The   *)
(* step is WindowIsWhole: the timestamps kept for a key are all those of   *)
(* its admitted calls that still count, unless the key can admit no more.  *)
(*                                                                         *)
(* AnswersAreKept rests on CacheOK: an entry carries the number of the     *)
(* write it came from, and no two entries have one key.  So the entries    *)
(* as recent as a promised one are no more than the keys written since,    *)
(* and eviction, which takes the first written, does not reach it.         *)
(*                                                                         *)
(* ReviewedSceneOnly rests on TokensOK: until a reset runs, a revision is  *)
(* never used again.                                                       *)
(***************************************************************************)
EXTENDS CallQuota, CallReplay, FiniteSetTheorems, TLAPS

-----------------------------------------------------------------------------
(* Quotas *)

\* A call that was counted has left "idle", in the past or now.
CountedOK ==
  \A k \in QuotaKeys : /\ window[k] \subseteq admitted[k]
                  /\ \A c \in admitted[k] : stage[c] # "idle" /\ at[c] <= now

\* A running call runs under a key.
RunningOK == \A c \in ToolCalls : stage[c] = "running" => of[c] \in QuotaKeys

\* A window holds every call that counts, until its credential is revoked.
WindowIsWhole ==
  \A k \in QuotaKeys : status[k[1]] # "revoked" =>
    \A c \in admitted[k] : at[c] + Window > now => c \in window[k]

\* A window is never longer than the limit.
WindowFits == \A k \in QuotaKeys : Cardinality(window[k]) <= Limit[k[2]]

\* The timestamp a refusal was computed from is still there, or all of them went.
RefusalOK ==
  \A k \in QuotaKeys : retryAt[k] # 0 =>
    window[k] = {} \/ \E d \in window[k] : at[d] + Window <= retryAt[k]

\* No gate is taken beyond the limit.
GateOK == \A k \in QuotaKeys : k[2] # "read" => active[k] <= Concurrent[k[2]]

\* Everything above, and with it the limits.
QuotaInv ==
  /\ QuotaTypeOK /\ CountedOK /\ RunningOK
  /\ WindowIsWhole /\ WindowFits /\ RateIsBounded /\ RefusalOK
  /\ GatesAreCounted /\ GateOK

-----------------------------------------------------------------------------
(* Sets of calls *)

\* What is below a set of calls is finite.
LEMMA Finite == ASSUME NEW S \in SUBSET ToolCalls
                PROVE  IsFiniteSet(S) /\ Cardinality(S) \in Nat
  BY QuotaAssumption, FS_Subset, FS_CardinalityType

\* A part of a set of calls is no larger.
LEMMA Smaller == ASSUME NEW S \in SUBSET ToolCalls, NEW R \in SUBSET S
                 PROVE  Cardinality(R) <= Cardinality(S)
  BY Finite, FS_Subset

\* A part without one of the elements is smaller.
LEMMA StrictlySmaller ==
  ASSUME NEW S \in SUBSET ToolCalls, NEW R \in SUBSET S, NEW x \in S, x \notin R
  PROVE  Cardinality(R) < Cardinality(S)
<1>1. R \in SUBSET (S \ {x}) OBVIOUS
<1>2. Cardinality(R) <= Cardinality(S \ {x}) BY <1>1, Smaller
<1>3. Cardinality(S \ {x}) = Cardinality(S) - 1 BY Finite, FS_RemoveElement
<1>4. Cardinality(R) \in Nat /\ Cardinality(S) \in Nat BY Finite
<1> QED BY <1>2, <1>3, <1>4

\* One more call makes a set at most one larger.
LEMMA OneMore == ASSUME NEW S \in SUBSET ToolCalls, NEW c \in ToolCalls
                 PROVE  /\ Cardinality(S \cup {c}) <= Cardinality(S) + 1
                        /\ c \notin S => Cardinality(S \cup {c}) = Cardinality(S) + 1
<1>1. Cardinality(S \cup {c}) = IF c \in S THEN Cardinality(S) ELSE Cardinality(S) + 1
  BY Finite, FS_AddElement
<1>2. Cardinality(S) \in Nat BY Finite
<1> QED BY <1>1, <1>2

\* The empty set has no elements.
LEMMA Empty == Cardinality({}) = 0
  BY FS_EmptySet

\* What counts now is of the window.
LEMMA RecentOK == ASSUME QuotaTypeOK, NEW k \in QuotaKeys
                  PROVE  Recent(k) \in SUBSET ToolCalls /\ Recent(k) \in SUBSET window[k]
  BY DEF QuotaTypeOK, Recent

-----------------------------------------------------------------------------
(* Initial states *)

\* Initially nothing is counted and nothing runs.
LEMMA InitQuotaInv == QuotaInit => QuotaInv
<1> SUFFICES ASSUME QuotaInit PROVE QuotaInv OBVIOUS
<1> USE QuotaAssumption
<1>1. QuotaTypeOK BY DEF QuotaInit, QuotaTypeOK
<1>2. CountedOK /\ RunningOK /\ WindowIsWhole /\ RefusalOK
  BY DEF QuotaInit, CountedOK, RunningOK, WindowIsWhole, RefusalOK
<1>3. \A k \in QuotaKeys : k[2] \in Quotas /\ Limit[k[2]] \in Nat \ {0} /\ Concurrent[k[2]] \in Nat \ {0}
  BY DEF QuotaKeys
<1>4. WindowFits BY <1>3, Empty DEF QuotaInit, WindowFits
<1>5. RateIsBounded
  <2> SUFFICES ASSUME NEW k \in QuotaKeys, NEW t \in 1 .. now
               PROVE  Cardinality(During(k, t)) <= Limit[k[2]]
    BY DEF RateIsBounded
  <2>1. During(k, t) = {} BY DEF QuotaInit, During
  <2> QED BY <2>1, <1>3, Empty
<1>6. GatesAreCounted
  <2> SUFFICES ASSUME NEW k \in QuotaKeys PROVE active[k] = Cardinality(Running(k)) BY DEF GatesAreCounted
  <2>1. Running(k) = {} BY DEF QuotaInit, Running
  <2> QED BY <2>1, Empty DEF QuotaInit
<1>7. GateOK BY <1>3 DEF QuotaInit, GateOK
<1> QED BY <1>1, <1>2, <1>4, <1>5, <1>6, <1>7 DEF QuotaInv

-----------------------------------------------------------------------------
(* The steps that count no call and end none *)

\* A key is a credential and a category.
LEMMA KeyOK ==
  \A k \in QuotaKeys : /\ k[1] \in Credentials /\ k[2] \in Quotas
                  /\ Limit[k[2]] \in Nat \ {0} /\ Concurrent[k[2]] \in Nat \ {0}
  BY QuotaAssumption DEF QuotaKeys

\* As time passes, a window only loses calls.
LEMMA TickStep == QuotaInv /\ Tick => QuotaInv'
<1> SUFFICES ASSUME QuotaInv, Tick PROVE QuotaInv' OBVIOUS
<1> USE QuotaAssumption
<1>1. QuotaTypeOK' BY DEF QuotaInv, QuotaTypeOK, Tick, timingVars
<1>2. CountedOK' /\ RunningOK' BY DEF QuotaInv, QuotaTypeOK, CountedOK, RunningOK, Tick, timingVars
<1>3. WindowIsWhole' BY DEF QuotaInv, QuotaTypeOK, WindowIsWhole, Tick, timingVars
<1>4. WindowFits' /\ RefusalOK' BY DEF QuotaInv, WindowFits, RefusalOK, Tick, timingVars
<1>5. RateIsBounded'
  <2> SUFFICES ASSUME NEW k \in QuotaKeys, NEW t \in 1 .. now'
               PROVE  Cardinality(During(k, t)') <= Limit[k[2]]
    BY DEF RateIsBounded
  <2>1. CASE t <= now
    <3>1. During(k, t)' = During(k, t) BY DEF During, Tick, timingVars
    <3>2. t \in 1 .. now BY <2>1 DEF QuotaInv, QuotaTypeOK
    <3> QED BY <3>1, <3>2 DEF QuotaInv, RateIsBounded
  <2>2. CASE t = now + 1
    <3>1. During(k, t)' \in SUBSET During(k, now)
      BY <2>2, KeyOK DEF During, Tick, timingVars, QuotaInv, QuotaTypeOK, CountedOK
    <3>2. During(k, now) \in SUBSET ToolCalls BY DEF During, QuotaInv, QuotaTypeOK
    <3>3. Cardinality(During(k, now)) <= Limit[k[2]]
      BY DEF QuotaInv, QuotaTypeOK, RateIsBounded
    <3>4. Cardinality(During(k, t)') <= Cardinality(During(k, now)) BY <3>1, <3>2, Smaller
    <3>5. Cardinality(During(k, now)) \in Nat /\ Cardinality(During(k, t)') \in Nat
      BY <3>1, <3>2, Finite
    <3> QED BY <3>3, <3>4, <3>5, KeyOK
  <2> QED BY <2>1, <2>2 DEF QuotaInv, QuotaTypeOK, Tick
<1>6. GatesAreCounted' /\ GateOK'
  BY DEF QuotaInv, GatesAreCounted, GateOK, Running, Tick, timingVars
<1> QED BY <1>1, <1>2, <1>3, <1>4, <1>5, <1>6 DEF QuotaInv

\* Managing a credential counts and ends no call; only a revoked one loses its windows.
LEMMA ManageStep == QuotaInv /\ Manage => QuotaInv'
<1> SUFFICES ASSUME QuotaInv, NEW cr \in Credentials,
                    \/ CreateCredential(cr)
                    \/ \E b \in BOOLEAN : SetCredentialEnabled(cr, b)
                    \/ RevokeCredential(cr)
             PROVE  QuotaInv'
  BY DEF Manage
<1> USE QuotaAssumption
<1>0. /\ now' = now /\ active' = active /\ admitted' = admitted /\ retryAt' = retryAt
      /\ stage' = stage /\ of' = of /\ at' = at
      /\ status' \in [Credentials -> {"none", "enabled", "disabled", "revoked"}]
      /\ window' \in [QuotaKeys -> SUBSET ToolCalls]
  BY KeyOK DEF QuotaInv, QuotaTypeOK, CreateCredential, SetCredentialEnabled, RevokeCredential, timingVars
<1>00. ASSUME NEW k \in QuotaKeys
       PROVE  /\ window'[k] = window[k] \/ window'[k] = {}
              /\ status'[k[1]] # "revoked" => window'[k] = window[k] /\ status[k[1]] # "revoked"
  BY KeyOK DEF QuotaInv, QuotaTypeOK, CreateCredential, SetCredentialEnabled, RevokeCredential
<1>1. QuotaTypeOK' BY <1>0 DEF QuotaInv, QuotaTypeOK
<1>2. CountedOK' /\ RunningOK' BY <1>0, <1>00 DEF QuotaInv, CountedOK, RunningOK
<1>3. WindowIsWhole' BY <1>0, <1>00 DEF QuotaInv, WindowIsWhole
<1>4. WindowFits'
  <2> SUFFICES ASSUME NEW k \in QuotaKeys PROVE Cardinality(window'[k]) <= Limit[k[2]]
    BY DEF WindowFits
  <2>1. CASE window'[k] = window[k] BY <2>1 DEF QuotaInv, WindowFits
  <2>2. CASE window'[k] = {} BY <2>2, Empty, KeyOK
  <2> QED BY <2>1, <2>2, <1>00
<1>5. RefusalOK' BY <1>0, <1>00 DEF QuotaInv, RefusalOK
<1>6. RateIsBounded'
  <2>1. \A k \in QuotaKeys, t \in 1 .. now : During(k, t)' = During(k, t) BY <1>0 DEF During
  <2> QED BY <2>1, <1>0 DEF QuotaInv, RateIsBounded
<1>7. GatesAreCounted' /\ GateOK'
  BY <1>0 DEF QuotaInv, GatesAreCounted, GateOK, Running
<1> QED BY <1>1, <1>2, <1>3, <1>4, <1>5, <1>6, <1>7 DEF QuotaInv

\* A refusal leaves the window as it is and a note of when its oldest call goes.
LEMMA RefuseRateStep == ASSUME QuotaInv, NEW c \in ToolCalls, NEW k \in QuotaKeys, RefuseRate(c, k)
                        PROVE  QuotaInv'
<1> USE QuotaAssumption
<1>0. PICK d \in Oldest(k) : retryAt' = [retryAt EXCEPT ![k] = at[d] + Window]
  BY DEF RefuseRate
<1>a. d \in window[k] /\ d \in ToolCalls BY RecentOK DEF Oldest, QuotaInv, Recent
<1>b. at[d] + Window \in Nat BY <1>a DEF QuotaInv, QuotaTypeOK
<1>1. QuotaTypeOK' BY <1>0, <1>b DEF QuotaInv, QuotaTypeOK, RefuseRate, Enter
<1>2. CountedOK' /\ RunningOK'
  BY DEF QuotaInv, QuotaTypeOK, CountedOK, RunningOK, RefuseRate, Enter
<1>3. WindowIsWhole' /\ WindowFits' /\ GateOK'
  BY DEF QuotaInv, WindowIsWhole, WindowFits, GateOK, RefuseRate
<1>4. RateIsBounded' BY DEF QuotaInv, RateIsBounded, During, RefuseRate
<1>5. RefusalOK' BY <1>0, <1>a, <1>b DEF QuotaInv, QuotaTypeOK, RefusalOK, RefuseRate
<1>6. GatesAreCounted'
  <2>1. \A l \in QuotaKeys : Running(l)' = Running(l)
    BY DEF QuotaInv, QuotaTypeOK, Running, RefuseRate, Enter
  <2> QED BY <2>1 DEF QuotaInv, GatesAreCounted, RefuseRate
<1> QED BY <1>1, <1>2, <1>3, <1>4, <1>5, <1>6 DEF QuotaInv

-----------------------------------------------------------------------------
(* The steps that count a call, and the one that ends it *)

\* What counting a call does to the windows, whether it is let in or not.
LEMMA ConsumeStep ==
  ASSUME QuotaInv, NEW c \in ToolCalls, NEW k \in QuotaKeys, Enter(c, k), Consume(c, k), stage'[c] # "idle",
         \A d \in ToolCalls \ {c} : stage'[d] = stage[d], UNCHANGED <<now, status>>
  PROVE  /\ window' \in [QuotaKeys -> SUBSET ToolCalls] /\ at' \in [ToolCalls -> Nat]
         /\ of' \in [ToolCalls -> QuotaKeys \cup {NoQuotaKey}]
         /\ admitted' \in [QuotaKeys -> SUBSET ToolCalls] /\ retryAt' \in [QuotaKeys -> Nat]
         /\ CountedOK' /\ WindowIsWhole' /\ WindowFits' /\ RateIsBounded' /\ RefusalOK'
<1> USE QuotaAssumption
<1>a. QuotaTypeOK /\ CountedOK BY DEF QuotaInv
<1>b. Recent(k) \in SUBSET ToolCalls /\ Recent(k) \in SUBSET window[k] BY <1>a, RecentOK
<1>c. \A l \in QuotaKeys : c \notin admitted[l] /\ c \notin window[l]
  BY <1>a DEF CountedOK, Enter
<1>d. \A l \in QuotaKeys \ {k} : /\ window'[l] = window[l] /\ admitted'[l] = admitted[l]
                           /\ retryAt'[l] = retryAt[l]
  BY <1>a DEF QuotaTypeOK, Consume
<1>e. /\ window'[k] = Recent(k) \cup {c} /\ admitted'[k] = admitted[k] \cup {c}
      /\ retryAt'[k] = 0 /\ at'[c] = now
  BY <1>a DEF QuotaTypeOK, Consume
<1>f. \A d \in ToolCalls \ {c} : at'[d] = at[d] BY <1>a DEF QuotaTypeOK, Consume
<1>g. \A l \in QuotaKeys : admitted[l] \in SUBSET ToolCalls /\ window[l] \in SUBSET ToolCalls
  BY <1>a DEF QuotaTypeOK
<1>1. /\ window' \in [QuotaKeys -> SUBSET ToolCalls] /\ at' \in [ToolCalls -> Nat]
      /\ of' \in [ToolCalls -> QuotaKeys \cup {NoQuotaKey}]
      /\ admitted' \in [QuotaKeys -> SUBSET ToolCalls] /\ retryAt' \in [QuotaKeys -> Nat]
  BY <1>a, <1>b DEF QuotaTypeOK, Consume, Enter
<1>2. CountedOK'
  <2> SUFFICES ASSUME NEW l \in QuotaKeys
               PROVE  /\ window'[l] \subseteq admitted'[l]
                      /\ \A d \in admitted'[l] : stage'[d] # "idle" /\ at'[d] <= now'
    BY DEF CountedOK
  <2>1. CASE l = k BY <2>1, <1>a, <1>b, <1>c, <1>e, <1>f, <1>g DEF CountedOK, QuotaTypeOK
  <2>2. CASE l # k BY <2>2, <1>a, <1>c, <1>d, <1>f, <1>g DEF CountedOK, QuotaTypeOK
  <2> QED BY <2>1, <2>2
<1>3. WindowIsWhole'
  <2> SUFFICES ASSUME NEW l \in QuotaKeys, status'[l[1]] # "revoked", NEW d \in admitted'[l],
                      at'[d] + Window > now'
               PROVE  d \in window'[l]
    BY DEF WindowIsWhole
  <2>0. WindowIsWhole BY DEF QuotaInv
  <2>1. CASE l # k BY <2>0, <2>1, <1>c, <1>d, <1>f, <1>g DEF WindowIsWhole
  <2>2. CASE l = k /\ d = c BY <2>2, <1>e
  <2>3. CASE l = k /\ d # c
    BY <2>0, <2>3, <1>e, <1>f, <1>g DEF WindowIsWhole, Recent
  <2> QED BY <2>1, <2>2, <2>3
<1>4. Cardinality(Recent(k) \cup {c}) <= Limit[k[2]]
  <2>1. Cardinality(Recent(k) \cup {c}) <= Cardinality(Recent(k)) + 1 BY <1>b, OneMore
  <2>2. Cardinality(Recent(k)) < Limit[k[2]] BY DEF Consume
  <2>3. Cardinality(Recent(k)) \in Nat /\ Cardinality(Recent(k) \cup {c}) \in Nat BY <1>b, Finite
  <2> QED BY <2>1, <2>2, <2>3, KeyOK
<1>5. WindowFits' BY <1>4, <1>d, <1>e DEF QuotaInv, WindowFits
<1>6. RateIsBounded'
  <2> SUFFICES ASSUME NEW l \in QuotaKeys, NEW t \in 1 .. now
               PROVE  Cardinality(During(l, t)') <= Limit[l[2]]
    BY DEF RateIsBounded
  <2>1. CASE l # k \/ t # now
    <3>1. During(l, t)' = During(l, t)
      BY <2>1, <1>a, <1>c, <1>d, <1>e, <1>f, <1>g DEF During, QuotaTypeOK
    <3> QED BY <3>1 DEF QuotaInv, RateIsBounded
  <2>2. CASE l = k /\ t = now
    <3>1. Recent(k) \cup {c} \in SUBSET ToolCalls BY <1>b
    <3>2. During(k, now)' \in SUBSET (Recent(k) \cup {c})
      BY <1>a, <1>c, <1>e, <1>f, <1>g DEF During, Recent, Enter, QuotaInv, WindowIsWhole, QuotaTypeOK
    <3>3. Cardinality(During(k, now)') <= Cardinality(Recent(k) \cup {c})
      BY <3>1, <3>2, Smaller
    <3>4. Cardinality(During(k, now)') \in Nat /\ Cardinality(Recent(k) \cup {c}) \in Nat
      BY <3>1, <3>2, Finite
    <3>5. During(l, t)' = During(k, now)' BY <2>2 DEF During
    <3> QED BY <2>2, <3>3, <3>4, <3>5, <1>4, KeyOK
  <2> QED BY <2>1, <2>2
<1>7. RefusalOK'
  <2> SUFFICES ASSUME NEW l \in QuotaKeys, retryAt'[l] # 0
               PROVE  window'[l] = {} \/ \E d \in window'[l] : at'[d] + Window <= retryAt'[l]
    BY DEF RefusalOK
  <2>1. l # k BY <1>e
  <2> QED BY <2>1, <1>c, <1>d, <1>f, <1>g DEF QuotaInv, RefusalOK
<1> QED BY <1>1, <1>2, <1>3, <1>5, <1>6, <1>7

\* A call refused by its gate was counted.
LEMMA RefuseConcurrencyStep ==
  ASSUME QuotaInv, NEW c \in ToolCalls, NEW k \in QuotaKeys, RefuseConcurrency(c, k)
  PROVE  QuotaInv'
<1>a. /\ Enter(c, k) /\ Consume(c, k) /\ stage'[c] # "idle" /\ stage'[c] = "refused"
      /\ \A d \in ToolCalls \ {c} : stage'[d] = stage[d]
      /\ UNCHANGED <<now, status, active>>
      /\ stage' \in [ToolCalls -> {"idle", "running", "ended", "refused"}]
  BY DEF RefuseConcurrency, QuotaInv, QuotaTypeOK
<1>b. QuotaTypeOK BY DEF QuotaInv
<1>1. QuotaTypeOK' BY <1>a, <1>b, ConsumeStep DEF QuotaTypeOK
<1>2. /\ CountedOK' /\ WindowIsWhole' /\ WindowFits' /\ RateIsBounded' /\ RefusalOK'
  BY <1>a, ConsumeStep
<1>3. RunningOK' BY <1>a, <1>b DEF QuotaInv, RunningOK, QuotaTypeOK, Enter
<1>4. GatesAreCounted' /\ GateOK'
  <2>1. \A l \in QuotaKeys : Running(l)' = Running(l)
    BY <1>a, <1>b DEF Running, Enter, QuotaTypeOK
  <2> QED BY <2>1, <1>a DEF QuotaInv, GatesAreCounted, GateOK
<1> QED BY <1>1, <1>2, <1>3, <1>4 DEF QuotaInv

\* A call that is let in takes a gate, if there is one.
LEMMA AdmitStep == ASSUME QuotaInv, NEW c \in ToolCalls, NEW k \in QuotaKeys, Admit(c, k)
                   PROVE  QuotaInv'
<1>a. /\ Enter(c, k) /\ Consume(c, k) /\ stage'[c] # "idle" /\ stage'[c] = "running"
      /\ \A d \in ToolCalls \ {c} : stage'[d] = stage[d]
      /\ UNCHANGED <<now, status>>
      /\ stage' \in [ToolCalls -> {"idle", "running", "ended", "refused"}]
  BY DEF Admit, QuotaInv, QuotaTypeOK
<1>b. QuotaTypeOK BY DEF QuotaInv
<1>c. /\ \A l \in QuotaKeys \ {k} : active'[l] = active[l]
      /\ k[2] # "read" => active'[k] = active[k] + 1 /\ active[k] < Concurrent[k[2]]
      /\ active' \in [QuotaKeys -> Nat]
  BY <1>b, KeyOK DEF Admit, QuotaTypeOK, Full
<1>1. QuotaTypeOK' BY <1>a, <1>b, <1>c, ConsumeStep DEF QuotaTypeOK
<1>2. /\ CountedOK' /\ WindowIsWhole' /\ WindowFits' /\ RateIsBounded' /\ RefusalOK'
  BY <1>a, ConsumeStep
<1>3. RunningOK' BY <1>a, <1>b DEF QuotaInv, RunningOK, QuotaTypeOK, Enter
<1>4. GatesAreCounted'
  <2> SUFFICES ASSUME NEW l \in QuotaKeys, l[2] # "read"
               PROVE  active'[l] = Cardinality(Running(l)')
    BY DEF GatesAreCounted
  <2>0. Running(l) \in SUBSET ToolCalls /\ active[l] = Cardinality(Running(l))
    BY DEF Running, QuotaInv, GatesAreCounted
  <2>1. CASE l # k
    <3>1. Running(l)' = Running(l) BY <2>1, <1>a, <1>b DEF Running, Enter, QuotaTypeOK
    <3> QED BY <2>0, <2>1, <3>1, <1>c
  <2>2. CASE l = k
    <3>1. Running(l)' = Running(l) \cup {c} BY <2>2, <1>a, <1>b DEF Running, Enter, QuotaTypeOK
    <3>2. c \notin Running(l) BY <1>a DEF Running, Enter
    <3> QED BY <2>0, <2>2, <3>1, <3>2, <1>c, OneMore
  <2> QED BY <2>1, <2>2
<1>5. GateOK' BY <1>b, <1>c, KeyOK DEF QuotaInv, GateOK, QuotaTypeOK
<1> QED BY <1>1, <1>2, <1>3, <1>4, <1>5 DEF QuotaInv

\* A call that ends gives back the gate it took.
LEMMA EndStep == ASSUME QuotaInv, NEW c \in ToolCalls, End(c)
                 PROVE  QuotaInv'
<1> DEFINE k == of[c]
<1>a. /\ k \in QuotaKeys /\ stage[c] = "running" /\ stage'[c] = "ended"
      /\ \A d \in ToolCalls \ {c} : stage'[d] = stage[d]
      /\ stage' \in [ToolCalls -> {"idle", "running", "ended", "refused"}]
      /\ UNCHANGED <<now, status, window, of, at, admitted, retryAt>>
  BY DEF End, QuotaInv, QuotaTypeOK, RunningOK
<1>b. QuotaTypeOK BY DEF QuotaInv
<1>c. /\ \A l \in QuotaKeys \ {k} : active'[l] = active[l]
      /\ active'[k] = IF k[2] = "read" \/ active[k] = 0 THEN active[k] ELSE active[k] - 1
      /\ active' \in [QuotaKeys -> Nat]
  <2>1. active' = [active EXCEPT ![k] = IF k[2] = "read" \/ active[k] = 0 THEN active[k] ELSE active[k] - 1]
    BY <1>a, <1>b DEF End, QuotaTypeOK
  <2>2. active[k] \in Nat BY <1>a, <1>b DEF QuotaTypeOK
  <2>3. (IF k[2] = "read" \/ active[k] = 0 THEN active[k] ELSE active[k] - 1) \in Nat
    BY <2>2
  <2> HIDE DEF k
  <2> QED BY <2>1, <2>3, <1>a, <1>b DEF QuotaTypeOK
<1>1. QuotaTypeOK' BY <1>a, <1>b, <1>c DEF QuotaTypeOK
<1>2. CountedOK' /\ RunningOK' /\ WindowIsWhole' /\ WindowFits' /\ RefusalOK'
  BY <1>a, <1>b DEF QuotaInv, CountedOK, RunningOK, WindowIsWhole, WindowFits, RefusalOK, QuotaTypeOK
<1>3. RateIsBounded' BY <1>a DEF QuotaInv, RateIsBounded, During
<1>4. GatesAreCounted'
  <2> SUFFICES ASSUME NEW l \in QuotaKeys, l[2] # "read"
               PROVE  active'[l] = Cardinality(Running(l)')
    BY DEF GatesAreCounted
  <2>0. Running(l) \in SUBSET ToolCalls /\ active[l] = Cardinality(Running(l))
    BY DEF Running, QuotaInv, GatesAreCounted
  <2>1. CASE l # k
    <3>1. Running(l)' = Running(l) BY <2>1, <1>a, <1>b DEF Running, QuotaTypeOK
    <3> QED BY <2>0, <2>1, <3>1, <1>c
  <2>2. CASE l = k
    <3>1. Running(l)' = Running(l) \ {c} BY <2>2, <1>a, <1>b DEF Running, QuotaTypeOK
    <3>2. c \in Running(l) BY <2>2, <1>a DEF Running
    <3>3. Cardinality(Running(l)') = Cardinality(Running(l)) - 1
      BY <2>0, <3>1, <3>2, Finite, FS_RemoveElement
    <3>4. Cardinality(Running(l)) # 0 BY <2>0, <3>2, Finite, FS_EmptySet
    <3> QED BY <2>0, <2>2, <3>3, <3>4, <1>c
  <2> QED BY <2>1, <2>2
<1>5. GateOK'
  <2> SUFFICES ASSUME NEW l \in QuotaKeys, l[2] # "read" PROVE active'[l] <= Concurrent[l[2]]
    BY DEF GateOK
  <2>1. active[l] <= Concurrent[l[2]] /\ active[l] \in Nat BY <1>b DEF QuotaInv, GateOK, QuotaTypeOK
  <2>2. active'[l] = active[l] \/ active'[l] = active[l] - 1 BY <1>a, <1>c
  <2> QED BY <2>1, <2>2, KeyOK
<1> QED BY <1>1, <1>2, <1>3, <1>4, <1>5 DEF QuotaInv

-----------------------------------------------------------------------------
(* Theorems *)

\* A step that changes nothing keeps everything.
LEMMA Stutter == QuotaInv /\ UNCHANGED quotaVars => QuotaInv'
<1> SUFFICES ASSUME QuotaInv, UNCHANGED quotaVars PROVE QuotaInv' OBVIOUS
<1> USE DEF quotaVars, timingVars, QuotaInv
<1>1. QuotaTypeOK' /\ CountedOK' /\ RunningOK' BY DEF QuotaTypeOK, CountedOK, RunningOK
<1>2. WindowIsWhole' /\ WindowFits' /\ RefusalOK' BY DEF WindowIsWhole, WindowFits, RefusalOK
<1>3. RateIsBounded' BY DEF RateIsBounded, During
<1>4. GatesAreCounted' /\ GateOK' BY DEF GatesAreCounted, GateOK, Running
<1> QED BY <1>1, <1>2, <1>3, <1>4

\* The inductive invariant holds in every state.
THEOREM QuotaInvHolds == QuotaSpec => []QuotaInv
<1>1. QuotaInv /\ [QuotaNext]_quotaVars => QuotaInv'
  <2> SUFFICES ASSUME QuotaInv, [QuotaNext]_quotaVars PROVE QuotaInv' OBVIOUS
  <2>1. CASE Tick BY <2>1, TickStep
  <2>2. CASE Manage BY <2>2, ManageStep
  <2>3. ASSUME NEW c \in ToolCalls, NEW k \in QuotaKeys, RefuseRate(c, k) PROVE QuotaInv'
    BY <2>3, RefuseRateStep
  <2>4. ASSUME NEW c \in ToolCalls, NEW k \in QuotaKeys, RefuseConcurrency(c, k) PROVE QuotaInv'
    BY <2>4, RefuseConcurrencyStep
  <2>5. ASSUME NEW c \in ToolCalls, NEW k \in QuotaKeys, Admit(c, k) PROVE QuotaInv'
    BY <2>5, AdmitStep
  <2>6. ASSUME NEW c \in ToolCalls, End(c) PROVE QuotaInv' BY <2>6, EndStep
  <2>7. CASE UNCHANGED quotaVars BY <2>7, Stutter
  <2> QED BY <2>1, <2>2, <2>3, <2>4, <2>5, <2>6, <2>7 DEF QuotaNext, Call
<1> QED BY InitQuotaInv, <1>1, PTL DEF QuotaSpec

\* Every variable keeps its type; a gate counter never goes below zero.
THEOREM QuotaTypesHold == QuotaSpec => []QuotaTypeOK
<1>1. QuotaInv => QuotaTypeOK BY DEF QuotaInv
<1> QED BY QuotaInvHolds, <1>1, PTL

\* In no stretch of time as long as a window, wherever it begins, are more calls of a
\* credential and category counted than the limit consumeRateLimit enforces.
THEOREM RateHolds == QuotaSpec => []RateIsBounded
<1>1. QuotaInv => RateIsBounded BY DEF QuotaInv
<1> QED BY QuotaInvHolds, <1>1, PTL

\* withConcurrency's counter is the number of calls that run.
THEOREM GatesHold == QuotaSpec => []GatesAreCounted
<1>1. QuotaInv => GatesAreCounted BY DEF QuotaInv
<1> QED BY QuotaInvHolds, <1>1, PTL

\* No more calls of a category run at once than withConcurrency lets in.
THEOREM ConcurrencyHolds == QuotaSpec => []ConcurrencyIsBounded
<1>1. QuotaInv => ConcurrencyIsBounded
  BY DEF QuotaInv, GatesAreCounted, GateOK, ConcurrencyIsBounded
<1> QED BY QuotaInvHolds, <1>1, PTL

\* Both limits of a credential hold.
THEOREM LimitsAlwaysHold == QuotaSpec => []LimitsHold
<1>1. RateIsBounded /\ ConcurrencyIsBounded => LimitsHold BY DEF LimitsHold
<1> QED BY <1>1, RateHolds, ConcurrencyHolds, PTL

\* Who waits as long as a rate_limited refusal said finds room, unless another call took it.
THEOREM RetryAfterHolds == QuotaSpec => []RetryAfterIsEnough
<1>1. QuotaInv => RetryAfterIsEnough
  <2> SUFFICES ASSUME QuotaInv, NEW k \in QuotaKeys, retryAt[k] # 0, now >= retryAt[k]
               PROVE  Cardinality(Recent(k)) < Limit[k[2]]
    BY DEF RetryAfterIsEnough
  <2>0. QuotaTypeOK BY DEF QuotaInv
  <2>a. Recent(k) \in SUBSET window[k] /\ window[k] \in SUBSET ToolCalls
    BY <2>0, RecentOK DEF QuotaTypeOK
  <2>1. CASE window[k] = {}
    <3>1. Recent(k) = {} BY <2>1, <2>a
    <3> QED BY <3>1, Empty, KeyOK
  <2>2. ASSUME NEW d \in window[k], at[d] + Window <= retryAt[k]
        PROVE  Cardinality(Recent(k)) < Limit[k[2]]
    <3>1. at[d] \in Nat /\ now \in Nat /\ retryAt[k] \in Nat /\ Window \in Nat
      BY <2>0, <2>a, QuotaAssumption DEF QuotaTypeOK
    <3>2. d \notin Recent(k) BY <2>2, <3>1 DEF Recent
    <3>3. Cardinality(Recent(k)) < Cardinality(window[k]) BY <2>a, <3>2, StrictlySmaller
    <3>4. Cardinality(window[k]) <= Limit[k[2]] BY DEF QuotaInv, WindowFits
    <3>5. Cardinality(Recent(k)) \in Nat /\ Cardinality(window[k]) \in Nat BY <2>a, Finite
    <3> QED BY <3>3, <3>4, <3>5, KeyOK
  <2> QED BY <2>1, <2>2 DEF QuotaInv, RefusalOK
<1> QED BY QuotaInvHolds, <1>1, PTL

-----------------------------------------------------------------------------
(* Idempotency, confirmation and revisions *)

\* The types of the scene, the tokens, and of what calls know of the scene.
SceneTypes ==
  /\ changes \in Nat /\ revision \in Nat /\ scene \in Scenes
  /\ base \in [Calls -> Scenes]
  /\ made \subseteq Calls \X Changes
  /\ seen \in [Applies -> Nat]
  /\ token \in [Tokens -> {"none", "valid", "running", "gone"}]
  /\ issued \in [Tokens -> [operation : Operations \cup {NoOperation}, revision : Nat, scene : Scenes]]

\* The types of the calls and of the cache.
CallTypes ==
  /\ epoch \in Nat \ {0}
  /\ cache \subseteq Entry /\ Cardinality(cache) <= CacheLimit
  /\ writes \in Seq(Keys) /\ expired \in 0 .. Len(writes)
  /\ phase \in [Calls -> {"idle", "importing", "acted", "answered", "replayed", "refused", "lost"}]
  /\ key \in [Calls -> Keys]
  /\ args \in [Calls -> Arguments]
  /\ began \in [Calls -> 0 .. epoch]
  /\ source \in [Calls -> Calls]

\* The two make up TypeOK.
LEMMA TypesSplit == TypeOK <=> SceneTypes /\ CallTypes
  BY DEF TypeOK, SceneTypes, CallTypes

\* An entry is that of its write and of its call, and the only one of its key.
CacheOK ==
  /\ IsFiniteSet(cache)
  /\ \A e \in cache : /\ e.key = writes[e.at]
                      /\ e.key = key[e.by] /\ e.args = args[e.by] /\ phase[e.by] = "answered"
  /\ \A e, f \in cache : e.key = f.key => e = f

\* A call that was made has the key of the epoch it began in; an answer that was replayed
\* is that of an answered call.
CallsOK ==
  \A c \in Calls : /\ phase[c] # "idle" => key[c][2] = began[c]
                   /\ phase[c] = "replayed" => phase[source[c]] = "answered"

\* Until a reset runs, a valid token's revision is that of the scene it was issued on.
TokensOK ==
  \/ \E u \in Tokens : token[u] = "running"
  \/ \A t \in Tokens : token[t] = "valid" =>
       /\ issued[t].revision <= revision
       /\ issued[t].revision = revision => issued[t].scene = scene

CallInv  == CallTypes /\ CacheOK /\ CallsOK /\ AnswersAreKept /\ ReplayIsOfThisEpoch
\* What holds of the scene and the tokens; then of both halves of the module.
SceneInv == SceneTypes /\ TokensOK
IInv     == CallInv /\ SceneInv

-----------------------------------------------------------------------------
(* The scene and the tokens *)

\* More changes, more scenes.
LEMMA ScenesGrow == ASSUME changes \in Nat, changes' \in Nat, changes <= changes'
                    PROVE  Scenes \subseteq Scenes' /\ Changes \subseteq Changes'
  BY DEF Scenes, Changes

\* A commit is a new change, and a revision above the last.
LEMMA CommitOK == ASSUME SceneTypes, NEW shown \in Scenes, Commit(shown)
                  PROVE  /\ changes' \in Nat /\ changes' = changes + 1 /\ changes' \in Changes'
                         /\ scene' \in Scenes' /\ revision' \in Nat /\ revision' = revision + 1
                         /\ Scenes \subseteq Scenes' /\ Changes \subseteq Changes'
  BY ReplayAssumption DEF SceneTypes, Commit, Scenes, Changes

\* A call leaves the tokens alone and the revision alone or one higher.
LEMMA CallLeavesTokens ==
  ASSUME SceneInv, UNCHANGED tokenVars,
         (revision' = revision /\ scene' = scene) \/ revision' = revision + 1
  PROVE  TokensOK'
  BY DEF SceneInv, SceneTypes, TokensOK, tokenVars

\* A call has arguments that fit its slot.
LEMMA CallCases ==
  ASSUME NextCall
  PROVE  \E c \in Calls :
           \/ \E s \in Slots : \E a \in ArgsOf(s) :
                Replay(c, s, a) \/ Conflict(c, s, a) \/ Refuse(c, s, a) \/ Send(c, s, a) \/ Apply(c, s, a)
           \/ Replace(c) \/ Fail(c) \/ Remember(c)
  BY DEF NextCall, Replay, Conflict, Refuse, Send, Apply, Run, Begin

\* The scene keeps its types and the tokens their meaning in every call.
LEMMA SceneNextCall == SceneInv /\ NextCall => SceneInv'
<1> SUFFICES ASSUME SceneInv, NextCall PROVE SceneInv' OBVIOUS
<1> USE ReplayAssumption
<1>a. SceneTypes BY DEF SceneInv
<1>1. ASSUME NEW c \in Calls, NEW s \in Slots, NEW a \in ArgsOf(s),
             Replay(c, s, a) \/ Conflict(c, s, a) \/ Refuse(c, s, a)
      PROVE  SceneInv'
  <2>1. UNCHANGED <<sceneVars, base, made, seen, tokenVars>>
    BY <1>1 DEF Replay, Conflict, Refuse, Run
  <2>2. SceneTypes' BY <2>1, <1>a DEF SceneTypes, sceneVars, tokenVars, Scenes, Changes
  <2>3. TokensOK' BY <2>1, CallLeavesTokens DEF sceneVars
  <2> QED BY <2>2, <2>3 DEF SceneInv
<1>2. ASSUME NEW c \in Calls, NEW s \in Slots, NEW a \in ArgsOf(s), Send(c, s, a)
      PROVE  SceneInv'
  <2>1. /\ Commit(scene) /\ made' = made \cup {<<c, changes'>>}
        /\ UNCHANGED <<base, seen, tokenVars>>
    BY <1>2 DEF Send, Run
  <2>2. SceneTypes' BY <2>1, <1>a, CommitOK DEF SceneTypes, tokenVars
  <2>3. TokensOK' BY <2>1, <1>a, CommitOK, CallLeavesTokens DEF SceneTypes
  <2> QED BY <2>2, <2>3 DEF SceneInv
<1>3. ASSUME NEW c \in Calls, NEW s \in Slots, NEW a \in ArgsOf(s), Apply(c, s, a)
      PROVE  SceneInv'
  <2>1. /\ UNCHANGED <<sceneVars, made, seen, tokenVars>>
        /\ base' = [base EXCEPT ![c] = scene]
    BY <1>3 DEF Apply, Run
  <2>2. SceneTypes' BY <2>1, <1>a DEF SceneTypes, sceneVars, tokenVars, Scenes, Changes
  <2>3. TokensOK' BY <2>1, CallLeavesTokens DEF sceneVars
  <2> QED BY <2>2, <2>3 DEF SceneInv
<1>4. ASSUME NEW c \in Calls, Replace(c) PROVE SceneInv'
  <2>1. /\ Commit(base[c]) /\ base[c] \in Scenes /\ made' = made \cup {<<c, changes'>>}
        /\ UNCHANGED <<base, seen, tokenVars>>
    BY <1>4, <1>a DEF Replace, SceneTypes
  <2>2. SceneTypes' BY <2>1, <1>a, CommitOK DEF SceneTypes, tokenVars
  <2>3. TokensOK' BY <2>1, <1>a, CommitOK, CallLeavesTokens
  <2> QED BY <2>2, <2>3 DEF SceneInv
<1>5. ASSUME NEW c \in Calls, Fail(c) \/ Remember(c) PROVE SceneInv'
  <2>1. UNCHANGED <<sceneVars, base, made, seen, tokenVars>> BY <1>5 DEF Fail, Remember
  <2>2. SceneTypes' BY <2>1, <1>a DEF SceneTypes, sceneVars, tokenVars, Scenes, Changes
  <2>3. TokensOK' BY <2>1, CallLeavesTokens DEF sceneVars
  <2> QED BY <2>2, <2>3 DEF SceneInv
<1> QED BY <1>1, <1>2, <1>3, <1>4, <1>5, CallCases

\* Likewise in every other step: a reset is followed by the rotation that voids all tokens.
LEMMA SceneNextOther ==
  ASSUME SceneInv,
         \/ NextDestructive \/ (\E s \in Applies : ReadScene(s))
         \/ Expire \/ OthersAct \/ Restart \/ UNCHANGED vars
  PROVE  SceneInv'
<1> USE ReplayAssumption
<1>a. SceneTypes BY DEF SceneInv
<1>1. ASSUME NEW t \in Tokens, NEW o \in Operations, Prepare(t, o) PROVE SceneInv'
  <2>1. SceneTypes'
    BY <1>1, <1>a DEF Prepare, SceneTypes, sceneVars, callVars, tokenVars, Scenes, Changes
  <2>2. /\ \A u \in Tokens : (token'[u] = "running") = (token[u] = "running")
        /\ \A u \in Tokens \ {t} : token'[u] = token[u] /\ issued'[u] = issued[u]
        /\ issued'[t].revision = revision /\ issued'[t].scene = scene
        /\ UNCHANGED <<revision, scene>>
    BY <1>1, <1>a DEF Prepare, SceneTypes, sceneVars
  <2>3. TokensOK' BY <2>2, <1>a DEF SceneInv, TokensOK, SceneTypes
  <2> QED BY <2>1, <2>3 DEF SceneInv
<1>2. ASSUME NEW t \in Tokens, Void(t) PROVE SceneInv'
  <2>1. SceneTypes'
    BY <1>2, <1>a DEF Void, SceneTypes, sceneVars, callVars, tokenVars, Scenes, Changes
  <2>2. TokensOK' BY <1>2, <1>a DEF Void, SceneInv, TokensOK, SceneTypes, sceneVars
  <2> QED BY <2>1, <2>2 DEF SceneInv
<1>3. ASSUME NEW t \in Tokens, Confirm(t) PROVE SceneInv'
  <2>1. /\ changes' \in Nat /\ scene' \in Scenes' /\ revision' \in Nat
        /\ Scenes \subseteq Scenes' /\ Changes \subseteq Changes'
    <3>1. CASE ResetScene BY <3>1, <1>a DEF ResetScene, SceneTypes, Scenes, Changes
    <3>2. CASE Commit({})
      <4>1. {} \in Scenes BY DEF Scenes
      <4> QED BY <3>2, <4>1, <1>a, CommitOK
    <3> QED BY <1>3, <3>1, <3>2 DEF Confirm
  <2>2. /\ token' = [token EXCEPT ![t] = "running"]
        /\ UNCHANGED <<base, made, seen, issued>>
    BY <1>3 DEF Confirm, callVars
  <2>3. SceneTypes' BY <2>1, <2>2, <1>a DEF SceneTypes
  <2>4. TokensOK' BY <2>2, <1>a DEF TokensOK, SceneTypes
  <2> QED BY <2>3, <2>4 DEF SceneInv
<1>4. ASSUME NEW t \in Tokens, Rotate(t) PROVE SceneInv'
  <2>1. \A u \in Tokens : token'[u] # "valid" /\ token'[u] \in {"none", "running", "gone"}
    BY <1>4, <1>a DEF Rotate, Forgotten, SceneTypes
  <2>2. token' \in [Tokens -> {"none", "valid", "running", "gone"}]
    BY <1>4, <1>a DEF Rotate, Forgotten, SceneTypes
  <2>3. SceneTypes'
    BY <1>4, <2>2, <1>a DEF Rotate, SceneTypes, sceneVars, callVars, Scenes, Changes
  <2> QED BY <2>1, <2>3 DEF SceneInv, TokensOK
<1>5. ASSUME NEW s \in Applies, ReadScene(s) PROVE SceneInv'
  <2>1. SceneTypes'
    BY <1>5, <1>a DEF ReadScene, SceneTypes, sceneVars, callVars, tokenVars, Scenes, Changes
  <2>2. TokensOK' BY <1>5, CallLeavesTokens DEF ReadScene, sceneVars
  <2> QED BY <2>1, <2>2 DEF SceneInv
<1>6. CASE Expire \/ UNCHANGED vars
  <2>1. UNCHANGED <<sceneVars, base, made, seen, tokenVars>> BY <1>6 DEF Expire, callVars, vars
  <2>2. SceneTypes' BY <2>1, <1>a DEF SceneTypes, sceneVars, tokenVars, Scenes, Changes
  <2>3. TokensOK' BY <2>1, CallLeavesTokens DEF sceneVars
  <2> QED BY <2>2, <2>3 DEF SceneInv
<1>7. CASE OthersAct
  <2>1. Commit(scene) /\ UNCHANGED <<base, made, seen, tokenVars>> BY <1>7 DEF OthersAct, callVars
  <2>2. SceneTypes' BY <2>1, <1>a, CommitOK DEF SceneTypes, tokenVars
  <2>3. TokensOK' BY <2>1, <1>a, CommitOK, CallLeavesTokens DEF SceneTypes
  <2> QED BY <2>2, <2>3 DEF SceneInv
<1>8. CASE Restart
  <2>1. /\ \A u \in Tokens : token'[u] # "valid"
        /\ token' \in [Tokens -> {"none", "valid", "running", "gone"}]
    BY <1>8, <1>a DEF Restart, SceneTypes
  <2>2. SceneTypes' BY <1>8, <2>1, <1>a DEF Restart, SceneTypes, sceneVars, Scenes, Changes
  <2> QED BY <2>1, <2>2 DEF SceneInv, TokensOK
<1> QED BY <1>1, <1>2, <1>3, <1>4, <1>5, <1>6, <1>7, <1>8 DEF NextDestructive

-----------------------------------------------------------------------------
(* The calls and the cache *)

\* How far a call can have come.
Phases == {"idle", "importing", "acted", "answered", "replayed", "refused", "lost"}

\* The key of a write is of this epoch or an earlier one.
LEMMA WriteEpoch == ASSUME CallTypes, NEW i \in 1 .. Len(writes)
                    PROVE  writes[i] \in Keys /\ writes[i][2] \in 0 .. epoch
<1>1. writes[i] \in Keys BY DEF CallTypes
<1>2. \A k \in Keys : k[2] \in 0 .. epoch BY DEF Keys, NoKey, CallTypes
<1> QED BY <1>1, <1>2

\* Who has not been answered yet can change in any way that keeps its key and epoch together;
\* what has expired may leave the cache.
LEMMA OneCallChanges ==
  ASSUME CallInv, NEW c \in Calls, phase[c] \in {"idle", "importing"},
         UNCHANGED <<epoch, expired, writes>>,
         cache' \in SUBSET cache, \A e \in cache \ cache' : e.at <= expired,
         phase' \in [Calls -> Phases], key' \in [Calls -> Keys], args' \in [Calls -> Arguments],
         began' \in [Calls -> 0 .. epoch], source' \in [Calls -> Calls],
         \A d \in Calls \ {c} : /\ phase'[d] = phase[d] /\ key'[d] = key[d] /\ args'[d] = args[d]
                               /\ began'[d] = began[d] /\ source'[d] = source[d],
         phase'[c] \in {"importing", "acted", "refused", "replayed"}, key'[c][2] = began'[c],
         phase'[c] = "replayed" => /\ phase[source'[c]] = "answered"
                                   /\ began[source'[c]] = began'[c] /\ args[source'[c]] = args'[c]
  PROVE  CallInv'
<1> USE ReplayAssumption
<1>a. CallTypes /\ CacheOK /\ CallsOK BY DEF CallInv
<1>1. CallTypes'
  <2>1. Keys' = Keys /\ Entry' = Entry BY DEF Keys, Entry
  <2>2. Cardinality(cache') <= CacheLimit
    <3>1. Cardinality(cache') <= Cardinality(cache) /\ IsFiniteSet(cache')
      BY <1>a, FS_Subset DEF CacheOK
    <3>2. Cardinality(cache) \in Nat /\ Cardinality(cache') \in Nat
      BY <1>a, <3>1, FS_CardinalityType DEF CacheOK
    <3> QED BY <1>a, <3>1, <3>2 DEF CallTypes
  <2> QED BY <2>1, <2>2, <1>a DEF CallTypes, Phases
<1>2. CacheOK'
  <2>1. IsFiniteSet(cache') BY <1>a, FS_Subset DEF CacheOK
  <2>2. \A e \in cache' : e.by \in Calls \ {c} BY <1>a DEF CacheOK, CallTypes, Entry
  <2> QED BY <2>1, <2>2, <1>a DEF CacheOK
<1>3. CallsOK'
  <2>1. \A d \in Calls : phase[d] = "answered" => phase'[d] = "answered" OBVIOUS
  <2>2. \A d \in Calls : source[d] \in Calls /\ source'[d] \in Calls BY <1>a DEF CallTypes
  <2> QED BY <2>1, <2>2, <1>a DEF CallsOK
<1>4. AnswersAreKept'
  <2> SUFFICES ASSUME NEW i \in 1 .. Len(writes), Promised(i)'
               PROVE  \E e \in cache' : e.key = writes[i] /\ e.at = i
    BY DEF AnswersAreKept
  <2>1. Promised(i) BY DEF Promised
  <2>2. PICK e \in cache : e.key = writes[i] /\ e.at = i BY <2>1 DEF CallInv, AnswersAreKept
  <2>3. ~(i <= expired) BY <2>1, <1>a DEF Promised, CallTypes
  <2> QED BY <2>2, <2>3
<1>5. ReplayIsOfThisEpoch'
  <2> SUFFICES ASSUME NEW d \in Calls, phase'[d] = "replayed"
               PROVE  began'[source'[d]] = began'[d] /\ args'[source'[d]] = args'[d]
    BY DEF ReplayIsOfThisEpoch
  <2>1. phase[source'[d]] = "answered" BY <1>a DEF CallsOK
  <2>2. source'[d] \in Calls \ {c} BY <2>1
  <2> QED BY <2>2 DEF CallInv, ReplayIsOfThisEpoch
<1> QED BY <1>1, <1>2, <1>3, <1>4, <1>5 DEF CallInv

\* What the cache and the calls are made of is left alone.
LEMMA CallsAlone == ASSUME CallInv, UNCHANGED <<epoch, cacheVars, phase, key, args, began, source>>
                    PROVE  CallInv'
<1> USE DEF cacheVars
<1>1. CallTypes' BY DEF CallInv, CallTypes, Keys, Entry
<1>2. CacheOK' /\ CallsOK' BY DEF CallInv, CacheOK, CallsOK
<1>3. AnswersAreKept' BY DEF CallInv, AnswersAreKept, Promised
<1>4. ReplayIsOfThisEpoch' BY DEF CallInv, ReplayIsOfThisEpoch
<1> QED BY <1>1, <1>2, <1>3, <1>4 DEF CallInv

\* A call begins under the key of its slot in this epoch.
LEMMA BeginOK ==
  ASSUME CallInv, SceneTypes, NEW c \in Calls, NEW s \in Slots, NEW a \in ArgsOf(s), Begin(c, s, a)
  PROVE  /\ phase[c] = "idle"
         /\ key' \in [Calls -> Keys] /\ args' \in [Calls -> Arguments] /\ began' \in [Calls -> 0 .. epoch]
         /\ key'[c] = <<s, epoch>> /\ args'[c] = a /\ began'[c] = epoch /\ key'[c][2] = began'[c]
         /\ \A d \in Calls \ {c} : key'[d] = key[d] /\ args'[d] = args[d] /\ began'[d] = began[d]
<1>1. a \in Arguments BY DEF ArgsOf, SceneTypes, Arguments
<1>2. <<s, epoch>> \in Keys BY DEF Keys, CallInv, CallTypes
<1> QED BY <1>1, <1>2 DEF Begin, KeyOf, CallInv, CallTypes

\* A replayed answer is that of an entry of this epoch.
LEMMA ReplayStep ==
  ASSUME CallInv, SceneTypes, NEW c \in Calls, NEW s \in Slots, NEW a \in ArgsOf(s), Replay(c, s, a)
  PROVE  CallInv'
<1>a. CallTypes /\ CacheOK /\ CallsOK BY DEF CallInv
<1>b. Begin(c, s, a) BY DEF Replay
<1>1. PICK e \in Hits(s) : e.args = a /\ source' = [source EXCEPT ![c] = e.by] BY DEF Replay
<1>2. /\ e \in cache /\ e.by \in Calls /\ key[e.by] = <<s, epoch>>
      /\ args[e.by] = a /\ phase[e.by] = "answered"
  BY <1>1, <1>a DEF Hits, KeyOf, CacheOK, CallTypes, Entry
<1>3. began[e.by] = epoch
  <2>1. key[e.by][2] = began[e.by] BY <1>2, <1>a DEF CallsOK
  <2> QED BY <1>2, <2>1
<1>4. /\ phase' = [phase EXCEPT ![c] = "replayed"] /\ UNCHANGED <<epoch, cache, expired, writes>>
  BY DEF Replay, cacheVars
<1>5. /\ phase' \in [Calls -> Phases] /\ phase'[c] = "replayed"
      /\ source' \in [Calls -> Calls] /\ source'[c] = e.by
      /\ \A d \in Calls \ {c} : phase'[d] = phase[d] /\ source'[d] = source[d]
  BY <1>1, <1>2, <1>4, <1>a DEF CallTypes, Phases
<1> QED BY <1>b, BeginOK, <1>2, <1>3, <1>4, <1>5, OneCallChanges

\* A call that is refused, or begins to run, takes at most an expired entry with it.
LEMMA BeginStep ==
  ASSUME CallInv, SceneTypes, NEW c \in Calls, NEW s \in Slots, NEW a \in ArgsOf(s),
         Conflict(c, s, a) \/ Refuse(c, s, a) \/ Send(c, s, a) \/ Apply(c, s, a)
  PROVE  CallInv'
<1>a. CallTypes BY DEF CallInv
<1>1. /\ Begin(c, s, a) /\ UNCHANGED <<epoch, expired, writes, source>>
      /\ \/ phase' = [phase EXCEPT ![c] = "refused"]
         \/ phase' = [phase EXCEPT ![c] = "acted"]
         \/ phase' = [phase EXCEPT ![c] = "importing"]
  BY DEF Conflict, Refuse, Send, Apply, Run, cacheVars
<1>2. cache' \in SUBSET cache /\ \A e \in cache \ cache' : e.at <= expired
  <2>1. CASE cache' = cache BY <2>1
  <2>2. CASE Hits(s) = {} /\ cache' = Without(s)
    <3>1. \A e \in cache : e.at \in Nat /\ expired \in Nat BY <1>a DEF CallTypes, Entry
    <3> QED BY <2>2, <3>1 DEF Hits, Without
  <2> QED BY <2>1, <2>2 DEF Conflict, Refuse, Send, Apply, Run, cacheVars
<1>3. /\ phase' \in [Calls -> Phases] /\ phase'[c] \in {"importing", "acted", "refused"}
      /\ \A d \in Calls \ {c} : phase'[d] = phase[d]
      /\ source' \in [Calls -> Calls] /\ \A d \in Calls \ {c} : source'[d] = source[d]
  BY <1>1, <1>a DEF CallTypes, Phases
<1> QED BY <1>1, <1>2, <1>3, BeginOK, OneCallChanges

\* A call goes on after its await, or fails.
LEMMA AfterAwaitStep == ASSUME CallInv, NEW c \in Calls, Replace(c) \/ Fail(c)
                        PROVE  CallInv'
<1>a. CallTypes /\ CallsOK BY DEF CallInv
<1>1. /\ phase[c] = "importing" /\ UNCHANGED <<epoch, expired, writes, cache, key, args, began, source>>
      /\ phase' = [phase EXCEPT ![c] = "acted"] \/ phase' = [phase EXCEPT ![c] = "refused"]
  BY DEF Replace, Fail, cacheVars
<1>2. /\ phase' \in [Calls -> Phases] /\ phase'[c] \in {"acted", "refused"}
      /\ \A d \in Calls \ {c} : phase'[d] = phase[d]
  BY <1>1, <1>a DEF CallTypes, Phases
<1>3. key'[c][2] = began'[c] BY <1>1, <1>a DEF CallsOK
<1> QED BY <1>1, <1>2, <1>3, <1>a, OneCallChanges DEF CallTypes

\* An expiry breaks no promise: the promise ends with it.
LEMMA ExpireStep == CallInv /\ Expire => CallInv'
<1> SUFFICES ASSUME CallInv, Expire PROVE CallInv' OBVIOUS
<1>a. CallTypes BY DEF CallInv
<1>1. /\ expired' = expired + 1 /\ expired \in Nat /\ expired' \in 0 .. Len(writes)
      /\ UNCHANGED <<epoch, cache, writes, phase, key, args, began, source>>
  BY <1>a DEF Expire, callVars, CallTypes
<1>2. CallTypes' BY <1>1, <1>a DEF CallTypes, Keys, Entry
<1>3. CacheOK' /\ CallsOK' /\ ReplayIsOfThisEpoch'
  BY <1>1 DEF CallInv, CacheOK, CallsOK, ReplayIsOfThisEpoch
<1>4. AnswersAreKept'
  <2> SUFFICES ASSUME NEW i \in 1 .. Len(writes), Promised(i)'
               PROVE  \E e \in cache : e.key = writes[i] /\ e.at = i
    BY <1>1 DEF AnswersAreKept
  <2>1. Promised(i) BY <1>1 DEF Promised
  <2> QED BY <2>1 DEF CallInv, AnswersAreKept
<1> QED BY <1>2, <1>3, <1>4 DEF CallInv

\* A new epoch breaks no promise: no answer of it was written yet.
LEMMA NewEpochStep == ASSUME CallInv, (\E t \in Tokens : Rotate(t)) \/ Restart
                      PROVE  CallInv'
<1>a. CallTypes BY DEF CallInv
<1>1. /\ epoch' = epoch + 1 /\ cache' = {}
      /\ UNCHANGED <<expired, writes, key, args, began, source>>
  BY DEF Rotate, Restart, NewEpoch, callVars
<1>2. /\ phase' \in [Calls -> Phases]
      /\ \A c \in Calls : /\ phase[c] = "idle" => phase'[c] = "idle"
                          /\ phase'[c] = "replayed" => phase[c] = "replayed"
                          /\ phase[c] = "answered" => phase'[c] = "answered"
  BY <1>a DEF Rotate, Restart, callVars, CallTypes, Phases
<1>3. CallTypes'
  <2>1. Keys \subseteq Keys' BY <1>1, <1>a DEF Keys, CallTypes
  <2>2. Cardinality(cache') <= CacheLimit BY <1>1, FS_EmptySet, ReplayAssumption
  <2>3. writes' \in Seq(Keys') BY <1>1, <1>a, <2>1 DEF CallTypes
  <2> QED BY <1>1, <1>2, <2>1, <2>2, <2>3, <1>a DEF CallTypes, Phases
<1>4. CacheOK' BY <1>1, FS_EmptySet DEF CacheOK
<1>5. CallsOK'
  <2>0. CallsOK BY DEF CallInv
  <2> SUFFICES ASSUME NEW c \in Calls
               PROVE  /\ phase'[c] # "idle" => key[c][2] = began[c]
                      /\ phase'[c] = "replayed" => phase'[source[c]] = "answered"
    BY <1>1 DEF CallsOK
  <2>1. source[c] \in Calls BY <1>a DEF CallTypes
  <2>2. phase'[c] # "idle" => key[c][2] = began[c] BY <1>2, <2>0 DEF CallsOK
  <2>3. phase'[c] = "replayed" => phase[source[c]] = "answered" BY <1>2, <2>0 DEF CallsOK
  <2> QED BY <1>2, <2>1, <2>2, <2>3
<1>6. AnswersAreKept'
  <2>1. \A i \in 1 .. Len(writes) : writes[i][2] # epoch + 1
    <3> TAKE i \in 1 .. Len(writes)
    <3>1. writes[i][2] \in 0 .. epoch /\ epoch \in Nat BY <1>a, WriteEpoch DEF CallTypes
    <3> QED BY <3>1
  <2> QED BY <1>1, <2>1 DEF AnswersAreKept, Promised
<1>7. ReplayIsOfThisEpoch' BY <1>1, <1>2 DEF CallInv, ReplayIsOfThisEpoch
<1> QED BY <1>3, <1>4, <1>5, <1>6, <1>7 DEF CallInv

\* A function from an interval of naturals has a finite range.
LEMMA FiniteRange == ASSUME NEW s, NEW i \in Nat, NEW n \in Nat
                     PROVE  IsFiniteSet({s[j] : j \in i + 1 .. n})
<1> DEFINE J == i + 1 .. n
           W == {s[j] : j \in J}
           f == [j \in J |-> s[j]]
<1>2. IsFiniteSet(J) BY FS_Interval
<1>3. f \in Surjection(J, W) BY DEF Surjection
<1> HIDE DEF J, W, f
<1>4. IsFiniteSet(W) BY <1>2, <1>3, FS_Surjection
<1> QED BY <1>4 DEF W, J

\* Remember keeps the cache in order: the step where an answer is written.
LEMMA RememberStep == ASSUME CallInv, NEW c \in Calls, Remember(c)
                      PROVE  CallInv'
<1> USE ReplayAssumption
<1> DEFINE n    == Len(writes)
           new  == NewEntry(c)
           old  == {e \in cache : e.at > expired /\ e.key # key[c]}
           kept == old \cup {new}
<1>a. CallTypes /\ CacheOK /\ CallsOK BY DEF CallInv
<1>b. /\ phase[c] = "acted" /\ phase' = [phase EXCEPT ![c] = "answered"]
      /\ writes' = Append(writes, key[c]) /\ Store(kept)
      /\ UNCHANGED <<epoch, expired, key, args, began, source>>
  BY DEF Remember
<1>c. /\ n \in Nat /\ key[c] \in Keys /\ args[c] \in Arguments
      /\ writes' \in Seq(Keys) /\ Len(writes') = n + 1 /\ writes'[n + 1] = key[c]
      /\ \A j \in 1 .. n : writes'[j] = writes[j]
  BY <1>a, <1>b DEF CallTypes
<1>d. /\ new.key = key[c] /\ new.args = args[c] /\ new.by = c /\ new.at = n + 1
      /\ new \in [key : Keys, args : Arguments, by : Calls, at : 1 .. n + 1]
  BY <1>c DEF NewEntry
<1>e. \A e \in cache : /\ e.at \in 1 .. n /\ e.by \in Calls /\ e.by # c
                      /\ e \in [key : Keys, args : Arguments, by : Calls, at : 1 .. n + 1]
  BY <1>a, <1>b, <1>c DEF CallTypes, CacheOK, Entry
<1> HIDE DEF n, new
<1>f. cache' \in SUBSET kept BY <1>b DEF Store
<1>g. IsFiniteSet(old) /\ Cardinality(old) \in Nat /\ Cardinality(old) <= Cardinality(cache)
  BY <1>a, FS_Subset, FS_CardinalityType DEF CacheOK
<1>h. /\ IsFiniteSet(kept) /\ Cardinality(kept) \in Nat /\ Cardinality(kept) <= Cardinality(old) + 1
  <2>1. /\ IsFiniteSet(kept)
        /\ Cardinality(kept) = IF new \in old THEN Cardinality(old) ELSE Cardinality(old) + 1
    BY <1>g, FS_AddElement
  <2> QED BY <2>1, <1>g
<1>i. /\ \A e \in kept : e.key = writes'[e.at]
      /\ \A e, f \in kept : e.key = f.key => e = f
  BY <1>a, <1>c, <1>d, <1>e DEF CacheOK
<1> HIDE DEF old
<1>1. CallTypes'
  <2>1. Keys' = Keys BY <1>b DEF Keys
  <2>2. \A e \in kept : e \in [key : Keys, args : Arguments, by : Calls, at : 1 .. n + 1]
    BY <1>d, <1>e DEF old
  <2>3. cache' \subseteq Entry' BY <2>1, <2>2, <1>c, <1>f DEF Entry
  <2>4. Cardinality(cache') <= CacheLimit
    <3>0. Cardinality(cache) <= CacheLimit /\ Cardinality(cache) \in Nat
      BY <1>a, FS_CardinalityType DEF CallTypes, CacheOK
    <3>1. CASE Cardinality(kept) <= CacheLimit /\ cache' = kept BY <3>1
    <3>2. ASSUME NEW e \in kept, cache' = kept \ {e} PROVE Cardinality(cache') <= CacheLimit
      <4>1. Cardinality(kept \ {e}) = Cardinality(kept) - 1
        BY <1>h, FS_RemoveElement
      <4> QED BY <3>0, <3>2, <4>1, <1>g, <1>h
    <3> QED BY <1>b, <3>1, <3>2 DEF Store
  <2>5. phase' \in [Calls -> Phases] BY <1>a, <1>b DEF CallTypes, Phases
  <2>6. expired' \in 0 .. Len(writes') BY <1>a, <1>b, <1>c DEF CallTypes, n
  <2> QED BY <2>1, <2>3, <2>4, <2>5, <2>6, <1>a, <1>b, <1>c DEF CallTypes, Phases
<1>2. CacheOK'
  <2>1. IsFiniteSet(cache') BY <1>f, <1>h, FS_Subset
  <2>2. \A e \in kept : e.key = key[e.by] /\ e.args = args[e.by] /\ phase'[e.by] = "answered"
    <3>1. \A e \in old : e.key = key[e.by] /\ e.args = args[e.by] /\ phase'[e.by] = "answered"
      BY <1>a, <1>b, <1>e DEF CacheOK, CallTypes, old
    <3>2. phase'[c] = "answered" BY <1>a, <1>b DEF CallTypes
    <3> QED BY <3>1, <3>2, <1>d
  <2> QED BY <2>1, <2>2, <1>b, <1>f, <1>i DEF CacheOK
<1>3. CallsOK' /\ ReplayIsOfThisEpoch'
  <2>1. \A d \in Calls : /\ source[d] \in Calls
                         /\ phase'[d] = "replayed" => phase[d] = "replayed"
                         /\ phase'[d] # "idle" => phase[d] # "idle"
                         /\ phase[d] = "answered" => phase'[d] = "answered"
    BY <1>a, <1>b DEF CallTypes
  <2> QED BY <2>1, <1>a, <1>b DEF CallInv, CallsOK, ReplayIsOfThisEpoch
<1>4. AnswersAreKept'
  <2> SUFFICES ASSUME NEW i \in 1 .. n + 1, Promised(i)'
               PROVE  \E e \in cache' : e.key = writes'[i] /\ e.at = i
    BY <1>c DEF AnswersAreKept
  <2> DEFINE W == {writes'[j] : j \in i + 1 .. n + 1}
  <2>0. i > expired /\ (\A j \in i + 1 .. n + 1 : writes'[j] # writes'[i])
    BY <1>b, <1>c DEF Promised
  <2>w. Cardinality(W) < CacheLimit BY <1>c DEF Promised
  <2>f. IsFiniteSet(W)
    <3>1. i \in Nat /\ n + 1 \in Nat BY <1>c
    <3> QED BY <3>1, FiniteRange
  <2>n. Cardinality(W) \in Nat BY <2>f, FS_CardinalityType
  <2> HIDE DEF W
  <2>1. PICK e \in kept : e.key = writes'[i] /\ e.at = i
    <3>1. CASE i = n + 1 BY <3>1, <1>c, <1>d
    <3>2. CASE i \in 1 .. n
      <4> DEFINE V == {writes[j] : j \in i + 1 .. n}
      <4>1. V \in SUBSET W BY <3>2, <1>c DEF W
      <4>2. Cardinality(V) <= Cardinality(W) /\ IsFiniteSet(V) BY <4>1, <2>f, FS_Subset
      <4>3. Cardinality(V) \in Nat BY <4>2, FS_CardinalityType
      <4>4. Cardinality(V) < CacheLimit BY <4>2, <4>3, <2>w, <2>n
      <4>5. \A j \in i + 1 .. n : writes[j] # writes[i] BY <3>2, <2>0, <1>c
      <4>6. writes[i][2] = epoch BY <3>2, <1>b, <1>c DEF Promised
      <4>7. Promised(i) BY <2>0, <4>4, <4>5, <4>6 DEF Promised, n
      <4>8. PICK e \in cache : e.key = writes[i] /\ e.at = i
        BY <3>2, <4>7 DEF CallInv, AnswersAreKept, n
      <4>9. writes[i] # key[c] BY <3>2, <2>0, <1>c
      <4>10. e \in old BY <4>8, <4>9, <2>0 DEF old
      <4> QED BY <4>8, <4>10, <3>2, <1>c
    <3> QED BY <3>1, <3>2, <1>c
  <2>2. CASE cache' = kept BY <2>1, <2>2
  <2>3. ASSUME NEW d \in kept, \A f \in kept : d.at <= f.at,
               Cardinality(kept) > CacheLimit, cache' = kept \ {d}
        PROVE  e \in cache'
    <3> SUFFICES ASSUME e = d PROVE FALSE BY <2>1, <2>3
    <3> DEFINE R == kept \ {e}
               g == [f \in R |-> f.key]
    <3>1. \A f \in R : f.at \in i + 1 .. n + 1
      <4> TAKE f \in R
      <4>1. f.at \in 1 .. n + 1 /\ f.at >= i BY <2>1, <2>3, <1>c, <1>d, <1>e DEF old
      <4>2. f.at # i BY <2>1, <1>i
      <4> QED BY <4>1, <4>2, <1>c
    <3>2. \A f \in R : f.key \in W BY <3>1, <1>i DEF W
    <3>3. g \in Injection(R, W) BY <3>2, <1>i DEF Injection, IsInjective
    <3> HIDE DEF g
    <3>4. Cardinality(R) <= Cardinality(W) BY <3>3, <2>f, FS_Injection
    <3>5. Cardinality(R) = Cardinality(kept) - 1 BY <1>h, FS_RemoveElement
    <3> QED BY <3>4, <3>5, <2>3, <2>w, <2>n, <1>h
  <2> QED BY <2>1, <2>2, <2>3, <1>b DEF Store
<1> QED BY <1>1, <1>2, <1>3, <1>4 DEF CallInv

-----------------------------------------------------------------------------
(* Theorems *)

\* Initially the cache is empty, no token is issued and the scene is that of revision 0.
LEMMA InitIInv == Init => IInv
<1> SUFFICES ASSUME Init PROVE IInv OBVIOUS
<1> USE ReplayAssumption DEF Init
<1>1. SceneTypes
  BY DEF SceneTypes, Scenes, Changes, NoOperation
<1>2. TokensOK BY DEF TokensOK
<1>3. CallTypes
  <2>1. Cardinality(cache) <= CacheLimit BY FS_EmptySet
  <2> QED BY <2>1 DEF CallTypes, Keys, Entry, Arguments
<1>4. CacheOK BY FS_EmptySet DEF CacheOK
<1>5. CallsOK /\ AnswersAreKept /\ ReplayIsOfThisEpoch
  BY DEF CallsOK, AnswersAreKept, ReplayIsOfThisEpoch
<1> QED BY <1>1, <1>2, <1>3, <1>4, <1>5 DEF IInv, CallInv, SceneInv

\* Every step keeps the invariant.
LEMMA NextIInv == IInv /\ [Next]_vars => IInv'
<1> SUFFICES ASSUME IInv, [Next]_vars PROVE IInv' OBVIOUS
<1>a. CallInv /\ SceneInv /\ SceneTypes BY DEF IInv, SceneInv
<1>1. SceneInv' BY <1>a, SceneNextCall, SceneNextOther DEF Next
<1>2. CallInv'
  <2>1. CASE NextCall
    BY <2>1, <1>a, CallCases, ReplayStep, BeginStep, AfterAwaitStep, RememberStep
  <2>2. CASE Expire BY <2>2, <1>a, ExpireStep
  <2>3. CASE (\E t \in Tokens : Rotate(t)) \/ Restart BY <2>3, <1>a, NewEpochStep
  <2>4. CASE \/ \E t \in Tokens : (\E o \in Operations : Prepare(t, o)) \/ Void(t) \/ Confirm(t)
             \/ (\E s \in Applies : ReadScene(s)) \/ OthersAct \/ UNCHANGED vars
    <3>1. UNCHANGED <<epoch, cacheVars, phase, key, args, began, source>>
      BY <2>4 DEF Prepare, Void, Confirm, ReadScene, OthersAct, vars, callVars
    <3> QED BY <3>1, <1>a, CallsAlone
  <2> QED BY <2>1, <2>2, <2>3, <2>4 DEF Next, NextDestructive
<1> QED BY <1>1, <1>2 DEF IInv

\* The inductive invariant holds in every state.
THEOREM IInvHolds == Spec => []IInv
  BY InitIInv, NextIInv, PTL DEF Spec

\* Every variable keeps its type, and the cache never outgrows idempotencyLimit.
THEOREM TypeCorrect == Spec => []TypeOK
<1>1. IInv => TypeOK BY TypesSplit DEF IInv, CallInv, SceneInv
<1> QED BY IInvHolds, <1>1, PTL

\* Within the window the tool descriptions declare, withIdempotency finds the answer.
THEOREM AnswersHold == Spec => []AnswersAreKept
<1>1. IInv => AnswersAreKept BY DEF IInv, CallInv
<1> QED BY IInvHolds, <1>1, PTL

\* No answer is replayed beyond a rotation of the epoch, not even that of a call which
\* was under way when rotateEpoch cleared the cache.
THEOREM ReplayHolds == Spec => []ReplayIsOfThisEpoch
<1>1. IInv => ReplayIsOfThisEpoch BY DEF IInv, CallInv
<1> QED BY IInvHolds, <1>1, PTL

\* withConfirmation runs on the scene its token was issued on, unless another destructive
\* call has run and not rotated yet.
THEOREM ConfirmationHolds == Spec => ReviewedSceneOnly
<1> DEFINE Reviewed ==
      \A t \in Tokens :
        token[t] = "valid" /\ token'[t] = "running" /\ (\A u \in Tokens : token[u] # "running")
          => scene = issued[t].scene
<1>1. IInv /\ [Next]_vars => [Reviewed]_vars
  <2> SUFFICES ASSUME IInv, Next, NEW t \in Tokens, token[t] = "valid", token'[t] = "running",
                      \A u \in Tokens : token[u] # "running"
               PROVE  scene = issued[t].scene
    OBVIOUS
  <2>1. SceneTypes /\ TokensOK BY DEF IInv, SceneInv
  <2>2. Confirm(t)
    <3>1. token' # token OBVIOUS
    <3>2. ASSUME NEW c \in Calls, NEW s \in Slots, NEW a \in ArgsOf(s),
                 \/ Replay(c, s, a) \/ Conflict(c, s, a) \/ Refuse(c, s, a)
                 \/ Send(c, s, a) \/ Apply(c, s, a)
          PROVE  FALSE
      BY <3>1, <3>2 DEF Replay, Conflict, Refuse, Send, Apply, Run, tokenVars
    <3>3. ~NextCall BY <3>1, <3>2, CallCases DEF Replace, Fail, Remember, tokenVars
    <3>4. /\ \A s \in Applies : ~ReadScene(s)
          /\ ~Expire /\ ~OthersAct
      BY <3>1 DEF ReadScene, Expire, OthersAct, tokenVars
    <3>5. ~Restart BY <2>1 DEF Restart, SceneTypes
    <3>6. NextDestructive BY <3>3, <3>4, <3>5 DEF Next
    <3>7. ASSUME NEW u \in Tokens, NEW o \in Operations, Prepare(u, o) PROVE FALSE
      BY <3>7, <2>1 DEF Prepare, SceneTypes
    <3>8. ASSUME NEW u \in Tokens, Void(u) \/ Rotate(u) PROVE FALSE
      BY <3>8, <2>1 DEF Void, Rotate, Forgotten, SceneTypes
    <3>9. ASSUME NEW u \in Tokens, Confirm(u) PROVE u = t
      BY <3>9, <2>1 DEF Confirm, SceneTypes
    <3> QED BY <3>6, <3>7, <3>8, <3>9 DEF NextDestructive
  <2> QED BY <2>1, <2>2 DEF Confirm, Confirmed, TokensOK
<1> QED BY IInvHolds, <1>1, PTL DEF Spec, ReviewedSceneOnly
=============================================================================
