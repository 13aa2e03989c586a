------------------------ MODULE ForwardRequest_proofs ------------------------
(***************************************************************************)
(* Proofs about ForwardRequest for any number of handlers, channels, keys  *)
(* and candidates: the concurrency counter counts what it should, and the  *)
(* failure counter of a breaker stays bounded.                             *)
(***************************************************************************)
EXTENDS ForwardRequest, FiniteSetTheorems, TLAPS

\* The part of the state the counting arguments need: how the shared counters
\* are typed, and that the per-request variables are functions of Requests.
CountingTypeOK ==
    /\ breaker \in [Channels -> BreakerState]
    /\ inflight \in [Channels -> Int]
    /\ DOMAIN pc = Requests /\ pc = [r \in Requests |-> pc[r]]
    /\ DOMAIN plan = Requests /\ plan = [r \in Requests |-> plan[r]]

\* Requests does not change, so every set of requests is finite.
LEMMA FiniteRequests ==
    ASSUME NEW S \in SUBSET Requests
    PROVE  /\ IsFiniteSet(S)
           /\ Cardinality(S) \in Nat
           /\ Cardinality(Requests) \in Nat
           /\ Cardinality(S) <= Cardinality(Requests)
BY ForwardAssumption, FS_Subset, FS_CardinalityType DEF ForwardAssumption

\* What the three results do to a breaker keeps it a breaker.
LEMMA BreakerTypes ==
    ASSUME NEW b \in BreakerState
    PROVE  /\ NewBreaker \in BreakerState
           /\ AfterAllow(b) \in BreakerState
           /\ AfterFailure(b) \in BreakerState
           /\ AfterSuccess(b) \in BreakerState
           /\ AfterTick(b) \in BreakerState
BY BreakerAssumption DEF BreakerAssumption, BreakerState, NewBreaker, AfterAllow,
   AfterFailure, AfterSuccess, AfterTick, Tripped

\* Counting up or down by one leaves a table of counters one.
LEMMA CounterTypes ==
    ASSUME NEW f \in [Channels -> Int], NEW c, NEW P
    PROVE  /\ [f EXCEPT ![c] = IF P THEN @ + 1 ELSE @] \in [Channels -> Int]
           /\ [f EXCEPT ![c] = IF P /\ @ > 0 THEN @ - 1 ELSE @] \in [Channels -> Int]
<1>1. CASE c \in Channels
  BY <1>1
<1>2. CASE c \notin Channels
  BY <1>2
<1> QED
  BY <1>1, <1>2

\* The breakers and counters stay what their Go types allow, and every handler
\* keeps a place and a plan, through every call of forwardRequest.
THEOREM CountingTypeCorrect == Spec => []CountingTypeOK
<1>1. Init => CountingTypeOK
  BY BreakerAssumption DEF BreakerAssumption, Init, CountingTypeOK, BreakerState, NewBreaker
<1>2. CountingTypeOK /\ [Next]_vars => CountingTypeOK'
  <2> SUFFICES ASSUME CountingTypeOK, [Next]_vars PROVE CountingTypeOK'
    OBVIOUS
  <2> USE DEF CountingTypeOK
  <2>1. ASSUME NEW r \in Requests, NEW steps \in Plans, NEW u \in UnhealthySets,
               Begin(r, steps, u)
        PROVE  CountingTypeOK'
    BY <2>1 DEF Begin
  <2>2. ASSUME NEW r \in Requests, Exhausted(r) PROVE CountingTypeOK'
    BY <2>2 DEF Exhausted, Return, shared
  <2>3. ASSUME NEW r \in Requests, Allow(r) PROVE CountingTypeOK'
    BY <2>3, BreakerTypes DEF Allow
  <2>4. ASSUME NEW r \in Requests, CircuitOpen(r) PROVE CountingTypeOK'
    BY <2>4 DEF CircuitOpen, NextCandidate, shared
  <2>5. ASSUME NEW r \in Requests, ConfigurationError(r) PROVE CountingTypeOK'
    BY <2>5 DEF ConfigurationError, NextCandidate, shared
  <2>6. ASSUME NEW r \in Requests, Acquire(r) PROVE CountingTypeOK'
    <3>1. inflight' \in [Channels -> Int]
      BY <2>6, CounterTypes DEF Acquire
    <3> QED
      BY <2>6, <3>1 DEF Acquire
  <2>7. ASSUME NEW r \in Requests, AtLimit(r) PROVE CountingTypeOK'
    BY <2>7 DEF AtLimit, NextCandidate, shared
  <2>8. ASSUME NEW r \in Requests, NextKey(r) PROVE CountingTypeOK'
    BY <2>8 DEF NextKey, LeaveKeys
  <2>9. ASSUME NEW r \in Requests, AllKeysTried(r) PROVE CountingTypeOK'
    BY <2>9 DEF AllKeysTried, LeaveKeys, shared
  <2>10. ASSUME NEW r \in Requests, SkipKey(r) \/ UseKey(r) PROVE CountingTypeOK'
    BY <2>10 DEF SkipKey, UseKey, shared
  <2>11. ASSUME NEW r \in Requests, CallSucceeds(r) PROVE CountingTypeOK'
    BY <2>11 DEF CallSucceeds, LeaveKeys, shared
  <2>12. ASSUME NEW r \in Requests, NEW f \in Failures, CallFails(r, f) PROVE CountingTypeOK'
    BY <2>12 DEF CallFails, LeaveKeys
  <2>13. ASSUME NEW r \in Requests, Release(r) PROVE CountingTypeOK'
    <3>1. inflight' \in [Channels -> Int]
      BY <2>13, CounterTypes DEF Release
    <3> QED
      BY <2>13, <3>1 DEF Release
  <2>14. ASSUME NEW r \in Requests, SettleSuccess(r) PROVE CountingTypeOK'
    BY <2>14, BreakerTypes DEF SettleSuccess, Return
  <2>15. ASSUME NEW r \in Requests, SettleFailure(r) PROVE CountingTypeOK'
    BY <2>15, BreakerTypes DEF SettleFailure, Return, NextCandidate
  <2>16. ASSUME NEW k \in Sessions, SessionExpires(k) PROVE CountingTypeOK'
    BY <2>16 DEF SessionExpires, local
  <2>17. CASE Tick
    BY <2>17, BreakerTypes DEF Tick, local
  <2>18. CASE UNCHANGED vars
    BY <2>18 DEF vars
  <2> QED
    BY <2>1, <2>2, <2>3, <2>4, <2>5, <2>6, <2>7, <2>8, <2>9, <2>10, <2>11, <2>12,
       <2>13, <2>14, <2>15, <2>16, <2>17, <2>18 DEF Next, Progress
<1> QED
  BY <1>1, <1>2, PTL DEF Spec

-----------------------------------------------------------------------------
\* A step that neither changes the counters nor who holds a slot keeps them
\* equal.
LEMMA SameHolders ==
    ASSUME SlotsConserved, inflight' = inflight,
           \A c \in Channels : Holders(c)' = Holders(c)
    PROVE  SlotsConserved'
BY DEF SlotsConserved

\* Acquire counts a request that held no slot, Release one that did.
LEMMA AcquireConserves ==
    ASSUME CountingTypeOK, SlotsConserved, NEW r \in Requests, Acquire(r)
    PROVE  SlotsConserved'
<1> SUFFICES ASSUME NEW c \in Channels, Limited(c)
             PROVE  inflight'[c] = Cardinality(Holders(c)')
  BY DEF SlotsConserved, Limited
<1>1. inflight[c] = Cardinality(Holders(c))
  BY DEF SlotsConserved
<1>2. IsFiniteSet(Holders(c))
  BY FiniteRequests DEF Holders
<1>3. CASE c = Channel(r)
  <2>1. Holders(c)' = Holders(c) \union {r} /\ r \notin Holders(c)
    BY <1>3 DEF Acquire, Holders, Channel, Current, CountingTypeOK
  <2>2. inflight'[c] = inflight[c] + 1
    BY <1>3 DEF Acquire, CountingTypeOK
  <2> QED
    BY <1>1, <1>2, <2>1, <2>2, FS_AddElement
<1>4. CASE c # Channel(r)
  <2>1. Holders(c)' = Holders(c)
    BY <1>4 DEF Acquire, Holders, Channel, Current, CountingTypeOK
  <2>2. inflight'[c] = inflight[c]
    BY <1>4 DEF Acquire, CountingTypeOK
  <2> QED
    BY <1>1, <2>1, <2>2
<1> QED
  BY <1>3, <1>4

\* Release counts back, and does find a positive counter.
LEMMA ReleaseConserves ==
    ASSUME CountingTypeOK, SlotsConserved, NEW r \in Requests, Release(r)
    PROVE  SlotsConserved'
<1> SUFFICES ASSUME NEW c \in Channels, Limited(c)
             PROVE  inflight'[c] = Cardinality(Holders(c)')
  BY DEF SlotsConserved, Limited
<1>1. inflight[c] = Cardinality(Holders(c))
  BY DEF SlotsConserved
<1>2. IsFiniteSet(Holders(c)) /\ Cardinality(Holders(c)) \in Nat
  BY FiniteRequests DEF Holders
<1>3. CASE c = Channel(r)
  <2>1. Holders(c)' = Holders(c) \ {r} /\ r \in Holders(c)
    BY <1>3 DEF Release, Holders, Channel, Current, CountingTypeOK
  <2>2. Cardinality(Holders(c)') = Cardinality(Holders(c)) - 1
    BY <1>2, <2>1, FS_RemoveElement
  <2>3. Cardinality(Holders(c)) > 0
    BY <1>2, <2>1, FS_EmptySet
  <2>4. inflight'[c] = inflight[c] - 1
    BY <1>1, <1>3, <2>3 DEF Release, CountingTypeOK
  <2> QED
    BY <1>1, <2>2, <2>4
<1>4. CASE c # Channel(r)
  <2>1. Holders(c)' = Holders(c)
    BY <1>4 DEF Release, Holders, Channel, Current, CountingTypeOK
  <2>2. inflight'[c] = inflight[c]
    BY <1>4 DEF Release, CountingTypeOK
  <2> QED
    BY <1>1, <2>1, <2>2
<1> QED
  BY <1>3, <1>4

\* The limiter's counter is exact in every reachable state, so no slot of a
\* channel is ever leaked or given back twice.
THEOREM SlotsConservedTheorem == Spec => []SlotsConserved
<1>1. Init => SlotsConserved
  <2> SUFFICES ASSUME Init, NEW c \in Channels
               PROVE  inflight[c] = Cardinality(Holders(c))
    BY DEF SlotsConserved
  <2>1. Holders(c) = {}
    BY DEF Init, Holders
  <2> QED
    BY <2>1, FS_EmptySet DEF Init
<1>2. CountingTypeOK /\ SlotsConserved /\ [Next]_vars => SlotsConserved'
  <2> SUFFICES ASSUME CountingTypeOK, SlotsConserved, [Next]_vars PROVE SlotsConserved'
    OBVIOUS
  <2> USE DEF CountingTypeOK
  <2>1. ASSUME NEW r \in Requests, NEW steps \in Plans, NEW u \in UnhealthySets,
               Begin(r, steps, u)
        PROVE  SlotsConserved'
    BY <2>1, SameHolders DEF Begin, Holders, Channel, Current
  <2>2. ASSUME NEW r \in Requests, Exhausted(r) PROVE SlotsConserved'
    BY <2>2, SameHolders DEF Exhausted, Return, shared, Holders, Channel, Current
  <2>3. ASSUME NEW r \in Requests, Allow(r) PROVE SlotsConserved'
    BY <2>3, SameHolders DEF Allow, Holders, Channel, Current
  <2>4. ASSUME NEW r \in Requests, CircuitOpen(r) PROVE SlotsConserved'
    BY <2>4, SameHolders DEF CircuitOpen, NextCandidate, shared, Holders, Channel, Current
  <2>5. ASSUME NEW r \in Requests, ConfigurationError(r) \/ AtLimit(r)
        PROVE  SlotsConserved'
    BY <2>5, SameHolders
    DEF ConfigurationError, AtLimit, NextCandidate, shared, Holders, Channel, Current
  <2>6. ASSUME NEW r \in Requests, Acquire(r) PROVE SlotsConserved'
    BY <2>6, AcquireConserves
  <2>7. ASSUME NEW r \in Requests, NextKey(r) PROVE SlotsConserved'
    BY <2>7, SameHolders DEF NextKey, LeaveKeys, Holders, Channel, Current
  <2>8. ASSUME NEW r \in Requests, AllKeysTried(r) PROVE SlotsConserved'
    BY <2>8, SameHolders DEF AllKeysTried, LeaveKeys, shared, Holders, Channel, Current
  <2>9. ASSUME NEW r \in Requests, SkipKey(r) \/ UseKey(r) PROVE SlotsConserved'
    BY <2>9, SameHolders DEF SkipKey, UseKey, shared, Holders, Channel, Current
  <2>10. ASSUME NEW r \in Requests, CallSucceeds(r) PROVE SlotsConserved'
    BY <2>10, SameHolders DEF CallSucceeds, LeaveKeys, shared, Holders, Channel, Current
  <2>11. ASSUME NEW r \in Requests, NEW f \in Failures, CallFails(r, f)
         PROVE  SlotsConserved'
    BY <2>11, SameHolders DEF CallFails, LeaveKeys, Holders, Channel, Current
  <2>12. ASSUME NEW r \in Requests, Release(r) PROVE SlotsConserved'
    BY <2>12, ReleaseConserves
  <2>13. ASSUME NEW r \in Requests, SettleSuccess(r) PROVE SlotsConserved'
    BY <2>13, SameHolders DEF SettleSuccess, Return, Holders, Channel, Current
  <2>14. ASSUME NEW r \in Requests, SettleFailure(r) PROVE SlotsConserved'
    BY <2>14, SameHolders DEF SettleFailure, NextCandidate, Return, Holders, Channel, Current
  <2>15. ASSUME NEW k \in Sessions, SessionExpires(k) PROVE SlotsConserved'
    BY <2>15, SameHolders DEF SessionExpires, local, Holders, Channel, Current
  <2>16. CASE Tick
    BY <2>16, SameHolders DEF Tick, local, Holders, Channel, Current
  <2>17. CASE UNCHANGED vars
    BY <2>17, SameHolders DEF vars, Holders, Channel, Current
  <2> QED
    BY <2>1, <2>2, <2>3, <2>4, <2>5, <2>6, <2>7, <2>8, <2>9, <2>10, <2>11, <2>12,
       <2>13, <2>14, <2>15, <2>16, <2>17 DEF Next, Progress
<1> QED
  BY <1>1, <1>2, CountingTypeCorrect, PTL DEF Spec

-----------------------------------------------------------------------------
\* LimitRespected is not inductive by itself: that Acquire compares the counter
\* with the limit helps only because the counter is exact.
LEMMA FewerHolders ==
    ASSUME LimitRespected, \A c \in Channels : Holders(c)' \subseteq Holders(c)
    PROVE  LimitRespected'
<1> SUFFICES ASSUME NEW c \in Channels, Limited(c)
             PROVE  Cardinality(Holders(c)') <= MaxConcurrent[c]
  BY DEF LimitRespected, Limited
<1>1. IsFiniteSet(Holders(c)) /\ Cardinality(Holders(c)) \in Nat
  BY FiniteRequests DEF Holders
<1>2. Cardinality(Holders(c)') <= Cardinality(Holders(c)) /\ Cardinality(Holders(c)') \in Nat
  BY <1>1, FS_Subset, FS_CardinalityType
<1>3. Cardinality(Holders(c)) <= MaxConcurrent[c] /\ MaxConcurrent[c] \in Nat
  BY ForwardAssumption DEF ForwardAssumption, LimitRespected
<1> QED
  BY <1>1, <1>2, <1>3

\* Acquire compared the counter, which is the number of holders, with the limit.
LEMMA AcquireRespects ==
    ASSUME CountingTypeOK, SlotsConserved, LimitRespected, NEW r \in Requests, Acquire(r)
    PROVE  LimitRespected'
<1> SUFFICES ASSUME NEW c \in Channels, Limited(c)
             PROVE  Cardinality(Holders(c)') <= MaxConcurrent[c]
  BY DEF LimitRespected, Limited
<1>1. Cardinality(Holders(c)') = inflight'[c]
  BY AcquireConserves DEF SlotsConserved, Limited
<1>2. CASE c = Channel(r)
  <2>1. inflight'[c] = inflight[c] + 1 /\ inflight[c] < MaxConcurrent[c]
    BY <1>2 DEF Acquire, CountingTypeOK
  <2> QED
    BY <1>1, <2>1, ForwardAssumption DEF ForwardAssumption, CountingTypeOK
<1>3. CASE c # Channel(r)
  <2>1. inflight'[c] = inflight[c]
    BY <1>3 DEF Acquire, CountingTypeOK
  <2> QED
    BY <1>1, <2>1 DEF SlotsConserved, LimitRespected
<1> QED
  BY <1>2, <1>3

\* No interleaving of Acquire and Release serves more requests on a channel
\* than its MaxConcurrent.
THEOREM LimitRespectedTheorem == Spec => []LimitRespected
<1>1. Init => LimitRespected
  <2> SUFFICES ASSUME Init, NEW c \in Channels
               PROVE  Cardinality(Holders(c)) <= MaxConcurrent[c]
    BY DEF LimitRespected
  <2>1. Holders(c) = {}
    BY DEF Init, Holders
  <2> QED
    BY <2>1, FS_EmptySet, ForwardAssumption DEF ForwardAssumption
<1>2. CountingTypeOK /\ SlotsConserved /\ LimitRespected /\ [Next]_vars => LimitRespected'
  <2> SUFFICES ASSUME CountingTypeOK, SlotsConserved, LimitRespected, [Next]_vars
               PROVE  LimitRespected'
    OBVIOUS
  <2> USE DEF CountingTypeOK
  <2>1. ASSUME NEW r \in Requests, NEW steps \in Plans, NEW u \in UnhealthySets,
               Begin(r, steps, u)
        PROVE  LimitRespected'
    BY <2>1, FewerHolders DEF Begin, Holders, Channel, Current
  <2>2. ASSUME NEW r \in Requests, Acquire(r) PROVE LimitRespected'
    BY <2>2, AcquireRespects
  <2>3. ASSUME NEW r \in Requests, Exhausted(r) \/ Allow(r) \/ CircuitOpen(r)
                 \/ ConfigurationError(r) \/ AtLimit(r)
        PROVE  LimitRespected'
    BY <2>3, FewerHolders
    DEF Exhausted, Allow, CircuitOpen, ConfigurationError, AtLimit, NextCandidate, Return,
        shared, Holders, Channel, Current
  <2>4. ASSUME NEW r \in Requests, NextKey(r) \/ AllKeysTried(r) \/ SkipKey(r) \/ UseKey(r)
        PROVE  LimitRespected'
    BY <2>4, FewerHolders
    DEF NextKey, AllKeysTried, SkipKey, UseKey, LeaveKeys, shared, Holders, Channel, Current
  <2>5. ASSUME NEW r \in Requests, CallSucceeds(r) \/ \E f \in Failures : CallFails(r, f)
        PROVE  LimitRespected'
    BY <2>5, FewerHolders
    DEF CallSucceeds, CallFails, LeaveKeys, shared, Holders, Channel, Current
  <2>6. ASSUME NEW r \in Requests, Release(r) \/ SettleSuccess(r) \/ SettleFailure(r)
        PROVE  LimitRespected'
    BY <2>6, FewerHolders
    DEF Release, SettleSuccess, SettleFailure, NextCandidate, Return, Holders, Channel, Current
  <2>7. ASSUME NEW k \in Sessions, SessionExpires(k) PROVE LimitRespected'
    BY <2>7, FewerHolders DEF SessionExpires, local, Holders, Channel, Current
  <2>8. CASE Tick
    BY <2>8, FewerHolders DEF Tick, local, Holders, Channel, Current
  <2>9. CASE UNCHANGED vars
    BY <2>9, FewerHolders DEF vars, Holders, Channel, Current
  <2> QED
    BY <2>1, <2>2, <2>3, <2>4, <2>5, <2>6, <2>7, <2>8, <2>9 DEF Next, Progress
<1> QED
  BY <1>1, <1>2, CountingTypeCorrect, SlotsConservedTheorem, PTL DEF Spec

-----------------------------------------------------------------------------
\* The counting step shared by every action but Allow and SettleFailure: the
\* breakers do not get worse and nobody new is let through.
LEMMA NoMoreFailures ==
    ASSUME CountingTypeOK, CountingTypeOK', FailuresBounded,
           \A c \in Channels : /\ breaker'[c].failures <= breaker[c].failures
                               /\ Through(c)' \subseteq Through(c)
    PROVE  FailuresBounded'
<1> SUFFICES ASSUME NEW c \in Channels
             PROVE  breaker'[c].failures + Cardinality(Through(c)')
                      < MaxFailures + Cardinality(Requests)
  BY DEF FailuresBounded
<1>1. IsFiniteSet(Through(c)) /\ Cardinality(Through(c)) \in Nat
         /\ Cardinality(Requests) \in Nat
  BY FiniteRequests DEF Through
<1>2. Cardinality(Through(c)') <= Cardinality(Through(c)) /\ Cardinality(Through(c)') \in Nat
  BY <1>1, FS_Subset, FS_CardinalityType
<1>3. breaker[c].failures \in Nat /\ breaker'[c].failures \in Nat
  BY DEF CountingTypeOK, BreakerState
<1> QED
  BY <1>1, <1>2, <1>3, BreakerAssumption DEF BreakerAssumption, FailuresBounded

\* Allow lets a request through only below the threshold or after clearing the
\* failures, which leaves room for every request to fail.
LEMMA AllowBounded ==
    ASSUME CountingTypeOK, FailuresBounded, NEW r \in Requests, Allow(r)
    PROVE  FailuresBounded'
<1> SUFFICES ASSUME NEW c \in Channels
             PROVE  breaker'[c].failures + Cardinality(Through(c)')
                      < MaxFailures + Cardinality(Requests)
  BY DEF FailuresBounded
<1>1. breaker[c].failures \in Nat
  BY DEF CountingTypeOK, BreakerState
<1>2. CASE c = Channel(r)
  <2>1. breaker'[c].failures < MaxFailures /\ breaker'[c].failures \in Nat
    <3>1. breaker'[c] = AfterAllow(breaker[c]) /\ Allows(breaker[c])
      BY <1>2 DEF Allow, CountingTypeOK
    <3> QED
      BY <1>1, <3>1, BreakerAssumption
      DEF BreakerAssumption, AfterAllow, NewBreaker, Tripped
  <2>2. Through(c)' \in SUBSET Requests
    BY DEF Through
  <2>3. /\ Cardinality(Through(c)') \in Nat /\ Cardinality(Requests) \in Nat
        /\ Cardinality(Through(c)') <= Cardinality(Requests)
    BY <2>2, FiniteRequests
  <2> QED
    BY <2>1, <2>3, BreakerAssumption DEF BreakerAssumption
<1>3. CASE c # Channel(r)
  <2>1. breaker'[c] = breaker[c]
    BY <1>3 DEF Allow, CountingTypeOK
  <2>2. Through(c)' = Through(c)
    BY <1>3 DEF Allow, Through, Channel, Current, CountingTypeOK
  <2> QED
    BY <2>1, <2>2 DEF FailuresBounded
<1> QED
  BY <1>2, <1>3

\* A failure is counted when the request that met it leaves.
LEMMA SettleFailureBounded ==
    ASSUME CountingTypeOK, FailuresBounded, NEW r \in Requests, SettleFailure(r)
    PROVE  FailuresBounded'
<1> SUFFICES ASSUME NEW c \in Channels
             PROVE  breaker'[c].failures + Cardinality(Through(c)')
                      < MaxFailures + Cardinality(Requests)
  BY DEF FailuresBounded
<1>1. breaker[c].failures \in Nat
  BY DEF CountingTypeOK, BreakerState
<1>2. IsFiniteSet(Through(c)) /\ Cardinality(Through(c)) \in Nat
         /\ Cardinality(Requests) \in Nat
  BY FiniteRequests DEF Through
<1>3. CASE c = Channel(r)
  <2>1. Through(c)' = Through(c) \ {r} /\ r \in Through(c)
    BY <1>3 DEF SettleFailure, NextCandidate, Return, Through, Channel, Current, CountingTypeOK
  <2>2. Cardinality(Through(c)') = Cardinality(Through(c)) - 1
    BY <1>2, <2>1, FS_RemoveElement
  <2>3. breaker'[c].failures \in {breaker[c].failures, breaker[c].failures + 1}
    BY <1>3 DEF SettleFailure, AfterFailure, CountingTypeOK
  <2> QED
    BY <1>1, <1>2, <2>2, <2>3, BreakerAssumption DEF BreakerAssumption, FailuresBounded
<1>4. CASE c # Channel(r)
  <2>1. breaker'[c] = breaker[c]
    BY <1>4 DEF SettleFailure, CountingTypeOK
  <2>2. Through(c)' = Through(c)
    BY <1>4 DEF SettleFailure, NextCandidate, Return, Through, Channel, Current, CountingTypeOK
  <2> QED
    BY <2>1, <2>2 DEF FailuresBounded
<1> QED
  BY <1>3, <1>4

\* However many requests were under way when the breaker tripped, its failure
\* counter passes the threshold by less than their number.
THEOREM FailuresBoundedTheorem == Spec => []FailuresBounded
<1>1. Init => FailuresBounded
  <2> SUFFICES ASSUME Init, NEW c \in Channels
               PROVE  breaker[c].failures + Cardinality(Through(c))
                        < MaxFailures + Cardinality(Requests)
    BY DEF FailuresBounded
  <2>1. Through(c) = {}
    BY DEF Init, Through
  <2>2. breaker[c].failures = 0
    BY DEF Init, NewBreaker
  <2>3. Requests \in SUBSET Requests
    OBVIOUS
  <2> QED
    BY <2>1, <2>2, <2>3, FS_EmptySet, FiniteRequests, BreakerAssumption
    DEF BreakerAssumption
<1>2. CountingTypeOK /\ CountingTypeOK' /\ FailuresBounded /\ [Next]_vars => FailuresBounded'
  <2> SUFFICES ASSUME CountingTypeOK, CountingTypeOK', FailuresBounded, [Next]_vars
               PROVE  FailuresBounded'
    OBVIOUS
  <2>0. \A c \in Channels : breaker[c].failures \in Nat
    BY DEF CountingTypeOK, BreakerState
  <2>1. ASSUME NEW r \in Requests, NEW steps \in Plans, NEW u \in UnhealthySets,
               Begin(r, steps, u)
        PROVE  FailuresBounded'
    BY <2>0, <2>1, NoMoreFailures DEF Begin, Through, Channel, Current, CountingTypeOK
  <2>2. ASSUME NEW r \in Requests, Allow(r) PROVE FailuresBounded'
    BY <2>2, AllowBounded
  <2>3. ASSUME NEW r \in Requests, SettleFailure(r) PROVE FailuresBounded'
    BY <2>3, SettleFailureBounded
  <2>4. ASSUME NEW r \in Requests, SettleSuccess(r) PROVE FailuresBounded'
    <3>1. ASSUME NEW c \in Channels PROVE breaker'[c].failures <= breaker[c].failures
      BY <2>0, <2>4 DEF SettleSuccess, AfterSuccess, NewBreaker, CountingTypeOK
    <3>2. ASSUME NEW c \in Channels PROVE Through(c)' \subseteq Through(c)
      BY <2>4 DEF SettleSuccess, Return, Through, Channel, Current, CountingTypeOK
    <3> QED
      BY <3>1, <3>2, NoMoreFailures
  <2>5. ASSUME NEW r \in Requests, Exhausted(r) \/ CircuitOpen(r)
                 \/ ConfigurationError(r) \/ AtLimit(r)
        PROVE  FailuresBounded'
    <3>1. CASE Exhausted(r)
      BY <2>0, <3>1, NoMoreFailures
      DEF Exhausted, Return, shared, Through, Channel, Current, CountingTypeOK
    <3>2. CASE CircuitOpen(r)
      BY <2>0, <3>2, NoMoreFailures
      DEF CircuitOpen, NextCandidate, shared, Through, Channel, Current, CountingTypeOK
    <3>3. CASE ConfigurationError(r)
      BY <2>0, <3>3, NoMoreFailures
      DEF ConfigurationError, NextCandidate, shared, Through, Channel, Current, CountingTypeOK
    <3>4. CASE AtLimit(r)
      BY <2>0, <3>4, NoMoreFailures
      DEF AtLimit, NextCandidate, shared, Through, Channel, Current, CountingTypeOK
    <3> QED
      BY <2>5, <3>1, <3>2, <3>3, <3>4
  <2>6. ASSUME NEW r \in Requests, Acquire(r) \/ Release(r) PROVE FailuresBounded'
    BY <2>0, <2>6, NoMoreFailures
    DEF Acquire, Release, Through, Channel, Current, CountingTypeOK
  <2>7. ASSUME NEW r \in Requests, NextKey(r) \/ AllKeysTried(r) \/ SkipKey(r) \/ UseKey(r)
        PROVE  FailuresBounded'
    <3>1. CASE NextKey(r)
      <4>1. breaker' = breaker /\ plan' = plan
        BY <3>1 DEF NextKey
      <4>2. pc[r] = "pick" /\ pc' \in {[pc EXCEPT ![r] = "check"], [pc EXCEPT ![r] = "release"]}
        BY <3>1 DEF NextKey, LeaveKeys
      <4>3. ASSUME NEW c \in Channels PROVE Through(c)' \subseteq Through(c)
        BY <4>1, <4>2 DEF Through, Channel, Current, CountingTypeOK
      <4> QED
        BY <2>0, <4>1, <4>3, NoMoreFailures
    <3>2. CASE AllKeysTried(r)
      BY <2>0, <3>2, NoMoreFailures
      DEF AllKeysTried, LeaveKeys, shared, Through, Channel, Current, CountingTypeOK
    <3>3. CASE SkipKey(r)
      BY <2>0, <3>3, NoMoreFailures
      DEF SkipKey, shared, Through, Channel, Current, CountingTypeOK
    <3>4. CASE UseKey(r)
      BY <2>0, <3>4, NoMoreFailures
      DEF UseKey, shared, Through, Channel, Current, CountingTypeOK
    <3> QED
      BY <2>7, <3>1, <3>2, <3>3, <3>4
  <2>8. ASSUME NEW r \in Requests, CallSucceeds(r) \/ \E f \in Failures : CallFails(r, f)
        PROVE  FailuresBounded'
    BY <2>0, <2>8, NoMoreFailures
    DEF CallSucceeds, CallFails, LeaveKeys, shared, Through, Channel, Current, CountingTypeOK
  <2>9. ASSUME NEW k \in Sessions, SessionExpires(k) PROVE FailuresBounded'
    BY <2>0, <2>9, NoMoreFailures
    DEF SessionExpires, local, Through, Channel, Current, CountingTypeOK
  <2>10. CASE Tick
    <3>1. ASSUME NEW c \in Channels PROVE breaker'[c].failures <= breaker[c].failures
      BY <2>0, <2>10 DEF Tick, AfterTick, CountingTypeOK, BreakerState
    <3>2. ASSUME NEW c \in Channels PROVE Through(c)' = Through(c)
      BY <2>10 DEF Tick, local, Through, Channel, Current
    <3> QED
      BY <3>1, <3>2, NoMoreFailures
  <2>11. CASE UNCHANGED vars
    BY <2>0, <2>11, NoMoreFailures DEF vars, Through, Channel, Current
  <2> QED
    BY <2>1, <2>2, <2>3, <2>4, <2>5, <2>6, <2>7, <2>8, <2>9, <2>10, <2>11 DEF Next, Progress
<1> QED
  BY <1>1, <1>2, CountingTypeCorrect, PTL DEF Spec

-----------------------------------------------------------------------------
\* An open breaker keeps every request out of its channel, whatever the other
\* requests do meanwhile: only Allow brings a request to a channel.
THEOREM OpenBreakerTheorem == Spec => OpenBreakerAdmitsNone
<1>1. CountingTypeOK /\ [Next]_vars
        => [\A c \in Channels : IsOpen(breaker[c]) => Through(c)' \subseteq Through(c)]_vars
  <2> SUFFICES ASSUME CountingTypeOK, [Next]_vars, NEW c \in Channels, IsOpen(breaker[c])
               PROVE  Through(c)' \subseteq Through(c)
    OBVIOUS
  <2> USE DEF Through, Channel, Current, CountingTypeOK
  <2>1. ASSUME NEW r \in Requests, NEW steps \in Plans, NEW u \in UnhealthySets,
               Begin(r, steps, u)
        PROVE  Through(c)' \subseteq Through(c)
    BY <2>1 DEF Begin
  <2>2. ASSUME NEW r \in Requests, Allow(r) PROVE Through(c)' \subseteq Through(c)
    <3>1. c # Channel(r)
      BY <2>2 DEF Allow, Allows
    <3> QED
      BY <2>2, <3>1 DEF Allow
  <2>3. ASSUME NEW r \in Requests, Exhausted(r) PROVE Through(c)' \subseteq Through(c)
    BY <2>3 DEF Exhausted, Return, shared
  <2>4. ASSUME NEW r \in Requests, CircuitOpen(r) \/ ConfigurationError(r) \/ AtLimit(r)
        PROVE  Through(c)' \subseteq Through(c)
    BY <2>4 DEF CircuitOpen, ConfigurationError, AtLimit, NextCandidate
  <2>5. ASSUME NEW r \in Requests, Acquire(r) \/ Release(r)
        PROVE  Through(c)' \subseteq Through(c)
    BY <2>5 DEF Acquire, Release
  <2>6. ASSUME NEW r \in Requests, NextKey(r) PROVE Through(c)' \subseteq Through(c)
    <3>1. /\ plan' = plan /\ pc[r] = "pick"
          /\ pc' \in {[pc EXCEPT ![r] = "check"], [pc EXCEPT ![r] = "release"]}
      BY <2>6 DEF NextKey, LeaveKeys
    <3> QED
      BY <3>1
  <2>7. ASSUME NEW r \in Requests, AllKeysTried(r) \/ SkipKey(r) \/ UseKey(r)
        PROVE  Through(c)' \subseteq Through(c)
    BY <2>7 DEF AllKeysTried, SkipKey, UseKey, LeaveKeys
  <2>8. ASSUME NEW r \in Requests, CallSucceeds(r) \/ \E f \in Failures : CallFails(r, f)
        PROVE  Through(c)' \subseteq Through(c)
    BY <2>8 DEF CallSucceeds, CallFails, LeaveKeys
  <2>9. ASSUME NEW r \in Requests, SettleSuccess(r) \/ SettleFailure(r)
        PROVE  Through(c)' \subseteq Through(c)
    BY <2>9 DEF SettleSuccess, SettleFailure, Return, NextCandidate
  <2>10. ASSUME NEW k \in Sessions, SessionExpires(k) PROVE Through(c)' \subseteq Through(c)
    BY <2>10 DEF SessionExpires, local
  <2>11. CASE Tick
    BY <2>11 DEF Tick, local
  <2>12. CASE UNCHANGED vars
    BY <2>12 DEF vars
  <2> QED
    BY <2>1, <2>2, <2>3, <2>4, <2>5, <2>6, <2>7, <2>8, <2>9, <2>10, <2>11, <2>12
    DEF Next, Progress
<1> QED
  BY <1>1, CountingTypeCorrect, PTL DEF Spec, OpenBreakerAdmitsNone

=============================================================================
