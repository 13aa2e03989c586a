----------------------- MODULE ConcurrencyLimiter_proofs -----------------------
(***************************************************************************)
(* The limiter implements Slots, for any number of requests and any limits.*)
(* The step that needs an argument is AcquireCAS: its comparison with the  *)
(* limit was made by an earlier load, and holds now only because the       *)
(* compare-and-swap found the counter unchanged and the counter is exact.  *)
(***************************************************************************)
EXTENDS ConcurrencyLimiter, FiniteSetTheorems, TLAPS

LimiterTypeOK ==
    /\ limit \in Nat
    /\ exists \in BOOLEAN
    /\ counter \in Nat
    /\ pc \in [Requests -> {"idle", "load", "cas", "held", "unload", "uncas"}]
    /\ lim \in [Requests -> Nat]
    /\ current \in [Requests -> Nat]
    /\ steady \in BOOLEAN

\* A counter that was loaded as positive is positive if it is still the same.
PositiveLoads == \A r \in Requests : pc[r] = "uncas" => current[r] > 0

\* While the limit has not been changed, a positive limit makes the counter
\* exact, and what each request loaded was below the limit in force.
SteadyExact ==
    steady /\ limit > 0 =>
        /\ exists
        /\ counter = Cardinality(InService)
        /\ \A r \in Requests : pc[r] \in {"load", "cas"} => lim[r] = limit
        /\ \A r \in Requests : pc[r] = "cas" => current[r] < limit

\* Before the first SetLimit the channel has no limit and nothing is counted.
NoEntry ==
    ~exists => limit = 0 /\ counter = 0 /\ \A r \in Requests : pc[r] \in {"idle", "held"}

IInv == LimiterTypeOK /\ PositiveLoads /\ NoEntry /\ SteadyExact

\* The requests in service can be counted.
LEMMA FiniteInService == IsFiniteSet(InService) /\ Cardinality(InService) \in Nat
BY LimiterAssumption, FS_Subset, FS_CardinalityType DEF LimiterAssumption, InService

\* Nobody's being in service changes.
LEMMA SameService ==
    ASSUME LimiterTypeOK, NEW r \in Requests, NEW there,
           pc' = [pc EXCEPT ![r] = there],
           (pc[r] \in {"held", "unload", "uncas"}) <=> (there \in {"held", "unload", "uncas"})
    PROVE  InService' = InService
BY DEF InService, LimiterTypeOK

\* A request gets its slot.
LEMMA EntersService ==
    ASSUME LimiterTypeOK, NEW r \in Requests, pc[r] \notin {"held", "unload", "uncas"},
           pc' = [pc EXCEPT ![r] = "held"]
    PROVE  /\ r \notin InService /\ InService' = InService \union {r}
           /\ Cardinality(InService') = Cardinality(InService) + 1
<1>1. r \notin InService /\ InService' = InService \union {r}
  BY DEF InService, LimiterTypeOK
<1> QED
  BY <1>1, FiniteInService, FS_AddElement

\* A request gives its slot back.
LEMMA LeavesService ==
    ASSUME LimiterTypeOK, NEW r \in Requests, pc[r] \in {"held", "unload", "uncas"},
           pc' = [pc EXCEPT ![r] = "idle"]
    PROVE  /\ r \in InService /\ InService' = InService \ {r}
           /\ Cardinality(InService') = Cardinality(InService) - 1
           /\ Cardinality(InService) > 0
<1>1. r \in InService /\ InService' = InService \ {r}
  BY DEF InService, LimiterTypeOK
<1>2. Cardinality(InService) > 0
  BY <1>1, FiniteInService, FS_EmptySet
<1> QED
  BY <1>1, <1>2, FiniteInService, FS_RemoveElement

\* The channel starts with the limit of its configuration and nobody in service.
LEMMA InitIInv == Init => IInv
<1> SUFFICES ASSUME Init PROVE IInv
  OBVIOUS
<1>1. InService = {}
  BY DEF Init, InService
<1>2. Cardinality(InService) = 0
  BY <1>1, FS_EmptySet
<1>3. limit \in Nat
  BY LimiterAssumption DEF Init, LimiterAssumption
<1>4. exists \in BOOLEAN /\ (limit > 0 => exists) /\ (~exists => ~(limit > 0))
  <2>1. exists = (limit > 0)
    BY DEF Init
  <2>2. CASE limit > 0
    BY <2>1, <2>2
  <2>3. CASE ~(limit > 0)
    BY <2>1, <2>3
  <2> QED
    BY <2>2, <2>3
<1>5. LimiterTypeOK /\ PositiveLoads /\ NoEntry
  BY <1>3, <1>4 DEF Init, LimiterTypeOK, PositiveLoads, NoEntry
<1>6. SteadyExact
  <2>1. steady /\ limit > 0 => counter = Cardinality(InService)
    BY <1>2 DEF Init
  <2>2. \A r \in Requests : pc[r] \notin {"load", "cas"}
    BY DEF Init
  <2> QED
    BY <1>4, <2>1, <2>2 DEF SteadyExact
<1> QED
  BY <1>5, <1>6 DEF IInv

\* Every load, compare-and-swap and SetLimit keeps the invariant.
LEMMA NextIInv == IInv /\ [Next]_vars => IInv'
<1> SUFFICES ASSUME IInv, [Next]_vars PROVE IInv'
  OBVIOUS
<1> USE DEF IInv
<1>1. ASSUME NEW n \in Limits, SetLimit(n) PROVE IInv'
  BY <1>1, LimiterAssumption
  DEF SetLimit, LimiterTypeOK, PositiveLoads, NoEntry, SteadyExact, LimiterAssumption
<1>2. ASSUME NEW r \in Requests, AcquireRead(r) PROVE IInv'
  <2>1. LimiterTypeOK' /\ PositiveLoads' /\ NoEntry'
    BY <1>2 DEF AcquireRead, Goto, LimiterTypeOK, PositiveLoads, NoEntry
  <2>2. limit > 0 => InService' = InService
    <3> SUFFICES ASSUME limit > 0 PROVE InService' = InService
      OBVIOUS
    <3>0. limit # 0
      BY DEF LimiterTypeOK
    <3>1. pc' = [pc EXCEPT ![r] = "load"] /\ pc[r] = "idle"
      BY <1>2, <3>0 DEF AcquireRead, Goto
    <3> QED
      BY <3>1, SameService
  <2> QED
    BY <1>2, <2>1, <2>2 DEF AcquireRead, Goto, LimiterTypeOK, SteadyExact
<1>3. ASSUME NEW r \in Requests, AcquireLoad(r) PROVE IInv'
  <2>1. LimiterTypeOK' /\ PositiveLoads' /\ NoEntry'
    BY <1>3 DEF AcquireLoad, Goto, LimiterTypeOK, PositiveLoads, NoEntry
  <2>2. InService' = InService
    BY <1>3, SameService DEF AcquireLoad, Goto
  <2> QED
    BY <1>3, <2>1, <2>2 DEF AcquireLoad, Goto, LimiterTypeOK, SteadyExact
<1>4. ASSUME NEW r \in Requests, AcquireCAS(r) PROVE IInv'
  <2>1. LimiterTypeOK' /\ PositiveLoads' /\ NoEntry'
    BY <1>4 DEF AcquireCAS, Goto, LimiterTypeOK, PositiveLoads, NoEntry
  <2>2. CASE counter = current[r]
    <3>1. Cardinality(InService') = Cardinality(InService) + 1
      BY <1>4, <2>2, EntersService DEF AcquireCAS, Goto
    <3> QED
      BY <1>4, <2>1, <2>2, <3>1, FiniteInService
      DEF AcquireCAS, Goto, LimiterTypeOK, SteadyExact
  <2>3. CASE counter # current[r]
    <3>1. InService' = InService
      BY <1>4, <2>3, SameService DEF AcquireCAS, Goto
    <3> QED
      BY <1>4, <2>1, <2>3, <3>1 DEF AcquireCAS, Goto, LimiterTypeOK, SteadyExact
  <2> QED
    BY <2>2, <2>3
<1>5. ASSUME NEW r \in Requests, ReleaseRead(r) PROVE IInv'
  <2>1. LimiterTypeOK' /\ PositiveLoads' /\ NoEntry'
    BY <1>5 DEF ReleaseRead, Goto, LimiterTypeOK, PositiveLoads, NoEntry
  <2>2. exists => InService' = InService
    BY <1>5, SameService DEF ReleaseRead, Goto
  <2> QED
    BY <1>5, <2>1, <2>2 DEF ReleaseRead, Goto, LimiterTypeOK, SteadyExact
<1>6. ASSUME NEW r \in Requests, ReleaseLoad(r) PROVE IInv'
  <2>1. LimiterTypeOK' /\ PositiveLoads' /\ NoEntry'
    BY <1>6 DEF ReleaseLoad, Goto, LimiterTypeOK, PositiveLoads, NoEntry
  <2>2. CASE counter <= 0
    <3>1. Cardinality(InService) > 0
      BY <1>6, FiniteInService, FS_EmptySet DEF ReleaseLoad, InService
    <3> QED
      BY <1>6, <2>1, <2>2, <3>1 DEF ReleaseLoad, Goto, LimiterTypeOK, SteadyExact
  <2>3. CASE ~(counter <= 0)
    <3>1. InService' = InService
      BY <1>6, <2>3, SameService DEF ReleaseLoad, Goto
    <3> QED
      BY <1>6, <2>1, <2>3, <3>1 DEF ReleaseLoad, Goto, LimiterTypeOK, SteadyExact
  <2> QED
    BY <2>2, <2>3
<1>7. ASSUME NEW r \in Requests, ReleaseCAS(r) PROVE IInv'
  <2>1. LimiterTypeOK' /\ PositiveLoads' /\ NoEntry'
    BY <1>7 DEF ReleaseCAS, Goto, LimiterTypeOK, PositiveLoads, NoEntry
  <2>2. CASE counter = current[r]
    <3>1. Cardinality(InService') = Cardinality(InService) - 1
      BY <1>7, <2>2, LeavesService DEF ReleaseCAS, Goto
    <3> QED
      BY <1>7, <2>1, <2>2, <3>1 DEF ReleaseCAS, Goto, LimiterTypeOK, SteadyExact
  <2>3. CASE counter # current[r]
    <3>1. InService' = InService
      BY <1>7, <2>3, SameService DEF ReleaseCAS, Goto
    <3> QED
      BY <1>7, <2>1, <2>3, <3>1 DEF ReleaseCAS, Goto, LimiterTypeOK, SteadyExact
  <2> QED
    BY <2>2, <2>3
<1>8. CASE UNCHANGED vars
  BY <1>8 DEF vars, LimiterTypeOK, PositiveLoads, NoEntry, SteadyExact, InService
<1> QED
  BY <1>1, <1>2, <1>3, <1>4, <1>5, <1>6, <1>7, <1>8 DEF Next

\* As long as nobody changes the limit, Acquire and Release make a counting
\* semaphore of their loads and compare-and-swaps.
THEOREM LimiterImplementsSlots == Spec => SlotsSpec
<1> DEFINE served == Cardinality(InService)
<1>1. Init => ImplementsSlots!Init
  <2> SUFFICES ASSUME Init PROVE ImplementsSlots!Init
    OBVIOUS
  <2>1. InService = {}
    BY DEF Init, InService
  <2> QED
    BY <2>1, FS_EmptySet, LimiterAssumption DEF Init, ImplementsSlots!Init, LimiterAssumption
<1>2. IInv /\ [Next]_vars => [ImplementsSlots!Next]_(ImplementsSlots!vars)
  <2> SUFFICES ASSUME IInv, [Next]_vars
               PROVE  \/ ImplementsSlots!Enter
                      \/ ImplementsSlots!Leave
                      \/ ImplementsSlots!ChangeLimit
                      \/ UNCHANGED <<served, limit, steady>>
    BY DEF ImplementsSlots!Next, ImplementsSlots!vars
  <2> USE DEF IInv
  <2>1. ASSUME NEW n \in Limits, SetLimit(n) PROVE ImplementsSlots!ChangeLimit
    BY <2>1, LimiterAssumption
    DEF SetLimit, ImplementsSlots!ChangeLimit, InService, LimiterAssumption
  <2>2. ASSUME NEW r \in Requests, AcquireRead(r)
        PROVE  ImplementsSlots!Enter \/ UNCHANGED <<served, limit, steady>>
    <3>1. CASE limit = 0
      <4>1. pc' = [pc EXCEPT ![r] = "held"] /\ pc[r] = "idle"
        BY <2>2, <3>1 DEF AcquireRead, Goto
      <4>2. served' = served + 1
        BY <4>1, EntersService
      <4> QED
        BY <2>2, <3>1, <4>2 DEF AcquireRead, ImplementsSlots!Enter
    <3>2. CASE limit # 0
      <4>1. InService' = InService
        BY <2>2, <3>2, SameService DEF AcquireRead, Goto
      <4> QED
        BY <2>2, <4>1 DEF AcquireRead
    <3> QED
      BY <3>1, <3>2
  <2>3. ASSUME NEW r \in Requests, AcquireLoad(r)
        PROVE  UNCHANGED <<served, limit, steady>>
    <3>1. InService' = InService
      BY <2>3, SameService DEF AcquireLoad, Goto
    <3> QED
      BY <2>3, <3>1 DEF AcquireLoad
  <2>4. ASSUME NEW r \in Requests, AcquireCAS(r)
        PROVE  ImplementsSlots!Enter \/ UNCHANGED <<served, limit, steady>>
    <3>1. CASE counter = current[r]
      <4>1. steady /\ limit > 0 => served < limit
        BY <2>4, <3>1 DEF AcquireCAS, SteadyExact
      <4>2. served' = served + 1
        BY <2>4, <3>1, EntersService DEF AcquireCAS, Goto
      <4> QED
        BY <2>4, <4>1, <4>2 DEF AcquireCAS, ImplementsSlots!Enter
    <3>2. CASE counter # current[r]
      <4>1. InService' = InService
        BY <2>4, <3>2, SameService DEF AcquireCAS, Goto
      <4> QED
        BY <2>4, <4>1 DEF AcquireCAS
    <3> QED
      BY <3>1, <3>2
  <2>5. ASSUME NEW r \in Requests, ReleaseRead(r)
        PROVE  ImplementsSlots!Leave \/ UNCHANGED <<served, limit, steady>>
    <3>1. CASE exists
      <4>1. InService' = InService
        BY <2>5, <3>1, SameService DEF ReleaseRead, Goto
      <4> QED
        BY <2>5, <4>1 DEF ReleaseRead
    <3>2. CASE ~exists
      <4>1. served' = served - 1 /\ served > 0
        BY <2>5, <3>2, LeavesService DEF ReleaseRead, Goto
      <4> QED
        BY <2>5, <4>1 DEF ReleaseRead, ImplementsSlots!Leave
    <3> QED
      BY <3>1, <3>2
  <2>6. ASSUME NEW r \in Requests, ReleaseLoad(r)
        PROVE  ImplementsSlots!Leave \/ UNCHANGED <<served, limit, steady>>
    <3>1. CASE counter <= 0
      <4>1. served' = served - 1 /\ served > 0
        BY <2>6, <3>1, LeavesService DEF ReleaseLoad, Goto
      <4> QED
        BY <2>6, <4>1 DEF ReleaseLoad, ImplementsSlots!Leave
    <3>2. CASE ~(counter <= 0)
      <4>1. InService' = InService
        BY <2>6, <3>2, SameService DEF ReleaseLoad, Goto
      <4> QED
        BY <2>6, <4>1 DEF ReleaseLoad
    <3> QED
      BY <3>1, <3>2
  <2>7. ASSUME NEW r \in Requests, ReleaseCAS(r)
        PROVE  ImplementsSlots!Leave \/ UNCHANGED <<served, limit, steady>>
    <3>1. CASE counter = current[r]
      <4>1. served' = served - 1 /\ served > 0
        BY <2>7, <3>1, LeavesService DEF ReleaseCAS, Goto
      <4> QED
        BY <2>7, <4>1 DEF ReleaseCAS, ImplementsSlots!Leave
    <3>2. CASE counter # current[r]
      <4>1. InService' = InService
        BY <2>7, <3>2, SameService DEF ReleaseCAS, Goto
      <4> QED
        BY <2>7, <4>1 DEF ReleaseCAS
    <3> QED
      BY <3>1, <3>2
  <2>8. CASE UNCHANGED vars
    BY <2>8 DEF vars, InService
  <2> HIDE DEF served
  <2> QED
    BY <2>1, <2>2, <2>3, <2>4, <2>5, <2>6, <2>7, <2>8 DEF Next
<1> QED
  BY <1>1, <1>2, InitIInv, NextIInv, PTL DEF Spec, SlotsSpec, ImplementsSlots!Spec

-----------------------------------------------------------------------------
\* A step that leaves the counter and who is in service alone.
LEMMA PhantomSameService ==
    ASSUME NoPhantomSlot, counter' = counter, InService' = InService
    PROVE  NoPhantomSlot'
BY DEF NoPhantomSlot

\* The counter never runs ahead of the requests in service, also when the limit
\* is changed under them: a release that finds it at 0 leaves without touching
\* it, every other one takes exactly what it gives back.
THEOREM NoPhantomSlotTheorem == Spec => []NoPhantomSlot
<1>1. Init => NoPhantomSlot
  BY FiniteInService DEF Init, NoPhantomSlot
<1>2. IInv /\ NoPhantomSlot /\ [Next]_vars => NoPhantomSlot'
  <2> SUFFICES ASSUME IInv, NoPhantomSlot, [Next]_vars PROVE NoPhantomSlot'
    OBVIOUS
  <2> USE DEF IInv
  <2>1. ASSUME NEW n \in Limits, SetLimit(n) PROVE NoPhantomSlot'
    BY <2>1 DEF SetLimit, NoPhantomSlot, InService
  <2>2. ASSUME NEW r \in Requests, AcquireRead(r) PROVE NoPhantomSlot'
    <3>1. CASE limit = 0
      <4>1. Cardinality(InService') = Cardinality(InService) + 1
        BY <2>2, <3>1, EntersService DEF AcquireRead, Goto
      <4> QED
        BY <2>2, <4>1, FiniteInService DEF AcquireRead, NoPhantomSlot, LimiterTypeOK
    <3>2. CASE limit # 0
      BY <2>2, <3>2, SameService, PhantomSameService DEF AcquireRead, Goto
    <3> QED
      BY <3>1, <3>2
  <2>3. ASSUME NEW r \in Requests, AcquireLoad(r) PROVE NoPhantomSlot'
    BY <2>3, SameService, PhantomSameService DEF AcquireLoad, Goto
  <2>4. ASSUME NEW r \in Requests, AcquireCAS(r) PROVE NoPhantomSlot'
    <3>1. CASE counter = current[r]
      <4>1. Cardinality(InService') = Cardinality(InService) + 1
        BY <2>4, <3>1, EntersService DEF AcquireCAS, Goto
      <4> QED
        BY <2>4, <3>1, <4>1, FiniteInService DEF AcquireCAS, NoPhantomSlot, LimiterTypeOK
    <3>2. CASE counter # current[r]
      BY <2>4, <3>2, SameService, PhantomSameService DEF AcquireCAS, Goto
    <3> QED
      BY <3>1, <3>2
  <2>5. ASSUME NEW r \in Requests, ReleaseRead(r) PROVE NoPhantomSlot'
    <3>1. CASE exists
      BY <2>5, <3>1, SameService, PhantomSameService DEF ReleaseRead, Goto
    <3>2. CASE ~exists
      <4>1. Cardinality(InService') = Cardinality(InService) - 1
        BY <2>5, <3>2, LeavesService DEF ReleaseRead, Goto
      <4>2. Cardinality(InService) > 0
        BY <2>5, <3>2, LeavesService DEF ReleaseRead, Goto
      <4>3. counter' = 0
        BY <2>5, <3>2 DEF ReleaseRead, NoEntry
      <4> QED
        BY <4>1, <4>2, <4>3, FiniteInService DEF NoPhantomSlot
    <3> QED
      BY <3>1, <3>2
  <2>6. ASSUME NEW r \in Requests, ReleaseLoad(r) PROVE NoPhantomSlot'
    <3>1. CASE counter <= 0
      <4>1. /\ Cardinality(InService') = Cardinality(InService) - 1
            /\ Cardinality(InService) > 0
        BY <2>6, <3>1, LeavesService DEF ReleaseLoad, Goto
      <4>2. counter' = 0
        BY <2>6, <3>1 DEF ReleaseLoad, LimiterTypeOK
      <4> QED
        BY <4>1, <4>2, FiniteInService DEF NoPhantomSlot
    <3>2. CASE ~(counter <= 0)
      BY <2>6, <3>2, SameService, PhantomSameService DEF ReleaseLoad, Goto
    <3> QED
      BY <3>1, <3>2
  <2>7. ASSUME NEW r \in Requests, ReleaseCAS(r) PROVE NoPhantomSlot'
    <3>1. CASE counter = current[r]
      <4>1. Cardinality(InService') = Cardinality(InService) - 1
        BY <2>7, <3>1, LeavesService DEF ReleaseCAS, Goto
      <4> QED
        BY <2>7, <3>1, <4>1, FiniteInService DEF ReleaseCAS, NoPhantomSlot, LimiterTypeOK
    <3>2. CASE counter # current[r]
      BY <2>7, <3>2, SameService, PhantomSameService DEF ReleaseCAS, Goto
    <3> QED
      BY <3>1, <3>2
  <2>8. CASE UNCHANGED vars
    BY <2>8, PhantomSameService DEF vars, InService
  <2> QED
    BY <2>1, <2>2, <2>3, <2>4, <2>5, <2>6, <2>7, <2>8 DEF Next
<1> QED
  BY <1>1, <1>2, InitIInv, NextIInv, PTL DEF Spec

-----------------------------------------------------------------------------
CounterBounded == counter \in 0 .. Cardinality(Requests)

\* A counter that does not run ahead of the requests in service stays within
\* the number of requests.
LEMMA NoPhantomBounds == IInv /\ NoPhantomSlot => CounterBounded
<1>1. IsFiniteSet(Requests) /\ InService \subseteq Requests
  BY LimiterAssumption DEF LimiterAssumption, InService
<1>2. Cardinality(InService) <= Cardinality(Requests) /\ Cardinality(Requests) \in Nat
  BY <1>1, FS_Subset, FS_CardinalityType
<1> QED
  BY <1>2, FiniteInService DEF IInv, LimiterTypeOK, NoPhantomSlot, CounterBounded

\* Each variable has its type: the counter and whatever Acquire and Release
\* loaded of it lie between 0 and the number of requests, and a request is held
\* to 0 or to a limit that somebody set.
THEOREM TypeCorrect == Spec => []TypeOK
<1>1. Init => TypeOK
  <2> SUFFICES ASSUME Init PROVE TypeOK
    OBVIOUS
  <2>1. Cardinality(Requests) \in Nat
    BY LimiterAssumption, FS_CardinalityType DEF LimiterAssumption
  <2>2. exists \in BOOLEAN
    BY InitIInv DEF IInv, LimiterTypeOK
  <2> QED
    BY <2>1, <2>2 DEF Init, TypeOK
<1>2. TypeOK /\ CounterBounded /\ CounterBounded' /\ IInv' /\ [Next]_vars => TypeOK'
  <2> SUFFICES ASSUME TypeOK, CounterBounded, CounterBounded', IInv', [Next]_vars
               PROVE  TypeOK'
    OBVIOUS
  <2>1. /\ exists' \in BOOLEAN /\ steady' \in BOOLEAN
        /\ pc' \in [Requests -> {"idle", "load", "cas", "held", "unload", "uncas"}]
    BY DEF IInv, LimiterTypeOK
  <2>2. limit' \in Limits \union {0} /\ lim' \in [Requests -> Limits \union {0}]
    BY DEF TypeOK, Next, vars, SetLimit, AcquireRead, AcquireLoad, AcquireCAS, ReleaseRead,
           ReleaseLoad, ReleaseCAS
  <2>3. current' \in [Requests -> 0 .. Cardinality(Requests)]
    BY DEF TypeOK, CounterBounded, Next, vars, SetLimit, AcquireRead, AcquireLoad, AcquireCAS,
           ReleaseRead, ReleaseLoad, ReleaseCAS
  <2> QED
    BY <2>1, <2>2, <2>3 DEF TypeOK, CounterBounded
<1> QED
  BY <1>1, <1>2, InitIInv, NextIInv, NoPhantomSlotTheorem, NoPhantomBounds, PTL DEF Spec

=============================================================================
