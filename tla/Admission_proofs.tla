---------------------------- MODULE Admission_proofs ----------------------------
(***************************************************************************)
(* The two accounts of Admission, for any number of handlers: the global   *)
(* counter is exact, and the cost limit is overshot by less than one       *)
(* request per handler.                                                    *)
(***************************************************************************)
EXTENDS Admission, FiniteSetTheorems, SequenceTheorems, TLAPS

\* The part of TypeOK the counting needs.
AccountsTypeOK ==
    /\ DOMAIN pc = Requests /\ pc = [r \in Requests |-> pc[r]]
    /\ inflight \in Nat /\ cost \in Nat

\* The places of Admitted and of Uncharged.
Within == {"plan", "channel", "forward", "usage", "tokens", "release"}
Before == {"global", "slot", "plan", "channel", "forward", "usage"}

\* A set of handlers can be counted.
LEMMA Countable ==
    ASSUME NEW S \in SUBSET Requests
    PROVE  /\ IsFiniteSet(S) /\ Cardinality(S) \in Nat
           /\ Cardinality(S) <= Cardinality(Requests) /\ Cardinality(Requests) \in Nat
BY AdmissionAssumption, FS_Subset, FS_CardinalityType DEF AdmissionAssumption

\* One handler moves: the accounts stay, it neither gets nor gives up a slot, and
\* it does not become one that is still to be charged.
Passes(r) ==
    /\ UNCHANGED <<inflight, cost>>
    /\ \E there \in {"idle", "slot", "channel", "forward", "usage", "tokens", "release"} :
         /\ pc' = [pc EXCEPT ![r] = there]
         /\ (pc[r] \in Within) <=> (there \in Within)
         /\ there \in Before => pc[r] \in Before

\* No handler moves.
Clock == UNCHANGED <<inflight, pc>> /\ cost' \in {cost, 0}

\* Four actions change an account; every other step is of one of the two kinds.
LEMMA StepKinds ==
    ASSUME AccountsTypeOK, [Next]_vars
    PROVE  \/ \E r \in Requests : \/ CheckCost(r) \/ AcquireConcurrent(r) \/ RecordUsage(r)
                                \/ ReleaseConcurrent(r) \/ Passes(r)
           \/ Clock
<1> USE DEF Goto
<1>1. ASSUME NEW r \in Requests, AdmitGlobal(r) \/ RefuseGlobal(r) \/ RefuseConcurrent(r)
      PROVE  Passes(r)
  BY <1>1 DEF AdmitGlobal, RefuseGlobal, RefuseConcurrent, Passes, accounts, Within, Before
<1>2. ASSUME NEW r \in Requests, NoPlan(r) \/ AdmitChannel(r) \/ RefuseChannel(r)
      PROVE  Passes(r)
  BY <1>2 DEF NoPlan, AdmitChannel, RefuseChannel, Passes, accounts, Within, Before
<1>3. ASSUME NEW r \in Requests, NEW c \in Channels, Resolve(r, c) PROVE Passes(r)
  <2>1. PICK there \in {"channel", "forward"} : pc' = [pc EXCEPT ![r] = there]
    BY <1>3 DEF Resolve
  <2> QED
    BY <1>3, <2>1 DEF Resolve, Passes, accounts, Within, Before
<1>4. ASSUME NEW r \in Requests, NEW c \in Channels, Forward(r, c) PROVE Passes(r)
  BY <1>4 DEF Forward, Passes, Within, Before
<1>5. ASSUME NEW r \in Requests, NotSent(r) \/ NoUsage(r) PROVE Passes(r)
  BY <1>5 DEF NotSent, NoUsage, Passes, accounts, Within, Before
<1>6. ASSUME NEW r \in Requests, NEW k \in Windows, AddTokens(r, k) PROVE Passes(r)
  <2>1. PICK there \in {"release", "tokens"} : pc' = [pc EXCEPT ![r] = there]
    BY <1>6 DEF AddTokens
  <2> QED
    BY <1>6, <2>1 DEF AddTokens, Passes, Within, Before
<1>7. MonthEnds \/ Tick \/ UNCHANGED vars => Clock
  BY DEF MonthEnds, Tick, vars, Clock
<1> QED
  BY <1>1, <1>2, <1>3, <1>4, <1>5, <1>6, <1>7 DEF Next, Progress

\* The accounts are natural numbers and every handler is somewhere.
THEOREM AccountsTypeCorrect == Spec => []AccountsTypeOK
<1>1. Init => AccountsTypeOK
  BY DEF Init, AccountsTypeOK
<1>2. AccountsTypeOK /\ [Next]_vars => AccountsTypeOK'
  <2> SUFFICES ASSUME AccountsTypeOK, [Next]_vars PROVE AccountsTypeOK'
    OBVIOUS
  <2> USE DEF AccountsTypeOK
  <2>1. ASSUME NEW r \in Requests, \/ CheckCost(r) \/ AcquireConcurrent(r)
                                   \/ RecordUsage(r) \/ ReleaseConcurrent(r)
        PROVE  AccountsTypeOK'
    BY <2>1 DEF CheckCost, AcquireConcurrent, RecordUsage, ReleaseConcurrent, Goto, accounts
  <2>2. ASSUME NEW r \in Requests, Passes(r) PROVE AccountsTypeOK'
    BY <2>2 DEF Passes
  <2>3. CASE Clock
    BY <2>3 DEF Clock
  <2> QED
    BY <2>1, <2>2, <2>3, StepKinds
<1> QED
  BY <1>1, <1>2, PTL DEF Spec

-----------------------------------------------------------------------------
\* The global counter is the number of handlers that hold a slot and respects
\* the limit, on every way through handleChat.
THEOREM ConcurrencyExactTheorem == Spec => []ConcurrencyExact
<1>1. Init => ConcurrencyExact
  <2> SUFFICES ASSUME Init PROVE ConcurrencyExact
    OBVIOUS
  <2>1. Admitted = {}
    BY DEF Init, Admitted
  <2> QED
    BY <2>1, FS_EmptySet, AdmissionAssumption DEF AdmissionAssumption, Init, ConcurrencyExact
<1>2. AccountsTypeOK /\ ConcurrencyExact /\ [Next]_vars => ConcurrencyExact'
  <2> SUFFICES ASSUME AccountsTypeOK, ConcurrencyExact, [Next]_vars PROVE ConcurrencyExact'
    OBVIOUS
  <2>0. IsFiniteSet(Admitted) /\ Cardinality(Admitted) \in Nat /\ inflight \in Nat
    BY Countable DEF Admitted, AccountsTypeOK
  <2>1. ASSUME NEW r \in Requests, CheckCost(r) PROVE ConcurrencyExact'
    <3>1. Admitted' = Admitted
      BY <2>1 DEF CheckCost, Goto, Admitted, AccountsTypeOK
    <3> QED
      BY <2>1, <3>1 DEF CheckCost, accounts, ConcurrencyExact
  <2>2. ASSUME NEW r \in Requests, AcquireConcurrent(r) PROVE ConcurrencyExact'
    <3>1. r \notin Admitted /\ Admitted' = Admitted \union {r}
      BY <2>2 DEF AcquireConcurrent, Goto, Admitted, AccountsTypeOK
    <3>2. Cardinality(Admitted') = Cardinality(Admitted) + 1
      BY <2>0, <3>1, FS_AddElement
    <3>3. inflight' = inflight + 1 /\ (MaxConcurrent > 0 => inflight < MaxConcurrent)
      BY <2>2 DEF AcquireConcurrent
    <3> QED
      BY <2>0, <3>2, <3>3, AdmissionAssumption DEF AdmissionAssumption, ConcurrencyExact
  <2>3. ASSUME NEW r \in Requests, RecordUsage(r) PROVE ConcurrencyExact'
    <3>1. Admitted' = Admitted
      BY <2>3 DEF RecordUsage, Goto, Admitted, AccountsTypeOK
    <3> QED
      BY <2>3, <3>1 DEF RecordUsage, ConcurrencyExact
  <2>4. ASSUME NEW r \in Requests, ReleaseConcurrent(r) PROVE ConcurrencyExact'
    <3>1. r \in Admitted /\ Admitted' = Admitted \ {r}
      BY <2>4 DEF ReleaseConcurrent, Goto, Admitted, AccountsTypeOK
    <3>2. Cardinality(Admitted') = Cardinality(Admitted) - 1 /\ Cardinality(Admitted) > 0
      BY <2>0, <3>1, FS_RemoveElement, FS_EmptySet
    <3>3. inflight' = IF inflight > 0 THEN inflight - 1 ELSE 0
      BY <2>4 DEF ReleaseConcurrent
    <3> QED
      BY <2>0, <3>2, <3>3, AdmissionAssumption DEF AdmissionAssumption, ConcurrencyExact
  <2>5. ASSUME NEW r \in Requests, Passes(r) PROVE ConcurrencyExact'
    <3>1. Admitted' = Admitted
      BY <2>5 DEF Passes, Within, Admitted, AccountsTypeOK
    <3> QED
      BY <2>5, <3>1 DEF Passes, ConcurrencyExact
  <2>6. CASE Clock
    BY <2>6 DEF Clock, ConcurrencyExact, Admitted
  <2> QED
    BY <2>1, <2>2, <2>3, <2>4, <2>5, <2>6, StepKinds
<1> QED
  BY <1>1, <1>2, AccountsTypeCorrect, PTL DEF Spec

-----------------------------------------------------------------------------
\* Neither charging a request nor letting one go raises the sum; a request is
\* let in only while the cost is below the limit, and they cannot be more than
\* the handlers.
THEOREM CostOvershootTheorem == Spec => []CostOvershootBounded
<1>1. Init => CostOvershootBounded
  <2> SUFFICES ASSUME Init PROVE CostOvershootBounded
    OBVIOUS
  <2>1. Uncharged = {}
    BY DEF Init, Uncharged
  <2>2. Cardinality(Requests) \in Nat
    BY Countable
  <2> QED
    BY <2>1, <2>2, FS_EmptySet, AdmissionAssumption
    DEF AdmissionAssumption, Init, CostOvershootBounded
<1>2. AccountsTypeOK /\ CostOvershootBounded /\ [Next]_vars => CostOvershootBounded'
  <2> SUFFICES ASSUME AccountsTypeOK, CostOvershootBounded, [Next]_vars
               PROVE  CostOvershootBounded'
    OBVIOUS
  <2>0. /\ IsFiniteSet(Uncharged) /\ Cardinality(Uncharged) \in Nat
        /\ Cardinality(Requests) \in Nat /\ cost \in Nat /\ CostLimit \in Nat
    BY Countable, AdmissionAssumption DEF Uncharged, AccountsTypeOK, AdmissionAssumption
  <2>1. ASSUME NEW r \in Requests, CheckCost(r) PROVE CostOvershootBounded'
    <3>1. cost' = cost /\ cost < CostLimit
      BY <2>1 DEF CheckCost, accounts
    <3>2. Cardinality(Uncharged') \in Nat /\ Cardinality(Uncharged') <= Cardinality(Requests)
      BY Countable DEF Uncharged
    <3> QED
      BY <2>0, <3>1, <3>2 DEF CostOvershootBounded
  <2>2. ASSUME Uncharged' \subseteq Uncharged, cost' \in {cost, 0}
        PROVE  CostOvershootBounded'
    <3>1. Cardinality(Uncharged') <= Cardinality(Uncharged) /\ Cardinality(Uncharged') \in Nat
      BY <2>0, <2>2, FS_Subset, FS_CardinalityType
    <3> QED
      BY <2>0, <2>2, <3>1 DEF CostOvershootBounded
  <2>3. ASSUME NEW r \in Requests, AcquireConcurrent(r) \/ ReleaseConcurrent(r)
        PROVE  CostOvershootBounded'
    <3>1. Uncharged' \subseteq Uncharged
      <4>1. CASE AcquireConcurrent(r)
        BY <4>1 DEF AcquireConcurrent, Goto, Uncharged, AccountsTypeOK
      <4>2. CASE ReleaseConcurrent(r)
        BY <4>2 DEF ReleaseConcurrent, Goto, Uncharged, AccountsTypeOK
      <4> QED
        BY <2>3, <4>1, <4>2
    <3>2. cost' = cost
      BY <2>3 DEF AcquireConcurrent, ReleaseConcurrent
    <3> QED
      BY <2>2, <3>1, <3>2
  <2>4. ASSUME NEW r \in Requests, RecordUsage(r) PROVE CostOvershootBounded'
    <3>1. r \in Uncharged /\ Uncharged' = Uncharged \ {r}
      BY <2>4 DEF RecordUsage, Goto, Uncharged, AccountsTypeOK
    <3>2. Cardinality(Uncharged') = Cardinality(Uncharged) - 1
      BY <2>0, <3>1, FS_RemoveElement
    <3>3. cost' = cost + 1
      BY <2>4 DEF RecordUsage
    <3> QED
      BY <2>0, <3>2, <3>3 DEF CostOvershootBounded
  <2>5. ASSUME NEW r \in Requests, Passes(r) PROVE CostOvershootBounded'
    <3>1. Uncharged' \subseteq Uncharged
      BY <2>5 DEF Passes, Before, Uncharged, AccountsTypeOK
    <3> QED
      BY <2>2, <2>5, <3>1 DEF Passes
  <2>6. CASE Clock
    <3>1. Uncharged' = Uncharged
      BY <2>6 DEF Clock, Uncharged
    <3> QED
      BY <2>2, <2>6, <3>1 DEF Clock
  <2> QED
    BY <2>1, <2>3, <2>4, <2>5, <2>6, StepKinds
<1> QED
  BY <1>1, <1>2, AccountsTypeCorrect, PTL DEF Spec

-----------------------------------------------------------------------------
\* Older entries come first.  Pruning relies on it: it stops at the first entry
\* that is young enough, so what lies behind an old one must be no older.
OldestFirst(ages) == \A i, j \in 1 .. Len(ages) : i <= j => ages[i] >= ages[j]

Window(ages) == ages \in Seq(Ages) /\ OldestFirst(ages)

\* TypeOK with the order of the windows.
TypeInv ==
    /\ TypeOK
    /\ reqs = [k \in Windows |-> reqs[k]] /\ \A k \in Windows : Window(reqs[k])
    /\ samples = [k \in Windows |-> samples[k]] /\ \A k \in Windows : Window(samples[k])
    /\ sent = [c \in Overridden |-> sent[c]] /\ \A c \in Overridden : Window(sent[c])

\* A window that nothing was admitted to.
LEMMA EmptyWindow == Window(<<>>) /\ Len(<<>>) = 0
BY DEF Window, OldestFirst

\* What pruning drops is the longest run of old entries at the front: the entry
\* behind it is young enough or there is none.
LEMMA ExpiredIsPrefix ==
    ASSUME NEW ages \in Seq(Ages)
    PROVE  /\ Expired(ages) \in 0 .. Len(ages)
           /\ Expired(ages) < Len(ages) =>
                \E j \in 1 .. Expired(ages) + 1 : ages[j] < Minute
<1> DEFINE old == {i \in DOMAIN ages : \A j \in 1 .. i : ages[j] >= Minute}
<1> DEFINE n == Expired(ages)
<1>1. Len(ages) \in Nat /\ DOMAIN ages = 1 .. Len(ages) /\ old \subseteq 1 .. Len(ages)
  OBVIOUS
<1>2. IsFiniteSet(1 .. Len(ages)) /\ Cardinality(1 .. Len(ages)) = Len(ages)
  BY <1>1, FS_Interval
<1>3. IsFiniteSet(old) /\ n = Cardinality(old) /\ n \in Nat /\ n <= Len(ages)
  BY <1>1, <1>2, FS_Subset, FS_CardinalityType DEF Expired
<1>4. n + 1 \notin old
  <2> SUFFICES ASSUME n + 1 \in old PROVE FALSE
    OBVIOUS
  <2>1. 1 .. n + 1 \subseteq old
    BY <1>1, <1>3
  <2>2. Cardinality(1 .. n + 1) = n + 1
    BY <1>3, FS_Interval
  <2>3. Cardinality(1 .. n + 1) <= Cardinality(old)
    BY <1>3, <2>1, FS_Subset
  <2> HIDE DEF old, n
  <2> QED
    BY <1>3, <2>2, <2>3
<1>5. ASSUME n < Len(ages) PROVE \E j \in 1 .. n + 1 : ages[j] < Minute
  <2>1. n + 1 \in DOMAIN ages
    BY <1>1, <1>3, <1>5
  <2>2. PICK j \in 1 .. n + 1 : ~(ages[j] >= Minute)
    BY <1>4, <2>1
  <2>3. ages[j] \in Nat /\ Minute \in Nat
    BY <1>1, <1>3, <1>5, <2>2, AdmissionAssumption DEF Ages, AdmissionAssumption
  <2> QED
    BY <2>2, <2>3
<1> QED
  BY <1>3, <1>5

\* A window grows a tick older: it stays a window and does not get longer.
LEMMA OlderWindow ==
    ASSUME NEW ages, Window(ages)
    PROVE  Window(Older(ages)) /\ Len(Older(ages)) <= Len(ages)
<1> DEFINE n == Expired(ages)
<1>1. ages \in Seq(Ages) /\ OldestFirst(ages) /\ Minute \in Nat
  BY AdmissionAssumption DEF Window, AdmissionAssumption
<1>2. Len(ages) \in Nat /\ n \in 0 .. Len(ages)
  BY <1>1, ExpiredIsPrefix
<1>3. ASSUME NEW i \in 1 .. Len(ages) - n
      PROVE  n + i \in 1 .. Len(ages) /\ ages[n + i] \in Nat /\ ages[n + i] < Minute
  <2>1. PICK j \in 1 .. n + 1 : ages[j] < Minute
    BY <1>1, <1>2, <1>3, ExpiredIsPrefix
  <2>2. n + i \in 1 .. Len(ages) /\ j \in 1 .. Len(ages) /\ j <= n + i
    BY <1>2, <1>3, <2>1
  <2>3. ages[j] >= ages[n + i] /\ ages[j] \in Int /\ ages[n + i] \in Nat
    BY <1>1, <2>2 DEF OldestFirst, Ages
  <2> QED
    BY <1>1, <2>1, <2>2, <2>3
<1>4. Len(ages) - n \in Nat
  BY <1>2
<1>5. Older(ages) = [i \in 1 .. Len(ages) - n |-> ages[n + i] + 1]
  BY DEF Older
<1> HIDE DEF n
<1>6. \A i \in 1 .. Len(ages) - n : ages[n + i] + 1 \in Ages
  BY <1>1, <1>3 DEF Ages
<1>7. Older(ages) \in Seq(Ages) /\ Len(Older(ages)) = Len(ages) - n
  BY <1>4, <1>5, <1>6
<1>8. OldestFirst(Older(ages))
  <2> SUFFICES ASSUME NEW i \in 1 .. Len(ages) - n, NEW j \in 1 .. Len(ages) - n, i <= j
               PROVE  Older(ages)[i] >= Older(ages)[j]
    BY <1>7 DEF OldestFirst
  <2>0. Older(ages)[i] = ages[n + i] + 1 /\ Older(ages)[j] = ages[n + j] + 1
    BY <1>5
  <2>1. /\ n + i \in 1 .. Len(ages) /\ n + j \in 1 .. Len(ages)
        /\ ages[n + i] \in Nat /\ ages[n + j] \in Nat
    BY <1>3
  <2>2. ages[n + i] >= ages[n + j]
    BY <1>1, <1>2, <2>1 DEF OldestFirst
  <2> QED
    BY <2>0, <2>1, <2>2
<1> QED
  BY <1>2, <1>7, <1>8 DEF Window

\* A new entry is the youngest.
LEMMA AppendWindow ==
    ASSUME NEW ages, Window(ages)
    PROVE  Window(Append(ages, 0)) /\ Len(Append(ages, 0)) = Len(ages) + 1
<1>1. ages \in Seq(Ages) /\ OldestFirst(ages) /\ 0 \in Ages /\ Len(ages) \in Nat
  BY AdmissionAssumption DEF Window, Ages, AdmissionAssumption
<1>2. /\ Append(ages, 0) \in Seq(Ages) /\ Len(Append(ages, 0)) = Len(ages) + 1
      /\ Append(ages, 0)[Len(ages) + 1] = 0
      /\ \A i \in 1 .. Len(ages) : Append(ages, 0)[i] = ages[i]
  BY <1>1, AppendProperties
<1>3. \A i \in 1 .. Len(ages) : ages[i] \in Nat
  <2>1. \A i \in 1 .. Len(ages) : ages[i] \in Ages
    BY <1>1, ElementOfSeq
  <2> QED
    BY <2>1 DEF Ages
<1> QED
  BY <1>1, <1>2, <1>3 DEF Window, OldestFirst

\* Windows whose entries are ages, as TypeOK says it.
LEMMA WindowAges ==
    ASSUME NEW ages, Window(ages)
    PROVE  ToSet(ages) \subseteq Ages /\ Len(ages) \in Nat
BY DEF Window, ToSet

\* Updating one entry of a table of windows, whether or not the table has it.
LEMMA OneWindow ==
    ASSUME NEW S, NEW f, f = [k \in S |-> f[k]], \A k \in S : Window(f[k]), NEW w
    PROVE  LET g == [f EXCEPT ![w] = Append(@, 0)]
           IN  /\ g = [k \in S |-> g[k]] /\ \A k \in S : Window(g[k])
               /\ \A k \in S : Len(g[k]) = IF k = w THEN Len(f[k]) + 1 ELSE Len(f[k])
<1> DEFINE g == [f EXCEPT ![w] = Append(@, 0)]
<1>1. g = [k \in S |-> g[k]]
  OBVIOUS
<1>2. ASSUME NEW k \in S
      PROVE  Window(g[k]) /\ Len(g[k]) = IF k = w THEN Len(f[k]) + 1 ELSE Len(f[k])
  <2>1. CASE k = w
    <3>1. g[k] = Append(f[k], 0)
      BY <2>1
    <3> QED
      BY <2>1, <3>1, AppendWindow
  <2>2. CASE k # w
    <3>1. g[k] = f[k]
      BY <2>2
    <3> QED
      BY <2>2, <3>1
  <2> QED
    BY <2>1, <2>2
<1> QED
  BY <1>1, <1>2

\* A step that appends to none of the windows.
LEMMA SameWindows ==
    ASSUME TypeInv, UNCHANGED <<reqs, samples, sent>>,
           inflight' \in Nat, cost' \in Nat,
           pc' \in [Requests -> {"idle", "global", "slot", "plan", "channel", "forward",
                                 "usage", "tokens", "release"}],
           wait' \in [Requests -> 0 .. MaxWait], target' \in [Requests -> Channels],
           pending' \in [Requests -> SUBSET Windows]
    PROVE  TypeInv'
BY DEF TypeInv, TypeOK

\* A request that is admitted is the window's RPM-th at most.
LEMMA AdmitWithinRPM ==
    ASSUME TypeInv, NEW w, Admit(w)
    PROVE  /\ reqs' = [k \in Windows |-> reqs'[k]] /\ \A k \in Windows : Window(reqs'[k])
           /\ \A k \in Windows : RPM[k] > 0 => Len(reqs'[k]) <= RPM[k]
<1>1. reqs' = [reqs EXCEPT ![w] = Append(@, 0)]
  BY DEF Admit
<1>2. ASSUME NEW k \in Windows, RPM[k] > 0 PROVE Len(reqs'[k]) <= RPM[k]
  <2>1. Len(reqs[k]) \in Nat /\ RPM[k] \in Nat /\ Len(reqs[k]) <= RPM[k]
    BY <1>2, WindowAges, AdmissionAssumption DEF TypeInv, TypeOK, AdmissionAssumption
  <2>2. Len(reqs'[k]) = IF k = w THEN Len(reqs[k]) + 1 ELSE Len(reqs[k])
    BY <1>1, OneWindow DEF TypeInv
  <2>3. k = w => Len(reqs[k]) < RPM[k]
    BY <1>2 DEF Admit, MayAdmit
  <2> QED
    BY <2>1, <2>2, <2>3
<1> QED
  BY <1>1, <1>2, OneWindow DEF TypeInv

\* No window ever holds an entry from before the minute or more requests than
\* its RPM, however many handlers are between two of their checks.
THEOREM TypeCorrect == Spec => []TypeOK
<1>1. Init => TypeInv
  <2> SUFFICES ASSUME Init PROVE TypeInv
    OBVIOUS
  <2>1. 0 \in 0 .. MaxWait /\ \A k \in Windows : RPM[k] \in Nat
    BY AdmissionAssumption DEF AdmissionAssumption
  <2>2. \A k \in Windows : reqs[k] = <<>> /\ samples[k] = <<>>
    BY DEF Init
  <2>3. \A c \in Overridden : sent[c] = <<>>
    BY DEF Init
  <2> QED
    BY <2>1, <2>2, <2>3, EmptyWindow, WindowAges DEF Init, TypeInv, TypeOK
<1>2. TypeInv /\ [Next]_vars => TypeInv'
  <2> SUFFICES ASSUME TypeInv, [Next]_vars PROVE TypeInv'
    OBVIOUS
  <2> USE DEF TypeInv, Goto, accounts
  <2>0. MaxWait \in 0 .. MaxWait /\ 0 \in 0 .. MaxWait /\ Global \in Windows
        /\ Overridden \subseteq Windows
    BY AdmissionAssumption DEF AdmissionAssumption, Windows
  <2>1. ASSUME NEW r \in Requests, CheckCost(r) PROVE TypeInv'
    BY <2>0, <2>1, SameWindows DEF CheckCost, TypeOK
  <2>2. ASSUME NEW r \in Requests, AdmitGlobal(r) PROVE TypeInv'
    <3>1. \A k \in Windows : ToSet(reqs'[k]) \subseteq Ages
      BY <2>2, AdmitWithinRPM, WindowAges DEF AdmitGlobal
    <3> QED
      BY <2>2, <3>1, AdmitWithinRPM DEF AdmitGlobal, TypeOK
  <2>3. ASSUME NEW r \in Requests, RefuseGlobal(r) \/ RefuseConcurrent(r) PROVE TypeInv'
    BY <2>3, SameWindows DEF RefuseGlobal, RefuseConcurrent, TypeOK
  <2>4. ASSUME NEW r \in Requests, AcquireConcurrent(r) PROVE TypeInv'
    BY <2>4, SameWindows DEF AcquireConcurrent, TypeOK
  <2>5. ASSUME NEW r \in Requests, NoPlan(r) \/ NotSent(r) \/ NoUsage(r) PROVE TypeInv'
    BY <2>5, SameWindows DEF NoPlan, NotSent, NoUsage, TypeOK
  <2>6. ASSUME NEW r \in Requests, NEW c \in Channels, Resolve(r, c) PROVE TypeInv'
    BY <2>0, <2>6, SameWindows DEF Resolve, TypeOK
  <2>7. ASSUME NEW r \in Requests, AdmitChannel(r) PROVE TypeInv'
    <3>1. \A k \in Windows : ToSet(reqs'[k]) \subseteq Ages
      BY <2>7, AdmitWithinRPM, WindowAges DEF AdmitChannel
    <3> QED
      BY <2>7, <3>1, AdmitWithinRPM DEF AdmitChannel, TypeOK
  <2>8. ASSUME NEW r \in Requests, RefuseChannel(r) PROVE TypeInv'
    BY <2>8, SameWindows DEF RefuseChannel, TypeOK
  <2>9. ASSUME NEW r \in Requests, NEW c \in Channels, Forward(r, c) PROVE TypeInv'
    <3>1. /\ sent' = [k \in Overridden |-> sent'[k]]
          /\ \A k \in Overridden : Window(sent'[k])
      BY <2>9, OneWindow DEF Forward
    <3>2. \A k \in Overridden : ToSet(sent'[k]) \subseteq Ages
      BY <3>1, WindowAges
    <3> QED
      BY <2>9, <3>1, <3>2 DEF Forward, TypeOK
  <2>10. ASSUME NEW r \in Requests, RecordUsage(r) PROVE TypeInv'
    BY <2>0, <2>10, SameWindows DEF RecordUsage, TypeOK
  <2>11. ASSUME NEW r \in Requests, NEW k \in Windows, AddTokens(r, k) PROVE TypeInv'
    <3>1. /\ samples' = [l \in Windows |-> samples'[l]]
          /\ \A l \in Windows : Window(samples'[l])
      BY <2>11, OneWindow DEF AddTokens
    <3>2. \A l \in Windows : ToSet(samples'[l]) \subseteq Ages
      BY <3>1, WindowAges
    <3> QED
      BY <2>11, <3>1, <3>2 DEF AddTokens, TypeOK
  <2>12. ASSUME NEW r \in Requests, ReleaseConcurrent(r) PROVE TypeInv'
    BY <2>12, SameWindows DEF ReleaseConcurrent, TypeOK
  <2>13. CASE MonthEnds
    BY <2>13, SameWindows DEF MonthEnds, TypeOK
  <2>14. CASE Tick
    <3>1. ASSUME NEW k \in Windows
          PROVE  /\ Window(reqs'[k]) /\ Window(samples'[k])
                 /\ RPM[k] > 0 => Len(reqs'[k]) <= RPM[k]
      <4>1. reqs'[k] = Older(reqs[k]) /\ samples'[k] = Older(samples[k])
        BY <2>14, <3>1 DEF Tick
      <4>2. /\ Window(reqs'[k]) /\ Window(samples'[k])
            /\ Len(reqs'[k]) <= Len(reqs[k])
        BY <4>1, OlderWindow
      <4>3. Len(reqs'[k]) \in Nat /\ Len(reqs[k]) \in Nat /\ RPM[k] \in Nat
        BY <4>2, WindowAges, AdmissionAssumption DEF AdmissionAssumption
      <4> QED
        BY <4>2, <4>3 DEF TypeOK
    <3>2. ASSUME NEW c \in Overridden PROVE Window(sent'[c])
      BY <2>14, <3>2, OlderWindow DEF Tick
    <3>3. wait' \in [Requests -> 0 .. MaxWait]
      BY <2>14, AdmissionAssumption DEF Tick, TypeOK, AdmissionAssumption
    <3>4. /\ reqs' = [k \in Windows |-> reqs'[k]] /\ samples' = [k \in Windows |-> samples'[k]]
          /\ sent' = [c \in Overridden |-> sent'[c]]
      BY <2>14 DEF Tick
    <3> QED
      BY <2>14, <3>1, <3>2, <3>3, <3>4, WindowAges DEF Tick, TypeOK
  <2>15. CASE UNCHANGED vars
    BY <2>15 DEF vars, TypeOK
  <2> QED
    BY <2>1, <2>2, <2>3, <2>4, <2>5, <2>6, <2>7, <2>8, <2>9, <2>10, <2>11, <2>12, <2>13, <2>14,
       <2>15
    DEF Next, Progress
<1> QED
  BY <1>1, <1>2, PTL DEF Spec, TypeInv

=============================================================================
