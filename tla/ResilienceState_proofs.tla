------------------------ MODULE ResilienceState_proofs ------------------------
(***************************************************************************)
(* What a restart of the gateway keeps, for any points, decay interval and *)
(* length of a cooldown.  The row of a penalty and the manager's entry are *)
(* two numbers each that age on their own, the row in a process that may   *)
(* be down; what relates them is the decay credit: how many ticks of decay *)
(* each still has to come.                                                 *)
(***************************************************************************)
EXTENDS ResilienceState, TLAPS

-----------------------------------------------------------------------------
\* The whole intervals in a span of time, and what is left of it.
LEMMA Intervals ==
    ASSUME NEW age \in Nat, NEW d \in Nat \ {0}
    PROVE  /\ age \div d \in Nat
           /\ (age \div d) * d <= age
           /\ age < (age \div d) * d + d
OBVIOUS

\* Multiples of a positive number.
LEMMA Multiples ==
    ASSUME NEW x \in Int, NEW y \in Int, NEW d \in Nat \ {0}
    PROVE  /\ x * d \in Int
           /\ (x - y) * d = x * d - y * d
           /\ x <= y => x * d <= y * d
           /\ 0 * d = 0
OBVIOUS

\* An inequality between them can be divided by it, also one that holds only up
\* to a fraction of it.
LEMMA Cancel ==
    ASSUME NEW x \in Int, NEW y \in Int, NEW d \in Nat \ {0}, x * d < y * d + d
    PROVE  x <= y
OBVIOUS

\* Ages are counted up to a natural number.
LEMMA MaxAgeType == MaxAge \in Nat /\ DecayInterval \in Nat \ {0} /\ MaxPenalty \in Nat
BY PenaltyAssumption, Multiples DEF PenaltyAssumption, MaxAge

\* No entry is an entry without points.
LEMMA NoPenaltyType ==
    /\ NoPenalty \in PenaltyEntry /\ NoPenalty.penalty = 0
    /\ 0 \in 0 .. CooldownTicks /\ CooldownTicks \in 0 .. CooldownTicks
BY MaxAgeType, ResilienceAssumption DEF NoPenalty, PenaltyEntry, ResilienceAssumption

\* An entry is one, whatever it was built from.
LEMMA EntryType ==
    ASSUME NEW points \in Int, points <= MaxPenalty, NEW age \in 0 .. MaxAge
    PROVE  Entry(points, age) \in PenaltyEntry
BY MaxAgeType DEF Entry, NoPenalty, PenaltyEntry

\* What is reported of an entry is no more than its points.
LEMMA ViewType ==
    ASSUME NEW e \in PenaltyEntry
    PROVE  /\ DecaySteps(e) \in Nat
           /\ View(e) \in 0 .. MaxPenalty
           /\ View(e) <= e.penalty
<1>1. e.age \in Nat /\ e.penalty \in 0 .. MaxPenalty
  BY MaxAgeType DEF PenaltyEntry
<1>2. DecaySteps(e) \in Nat
  BY <1>1, MaxAgeType, Intervals DEF DecaySteps
<1> QED
  BY <1>1, <1>2, MaxAgeType DEF View

\* What the manager, the database and time make of an entry is an entry.
LEMMA PenaltyTypes ==
    ASSUME NEW e \in PenaltyEntry, half \in {0, 1}
    PROVE  /\ AfterRateLimit(e) \in PenaltyEntry
           /\ AfterPenaltySuccess(e) \in PenaltyEntry
           /\ AfterGetPenalty(e) \in PenaltyEntry
           /\ AfterPenaltyTick(e) \in PenaltyEntry
           /\ PenaltyRow(e) \in PenaltyEntry
           /\ PenaltyRestored(e) \in PenaltyEntry
<1>1. e.age \in 0 .. MaxAge /\ e.penalty \in 0 .. MaxPenalty /\ 0 \in 0 .. MaxAge
  BY MaxAgeType DEF PenaltyEntry
<1>2. AfterRateLimit(e) \in PenaltyEntry
  BY <1>1, EntryType, MaxAgeType, PenaltyAssumption DEF AfterRateLimit, PenaltyAssumption
<1>3. AfterPenaltySuccess(e) \in PenaltyEntry
  BY <1>1, EntryType, MaxAgeType DEF AfterPenaltySuccess
<1>4. AfterGetPenalty(e) \in PenaltyEntry
  BY <1>1, EntryType, ViewType, MaxAgeType DEF AfterGetPenalty
<1>5. AfterPenaltyTick(e) \in PenaltyEntry
  BY MaxAgeType DEF AfterPenaltyTick, PenaltyEntry
<1>6. PenaltyRow(e) \in PenaltyEntry
  BY <1>1, EntryType, ViewType, MaxAgeType DEF PenaltyRow
<1>7. PenaltyRestored(e) \in PenaltyEntry
  BY <1>1, EntryType, ViewType, MaxAgeType DEF PenaltyRestored
<1> QED
  BY <1>2, <1>3, <1>4, <1>5, <1>6, <1>7

\* What is stored of a cooldown is it, but for half a second.
LEMMA CooldownTypes ==
    ASSUME NEW c \in 0 .. CooldownTicks, half \in {0, 1}
    PROVE  /\ CooldownRow(c) \in 0 .. CooldownTicks
           /\ CooldownRow(c) <= c /\ CooldownRow(c) >= c - 1
           /\ Down(c) \in 0 .. CooldownTicks
BY ResilienceAssumption DEF ResilienceAssumption, CooldownRow, Down

\* The two managers and their two rows stay in their ranges, through saves,
\* restores, decays and restarts, and nothing runs in a process that is down.
THEOREM TypeCorrect == Spec => []TypeOK
<1>1. Init => TypeOK
  BY NoPenaltyType DEF Init, TypeOK
<1>2. TypeOK /\ [Next]_vars => TypeOK'
  <2> SUFFICES ASSUME TypeOK, [Next]_vars PROVE TypeOK'
    OBVIOUS
  <2> USE DEF TypeOK, managers, database, process, history
  <2>1. CASE Boot
    BY <2>1, PenaltyTypes DEF Boot, CooldownRestored
  <2>2. CASE Start \/ ProcessEnds
    <3>1. CASE Start
      BY <3>1 DEF Start
    <3>2. CASE ProcessEnds
      BY <3>2 DEF ProcessEnds
    <3> QED
      BY <2>2, <3>1, <3>2
  <2>3. CASE SavePenalty
    BY <2>3, PenaltyTypes DEF SavePenalty
  <2>4. CASE SaveCooldown
    BY <2>4, CooldownTypes DEF SaveCooldown
  <2>5. CASE Stop
    BY <2>5, PenaltyTypes, CooldownTypes DEF Stop
  <2>6. CASE RateLimit \/ Success \/ ReadPenalty
    <3>1. pen' \in {AfterRateLimit(pen), AfterPenaltySuccess(pen), AfterGetPenalty(pen)}
      BY <2>6 DEF RateLimit, Success, ReadPenalty
    <3>2. pen' \in PenaltyEntry
      BY <3>1, PenaltyTypes
    <3>3. UNCHANGED <<up, running, storeOpen, saving, cool, dbPen, dbCool, half, lostStop>>
          /\ saved' \in BOOLEAN
      BY <2>6 DEF RateLimit, Success, ReadPenalty
    <3> QED
      BY <2>6, <3>2, <3>3
  <2>7. CASE KeyFails
    BY <2>7, NoPenaltyType DEF KeyFails
  <2>8. CASE Tick
    <3>1. half' \in {0, 1}
      BY <2>8 DEF Tick
    <3> QED
      BY <2>8, <3>1, PenaltyTypes, CooldownTypes DEF Tick
  <2>9. CASE StopAgain
    <3>1. running' \in BOOLEAN /\ (~up' => ~running')
      BY <2>9 DEF StopAgain
    <3>2. lostStop' \in BOOLEAN
      BY <2>9 DEF StopAgain
    <3> QED
      BY <2>9, <3>1, <3>2 DEF StopAgain
  <2>10. CASE UNCHANGED vars
    BY <2>10 DEF vars
  <2> QED
    BY <2>1, <2>2, <2>3, <2>4, <2>5, <2>6, <2>7, <2>8, <2>9, <2>10 DEF Next
<1> QED
  BY <1>1, <1>2, PTL DEF Spec

-----------------------------------------------------------------------------
\* After a Stop that nothing followed the store stays as it was left.
StoreClosed == saved => ~storeOpen /\ ~saving

\* The row is never behind the manager's cooldown, and after such a Stop at
\* most half a second ahead: both run down together, the process up or down.
CooldownInv ==
    /\ TypeOK
    /\ StoreClosed
    /\ dbCool <= cool
    /\ saved => dbCool >= cool - 1

\* The stored moment of a cooldown's end is its end, rounded down to a second,
\* so that a restart neither prolongs it nor takes more than that away.
THEOREM CooldownSurvives == Spec => CooldownSurvivesRestart
<1>1. Init => CooldownInv
  <2>1. Init => TypeOK
    BY NoPenaltyType DEF Init, TypeOK
  <2> QED
    BY <2>1 DEF Init, CooldownInv, StoreClosed
<1>2. CooldownInv /\ [Next]_vars /\ TypeOK' => CooldownInv'
  <2> SUFFICES ASSUME CooldownInv, [Next]_vars, TypeOK' PROVE CooldownInv'
    OBVIOUS
  <2> USE DEF CooldownInv, StoreClosed, managers, database, process, history
  <2>1. cool \in 0 .. CooldownTicks /\ dbCool \in 0 .. CooldownTicks /\ half \in {0, 1}
    BY DEF TypeOK
  <2>2. CASE Boot
    BY <2>1, <2>2 DEF Boot, CooldownRestored
  <2>3. CASE Start \/ StopAgain \/ ProcessEnds
    BY <2>3 DEF Start, StopAgain, ProcessEnds
  <2>4. CASE SavePenalty
    BY <2>4 DEF SavePenalty
  <2>5. CASE SaveCooldown
    BY <2>1, <2>5, CooldownTypes DEF SaveCooldown
  <2>6. CASE Stop
    BY <2>1, <2>6, CooldownTypes DEF Stop
  <2>7. CASE RateLimit \/ Success \/ ReadPenalty
    BY <2>7 DEF RateLimit, Success, ReadPenalty
  <2>8. CASE KeyFails
    BY <2>1, <2>8 DEF KeyFails
  <2>9. CASE Tick
    BY <2>1, <2>9 DEF Tick, Down
  <2>10. CASE UNCHANGED vars
    BY <2>10 DEF vars
  <2> QED
    BY <2>2, <2>3, <2>4, <2>5, <2>6, <2>7, <2>8, <2>9, <2>10 DEF Next
<1>3. CooldownInv /\ [Next]_vars =>
        [Boot => cool' <= cool /\ (saved => cool' >= cool - 1)]_vars
  BY DEF CooldownInv, Boot, CooldownRestored
<1> QED
  BY <1>1, <1>2, <1>3, TypeCorrect, PTL DEF Spec, CooldownSurvivesRestart

-----------------------------------------------------------------------------
\* Ticks of decay an entry still has to come; negative once it is worth nothing.
Credit(e) == e.penalty * DecayInterval - e.age

\* After a Stop that nothing followed the row is worth nothing or has no more
\* decay to come than the manager's entry has.  View alone would not do: two
\* entries of the same worth can be at different places in their interval.
CreditInv ==
    /\ StoreClosed
    /\ saved => Credit(dbPen) <= 0 \/ Credit(dbPen) <= Credit(pen)

\* What an entry is worth is what it has to come, rounded up to whole intervals.
LEMMA CreditOrdersViews ==
    ASSUME NEW e \in PenaltyEntry, NEW f \in PenaltyEntry,
           Credit(e) <= 0 \/ Credit(e) <= Credit(f)
    PROVE  View(e) <= View(f)
<1> DEFINE d == DecayInterval
<1> DEFINE m == DecaySteps(e)
<1> DEFINE n == DecaySteps(f)
<1>1. /\ e.penalty \in Int /\ f.penalty \in Int /\ e.age \in Nat /\ f.age \in Nat
      /\ d \in Nat \ {0}
  BY MaxAgeType DEF PenaltyEntry
<1>2. /\ m \in Nat /\ m * d <= e.age /\ e.age < m * d + d
      /\ n \in Nat /\ n * d <= f.age /\ f.age < n * d + d
  BY <1>1, Intervals DEF DecaySteps
<1>3. CASE Credit(e) <= 0
  <2>1. e.penalty * d < m * d + d
    BY <1>1, <1>2, <1>3, Multiples DEF Credit
  <2>2. e.penalty <= m
    BY <1>1, <1>2, <2>1, Cancel
  <2>3. View(e) = 0
    BY <1>1, <1>2, <2>2 DEF View
  <2> QED
    BY <2>3, ViewType
<1>4. CASE Credit(e) <= Credit(f)
  <2>1. e.penalty * d - e.age <= f.penalty * d - f.age
    BY <1>4 DEF Credit
  <2>2. /\ (e.penalty - m) * d = e.penalty * d - m * d
        /\ (f.penalty - n) * d = f.penalty * d - n * d
        /\ e.penalty * d \in Int /\ f.penalty * d \in Int /\ m * d \in Int /\ n * d \in Int
    BY <1>1, <1>2, Multiples
  <2>3. (e.penalty - m) * d < (f.penalty - n) * d + d
    BY <1>1, <1>2, <2>1, <2>2
  <2>4. e.penalty - m <= f.penalty - n
    BY <1>1, <1>2, <2>3, Cancel
  <2> QED
    BY <1>1, <1>2, <2>4 DEF View
<1> QED
  BY <1>3, <1>4

\* Restoring takes decay off, never adds any.
LEMMA RestoredViews ==
    ASSUME NEW e \in PenaltyEntry
    PROVE  View(PenaltyRestored(e)) <= View(e)
<1>1. View(e) \in Nat
  BY ViewType, MaxAgeType
<1>2. CASE View(e) > 0
  <2>1. PenaltyRestored(e) = [penalty |-> View(e), age |-> e.age]
    BY <1>2 DEF PenaltyRestored, Entry
  <2>2. DecaySteps(PenaltyRestored(e)) \in Nat
    BY <2>1, ViewType DEF DecaySteps
  <2> QED
    BY <1>1, <2>1, <2>2 DEF View
<1>3. CASE ~(View(e) > 0)
  <2>1. PenaltyRestored(e) = NoPenalty
    BY <1>3 DEF PenaltyRestored, Entry
  <2>2. View(NoPenalty) = 0
    BY ViewType, PenaltyTypes, MaxAgeType DEF NoPenalty, View, PenaltyEntry
  <2> QED
    BY <1>1, <2>1, <2>2
<1> QED
  BY <1>2, <1>3

\* An entry counted to its last tick has nothing to come.
LEMMA CreditRunsOut ==
    ASSUME NEW e \in PenaltyEntry
    PROVE  /\ Credit(e) \in Int
           /\ Credit(NoPenalty) = 0
           /\ e.age = MaxAge => Credit(e) <= 0
           /\ e.penalty = 0 => Credit(e) <= 0
<1>1. e.penalty \in 0 .. MaxPenalty /\ e.age \in 0 .. MaxAge
  BY DEF PenaltyEntry
<1>2. e.penalty * DecayInterval <= MaxPenalty * DecayInterval
  BY <1>1, MaxAgeType, Multiples
<1>3. 0 * DecayInterval = 0 /\ e.penalty * DecayInterval \in Int
  BY <1>1, MaxAgeType, Multiples
<1> QED
  BY <1>1, <1>2, <1>3, MaxAgeType DEF Credit, NoPenalty, MaxAge

\* What Stop writes: the points that are left next to an age that is not less.
LEMMA CreditOfRow ==
    ASSUME NEW e \in PenaltyEntry, half \in {0, 1}
    PROVE  Credit(PenaltyRow(e)) <= 0 \/ Credit(PenaltyRow(e)) <= Credit(e)
<1> DEFINE row == PenaltyRow(e)
<1>1. row \in PenaltyEntry
  BY PenaltyTypes
<1>2. e.age \in 0 .. MaxAge /\ View(e) \in 0 .. MaxPenalty /\ View(e) <= e.penalty
      /\ e.penalty \in 0 .. MaxPenalty
  BY ViewType DEF PenaltyEntry
<1>3. CASE View(e) > 0
  <2>1. row.penalty = View(e) /\ (row.age = MaxAge \/ row.age >= e.age)
    BY <1>2, <1>3, MaxAgeType DEF PenaltyRow, Entry
  <2>2. CASE row.age = MaxAge
    BY <1>1, <2>2, CreditRunsOut
  <2>3. CASE row.age >= e.age
    <3>1. View(e) * DecayInterval <= e.penalty * DecayInterval
          /\ View(e) * DecayInterval \in Int /\ e.penalty * DecayInterval \in Int
      BY <1>2, MaxAgeType, Multiples
    <3> HIDE DEF row
    <3>2. row.age \in Int
      BY <1>1 DEF PenaltyEntry
    <3> QED
      BY <1>2, <2>1, <2>3, <3>1, <3>2, MaxAgeType DEF Credit, row
  <2> QED
    BY <2>1, <2>2, <2>3
<1>4. CASE ~(View(e) > 0)
  <2>1. row = NoPenalty
    BY <1>4 DEF PenaltyRow, Entry
  <2> QED
    BY <2>1, CreditRunsOut
<1> QED
  BY <1>3, <1>4

\* Applying the decay that is due, and restarting the interval, keeps at least
\* what there was to come.
LEMMA CreditOfRead ==
    ASSUME NEW e \in PenaltyEntry
    PROVE  Credit(e) <= 0 \/ Credit(e) <= Credit(AfterGetPenalty(e))
<1> DEFINE d == DecayInterval
<1> DEFINE k == DecaySteps(e)
<1>1. e.penalty \in 0 .. MaxPenalty /\ e.age \in Nat /\ d \in Nat \ {0} /\ MaxPenalty \in Nat
  BY MaxAgeType DEF PenaltyEntry
<1>2. k \in Nat /\ k * d <= e.age
  BY <1>1, Intervals DEF DecaySteps
<1>3. (e.penalty - k) * d = e.penalty * d - k * d
      /\ e.penalty * d \in Int /\ k * d \in Int
  BY <1>1, <1>2, Multiples
<1>4. Credit(e) <= (e.penalty - k) * d
  BY <1>1, <1>2, <1>3 DEF Credit
<1>5. CASE k > 0 /\ e.penalty - k > 0
  <2>1. AfterGetPenalty(e) = [penalty |-> e.penalty - k, age |-> 0]
    BY <1>5 DEF AfterGetPenalty, Entry
  <2> QED
    BY <1>1, <1>2, <1>3, <1>4, <2>1 DEF Credit
<1>6. CASE k > 0 /\ ~(e.penalty - k > 0)
  <2>1. (e.penalty - k) * d <= 0 * d /\ 0 * d = 0
    BY <1>1, <1>2, <1>6, Multiples
  <2> QED
    BY <1>1, <1>3, <1>4, <2>1, CreditRunsOut
<1>7. CASE ~(k > 0)
  <2>1. AfterGetPenalty(e) = e
    BY <1>7 DEF AfterGetPenalty
  <2> QED
    BY <2>1, CreditRunsOut
<1> QED
  BY <1>5, <1>6, <1>7

\* A tick takes from the row what it takes from the entry, unless the row is
\* worth nothing.
LEMMA CreditOfTick ==
    ASSUME NEW e \in PenaltyEntry, NEW f \in PenaltyEntry,
           Credit(e) <= 0 \/ Credit(e) <= Credit(f)
    PROVE  \/ Credit(AfterPenaltyTick(e)) <= 0
           \/ Credit(AfterPenaltyTick(e)) <= Credit(AfterPenaltyTick(f))
<1>1. /\ e.age \in Int /\ f.age \in Int /\ e.penalty \in Int /\ f.penalty \in Int
      /\ e.penalty >= 0 /\ e.age <= MaxAge
      /\ e.penalty * DecayInterval \in Int /\ f.penalty * DecayInterval \in Int
  BY MaxAgeType, Multiples DEF PenaltyEntry
<1>2. Credit(AfterPenaltyTick(f)) \in {Credit(f), Credit(f) - 1}
  <2>1. AfterPenaltyTick(f) = [f EXCEPT !.age = @ + 1] \/ AfterPenaltyTick(f) = f
    BY DEF AfterPenaltyTick
  <2>2. [f EXCEPT !.age = @ + 1].age = f.age + 1
        /\ [f EXCEPT !.age = @ + 1].penalty = f.penalty
    BY DEF PenaltyEntry
  <2>3. Credit([f EXCEPT !.age = @ + 1]) = Credit(f) - 1
    BY <1>1, <2>2 DEF Credit
  <2> QED
    BY <2>1, <2>3
<1>3. CASE e.penalty > 0 /\ e.age < MaxAge
  <2>1. AfterPenaltyTick(e).age = e.age + 1 /\ AfterPenaltyTick(e).penalty = e.penalty
    BY <1>3 DEF AfterPenaltyTick, PenaltyEntry
  <2>2. Credit(AfterPenaltyTick(e)) = Credit(e) - 1
    BY <1>1, <2>1 DEF Credit
  <2> QED
    BY <1>2, <2>2, CreditRunsOut
<1>4. CASE ~(e.penalty > 0 /\ e.age < MaxAge)
  <2>1. AfterPenaltyTick(e) = e
    BY <1>4 DEF AfterPenaltyTick
  <2>2. e.penalty = 0 \/ e.age = MaxAge
    BY <1>1, <1>4, MaxAgeType
  <2> QED
    BY <2>1, <2>2, CreditRunsOut
<1> QED
  BY <1>3, <1>4

\* Restarting after a Stop never makes the gateway stricter with a candidate,
\* although the row pairs points that have decayed with the age from before
\* that decay, and both go on aging while the process is down.
THEOREM RestartForgives == Spec => RestartNeverAddsPenalty
<1>1. Init => CreditInv
  BY CreditRunsOut, NoPenaltyType DEF Init, CreditInv, StoreClosed
<1>2. TypeOK /\ CreditInv /\ [Next]_vars => CreditInv'
  <2> SUFFICES ASSUME TypeOK, CreditInv, [Next]_vars PROVE CreditInv'
    OBVIOUS
  <2> USE DEF CreditInv, StoreClosed, managers, database, process, history
  <2>1. pen \in PenaltyEntry /\ dbPen \in PenaltyEntry /\ half \in {0, 1}
    BY DEF TypeOK
  <2>2. CASE Boot
    BY <2>2 DEF Boot
  <2>3. CASE Start \/ StopAgain \/ ProcessEnds
    BY <2>3 DEF Start, StopAgain, ProcessEnds
  <2>4. CASE SavePenalty \/ SaveCooldown
    BY <2>4 DEF SavePenalty, SaveCooldown
  <2>5. CASE Stop
    BY <2>1, <2>5, CreditOfRow DEF Stop
  <2>6. CASE RateLimit \/ Success \/ KeyFails
    BY <2>6 DEF RateLimit, Success, KeyFails
  <2>7. CASE ReadPenalty
    <3>1. saved' = saved /\ storeOpen' = storeOpen /\ saving' = saving
          /\ dbPen' = dbPen /\ pen' = AfterGetPenalty(pen)
      BY <2>7 DEF ReadPenalty
    <3>2. Credit(pen) \in Int /\ Credit(dbPen) \in Int /\ Credit(AfterGetPenalty(pen)) \in Int
      BY <2>1, CreditRunsOut, PenaltyTypes
    <3>3. Credit(pen) <= 0 \/ Credit(pen) <= Credit(AfterGetPenalty(pen))
      BY <2>1, CreditOfRead
    <3> QED
      BY <3>1, <3>2, <3>3
  <2>8. CASE Tick
    <3>1. saved' = saved /\ storeOpen' = storeOpen /\ saving' = saving
          /\ dbPen' = AfterPenaltyTick(dbPen) /\ pen' = AfterPenaltyTick(pen)
      BY <2>8 DEF Tick
    <3> QED
      BY <2>1, <3>1, CreditOfTick
  <2>9. CASE UNCHANGED vars
    BY <2>9 DEF vars, Credit
  <2> QED
    BY <2>2, <2>3, <2>4, <2>5, <2>6, <2>7, <2>8, <2>9 DEF Next
<1>3. TypeOK /\ CreditInv => [Boot /\ saved => View(pen') <= View(pen)]_vars
  <2> SUFFICES ASSUME TypeOK, CreditInv, Boot, saved PROVE View(pen') <= View(pen)
    OBVIOUS
  <2>1. pen' = PenaltyRestored(dbPen) /\ pen \in PenaltyEntry /\ dbPen \in PenaltyEntry
    BY DEF Boot, TypeOK
  <2>2. View(PenaltyRestored(dbPen)) <= View(dbPen) /\ View(dbPen) <= View(pen)
    BY <2>1, RestoredViews, CreditOrdersViews DEF CreditInv
  <2>3. View(PenaltyRestored(dbPen)) \in Int /\ View(dbPen) \in Int /\ View(pen) \in Int
    BY <2>1, ViewType, PenaltyTypes, MaxAgeType DEF TypeOK
  <2> QED
    BY <2>1, <2>2, <2>3
<1> QED
  BY <1>1, <1>2, <1>3, TypeCorrect, PTL DEF Spec, RestartNeverAddsPenalty

=============================================================================
