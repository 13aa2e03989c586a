------------------------------- MODULE Penalty -------------------------------
(***************************************************************************)
(* One entry of providers/penalty.go: what a rate limited channel:model    *)
(* pays in the ordering of candidates.  Time is relative: age is           *)
(* time.Now() - LastHit in ticks.  An absent map entry is the record with  *)
(* penalty 0.  Once every point has decayed an older age tells nothing     *)
(* new, so age stops at MaxAge.                                            *)
(***************************************************************************)
EXTENDS Integers

CONSTANTS
    PenaltyPer429,      \* points a 429 costs (3)
    MaxPenalty,         \* the cap RecordRateLimit applies (10)
    DecayInterval       \* ticks after which one point is forgiven (2 minutes)

ASSUME PenaltyAssumption ==
    /\ PenaltyPer429 \in Nat \ {0}
    /\ MaxPenalty \in Nat /\ PenaltyPer429 <= MaxPenalty
    /\ DecayInterval \in Nat \ {0}

MaxAge == MaxPenalty * DecayInterval

PenaltyEntry == [penalty : 0 .. MaxPenalty, age : 0 .. MaxAge]

NoPenalty == [penalty |-> 0, age |-> 0]

\* An entry that would be worth nothing is deleted.
Entry(points, age) ==
    IF points > 0 THEN [penalty |-> points, age |-> age] ELSE NoPenalty

DecaySteps(e) == e.age \div DecayInterval

\* What GetAllPenalties reports: the decay that is due, not applied.
View(e) == IF e.penalty > DecaySteps(e) THEN e.penalty - DecaySteps(e) ELSE 0

\* The decay that is due is not applied first: a 429 revives points that had
\* already been forgiven.
AfterRateLimit(e) ==
    LET sum == e.penalty + PenaltyPer429
    IN  Entry(IF sum > MaxPenalty THEN MaxPenalty ELSE sum, 0)

\* Mutant of AfterPenaltySuccess: an entry used up is not deleted.
SuccessKeepsEntry(e) == [e EXCEPT !.penalty = @ - 1]

AfterPenaltySuccess(e) == Entry(e.penalty - 1, e.age)

\* GetPenalty writes the decay back and restarts the interval at now, which
\* drops the fraction of an interval that had already passed.
AfterGetPenalty(e) ==
    IF DecaySteps(e) > 0 THEN Entry(e.penalty - DecaySteps(e), 0) ELSE e

AfterPenaltyTick(e) ==
    IF e.penalty > 0 /\ e.age < MaxAge THEN [e EXCEPT !.age = @ + 1] ELSE e

=============================================================================
