-------------------------- MODULE ConcurrencyLimiter --------------------------
(***************************************************************************)
(* providers.ConcurrencyLimiter at the grain of its atomics, for one       *)
(* channel (its two maps never relate two channels).  Acquire and Release  *)
(* read the maps under the read lock, then work on the counter with a      *)
(* load and a compare-and-swap, and SetLimit may come between any two of   *)
(* these.                                                                  *)
(*                                                                         *)
(* Acquire's branch for a channel with a limit and no counter is left out: *)
(* SetLimit is the only writer of both maps and creates them together.     *)
(***************************************************************************)
EXTENDS Integers, FiniteSets

CONSTANTS
    Requests,
    Limits          \* the MaxConcurrent values the user sets

ASSUME LimiterAssumption == IsFiniteSet(Requests) /\ Limits \subseteq Nat

VARIABLES
    limit,      \* cl.limits of the channel, 0 when it has no entry
    exists,     \* the channel has an entry in cl.inflight
    counter,    \* the int32 that entry points to
    pc,         \* where a request is in Acquire or Release
    lim,        \* the limit its Acquire read
    current,    \* the value it loaded last
    steady      \* SetLimit has not been called since the start (history)

vars == <<limit, exists, counter, pc, lim, current, steady>>

TypeOK ==
    /\ limit \in Limits \union {0}
    /\ exists \in BOOLEAN
    /\ counter \in 0 .. Cardinality(Requests)
    /\ pc \in [Requests -> {"idle", "load", "cas", "held", "unload", "uncas"}]
    /\ lim \in [Requests -> Limits \union {0}]
    /\ current \in [Requests -> 0 .. Cardinality(Requests)]
    /\ steady \in BOOLEAN

\* The gateway sets the limit of the channels that have one before it serves.
Init ==
    /\ limit \in Limits \union {0}
    /\ exists = (limit > 0)
    /\ counter = 0
    /\ pc = [r \in Requests |-> "idle"]
    /\ lim = [r \in Requests |-> 0]
    /\ current = [r \in Requests |-> 0]
    /\ steady = TRUE

Goto(r, there) == pc' = [pc EXCEPT ![r] = there]

SetLimit(n) ==
    /\ limit' = n
    /\ exists' = TRUE
    /\ steady' = FALSE
    /\ UNCHANGED <<counter, pc, lim, current>>

\* The limit read here is what the request is held to, whatever SetLimit does
\* next; with no limit it enters without being counted.
AcquireRead(r) ==
    /\ pc[r] = "idle"
    /\ lim' = [lim EXCEPT ![r] = limit]
    /\ Goto(r, IF limit = 0 THEN "held" ELSE "load")
    /\ UNCHANGED <<limit, exists, counter, current, steady>>

AcquireLoad(r) ==
    /\ pc[r] = "load"
    /\ current' = [current EXCEPT ![r] = counter]
    /\ Goto(r, IF counter >= lim[r] THEN "idle" ELSE "cas")
    /\ UNCHANGED <<limit, exists, counter, lim, steady>>

\* Mutant of AcquireCAS: a load and a store in place of the compare-and-swap.
AcquireStore(r) ==
    /\ pc[r] = "cas"
    /\ counter' = current[r] + 1
    /\ Goto(r, "held")
    /\ UNCHANGED <<limit, exists, lim, current, steady>>

\* One attempt: losing the race is answered like a full channel.
AcquireCAS(r) ==
    /\ pc[r] = "cas"
    /\ IF counter = current[r]
       THEN counter' = counter + 1 /\ Goto(r, "held")
       ELSE UNCHANGED counter /\ Goto(r, "idle")
    /\ UNCHANGED <<limit, exists, lim, current, steady>>

ReleaseRead(r) ==
    /\ pc[r] = "held"
    /\ Goto(r, IF exists THEN "unload" ELSE "idle")
    /\ UNCHANGED <<limit, exists, counter, lim, current, steady>>

\* Mutant of ReleaseLoad: the guard against going below zero is missing.
ReleaseLoadAny(r) ==
    /\ pc[r] = "unload"
    /\ current' = [current EXCEPT ![r] = counter]
    /\ Goto(r, "uncas")
    /\ UNCHANGED <<limit, exists, counter, lim, steady>>

ReleaseLoad(r) ==
    /\ pc[r] = "unload"
    /\ current' = [current EXCEPT ![r] = counter]
    /\ Goto(r, IF counter <= 0 THEN "idle" ELSE "uncas")
    /\ UNCHANGED <<limit, exists, counter, lim, steady>>

\* Mutant of ReleaseCAS: a lost race is taken for a release.
ReleaseOnce(r) ==
    /\ pc[r] = "uncas"
    /\ counter' = IF counter = current[r] THEN counter - 1 ELSE counter
    /\ Goto(r, "idle")
    /\ UNCHANGED <<limit, exists, lim, current, steady>>

ReleaseCAS(r) ==
    /\ pc[r] = "uncas"
    /\ IF counter = current[r]
       THEN counter' = counter - 1 /\ Goto(r, "idle")
       ELSE UNCHANGED counter /\ Goto(r, "unload")
    /\ UNCHANGED <<limit, exists, lim, current, steady>>

Next ==
    \/ \E n \in Limits : SetLimit(n)
    \/ \E r \in Requests :
         \/ AcquireRead(r) \/ AcquireLoad(r) \/ AcquireCAS(r)
         \/ ReleaseRead(r) \/ ReleaseLoad(r) \/ ReleaseCAS(r)

Spec == Init /\ [][Next]_vars

-----------------------------------------------------------------------------
\* Requests that have their slot and have not given it back yet.
InService == {r \in Requests : pc[r] \in {"held", "unload", "uncas"}}

\* No slot is lost: the counter never says more requests are in service than
\* are, whatever SetLimit did meanwhile.  Once the channel is quiet it is 0, so
\* no request is refused for one that is gone.
NoPhantomSlot == counter <= Cardinality(InService)

\* A channel whose limit is left alone is a counting semaphore, even though
\* its check and its increment are two steps.
ImplementsSlots == INSTANCE Slots WITH inService <- Cardinality(InService)

SlotsSpec == ImplementsSlots!Spec

=============================================================================
