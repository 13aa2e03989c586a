--------------------------- MODULE ResilienceState ---------------------------
(***************************************************************************)
(* One penalty and one cooldown through the life of the desktop process:   *)
(* gateway.NewService loads them from state.db, autosave and Service.Stop  *)
(* write them back, the process crashes or exits and comes back, and a     *)
(* network change or a logout stops and restarts the same Service.         *)
(*                                                                         *)
(* Time is relative: pen.age is how long ago LastHit was, cool how long    *)
(* the cooldown still lasts.  A tick is half a second, because the         *)
(* database stores whole seconds (time.RFC3339).  While the process is     *)
(* down pen and cool keep ticking: they are then what the managers would   *)
(* hold had it kept running, and Boot replaces them.                       *)
(***************************************************************************)
EXTENDS Penalty

CONSTANT CooldownTicks

ASSUME ResilienceAssumption == CooldownTicks \in Nat \ {0}

VARIABLES
    up,         \* the process runs
    running,    \* Service.running: the HTTP server listens
    storeOpen,  \* state.db is open and autosave runs: Stop was not called yet
    saving,     \* autosave is between its two transactions
    pen,        \* PenaltyManager's entry
    cool,       \* ticks left of CooldownManager's entry, 0 for none
    dbPen,      \* the row of penalty_state, NoPenalty for none
    dbCool,     \* the row of cooldown_state, 0 for none or expired
    half,       \* 1 in the second half of a second
    saved,      \* Stop saved everything that has happened (history)
    lostStop    \* a Stop left something unsaved (history)

managers == <<pen, cool>>
database == <<dbPen, dbCool>>
process == <<up, running, storeOpen, saving>>
history == <<saved, lostStop>>
vars == <<up, running, storeOpen, saving, pen, cool, dbPen, dbCool, half, saved, lostStop>>

\* The managers hold what their types allow, and nothing runs in a process
\* that is down.
TypeOK ==
    /\ up \in BOOLEAN /\ running \in BOOLEAN /\ storeOpen \in BOOLEAN /\ saving \in BOOLEAN
    /\ ~up => ~running /\ ~storeOpen
    /\ saving => storeOpen
    /\ pen \in PenaltyEntry /\ dbPen \in PenaltyEntry
    /\ cool \in 0 .. CooldownTicks /\ dbCool \in 0 .. CooldownTicks
    /\ half \in {0, 1}
    /\ saved \in BOOLEAN /\ lostStop \in BOOLEAN

Init ==
    /\ up = FALSE /\ running = FALSE /\ storeOpen = FALSE /\ saving = FALSE
    /\ pen = NoPenalty /\ cool = 0
    /\ dbPen = NoPenalty /\ dbCool = 0
    /\ half = 0
    /\ saved = TRUE /\ lostStop = FALSE

-----------------------------------------------------------------------------
\* PersistToDB of the two managers.  The penalty is written with the decay that
\* is due, but next to the LastHit from before that decay.
PenaltyRow(e) ==
    LET sinceSecond == (half + e.age) % 2
        age == IF e.age + sinceSecond > MaxAge THEN MaxAge ELSE e.age + sinceSecond
    IN  Entry(View(e), age)

CooldownRow(c) == IF c > 0 /\ (half + c) % 2 = 1 THEN c - 1 ELSE c

\* Mutant of PenaltyRestored: the time the gateway was down is not counted.
RestoredAsNew(row) == Entry(row.penalty, 0)

\* RestoreFromDB takes the decay off again and keeps LastHit, so GetPenalty
\* will take it off once more.
PenaltyRestored(row) == Entry(View(row), row.age)

\* Mutant of CooldownRestored: a cooldown starts over.
RestoredInFull(row) == IF row > 0 THEN CooldownTicks ELSE 0

CooldownRestored(row) == row

-----------------------------------------------------------------------------
\* NewService: open the store, load it, start autosave.
Boot ==
    /\ ~up
    /\ up' = TRUE /\ storeOpen' = TRUE
    /\ pen' = PenaltyRestored(dbPen)
    /\ cool' = CooldownRestored(dbCool)
    /\ saved' = FALSE
    /\ UNCHANGED <<running, saving, database, half, lostStop>>

Start ==
    /\ up /\ ~running
    /\ running' = TRUE
    /\ UNCHANGED <<up, storeOpen, saving, managers, database, half, history>>

\* Autosave's SaveAll: one transaction for the penalties, one for the cooldowns.
SavePenalty ==
    /\ storeOpen /\ ~saving
    /\ dbPen' = PenaltyRow(pen)
    /\ saving' = TRUE
    /\ UNCHANGED <<up, running, storeOpen, managers, dbCool, half, history>>

SaveCooldown ==
    /\ saving
    /\ dbCool' = CooldownRow(cool)
    /\ saving' = FALSE
    /\ UNCHANGED <<up, running, storeOpen, managers, dbPen, half, history>>

\* Mutant of Stop: the store is closed before it is written.
StopThenSave ==
    /\ up /\ storeOpen /\ ~saving
    /\ storeOpen' = FALSE /\ running' = FALSE /\ saved' = TRUE
    /\ UNCHANGED <<up, saving, managers, database, half, lostStop>>

\* Service.Stop: on logout, on a network change, when the app quits.  It waits
\* for a SaveAll under way, saves and closes the store.
Stop ==
    /\ up /\ storeOpen /\ ~saving
    /\ dbPen' = PenaltyRow(pen) /\ dbCool' = CooldownRow(cool)
    /\ storeOpen' = FALSE
    /\ running' = FALSE
    /\ saved' = TRUE
    /\ UNCHANGED <<up, saving, managers, half, lostStop>>

\* Stop was called on this Service before: stopAutoSave closes a closed channel,
\* which panics before anything is saved.  That ends the process, or only the
\* call if it came from the frontend, whose runtime recovers.
StopAgain ==
    /\ up /\ ~storeOpen
    /\ up' \in BOOLEAN
    /\ running' = (running /\ up')
    /\ lostStop' = (lostStop \/ ~saved)
    /\ UNCHANGED <<storeOpen, saving, managers, database, half, saved>>

\* The process ends: it exits after Stop, or it crashes.
ProcessEnds ==
    /\ up
    /\ up' = FALSE /\ running' = FALSE /\ storeOpen' = FALSE /\ saving' = FALSE
    /\ UNCHANGED <<managers, database, half, history>>

-----------------------------------------------------------------------------
\* Handlers under way finish after Stop has closed the server, so only the
\* process has to be up for these.
RateLimit ==
    /\ up
    /\ pen' = AfterRateLimit(pen)
    /\ saved' = FALSE
    /\ UNCHANGED <<process, cool, database, half, lostStop>>

Success ==
    /\ up /\ pen # NoPenalty
    /\ pen' = AfterPenaltySuccess(pen)
    /\ saved' = FALSE
    /\ UNCHANGED <<process, cool, database, half, lostStop>>

ReadPenalty ==
    /\ up /\ DecaySteps(pen) > 0
    /\ pen' = AfterGetPenalty(pen)
    /\ UNCHANGED <<process, cool, database, half, history>>

KeyFails ==
    /\ up
    /\ cool' = CooldownTicks
    /\ saved' = FALSE
    /\ UNCHANGED <<process, pen, database, half, lostStop>>

Down(c) == IF c > 0 THEN c - 1 ELSE 0

Tick ==
    /\ half' = 1 - half
    /\ pen' = AfterPenaltyTick(pen) /\ dbPen' = AfterPenaltyTick(dbPen)
    /\ cool' = Down(cool) /\ dbCool' = Down(dbCool)
    /\ UNCHANGED <<process, history>>

Next ==
    \/ Boot \/ Start \/ SavePenalty \/ SaveCooldown \/ Stop \/ StopAgain \/ ProcessEnds
    \/ RateLimit \/ Success \/ ReadPenalty \/ KeyFails \/ Tick

\* Only time is sure to go on.
Spec == Init /\ [][Next]_vars /\ WF_vars(Tick)

-----------------------------------------------------------------------------
\* A restart, after a crash or not, never makes a key wait longer than it would
\* have: what is stored is a moment in time, not a duration. After a Stop that
\* nothing followed, the cooldown is back for all but the part of a second the
\* stored time does not have.
CooldownSurvivesRestart ==
    [][Boot => cool' <= cool /\ (saved => cool' >= cool - 1)]_vars

\* After such a Stop the gateway is never stricter with a candidate than it
\* would have been without the restart.
RestartNeverAddsPenalty == [][Boot /\ saved => View(pen') <= View(pen)]_vars

\* Once the upstream stops failing the candidate and its key are forgiven for
\* good, however often the penalty is read, saved, loaded or the process crashes.
ForgivenEventually ==
    <>[][~RateLimit /\ ~KeyFails]_vars => <>[](View(pen) = 0 /\ cool = 0)

\* "This allows penalty/cooldown entries to survive gateway restarts": after
\* such a Stop a restart forgives at most what the stored time rounds off.
PenaltySurvivesRestart == [][Boot /\ saved => View(pen') >= View(pen) - 1]_vars

\* "Stop auto-save and persist final state": every Stop does.
StopPersists == ~lostStop

=============================================================================
