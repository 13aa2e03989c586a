----------------------------- MODULE RelayChannel -----------------------------
(***************************************************************************)
(* One channel of the relay gateway (SeasAGI-Server): relay requests and   *)
(* the health checker observe its upstream, operators drain and restore    *)
(* it, and all of them write the one record in channel.Store, which is     *)
(* saved to relay-gateway.db after every write and outside the lock.       *)
(*                                                                         *)
(* Each of them reads the record, does something else and then writes it   *)
(* back; the steps here are those reads and writes.  An operator's request *)
(* edits the shared record through GetChannel's pointer and then replaces  *)
(* it with the copy it took (UpdateChannel), so what was written in        *)
(* between is lost.                                                        *)
(***************************************************************************)
EXTENDS Naturals

CONSTANTS
    Handlers,       \* relay requests that may be under way at once
    Pinned,         \* those whose token names the channel
    Operators       \* /ops requests that may be under way at once

ASSUME RelayAssumption == Pinned \subseteq Handlers

VARIABLES
    channel,    \* Store.channels[id]
    db,         \* its row in relay_channels
    upstream,   \* "up" or "down"
    handler,    \* where a relay request is
    observed,   \* the HealthStatus it is about to write
    checker,    \* where the checker is in its loop
    snapshot,   \* ConsecFail in the list checkAll works through
    found,      \* the HealthStatus it is about to write
    operator,   \* where an operator's request is
    copy        \* the Channel it will store

vars == <<channel, db, upstream, handler, observed, checker, snapshot, found, operator, copy>>

\* ConsecFail matters only up to the 3 that disable a channel.
FailLimit == 3
Fails == 0 .. FailLimit
OneMore(n) == IF n < FailLimit THEN n + 1 ELSE n

Health == [healthy : BOOLEAN, fails : Fails]
Channel == [enabled : BOOLEAN, readOnly : BOOLEAN, healthy : BOOLEAN, fails : Fails]

Good == [healthy |-> TRUE, fails |-> 0]
Bad(n) == [healthy |-> FALSE, fails |-> n]

New == [enabled |-> TRUE, readOnly |-> FALSE, healthy |-> TRUE, fails |-> 0]

\* Every record and every HealthStatus under way has its type, and a channel
\* that is healthy has no failures counted against it.
TypeOK ==
    /\ channel \in Channel /\ db \in Channel
    /\ channel.healthy => channel.fails = 0
    /\ upstream \in {"up", "down"}
    /\ handler \in [Handlers -> {"idle", "sent", "write", "save"}]
    /\ observed \in [Handlers -> Health]
    /\ checker \in {"idle", "probe", "write", "save"}
    /\ snapshot \in Fails /\ found \in Health
    /\ operator \in [Operators -> {"idle", "store", "save"}]
    /\ copy \in [Operators -> Channel]

\* A channel from relay-channels.json may come without a health.
Init ==
    /\ channel \in {New, [New EXCEPT !.healthy = FALSE]} /\ db = channel
    /\ upstream = "up"
    /\ handler = [r \in Handlers |-> "idle"]
    /\ observed = [r \in Handlers |-> Good]
    /\ checker = "idle" /\ snapshot = 0 /\ found = Good
    /\ operator = [o \in Operators |-> "idle"]
    /\ copy = [o \in Operators |-> New]

-----------------------------------------------------------------------------
\* Mutant of WithHealth: a success leaves the count of failures.
WithHealthKeepsCount(c, h) ==
    [c EXCEPT !.healthy = h.healthy, !.fails = IF h.healthy THEN @ ELSE h.fails,
              !.enabled = @ /\ h.fails < FailLimit]

\* UpdateHealth.
WithHealth(c, h) ==
    [c EXCEPT !.healthy = h.healthy, !.fails = h.fails,
              !.enabled = @ /\ h.fails < FailLimit]

Serves == channel.enabled /\ ~channel.readOnly

\* What ResolveChannel wants of a channel.
Resolvable == Serves /\ channel.healthy

\* A token's own channel is used even while it is unhealthy.
Route(r) ==
    /\ handler[r] = "idle"
    /\ (r \in Pinned /\ Serves) \/ Resolvable
    /\ handler' = [handler EXCEPT ![r] = "sent"]
    /\ UNCHANGED <<channel, db, upstream, observed, checker, snapshot, found, operator, copy>>

Observe(r, h) ==
    /\ handler[r] = "sent"
    /\ handler' = [handler EXCEPT ![r] = "write"]
    /\ observed' = [observed EXCEPT ![r] = h]
    /\ UNCHANGED <<channel, db, upstream, checker, snapshot, found, operator, copy>>

Answered(r) == upstream = "up" /\ Observe(r, Good)

\* Any status from 400 up counts against the channel, also one that a client's
\* own bad request earns.
Refused(r) == Observe(r, Bad(OneMore(channel.fails)))

\* No answer at all: chat completions write 1, the other endpoints count.
Unreachable(r) ==
    /\ upstream = "down"
    /\ \E n \in {1, OneMore(channel.fails)} : Observe(r, Bad(n))

\* Mutant of RecordHealth: the handler returns without saving.
RecordUnsaved(r) ==
    /\ handler[r] = "write"
    /\ channel' = WithHealth(channel, observed[r])
    /\ handler' = [handler EXCEPT ![r] = "idle"]
    /\ observed' = [observed EXCEPT ![r] = Good]
    /\ UNCHANGED <<db, upstream, checker, snapshot, found, operator, copy>>

RecordHealth(r) ==
    /\ handler[r] = "write"
    /\ channel' = WithHealth(channel, observed[r])
    /\ handler' = [handler EXCEPT ![r] = "save"]
    /\ observed' = [observed EXCEPT ![r] = Good]
    /\ UNCHANGED <<db, upstream, checker, snapshot, found, operator, copy>>

HandlerSaves(r) ==
    /\ handler[r] = "save"
    /\ db' = channel
    /\ handler' = [handler EXCEPT ![r] = "idle"]
    /\ UNCHANGED <<channel, upstream, observed, checker, snapshot, found, operator, copy>>

-----------------------------------------------------------------------------
\* Mutant of ListEnabled: an unhealthy channel is not looked at again.
ListHealthy ==
    /\ checker = "idle" /\ channel.enabled /\ channel.healthy
    /\ checker' = "probe"
    /\ snapshot' = channel.fails
    /\ UNCHANGED <<channel, db, upstream, handler, observed, found, operator, copy>>

\* checkAll works on a list of copies, one channel after the other, and a
\* disabled channel is not in it.
ListEnabled ==
    /\ checker = "idle" /\ channel.enabled
    /\ checker' = "probe"
    /\ snapshot' = channel.fails
    /\ UNCHANGED <<channel, db, upstream, handler, observed, found, operator, copy>>

\* Mutant of Probe: every channel is found healthy.
ProbeNothing ==
    /\ checker = "probe"
    /\ checker' = "write"
    /\ found' = Good
    /\ snapshot' = 0
    /\ UNCHANGED <<channel, db, upstream, handler, observed, operator, copy>>

Probe ==
    /\ checker = "probe"
    /\ checker' = "write"
    /\ found' = IF upstream = "up" THEN Good ELSE Bad(OneMore(snapshot))
    /\ snapshot' = 0
    /\ UNCHANGED <<channel, db, upstream, handler, observed, operator, copy>>

RecordCheck ==
    /\ checker = "write"
    /\ channel' = WithHealth(channel, found)
    /\ checker' = "save"
    /\ found' = Good
    /\ UNCHANGED <<db, upstream, handler, observed, snapshot, operator, copy>>

CheckerSaves ==
    /\ checker = "save"
    /\ db' = channel
    /\ checker' = "idle"
    /\ UNCHANGED <<channel, upstream, handler, observed, snapshot, found, operator, copy>>

-----------------------------------------------------------------------------
\* What /ops can do to the record.  A request for the weight or the gray
\* percentage stores a copy like one that leaves the channel writable.
Edits == {[enabled |-> FALSE], [enabled |-> TRUE],
          [readOnly |-> FALSE], [readOnly |-> TRUE]}

Edited(c, edit) ==
    [f \in DOMAIN c |-> IF f \in DOMAIN edit THEN edit[f] ELSE c[f]]

Edit(o, edit) ==
    /\ operator[o] = "idle"
    /\ channel' = Edited(channel, edit)
    /\ copy' = [copy EXCEPT ![o] = channel']
    /\ operator' = [operator EXCEPT ![o] = "store"]
    /\ UNCHANGED <<db, upstream, handler, observed, checker, snapshot, found>>

StoreCopy(o) ==
    /\ operator[o] = "store"
    /\ channel' = copy[o]
    /\ operator' = [operator EXCEPT ![o] = "save"]
    /\ copy' = [copy EXCEPT ![o] = New]
    /\ UNCHANGED <<db, upstream, handler, observed, checker, snapshot, found>>

OperatorSaves(o) ==
    /\ operator[o] = "save"
    /\ db' = channel
    /\ operator' = [operator EXCEPT ![o] = "idle"]
    /\ UNCHANGED <<channel, upstream, handler, observed, checker, snapshot, found, copy>>

\* The upstream comes and goes.
Outage ==
    /\ upstream' = IF upstream = "up" THEN "down" ELSE "up"
    /\ UNCHANGED <<channel, db, handler, observed, checker, snapshot, found, operator, copy>>

\* The process dies wherever it is and NewStore loads the row.
Restart ==
    /\ channel' = db
    /\ handler' = [r \in Handlers |-> "idle"]
    /\ observed' = [r \in Handlers |-> Good]
    /\ checker' = "idle" /\ snapshot' = 0 /\ found' = Good
    /\ operator' = [o \in Operators |-> "idle"]
    /\ copy' = [o \in Operators |-> New]
    /\ UNCHANGED <<db, upstream>>

-----------------------------------------------------------------------------
Check == ListEnabled \/ Probe \/ RecordCheck \/ CheckerSaves

Finish(r) == Answered(r) \/ Refused(r) \/ Unreachable(r) \/ RecordHealth(r) \/ HandlerSaves(r)

Complete(o) == StoreCopy(o) \/ OperatorSaves(o)

Next ==
    \/ \E r \in Handlers : Route(r) \/ Finish(r)
    \/ Check
    \/ \E o \in Operators : Complete(o) \/ \E edit \in Edits : Edit(o, edit)
    \/ Outage
    \/ Restart

\* The checker's ticker, the time limits of its and the handlers' HTTP clients.
Fairness ==
    /\ WF_vars(Check)
    /\ \A r \in Handlers : WF_vars(Finish(r))
    /\ \A o \in Operators : WF_vars(Complete(o))

Spec == Init /\ [][Next]_vars /\ Fairness

-----------------------------------------------------------------------------
\* Nobody touches the channel any more but its requests and its checker.
LeftAlone == <>[][~Restart /\ \A o \in Operators, edit \in Edits : ~Edit(o, edit)]_vars

\* What was answered is durable: once no write is on its way to the database
\* the row is the record, in whatever order the writers saved.
DurableAtRest ==
    (/\ \A r \in Handlers : handler[r] # "save"
     /\ checker # "save"
     /\ \A o \in Operators : operator[o] = "idle")
    => db = channel

\* An outage that lasts is noticed for good: late answers from before it and
\* stale copies cannot keep the channel in ResolveChannel's choice.
OutageNoticed ==
    (LeftAlone /\ <>[](upstream = "down")) => <>[](~channel.enabled \/ ~channel.healthy)

\* An outage that ends is over, unless it lasted long enough to disable the
\* channel: late failures and stale counts cannot keep it unhealthy.
OutageForgotten ==
    (LeftAlone /\ <>[](upstream = "up") /\ <>[][\A r \in Handlers : ~Refused(r)]_vars)
    => <>[](channel.enabled => channel.healthy)

=============================================================================
