----------------------------- MODULE RelayGateway -----------------------------
(***************************************************************************)
(* Requests through the relay gateway (SeasAGI-Server/relay-gateway): the  *)
(* middleware that counts, authenticates and limits them (cmd/root.go,     *)
(* middleware), the handlers that choose a channel, relay and judge it     *)
(* (relay/handler.go), the traces they leave (trace/store.go) and the      *)
(* store's file and database (channel/store.go).                           *)
(*                                                                         *)
(* RelayChannel has the health checker and the operators' requests, step   *)
(* by step, and RelayLimiter decides whom the limiter lets through; here   *)
(* an operator's edit and the health a request records are single steps.   *)
(***************************************************************************)
EXTENDS Naturals, Sequences, FiniteSets, FiniteSetsExt

CONSTANTS
    Requests,       \* requests that may be under way at once
    Asks,           \* what is asked: [token, claim, endpoint, body, model, trace]
    Channels,       \* the channels of relay-channels.json, by priority and weight
    Serves,         \* the models each of them lists
    Mappings,       \* its mappings: [logical, channel, upstream]
    Malformed,      \* channels whose base URL does not parse
    Catalogue,      \* the models that the catalogue describes
    Environments,   \* what JWT_SECRET may be: "strong", "weak" or "empty"
    Saved,          \* relay-channels.json at the first start
    MaxAsked,       \* bound: requests
    MaxEvents       \* bound: starts of the gateway and operators' edits, together

VARIABLES
    up,         \* whether the gateway runs
    env,        \* JWT_SECRET
    opened,     \* whether relay-gateway.db opened at the start
    channel,    \* Store.channels: [enabled, healthy, fails]; none is read-only
    disk,       \* relay-channels.json
    db,         \* relay_channels, or Nothing
    traces,     \* trace_records
    tracing,    \* recordTrace goroutines
    request,    \* where each request is
    inFlight,   \* requests_in_flight
    counted,    \* requests_total of successes, by channel label
    answers,    \* what upstreams and the gateway itself answered, since the start
    asked,      \* requests so far
    events      \* starts and operators' edits so far

vars == <<up, env, opened, channel, disk, db, traces, tracing, request, inFlight, counted,
          answers, asked, events>>

Ids == Range(Channels)
Nothing == <<>>
NoChannel == "none"
Idle == [at |-> "idle"]
FailLimit == 3

Init ==
    /\ up = FALSE /\ env \in Environments /\ opened = FALSE
    /\ disk = Saved /\ channel = disk /\ db = Nothing
    /\ traces = {} /\ tracing = {}
    /\ request = [r \in Requests |-> Idle]
    /\ inFlight = 0 /\ counted = [c \in Ids \cup {NoChannel} |-> 0] /\ answers = {}
    /\ asked = 0 /\ events = 0

(* A weak secret ends the program. Rows of the database win over the file. *)
Boot ==
    /\ ~ up /\ env # "weak" /\ events < MaxEvents
    /\ up' = TRUE /\ events' = events + 1 /\ opened' \in BOOLEAN
    /\ channel' = IF opened' /\ db # Nothing THEN db ELSE disk
    /\ db' = IF opened' THEN channel' ELSE db
    /\ UNCHANGED <<env, disk, traces, tracing, request, inFlight, counted, answers, asked>>

(* Shutdown does not wait either: Execute returns while it still drains. *)
ProcessEnds ==
    /\ up /\ up' = FALSE
    /\ request' = [r \in Requests |-> Idle]
    /\ tracing' = {} /\ answers' = {} /\ inFlight' = 0
    /\ counted' = [c \in DOMAIN counted |-> 0]
    /\ UNCHANGED <<env, opened, channel, disk, db, traces, asked, events>>

-----------------------------------------------------------------------------
(* Channels.                                                               *)
Usable(c) == c \in Ids /\ channel[c].enabled
Resolvable(c) == channel[c].enabled /\ channel[c].healthy

(* The first mapping to a channel that can be used, or the first of the    *)
(* channels that list the model.                                           *)
MappedTo(model) ==
    {k \in 1..Len(Mappings) : Mappings[k].logical = model /\ Resolvable(Mappings[k].channel)}
Listing(model) == {k \in 1..Len(Channels) : Resolvable(Channels[k]) /\ model \in Serves[Channels[k]]}
ResolveChannel(model) ==
    IF MappedTo(model) # {}
    THEN LET m == Mappings[Min(MappedTo(model))] IN [channel |-> m.channel, model |-> m.upstream]
    ELSE IF Listing(model) # {}
    THEN [channel |-> Channels[Min(Listing(model))], model |-> model]
    ELSE [channel |-> NoChannel, model |-> model]

(* A token's own channel comes first, under the name the client used. *)
ResolveUpstream(ask) ==
    IF Usable(ask.claim) THEN [channel |-> ask.claim, model |-> ask.model]
    ELSE ResolveChannel(ask.model)

ListedModels(ask) ==
    IF Usable(ask.claim) THEN Serves[ask.claim]
    ELSE UNION {Serves[c] : c \in {d \in Ids : Usable(d)}}
(* A model's entry has its metadata if the database has the catalogue. *)
Described(model) == opened /\ model \in Catalogue

UpdateHealth(c, healthy, fails) ==
    channel' = [channel EXCEPT ![c] =
        [enabled |-> @.enabled /\ fails < FailLimit, healthy |-> healthy, fails |-> fails]]

-----------------------------------------------------------------------------
(* The middleware.                                                         *)
Inside(r) == request[r].at # "idle"
Stored == UNCHANGED <<channel, disk, db, traces, tracing>>
Running == UNCHANGED <<up, env, opened, events>>

(* The requests have no identity: the next one takes the first that is free. *)
Free(r) == ~ Inside(r) /\ r = CHOOSE q \in Requests : ~ Inside(q)
Arrive(r) ==
    /\ up /\ Free(r) /\ asked < MaxAsked
    /\ asked' = asked + 1 /\ inFlight' = inFlight + 1
    /\ \E a \in Asks :
          request' = [request EXCEPT ![r] =
              [at |-> "in", ask |-> a, serial |-> asked', channel |-> a.claim, model |-> a.model,
               ok |-> FALSE, trace |-> IF a.trace = "" THEN <<"made", asked'>> ELSE <<"given", a.trace>>]]
    /\ Stored /\ Running /\ UNCHANGED <<counted, answers>>

(* Metrics, after the handler: what it counts is labelled with channel_id. *)
LabelOf(c) == IF c \in Ids THEN c ELSE NoChannel
Leave(r, ok) ==
    /\ request' = [request EXCEPT ![r] = Idle]
    /\ inFlight' = inFlight - 1
    /\ counted' = IF ok THEN [counted EXCEPT ![LabelOf(request[r].channel)] = @ + 1] ELSE counted

Authorised(a) == env = "strong" /\ a.token = "good"
(* ChatCompletions refuses a body that is no JSON, relayJSON does not. *)
Readable(a) == a.body = "cut" => a.endpoint \in {"models", "upload"}
Acceptable(a) == Readable(a) /\ (a.endpoint = "chat" => a.body # "no json")

(* Without a token, too often, or with a body that cannot be read. *)
TurnedAway(r) ==
    /\ request[r].at = "in"
    /\ Leave(r, FALSE)
    /\ Stored /\ Running /\ UNCHANGED <<answers, asked>>

-----------------------------------------------------------------------------
(* The handlers.                                                           *)
Handled(r) ==
    request[r].at = "in" /\ Authorised(request[r].ask) /\ Acceptable(request[r].ask)

Answer(r, kind, ok) ==
    [kind |-> kind, serial |-> request[r].serial, trace |-> request[r].trace,
     channel |-> request[r].channel, model |-> request[r].ask.model, ok |-> ok]

ListModels(r) ==
    /\ Handled(r) /\ request[r].ask.endpoint = "models"
    /\ answers' = answers \cup {Answer(r, "list", TRUE)}
    /\ Leave(r, TRUE)
    /\ Stored /\ Running /\ UNCHANGED asked

Chosen(r, to) ==
    request' = [request EXCEPT ![r].at = "chosen", ![r].channel = to.channel, ![r].model = to.model]

Route(r) ==
    /\ Handled(r) /\ request[r].ask.endpoint # "models"
    /\ LET to == ResolveUpstream(request[r].ask)
       IN IF to.channel = NoChannel THEN Leave(r, FALSE)
          ELSE Chosen(r, to) /\ UNCHANGED <<inFlight, counted>>
    /\ Stored /\ Running /\ UNCHANGED <<answers, asked>>

(* A multipart form is read only now. *)
BadForm(r) ==
    /\ request[r].at = "chosen" /\ request[r].ask.endpoint = "upload"
    /\ request[r].ask.body # "whole"
    /\ Leave(r, FALSE)
    /\ Stored /\ Running /\ UNCHANGED <<answers, asked>>

FormRead(r) ==
    /\ request[r].at = "chosen"
    /\ request[r].ask.endpoint = "upload" => request[r].ask.body = "whole"

(* Mutant of Panic: the gauge is lowered only after the handler returns. *)
PanicKeepsGauge(r) ==
    /\ FormRead(r) /\ request[r].channel \in Malformed
    /\ request' = [request EXCEPT ![r] = Idle]
    /\ Stored /\ Running /\ UNCHANGED <<inFlight, counted, answers, asked>>

(* http.NewRequest has no request for such a URL: the handler's panic goes *)
(* through Metrics to Recovery.                                            *)
Panic(r) ==
    /\ FormRead(r) /\ request[r].channel \in Malformed
    /\ request' = [request EXCEPT ![r] = Idle] /\ inFlight' = inFlight - 1
    /\ Stored /\ Running /\ UNCHANGED <<counted, answers, asked>>

Sends(r) == FormRead(r) /\ request[r].channel \notin Malformed

(* Chat counts a channel that cannot be reached as its first failure. *)
Unreachable(r) ==
    /\ Sends(r)
    /\ LET c == request[r].channel
       IN UpdateHealth(c, FALSE, IF request[r].ask.endpoint = "chat" THEN 1
                                 ELSE Min({FailLimit, channel[c].fails + 1}))
    /\ request' = [request EXCEPT ![r].at = "save"]
    /\ Running /\ UNCHANGED <<disk, db, traces, tracing, inFlight, counted, answers, asked>>

Answered(r, ok) ==
    /\ Sends(r)
    /\ LET c == request[r].channel
       IN UpdateHealth(c, ok, IF ok THEN 0 ELSE Min({FailLimit, channel[c].fails + 1}))
    /\ request' = [request EXCEPT ![r].at = "save", ![r].ok = ok]
    /\ answers' = answers \cup {Answer(r, "relay", ok)}
    /\ Running /\ UNCHANGED <<disk, db, traces, tracing, inFlight, counted, asked>>

(* save: the file first, the database then. *)
SaveToDisk(r) ==
    /\ request[r].at = "save"
    /\ disk' = channel
    /\ request' = [request EXCEPT ![r].at = "saved"]
    /\ Running /\ UNCHANGED <<channel, db, traces, tracing, inFlight, counted, answers, asked>>

Exchange(r) == {a \in answers : a.serial = request[r].serial}
SaveToDB(r) ==
    /\ request[r].at = "saved"
    /\ db' = IF opened THEN channel ELSE db
    /\ tracing' = tracing \cup Exchange(r)
    /\ request' = [request EXCEPT ![r].at = "copy"]
    /\ Running /\ UNCHANGED <<channel, disk, traces, inFlight, counted, answers, asked>>

(* The answer, or 502, is on its way to the client. *)
CopyBody(r) ==
    /\ request[r].at = "copy"
    /\ Leave(r, request[r].ok)
    /\ Stored /\ Running /\ UNCHANGED <<answers, asked>>

(* INSERT OR IGNORE, by trace id. *)
InsertTrace ==
    /\ \E t \in tracing :
          /\ tracing' = tracing \ {t}
          /\ traces' = IF \E u \in traces : u.trace = t.trace THEN traces ELSE traces \cup {t}
    /\ Running /\ UNCHANGED <<channel, disk, db, request, inFlight, counted, answers, asked>>

(* /ops drains or restores a channel and saves. *)
Operate ==
    /\ up /\ events < MaxEvents /\ events' = events + 1
    /\ \E c \in Ids : channel' = [channel EXCEPT ![c].enabled = ~ @]
    /\ disk' = channel' /\ db' = IF opened THEN channel' ELSE db
    /\ UNCHANGED <<up, env, opened, traces, tracing, request, inFlight, counted,
                   answers, asked>>

-----------------------------------------------------------------------------
Relays(r) == Unreachable(r) \/ \E ok \in BOOLEAN : Answered(r, ok)
Step(r) ==
    \/ TurnedAway(r) \/ ListModels(r) \/ Route(r) \/ BadForm(r) \/ Panic(r) \/ Relays(r)
    \/ SaveToDisk(r) \/ SaveToDB(r) \/ CopyBody(r)

Next ==
    \/ Boot \/ ProcessEnds \/ InsertTrace \/ Operate
    \/ \E r \in Requests : Arrive(r) \/ Step(r)

-----------------------------------------------------------------------------
Health == [enabled : BOOLEAN, healthy : BOOLEAN, fails : 0..FailLimit]
Names == Ids \cup {NoChannel} \cup {a.claim : a \in Asks}
Models == {a.model : a \in Asks} \cup {Mappings[k].upstream : k \in 1..Len(Mappings)}
TraceIds == ({"made"} \X (1..MaxAsked)) \cup ({"given"} \X {a.trace : a \in Asks})
Entered == [at : {"in", "chosen", "save", "saved", "copy"}, ask : Asks, serial : 1..MaxAsked,
            channel : Names, model : Models, ok : BOOLEAN, trace : TraceIds]
TypeOK ==
    /\ up \in BOOLEAN /\ env \in Environments /\ opened \in BOOLEAN
    /\ channel \in [Ids -> Health] /\ disk \in [Ids -> Health]
    /\ db \in [Ids -> Health] \cup {Nothing}
    /\ inFlight \in 0..Cardinality(Requests) /\ asked \in 0..MaxAsked
    /\ events \in 0..MaxEvents
    /\ request \in [Requests -> {Idle} \cup Entered]
    /\ counted \in [Ids \cup {NoChannel} -> Nat] /\ IsFiniteSet(answers)

(* The gauge says how many requests are inside, also after panics. *)
Insiders == {r \in Requests : Inside(r)}
GaugeExact == inFlight = Cardinality(Insiders)

(* The successes counted for a channel, with those whose answer is still   *)
(* on its way, are the successes of its upstream and the model lists of    *)
(* tokens that name it.                                                    *)
Succeeding(c) == {r \in Insiders : request[r].ok /\ request[r].channel = c}
Successes(c) == {a \in answers : a.ok /\ a.channel = c}
CountsExact ==
    \A c \in Ids : counted[c] + Cardinality(Succeeding(c)) = Cardinality(Successes(c))

(* A trace tells of the exchange that took place, with the channel that    *)
(* was used, and there is one for every trace id an upstream answered.     *)
TracesTrue ==
    /\ \A t \in traces, u \in traces : t.trace = u.trace => t = u
    /\ \A a \in answers : a.kind = "relay" =>
          \/ \E t \in traces \cup tracing : t.trace = a.trace
          \/ \E r \in Insiders : request[r].serial = a.serial
    /\ \A t \in tracing : t \in answers

(* What is sent to an upstream is a model it is known to have, but for a   *)
(* token's own channel, and goes to the channel that is recorded.          *)
RoutedRight ==
    \A r \in Insiders : request[r].at # "in" =>
        LET q == request[r]
        IN \/ q.channel = q.ask.claim /\ q.model = q.ask.model
           \/ q.model = q.ask.model /\ q.model \in Serves[q.channel]
           \/ \E k \in 1..Len(Mappings) :
                 /\ Mappings[k].logical = q.ask.model /\ Mappings[k].channel = q.channel
                 /\ Mappings[k].upstream = q.model

(* A model that is listed finds a channel, unless all of those that list   *)
(* it are unhealthy.                                                       *)
ListedAreServed ==
    \A a \in Asks : \A m \in ListedModels(a) :
        (\E c \in Ids : m \in Serves[c] /\ Resolvable(c)) => ResolveChannel(m).channel # NoChannel

(* Nobody saving, a start like the last one loads the channels as they are. *)
StartsAsSaved ==
    (up /\ \A r \in Requests : request[r].at \notin {"save", "saved"})
        => channel = IF opened THEN db ELSE disk

RelayAccounts ==
    GaugeExact /\ CountsExact /\ TracesTrue /\ RoutedRight /\ ListedAreServed /\ StartsAsSaved

(* Why they hold: nobody is inside a gateway that does not run, no two     *)
(* have one serial number, and who has not been answered has no answer;    *)
(* one whose channel is chosen has a channel; ...                          *)
ServedOnce ==
    /\ ~ up => Insiders = {}
    /\ \A r \in Insiders : request[r].serial <= asked
    /\ \A a \in answers : a.serial \in 1..asked
    /\ \A r, q \in Insiders : request[r].serial = request[q].serial => r = q
    /\ \A r \in Insiders : request[r].at \in {"in", "chosen"} =>
          ~ request[r].ok /\ \A a \in answers : a.serial # request[r].serial
    /\ \A r \in Insiders : request[r].at # "in" => request[r].channel \in Ids

(* ... whose answer is being copied is traced, or will be; ...             *)
Traced ==
    \A r \in Insiders : request[r].at = "copy" =>
        \A a \in answers : a.serial = request[r].serial =>
            \E t \in traces \cup tracing : t.trace = a.trace

(* ... and whoever changed a channel last has yet to save it: to the       *)
(* database, or without one to the file.                                   *)
SavedByLast ==
    up => /\ opened => channel = db \/ \E r \in Insiders : request[r].at \in {"save", "saved"}
          /\ ~ opened => channel = disk \/ \E r \in Insiders : request[r].at = "save"

RelayInv ==
    /\ TypeOK /\ GaugeExact /\ CountsExact /\ TracesTrue /\ RoutedRight
    /\ ServedOnce /\ Traced /\ SavedByLast

ConstantsOK ==
    /\ Requests # {} /\ Asks # {} /\ Environments \subseteq {"strong", "weak", "empty"}
    /\ Channels \in Seq(Ids) /\ \A c \in Ids : c # NoChannel
    /\ IsFiniteSet(Requests) /\ MaxAsked \in Nat /\ MaxEvents \in Nat
    /\ Malformed \subseteq Ids /\ Saved \in [Ids -> Health] /\ Len(Mappings) \in Nat
    /\ \A k \in 1..Len(Mappings) : Mappings[k].channel \in Ids
=============================================================================
