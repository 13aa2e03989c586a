---------------------------- MODULE ChannelHealth ----------------------------
(***************************************************************************)
(* The desktop's channel health: the checker of providers/healthcheck.go,  *)
(* which every start of the gateway launches and every stop cancels, and   *)
(* the user's own connection tests (App.testConnectivity and               *)
(* discovery/service.go), all of which write the health_status that        *)
(* config.Service keeps and that forwarding sorts by. A round lists the    *)
(* channels once, asks each upstream for its models without holding a      *)
(* lock, and compares the answer with the listed status. ListChannels      *)
(* hands out no keys, so an upstream that wants one refuses the checker.   *)
(***************************************************************************)
EXTENDS Naturals

CONSTANTS
    Channels,       \* the enabled channels
    Checkers,       \* bound: rounds that can be under way, of this start and older ones
    MaxFailures,    \* HealthMaxFailures
    AsksKey,        \* channels whose upstream lists models only for a key
    UserTests       \* whether the user tests channels

ConstantsOK == MaxFailures \in Nat \ {0} /\ AsksKey \subseteq Channels /\ UserTests \in BOOLEAN

VARIABLES
    answers,    \* per channel, whether its upstream works
    health,     \* per channel, health_status in the configuration
    failures,   \* per channel, consecutiveFailures
    running,    \* the gateway runs
    stopped,    \* Stop has been called in this process
    pc,         \* per checker goroutine
    cancelled,  \* per checker, its context is cancelled
    todo,       \* per checker, channels left in its round
    listed,     \* per checker, the health it listed
    probed,     \* per checker, the channel just asked and what it answered
    test        \* the user's test under way

vars == <<answers, health, failures, running, stopped, pc, cancelled, todo, listed, probed,
          test>>

checkerVars == <<pc, cancelled, todo, listed, probed>>
lifeVars == <<running, stopped>>

Status == {"unknown", "healthy", "unhealthy"}
Answer == [channel : Channels, ok : BOOLEAN]
Goto(k, l) == pc' = [pc EXCEPT ![k] = l]

-----------------------------------------------------------------------------
Init ==
    /\ answers = [c \in Channels |-> TRUE]
    /\ health = [c \in Channels |-> "unknown"]
    /\ failures = [c \in Channels |-> 0]
    /\ running = FALSE /\ stopped = FALSE
    /\ pc = [k \in Checkers |-> "off"]
    /\ cancelled = [k \in Checkers |-> FALSE]
    /\ todo = [k \in Checkers |-> {}]
    /\ listed = [k \in Checkers |-> [c \in Channels |-> "unknown"]]
    /\ probed = [k \in Checkers |-> {}]
    /\ test = {}

(* runOnce begins: the list, with each channel's status of this moment. *)
List(k) ==
    /\ Goto(k, "probe")
    /\ todo' = [todo EXCEPT ![k] = Channels]
    /\ listed' = [listed EXCEPT ![k] = health]

(* Service.Start launches a checker, whose first round begins at once. *)
Start ==
    /\ ~running
    /\ running' = TRUE
    /\ \E k \in Checkers :
          /\ pc[k] = "off"
          /\ cancelled' = [cancelled EXCEPT ![k] = FALSE]
          /\ List(k)
    /\ UNCHANGED <<answers, health, failures, stopped, probed, test>>

(* Service.Stop cancels the checker, which finishes the round it is in. A  *)
(* second Stop in one process is not modelled here (ResilienceState).      *)
Stop ==
    /\ running /\ ~stopped
    /\ running' = FALSE /\ stopped' = TRUE
    /\ cancelled' = [k \in Checkers |-> TRUE]
    /\ pc' = [k \in Checkers |-> IF pc[k] = "wait" THEN "off" ELSE pc[k]]
    /\ UNCHANGED <<answers, health, failures, todo, listed, probed, test>>

(* The ticker. *)
Round(k) ==
    /\ pc[k] = "wait"
    /\ List(k)
    /\ UNCHANGED <<answers, health, failures, lifeVars, cancelled, probed, test>>

(* checkChannel: the listed channel has no key. *)
Probe(k) ==
    /\ pc[k] = "probe"
    /\ \E c \in todo[k] :
          /\ probed' = [probed EXCEPT ![k] = {[channel |-> c, ok |-> answers[c] /\ c \notin AsksKey]}]
          /\ todo' = [todo EXCEPT ![k] = @ \ {c}]
    /\ Goto(k, "record")
    /\ UNCHANGED <<answers, health, failures, lifeVars, cancelled, listed, test>>

(* What runOnce makes of an answer, the failures so far, the status it     *)
(* listed and the status by now.                                           *)
NewStatus(ok, fails, before, now) ==
    CASE ok /\ before # "healthy" -> "healthy"
      [] ~ok /\ fails >= MaxFailures /\ before # "unhealthy" -> "unhealthy"
      [] OTHER -> now

(* Mutant of Failures: a failure counts from one again. *)
FailuresForgotten(ok, n) == IF ok THEN 0 ELSE 1

(* Above MaxFailures the code tells no counts apart. *)
Failures(ok, n) == IF ok THEN 0 ELSE IF n < MaxFailures THEN n + 1 ELSE n

(* The locked part of runOnce; UpdateChannelHealth is called inside it. *)
Record(k) ==
    /\ pc[k] = "record"
    /\ \E a \in probed[k] :
          LET c == a.channel IN
          /\ failures' = [failures EXCEPT ![c] = Failures(a.ok, @)]
          /\ health' = [health EXCEPT ![c] = NewStatus(a.ok, failures'[c], listed[k][c], @)]
    /\ probed' = [probed EXCEPT ![k] = {}]
    /\ Goto(k, "probe")
    /\ UNCHANGED <<answers, lifeVars, cancelled, todo, listed, test>>

EndRound(k) ==
    /\ pc[k] = "probe" /\ todo[k] = {}
    /\ Goto(k, IF cancelled[k] THEN "off" ELSE "wait")
    /\ listed' = [listed EXCEPT ![k] = [c \in Channels |-> "unknown"]]
    /\ UNCHANGED <<answers, health, failures, lifeVars, cancelled, todo, probed, test>>

(* A test asks with the channel's key; through the gateway it asks for a   *)
(* model that any channel may serve or none, so its answer can be either.  *)
BeginTest ==
    /\ UserTests /\ test = {}
    /\ \E c \in Channels :
         \/ test' = {[channel |-> c, ok |-> answers[c]]}
         \/ running /\ \E ok \in BOOLEAN : test' = {[channel |-> c, ok |-> ok]}
    /\ UNCHANGED <<answers, health, failures, lifeVars, checkerVars>>

EndTest ==
    /\ \E a \in test :
          health' = [health EXCEPT ![a.channel] = IF a.ok THEN "healthy" ELSE "unhealthy"]
    /\ test' = {}
    /\ UNCHANGED <<answers, failures, lifeVars, checkerVars>>

(* The upstream of a channel fails or recovers. *)
Outage ==
    /\ \E c \in Channels : answers' = [answers EXCEPT ![c] = ~@]
    /\ UNCHANGED <<health, failures, lifeVars, checkerVars, test>>

Check(k) == Round(k) \/ Probe(k) \/ Record(k) \/ EndRound(k)

Next ==
    \/ Start \/ Stop \/ BeginTest \/ EndTest \/ Outage
    \/ \E k \in Checkers : Round(k) \/ Probe(k) \/ Record(k) \/ EndRound(k)

(* The checker's ticker fires and its requests end (15 s timeout). *)
Fairness == \A k \in Checkers : WF_vars(Check(k))

Spec == Init /\ [][Next]_vars /\ Fairness

-----------------------------------------------------------------------------
TypeOK ==
    /\ answers \in [Channels -> BOOLEAN]
    /\ health \in [Channels -> Status]
    /\ failures \in [Channels -> 0 .. MaxFailures]
    /\ running \in BOOLEAN /\ stopped \in BOOLEAN
    /\ pc \in [Checkers -> {"off", "wait", "probe", "record"}]
    /\ cancelled \in [Checkers -> BOOLEAN]
    /\ todo \in [Checkers -> SUBSET Channels]
    /\ listed \in [Checkers -> [Channels -> Status]]
    /\ probed \in [Checkers -> SUBSET Answer] /\ test \in SUBSET Answer
    /\ running => \E k \in Checkers : pc[k] # "off" /\ ~cancelled[k]

(* While the gateway runs, a channel whose upstream stays down is marked   *)
(* unhealthy, again if somebody's test calls it healthy, whatever older    *)
(* rounds and tests still write.                                           *)
Out(c) == running /\ ~answers[c]
OutageNoticed == \A c \in Channels : <>[]Out(c) => []<>(health[c] = "unhealthy")

(* ... and one whose upstream stays up, and lists its models to anybody,   *)
(* is marked healthy again.                                                *)
Back(c) == running /\ answers[c]
RecoveryNoticed == \A c \in Channels \ AsksKey : <>[]Back(c) => []<>(health[c] = "healthy")

=============================================================================
