------------------------------ MODULE Routing ------------------------------
(***************************************************************************)
(* How the desktop gateway turns a request into an ordered plan of         *)
(* channels: routing/router.go's ResolveChatPlan with the strategies of    *)
(* weighted_rr.go and priority_buckets.go, and what handleChat does with   *)
(* the plan before forwardRequest gets it. All requests for one model (or  *)
(* one combo) share the strategies' state. Rotation and fill_first hold a  *)
(* lock throughout; weighted round robin fetches its list under the lock   *)
(* and then reads and writes the items of the list without it.             *)
(***************************************************************************)
EXTENDS Integers, Sequences, FiniteSets, SequencesExt

CONSTANTS
    Channels,       \* the configured channels
    Order,          \* ... in the order of the configuration
    Local,          \* those of type "custom"; the others belong to the platform
    Serves,         \* per channel: 1 default channel, 2 lists the model, 3 lists none, 4 others
    Combo,          \* the combo's steps, <<>> when the request names a model
    ToolFriendly,   \* channels sortByTaskType puts first for requests with tools
    Fitting,        \* channels with the better calculateIntentFitScore
    Priority,       \* per channel, the rank of its priority (an unset one ranks last)
    Weight,         \* per channel, its weight (an unset one counts as 1)
    Sticky,         \* sticky uses, at least 1
    Strategies,     \* routing strategies the user may choose
    Requests,       \* requests being planned
    Asks,           \* what a request can be: [tools, sensitive : BOOLEAN, policy : Policies]
    MaxEdits,       \* bound: changes to the configuration and to latencies
    MaxPlans        \* bound: requests planned

Policies == {"any", "local_only", "cloud_only"}
Ranks == 1 .. 4
NoChannel == "none"

(* A combo step: the channels it lists (all of them of one model), whether *)
(* it may fall back to others, and its single channel or NoChannel.        *)
Step == [pool : Seq(Channels), cross : BOOLEAN, single : Channels \cup {NoChannel}]

ConstantsOK ==
    /\ Order \in Seq(Channels) /\ ToSet(Order) = Channels /\ Len(Order) = Cardinality(Channels)
    /\ Serves \in [Channels -> Ranks] /\ Priority \in [Channels -> Ranks]
    /\ Weight \in [Channels -> Nat \ {0}] /\ Sticky \in Nat \ {0}
    /\ Combo \in Seq(Step) /\ NoChannel \notin Channels
    /\ Local \subseteq Channels /\ ToolFriendly \subseteq Channels /\ Fitting \subseteq Channels
    /\ Asks \subseteq [tools : BOOLEAN, sensitive : BOOLEAN, policy : Policies]
    /\ Strategies \subseteq {"fallback", "round_robin", "weighted_round_robin", "fill_first",
                             "priority"}

VARIABLES
    enabled,    \* the enabled channels
    slow,       \* channels whose P95 latency is at least AutoDegradeThreshold
    grant,      \* a grant is selected: an enterprise relay is asked before the channels
    strategy,   \* the routing strategy
    rotation,   \* Resolver.state of the model: Index (from 0) and Count
    active,     \* fillFirst.active of the model
    lists,      \* heap of weighted lists, each a sequence of items
    group,      \* wrrState.items: per key, the list it holds, 0 for none
    pc,         \* per request
    ask,        \* per request, what it asks
    how,        \* per request, the strategy it read
    cand,       \* per request, its candidates after sorting and filtering
    todo,       \* per request, groups of candidates it has yet to order
    list,       \* per request, the weighted list it has fetched, 0 for none
    used,       \* per request, the items of that list it has picked
    pending,    \* per request, the item it is about to write, with the value
    plan,       \* per request, the plan so far
    edits, plans,
    leads       \* history: how often each channel led a plan since the strategy or
                \* the candidates last changed

config == <<enabled, slow, grant, strategy>>
shared == <<rotation, active, lists, group>>
picking == <<list, used, pending>>
counts == <<edits, plans>>
vars == <<config, shared, pc, ask, how, cand, todo, picking, plan, counts, leads>>

Keys == 0 .. Cardinality(Ranks)
Item == [channel : Channels, current : Int]
Labels == {"idle", "ordering", "picking", "writing", "planned", "sent", "relayed", "refused",
           "panicked"}
AnyAsk == CHOOSE a \in Asks : TRUE

-----------------------------------------------------------------------------
(* A stable sort: the elements of rank 1 first, then those of rank 2, ...  *)
Classes(s, rank) == [n \in Ranks |-> SelectSeq(s, LAMBDA c : rank[c] = n)]
Ranked(s, rank) == FlattenSeq(Classes(s, rank))
First(s, S) == Ranked(s, [c \in Channels |-> IF c \in S THEN 1 ELSE 2])

(* ResolveChannelsForModel: the default channel if it can serve the model, *)
(* channels that list the model, channels that list none.                  *)
ChannelsForModel == Ranked(SelectSeq(Order, LAMBDA c : c \in enabled /\ Serves[c] < 4),
                           Serves)

Enabled(s) == SelectSeq(s, LAMBDA c : c \in enabled)

(* expandStepCandidates, and appendSingleChannelStep when that finds none. *)
StepCandidates(s) ==
    CASE Enabled(s.pool) # <<>> -> Enabled(s.pool)
      [] Enabled(s.pool) = <<>> /\ s.pool # <<>> /\ s.cross /\ ChannelsForModel # <<>> ->
            ChannelsForModel
      [] OTHER -> IF s.single \in enabled THEN <<s.single>>
                  ELSE SubSeq(ChannelsForModel, 1, 1)

Resolved == IF Combo = <<>> THEN ChannelsForModel
            ELSE FlattenSeq([i \in DOMAIN Combo |-> StepCandidates(Combo[i])])

(* FilterCandidatesByConstraints with a data policy. *)
Allowed(s, policy) ==
    SelectSeq(s, LAMBDA c : \/ policy = "any"
                            \/ policy = "local_only" /\ c \in Local
                            \/ policy = "cloud_only" /\ c \notin Local)

(* applyIntentRouting: a sensitive request stays on local channels; then   *)
(* the channels whose model fits best first.                               *)
ForIntent(s, a) == First(IF a.sensitive THEN Allowed(s, "local_only") ELSE s, Fitting)

(* sortByTaskType, applyIntentRouting, degradeSlowChannels. *)
Candidates(a) ==
    LET byTask == IF a.tools THEN First(Resolved, ToolFriendly) ELSE Resolved
    IN First(ForIntent(byTask, a), Channels \ slow)

(* Mutant of NextRotation: the index is lost when the sticky uses are. *)
NextRotationFromStart(index, n) ==
    IF rotation.count + 1 >= Sticky THEN [index |-> 0, count |-> 0]
    ELSE [index |-> index, count |-> rotation.count + 1]

(* rotateSteps: the state after a plan of n candidates led by index. *)
NextRotation(index, n) ==
    IF rotation.count + 1 >= Sticky THEN [index |-> (index + 1) % n, count |-> 0]
    ELSE [index |-> index, count |-> rotation.count + 1]

(* groupByPriority: the non-empty priorities' candidates, each with the    *)
(* key of its weighted list; a single group goes by the model's own key.   *)
Buckets(s) ==
    LET filled == SelectSeq(Classes(s, Priority), LAMBDA b : b # <<>>)
    IN [i \in DOMAIN filled |-> [key |-> IF Len(filled) = 1 THEN 0 ELSE i, cand |-> filled[i]]]

(* A list that no group and no request refers to. *)
FreeList == CHOOSE i \in DOMAIN lists : /\ \A k \in Keys : group[k] # i
                                        /\ \A r \in Requests : list[r] # i

ChannelsOf(items) == [i \in DOMAIN items |-> items[i].channel]

(* Mutant of SameGroup: as many channels are the same channels. *)
SameLength(items, s) == Len(items) = Len(s)

(* initGroup: whether a stored list fits the candidates. *)
SameGroup(items, s) == ChannelsOf(items) = s

Goto(r, l) == pc' = [pc EXCEPT ![r] = l]

(* A request has its plan p of the candidates s. *)
Planned(r, p, h, s) ==
    /\ plan' = [plan EXCEPT ![r] = p]
    /\ Goto(r, "planned")
    /\ leads' = LET before == IF leads.how = h /\ leads.of = s THEN leads.by
                              ELSE [c \in Channels |-> 0]
                IN [how |-> h, of |-> s, by |-> [before EXCEPT ![p[1]] = @ + 1]]

-----------------------------------------------------------------------------
Init ==
    /\ enabled = Channels /\ slow = {} /\ grant = FALSE
    /\ strategy \in Strategies
    /\ rotation = [index |-> 0, count |-> 0]
    /\ active = NoChannel
    /\ lists = [i \in 1 .. Cardinality(Keys) + Cardinality(Requests) |-> <<>>]
    /\ group = [k \in Keys |-> 0]
    /\ pc = [r \in Requests |-> "idle"]
    /\ ask = [r \in Requests |-> AnyAsk]
    /\ how = [r \in Requests |-> "fallback"]
    /\ cand = [r \in Requests |-> <<>>]
    /\ todo = [r \in Requests |-> <<>>]
    /\ list = [r \in Requests |-> 0]
    /\ used = [r \in Requests |-> {}]
    /\ pending = [r \in Requests |-> {}]
    /\ plan = [r \in Requests |-> <<>>]
    /\ edits = 0 /\ plans = 0
    /\ leads = [how |-> strategy, of |-> <<>>, by |-> [c \in Channels |-> 0]]

(* ResolveChatPlan up to the choice of a strategy. No candidate at all is  *)
(* an error, and a single one needs no strategy.                           *)
Resolve(r) ==
    /\ pc[r] = "idle" /\ plans < MaxPlans
    /\ plans' = plans + 1
    /\ how' = [how EXCEPT ![r] = strategy]
    /\ \E a \in Asks :
          LET s == Candidates(a) IN
          /\ ask' = [ask EXCEPT ![r] = a]
          /\ cand' = [cand EXCEPT ![r] = s]
          /\ CASE s = <<>> -> Goto(r, "refused") /\ UNCHANGED <<plan, leads>>
               [] Len(s) = 1 \/ (Len(s) > 1 /\ strategy = "fallback") -> Planned(r, s, strategy, s)
               [] OTHER -> Goto(r, "ordering") /\ UNCHANGED <<plan, leads>>
          /\ todo' = [todo EXCEPT ![r] =
                CASE Len(s) > 1 /\ strategy = "priority" -> Buckets(s)
                  [] Len(s) > 1 /\ strategy = "weighted_round_robin" -> <<[key |-> 0, cand |-> s]>>
                  [] OTHER -> <<>>]
    /\ UNCHANGED <<config, shared, picking, edits>>

(* rotateSteps, under Resolver.mu. *)
RoundRobin(r) ==
    /\ pc[r] = "ordering" /\ how[r] = "round_robin"
    /\ LET s == cand[r]
           index == rotation.index % Len(s)
       IN /\ Planned(r, SubSeq(s, index + 1, Len(s)) \o SubSeq(s, 1, index), how[r], s)
          /\ rotation' = NextRotation(index, Len(s))
    /\ UNCHANGED <<config, active, lists, group, ask, how, cand, todo, picking, counts>>

(* fillFirstState.reorder, under its lock: the active channel first, or if *)
(* it is not there the one with the best priority, which becomes active.   *)
FillFirst(r) ==
    /\ pc[r] = "ordering" /\ how[r] = "fill_first"
    /\ LET sorted == Ranked(cand[r], Priority) IN
          /\ active' = IF active \in ToSet(sorted) THEN active ELSE sorted[1]
          /\ Planned(r, First(sorted, {active'}), how[r], cand[r])
    /\ UNCHANGED <<config, rotation, lists, group, ask, how, cand, todo, picking, counts>>

(* A priority with one candidate needs no weighted list. *)
SingleBucket(r) ==
    /\ pc[r] = "ordering" /\ todo[r] # <<>> /\ Len(Head(todo[r]).cand) = 1
    /\ plan' = [plan EXCEPT ![r] = @ \o Head(todo[r]).cand]
    /\ todo' = [todo EXCEPT ![r] = Tail(@)]
    /\ UNCHANGED <<config, shared, pc, ask, how, cand, picking, counts, leads>>

(* initGroup, under the lock: a list of the same channels in the same      *)
(* order is kept, any other is replaced by one that starts from zero.      *)
InitGroup(r) ==
    /\ pc[r] = "ordering" /\ todo[r] # <<>> /\ Len(Head(todo[r]).cand) > 1
    /\ LET k == Head(todo[r]).key
           s == Head(todo[r]).cand
       IN IF group[k] # 0 /\ SameGroup(lists[group[k]], s) THEN UNCHANGED <<lists, group>>
          ELSE /\ lists' = [lists EXCEPT ![FreeList] =
                               [i \in DOMAIN s |-> [channel |-> s[i], current |-> 0]]]
               /\ group' = [group EXCEPT ![k] = FreeList]
    /\ Goto(r, "picking")
    /\ UNCHANGED <<config, rotation, active, ask, how, cand, todo, picking, plan, counts, leads>>

(* reorderForWRR fetches the group's list, which may be another request's  *)
(* by now, and lets go of the lock. From a list longer than its candidates *)
(* it reads past the end of used[], which aborts the request.              *)
Fetch(r) ==
    /\ pc[r] = "picking" /\ list[r] = 0
    /\ LET i == group[Head(todo[r]).key] IN
          IF Len(lists[i]) > Len(Head(todo[r]).cand)
          THEN Goto(r, "panicked") /\ UNCHANGED list
          ELSE list' = [list EXCEPT ![r] = i] /\ UNCHANGED pc
    /\ UNCHANGED <<config, shared, ask, how, cand, todo, used, pending, plan, counts, leads>>

Unused(r) == DOMAIN lists[list[r]] \ used[r]

WeightOf(r, i) == Weight[lists[list[r]][i].channel]

Score(r, i) == lists[list[r]][i].current + WeightOf(r, i)

(* One pick: the first of the best items left, and the value it will get. *)
Pick(r) ==
    /\ pc[r] = "picking" /\ list[r] # 0 /\ Unused(r) # {}
    /\ LET best == CHOOSE i \in Unused(r) :
                      \A j \in Unused(r) : \/ Score(r, i) > Score(r, j)
                                           \/ (Score(r, i) = Score(r, j) /\ i <= j)
           total == MapThenSumSet(LAMBDA i : WeightOf(r, i), Unused(r))
       IN /\ pending' = [pending EXCEPT ![r] = {[item |-> best, value |-> Score(r, best) - total]}]
          /\ used' = [used EXCEPT ![r] = @ \cup {best}]
          /\ plan' = [plan EXCEPT ![r] = Append(@, lists[list[r]][best].channel)]
    /\ Goto(r, "writing")
    /\ UNCHANGED <<config, shared, ask, how, cand, todo, list, counts, leads>>

(* The write of currentWeight, without a lock: it can undo another         *)
(* request's.                                                              *)
WriteBack(r) ==
    /\ pc[r] = "writing"
    /\ \E w \in pending[r] : lists' = [lists EXCEPT ![list[r]][w.item].current = w.value]
    /\ pending' = [pending EXCEPT ![r] = {}]
    /\ Goto(r, "picking")
    /\ UNCHANGED <<config, rotation, active, group, ask, how, cand, todo, list, used, plan, counts,
                   leads>>

(* reorderForWRR returns. *)
EndGroup(r) ==
    /\ pc[r] = "picking" /\ list[r] # 0 /\ Unused(r) = {}
    /\ list' = [list EXCEPT ![r] = 0]
    /\ used' = [used EXCEPT ![r] = {}]
    /\ lists' = IF \/ \E k \in Keys : group[k] = list[r]
                   \/ \E q \in Requests \ {r} : list[q] = list[r]
                THEN lists ELSE [lists EXCEPT ![list[r]] = <<>>]
    /\ todo' = [todo EXCEPT ![r] = Tail(@)]
    /\ Goto(r, "ordering")
    /\ UNCHANGED <<config, rotation, active, group, ask, how, cand, pending, plan, counts, leads>>

EndGroups(r) ==
    /\ pc[r] = "ordering" /\ how[r] \in {"weighted_round_robin", "priority"} /\ todo[r] = <<>>
    /\ Planned(r, plan[r], how[r], cand[r])
    /\ UNCHANGED <<config, shared, ask, how, cand, todo, picking, counts>>

(* handleChat applies the request's own data policy to the plan, which may *)
(* be empty then, and forwardRequest reports that.                         *)
Constrain(r) ==
    /\ pc[r] = "planned"
    /\ plan' = [plan EXCEPT ![r] = Allowed(@, ask[r].policy)]
    /\ Goto(r, "sent")
    /\ UNCHANGED <<config, shared, ask, how, cand, todo, picking, counts, leads>>

(* forwardViaGrant answers; if it does not the plan's channels are tried.  *)
Relay(r) ==
    /\ pc[r] = "sent" /\ grant
    /\ Goto(r, "relayed")
    /\ UNCHANGED <<config, shared, ask, how, cand, todo, picking, plan, counts, leads>>

Finish(r) ==
    /\ pc[r] \in {"sent", "relayed", "refused", "panicked"}
    /\ Goto(r, "idle")
    /\ ask' = [ask EXCEPT ![r] = AnyAsk]
    /\ how' = [how EXCEPT ![r] = "fallback"]
    /\ cand' = [cand EXCEPT ![r] = <<>>]
    /\ todo' = [todo EXCEPT ![r] = <<>>]
    /\ plan' = [plan EXCEPT ![r] = <<>>]
    /\ UNCHANGED <<config, shared, picking, counts, leads>>

(* The user changes the configuration, or a channel's latency changes. *)
Edit ==
    /\ edits < MaxEdits
    /\ edits' = edits + 1
    /\ \/ \E c \in Channels :
             \/ enabled' = (enabled \ {c}) \cup ({c} \ enabled) /\ UNCHANGED <<slow, grant, strategy>>
             \/ slow' = (slow \ {c}) \cup ({c} \ slow) /\ UNCHANGED <<enabled, grant, strategy>>
       \/ grant' = ~grant /\ UNCHANGED <<enabled, slow, strategy>>
       \/ strategy' \in Strategies \ {strategy} /\ UNCHANGED <<enabled, slow, grant>>
    /\ UNCHANGED <<shared, pc, ask, how, cand, todo, picking, plan, plans, leads>>

Next ==
    \/ Edit
    \/ \E r \in Requests :
          \/ Resolve(r) \/ RoundRobin(r) \/ FillFirst(r) \/ SingleBucket(r) \/ InitGroup(r)
          \/ Fetch(r) \/ Pick(r) \/ WriteBack(r) \/ EndGroup(r) \/ EndGroups(r)
          \/ Constrain(r) \/ Relay(r) \/ Finish(r)

Spec == Init /\ [][Next]_vars

-----------------------------------------------------------------------------
TypeOK ==
    /\ enabled \subseteq Channels /\ slow \subseteq Channels /\ grant \in BOOLEAN
    /\ strategy \in Strategies
    /\ rotation \in [index : Nat, count : 0 .. Sticky - 1]
    /\ active \in Channels \cup {NoChannel}
    /\ \A i \in DOMAIN lists : lists[i] \in Seq(Item)
    /\ group \in [Keys -> {0} \cup DOMAIN lists] /\ list \in [Requests -> {0} \cup DOMAIN lists]
    /\ pc \in [Requests -> Labels] /\ ask \in [Requests -> Asks]
    /\ how \in [Requests -> Strategies \cup {"fallback"}]
    /\ \A r \in Requests : /\ cand[r] \in Seq(Channels) /\ plan[r] \in Seq(Channels)
                           /\ \A i \in DOMAIN todo[r] : todo[r][i].key \in Keys
                           /\ pc[r] = "writing" <=> pending[r] # {}
    /\ plans \in 0 .. MaxPlans /\ edits \in 0 .. MaxEdits

Occurrences(s, c) == Cardinality({i \in DOMAIN s : s[i] = c})

(* Every strategy hands the request each of its own candidates exactly     *)
(* once, whatever list other requests left behind or are still reordering. *)
EachCandidateOnce ==
    \A r \in Requests : pc[r] = "planned" =>
        \A c \in Channels : Occurrences(plan[r], c) = Occurrences(cand[r], c)

(* A sensitive request is tried on the user's own channels only, whatever  *)
(* plans other requests made and the user changed before. (A selected      *)
(* grant's relay, which is not in the plan, is asked all the same.)        *)
SensitiveStaysLocal ==
    \A r \in Requests : pc[r] = "sent" /\ ask[r].sensitive => ToSet(plan[r]) \subseteq Local

-----------------------------------------------------------------------------
(* Which channels lead the plans made since the strategy or the candidates *)
(* last changed.                                                           *)
Leaders == {c \in Channels : leads.by[c] > 0}
NoDuplicates == IsInjective(leads.of)

(* Rotation gives each channel its turn of Sticky plans. *)
TurnsTaken ==
    leads.how = "round_robin" /\ NoDuplicates =>
        \A c, d \in ToSet(leads.of) : leads.by[c] - leads.by[d] <= Sticky

(* fill_first stays on one channel. *)
OneFilled == leads.how = "fill_first" => Cardinality(Leaders) <= 1

(* A channel is led by no other one of a better priority. *)
BestPriorityLeads ==
    leads.how = "priority" =>
        \A c \in Leaders : \A d \in ToSet(leads.of) : Priority[c] <= Priority[d]

(* Two channels share by weight; three do not, and neither do concurrent   *)
(* requests.                                                               *)
WeightsShared ==
    leads.how = "weighted_round_robin" /\ NoDuplicates /\ Len(leads.of) = 2
                                       /\ Cardinality(Requests) = 1 =>
        \A c, d \in ToSet(leads.of) :
            leads.by[c] * Weight[d] - leads.by[d] * Weight[c] <= Weight[c] + Weight[d]

(* Over any run of plans for the same candidates the channels lead as the  *)
(* strategy promises, wherever earlier plans for other candidates or under *)
(* another strategy left its state.                                        *)
LeadsFollowStrategy == TurnsTaken /\ OneFilled /\ BestPriorityLeads /\ WeightsShared

=============================================================================
