-------------------------- MODULE PlatformDirectory --------------------------
(***************************************************************************)
(* The platform API's tables of channels, provider resources, relay        *)
(* gateways, model combos, devices and catalogue models, under concurrent  *)
(* requests. A handler is a row of SQL statements, each atomic, none in a  *)
(* transaction: it looks a row up, merges what the request gives into what *)
(* it read, and writes it back; a channel's key and models are in tables   *)
(* of their own. A behaviour is about one of the tables.                   *)
(***************************************************************************)
EXTENDS Naturals, Sequences, FiniteSets

CONSTANTS
    Requests,   \* requests under way at the same time
    Ids,        \* of rows
    Parents,    \* users of combos and devices, channels of resources
    ModelIds,   \* of a channel's models
    Edits,      \* what requests give for a row's columns
    Lists,      \* and for a channel's models
    MaxBegun    \* bound: requests begun

Tables == {"channel", "gateway", "combo", "device", "resource", "model"}
HasParent(t) == t \in {"combo", "device", "resource"}
GeneratesIds(t) == HasParent(t)

(* A row is its parent and two columns; Keep is a column a request leaves  *)
(* out. A combo's second column is its status.                             *)
Keep == "keep"
Values == {"v1", "v2"}
Default == "v0"
Archived == "archived"
NoRow == [parent |-> "none", x |-> "none", y |-> "none"]
Absent == "absent"
Shared == "all"
NoModels == {"absent"}      \* the request has no list of models

VARIABLES
    table,      \* the table the behaviour is about
    rows,       \* its rows
    keys,       \* channel_strategies: the keys of channels
    models,     \* channel_models
    running,    \* requests: what they ask, read and have still to do
    begun,      \* requests so far
    used,       \* ids that rows have had
    ideal,      \* rows, keys and models if each request were one step
    blurred,    \* ids whose requests overlapped, failed half-way or were cut
    gone        \* ids of rows that were deleted

vars == <<table, rows, keys, models, running, begun, used, ideal, blurred, gone>>

-----------------------------------------------------------------------------
(* What requests ask, and the statements their handlers run.               *)
Full == {g \in Edits : g.x # Keep}
NoExtra == [key |-> Absent, models |-> NoModels]

Ask(kind, id, parent, give, extra) ==
    [kind |-> kind, id |-> id, parent |-> parent, give |-> give, extra |-> extra]
Nothing == [x |-> Keep, y |-> Keep]

Asking(kinds, parents, gives, extras) ==
    {Ask(k, i, p, g, e) : k \in kinds, i \in Ids, p \in parents, g \in gives, e \in extras}
Looks(parents) == Asking({"delete", "list"}, parents, {Nothing}, {NoExtra})

(* The handlers of each table. A channel's take its key and its models     *)
(* too; devices are not changed; the catalogue is only loaded from a file. *)
ChannelExtras == [key : {Absent, "k1"}, models : {NoModels} \cup Lists]
ChannelAsks ==
    Asking({"create"}, {Shared}, Full, ChannelExtras) \cup Looks({Shared})
    \cup Asking({"update"}, {Shared}, Edits, ChannelExtras)
SeedAsks ==
    Asking({"seed"}, {Shared}, Full, {NoExtra})
    \cup Asking({"seedModels"}, {Shared}, {Nothing}, [key : {Absent}, models : Lists])
ResourceAsks ==
    Asking({"create"}, Parents, Full, {NoExtra}) \cup Looks(Parents)
    \cup Asking({"update"}, Parents, Edits, {NoExtra})
GatewayAsks ==
    Asking({"create"}, {Shared}, Full, {NoExtra}) \cup Looks({Shared})
    \cup Asking({"update"}, {Shared}, Edits, {NoExtra})
ComboAsks ==
    Asking({"create"}, Parents, Full, {NoExtra}) \cup Looks(Parents)
    \cup Asking({"update"}, Parents, Edits, {NoExtra})
DeviceAsks == Asking({"create"}, Parents, Full, {NoExtra}) \cup Looks(Parents)
CatalogAsks == Asking({"sync"}, {Shared}, Full, {NoExtra})

AsksOf(t) ==
    CASE t = "channel" -> ChannelAsks \cup SeedAsks
      [] t = "resource" -> ResourceAsks [] t = "gateway" -> GatewayAsks
      [] t = "combo" -> ComboAsks [] t = "device" -> DeviceAsks
      [] OTHER -> CatalogAsks

(* A statement for each model of the list; they do not depend on each other. *)
Listed(set) == CHOOSE s \in [1..Cardinality(set) -> set] : set = {s[n] : n \in DOMAIN s}
AddModels(a) == IF a.extra.models = NoModels THEN <<>>
                ELSE LET s == Listed(a.extra.models) IN [n \in DOMAIN s |-> <<"model", s[n]>>]
SetKeyOf(a) == IF a.extra.key = Absent THEN <<>> ELSE <<<<"key">>>>
ClearOf(a) == IF a.extra.models = NoModels THEN <<>> ELSE <<<<"clear">>>>

CreateStatements(a) == <<<<"insert">>>> \o SetKeyOf(a) \o AddModels(a)
UpdateStatements(a) == <<<<"select">>, <<"update">>>> \o SetKeyOf(a) \o ClearOf(a) \o AddModels(a)
DeleteStatements(t) ==
    CASE t = "channel" -> <<<<"delete">>, <<"clear">>>>
      [] t = "combo" -> <<<<"archive">>>>
      [] OTHER -> <<<<"delete">>>>
SeedModelsStatements(a) == <<<<"clear">>>> \o AddModels(a)

Statements(t, a) ==
    CASE a.kind = "create" -> CreateStatements(a)
      [] a.kind = "update" -> UpdateStatements(a)
      [] a.kind = "delete" -> DeleteStatements(t)
      [] a.kind \in {"seed", "sync"} -> <<<<"replace">>>>
      [] a.kind = "seedModels" -> SeedModelsStatements(a)
      [] OTHER -> <<<<"list">>>>

-----------------------------------------------------------------------------
(* Merging. A resource's first column is written as it is given, its       *)
(* second, like every column of the others, only if it is given.           *)
OrElse(given, old) == IF given = Keep THEN old ELSE given

Merged(t, old, give) ==
    [old EXCEPT !.x = OrElse(give.x, IF t = "resource" THEN Default ELSE @),
                !.y = OrElse(give.y, @)]
New(a) == [parent |-> a.parent, x |-> OrElse(a.give.x, Default), y |-> OrElse(a.give.y, Default)]

(* WHERE id = ? AND owner = ? (or channel_id = ?) *)
Found(a) == rows[a.id] # NoRow /\ rows[a.id].parent = a.parent

Idle == [do |-> <<>>, ask |-> Ask("list", CHOOSE i \in Ids : TRUE, Shared, Nothing, NoExtra), read |-> {}]

Init ==
    /\ table \in Tables
    /\ rows = [i \in Ids |-> NoRow]
    /\ keys = [i \in Ids |-> Absent]
    /\ models = [i \in Ids |-> {}]
    /\ running = [r \in Requests |-> Idle]
    /\ begun = 0 /\ used = {}
    /\ ideal = [i \in Ids |-> [row |-> NoRow, key |-> Absent, models |-> {}]]
    /\ blurred = {} /\ gone = {}

Busy(r) == running[r].do # <<>>
AsksOfId(i) == {r \in Requests : Busy(r) /\ running[r].ask.id = i}

(* The requests have no identity: the next one takes the first that is free. *)
Free(r) == ~ Busy(r) /\ r = CHOOSE q \in Requests : ~ Busy(q)
Begin(r, a) ==
    /\ Free(r) /\ begun < MaxBegun
    /\ a.kind = "create" /\ GeneratesIds(table) =>
           a.id \notin used /\ \A q \in AsksOfId(a.id) : running[q].ask.kind # "create"
    /\ running' = [running EXCEPT ![r] = [do |-> Statements(table, a), ask |-> a, read |-> {}]]
    /\ begun' = begun + 1
    /\ blurred' = IF AsksOfId(a.id) # {} /\ a.kind # "list" THEN blurred \cup {a.id} ELSE blurred
    /\ UNCHANGED <<table, rows, keys, models, used, ideal, gone>>

(* What a request does to the row it is about if nothing is in its way.    *)
AfterAsk(t, a, was) ==
    LET mine == was.row # NoRow /\ was.row.parent = a.parent
        told == IF a.extra.models = NoModels THEN was.models ELSE a.extra.models
        key == IF a.extra.key = Absent THEN was.key ELSE a.extra.key
    IN CASE a.kind = "create" /\ was.row = NoRow ->
              [row |-> New(a), key |-> key, models |-> was.models \cup told]
         [] a.kind = "update" /\ mine ->
              [row |-> Merged(t, was.row, a.give), key |-> key, models |-> told]
         [] a.kind = "delete" /\ mine /\ t = "combo" -> [was EXCEPT !.row.y = Archived]
         [] a.kind = "delete" /\ mine /\ t # "combo" -> [row |-> NoRow, key |-> Absent, models |-> {}]
         [] a.kind \in {"seed", "sync"} -> [was EXCEPT !.row = New(a)]
         [] a.kind = "seedModels" -> [was EXCEPT !.models = told]
         [] OTHER -> was

(* A request goes on with its next statement, or has answered. *)
Later(run) == [run EXCEPT !.do = Tail(run.do)]
Proceed(r) ==
    /\ running' = [running EXCEPT ![r] = IF Len(@.do) = 1 THEN Idle ELSE Later(@)]
    /\ ideal' = IF Len(running[r].do) = 1
                THEN [ideal EXCEPT ![running[r].ask.id] = AfterAsk(table, running[r].ask, @)] ELSE ideal
Refuse(r) == running' = [running EXCEPT ![r] = Idle] /\ UNCHANGED ideal

At(r, name) == Busy(r) /\ Head(running[r].do)[1] = name
AskOf(r) == running[r].ask

Insert(r) ==
    /\ At(r, "insert")
    /\ IF rows[AskOf(r).id] = NoRow
       THEN /\ rows' = [rows EXCEPT ![AskOf(r).id] = New(AskOf(r))]
            /\ used' = used \cup {AskOf(r).id}
            /\ Proceed(r)
       ELSE Refuse(r) /\ UNCHANGED <<rows, used>>
    /\ UNCHANGED <<table, keys, models, begun, blurred, gone>>

Select(r) ==
    /\ At(r, "select")
    /\ IF Found(AskOf(r))
       THEN running' = [running EXCEPT ![r].do = Tail(@), ![r].read = {rows[AskOf(r).id]}] /\ UNCHANGED ideal
       ELSE Refuse(r)
    /\ UNCHANGED <<table, rows, keys, models, begun, used, blurred, gone>>

(* Mutant of Update: a row that is gone is written anew. *)
Upsert(r) ==
    /\ At(r, "update")
    /\ \E old \in running[r].read :
           rows' = [rows EXCEPT ![AskOf(r).id] = Merged(table, old, AskOf(r).give)]
    /\ Proceed(r)
    /\ UNCHANGED <<table, keys, models, begun, used, blurred, gone>>

(* An UPDATE of a row that is gone changes nothing. *)
Update(r) ==
    /\ At(r, "update")
    /\ \E old \in running[r].read :
           rows' = IF rows[AskOf(r).id] = NoRow THEN rows
                   ELSE [rows EXCEPT ![AskOf(r).id] = Merged(table, old, AskOf(r).give)]
    /\ Proceed(r)
    /\ UNCHANGED <<table, keys, models, begun, used, blurred, gone>>

Delete(r) ==
    /\ At(r, "delete")
    /\ IF Found(AskOf(r))
       THEN /\ rows' = [rows EXCEPT ![AskOf(r).id] = NoRow]
            /\ gone' = gone \cup {AskOf(r).id}
            /\ Proceed(r)
       ELSE Refuse(r) /\ UNCHANGED <<rows, gone>>
    /\ UNCHANGED <<table, keys, models, begun, used, blurred>>

Archive(r) ==
    /\ At(r, "archive")
    /\ IF Found(AskOf(r)) THEN rows' = [rows EXCEPT ![AskOf(r).id].y = Archived] /\ Proceed(r)
       ELSE Refuse(r) /\ UNCHANGED rows
    /\ UNCHANGED <<table, keys, models, begun, used, blurred, gone>>

(* INSERT OR REPLACE: of SeedChannel and upsertModel. *)
Replace(r) ==
    /\ At(r, "replace")
    /\ rows' = [rows EXCEPT ![AskOf(r).id] = New(AskOf(r))]
    /\ used' = used \cup {AskOf(r).id}
    /\ Proceed(r)
    /\ UNCHANGED <<table, keys, models, begun, blurred, gone>>

SetKey(r) ==
    /\ At(r, "key")
    /\ keys' = [keys EXCEPT ![AskOf(r).id] = AskOf(r).extra.key]
    /\ Proceed(r)
    /\ UNCHANGED <<table, rows, models, begun, used, blurred, gone>>

ClearModels(r) ==
    /\ At(r, "clear")
    /\ models' = [models EXCEPT ![AskOf(r).id] = {}]
    /\ Proceed(r)
    /\ UNCHANGED <<table, rows, keys, begun, used, blurred, gone>>

AddModel(r) ==
    /\ At(r, "model")
    /\ models' = [models EXCEPT ![AskOf(r).id] = @ \cup {Head(running[r].do)[2]}]
    /\ Proceed(r)
    /\ UNCHANGED <<table, rows, keys, begun, used, blurred, gone>>

Shown(a) == {row \in {rows[i] : i \in Ids} : row.parent = a.parent}

(* A listing, once read, is answered; a resolved resource is one of it.    *)
List(r) ==
    /\ At(r, "list")
    /\ running' = [running EXCEPT ![r] =
           IF @.read = {} THEN [@ EXCEPT !.read = {NoRow} \cup Shown(AskOf(r))] ELSE Idle]
    /\ UNCHANGED <<table, rows, keys, models, begun, used, ideal, blurred, gone>>

(* A statement fails: the first ends the request, those of keys and models *)
(* are passed over.                                                        *)
Fail(r) ==
    /\ Busy(r) /\ AskOf(r).kind # "list"
    /\ blurred' = blurred \cup {AskOf(r).id}
    /\ running' = [running EXCEPT ![r] =
           IF Len(@.do) > 1 /\ Head(@.do)[1] \in {"key", "clear", "model"}
           THEN Later(@) ELSE Idle]
    /\ UNCHANGED <<table, rows, keys, models, begun, used, ideal, gone>>

(* The server stops between two statements. *)
Crash ==
    /\ \E r \in Requests : Busy(r)
    /\ blurred' = blurred \cup {running[r].ask.id : r \in {q \in Requests : Busy(q)}}
    /\ running' = [r \in Requests |-> Idle]
    /\ UNCHANGED <<table, rows, keys, models, begun, used, ideal, gone>>

Step(r) ==
    \/ \E a \in AsksOf(table) : Begin(r, a)
    \/ Insert(r) \/ Select(r) \/ Update(r) \/ Delete(r) \/ Archive(r) \/ Replace(r)
    \/ SetKey(r) \/ ClearModels(r) \/ AddModel(r) \/ List(r) \/ Fail(r)

Next == Crash \/ \E r \in Requests : Step(r)

Spec == Init /\ [][Next]_vars

ConstantsOK ==
    /\ Requests # {} /\ Ids # {} /\ Parents # {} /\ MaxBegun \in Nat
    /\ Edits \subseteq [x : Values \cup {Keep}, y : Values \cup {Keep}]
    /\ Lists \subseteq SUBSET ModelIds /\ NoModels \notin Lists /\ IsFiniteSet(ModelIds)

-----------------------------------------------------------------------------
(* Every variable has its type. *)
Rows == {NoRow} \cup [parent : Parents \cup {Shared}, x : Values \cup {Default},
                      y : Values \cup {Default, Archived}]
Things == [row : Rows, key : {Absent, "k1"}, models : SUBSET ModelIds]
AStatement == {<<n>> : n \in {"insert", "select", "update", "delete", "archive", "replace", "key",
                              "clear", "list"}} \cup ({"model"} \X ModelIds)
TypeOK ==
    /\ table \in Tables
    /\ rows \in [Ids -> Rows] /\ keys \in [Ids -> {Absent, "k1"}]
    /\ models \in [Ids -> SUBSET ModelIds] /\ ideal \in [Ids -> Things]
    /\ running \in [Requests -> [do : Seq(AStatement), ask : {Idle.ask} \cup AsksOf(table),
                                 read : SUBSET Rows]]
    /\ begun \in 0..MaxBegun /\ used \subseteq Ids /\ blurred \subseteq Ids /\ gone \subseteq Ids

(* Unless requests for the same row overlapped or were cut, the row, its   *)
(* key and its models are what its requests, one after the other, made of  *)
(* them. (A deleted channel leaves its key behind.)                        *)
AsAsked(i) == /\ rows[i] = ideal[i].row /\ models[i] = ideal[i].models
              /\ i \in gone \/ keys[i] = ideal[i].key
RowsAsAsked == \A i \in Ids : i \notin blurred /\ AsksOfId(i) = {} => AsAsked(i)

(* A row with a generated id that was deleted does not come back, whatever *)
(* updates of it are still under way.                                      *)
DeletedStaysDeleted == GeneratesIds(table) => \A i \in gone : rows[i] = NoRow

(* What a request reads to show it, or to change it, is its own user's, or *)
(* its own channel's: no combo or device of another user.                  *)
OwnRowsOnly ==
    \A r \in Requests : \A row \in running[r].read \ {NoRow} : row.parent = AskOf(r).parent

(* Why they hold. A handler keeps to the order of its statements; only     *)
(* channels have models; ...                                               *)
Names(do) == {do[n][1] : n \in DOMAIN do}
ModelsOf(do) == {do[n][2] : n \in {m \in DOMAIN do : do[m][1] = "model"}}
Rank(name) == CASE name \in {"update", "replace"} -> 1 [] name = "key" -> 2
                [] name = "clear" -> 3 [] name = "model" -> 4 [] OTHER -> 0
InOrder(do) ==
    \A m, n \in DOMAIN do :
        m < n => \/ Rank(do[m][1]) < Rank(do[n][1])
                 \/ do[m][1] = "model" /\ do[n][1] = "model"
Orderly ==
    /\ \A r \in Requests :
          /\ InOrder(running[r].do)
          /\ AskOf(r).kind = "list" => Names(running[r].do) \subseteq {"list"}
          /\ AskOf(r).kind # "list" => "list" \notin Names(running[r].do) /\ NoRow \notin running[r].read
    /\ table # "channel" => /\ \A i \in Ids : models[i] = {}
                            /\ \A r \in Requests : "model" \notin Names(running[r].do)

(* ... a generated id is used once; ...                                    *)
Inserts(r) == "insert" \in Names(running[r].do)
FreshIds ==
    GeneratesIds(table) =>
        /\ gone \subseteq used /\ \A i \in Ids : rows[i] # NoRow => i \in used
        /\ \A r \in Requests : "replace" \notin Names(running[r].do)
        /\ \A r \in Requests : Inserts(r) => AskOf(r).kind = "create" /\ AskOf(r).id \notin used
        /\ \A r, q \in Requests : Inserts(r) /\ Inserts(q) /\ AskOf(r).id = AskOf(q).id => r = q

(* ... and what a handler, alone with a row, has still to do makes of it   *)
(* what its request asks, once it is known not to be refused.              *)
Writers(i) == {r \in AsksOfId(i) : AskOf(r).kind # "list"}
Deciding == {"insert", "select", "delete", "archive"}
Outcome(t, do, a, is) ==
    [row |-> CASE "replace" \in Names(do) -> New(a)
               [] "update" \in Names(do) -> Merged(t, is.row, a.give)
               [] OTHER -> is.row,
     key |-> IF "key" \in Names(do) THEN a.extra.key ELSE is.key,
     models |-> (IF "clear" \in Names(do) THEN {} ELSE is.models) \cup ModelsOf(do)]
Actual(i) == [row |-> rows[i], key |-> keys[i], models |-> models[i]]
Alike(one, other, keyless) ==
    one.row = other.row /\ one.models = other.models /\ (keyless \/ one.key = other.key)
Ahead(r) ==
    LET a == AskOf(r)
        do == running[r].do
    IN IF Names(do) \cap Deciding # {} THEN do = Statements(table, a) /\ AsAsked(a.id)
       ELSE /\ Alike(Outcome(table, do, a, Actual(a.id)), AfterAsk(table, a, ideal[a.id]), a.id \in gone)
            /\ "update" \in Names(do) => running[r].read = {rows[a.id]} /\ rows[a.id] # NoRow
InTurnAt(i) ==
    /\ Writers(i) = {} => AsAsked(i)
    /\ \A r, q \in Writers(i) : r = q
    /\ \A r \in Writers(i) : Ahead(r)
InTurn == \A i \in Ids \ blurred : InTurnAt(i)

DirectoryInv ==
    TypeOK /\ Orderly /\ FreshIds /\ InTurn /\ DeletedStaysDeleted /\ OwnRowsOnly
=============================================================================
