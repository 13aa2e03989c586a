---------------------------- MODULE InterceptRules ----------------------------
(***************************************************************************)
(* What the desktop's proxy intercepts, and with which key: the rules      *)
(* (internal/mitm/rules.go), the targets they are derived from             *)
(* (targets.go), the requests that come by (proxy.go), and the local       *)
(* gateway's access token, which is stored (internal/localtoken), checked  *)
(* by the gateway and put into intercepted requests. Mitm.tla models how   *)
(* the manager starts and stops; here a start is one step.                 *)
(***************************************************************************)
EXTENDS Naturals, FiniteSets

CONSTANTS
    NormalOf,       \* what may be typed or asked for -> its host; "" is blank
    Vendors,        \* vendorAPIDomains
    AllTargets,     \* the built-in targets: [id, hosts, viability]
    Offered,        \* what the enterprise server may answer: sets of targets
    Edits,          \* AddRule and RemoveRule calls at once
    Conns,          \* bound: connections at once
    MaxEdits,       \* bound: edits
    MaxTokens,      \* bound: access tokens ever generated
    MaxRuns         \* bound: processes

VARIABLES
    runs,       \* processes so far
    up,         \* whether the client runs
    running,    \* whether its proxy does
    rules,      \* Rules: [base, added, removed]
    file,       \* mitm_rules.json: [form, added, removed]
    dynamic,    \* dynamicTargets
    cache,      \* .mitm-targets-cache.json: [form, targets]
    edit,       \* per call, the host it has edited and not yet saved
    edits,      \* edits so far
    stored,     \* the access token in local.db, the latest being the largest
    gateway,    \* Service.accessToken
    proxy,      \* Proxy.accessToken
    reset,      \* where ResetLocalAccessToken is, and its token
    conn,       \* what each connection carries
    test,       \* TestMITMDomain
    asked,      \* history: the user's last edit of each host
    odd,        \* history: hosts whose edit was not saved, or was saved over
    fetched     \* history: targets were fetched after the proxy started

disk == <<file, cache, stored>>
history == <<asked, odd, fetched>>
vars == <<runs, up, running, rules, file, dynamic, cache, edit, edits, stored, gateway, proxy,
          reset, conn, test, asked, odd, fetched>>

Hosts == {NormalOf[n] : n \in DOMAIN NormalOf} \ {""}
NoEdit == ""
Idle == [at |-> "idle"]
Client == 0     \* the key a client brings itself
NoRules(form) == [form |-> form, added |-> {}, removed |-> {}]
NoTargets(form) == [form |-> form, targets |-> {}]

ConstantsOK ==
    /\ Vendors \subseteq Hosts
    /\ \A t \in UNION (Offered \cup {AllTargets}) : t.hosts \subseteq Hosts
    /\ {MaxEdits, MaxTokens, MaxRuns} \subseteq Nat /\ MaxTokens >= 1

-----------------------------------------------------------------------------
(* MergedTargets: a dynamic target replaces the built-in one of its id. *)
MergedTargets ==
    {t \in AllTargets : \A d \in dynamic : d.id # t.id} \cup dynamic

SupportedHosts == UNION {t.hosts : t \in {u \in MergedTargets : u.viability = "supported"}}

DefaultBaseDomains == Vendors \cup SupportedHosts

(* rebuild: what is intercepted. *)
Effective == (rules.base \cup rules.added) \ rules.removed

(* Match takes a name as it comes; with its port it is no rule's. *)
Match(name, port) == port = "" /\ NormalOf[name] \in Effective

Load(base) ==
    IF file.form # "whole" THEN [rules EXCEPT !.base = base]
    ELSE [base |-> base, added |-> file.added, removed |-> file.removed]

(* A test that has looked at the rules, which change. *)
Outdated == IF test.at = "looked" THEN [test EXCEPT !.stale = TRUE] ELSE test

Init ==
    /\ runs = 0 /\ up = FALSE /\ running = FALSE
    /\ rules = [base |-> {}, added |-> {}, removed |-> {}]
    /\ file = NoRules("absent") /\ cache = NoTargets("absent") /\ dynamic = {}
    /\ edit = [e \in Edits |-> NoEdit] /\ edits = 0
    /\ stored = 0 /\ gateway = 0 /\ proxy = 0 /\ reset = Idle
    /\ conn = [c \in Conns |-> Idle] /\ test = Idle
    /\ asked = [h \in Hosts |-> "nothing"] /\ odd = {} /\ fetched = FALSE

(* main: the rules start as the built-in baseline; the user's edits are    *)
(* only loaded when the proxy starts. GetOrCreate keeps a stored token.    *)
Boot ==
    /\ ~ up /\ runs < MaxRuns
    /\ up' = TRUE /\ runs' = runs + 1
    /\ dynamic' = {}
    /\ rules' = [base |-> Vendors \cup UNION {t.hosts : t \in {u \in AllTargets : u.viability = "supported"}},
                 added |-> {}, removed |-> {}]
    /\ stored' = IF stored = 0 THEN 1 ELSE stored
    /\ gateway' = stored' /\ proxy' = stored'
    /\ UNCHANGED <<running, file, cache, edit, edits, reset, conn, test, history>>

Unsaved == {edit[e] : e \in Edits} \ {NoEdit}

(* Whatever is under way is lost, an edit that was not saved with it. *)
ProcessEnds ==
    /\ up
    /\ up' = FALSE /\ running' = FALSE
    /\ odd' = odd \cup Unsaved
    /\ edit' = [e \in Edits |-> NoEdit]
    /\ reset' = Idle /\ test' = Idle /\ conn' = [c \in Conns |-> Idle]
    /\ UNCHANGED <<runs, rules, disk, dynamic, edits, gateway, proxy, asked, fetched>>

(* Manager.Start: the baseline is derived afresh and the edits are loaded, *)
(* also if a later step fails; an edit between Add and Save is dropped.    *)
Start ==
    /\ up /\ ~ running
    /\ running' \in BOOLEAN
    /\ rules' = Load(DefaultBaseDomains)
    /\ odd' = odd \cup Unsaved
    /\ fetched' = FALSE
    /\ test' = Outdated
    /\ UNCHANGED <<runs, up, disk, dynamic, edit, edits, gateway, proxy, reset, conn, asked>>

(* Manager.Stop: http.Server.Close leaves hijacked connections alone. *)
Stop ==
    /\ up /\ running
    /\ running' = FALSE
    /\ conn' = [c \in Conns |-> IF conn[c].at # "idle" /\ conn[c].how = "plain" THEN Idle ELSE conn[c]]
    /\ UNCHANGED <<runs, up, rules, disk, dynamic, edit, edits, gateway, proxy, reset, test, history>>

-----------------------------------------------------------------------------
(* AddRule and RemoveRule, under the manager's lock; a blank name is none. *)
Edited(e, name, kind, added, removed) ==
    LET h == NormalOf[name]
    IN  /\ up /\ edits < MaxEdits /\ edit[e] = NoEdit /\ h # ""
        /\ rules' = [rules EXCEPT !.added = added, !.removed = removed]
        /\ edit' = [edit EXCEPT ![e] = h]
        /\ edits' = edits + 1
        /\ asked' = [asked EXCEPT ![h] = kind]
        /\ odd' = odd \ {h}
        /\ test' = Outdated
        /\ UNCHANGED <<runs, up, running, disk, dynamic, gateway, proxy, reset, conn, fetched>>

(* Mutant of AddRule: a host that was removed stays removed. *)
AddRuleOnly(e, name) == Edited(e, name, "add", rules.added \cup {NormalOf[name]}, rules.removed)

AddRule(e, name) ==
    Edited(e, name, "add", rules.added \cup {NormalOf[name]}, rules.removed \ {NormalOf[name]})

RemoveRule(e, name) ==
    Edited(e, name, "remove", rules.added \ {NormalOf[name]}, rules.removed \cup {NormalOf[name]})

(* Edits that a save loses: of rules that were never loaded. *)
SavedOver ==
    {h \in Hosts : \/ asked[h] = "add" /\ h \in file.added \ rules.added
                   \/ asked[h] = "remove" /\ h \in file.removed \ rules.removed}

(* Save, which takes the rules' lock again: it writes what they are now.   *)
(* A failed write may leave half of the file, and nothing can be loaded.   *)
Save(e) ==
    /\ up /\ edit[e] # NoEdit
    /\ \/ /\ file' = [form |-> "whole", added |-> rules.added, removed |-> rules.removed]
          /\ odd' = odd \cup SavedOver
       \/ /\ file' \in {file, NoRules("torn")}
          /\ odd' = IF file'.form = "torn" THEN Hosts ELSE odd \cup {edit[e]}
    /\ edit' = [edit EXCEPT ![e] = NoEdit]
    /\ UNCHANGED <<runs, up, running, rules, cache, stored, dynamic, edits, gateway, proxy, reset, conn,
                   test, asked, fetched>>

(* FetchTargetsFromEnterprise: the server's targets, kept for later; when  *)
(* it cannot be reached or refuses, those kept; else an error.             *)
FetchTargets ==
    /\ up
    /\ \/ /\ dynamic' \in Offered
          /\ cache' \in {[form |-> "whole", targets |-> dynamic'], cache, NoTargets("torn")}
       \/ /\ cache.form = "whole"
          /\ dynamic' = cache.targets
          /\ UNCHANGED cache
    /\ fetched' = TRUE
    /\ UNCHANGED <<runs, up, running, rules, file, edit, edits, stored, gateway, proxy, reset, conn, test,
                   asked, odd>>

-----------------------------------------------------------------------------
(* ResetLocalAccessToken: Store.Reset, then the gateway, then the proxy. *)
ResetToken ==
    /\ up /\ reset = Idle /\ stored < MaxTokens
    /\ stored' = stored + 1
    /\ reset' = [at |-> "gateway", token |-> stored']
    /\ UNCHANGED <<runs, up, running, rules, file, dynamic, cache, edit, edits, gateway, proxy, conn, test,
                   history>>

SetAccessToken ==
    /\ up
    /\ \/ /\ reset.at = "gateway"
          /\ gateway' = reset.token
          /\ reset' = [reset EXCEPT !.at = "proxy"]
          /\ UNCHANGED proxy
       \/ /\ reset.at = "proxy"
          /\ proxy' = reset.token
          /\ reset' = Idle
          /\ UNCHANGED gateway
    /\ UNCHANGED <<runs, up, running, rules, disk, dynamic, edit, edits, conn, test, history>>

(* A connection: who gets its requests, how they come, with which key.     *)
Carry(c, v) ==
    /\ conn' = [conn EXCEPT ![c] = v]
    /\ UNCHANGED <<runs, up, running, rules, disk, dynamic, edit, edits, gateway, proxy, reset, test,
                   history>>

Conn(at, how) == [at |-> at, how |-> how, key |-> Client, answer |-> "none"]

(* handleConnect drops the port before it looks the host up. *)
HandleConnect(c, name) ==
    /\ up /\ running /\ conn[c] = Idle
    /\ Carry(c, Conn(IF Match(name, "") THEN "taken" ELSE "origin", "tunnel"))

(* handleHTTP looks it up as it is. *)
HandleHTTP(c, name, port) ==
    /\ up /\ running /\ conn[c] = Idle
    /\ Carry(c, Conn(IF Match(name, port) THEN "taken" ELSE "origin", "plain"))

(* A request on an intercepted connection, the proxy's token over its own. *)
InjectAuth(c) ==
    /\ up /\ conn[c].at = "taken"
    /\ Carry(c, [conn[c] EXCEPT !.at = "gateway", !.key = proxy])

(* validateToken *)
TokenMatches(key) == key = gateway

(* The gateway admits its own token only; or it cannot be reached. *)
RoundTrip(c) ==
    /\ up /\ conn[c].at = "gateway"
    /\ \E a \in {IF TokenMatches(conn[c].key) THEN "served" ELSE "refused", "bad gateway"} :
           Carry(c, [conn[c] EXCEPT !.at = "answered", !.answer = a])

(* The next request of a tunnel that is kept open. *)
NextRequest(c) ==
    /\ up /\ conn[c].at = "answered" /\ conn[c].how = "tunnel"
    /\ Carry(c, [conn[c] EXCEPT !.at = "taken", !.key = Client, !.answer = "none"])

(* The end of a connection: of a request without keep-alive, a handshake   *)
(* that fails, a tunnel after its minute.                                  *)
Close(c) ==
    /\ up /\ conn[c].at \in {"taken", "origin", "answered"}
    /\ Carry(c, Idle)

(* TestMITMDomain looks for the name in the list as it was typed; *)
TestLooks(name) ==
    /\ up /\ running /\ test.at \in {"idle", "done"} /\ Conns # {}
    /\ test' = [at |-> "looked", name |-> name, said |-> name \in Effective, did |-> FALSE, stale |-> FALSE]
    /\ UNCHANGED <<runs, up, running, rules, disk, dynamic, edit, edits, gateway, proxy, reset, conn,
                   history>>

(* then it asks for it through the proxy. *)
TestConnects ==
    /\ up /\ running /\ test.at = "looked"
    /\ test' = [test EXCEPT !.at = "done", !.did = Match(test.name, "")]
    /\ UNCHANGED <<runs, up, running, rules, disk, dynamic, edit, edits, gateway, proxy, reset, conn,
                   history>>

Names == DOMAIN NormalOf

ConnStep(c) ==
    \/ \E n \in Names \ {""} : HandleConnect(c, n) \/ \E p \in {"", "8080"} : HandleHTTP(c, n, p)
    \/ InjectAuth(c) \/ RoundTrip(c) \/ NextRequest(c) \/ Close(c)

Next ==
    \/ Boot \/ ProcessEnds \/ Start \/ Stop \/ FetchTargets \/ ResetToken \/ SetAccessToken
    \/ \E e \in Edits : Save(e) \/ \E n \in Names : AddRule(e, n) \/ RemoveRule(e, n)
    \/ \E c \in Conns : ConnStep(c)
    \/ (\E n \in Names : TestLooks(n)) \/ TestConnects

Spec == Init /\ [][Next]_vars

-----------------------------------------------------------------------------
EditTypes ==
    /\ rules \in [base : SUBSET Hosts, added : SUBSET Hosts, removed : SUBSET Hosts]
    /\ file \in [form : {"absent", "torn", "whole"}, added : SUBSET Hosts, removed : SUBSET Hosts]
    /\ edit \in [Edits -> Hosts \cup {NoEdit}]
    /\ asked \in [Hosts -> {"nothing", "add", "remove"}] /\ odd \subseteq Hosts

TokenTypes ==
    /\ stored \in 0..MaxTokens /\ gateway \in 0..MaxTokens /\ proxy \in 0..MaxTokens
    /\ reset \in {Idle} \cup [at : {"gateway", "proxy"}, token : 0..MaxTokens]

TrafficTypes ==
    /\ conn \in [Conns -> {Idle} \cup [at : {"taken", "origin", "gateway", "answered"},
                                      how : {"tunnel", "plain"}, key : 0..MaxTokens,
                                      answer : {"none", "served", "refused", "bad gateway"}]]
    /\ test \in {Idle} \cup [at : {"looked", "done"}, name : Names, said : BOOLEAN,
                             did : BOOLEAN, stale : BOOLEAN]

TypeOK ==
    /\ up \in BOOLEAN /\ running \in BOOLEAN /\ fetched \in BOOLEAN
    /\ runs \in 0..MaxRuns /\ edits \in 0..MaxEdits
    /\ dynamic \in Offered \cup {{}}
    /\ cache \in [form : {"absent", "torn", "whole"}, targets : Offered \cup {{}}]
    /\ EditTypes /\ TokenTypes /\ TrafficTypes

(* What the user added is intercepted while the proxy runs, and what he    *)
(* removed is not, across restarts of proxy and client, whatever the       *)
(* baseline has become; unless an edit's write failed, it was not over     *)
(* when the proxy started, or it was made before the edits were loaded.    *)
EditsInForce ==
    running => \A h \in Hosts \ odd : /\ asked[h] = "add" => h \in Effective
                                      /\ asked[h] = "remove" => h \notin Effective

(* What the list of targets shows as supported is intercepted, unless the  *)
(* user removed it or it was fetched after the proxy's start.              *)
TargetsCovered == running /\ ~ fetched => SupportedHosts \subseteq Effective \cup rules.removed

(* Outside a reset the store, the gateway and the proxy have one token; a  *)
(* request is refused only if a reset came between; the client's own key   *)
(* is for its own host, and the token for the gateway.                     *)
TokensAgree ==
    /\ up /\ reset = Idle => stored = gateway /\ gateway = proxy
    /\ \A c \in Conns :
           /\ conn[c].at = "answered" /\ conn[c].answer = "refused" => conn[c].key < stored
           /\ conn[c].at \in {"gateway", "answered"} => conn[c].key # Client
           /\ conn[c].at = "origin" => conn[c].key = Client

(* A test tells of a name in its usual spelling what the proxy did with    *)
(* it, unless the rules changed during the test.                           *)
TestTellsTruth ==
    test.at = "done" /\ ~ test.stale /\ NormalOf[test.name] = test.name => test.said = test.did

(* What the user asked of a host is what r, the rules or their file, say. *)
AsAsked(h, r) == /\ asked[h] = "add" => h \in r.added
                 /\ asked[h] = "remove" => h \in r.removed

(* A host whose last edit is saved is in the file as it was asked; until   *)
(* then, and while the proxy runs, it is so in the rules.                  *)
EditsKept ==
    /\ rules.added \cap rules.removed = {} /\ file.added \cap file.removed = {}
    /\ \A h \in Hosts \ odd :
           /\ running \/ h \in Unsaved => AsAsked(h, rules)
           /\ h \in Unsaved \/ asked[h] = "nothing" \/ (file.form = "whole" /\ AsAsked(h, file))

(* The baseline has the supported hosts that were known at the start. *)
BaselineKnows == running /\ ~ fetched => SupportedHosts \subseteq rules.base

(* A reset goes from the store to the gateway to the proxy, and a request  *)
(* takes the token from the last of them.                                  *)
TokensFollow ==
    up => /\ proxy # Client /\ proxy <= gateway /\ gateway <= stored
          /\ reset = Idle => proxy = gateway /\ gateway = stored
          /\ reset # Idle => /\ reset.token = stored
                             /\ reset.at = "proxy" => gateway = stored
          /\ \A c \in Conns :
                 /\ conn[c].at = "origin" => conn[c].key = Client
                 /\ conn[c].at \in {"gateway", "answered"} =>
                       conn[c].key # Client /\ conn[c].key <= gateway
                 /\ conn[c].at = "answered" /\ conn[c].answer = "refused" => conn[c].key < gateway

(* A test that the rules have not outdated has seen them as they are. *)
TestIsRecent ==
    /\ test.at = "looked" /\ ~ test.stale => test.said = (test.name \in Effective)
    /\ TestTellsTruth

(* Nothing is under way in a process that has ended. *)
EndsClean ==
    ~ up => ~ running /\ Unsaved = {} /\ reset = Idle /\ test = Idle /\ \A c \in Conns : conn[c] = Idle

InterceptInv ==
    /\ TypeOK /\ EndsClean
    /\ EditsKept /\ BaselineKnows /\ TokensFollow /\ TestIsRecent

InterceptSound == EditsInForce /\ TargetsCovered /\ TokensAgree /\ TestTellsTruth
=============================================================================
