----------------------------- MODULE MCServices -----------------------------
(***************************************************************************)
(* Components that work beside each other and share no state, checked in   *)
(* one run: which of them a behaviour is of is chosen at the start. Each   *)
(* component's variables are the first of the pool of Services, in the     *)
(* order in which its module declares them; the others stay 0. A property  *)
(* named as in a component's module is that property, of the parts that    *)
(* run it.                                                                 *)
(***************************************************************************)
EXTENDS Naturals, Sequences, Services

CONSTANT Parts      \* the parts that are checked

VARIABLE part

vars == <<part, pool>>

-----------------------------------------------------------------------------
(* Instances, with their bounds.                                           *)
Absent == [form |-> "absent", recs |-> <<>>, priced |-> FALSE, terminated |-> TRUE]
OldLog == [form |-> "log", recs |-> <<[serial |-> 1, month |-> 0]>>, priced |-> TRUE,
           terminated |-> TRUE]

(* config.json of a build that kept keys in it. *)
KeyInFile == [form |-> "whole", channels |-> <<[id |-> "a", type |-> "custom", keys |-> "k1"]>>,
              default |-> "no channel"]

(* The platform's channel and two of the user's. *)
Ch == {"p", "l", "m"}
AllStrategies == {"fallback", "round_robin", "weighted_round_robin", "fill_first", "priority"}
ComboSteps == <<[pool |-> <<"p", "l">>, cross |-> TRUE, single |-> "none"],
                [pool |-> <<>>, cross |-> FALSE, single |-> "m"]>>
SomeAsks == {[tools |-> FALSE, sensitive |-> TRUE, policy |-> "any"],
             [tools |-> FALSE, sensitive |-> FALSE, policy |-> "cloud_only"]}

(* Chat bodies: two messages, of strings, of parts, of a tool; with tools  *)
(* of an MCP server; and a Gemini request with a system instruction.       *)
Piece(n, k) == [n |-> n, kind |-> k]
Part(type, ps) == [type |-> type, text |-> ps]
Turn(role, form, parts) == [role |-> role, content |-> [form |-> form, parts |-> parts]]
One(ps) == <<Part("text", ps)>>
FirstTurns ==
    {Turn("system", "string", One(<<Piece(1, "plain")>>)),
     Turn("user", "string", One(<<Piece(1, "private"), Piece(2, "assignment")>>)),
     Turn("user", "parts", One(<<Piece(1, "private")>>) \o One(<<Piece(2, "plain")>>))}
SecondTurns ==
    {Turn("user", "parts", Append(One(<<Piece(3, "plain")>>), Part("image", <<>>))),
     Turn("assistant", "string", One(<<Piece(3, "attack")>>)),
     Turn("tool", "string", One(<<Piece(3, "output")>>))}
SomeTools(shape) == <<[name |-> "read_file", shape |-> shape], [name |-> "fs_read", shape |-> shape],
                      [name |-> "other", shape |-> shape]>>
Body(format, system, msgs, tools) ==
    [format |-> format, system |-> system, msgs |-> msgs, tools |-> tools]
ChatRequests ==
    {Body(f, <<>>, <<a, b>>, <<>>) :
         f \in {"openai", "responses", "vertex"}, a \in FirstTurns, b \in SecondTurns}
    \cup {Body("anthropic", <<Piece(4, "private")>>, <<a, b>>, SomeTools("flat")) :
              a \in FirstTurns, b \in SecondTurns}
    \cup {Body(f, <<>>, <<Turn("user", "string", One(<<Piece(1, "plain")>>))>>, SomeTools(s)) :
              f \in {"openai", "responses"}, s \in {"flat", "nested"}}
    \cup {Body("gemini", <<Piece(4, "plain"), Piece(5, "plain")>>,
               <<Turn("user", "parts", One(<<Piece(1, "private")>>)), Turn("model", "parts", parts)>>, <<>>) :
              parts \in {<<>>, Append(One(<<Piece(2, "plain")>>), Part("other", <<>>)),
                         One(<<Piece(2, "plain")>>) \o One(<<Piece(3, "plain")>>)}}

(* Chat requests in every dialect to every kind of provider, streamed or   *)
(* not, some with reasoning, some by WebSocket; the other modalities.      *)
AnAsk(provider, stream, source, reasoning, via, endpoint) ==
    [provider |-> provider, stream |-> stream, source |-> source, reasoning |-> reasoning,
     via |-> via, endpoint |-> endpoint]
Answers ==
    {AnAsk(p, s, d, FALSE, "http", "chat") : p \in {"openai", "anthropic", "gemini", "grant"},
         s \in BOOLEAN, d \in {"chat", "anthropic", "responses", "gemini"}}
    \cup {AnAsk(p, s, "chat", r, v, "chat") : p \in {"openai", "anthropic"}, s \in BOOLEAN,
              r \in BOOLEAN, v \in {"http", "ws"}}
    \cup {AnAsk("openai", FALSE, "chat", FALSE, "http", e) : e \in {"embeddings", "images", "speech", "upload"}}

(* Combos with a repeated step, with models only, with nothing usable, and *)
(* one of an older release.                                                *)
AStep(channel, model) == [channel |-> channel, model |-> model]
ACombo(name, steps, models, named) ==
    [name |-> <<name>>, steps |-> steps, models |-> models, named |-> named]
ComboDrafts ==
    {ACombo("mine", <<AStep("", "m1"), AStep("c", "m2"), AStep("", "m1")>>, <<>>, FALSE),
     ACombo("mine", <<>>, <<"m2", "", "m1">>, TRUE),
     ACombo("empty", <<AStep("c", "")>>, <<"">>, FALSE)}
OldCombos == <<ACombo("old", <<>>, <<"m1", "m1", "m2">>, FALSE)>>

(* A logical model that is mapped, one that two channels list, tokens that *)
(* name a channel, a form that cannot be read.                             *)
RelayAsk(claim, endpoint, body, model, trace) ==
    [token |-> "good", claim |-> claim, endpoint |-> endpoint, body |-> body, model |-> model,
     trace |-> trace]
RelayAsks ==
    {RelayAsk("none", "chat", "whole", "smart", "t"), RelayAsk("a", "chat", "whole", "m", ""),
     RelayAsk("none", "upload", "no form", "m", ""), RelayAsk("b", "upload", "whole", "m", "t"),
     RelayAsk("b", "models", "whole", "", "")}

SavedChannels == [a |-> [enabled |-> TRUE, healthy |-> TRUE, fails |-> 0],
                  b |-> [enabled |-> TRUE, healthy |-> TRUE, fails |-> 2]]

(* Servers and presets to save; what another device has left to be pulled. *)
Entry(key, on, val) == [key |-> key, on |-> on, val |-> val]
ServerDrafts == {Entry("m1", TRUE, "claude"), Entry("m2", TRUE, "codex"), Entry("m1", FALSE, "all")}
PresetDrafts == {Entry("p", TRUE, "v1"), Entry("p", TRUE, "v2")}
OtherDevice == [mcp |-> <<Entry("m2", TRUE, "claude")>>, prompts |-> <<[file |-> "absent"]>>,
                skills |-> <<[file |-> "absent"]>>]

(* Hosts and how they may be spelled; the built-in targets, and what the   *)
(* enterprise server has in the place of one of them.                      *)
Spelled(names) == [n \in names |-> IF n = "IDE " THEN "ide" ELSE n]
Target(id, host, viability) == [id |-> id, hosts |-> {host}, viability |-> viability]
BuiltinTargets == {Target("t1", "ide", "supported"), Target("t2", "late", "investigating")}
OfferedTargets == {{Target("t1", "late", "supported")}}

Usage == [max |-> 3, files |-> {Absent, OldLog},
          outcomes |-> {"whole", "nothing", "cut", "unterminated"}, last |-> 1, serials |-> 4]

Config == [custom |-> {"a"}, accounts |-> {"x"}, lists |-> {"k1"}, noKeys |-> "no keys",
           noChannel |-> "no channel", noAccount |-> "no account", commands |-> {"g1", "g2"},
           files |-> {KeyInFile}, faults |-> {"torn", "keychain"}]

Health == INSTANCE ChannelHealth WITH
    Channels <- {"a"}, Checkers <- {"k1", "k2"}, MaxFailures <- 2, AsksKey <- {},
    UserTests <- TRUE,
    answers <- x1, health <- x2, failures <- x3, running <- x4, stopped <- x5, pc <- x6,
    cancelled <- x7, todo <- x8, listed <- x9, probed <- x10, test <- x11

Token == [requests |-> {"r1", "r2"}, margin |-> 2, timeout |-> 1, lifetimes |-> {1, 3, 4},
          age |-> 1]

People == [clients |-> {"c1", "c2"}, callbacks |-> {"k1"}, sessions |-> {"s1", "s2"},
           identities |-> {"i1"}, emails |-> {"e1"}, passwords |-> {}, ttl |-> 0, timeout |-> 0]

Addresses == [clients |-> {"c1"}, callbacks |-> {"k1", "k2"}, sessions |-> {"s1"},
              identities |-> {"i1"}, emails |-> {"e1", "e2"}, passwords |-> {}, ttl |-> 0,
              timeout |-> 0]

Person == [clients |-> {"c1"}, callbacks |-> {"k1"}, sessions |-> {"s1"}, identities |-> {"i1"},
           emails |-> {"e1"}, passwords |-> {"e1"}, ttl |-> 1, timeout |-> 0]

Stream == INSTANCE StreamConversion WITH
    MaxChunks <- 4,
    format <- x1, in <- x2, s <- x3, out <- x4, ended <- x5

Racing == INSTANCE Routing WITH
    Channels <- Ch, Order <- <<"p", "l", "m">>, Local <- {"l", "m"},
    Serves <- [c \in Ch |-> IF c = "m" THEN 3 ELSE 2], ToolFriendly <- {"l"}, Fitting <- {"p"},
    Priority <- [c \in Ch |-> IF c = "m" THEN 2 ELSE 1],
    Weight <- [c \in Ch |-> IF c = "l" THEN 2 ELSE 1], Sticky <- 2, Combo <- <<>>,
    Strategies <- AllStrategies, Requests <- {"r1", "r2"},
    Asks <- [tools : BOOLEAN, sensitive : {FALSE}, policy : {"any"}], MaxEdits <- 0,
    MaxPlans <- 3,
    enabled <- x1, slow <- x2, grant <- x3, strategy <- x4, rotation <- x5, active <- x6,
    lists <- x7, group <- x8, pc <- x9, ask <- x10, how <- x11, cand <- x12, todo <- x13,
    list <- x14, used <- x15, pending <- x16, plan <- x17, edits <- x18, plans <- x19,
    leads <- x20

Planning == INSTANCE Routing WITH
    Channels <- Ch, Order <- <<"p", "l", "m">>, Local <- {"l", "m"},
    Serves <- [c \in Ch |-> IF c = "m" THEN 3 ELSE 2], ToolFriendly <- {"l"}, Fitting <- {"p"},
    Priority <- [c \in Ch |-> IF c = "m" THEN 2 ELSE 1],
    Weight <- [c \in Ch |-> IF c = "l" THEN 2 ELSE 1], Sticky <- 2, Combo <- ComboSteps,
    Strategies <- AllStrategies \ {"fallback"}, Requests <- {"r1"}, Asks <- SomeAsks,
    MaxEdits <- 2, MaxPlans <- 2,
    enabled <- x1, slow <- x2, grant <- x3, strategy <- x4, rotation <- x5, active <- x6,
    lists <- x7, group <- x8, pc <- x9, ask <- x10, how <- x11, cand <- x12, todo <- x13,
    list <- x14, used <- x15, pending <- x16, plan <- x17, edits <- x18, plans <- x19,
    leads <- x20

Limits == [keys |-> {"u", "d"}, keysOf |-> <<<<"u", "d">>, <<"u">>>>, burst |-> 4, cost |-> 2]

Intercept == INSTANCE Mitm WITH
    Probes <- {1, 2},
    state <- x1, step <- x2, ca <- x3, loaded <- x4, trusted <- x5, listener <- x6, web <- x7,
    secure <- x8, probe <- x9, cancelled <- x10, left <- x11

Chat == INSTANCE ChatBody WITH
    Requests <- ChatRequests, Plans <- {<<"openai", "anthropic">>, <<"gemini", "vertex">>},
    at <- x1, conf <- x2, asked <- x3, raw <- x4, bytes <- x5, msgs <- x6, tools <- x7,
    attack <- x8, plan <- x9, sent <- x10

Database == [releases |-> {3, 25}, backups |-> {"b"}, rows |-> 1]

Directory == [requests |-> {"r1", "r2"}, ids |-> {1}, parents |-> {"p1", "p2"},
              models |-> {"m1", "m2"}, edits |-> {[x |-> "v1", y |-> "keep"]},
              lists |-> {{"m1"}, {"m2"}}, begun |-> 3]

UserCombos == INSTANCE Combos WITH
    Users <- {"u1"}, Drafts <- ComboDrafts, TierOf <- [m1 |-> 3, m2 |-> 1],
    CostOf <- [m1 |-> 2, m2 |-> 1], Old <- OldCombos,
    Builtin <- ACombo("builtin", <<AStep("", "m1")>>, <<"m1">>, FALSE), MaxEdits <- 2,
    MaxPushed <- 1,
    up <- x1, combos <- x2, templates <- x3, settings <- x4, file <- x5, command <- x6,
    session <- x7, sync <- x8, cloud <- x9, cloudSettings <- x10, edits <- x11

Relay == [requests |-> {"r1", "r2"}, asks |-> RelayAsks, channels |-> <<"a", "b">>,
          serves |-> [a |-> {"m", "odd"}, b |-> {"m", "big"}],
          mappings |-> <<[logical |-> "smart", channel |-> "b", upstream |-> "big"]>>,
          malformed |-> {"a"}, catalogue |-> {"m"},
          environments |-> {"strong", "empty", "weak"}, saved |-> SavedChannels, asked |-> 2,
          events |-> 2]

Listed == INSTANCE LocalFiles WITH
    Drafts <- [mcp |-> ServerDrafts, prompts |-> PresetDrafts, skills |-> {}],
    Elsewhere <- OtherDevice, Providers <- {"folder", "webdav"}, Installs <- {1},
    LogKinds <- {}, MaxLogs <- 1, Batch <- 1, MaxCommands <- 3,
    up <- x1, list <- x2, file <- x3, edit <- x4, seen <- x5, remote <- x6, sync <- x7,
    status <- x8, touched <- x9, odd <- x10, claude <- x11, prompt <- x12, dir <- x13,
    install <- x14, log <- x15, commands <- x16

Skilled == INSTANCE LocalFiles WITH
    Drafts <- [mcp |-> {}, prompts |-> {}, skills |-> {"s"}], Elsewhere <- OtherDevice,
    Providers <- {}, Installs <- {1, 2}, LogKinds <- {}, MaxLogs <- 1, Batch <- 1,
    MaxCommands <- 4,
    up <- x1, list <- x2, file <- x3, edit <- x4, seen <- x5, remote <- x6, sync <- x7,
    status <- x8, touched <- x9, odd <- x10, claude <- x11, prompt <- x12, dir <- x13,
    install <- x14, log <- x15, commands <- x16

Logged == INSTANCE LocalFiles WITH
    Drafts <- [mcp |-> {}, prompts |-> {}, skills |-> {}], Elsewhere <- OtherDevice,
    Providers <- {}, Installs <- {1}, LogKinds <- {"ok", "failed"}, MaxLogs <- 3, Batch <- 2,
    MaxCommands <- 6,
    up <- x1, list <- x2, file <- x3, edit <- x4, seen <- x5, remote <- x6, sync <- x7,
    status <- x8, touched <- x9, odd <- x10, claude <- x11, prompt <- x12, dir <- x13,
    install <- x14, log <- x15, commands <- x16

Ruled == [normal |-> Spelled({"ide", "late"}), vendors |-> {}, targets |-> BuiltinTargets,
          offered |-> OfferedTargets, calls |-> {1, 2}, conns |-> {}, edits |-> 2, tokens |-> 1,
          runs |-> 2]

Carried == [normal |-> Spelled({"ide", "IDE ", ""}), vendors |-> {"ide"}, targets |-> {},
            offered |-> {}, calls |-> {1}, conns |-> {1}, edits |-> 1, tokens |-> 2, runs |-> 1]

Answer == [asked |-> Answers, events |-> 3]

-----------------------------------------------------------------------------
(* The variables of the pool after the n that a part uses. *)
After18 == <<x19, x20>>
After16 == <<x17, x18, After18>>
After14 == <<x15, x16, After16>>
After13 == <<x14, After14>>
After11 == <<x12, x13, After13>>
After10 == <<x11, After11>>
After8 == <<x9, x10, After10>>
After6 == <<x7, x8, After8>>
After5 == <<x6, After6>>

Zero18 == x19 = 0 /\ x20 = 0
Zero16 == x17 = 0 /\ x18 = 0 /\ Zero18
Zero14 == x15 = 0 /\ x16 = 0 /\ Zero16
Zero13 == x14 = 0 /\ Zero14
Zero11 == x12 = 0 /\ x13 = 0 /\ Zero13
Zero10 == x11 = 0 /\ Zero11
Zero8 == x9 = 0 /\ x10 = 0 /\ Zero10
Zero6 == x7 = 0 /\ x8 = 0 /\ Zero8
Zero5 == x6 = 0 /\ Zero6

Init ==
    /\ part \in Parts
    /\ \/ part = "usage" /\ Logging(Usage)!Init /\ Zero8
       \/ part = "config" /\ Configuring(Config)!Init /\ Zero10
       \/ part = "health" /\ Health!Init /\ Zero11
       \/ part = "token" /\ Tokens(Token)!Init /\ Zero6
       \/ part = "people" /\ Signing(People)!Init /\ Zero11
       \/ part = "addresses" /\ Signing(Addresses)!Init /\ Zero11
       \/ part = "signin" /\ Signing(Person)!Init /\ Zero11
       \/ part = "stream" /\ Stream!Init /\ Zero5
       \/ part = "racing" /\ Racing!Init
       \/ part = "planning" /\ Planning!Init
       \/ part = "limiter" /\ Limiter(Limits)!Init /\ Zero5
       \/ part = "mitm" /\ Intercept!Init /\ Zero11
       \/ part = "chat" /\ Chat!Init /\ Zero10
       \/ part = "database" /\ Db(Database)!Init /\ Zero10
       \/ part = "directory" /\ Dir(Directory)!Init /\ Zero10
       \/ part = "combos" /\ UserCombos!Init /\ Zero11
       \/ part = "relay" /\ Gateway(Relay)!Init /\ Zero14
       \/ part = "lists" /\ Listed!Init /\ Zero16
       \/ part = "skills" /\ Skilled!Init /\ Zero16
       \/ part = "logs" /\ Logged!Init /\ Zero16
       \/ part = "rules" /\ Intercepting(Ruled)!Init /\ Zero18
       \/ part = "intercepts" /\ Intercepting(Carried)!Init /\ Zero18
       \/ part = "answer" /\ Delivery(Answer)!Init /\ Zero13

Next ==
    \/ part = "usage" /\ Logging(Usage)!Next /\ UNCHANGED <<part, After8>>
    \/ part = "config" /\ Configuring(Config)!Next /\ UNCHANGED <<part, After10>>
    \/ part = "health" /\ Health!Next /\ UNCHANGED <<part, After11>>
    \/ part = "token" /\ Tokens(Token)!Next /\ UNCHANGED <<part, After6>>
    \/ part = "people" /\ Signing(People)!Next /\ UNCHANGED <<part, After11>>
    \/ part = "addresses" /\ Signing(Addresses)!Next /\ UNCHANGED <<part, After11>>
    \/ part = "signin" /\ Signing(Person)!Next /\ UNCHANGED <<part, After11>>
    \/ part = "stream" /\ Stream!Next /\ UNCHANGED <<part, After5>>
    \/ part = "racing" /\ Racing!Next /\ UNCHANGED part
    \/ part = "planning" /\ Planning!Next /\ UNCHANGED part
    \/ part = "limiter" /\ Limiter(Limits)!Next /\ UNCHANGED <<part, After5>>
    \/ part = "mitm" /\ Intercept!Next /\ UNCHANGED <<part, After11>>
    \/ part = "chat" /\ Chat!Next /\ UNCHANGED <<part, After10>>
    \/ part = "database" /\ Db(Database)!Next /\ UNCHANGED <<part, After10>>
    \/ part = "directory" /\ Dir(Directory)!Next /\ UNCHANGED <<part, After10>>
    \/ part = "combos" /\ UserCombos!Next /\ UNCHANGED <<part, After11>>
    \/ part = "relay" /\ Gateway(Relay)!Next /\ UNCHANGED <<part, After14>>
    \/ part = "lists" /\ Listed!Next /\ UNCHANGED <<part, After16>>
    \/ part = "skills" /\ Skilled!Next /\ UNCHANGED <<part, After16>>
    \/ part = "logs" /\ Logged!Next /\ UNCHANGED <<part, After16>>
    \/ part = "rules" /\ Intercepting(Ruled)!Next /\ UNCHANGED <<part, After18>>
    \/ part = "intercepts" /\ Intercepting(Carried)!Next /\ UNCHANGED <<part, After18>>
    \/ part = "answer" /\ Delivery(Answer)!Next /\ UNCHANGED <<part, After13>>

(* The fairness of the parts that state some. *)
Fairness ==
    /\ \A k \in {"k1", "k2"} : WF_(Health!vars)(part = "health" /\ Health!Check(k))
    /\ WF_(Signing(Person)!vars)(part = "signin" /\ Signing(Person)!Tick)
    /\ WF_(Signing(Person)!vars)(part = "signin" /\ Signing(Person)!ClientStep("c1"))
    /\ WF_(Intercept!vars)(part = "mitm" /\ Intercept!StartStep)
    /\ \A k \in {1, 2} : /\ WF_(Intercept!vars)(part = "mitm" /\ Intercept!CheckProxy(k))
                         /\ WF_(Intercept!vars)(part = "mitm" /\ Intercept!ProbeStops(k))
    /\ WF_(Delivery(Answer)!vars)(part = "answer" /\ Delivery(Answer)!TranslatorStep)
    /\ WF_(Delivery(Answer)!vars)(part = "answer" /\ Delivery(Answer)!ConverterStep)
    /\ WF_(Delivery(Answer)!vars)(part = "answer" /\ Delivery(Answer)!HandlerStep)
    /\ WF_(Delivery(Answer)!vars)(part = "answer" /\ Delivery(Answer)!Timeout)
    /\ WF_(Gateway(Relay)!vars)(part = "relay" /\ Gateway(Relay)!Step("r1"))

Spec == Init /\ [][Next]_vars /\ Fairness

-----------------------------------------------------------------------------
(* The state of the part that runs has its type. *)
TypeOK ==
    CASE part = "usage" -> Logging(Usage)!TypeOK
      [] part = "config" -> Configuring(Config)!TypeOK
      [] part = "health" -> Health!TypeOK
      [] part = "token" -> Tokens(Token)!TypeOK
      [] part = "people" -> Signing(People)!TypeOK
      [] part = "addresses" -> Signing(Addresses)!TypeOK
      [] part = "signin" -> Signing(Person)!TypeOK
      [] part = "stream" -> Stream!TypeOK
      [] part = "racing" -> Racing!TypeOK
      [] part = "planning" -> Planning!TypeOK
      [] part = "limiter" -> Limiter(Limits)!TypeOK
      [] part = "mitm" -> Intercept!TypeOK
      [] part = "chat" -> Chat!TypeOK
      [] part = "database" -> Db(Database)!TypeOK
      [] part = "directory" -> Dir(Directory)!TypeOK
      [] part = "answer" -> Delivery(Answer)!TypeOK
      [] part = "combos" -> UserCombos!TypeOK
      [] part = "lists" -> Listed!TypeOK
      [] part = "skills" -> Skilled!TypeOK
      [] part = "logs" -> Logged!TypeOK
      [] part = "relay" -> Gateway(Relay)!TypeOK
      [] part = "rules" -> Intercepting(Ruled)!TypeOK
      [] part = "intercepts" -> Intercepting(Carried)!TypeOK

(* UsageLog: the month's cost, which admission checks against the limit,   *)
(* counts each request once, across restarts, failed writes and months.    *)
MonthCostExact == part = "usage" => Logging(Usage)!MonthCostExact

(* UsageLog: a restart brings back the records, unless a write failed.     *)
(* ChannelConfig: channels, keys and default channel survive a restart,    *)
(* unless the disk or the keychain failed or an edit was cut in two.       *)
RestartKeepsData == [][/\ part = "usage" => Logging(Usage)!KeepsRecords
                       /\ part = "config" => Configuring(Config)!KeepsChannels]_vars

(* ChannelHealth: a lasting outage, and a lasting recovery, is noticed,    *)
(* whatever older rounds and the user's tests write.                       *)
StatusFollowsUpstream ==
    /\ <>[](part = "health" /\ Health!Out("a"))
           => []<>(part = "health" /\ x2["a"] = "unhealthy")
    /\ <>[](part = "health" /\ Health!Back("a"))
           => []<>(part = "health" /\ x2["a"] = "healthy")

(* OAuthRefresh: a token used from the cache is still accepted. *)
CachedTokenLives == [][part = "token" => Tokens(Token)!TakesLiveToken]_vars

(* SignIn: a client holds tokens only of accounts whose owner has signed   *)
(* in on it, with two clients and a repeated callback, and with two        *)
(* addresses and callbacks at once; an identity keeps the account it first *)
(* got.                                                                    *)
AccountsAreOwn ==
    /\ part = "people" => Signing(People)!TokenIsOwn /\ Signing(People)!OneAccountPerIdentity
    /\ part = "addresses" =>
          Signing(Addresses)!TokenIsOwn /\ Signing(Addresses)!OneAccountPerIdentity
    /\ part = "signin" => Signing(Person)!TokenIsOwn

(* SignIn: a sign-in that has begun ends. AnswerDelivery: so does every     *)
(* request with a timeout, its goroutines and its upstream connection, and *)
(* RelayGateway: a request to the relay gateway.                           *)
SigningIn == part = "signin" /\ Signing(Person)!SigningIn("c1")
Answering == part = "answer" /\ Delivery(Answer)!HasTimeout /\ ~ Delivery(Answer)!Ended
Relaying == part = "relay" /\ Gateway(Relay)!Inside("r1")
Working == SigningIn \/ Answering \/ Relaying
WorkEnds == Working ~> ~Working

(* StreamConversion: an Anthropic client gets a well-formed message, and    *)
(* streaming or not, a client gets the same answer.                        *)
StreamFaithful ==
    part = "stream" => Stream!AnthropicWellFormed /\ Stream!StreamAgreesWithBody

(* Routing: every strategy keeps each of a request's candidates, once, and *)
(* over a run of plans the channels lead as the strategy says, with two    *)
(* requests at once and across changes of the configuration; a sensitive   *)
(* request's plan has the user's own channels only.                        *)
PlansFollowStrategy ==
    /\ part = "racing" => Racing!EachCandidateOnce /\ Racing!LeadsFollowStrategy
    /\ part = "planning" => /\ Planning!EachCandidateOnce
                            /\ Planning!SensitiveStaysLocal
                            /\ Planning!LeadsFollowStrategy

(* RelayLimiter: lazy, forgetting buckets decide like buckets that are     *)
(* always there: the limiter's steps are steps of TokenBucket.             *)
IsTokenBucket == [][part = "limiter" => Limiter(Limits)!IdealStep]_vars

(* Mitm: traffic does not stay pointed at a proxy that is not there.       *)
Unserved == part = "mitm" /\ Intercept!Unserved
TrafficServed == Unserved ~> ~Unserved

(* ChatBody: whoever is sent a chat request reads what its client said and *)
(* the tools it offers, governed, whatever the dialects in between.        *)
ChatIsFaithful ==
    part = "chat" => Chat!ConversationKept /\ Chat!GovernedBeforeSent /\ Chat!ToolsKept

(* PlatformDatabase: a server of the newest release that serves finds its  *)
(* whole schema, whatever releases, crashes and backups came before.       *)
SchemaReady == part = "database" => Db(Database)!SchemaReady

(* PlatformDirectory: rows, keys and models are what the requests, one      *)
(* after the other, made of them; a deleted row does not come back; no     *)
(* handler reads a row of another user.                                    *)
DirectoryAsAsked ==
    part = "directory" =>
        Dir(Directory)!RowsAsAsked /\ Dir(Directory)!DeletedStaysDeleted /\ Dir(Directory)!OwnRowsOnly

(* AnswerDelivery: through every translator and converter the client gets  *)
(* the upstream's text in order and whole, and the request is logged and   *)
(* charged once, with the counts its client was shown.                     *)
AnswerIsWhole == part = "answer" => Delivery(Answer)!AnswerIsWhole

(* Combos, LocalFiles: names and steps stay different, a combo found by a  *)
(* model has it and a listed skill its directory, through edits, commands, *)
(* installations, migration; a sync that succeeds has copied everything. A *)
(* restart brings back combos, templates and settings; servers, presets,   *)
(* skills and all but the newest logs, if they were written whole.         *)
ListsSound ==
    /\ [](/\ part = "combos" => UserCombos!CombosSound /\ UserCombos!SyncCovers
          /\ part = "lists" => Listed!LocalFilesSound
          /\ part = "skills" => Skilled!LocalFilesSound
          /\ part = "logs" => Logged!LocalFilesSound)
    /\ [][/\ part = "combos" => UserCombos!KeepsCombos
          /\ part = "lists" => Listed!KeepsFiles
          /\ part = "skills" => Skilled!KeepsFiles
          /\ part = "logs" => Logged!KeepsFiles]_vars

(* InterceptRules: what is intercepted, and with which key, follows the    *)
(* user's edits, the targets and the access token, across restarts.        *)
InterceptsFollow ==
    /\ part = "rules" => Intercepting(Ruled)!InterceptSound
    /\ part = "intercepts" => Intercepting(Carried)!InterceptSound

(* RelayGateway: the gauge, the counters and the traces tell what the      *)
(* upstreams were asked and answered, across panics and restarts; requests *)
(* go where their model is; what was saved is what the next start finds.   *)
RelayAccounts == part = "relay" => Gateway(Relay)!RelayAccounts

-----------------------------------------------------------------------------
ASSUME ConstantsHold ==
    /\ Logging(Usage)!ConstantsOK /\ Configuring(Config)!ConstantsOK /\ Health!ConstantsOK
    /\ Tokens(Token)!ConstantsOK
    /\ Signing(People)!ConstantsOK /\ Signing(Addresses)!ConstantsOK /\ Signing(Person)!ConstantsOK
    /\ Racing!ConstantsOK /\ Planning!ConstantsOK /\ Limiter(Limits)!ConstantsOK /\ Intercept!ConstantsOK
    /\ Db(Database)!ConstantsOK /\ Chat!ConstantsOK /\ Dir(Directory)!ConstantsOK
    /\ Delivery(Answer)!ConstantsOK /\ UserCombos!ConstantsOK /\ Gateway(Relay)!ConstantsOK
    /\ Listed!ConstantsOK /\ Skilled!ConstantsOK /\ Logged!ConstantsOK
    /\ Intercepting(Ruled)!ConstantsOK /\ Intercepting(Carried)!ConstantsOK
=============================================================================
