------------------------------ MODULE Services ------------------------------
(***************************************************************************)
(* Components that share no state, each for whatever its constants are: a  *)
(* record k holds them. MCServices checks them for some such records, and  *)
(* Desktop_proofs and Servers_proofs have what is proved of them for all.  *)
(* Each component's variables are the first of the pool, in the order in   *)
(* which its module declares them.                                         *)
(***************************************************************************)

VARIABLES
    x1, x2, x3, x4, x5, x6, x7, x8, x9, x10, x11, x12, x13, x14, x15, x16, x17, x18, x19, x20

pool ==
    <<x1, x2, x3, x4, x5, x6, x7, x8, x9, x10, x11, x12, x13, x14, x15, x16, x17, x18, x19, x20>>

(* The usage log, for the limits, files and outcomes that k holds.         *)
Logging(k) == INSTANCE UsageLog WITH
    MaxRecords <- k.max, InitialFiles <- k.files, WriteOutcomes <- k.outcomes,
    LastMonth <- k.last, MaxSerial <- k.serials,
    up <- x1, records <- x2, priced <- x3, file <- x4, month <- x5, serial <- x6, whole <- x7,
    recorded <- x8

(* The desktop's channels and keys, for the channels, accounts, commands    *)
(* and faults that k holds.                                                *)
Configuring(k) == INSTANCE ChannelConfig WITH
    Custom <- k.custom, Accounts <- k.accounts, KeyLists <- k.lists, NoKeys <- k.noKeys,
    NoChannel <- k.noChannel, NoAccount <- k.noAccount, Commands <- k.commands,
    InitialFiles <- k.files, Faults <- k.faults,
    up <- x1, channels <- x2, default <- x3, file <- x4, keychain <- x5, account <- x6,
    edit <- x7, pc <- x8, fetched <- x9, intact <- x10

(* OAuth tokens, for the requests, times and lifetimes that k holds.       *)
Tokens(k) == INSTANCE OAuthRefresh WITH
    Requests <- k.requests, Margin <- k.margin, Timeout <- k.timeout, Lifetimes <- k.lifetimes,
    MaxAge <- k.age,
    cache <- x1, grant <- x2, pc <- x3, held <- x4, issued <- x5, waited <- x6

(* Signing in, for the people, callbacks and times that k holds.           *)
Signing(k) == INSTANCE SignIn WITH
    Clients <- k.clients, Callbacks <- k.callbacks, Sessions <- k.sessions,
    Identities <- k.identities, Emails <- k.emails, Passwords <- k.passwords,
    SessionTTL <- k.ttl, LoginTimeout <- k.timeout,
    accounts <- x1, bound <- x2, sessions <- x3, used <- x4, cb <- x5, pc <- x6, mine <- x7,
    token <- x8, keychain <- x9, proven <- x10, granted <- x11

(* The relay's limiter, for the keys, requests and rate that k holds.      *)
Limiter(k) == INSTANCE RelayLimiter WITH
    Keys <- k.keys, KeysOf <- k.keysOf, Burst <- k.burst, Cost <- k.cost,
    tokens <- x1, idle <- x2, kept <- x3, next <- x4, answer <- x5

(* The platform's database, for the releases and backups that k holds.     *)
Db(k) == INSTANCE PlatformDatabase WITH
    Releases <- k.releases, Backups <- k.backups, MaxRows <- k.rows,
    phase <- x1, release <- x2, main <- x3, db <- x4, dirty <- x5, at <- x6, pending <- x7,
    files <- x8, job <- x9, restored <- x10

(* The platform's tables, for the requests, rows and edits that k holds.   *)
Dir(k) == INSTANCE PlatformDirectory WITH
    Requests <- k.requests, Ids <- k.ids, Parents <- k.parents, ModelIds <- k.models,
    Edits <- k.edits, Lists <- k.lists, MaxBegun <- k.begun,
    table <- x1, rows <- x2, keys <- x3, models <- x4, running <- x5, begun <- x6, used <- x7,
    ideal <- x8, blurred <- x9, gone <- x10

(* The relay gateway, for the requests, channels and bounds that k holds.  *)
Gateway(k) == INSTANCE RelayGateway WITH
    Requests <- k.requests, Asks <- k.asks, Channels <- k.channels, Serves <- k.serves,
    Mappings <- k.mappings, Malformed <- k.malformed, Catalogue <- k.catalogue,
    Environments <- k.environments, Saved <- k.saved, MaxAsked <- k.asked, MaxEvents <- k.events,
    up <- x1, env <- x2, opened <- x3, channel <- x4, disk <- x5, db <- x6, traces <- x7,
    tracing <- x8, request <- x9, inFlight <- x10, counted <- x11, answers <- x12, asked <- x13,
    events <- x14

(* What the desktop's proxy intercepts, for the hosts, targets, calls and  *)
(* bounds that k holds.                                                    *)
Intercepting(k) == INSTANCE InterceptRules WITH
    NormalOf <- k.normal, Vendors <- k.vendors, AllTargets <- k.targets, Offered <- k.offered,
    Edits <- k.calls, Conns <- k.conns, MaxEdits <- k.edits, MaxTokens <- k.tokens,
    MaxRuns <- k.runs,
    runs <- x1, up <- x2, running <- x3, rules <- x4, file <- x5, dynamic <- x6, cache <- x7,
    edit <- x8, edits <- x9, stored <- x10, gateway <- x11, proxy <- x12, reset <- x13,
    conn <- x14, test <- x15, asked <- x16, odd <- x17, fetched <- x18

(* The way of an answer, for the requests and events that k holds.         *)
Delivery(k) == INSTANCE AnswerDelivery WITH
    Asked <- k.asked, MaxEvents <- k.events,
    ask <- x1, sent <- x2, read <- x3, conn <- x4, translator <- x5, converter <- x6,
    handler <- x7, client <- x8, got <- x9, status <- x10, captured <- x11, records <- x12,
    reply <- x13
=============================================================================
