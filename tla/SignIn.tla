------------------------------- MODULE SignIn -------------------------------
(***************************************************************************)
(* Signing in: the desktop application's account service                   *)
(* (internal/auth/service.go, oauth.go, platform.go) and the platform      *)
(* API's (internal/auth/handler.go, oauth.go). A sign-in through an        *)
(* identity provider starts a session at the server, sends the user's      *)
(* browser to the provider, whose callback completes the session, and      *)
(* polls the server for the token.                                         *)
(***************************************************************************)
EXTENDS Naturals, Sequences

CONSTANTS
    Clients,        \* desktop applications
    Callbacks,      \* goroutines of OAuthCallback
    Sessions,       \* session ids: each is used once, with its own state
    Identities,     \* (provider, provider_user_id) pairs
    Emails,         \* addresses, lower case
    Passwords,      \* the addresses whose owners register with a password
    SessionTTL,     \* oauthSessionTTL, in ticks
    LoginTimeout    \* oauthLoginTimeout, in ticks

ConstantsOK == Passwords \subseteq Emails /\ SessionTTL \in Nat /\ LoginTimeout \in Nat

VARIABLES
    accounts,   \* table users: the address of account n, and if it has a password
    bound,      \* table oauth_identities: the account of each identity, 0 if none
    sessions,   \* oauthSessions: of each session in the map, what it holds
    used,       \* sessions created so far, with the client that asked for them
    cb,         \* per callback, where it is and what it has learnt
    pc,         \* per client, where StartOAuthLogin is
    mine,       \* per client, its session, what a poll read and how long it waits
    token,      \* Service.token: the account it is signed in to, 0 if none
    keychain,   \* the account of the token in the system's keychain
    proven,     \* history: per client, accounts whose owner signed in on it
    granted     \* history: per identity, accounts that tokens were issued for

serverVars == <<accounts, bound, sessions, used, cb>>
clientVars == <<pc, mine, token, keychain>>
vars == <<accounts, bound, sessions, used, cb, pc, mine, token, keychain, proven, granted>>

None == "none"

Accounts == 1 .. Len(accounts)

(* The account with an address, as a set: SELECT user_id ... WHERE email. *)
WithEmail(e) == {n \in Accounts : accounts[n].email = e}

NoSession == [client |-> None, status |-> "absent", account |-> 0, age |-> 0]
Idle == [at |-> "idle", state |-> None, session |-> None, identity |-> None, email |-> None, account |-> 0]
Nothing == [session |-> None, read |-> 0, waited |-> 0]

-----------------------------------------------------------------------------
Init ==
    /\ accounts = <<>>
    /\ bound = [i \in Identities |-> 0]
    /\ sessions = [s \in Sessions |-> NoSession]
    /\ used = {}
    /\ cb = [k \in Callbacks |-> Idle]
    /\ pc = [c \in Clients |-> "idle"]
    /\ mine = [c \in Clients |-> Nothing]
    /\ token = [c \in Clients |-> 0]
    /\ keychain = [c \in Clients |-> 0]
    /\ proven = [c \in Clients |-> {}]
    /\ granted = [i \in Identities |-> {}]

Present(s) == sessions[s].status # "absent"

(* cleanupExpiredOAuthSessions. What a handler still holds stays readable. *)
Cleaned ==
    [s \in Sessions |-> IF Present(s) /\ sessions[s].age > SessionTTL
                        THEN [sessions[s] EXCEPT !.status = "absent"] ELSE sessions[s]]

Goto(c, l) == pc' = [pc EXCEPT ![c] = l]

(* The sign-in returns, with or without an error: oauthRunning is false. *)
Ends(c) ==
    /\ Goto(c, "idle")
    /\ mine' = [mine EXCEPT ![c] = Nothing]

-----------------------------------------------------------------------------
(* StartOAuthLogin, one at a time. *)
StartOAuthLogin(c) ==
    /\ pc[c] = "idle"
    /\ Goto(c, "authorize")
    /\ UNCHANGED <<accounts, bound, sessions, used, cb, mine, token, keychain, proven, granted>>

(* AuthorizeOAuth: a new session, and the client opens its address. *)
AuthorizeOAuth(c) ==
    /\ pc[c] = "authorize"
    /\ Sessions \ used # {}
    /\ LET s == CHOOSE t \in Sessions \ used : TRUE
       IN /\ used' = used \cup {s}
          /\ sessions' = [Cleaned EXCEPT ![s] = [NoSession EXCEPT !.client = c,
                                                                 !.status = "pending"]]
          /\ mine' = [mine EXCEPT ![c] = [Nothing EXCEPT !.session = s]]
    /\ Goto(c, "poll")
    /\ UNCHANGED <<accounts, bound, cb, token, keychain, proven, granted>>

(* A request of the client fails, or no browser can be opened. *)
LoginFails(c) ==
    /\ pc[c] \in {"authorize", "poll", "read"}
    /\ Ends(c)
    /\ UNCHANGED <<serverVars, token, keychain, proven, granted>>

(* Mutant of Poll: only a completed session ends the polling. *)
PollUntilCompleted(c) ==
    /\ pc[c] = "poll"
    /\ sessions' = Cleaned
    /\ IF sessions'[mine[c].session].status = "completed"
       THEN Goto(c, "read") /\ UNCHANGED mine
       ELSE Goto(c, "sleep") /\ UNCHANGED mine
    /\ UNCHANGED <<accounts, bound, used, cb, token, keychain, proven, granted>>

(* PollOAuth and what pollOAuthToken makes of its answer. The handler      *)
(* reads the session's fields after it has given the lock back.            *)
Poll(c) ==
    /\ pc[c] = "poll"
    /\ sessions' = Cleaned
    /\ CASE sessions'[mine[c].session].status = "completed" -> Goto(c, "read") /\ UNCHANGED mine
         [] sessions'[mine[c].session].status \in {"absent", "failed"} -> Ends(c)
         [] OTHER -> IF mine[c].waited > LoginTimeout THEN Ends(c)
                     ELSE Goto(c, "sleep") /\ UNCHANGED mine
    /\ UNCHANGED <<accounts, bound, used, cb, token, keychain, proven, granted>>

Wake(c) ==
    /\ pc[c] = "sleep"
    /\ Goto(c, "poll")
    /\ UNCHANGED <<serverVars, mine, token, keychain, proven, granted>>

(* The handler reads the token, which completeOAuthSession may not have    *)
(* written yet, after the status; the client takes no empty token.         *)
ReadToken(c) ==
    /\ pc[c] = "read"
    /\ LET account == sessions[mine[c].session].account
       IN \/ account # 0 /\ Goto(c, "signin") /\ mine' = [mine EXCEPT ![c].read = account]
          \/ account = 0 /\ Ends(c)
    /\ UNCHANGED <<serverVars, token, keychain, proven, granted>>

(* The token is set under the lock ... *)
SetToken(c) ==
    /\ pc[c] = "signin"
    /\ token' = [token EXCEPT ![c] = mine[c].read]
    /\ Goto(c, "save")
    /\ UNCHANGED <<serverVars, mine, keychain, proven, granted>>

(* ... and written to the keychain after it; a failed write is ignored. *)
SaveToken(c) ==
    /\ pc[c] = "save"
    /\ \E written \in BOOLEAN :
          keychain' = IF written THEN [keychain EXCEPT ![c] = mine[c].read] ELSE keychain
    /\ Ends(c)
    /\ UNCHANGED <<serverVars, token, proven, granted>>

-----------------------------------------------------------------------------
(* Login and Register with a password: the answer's token is set and       *)
(* written under the lock. Register refuses a known address. An account    *)
(* that a callback has created has a password nobody knows.                *)
SignedIn(c, n) ==
    /\ token' = [token EXCEPT ![c] = n]
    /\ \E written \in BOOLEAN :
          keychain' = IF written THEN [keychain EXCEPT ![c] = n] ELSE keychain
    /\ proven' = [proven EXCEPT ![c] = @ \cup {n}]

Login(c) ==
    /\ \E n \in Accounts : accounts[n].password /\ SignedIn(c, n)
    /\ UNCHANGED <<serverVars, pc, mine, granted>>

Register(c) ==
    /\ \E e \in Passwords : /\ WithEmail(e) = {}
                            /\ accounts' = Append(accounts, [email |-> e, password |-> TRUE])
    /\ SignedIn(c, Len(accounts'))
    /\ UNCHANGED <<bound, sessions, used, cb, pc, mine, granted>>

Logout(c) ==
    /\ token[c] # 0 \/ keychain[c] # 0
    /\ token' = [token EXCEPT ![c] = 0]
    /\ keychain' = [keychain EXCEPT ![c] = 0]
    /\ UNCHANGED <<serverVars, pc, mine, proven, granted>>

(* The application ends and starts: NewService reads the keychain. *)
RestartClient(c) ==
    /\ pc[c] # "idle" \/ token[c] # keychain[c]
    /\ Ends(c)
    /\ token' = [token EXCEPT ![c] = keychain[c]]
    /\ UNCHANGED <<serverVars, keychain, proven, granted>>

-----------------------------------------------------------------------------
(* Mutant of ByState: any session that waits for its user will do. *)
AnyPending(s) == {p \in Sessions : sessions[p].status = "pending"}

(* findOAuthSessionByState: each session has its own state. Its age does   *)
(* not matter, a cleanup removes it.                                       *)
ByState(s) == {p \in {s} : Present(p)}

(* Callback k, which is at l, goes to m; what else a step may change. *)
Step(k, l, m) ==
    /\ cb[k].at = l
    /\ cb' = [cb EXCEPT ![k].at = m]
    /\ UNCHANGED <<used, clientVars>>

Returns(k, l) ==
    /\ cb[k].at = l
    /\ cb' = [cb EXCEPT ![k] = Idle]
    /\ UNCHANGED <<used, clientVars>>

(* OAuthCallback: a user has been at the provider with the address of a    *)
(* session. With a code it learns who they are, without one it fails.      *)
OAuthCallback(k) ==
    /\ cb[k].at = "idle"
    /\ \E s \in used, i \in Identities, e \in Emails, to \in {"identity", "fail"} :
          \E found \in ByState(s) :
             cb' = [cb EXCEPT ![k] = [at |-> to, state |-> s, session |-> found,
                                      identity |-> i, email |-> e, account |-> 0]]
    /\ UNCHANGED <<accounts, bound, sessions, used, clientVars, proven, granted>>

(* findOrCreateUserByIdentity, one statement after the other: the account  *)
(* the identity is bound to, ...                                           *)
FindIdentity(k) ==
    /\ cb[k].at = "identity"
    /\ LET n == bound[cb[k].identity]
       IN cb' = [cb EXCEPT ![k].at = IF n = 0 THEN "email" ELSE "complete", ![k].account = n]
    /\ UNCHANGED <<accounts, bound, sessions, used, clientVars, proven, granted>>

(* ... or the one with the address, to be bound, ... *)
FindEmail(k) ==
    /\ cb[k].at = "email"
    /\ \/ WithEmail(cb[k].email) = {} /\ cb' = [cb EXCEPT ![k].at = "insert"]
       \/ \E n \in WithEmail(cb[k].email) :
             cb' = [cb EXCEPT ![k].at = "bind", ![k].account = n]
    /\ UNCHANGED <<accounts, bound, sessions, used, clientVars, proven, granted>>

(* ... or a new one, if no other request has taken the address by now, ... *)
InsertUser(k) ==
    /\ cb[k].at = "insert"
    /\ IF WithEmail(cb[k].email) = {}
       THEN /\ accounts' = Append(accounts, [email |-> cb[k].email, password |-> FALSE])
            /\ cb' = [cb EXCEPT ![k].at = "bind", ![k].account = Len(accounts')]
       ELSE cb' = [cb EXCEPT ![k].at = "fail"] /\ UNCHANGED accounts
    /\ UNCHANGED <<bound, sessions, used, clientVars, proven, granted>>

(* ... which the identity is bound to, if it is not bound by now. *)
InsertIdentity(k) ==
    /\ cb[k].at = "bind"
    /\ IF bound[cb[k].identity] = 0
       THEN /\ Step(k, "bind", "complete")
            /\ bound' = [bound EXCEPT ![cb[k].identity] = cb[k].account]
       ELSE Step(k, "bind", "fail") /\ UNCHANGED bound
    /\ UNCHANGED <<accounts, sessions, proven, granted>>

(* completeOAuthSession, whose assignments PollOAuth may read between; the *)
(* token is for the account of the user who was sent to the provider.      *)
Complete(k) ==
    /\ Step(k, "complete", "token")
    /\ sessions' = IF Present(cb[k].session)
                   THEN [sessions EXCEPT ![cb[k].session].status = "completed"] ELSE sessions
    /\ proven' = [proven EXCEPT ![sessions[cb[k].state].client] = @ \cup {cb[k].account}]
    /\ granted' = [granted EXCEPT ![cb[k].identity] = @ \cup {cb[k].account}]
    /\ UNCHANGED <<accounts, bound>>

CompleteToken(k) ==
    /\ Returns(k, "token")
    /\ sessions' = IF Present(cb[k].session)
                   THEN [sessions EXCEPT ![cb[k].session].account = cb[k].account]
                   ELSE sessions
    /\ UNCHANGED <<accounts, bound, proven, granted>>

(* failOAuthSession, whatever has become of the session before. *)
Fail(k) ==
    /\ Returns(k, "fail")
    /\ sessions' = IF Present(cb[k].session)
                   THEN [sessions EXCEPT ![cb[k].session].status = "failed"] ELSE sessions
    /\ UNCHANGED <<accounts, bound, proven, granted>>

(* The server crashes and restarts: the sessions were in memory only. *)
ServerRestarts ==
    /\ sessions' = [s \in Sessions |-> [sessions[s] EXCEPT !.status = "absent"]]
    /\ cb' = [k \in Callbacks |-> Idle]
    /\ UNCHANGED <<accounts, bound, used, clientVars, proven, granted>>

Older(n, limit) == IF n > limit THEN n ELSE n + 1

Waiting(c) == mine[c].session # None

(* Time passes. *)
Tick ==
    /\ sessions' = [s \in Sessions |->
          IF Present(s) THEN [sessions[s] EXCEPT !.age = Older(@, SessionTTL)] ELSE sessions[s]]
    /\ mine' = [c \in Clients |->
          IF Waiting(c) THEN [mine[c] EXCEPT !.waited = Older(@, LoginTimeout)] ELSE mine[c]]
    /\ UNCHANGED <<accounts, bound, used, cb, pc, token, keychain, proven, granted>>

-----------------------------------------------------------------------------
ClientStep(c) ==
    AuthorizeOAuth(c) \/ LoginFails(c) \/ Poll(c) \/ Wake(c) \/ ReadToken(c) \/ SetToken(c)
        \/ SaveToken(c)

CallbackStep(k) ==
    FindIdentity(k) \/ FindEmail(k) \/ InsertUser(k) \/ InsertIdentity(k) \/ Complete(k)
        \/ CompleteToken(k) \/ Fail(k)

Next ==
    \/ \E c \in Clients : \/ StartOAuthLogin(c) \/ ClientStep(c) \/ Login(c) \/ Register(c)
                          \/ Logout(c) \/ RestartClient(c)
    \/ \E k \in Callbacks : OAuthCallback(k) \/ CallbackStep(k)
    \/ ServerRestarts \/ Tick

(* The goroutine of a sign-in runs, its requests are answered or fail, and *)
(* time passes.                                                            *)
Fairness == WF_vars(Tick) /\ \A c \in Clients : WF_vars(ClientStep(c))

Spec == Init /\ [][Next]_vars /\ Fairness

-----------------------------------------------------------------------------
Session == [client : Clients \cup {None}, status : {"absent", "pending", "completed", "failed"},
            account : 0 .. Len(accounts), age : 0 .. SessionTTL + 1]

Statements == {"idle", "identity", "email", "insert", "bind", "complete", "token", "fail"}

Callback == [at : Statements, state : Sessions \cup {None}, session : Sessions \cup {None},
             identity : Identities \cup {None}, email : Emails \cup {None},
             account : 0 .. Len(accounts)]

Attempt == [session : Sessions \cup {None}, read : 0 .. Len(accounts),
            waited : 0 .. LoginTimeout + 1]

TypeOK ==
    /\ accounts \in Seq([email : Emails, password : BOOLEAN])
    /\ bound \in [Identities -> 0 .. Len(accounts)]
    /\ sessions \in [Sessions -> Session]
    /\ used \subseteq Sessions
    /\ cb \in [Callbacks -> Callback]
    /\ pc \in [Clients -> {"idle", "authorize", "poll", "sleep", "read", "signin", "save"}]
    /\ mine \in [Clients -> Attempt]
    /\ token \in [Clients -> 0 .. Len(accounts)]
    /\ keychain \in [Clients -> 0 .. Len(accounts)]
    /\ proven \in [Clients -> SUBSET Accounts]
    /\ granted \in [Identities -> SUBSET Accounts]

(* A client is signed in only to accounts whose owner has signed in on it, *)
(* by a password or at the provider with the address of one of its         *)
(* sessions: callbacks of other sessions, late or repeated ones, expired   *)
(* sessions and restarts of either side never hand it another's token.     *)
TokenIsOwn ==
    \A c \in Clients : {token[c], keychain[c]} \subseteq proven[c] \cup {0}

(* Everyone who signs in with an identity gets the account it first got,   *)
(* whether its address changes at the provider, callbacks of the identity  *)
(* run at once, or the server crashes between the insertion of a user and  *)
(* that of the identity.                                                   *)
OneAccountPerIdentity ==
    \A i \in Identities : \A m, n \in granted[i] : m = n

(* What keeps tokens with their owners: a session stays with the client    *)
(* that asked for it and gets an account only after its owner was proven   *)
(* there, ...                                                              *)
SessionsOwned ==
    /\ \A s \in Sessions \ used : sessions[s] = NoSession
    /\ \A s \in used : /\ sessions[s].client \in Clients
                       /\ sessions[s].account \in proven[sessions[s].client] \cup {0}

(* ... a client polls for a session of its own, ... *)
PollsOwn ==
    \A c \in Clients :
        /\ pc[c] \in {"poll", "sleep", "read"} =>
              mine[c].session \in used /\ sessions[mine[c].session].client = c
        /\ pc[c] \in {"signin", "save"} => mine[c].read \in proven[c]

(* ... a callback completes the session whose address its user was at, ... *)
CallbacksOwn ==
    \A k \in Callbacks : cb[k].at # "idle" =>
        /\ cb[k].state \in used /\ cb[k].session = cb[k].state
        /\ cb[k].identity \in Identities /\ cb[k].email \in Emails
        /\ cb[k].at = "token" => cb[k].account \in proven[sessions[cb[k].state].client]

(* ... and an identity is bound once, before a token is issued for it. *)
IdentitiesBound ==
    /\ \A i \in Identities : granted[i] \subseteq {bound[i]} \ {0}
    /\ \A k \in Callbacks :
          /\ cb[k].at = "bind" => cb[k].account # 0
          /\ cb[k].at \in {"complete", "token"} =>
                cb[k].account = bound[cb[k].identity] /\ cb[k].account # 0

AccountInv == SessionsOwned /\ PollsOwn /\ CallbacksOwn /\ IdentitiesBound /\ TokenIsOwn

(* A sign-in ends, with a token or an error, though the user may never     *)
(* come back from the provider: oauthRunning does not stay set.            *)
SigningIn(c) == pc[c] # "idle"
LoginEnds == \A c \in Clients : SigningIn(c) ~> ~SigningIn(c)
=============================================================================
