--------------------------- MODULE Desktop_proofs ---------------------------
(***************************************************************************)
(* What the desktop's parts of Services keep, for whatever their constants *)
(* are: cached tokens live, OAuthRefresh; tokens stay with their owners,   *)
(* SignIn; the month's cost counts each request once, UsageLog; channels   *)
(* and keys survive a restart, ChannelConfig, over lemmas on Sublists; an  *)
(* answer reaches its client whole, AnswerDelivery; and what is            *)
(* intercepted is what the user asked for, InterceptRules.                 *)
(***************************************************************************)
EXTENDS Services, Sublists, Integers, Sequences, SequenceTheorems, FiniteSetTheorems,
        WellFoundedInduction, TLAPS

-----------------------------------------------------------------------------
\* OAuth tokens, for any requests, lifetimes and margin above the timeout of
\* an exchange. What the clients believe of a token's end and what the
\* endpoint holds of it differ by the time its exchange took. Of the pool
\* x1 .. x6 are cache, grant, pc, held, issued and waited.

\* A token grows older without the difference growing.
LEMMA AgedClose ==
    ASSUME NEW k, Tokens(k)!ConstantsOK, NEW t \in Tokens(k)!Token, NEW d \in Nat,
           t.left >= t.believed - d
    PROVE  /\ Tokens(k)!Aged(t) \in Tokens(k)!Token
           /\ Tokens(k)!Aged(t).left >= Tokens(k)!Aged(t).believed - d
BY DEF Tokens!ConstantsOK, Tokens!Token, Tokens!Aged, Tokens!Older

\* On its way it may grow by one, in one unit of time.
LEMMA AgedOnTheWayClose ==
    ASSUME NEW k, Tokens(k)!ConstantsOK, NEW t \in Tokens(k)!Token, NEW d \in Nat,
           t.left >= t.believed - d
    PROVE  /\ Tokens(k)!AgedOnTheWay(t) \in Tokens(k)!Token
           /\ Tokens(k)!AgedOnTheWay(t).left >= Tokens(k)!AgedOnTheWay(t).believed - (d + 1)
<1>1. Tokens(k)!AgedOnTheWay(t) = [left |-> Tokens(k)!Older(t.left), believed |-> t.believed]
  BY DEF Tokens!Token, Tokens!AgedOnTheWay
<1> QED
  BY <1>1 DEF Tokens!ConstantsOK, Tokens!Token, Tokens!Older

\* A token a moment later.
LEMMA AgedIsToken ==
    ASSUME NEW k, Tokens(k)!ConstantsOK, NEW t \in Tokens(k)!Token
    PROVE  Tokens(k)!Aged(t) \in Tokens(k)!Token
BY DEF Tokens!ConstantsOK, Tokens!Token, Tokens!Aged, Tokens!Older

\* Nobody holds a token at the start.
LEMMA TokensStart ==
    ASSUME NEW k, Tokens(k)!ConstantsOK, Tokens(k)!Init
    PROVE  Tokens(k)!BeliefInv
BY DEF Tokens!ConstantsOK, Tokens!Init, Tokens!BeliefInv, Tokens!TypeOK, Tokens!Labels,
   Tokens!CacheClose, Tokens!IssuedClose

\* No step believes a token to live longer than the margin allows for.
LEMMA TokensStep ==
    ASSUME NEW k, Tokens(k)!ConstantsOK, Tokens(k)!BeliefInv, [Tokens(k)!Next]_(Tokens(k)!vars)
    PROVE  Tokens(k)!BeliefInv'
<1> USE DEF Tokens!BeliefInv, Tokens!Labels
<1>1. ASSUME NEW r \in k.requests, Tokens(k)!UseCached(r) PROVE Tokens(k)!BeliefInv'
  BY <1>1 DEF Tokens!UseCached, Tokens!Goto, Tokens!TypeOK, Tokens!CacheClose, Tokens!IssuedClose
<1>2. ASSUME NEW r \in k.requests, Tokens(k)!Refresh(r) PROVE Tokens(k)!BeliefInv'
  BY <1>2 DEF Tokens!Refresh, Tokens!Goto, Tokens!TypeOK, Tokens!CacheClose, Tokens!IssuedClose
<1>3. ASSUME NEW r \in k.requests, Tokens(k)!Issue(r) PROVE Tokens(k)!BeliefInv'
  <2>1. PICK life \in k.lifetimes :
            x5' = [x5 EXCEPT ![r] = {[left |-> life, believed |-> life]}]
    BY <1>3 DEF Tokens!Issue
  <2>2. [left |-> life, believed |-> life] \in Tokens(k)!Token /\ life \in Int
    BY DEF Tokens!ConstantsOK, Tokens!Token
  <2>3. Tokens(k)!TypeOK'
    BY <1>3, <2>1, <2>2 DEF Tokens!Issue, Tokens!Goto, Tokens!TypeOK
  <2>4. Tokens(k)!CacheClose'
    BY <1>3 DEF Tokens!Issue, Tokens!CacheClose
  <2>5. Tokens(k)!IssuedClose'
    BY <1>3, <2>1, <2>2 DEF Tokens!Issue, Tokens!Goto, Tokens!TypeOK, Tokens!IssuedClose
  <2> QED
    BY <2>3, <2>4, <2>5
<1>4. ASSUME NEW r \in k.requests, Tokens(k)!Store(r) PROVE Tokens(k)!BeliefInv'
  <2>1. Tokens(k)!TypeOK'
    BY <1>4 DEF Tokens!ConstantsOK, Tokens!Store, Tokens!Goto, Tokens!TypeOK
  <2>2. Tokens(k)!CacheClose'
    <3> SUFFICES ASSUME NEW t \in x5[r] PROVE t.left >= t.believed - k.timeout
      BY <1>4 DEF Tokens!Store, Tokens!CacheClose
    <3>1. t \in Tokens(k)!Token /\ x6[r] \in 0 .. k.timeout /\ t.left >= t.believed - x6[r]
      BY DEF Tokens!TypeOK, Tokens!IssuedClose
    <3> QED
      BY <3>1 DEF Tokens!ConstantsOK, Tokens!Token
  <2>3. Tokens(k)!IssuedClose'
    BY <1>4 DEF Tokens!Store, Tokens!Goto, Tokens!TypeOK, Tokens!IssuedClose
  <2> QED
    BY <2>1, <2>2, <2>3
<1>5. ASSUME NEW r \in k.requests, Tokens(k)!RefreshFails(r) PROVE Tokens(k)!BeliefInv'
  BY <1>5 DEF Tokens!ConstantsOK, Tokens!RefreshFails, Tokens!Goto, Tokens!TypeOK,
     Tokens!CacheClose, Tokens!IssuedClose
<1>6. ASSUME NEW r \in k.requests, Tokens(k)!Done(r) PROVE Tokens(k)!BeliefInv'
  BY <1>6 DEF Tokens!Done, Tokens!Goto, Tokens!TypeOK, Tokens!CacheClose, Tokens!IssuedClose
<1>7. CASE Tokens(k)!Tick
  <2>1. Tokens(k)!CacheClose' /\ x1' \subseteq Tokens(k)!Token
    <3> SUFFICES ASSUME NEW t \in x1
                 PROVE  /\ Tokens(k)!Aged(t) \in Tokens(k)!Token
                        /\ Tokens(k)!Aged(t).left >= Tokens(k)!Aged(t).believed - k.timeout
      BY <1>7 DEF Tokens!Tick, Tokens!CacheClose
    <3> QED
      BY AgedClose DEF Tokens!ConstantsOK, Tokens!TypeOK, Tokens!CacheClose
  <2>2. ASSUME NEW r \in k.requests, NEW t \in x5[r]
        PROVE  /\ Tokens(k)!AgedOnTheWay(t) \in Tokens(k)!Token
               /\ Tokens(k)!AgedOnTheWay(t).left >= Tokens(k)!AgedOnTheWay(t).believed - (x6[r] + 1)
    <3>1. t \in Tokens(k)!Token /\ x6[r] \in Nat /\ t.left >= t.believed - x6[r]
      BY DEF Tokens!TypeOK, Tokens!IssuedClose
    <3> QED
      BY <3>1, AgedOnTheWayClose
  <2>3. ASSUME NEW r \in k.requests, Tokens(k)!InExchange(r)
        PROVE  x6'[r] = x6[r] + 1 /\ x6'[r] \in 0 .. k.timeout
    BY <1>7, <2>3 DEF Tokens!ConstantsOK, Tokens!Tick, Tokens!TypeOK
  <2>4. ASSUME NEW r \in k.requests, ~Tokens(k)!InExchange(r)
        PROVE  x6'[r] = 0 /\ x6'[r] \in 0 .. k.timeout
    BY <1>7, <2>4 DEF Tokens!ConstantsOK, Tokens!Tick
  <2>5. x6' \in [k.requests -> 0 .. k.timeout]
    BY <1>7, <2>3, <2>4 DEF Tokens!Tick
  <2>6. x4' \in [k.requests -> SUBSET Tokens(k)!Token]
    BY <1>7, AgedIsToken DEF Tokens!Tick, Tokens!TypeOK
  <2>7. x5' \in [k.requests -> SUBSET Tokens(k)!Token]
    BY <1>7, <2>2 DEF Tokens!Tick
  <2>8. Tokens(k)!IssuedClose'
    <3> SUFFICES ASSUME NEW r \in k.requests
                 PROVE  /\ x3'[r] # "issued" => x5'[r] = {}
                        /\ \A t \in x5'[r] : t.left >= t.believed - x6'[r]
      BY DEF Tokens!IssuedClose
    <3>1. x5'[r] = {Tokens(k)!AgedOnTheWay(t) : t \in x5[r]} /\ x3' = x3
      BY <1>7 DEF Tokens!Tick
    <3>2. CASE x3[r] = "issued"
      BY <3>1, <3>2, <2>2, <2>3 DEF Tokens!InExchange
    <3>3. CASE x3[r] # "issued"
      BY <3>1, <3>3 DEF Tokens!IssuedClose
    <3> QED
      BY <3>2, <3>3
  <2> QED
    BY <1>7, <2>1, <2>5, <2>6, <2>7, <2>8 DEF Tokens!Tick, Tokens!TypeOK
<1>8. CASE UNCHANGED Tokens(k)!vars
  BY <1>8 DEF Tokens!vars, Tokens!TypeOK, Tokens!CacheClose, Tokens!IssuedClose
<1> QED
  BY <1>1, <1>2, <1>3, <1>4, <1>5, <1>6, <1>7, <1>8 DEF Tokens!Next

\* Every state has its type and keeps the two beliefs close.
THEOREM BeliefsStayClose ==
    ASSUME NEW k, Tokens(k)!ConstantsOK
    PROVE  Tokens(k)!Spec => []Tokens(k)!BeliefInv
<1>1. Tokens(k)!Init => Tokens(k)!BeliefInv
  BY TokensStart
<1>2. Tokens(k)!BeliefInv /\ [Tokens(k)!Next]_(Tokens(k)!vars) => Tokens(k)!BeliefInv'
  BY TokensStep
<1> QED
  BY <1>1, <1>2, PTL DEF Tokens!Spec

\* Only UseCached takes a token from the cache.
LEMMA StepTakesLive ==
    ASSUME NEW k, Tokens(k)!ConstantsOK, Tokens(k)!BeliefInv, [Tokens(k)!Next]_(Tokens(k)!vars)
    PROVE  Tokens(k)!TakesLiveToken
<1> SUFFICES ASSUME NEW r \in k.requests, x3[r] = "idle", x3'[r] = "cached", NEW t \in x4'[r]
             PROVE  t.left > 0
  BY DEF Tokens!TakesLiveToken
<1>1. Tokens(k)!UseCached(r)
  BY DEF Tokens!Next, Tokens!vars, Tokens!UseCached, Tokens!Refresh, Tokens!Issue, Tokens!Store,
     Tokens!RefreshFails, Tokens!Done, Tokens!Tick, Tokens!Goto, Tokens!BeliefInv, Tokens!TypeOK
<1>2. t \in x1 /\ ~Tokens(k)!ShouldRefresh(t)
  BY <1>1 DEF Tokens!UseCached, Tokens!BeliefInv, Tokens!TypeOK
<1> QED
  BY <1>2 DEF Tokens!ConstantsOK, Tokens!ShouldRefresh, Tokens!BeliefInv, Tokens!TypeOK,
     Tokens!CacheClose, Tokens!Token

\* A token that a request takes from the cache without refreshing it is still
\* accepted by the endpoint (EnsureValidToken).
THEOREM TokenLives ==
    ASSUME NEW k, Tokens(k)!ConstantsOK
    PROVE  Tokens(k)!Spec => Tokens(k)!CachedTokenLives
<1>1. Tokens(k)!BeliefInv /\ [Tokens(k)!Next]_(Tokens(k)!vars)
         => [Tokens(k)!TakesLiveToken]_(Tokens(k)!vars)
  BY StepTakesLive
<1> QED
  BY <1>1, BeliefsStayClose, PTL DEF Tokens!Spec, Tokens!CachedTokenLives

-----------------------------------------------------------------------------
\* Signing in, for any clients, callbacks, sessions, identities and addresses:
\* the record k holds them.  Of the pool x1 .. x11 are accounts, bound,
\* sessions, used, cb, pc, mine, token, keychain, proven and granted.

\* One account more.
LEMMA AccountsGrow ==
    ASSUME NEW S, NEW s \in Seq(S), NEW e \in S
    PROVE  /\ Append(s, e) \in Seq(S)
           /\ Len(Append(s, e)) = Len(s) + 1
           /\ Len(s) \in Nat
BY AppendProperties, LenProperties

\* The records that nothing is in, and those of a session that begins.
LEMMA EmptyRecords ==
    ASSUME NEW k, Signing(k)!ConstantsOK, Len(x1) \in Nat
    PROVE  /\ Signing(k)!NoSession \in Signing(k)!Session /\ Signing(k)!NoSession.status = "absent"
           /\ Signing(k)!Idle \in Signing(k)!Callback /\ Signing(k)!Idle.at = "idle"
           /\ Signing(k)!Nothing \in Signing(k)!Attempt
BY DEF Signing!ConstantsOK, Signing!NoSession, Signing!Idle, Signing!Nothing, Signing!Session,
   Signing!Callback, Signing!Attempt, Signing!Statements, Signing!None

\* The records of a session that a client begins, and of that client.
LEMMA BegunRecords ==
    ASSUME NEW k, Signing(k)!ConstantsOK, Len(x1) \in Nat, NEW c \in k.clients, NEW s \in k.sessions
    PROVE  /\ [Signing(k)!NoSession EXCEPT !.client = c, !.status = "pending"] \in Signing(k)!Session
           /\ [Signing(k)!NoSession EXCEPT !.client = c, !.status = "pending"].client = c
           /\ [Signing(k)!NoSession EXCEPT !.client = c, !.status = "pending"].account = 0
           /\ [Signing(k)!Nothing EXCEPT !.session = s] \in Signing(k)!Attempt
           /\ [Signing(k)!Nothing EXCEPT !.session = s].session = s
<1>1. \A r \in Signing(k)!Session :
         /\ [r EXCEPT !.client = c, !.status = "pending"] \in Signing(k)!Session
         /\ [r EXCEPT !.client = c, !.status = "pending"].client = c
         /\ [r EXCEPT !.client = c, !.status = "pending"].account = r.account
  BY DEF Signing!Session
<1>2. \A r \in Signing(k)!Attempt : /\ [r EXCEPT !.session = s] \in Signing(k)!Attempt
                                    /\ [r EXCEPT !.session = s].session = s
  BY DEF Signing!Attempt
<1>3. Signing(k)!NoSession.account = 0
  BY DEF Signing!NoSession
<1> QED
  BY <1>1, <1>2, <1>3, EmptyRecords

\* What becomes of a session, a callback and a sign-in under the assignments.
LEMMA SessionRecords ==
    ASSUME NEW k, NEW r \in Signing(k)!Session,
           NEW st \in {"absent", "pending", "completed", "failed"}, NEW n \in 0 .. Len(x1)
    PROVE  /\ [r EXCEPT !.status = st] \in Signing(k)!Session
           /\ [r EXCEPT !.account = n] \in Signing(k)!Session
BY DEF Signing!Session

\* A session a moment later.
LEMMA AgedSession ==
    ASSUME NEW k, Signing(k)!ConstantsOK, NEW r \in Signing(k)!Session
    PROVE  /\ [r EXCEPT !.age = Signing(k)!Older(@, k.ttl)] \in Signing(k)!Session
           /\ [r EXCEPT !.age = Signing(k)!Older(@, k.ttl)].client = r.client
           /\ [r EXCEPT !.age = Signing(k)!Older(@, k.ttl)].account = r.account
<1>1. r.age \in 0 .. k.ttl + 1
  BY DEF Signing!Session
<1>2. Signing(k)!Older(r.age, k.ttl) \in 0 .. k.ttl + 1
  BY <1>1 DEF Signing!ConstantsOK, Signing!Older
<1>3. \A a \in 0 .. k.ttl + 1 : /\ [r EXCEPT !.age = a] \in Signing(k)!Session
                                /\ [r EXCEPT !.age = a].client = r.client
                                /\ [r EXCEPT !.age = a].account = r.account
  BY DEF Signing!Session
<1> QED
  BY <1>2, <1>3

\* A client's attempt a moment later.
LEMMA AgedAttempt ==
    ASSUME NEW k, Signing(k)!ConstantsOK, NEW r \in Signing(k)!Attempt
    PROVE  /\ [r EXCEPT !.waited = Signing(k)!Older(@, k.timeout)] \in Signing(k)!Attempt
           /\ [r EXCEPT !.waited = Signing(k)!Older(@, k.timeout)].session = r.session
           /\ [r EXCEPT !.waited = Signing(k)!Older(@, k.timeout)].read = r.read
<1>1. r.waited \in 0 .. k.timeout + 1
  BY DEF Signing!Attempt
<1>2. Signing(k)!Older(r.waited, k.timeout) \in 0 .. k.timeout + 1
  BY <1>1 DEF Signing!ConstantsOK, Signing!Older
<1>3. \A a \in 0 .. k.timeout + 1 : /\ [r EXCEPT !.waited = a] \in Signing(k)!Attempt
                                    /\ [r EXCEPT !.waited = a].session = r.session
                                    /\ [r EXCEPT !.waited = a].read = r.read
  BY DEF Signing!Attempt
<1> QED
  BY <1>2, <1>3

\* A callback that goes on.
LEMMA CallbackRecords ==
    ASSUME NEW k, NEW r \in Signing(k)!Callback, NEW m \in Signing(k)!Statements,
           NEW n \in 0 .. Len(x1)
    PROVE  /\ [r EXCEPT !.at = m] \in Signing(k)!Callback
           /\ [r EXCEPT !.at = m, !.account = n] \in Signing(k)!Callback
BY DEF Signing!Callback

\* A client that has read an account.
LEMMA AttemptRecords ==
    ASSUME NEW k, NEW r \in Signing(k)!Attempt, NEW n \in 0 .. Len(x1)
    PROVE  /\ [r EXCEPT !.read = n] \in Signing(k)!Attempt
           /\ [r EXCEPT !.read = n].read = n
BY DEF Signing!Attempt

\* An account more, and what was well typed is.
LEMMA TypesGrow ==
    ASSUME NEW k, Len(x1) \in Nat, Len(x1)' \in Nat, Len(x1) <= Len(x1)'
    PROVE  /\ Signing(k)!Session \subseteq Signing(k)!Session'
           /\ Signing(k)!Callback \subseteq Signing(k)!Callback'
           /\ Signing(k)!Attempt \subseteq Signing(k)!Attempt'
           /\ 0 .. Len(x1) \subseteq 0 .. Len(x1)'
           /\ Signing(k)!Accounts \subseteq Signing(k)!Accounts'
BY DEF Signing!Session, Signing!Callback, Signing!Attempt, Signing!Accounts, Signing!None,
       Signing!Statements

\* Steps that leave alone what the ownership of accounts rests on.
ProvenStay(k) == \A c \in k.clients : x10[c] \subseteq x10'[c]
AskersStay(k) == x4 \subseteq x4' /\ \A s \in x4 : x3'[s].client = x3[s].client
SessionsStay(k) ==
    /\ x4' = x4
    /\ \A s \in k.sessions \ x4 : x3'[s] = x3[s]
    /\ \A s \in x4 : x3'[s].client = x3[s].client /\ x3'[s].account = x3[s].account

\* What stays of the sessions, and of each of the following invariants, when only
\* new owners are proven.
LEMMA SessionsFrame ==
    ASSUME NEW k, Signing(k)!SessionsOwned, ProvenStay(k), SessionsStay(k)
    PROVE  AskersStay(k) /\ Signing(k)!SessionsOwned'
BY DEF ProvenStay, SessionsStay, AskersStay, Signing!SessionsOwned, Signing!NoSession, Signing!None

\* No client moves.
LEMMA PollsFrame ==
    ASSUME NEW k, Signing(k)!PollsOwn, ProvenStay(k), AskersStay(k), UNCHANGED x6,
           \A c \in k.clients : x7'[c].session = x7[c].session /\ x7'[c].read = x7[c].read
    PROVE  Signing(k)!PollsOwn'
BY DEF ProvenStay, AskersStay, Signing!PollsOwn

\* One client moves.
LEMMA OnePollFrame ==
    ASSUME NEW k, Signing(k)!PollsOwn, ProvenStay(k), AskersStay(k), NEW c \in k.clients,
           \A d \in k.clients \ {c} : x6'[d] = x6[d] /\ x7'[d] = x7[d],
           x6'[c] \in {"poll", "sleep", "read"} =>
              x7'[c].session \in x4' /\ x3'[x7'[c].session].client = c,
           x6'[c] \in {"signin", "save"} => x7'[c].read \in x10'[c]
    PROVE  Signing(k)!PollsOwn'
BY DEF ProvenStay, AskersStay, Signing!PollsOwn

\* No callback moves.
LEMMA CallbacksFrame ==
    ASSUME NEW k, Signing(k)!CallbacksOwn, Signing(k)!SessionsOwned, ProvenStay(k), AskersStay(k), UNCHANGED x5
    PROVE  Signing(k)!CallbacksOwn'
BY DEF ProvenStay, AskersStay, Signing!CallbacksOwn, Signing!SessionsOwned

\* No token changes hands.
LEMMA TokensFrame ==
    ASSUME NEW k, Signing(k)!TokenIsOwn, ProvenStay(k), UNCHANGED <<x8, x9>>
    PROVE  Signing(k)!TokenIsOwn'
BY DEF ProvenStay, Signing!TokenIsOwn

\* No identity is bound.
LEMMA IdentitiesFrame ==
    ASSUME NEW k, Signing(k)!IdentitiesBound, UNCHANGED <<x2, x5, x11>>
    PROVE  Signing(k)!IdentitiesBound'
BY DEF Signing!IdentitiesBound

\* A cleanup or a restart of the server makes sessions absent, no more.
LEMMA StatusOnly ==
    ASSUME NEW k, Signing(k)!ConstantsOK, Signing(k)!TypeOK, Signing(k)!SessionsOwned, Len(x1) \in Nat
    PROVE  /\ Signing(k)!Cleaned \in [k.sessions -> Signing(k)!Session]
           /\ \A s \in k.sessions \ x4 : Signing(k)!Cleaned[s] = x3[s]
           /\ \A s \in k.sessions : Signing(k)!Cleaned[s].client = x3[s].client /\ Signing(k)!Cleaned[s].account = x3[s].account
<1>1. \A s \in k.sessions : /\ x3[s] \in Signing(k)!Session
                            /\ [x3[s] EXCEPT !.status = "absent"] \in Signing(k)!Session
                            /\ [x3[s] EXCEPT !.status = "absent"].client = x3[s].client
                            /\ [x3[s] EXCEPT !.status = "absent"].account = x3[s].account
  <2>1. ASSUME NEW one \in Signing(k)!Session
        PROVE  /\ [one EXCEPT !.status = "absent"] \in Signing(k)!Session
               /\ [one EXCEPT !.status = "absent"].client = one.client
               /\ [one EXCEPT !.status = "absent"].account = one.account
    BY DEF Signing!Session
  <2>2. \A s \in k.sessions : x3[s] \in Signing(k)!Session
    BY DEF Signing!TypeOK
  <2> QED
    BY <2>1, <2>2
<1>2. \A s \in k.sessions \ x4 : x3[s].status = "absent"
  BY DEF Signing!SessionsOwned, Signing!NoSession
<1> QED
  BY <1>1, <1>2 DEF Signing!Cleaned, Signing!Present

\* What ownership rests on is so at the start.
LEMMA SigningStarts ==
    ASSUME NEW k, Signing(k)!ConstantsOK, Signing(k)!Init
    PROVE  Signing(k)!TypeOK /\ Signing(k)!AccountInv
<1>1. Len(x1) = 0 /\ x1 \in Seq([email : k.emails, password : BOOLEAN])
  BY DEF Signing!Init
<1>2. /\ Signing(k)!NoSession \in Signing(k)!Session
      /\ Signing(k)!Idle \in Signing(k)!Callback
      /\ Signing(k)!Nothing \in Signing(k)!Attempt
  BY <1>1, EmptyRecords
<1>3. Signing(k)!TypeOK
  BY <1>1, <1>2 DEF Signing!Init, Signing!TypeOK
<1>4. \A b \in k.callbacks : x5[b].at = "idle"
  BY DEF Signing!Init, Signing!Idle
<1>5. Signing(k)!AccountInv
  BY <1>4 DEF Signing!Init, Signing!AccountInv, Signing!SessionsOwned, Signing!PollsOwn, Signing!CallbacksOwn,
     Signing!IdentitiesBound, Signing!TokenIsOwn
<1> QED
  BY <1>3, <1>5

\* The steps of a client.
LEMMA ClientTypes ==
    ASSUME NEW k, Signing(k)!ConstantsOK, Signing(k)!TypeOK, Signing(k)!AccountInv,
           NEW c \in k.clients,
           \/ Signing(k)!StartOAuthLogin(c) \/ Signing(k)!ClientStep(c) \/ Signing(k)!Login(c)
           \/ Signing(k)!Register(c) \/ Signing(k)!Logout(c) \/ Signing(k)!RestartClient(c)
    PROVE  Signing(k)!TypeOK'
<1> USE DEF Signing!TypeOK, Signing!Goto, Signing!Ends, Signing!serverVars
<1>1. Len(x1) \in Nat
  BY LenProperties
<1>2. /\ Signing(k)!Cleaned \in [k.sessions -> Signing(k)!Session]
      /\ Signing(k)!Nothing \in Signing(k)!Attempt
  BY <1>1, StatusOnly, EmptyRecords DEF Signing!AccountInv
<1>3. ASSUME UNCHANGED x1
      PROVE  /\ Signing(k)!Session' = Signing(k)!Session
             /\ Signing(k)!Callback' = Signing(k)!Callback
             /\ Signing(k)!Attempt' = Signing(k)!Attempt
             /\ Signing(k)!Accounts' = Signing(k)!Accounts
  BY <1>3 DEF Signing!Session, Signing!Callback, Signing!Attempt, Signing!Accounts, Signing!None, Signing!Statements
<1>4. CASE Signing(k)!StartOAuthLogin(c)
  BY <1>3, <1>4 DEF Signing!StartOAuthLogin
<1>5. CASE Signing(k)!AuthorizeOAuth(c)
  <2> DEFINE s == CHOOSE t \in k.sessions \ x4 : TRUE
  <2>1. s \in k.sessions
    BY <1>5 DEF Signing!AuthorizeOAuth
  <2>2. /\ [Signing(k)!NoSession EXCEPT !.client = c, !.status = "pending"] \in Signing(k)!Session
        /\ [Signing(k)!Nothing EXCEPT !.session = s] \in Signing(k)!Attempt
    BY <1>1, <2>1, BegunRecords
  <2> QED
    BY <1>2, <1>3, <1>5, <2>1, <2>2 DEF Signing!AuthorizeOAuth
<1>6. CASE Signing(k)!LoginFails(c)
  BY <1>2, <1>3, <1>6 DEF Signing!LoginFails
<1>7. CASE Signing(k)!Poll(c)
  <2>1. UNCHANGED <<x1, x2, x4, x5, x8, x9, x10, x11>> /\ x3' \in [k.sessions -> Signing(k)!Session]
    BY <1>2, <1>7 DEF Signing!Poll
  <2>2. /\ x6' \in {[x6 EXCEPT ![c] = l] : l \in {"idle", "sleep", "read"}}
        /\ x7' \in {x7, [x7 EXCEPT ![c] = Signing(k)!Nothing]}
    BY <1>7 DEF Signing!Poll
  <2>3. x6' \in [k.clients -> {"idle", "authorize", "poll", "sleep", "read", "signin", "save"}]
    <3> DEFINE labels == {"idle", "authorize", "poll", "sleep", "read", "signin", "save"}
    <3>1. x6 \in [k.clients -> labels] /\ {"idle", "sleep", "read"} \subseteq labels
      OBVIOUS
    <3> HIDE DEF labels
    <3>2. \A l \in {"idle", "sleep", "read"} : [x6 EXCEPT ![c] = l] \in [k.clients -> labels]
      BY <3>1
    <3>3. x6' \in [k.clients -> labels]
      BY <2>2, <3>2
    <3> QED
      BY <3>3 DEF labels
  <2>4. x7' \in [k.clients -> Signing(k)!Attempt]
    BY <1>2, <2>2
  <2> QED
    BY <1>3, <2>1, <2>3, <2>4
<1>8. CASE Signing(k)!Wake(c)
  BY <1>3, <1>8 DEF Signing!Wake
<1>9. CASE Signing(k)!ReadToken(c)
  <2>1. x3[x7[c].session].account \in 0 .. Len(x1)
    BY <1>9 DEF Signing!ReadToken, Signing!AccountInv, Signing!PollsOwn, Signing!Session
  <2>2. [x7[c] EXCEPT !.read = x3[x7[c].session].account] \in Signing(k)!Attempt
    BY <1>1, <2>1, AttemptRecords
  <2>3. x7' \in [k.clients -> Signing(k)!Attempt]
    BY <1>2, <1>9, <2>2 DEF Signing!ReadToken
  <2>4. x6' \in [k.clients -> {"idle", "authorize", "poll", "sleep", "read", "signin", "save"}]
    BY <1>9 DEF Signing!ReadToken
  <2>5. UNCHANGED <<x1, x2, x3, x4, x5, x8, x9, x10, x11>>
    BY <1>9 DEF Signing!ReadToken
  <2> QED
    BY <1>3, <2>3, <2>4, <2>5
<1>10. x7[c].read \in 0 .. Len(x1)
  BY DEF Signing!Attempt
<1>11. CASE Signing(k)!SetToken(c)
  BY <1>3, <1>10, <1>11 DEF Signing!SetToken
<1>12. CASE Signing(k)!SaveToken(c)
  BY <1>2, <1>3, <1>10, <1>12 DEF Signing!SaveToken
<1>13. CASE Signing(k)!Login(c)
  BY <1>1, <1>3, <1>13 DEF Signing!Login, Signing!SignedIn, Signing!Accounts
<1>14. CASE Signing(k)!Register(c)
  <2>1. PICK e \in k.passwords : x1' = Append(x1, [email |-> e, password |-> TRUE])
    BY <1>14 DEF Signing!Register
  <2>2. [email |-> e, password |-> TRUE] \in [email : k.emails, password : BOOLEAN]
    BY DEF Signing!ConstantsOK
  <2>3. x1' \in Seq([email : k.emails, password : BOOLEAN]) /\ Len(x1') = Len(x1) + 1
    BY <2>1, <2>2, AccountsGrow
  <2>4. /\ Signing(k)!Session \subseteq Signing(k)!Session'
        /\ Signing(k)!Callback \subseteq Signing(k)!Callback'
        /\ Signing(k)!Attempt \subseteq Signing(k)!Attempt'
        /\ 0 .. Len(x1) \subseteq 0 .. Len(x1)'
        /\ Signing(k)!Accounts \subseteq Signing(k)!Accounts'
        /\ Len(x1') \in Signing(k)!Accounts'
    BY <1>1, <2>3, TypesGrow DEF Signing!Accounts
  <2> QED
    BY <1>14, <2>3, <2>4 DEF Signing!Register, Signing!SignedIn
<1>15. CASE Signing(k)!Logout(c)
  BY <1>1, <1>3, <1>15 DEF Signing!Logout
<1>16. CASE Signing(k)!RestartClient(c)
  BY <1>2, <1>3, <1>16 DEF Signing!RestartClient
<1> QED
  BY <1>4, <1>5, <1>6, <1>7, <1>8, <1>9, <1>11, <1>12, <1>13, <1>14, <1>15, <1>16 DEF Signing!ClientStep

\* The steps of a client keep tokens with their owners.
LEMMA ClientOwns ==
    ASSUME NEW k, Signing(k)!ConstantsOK, Signing(k)!TypeOK, Signing(k)!AccountInv,
           NEW c \in k.clients,
           \/ Signing(k)!StartOAuthLogin(c) \/ Signing(k)!ClientStep(c) \/ Signing(k)!Login(c)
           \/ Signing(k)!Register(c) \/ Signing(k)!Logout(c) \/ Signing(k)!RestartClient(c)
    PROVE  Signing(k)!AccountInv'
<1> USE DEF Signing!AccountInv, Signing!Goto, Signing!Ends, Signing!serverVars
<1>1. Len(x1) \in Nat
  BY LenProperties DEF Signing!TypeOK
<1>2. ASSUME UNCHANGED x10 PROVE ProvenStay(k)
  BY <1>2 DEF ProvenStay
<1>3. ASSUME UNCHANGED <<x3, x4>> PROVE SessionsStay(k)
  BY <1>3 DEF SessionsStay
<1>4. ASSUME x3' = Signing(k)!Cleaned, UNCHANGED x4 PROVE SessionsStay(k)
  BY <1>1, <1>4, StatusOnly DEF SessionsStay, Signing!TypeOK
<1>5. CASE Signing(k)!StartOAuthLogin(c)
  <2>1. ProvenStay(k) /\ SessionsStay(k)
    BY <1>2, <1>3, <1>5 DEF Signing!StartOAuthLogin
  <2>2. Signing(k)!PollsOwn'
    BY <1>5 DEF Signing!StartOAuthLogin, Signing!PollsOwn, Signing!TypeOK
  <2> QED
    BY <1>5, <2>1, <2>2, SessionsFrame, CallbacksFrame, IdentitiesFrame, TokensFrame
       DEF Signing!StartOAuthLogin
<1>6. CASE Signing(k)!AuthorizeOAuth(c)
  <2> DEFINE s == CHOOSE t \in k.sessions \ x4 : TRUE
  <2> DEFINE new == [Signing(k)!NoSession EXCEPT !.client = c, !.status = "pending"]
  <2> DEFINE poll == [Signing(k)!Nothing EXCEPT !.session = s]
  <2>1. s \in k.sessions \ x4
    BY <1>6 DEF Signing!AuthorizeOAuth
  <2>2. new.client = c /\ new.account = 0 /\ poll.session = s
    BY <1>1, <2>1, BegunRecords
  <2>3. /\ x3' = [Signing(k)!Cleaned EXCEPT ![s] = new]
        /\ x4' = x4 \cup {s}
        /\ x6' = [x6 EXCEPT ![c] = "poll"]
        /\ x7' = [x7 EXCEPT ![c] = poll]
        /\ UNCHANGED <<x1, x2, x5, x8, x9, x10, x11>>
    BY <1>6 DEF Signing!AuthorizeOAuth
  <2> HIDE DEF s, new, poll
  <2>4. /\ x3'[s] = new
        /\ \A t \in k.sessions \ {s} : x3'[t] = Signing(k)!Cleaned[t]
    BY <1>1, <2>1, <2>3, StatusOnly
  <2>9. /\ x4 \subseteq k.sessions
        /\ \A t \in k.sessions \ x4 : Signing(k)!Cleaned[t] = x3[t]
        /\ \A t \in x4 : /\ Signing(k)!Cleaned[t].client = x3[t].client
                        /\ Signing(k)!Cleaned[t].account = x3[t].account
    BY <1>1, StatusOnly DEF Signing!TypeOK
  <2>5. /\ \A t \in k.sessions \ x4' : x3'[t] = x3[t]
        /\ \A t \in x4 : x3'[t].client = x3[t].client /\ x3'[t].account = x3[t].account
    BY <2>1, <2>3, <2>4, <2>9
  <2>6. Signing(k)!SessionsOwned'
    BY <2>1, <2>2, <2>3, <2>4, <2>5 DEF Signing!SessionsOwned, Signing!NoSession, Signing!None
  <2>7. ProvenStay(k) /\ AskersStay(k)
    BY <1>2, <2>3, <2>5 DEF AskersStay
  <2>8. Signing(k)!PollsOwn'
    <3>1. /\ \A d \in k.clients \ {c} : x6'[d] = x6[d] /\ x7'[d] = x7[d]
          /\ x6'[c] = "poll" /\ x7'[c] = poll
      BY <2>3 DEF Signing!TypeOK
    <3>2. x7'[c].session \in x4' /\ x3'[x7'[c].session].client = c
      BY <2>2, <2>3, <2>4, <3>1
    <3> QED
      BY <2>7, <3>1, <3>2, OnePollFrame
  <2> QED
    BY <2>3, <2>6, <2>7, <2>8, CallbacksFrame, IdentitiesFrame, TokensFrame
<1>7. CASE Signing(k)!LoginFails(c)
  <2>1. ProvenStay(k) /\ SessionsStay(k)
    BY <1>2, <1>3, <1>7 DEF Signing!LoginFails
  <2>2. Signing(k)!PollsOwn'
    BY <1>7 DEF Signing!LoginFails, Signing!PollsOwn, Signing!TypeOK
  <2> QED
    BY <1>7, <2>1, <2>2, SessionsFrame, CallbacksFrame, IdentitiesFrame, TokensFrame
       DEF Signing!LoginFails
<1>8. CASE Signing(k)!Poll(c)
  <2>1. ProvenStay(k) /\ SessionsStay(k)
    BY <1>2, <1>4, <1>8 DEF Signing!Poll
  <2>2. /\ x6' \in {[x6 EXCEPT ![c] = l] : l \in {"idle", "sleep", "read"}}
        /\ x7' = IF x6'[c] = "idle" THEN [x7 EXCEPT ![c] = Signing(k)!Nothing] ELSE x7
    BY <1>8 DEF Signing!Poll, Signing!TypeOK
  <2>3. Signing(k)!PollsOwn'
    <3>1. AskersStay(k)
      BY <2>1, SessionsFrame
    <3>2. /\ \A d \in k.clients \ {c} : x6'[d] = x6[d] /\ x7'[d] = x7[d]
          /\ x6'[c] \in {"idle", "sleep", "read"} /\ (x6'[c] # "idle" => x7'[c] = x7[c])
      BY <2>2 DEF Signing!TypeOK
    <3>3. x7[c].session \in x4 /\ x3[x7[c].session].client = c
      BY <1>8 DEF Signing!Poll, Signing!PollsOwn
    <3> QED
      BY <2>1, <3>1, <3>2, <3>3, OnePollFrame DEF AskersStay
  <2> QED
    BY <1>8, <2>1, <2>3, SessionsFrame, CallbacksFrame, IdentitiesFrame, TokensFrame
       DEF Signing!Poll
<1>9. CASE Signing(k)!Wake(c)
  <2>1. ProvenStay(k) /\ SessionsStay(k)
    BY <1>2, <1>3, <1>9 DEF Signing!Wake
  <2>2. Signing(k)!PollsOwn'
    BY <1>9 DEF Signing!Wake, Signing!PollsOwn, Signing!TypeOK
  <2> QED
    BY <1>9, <2>1, <2>2, SessionsFrame, CallbacksFrame, IdentitiesFrame, TokensFrame
       DEF Signing!Wake
<1>10. CASE Signing(k)!ReadToken(c)
  <2>1. ProvenStay(k) /\ SessionsStay(k)
    BY <1>2, <1>3, <1>10 DEF Signing!ReadToken
  <2>2. /\ \A d \in k.clients \ {c} : x6'[d] = x6[d] /\ x7'[d] = x7[d]
        /\ x6'[c] = "idle" \/ x6'[c] = "signin"
    BY <1>10 DEF Signing!ReadToken, Signing!TypeOK
  <2>3. ASSUME x6'[c] = "signin" PROVE x7'[c].read \in x10'[c]
    <3>1. /\ x3[x7[c].session].account # 0 /\ x7[c].session \in x4
          /\ x3[x7[c].session].client = c
          /\ x7'[c] = [x7[c] EXCEPT !.read = x3[x7[c].session].account]
          /\ x10' = x10
      BY <1>10, <2>3 DEF Signing!ReadToken, Signing!PollsOwn, Signing!TypeOK
    <3>2. x3[x7[c].session].account \in x10[c] /\ x3[x7[c].session].account \in 0 .. Len(x1)
      BY <3>1 DEF Signing!SessionsOwned, Signing!TypeOK, Signing!Session
    <3>3. [x7[c] EXCEPT !.read = x3[x7[c].session].account].read = x3[x7[c].session].account
      BY <1>1, <3>2, AttemptRecords DEF Signing!TypeOK
    <3> QED
      BY <3>1, <3>2, <3>3
  <2>4. Signing(k)!PollsOwn'
    BY <2>1, <2>2, <2>3, SessionsFrame, OnePollFrame
  <2> QED
    BY <1>10, <2>1, <2>4, SessionsFrame, CallbacksFrame, IdentitiesFrame, TokensFrame
       DEF Signing!ReadToken
<1>11. CASE Signing(k)!SetToken(c)
  <2>1. ProvenStay(k) /\ SessionsStay(k)
    BY <1>2, <1>3, <1>11 DEF Signing!SetToken
  <2>2. Signing(k)!PollsOwn'
    BY <1>11 DEF Signing!SetToken, Signing!PollsOwn, Signing!TypeOK
  <2>3. Signing(k)!TokenIsOwn'
    BY <1>11 DEF Signing!SetToken, Signing!PollsOwn, Signing!TokenIsOwn, Signing!TypeOK
  <2> QED
    BY <1>11, <2>1, <2>2, <2>3, SessionsFrame, CallbacksFrame, IdentitiesFrame
       DEF Signing!SetToken
<1>12. CASE Signing(k)!SaveToken(c)
  <2>1. ProvenStay(k) /\ SessionsStay(k)
    BY <1>2, <1>3, <1>12 DEF Signing!SaveToken
  <2>2. Signing(k)!PollsOwn'
    BY <1>12 DEF Signing!SaveToken, Signing!PollsOwn, Signing!TypeOK
  <2>3. Signing(k)!TokenIsOwn'
    BY <1>12 DEF Signing!SaveToken, Signing!PollsOwn, Signing!TokenIsOwn, Signing!TypeOK
  <2> QED
    BY <1>12, <2>1, <2>2, <2>3, SessionsFrame, CallbacksFrame, IdentitiesFrame
       DEF Signing!SaveToken
<1>13. ASSUME NEW n, Signing(k)!SignedIn(c, n),
              UNCHANGED <<x2, x3, x4, x5, x6, x7, x11>>
       PROVE  Signing(k)!AccountInv'
  <2>1. x10' = [x10 EXCEPT ![c] = x10[c] \cup {n}]
    BY <1>13 DEF Signing!SignedIn
  <2>2. ProvenStay(k) /\ SessionsStay(k)
    BY <1>3, <1>13, <2>1 DEF ProvenStay, Signing!TypeOK
  <2>3. Signing(k)!TokenIsOwn'
    BY <1>13, <2>1 DEF Signing!SignedIn, Signing!TokenIsOwn, Signing!TypeOK
  <2> QED
    BY <1>13, <2>2, <2>3, SessionsFrame, PollsFrame, CallbacksFrame, IdentitiesFrame
<1>14. CASE Signing(k)!Login(c)
  BY <1>13, <1>14 DEF Signing!Login
<1>15. CASE Signing(k)!Register(c)
  BY <1>13, <1>15 DEF Signing!Register
<1>16. CASE Signing(k)!Logout(c)
  <2>1. ProvenStay(k) /\ SessionsStay(k)
    BY <1>2, <1>3, <1>16 DEF Signing!Logout
  <2>2. Signing(k)!TokenIsOwn'
    BY <1>16 DEF Signing!Logout, Signing!TokenIsOwn, Signing!TypeOK
  <2> QED
    BY <1>16, <2>1, <2>2, SessionsFrame, PollsFrame, CallbacksFrame, IdentitiesFrame
       DEF Signing!Logout
<1>17. CASE Signing(k)!RestartClient(c)
  <2>1. ProvenStay(k) /\ SessionsStay(k)
    BY <1>2, <1>3, <1>17 DEF Signing!RestartClient
  <2>2. Signing(k)!PollsOwn'
    BY <1>17 DEF Signing!RestartClient, Signing!PollsOwn, Signing!TypeOK
  <2>3. Signing(k)!TokenIsOwn'
    BY <1>17 DEF Signing!RestartClient, Signing!TokenIsOwn, Signing!TypeOK
  <2> QED
    BY <1>17, <2>1, <2>2, <2>3, SessionsFrame, CallbacksFrame, IdentitiesFrame
       DEF Signing!RestartClient
<1> QED
  BY <1>5, <1>6, <1>7, <1>8, <1>9, <1>10, <1>11, <1>12, <1>14, <1>15, <1>16, <1>17
     DEF Signing!ClientStep

\* The steps of a callback.
LEMMA CallbackTypes ==
    ASSUME NEW k, Signing(k)!ConstantsOK, Signing(k)!TypeOK, Signing(k)!AccountInv,
           NEW b \in k.callbacks, Signing(k)!OAuthCallback(b) \/ Signing(k)!CallbackStep(b)
    PROVE  Signing(k)!TypeOK'
<1> USE DEF Signing!TypeOK, Signing!AccountInv, Signing!clientVars
<1>1. Len(x1) \in Nat
  BY LenProperties
<1>2. ASSUME UNCHANGED x1
      PROVE  /\ Signing(k)!Session' = Signing(k)!Session
             /\ Signing(k)!Callback' = Signing(k)!Callback
             /\ Signing(k)!Attempt' = Signing(k)!Attempt
             /\ Signing(k)!Accounts' = Signing(k)!Accounts
  BY <1>2 DEF Signing!Session, Signing!Callback, Signing!Attempt, Signing!Accounts, Signing!None,
     Signing!Statements
<1>3. /\ Signing(k)!Idle \in Signing(k)!Callback
      /\ x5[b] \in Signing(k)!Callback /\ x5[b].account \in 0 .. Len(x1)
      /\ \A m \in Signing(k)!Statements : [x5[b] EXCEPT !.at = m] \in Signing(k)!Callback
      /\ \A m \in Signing(k)!Statements, n \in 0 .. Len(x1) :
            [x5[b] EXCEPT !.at = m, !.account = n] \in Signing(k)!Callback
  <2>1. Signing(k)!Idle \in Signing(k)!Callback /\ x5[b] \in Signing(k)!Callback
    BY <1>1, EmptyRecords
  <2>2. x5[b].account \in 0 .. Len(x1)
    BY <2>1 DEF Signing!Callback
  <2>3. ASSUME NEW m \in Signing(k)!Statements, NEW n \in 0 .. Len(x1)
        PROVE  /\ [x5[b] EXCEPT !.at = m] \in Signing(k)!Callback
               /\ [x5[b] EXCEPT !.at = m, !.account = n] \in Signing(k)!Callback
    BY <1>1, <2>1, CallbackRecords
  <2> QED
    BY <2>1, <2>2, <2>3
<1>4. {"fail", "email", "complete", "insert", "bind", "token"} \subseteq Signing(k)!Statements
  BY DEF Signing!Statements
<1>5. CASE Signing(k)!OAuthCallback(b)
  <2>1. PICK s \in x4, i \in k.identities, e \in k.emails, to \in {"identity", "fail"} :
           \E found \in Signing(k)!ByState(s) :
              x5' = [x5 EXCEPT ![b] = [at |-> to, state |-> s, session |-> found,
                                       identity |-> i, email |-> e, account |-> 0]]
    BY <1>5 DEF Signing!OAuthCallback
  <2>2. [at |-> to, state |-> s, session |-> s, identity |-> i, email |-> e, account |-> 0]
           \in Signing(k)!Callback
    BY <1>1, <2>1 DEF Signing!Callback, Signing!Statements
  <2>3. x5' \in [k.callbacks -> Signing(k)!Callback]
    BY <2>1, <2>2 DEF Signing!ByState
  <2> QED
    BY <1>2, <1>5, <2>3 DEF Signing!OAuthCallback
<1>6. CASE Signing(k)!FindIdentity(b)
  <2>1. x2[x5[b].identity] \in 0 .. Len(x1)
    BY <1>6 DEF Signing!FindIdentity, Signing!CallbacksOwn
  <2>2. x5' \in [k.callbacks -> Signing(k)!Callback]
    BY <1>3, <1>4, <1>6, <2>1 DEF Signing!FindIdentity
  <2> QED
    BY <1>2, <1>6, <2>2 DEF Signing!FindIdentity
<1>7. CASE Signing(k)!FindEmail(b)
  <2>1. x5' \in [k.callbacks -> Signing(k)!Callback]
    <3>1. Signing(k)!WithEmail(x5[b].email) \subseteq 0 .. Len(x1)
      BY <1>1 DEF Signing!WithEmail, Signing!Accounts
    <3>2. /\ [x5[b] EXCEPT !.at = "insert"] \in Signing(k)!Callback
          /\ \A n \in Signing(k)!WithEmail(x5[b].email) :
                [x5[b] EXCEPT !.at = "bind", !.account = n] \in Signing(k)!Callback
      BY <1>3, <1>4, <3>1
    <3> QED
      BY <1>7, <3>2 DEF Signing!FindEmail
  <2> QED
    BY <1>2, <1>7, <2>1 DEF Signing!FindEmail
<1>8. CASE Signing(k)!InsertUser(b)
  <2>1. CASE UNCHANGED x1
    <3>1. x5' \in [k.callbacks -> Signing(k)!Callback]
      <4>1. Len(x1) # Len(x1) + 1
        BY <1>1
      <4>2. x5' = [x5 EXCEPT ![b].at = "fail"]
        BY <1>8, <2>1, <4>1, AccountsGrow DEF Signing!InsertUser, Signing!CallbacksOwn
      <4> QED
        BY <1>3, <1>4, <4>2
    <3> QED
      BY <1>2, <1>8, <2>1, <3>1 DEF Signing!InsertUser
  <2>2. CASE x1' = Append(x1, [email |-> x5[b].email, password |-> FALSE])
    <3>1. [email |-> x5[b].email, password |-> FALSE] \in [email : k.emails, password : BOOLEAN]
      BY <1>8 DEF Signing!InsertUser, Signing!CallbacksOwn
    <3>2. x1' \in Seq([email : k.emails, password : BOOLEAN]) /\ Len(x1)' = Len(x1) + 1
      BY <2>2, <3>1, AccountsGrow
    <3>3. /\ Signing(k)!Session \subseteq Signing(k)!Session'
          /\ Signing(k)!Callback \subseteq Signing(k)!Callback'
          /\ Signing(k)!Attempt \subseteq Signing(k)!Attempt'
          /\ 0 .. Len(x1) \subseteq 0 .. Len(x1)'
          /\ Signing(k)!Accounts \subseteq Signing(k)!Accounts'
          /\ Len(x1)' \in 0 .. Len(x1)'
      BY <1>1, <3>2, TypesGrow
    <3>4. x5' = [x5 EXCEPT ![b].at = "bind", ![b].account = Len(x1)']
      <4>1. x1' # x1
        BY <1>1, <3>2
      <4> QED
        BY <1>8, <4>1 DEF Signing!InsertUser
    <3>5. x5[b] \in Signing(k)!Callback'
      BY <1>3, <3>3
    <3>6. [x5[b] EXCEPT !.at = "bind", !.account = Len(x1)'] \in Signing(k)!Callback'
      BY <3>3, <3>5 DEF Signing!Callback, Signing!Statements
    <3>7. x5' \in [k.callbacks -> Signing(k)!Callback']
      BY <3>3, <3>4, <3>6
    <3> QED
      BY <1>8, <3>2, <3>3, <3>7 DEF Signing!InsertUser
  <2> QED
    BY <1>8, <2>1, <2>2 DEF Signing!InsertUser
<1>9. CASE Signing(k)!InsertIdentity(b)
  <2>1. x5' \in [k.callbacks -> Signing(k)!Callback]
    BY <1>3, <1>4, <1>9 DEF Signing!InsertIdentity, Signing!Step
  <2> QED
    BY <1>2, <1>3, <1>9, <2>1 DEF Signing!InsertIdentity, Signing!Step
<1>10. \A s \in k.sessions : \A st \in {"absent", "pending", "completed", "failed"} :
          \A n \in 0 .. Len(x1) : /\ [x3[s] EXCEPT !.status = st] \in Signing(k)!Session
                                  /\ [x3[s] EXCEPT !.account = n] \in Signing(k)!Session
  BY <1>1, SessionRecords
<1>11. CASE Signing(k)!Complete(b)
  <2>1. x5' \in [k.callbacks -> Signing(k)!Callback]
    BY <1>3, <1>4, <1>11 DEF Signing!Complete, Signing!Step
  <2>2. x3' \in [k.sessions -> Signing(k)!Session]
    BY <1>10, <1>11 DEF Signing!Complete
  <2>3. x5[b].account \in Signing(k)!Accounts
    <3>1. x5[b].account # 0
      BY <1>11 DEF Signing!Complete, Signing!Step, Signing!IdentitiesBound
    <3>2. x5[b].account \in 0 .. Len(x1)
      BY <1>3
    <3> QED
      BY <1>1, <3>1, <3>2 DEF Signing!Accounts
  <2>4. /\ x10' \in [k.clients -> SUBSET Signing(k)!Accounts]
        /\ x11' \in [k.identities -> SUBSET Signing(k)!Accounts]
    BY <1>11, <2>3 DEF Signing!Complete
  <2>5. UNCHANGED <<x1, x2, x4, x6, x7, x8, x9>>
    BY <1>11 DEF Signing!Complete, Signing!Step
  <2> QED
    BY SMTT(40), <1>2, <2>1, <2>2, <2>4, <2>5
<1>12. CASE Signing(k)!CompleteToken(b)
  <2>1. x5' \in [k.callbacks -> Signing(k)!Callback]
    BY <1>3, <1>12 DEF Signing!CompleteToken, Signing!Returns
  <2>2. x3' \in [k.sessions -> Signing(k)!Session]
    BY <1>3, <1>10, <1>12 DEF Signing!CompleteToken
  <2> QED
    BY <1>2, <1>12, <2>1, <2>2 DEF Signing!CompleteToken, Signing!Returns
<1>13. CASE Signing(k)!Fail(b)
  <2>1. x5' \in [k.callbacks -> Signing(k)!Callback]
    BY <1>3, <1>13 DEF Signing!Fail, Signing!Returns
  <2>2. x3' \in [k.sessions -> Signing(k)!Session]
    BY <1>10, <1>13 DEF Signing!Fail
  <2> QED
    BY <1>2, <1>13, <2>1, <2>2 DEF Signing!Fail, Signing!Returns
<1> QED
  BY <1>5, <1>6, <1>7, <1>8, <1>9, <1>11, <1>12, <1>13 DEF Signing!CallbackStep

\* A callback that goes on to look up an address, to complete or to bind, for
\* the account it has found, is as much its own as before.
LEMMA CallbackMoves ==
    ASSUME NEW k, Signing(k)!CallbacksOwn, Signing(k)!IdentitiesBound,
           NEW b \in k.callbacks, x5[b].at # "idle",
           \A d \in k.callbacks \ {b} : x5'[d] = x5[d],
           UNCHANGED <<x2, x3, x4, x10, x11>>,
           x5'[b].state = x5[b].state, x5'[b].session = x5[b].session,
           x5'[b].identity = x5[b].identity, x5'[b].email = x5[b].email,
           x5'[b].at # "token",
           x5'[b].at = "bind" => x5'[b].account # 0,
           x5'[b].at = "complete" =>
              x5'[b].account = x2[x5[b].identity] /\ x5'[b].account # 0
    PROVE  Signing(k)!CallbacksOwn' /\ Signing(k)!IdentitiesBound'
<1>1. Signing(k)!CallbacksOwn'
  <2>1. ASSUME NEW d \in k.callbacks, x5'[d].at # "idle"
        PROVE  /\ x5'[d].state \in x4' /\ x5'[d].session = x5'[d].state
               /\ x5'[d].identity \in k.identities /\ x5'[d].email \in k.emails
               /\ x5'[d].at = "token" => x5'[d].account \in x10'[x3'[x5'[d].state].client]
    <3>1. CASE d = b
      <4>1. /\ x5[b].state \in x4 /\ x5[b].session = x5[b].state
            /\ x5[b].identity \in k.identities /\ x5[b].email \in k.emails
        BY DEF Signing!CallbacksOwn
      <4> QED
        BY <3>1, <4>1
    <3>2. CASE d # b
      <4>1. x5'[d] = x5[d]
        BY <3>2
      <4>2. /\ x5[d].state \in x4 /\ x5[d].session = x5[d].state
            /\ x5[d].identity \in k.identities /\ x5[d].email \in k.emails
            /\ x5[d].at = "token" => x5[d].account \in x10[x3[x5[d].state].client]
        BY <2>1, <4>1 DEF Signing!CallbacksOwn
      <4> QED
        BY <4>1, <4>2
    <3> QED
      BY <3>1, <3>2
  <2> QED
    BY <2>1 DEF Signing!CallbacksOwn
<1>2. Signing(k)!IdentitiesBound'
  <2>1. ASSUME NEW d \in k.callbacks
        PROVE  /\ x5'[d].at = "bind" => x5'[d].account # 0
               /\ x5'[d].at \in {"complete", "token"} =>
                     x5'[d].account = x2'[x5'[d].identity] /\ x5'[d].account # 0
    <3>1. CASE d = b
      BY <3>1
    <3>2. CASE d # b
      BY <3>2 DEF Signing!IdentitiesBound
    <3> QED
      BY <3>1, <3>2
  <2>2. \A i \in k.identities : x11'[i] \subseteq {x2'[i]} \ {0}
    BY DEF Signing!IdentitiesBound
  <2> QED
    BY <2>1, <2>2 DEF Signing!IdentitiesBound
<1> QED
  BY <1>1, <1>2

\* The steps of a callback keep tokens with their owners.
LEMMA CallbackOwns ==
    ASSUME NEW k, Signing(k)!ConstantsOK, Signing(k)!TypeOK, Signing(k)!AccountInv,
           NEW b \in k.callbacks, Signing(k)!OAuthCallback(b) \/ Signing(k)!CallbackStep(b)
    PROVE  Signing(k)!AccountInv'
<1> USE DEF Signing!AccountInv, Signing!clientVars
<1>1. Len(x1) \in Nat /\ x4 \subseteq k.sessions /\ x5[b] \in Signing(k)!Callback
  BY LenProperties DEF Signing!TypeOK
<1>2. /\ Signing(k)!Idle.at = "idle"
      /\ x5[b].account \in 0 .. Len(x1)
  BY <1>1, EmptyRecords DEF Signing!Callback
<1>3. ASSUME NEW m \in Signing(k)!Statements
      PROVE  /\ [x5[b] EXCEPT !.at = m].at = m
             /\ [x5[b] EXCEPT !.at = m].state = x5[b].state
             /\ [x5[b] EXCEPT !.at = m].session = x5[b].session
             /\ [x5[b] EXCEPT !.at = m].identity = x5[b].identity
             /\ [x5[b] EXCEPT !.at = m].email = x5[b].email
             /\ [x5[b] EXCEPT !.at = m].account = x5[b].account
  BY <1>1 DEF Signing!Callback
<1>4. ASSUME NEW m \in Signing(k)!Statements, NEW n \in 0 .. Len(x1)
      PROVE  /\ [x5[b] EXCEPT !.at = m, !.account = n].at = m
             /\ [x5[b] EXCEPT !.at = m, !.account = n].state = x5[b].state
             /\ [x5[b] EXCEPT !.at = m, !.account = n].session = x5[b].session
             /\ [x5[b] EXCEPT !.at = m, !.account = n].identity = x5[b].identity
             /\ [x5[b] EXCEPT !.at = m, !.account = n].email = x5[b].email
             /\ [x5[b] EXCEPT !.at = m, !.account = n].account = n
  BY <1>1 DEF Signing!Callback
<1>5. {"fail", "email", "complete", "insert", "bind", "token"} \subseteq Signing(k)!Statements
  BY DEF Signing!Statements
<1>6. ASSUME UNCHANGED <<x3, x4, x10>> PROVE ProvenStay(k) /\ SessionsStay(k) /\ AskersStay(k)
  BY <1>6 DEF ProvenStay, SessionsStay, AskersStay
<1>7. CASE Signing(k)!OAuthCallback(b)
  <2>1. PICK s \in x4, i \in k.identities, e \in k.emails, to \in {"identity", "fail"} :
           x5' = [x5 EXCEPT ![b] = [at |-> to, state |-> s, session |-> s,
                                    identity |-> i, email |-> e, account |-> 0]]
    BY <1>7 DEF Signing!OAuthCallback, Signing!ByState
  <2>2. UNCHANGED <<x2, x3, x4, x6, x7, x8, x9, x10, x11>>
    BY <1>7 DEF Signing!OAuthCallback
  <2>3. /\ \A d \in k.callbacks \ {b} : x5'[d] = x5[d]
        /\ x5'[b].at = to /\ x5'[b].state = s /\ x5'[b].session = s
        /\ x5'[b].identity = i /\ x5'[b].email = e
    BY <2>1 DEF Signing!TypeOK
  <2>4. Signing(k)!CallbacksOwn'
    BY <2>1, <2>2, <2>3 DEF Signing!CallbacksOwn
  <2>5. Signing(k)!IdentitiesBound'
    BY <2>1, <2>2, <2>3 DEF Signing!IdentitiesBound
  <2> QED
    BY <1>6, <2>2, <2>4, <2>5, SessionsFrame, PollsFrame, TokensFrame
<1>8. CASE Signing(k)!FindIdentity(b)
  <2>1. UNCHANGED <<x2, x3, x4, x6, x7, x8, x9, x10, x11>>
    BY <1>8 DEF Signing!FindIdentity
  <2>2. /\ \A d \in k.callbacks \ {b} : x5'[d] = x5[d]
        /\ x5'[b] = [x5[b] EXCEPT !.at = IF x2[x5[b].identity] = 0 THEN "email" ELSE "complete",
                                  !.account = x2[x5[b].identity]]
        /\ x5[b].at = "identity"
    BY <1>8 DEF Signing!FindIdentity, Signing!TypeOK
  <2>3. x2[x5[b].identity] \in 0 .. Len(x1)
    BY <2>2 DEF Signing!CallbacksOwn, Signing!TypeOK
  <2>4. /\ x5'[b].at \in {"email", "complete"}
        /\ x5'[b].at = "complete" => x2[x5[b].identity] # 0
        /\ x5'[b].state = x5[b].state /\ x5'[b].session = x5[b].session
        /\ x5'[b].identity = x5[b].identity /\ x5'[b].email = x5[b].email
        /\ x5'[b].account = x2[x5[b].identity]
    <3>1. CASE x2[x5[b].identity] = 0
      BY <1>4, <1>5, <2>2, <2>3, <3>1
    <3>2. CASE x2[x5[b].identity] # 0
      BY <1>4, <1>5, <2>2, <2>3, <3>2
    <3> QED
      BY <3>1, <3>2
  <2>5. Signing(k)!CallbacksOwn' /\ Signing(k)!IdentitiesBound'
    BY <2>1, <2>2, <2>4, CallbackMoves
  <2> QED
    BY <1>6, <2>1, <2>5, SessionsFrame, PollsFrame, TokensFrame
<1>9. CASE Signing(k)!FindEmail(b)
  <2>1. UNCHANGED <<x2, x3, x4, x6, x7, x8, x9, x10, x11>>
    BY <1>9 DEF Signing!FindEmail
  <2>2. \A n \in Signing(k)!WithEmail(x5[b].email) : n \in 0 .. Len(x1) /\ n # 0
    BY <1>1 DEF Signing!WithEmail, Signing!Accounts
  <2>3. /\ \A d \in k.callbacks \ {b} : x5'[d] = x5[d]
        /\ x5[b].at = "email"
        /\ \/ x5'[b] = [x5[b] EXCEPT !.at = "insert"]
           \/ \E n \in Signing(k)!WithEmail(x5[b].email) :
                 x5'[b] = [x5[b] EXCEPT !.at = "bind", !.account = n]
    BY <1>9 DEF Signing!FindEmail, Signing!TypeOK
  <2>4. /\ x5'[b].at = "insert" \/ (x5'[b].at = "bind" /\ x5'[b].account # 0)
        /\ x5'[b].state = x5[b].state /\ x5'[b].session = x5[b].session
        /\ x5'[b].identity = x5[b].identity /\ x5'[b].email = x5[b].email
    <3>1. CASE x5'[b] = [x5[b] EXCEPT !.at = "insert"]
      BY <1>3, <1>5, <3>1
    <3>2. ASSUME NEW n \in Signing(k)!WithEmail(x5[b].email),
                 x5'[b] = [x5[b] EXCEPT !.at = "bind", !.account = n]
          PROVE  /\ x5'[b].at = "bind" /\ x5'[b].account # 0
                 /\ x5'[b].state = x5[b].state /\ x5'[b].session = x5[b].session
                 /\ x5'[b].identity = x5[b].identity /\ x5'[b].email = x5[b].email
      BY <1>4, <1>5, <2>2, <3>2
    <3> QED
      BY <2>3, <3>1, <3>2
  <2>5. Signing(k)!CallbacksOwn' /\ Signing(k)!IdentitiesBound'
    BY <2>1, <2>3, <2>4, CallbackMoves
  <2> QED
    BY <1>6, <2>1, <2>5, SessionsFrame, PollsFrame, TokensFrame
<1>10. CASE Signing(k)!InsertUser(b)
  <2>1. UNCHANGED <<x2, x3, x4, x6, x7, x8, x9, x10, x11>>
    BY <1>10 DEF Signing!InsertUser
  <2>2. /\ \A d \in k.callbacks \ {b} : x5'[d] = x5[d]
        /\ x5[b].at = "insert"
        /\ \/ x5'[b] = [x5[b] EXCEPT !.at = "fail"]
           \/ /\ x1' = Append(x1, [email |-> x5[b].email, password |-> FALSE])
              /\ x5'[b] = [x5[b] EXCEPT !.at = "bind", !.account = Len(x1')]
    BY <1>10 DEF Signing!InsertUser, Signing!TypeOK
  <2>3. x1' = Append(x1, [email |-> x5[b].email, password |-> FALSE]) => Len(x1') = Len(x1) + 1
    <3>1. [email |-> x5[b].email, password |-> FALSE] \in [email : k.emails, password : BOOLEAN]
      BY <2>2 DEF Signing!CallbacksOwn
    <3> QED
      BY <3>1, AccountsGrow DEF Signing!TypeOK
  <2>4. /\ x5'[b].at = "fail" \/ (x5'[b].at = "bind" /\ x5'[b].account # 0)
        /\ x5'[b].state = x5[b].state /\ x5'[b].session = x5[b].session
        /\ x5'[b].identity = x5[b].identity /\ x5'[b].email = x5[b].email
    <3>1. CASE x5'[b] = [x5[b] EXCEPT !.at = "fail"]
      BY <1>3, <1>5, <3>1
    <3>2. CASE /\ Len(x1') = Len(x1) + 1
               /\ x5'[b] = [x5[b] EXCEPT !.at = "bind", !.account = Len(x1')]
      BY <1>1, <3>2 DEF Signing!Callback
    <3> QED
      BY <2>2, <2>3, <3>1, <3>2
  <2>5. Signing(k)!CallbacksOwn'
    BY <2>1, <2>2, <2>4 DEF Signing!CallbacksOwn
  <2>6. Signing(k)!IdentitiesBound'
    BY <2>1, <2>2, <2>4 DEF Signing!IdentitiesBound
  <2> QED
    BY <1>6, <2>1, <2>5, <2>6, SessionsFrame, PollsFrame, TokensFrame
<1>11. CASE Signing(k)!InsertIdentity(b)
  <2>1. UNCHANGED <<x3, x4, x6, x7, x8, x9, x10, x11>>
    BY <1>11 DEF Signing!InsertIdentity, Signing!Step
  <2>2. /\ \A d \in k.callbacks \ {b} : x5'[d] = x5[d]
        /\ x5[b].at = "bind"
        /\ \/ /\ x5'[b] = [x5[b] EXCEPT !.at = "complete"]
              /\ x2[x5[b].identity] = 0
              /\ x2' = [x2 EXCEPT ![x5[b].identity] = x5[b].account]
           \/ x5'[b] = [x5[b] EXCEPT !.at = "fail"] /\ x2' = x2
    BY <1>11 DEF Signing!InsertIdentity, Signing!Step, Signing!TypeOK
  <2>3. /\ x5'[b].at \in {"complete", "fail"}
        /\ x5'[b].state = x5[b].state /\ x5'[b].session = x5[b].session
        /\ x5'[b].identity = x5[b].identity /\ x5'[b].email = x5[b].email
        /\ x5'[b].account = x5[b].account
    <3>1. CASE x5'[b] = [x5[b] EXCEPT !.at = "complete"]
      BY <1>3, <1>5, <3>1
    <3>2. CASE x5'[b] = [x5[b] EXCEPT !.at = "fail"]
      BY <1>3, <1>5, <3>2
    <3> QED
      BY <2>2, <3>1, <3>2
  <2>4. Signing(k)!CallbacksOwn'
    BY <2>1, <2>2, <2>3 DEF Signing!CallbacksOwn
  <2>5. x5[b].account # 0 /\ x5[b].identity \in k.identities
    BY <2>2 DEF Signing!CallbacksOwn, Signing!IdentitiesBound
  <2>6. Signing(k)!IdentitiesBound'
    <3>1. CASE x2' = x2 /\ x5'[b].at = "fail"
      BY <2>1, <2>2, <3>1 DEF Signing!IdentitiesBound
    <3>2. CASE /\ x2[x5[b].identity] = 0 /\ x5'[b].at = "complete"
               /\ x2' = [x2 EXCEPT ![x5[b].identity] = x5[b].account]
      <4>1. /\ x2'[x5[b].identity] = x5[b].account
            /\ \A i \in k.identities \ {x5[b].identity} : x2'[i] = x2[i]
        BY <2>5, <3>2 DEF Signing!TypeOK
      <4>2. \A i \in k.identities : x11'[i] \subseteq {x2'[i]} \ {0}
        BY <2>1, <3>2, <4>1 DEF Signing!IdentitiesBound
      <4>3. \A d \in k.callbacks \ {b} : x5[d].at \in {"complete", "token"} =>
               x5[d].identity \in k.identities /\ x5[d].identity # x5[b].identity
        BY <3>2 DEF Signing!IdentitiesBound, Signing!CallbacksOwn
      <4> QED
        BY <2>2, <2>3, <2>5, <3>2, <4>1, <4>2, <4>3 DEF Signing!IdentitiesBound
    <3>3. /\ [x5[b] EXCEPT !.at = "complete"].at = "complete"
          /\ [x5[b] EXCEPT !.at = "fail"].at = "fail"
      BY <1>3, <1>5
    <3> QED
      BY <2>2, <3>1, <3>2, <3>3
  <2> QED
    BY <1>6, <2>1, <2>4, <2>6, SessionsFrame, PollsFrame, TokensFrame
<1>12. \A s \in k.sessions : \A st \in {"absent", "pending", "completed", "failed"} :
          /\ [x3[s] EXCEPT !.status = st].client = x3[s].client
          /\ [x3[s] EXCEPT !.status = st].account = x3[s].account
  BY DEF Signing!TypeOK, Signing!Session
<1>13. ASSUME NEW s \in x4, NEW st \in {"completed", "failed"},
              x3' = IF Signing(k)!Present(s) THEN [x3 EXCEPT ![s].status = st] ELSE x3,
              UNCHANGED x4
       PROVE  SessionsStay(k)
  BY <1>1, <1>12, <1>13 DEF SessionsStay, Signing!TypeOK
<1>14. CASE Signing(k)!Complete(b)
  <2> DEFINE c == x3[x5[b].state].client
  <2>1. /\ x5[b].at = "complete" /\ x5[b].state \in x4 /\ x5[b].session = x5[b].state
        /\ x5[b].identity \in k.identities
        /\ x5[b].account = x2[x5[b].identity] /\ x5[b].account # 0
        /\ c \in k.clients
    BY <1>14 DEF Signing!Complete, Signing!Step, Signing!CallbacksOwn, Signing!IdentitiesBound,
       Signing!SessionsOwned
  <2>2. /\ x10' = [x10 EXCEPT ![c] = x10[c] \cup {x5[b].account}]
        /\ x11' = [x11 EXCEPT ![x5[b].identity] = x11[x5[b].identity] \cup {x5[b].account}]
        /\ UNCHANGED <<x2, x4, x6, x7, x8, x9>>
    BY <1>14 DEF Signing!Complete, Signing!Step
  <2>3. SessionsStay(k)
    BY <1>13, <1>14, <2>1, <2>2 DEF Signing!Complete
  <2>4. ProvenStay(k) /\ x5[b].account \in x10'[c]
    BY <2>1, <2>2 DEF ProvenStay, Signing!TypeOK
  <2>5. AskersStay(k)
    BY <2>3 DEF SessionsStay, AskersStay
  <2>6. /\ \A d \in k.callbacks \ {b} : x5'[d] = x5[d]
        /\ x5'[b] = [x5[b] EXCEPT !.at = "token"]
    BY <1>14 DEF Signing!Complete, Signing!Step, Signing!TypeOK
  <2>7. /\ x5'[b].at = "token"
        /\ x5'[b].state = x5[b].state /\ x5'[b].session = x5[b].session
        /\ x5'[b].identity = x5[b].identity /\ x5'[b].email = x5[b].email
        /\ x5'[b].account = x5[b].account
    BY <1>3, <1>5, <2>6
  <2>8. Signing(k)!CallbacksOwn'
    <3>1. x5'[b].account \in x10'[x3'[x5'[b].state].client]
      BY <2>1, <2>4, <2>5, <2>7 DEF AskersStay
    <3>2. x5'[b].state \in x4' /\ x5[b].email \in k.emails
      BY <2>1, <2>2, <2>7 DEF Signing!CallbacksOwn
    <3>3. ASSUME NEW d \in k.callbacks \ {b}, x5[d].at = "token"
          PROVE  x5[d].account \in x10'[x3'[x5[d].state].client]
      <4>1. x5[d].state \in x4 /\ x5[d].account \in x10[x3[x5[d].state].client]
        BY <3>3 DEF Signing!CallbacksOwn
      <4>2. x3[x5[d].state].client \in k.clients
        BY <4>1 DEF Signing!SessionsOwned
      <4> QED
        BY <2>4, <2>5, <4>1, <4>2 DEF ProvenStay, AskersStay
    <3>4. ASSUME NEW d \in k.callbacks, x5'[d].at # "idle"
          PROVE  /\ x5'[d].state \in x4' /\ x5'[d].session = x5'[d].state
                 /\ x5'[d].identity \in k.identities /\ x5'[d].email \in k.emails
                 /\ x5'[d].at = "token" => x5'[d].account \in x10'[x3'[x5'[d].state].client]
      <4>1. CASE d = b
        BY <2>1, <2>7, <3>1, <3>2, <4>1
      <4>2. CASE d # b
        <5>1. x5'[d] = x5[d] /\ d \in k.callbacks \ {b}
          BY <2>6, <4>2
        <5>2. /\ x5[d].state \in x4 /\ x5[d].session = x5[d].state
              /\ x5[d].identity \in k.identities /\ x5[d].email \in k.emails
          BY <3>4, <5>1 DEF Signing!CallbacksOwn
        <5> QED
          BY <2>2, <3>3, <5>1, <5>2
      <4> QED
        BY <4>1, <4>2
    <3> QED
      BY <3>4 DEF Signing!CallbacksOwn
  <2>9. Signing(k)!IdentitiesBound'
    <3>1. \A i \in k.identities : x11'[i] \subseteq {x2'[i]} \ {0}
      BY <2>1, <2>2 DEF Signing!IdentitiesBound, Signing!TypeOK
    <3>2. ASSUME NEW d \in k.callbacks
          PROVE  /\ x5'[d].at = "bind" => x5'[d].account # 0
                 /\ x5'[d].at \in {"complete", "token"} =>
                       x5'[d].account = x2[x5'[d].identity] /\ x5'[d].account # 0
      <4>1. CASE d = b
        BY <2>1, <2>7, <4>1
      <4>2. CASE d # b
        BY <2>6, <4>2 DEF Signing!IdentitiesBound
      <4> QED
        BY <4>1, <4>2
    <3> QED
      BY <2>2, <3>1, <3>2 DEF Signing!IdentitiesBound
  <2> QED
    BY <2>2, <2>3, <2>4, <2>5, <2>8, <2>9, SessionsFrame, PollsFrame, TokensFrame
<1>15. ASSUME NEW l \in {"token", "fail"}, Signing(k)!Returns(b, l), UNCHANGED <<x2, x10, x11>>,
              AskersStay(k), Signing(k)!SessionsOwned'
       PROVE  Signing(k)!AccountInv'
  <2>1. /\ \A d \in k.callbacks \ {b} : x5'[d] = x5[d]
        /\ x5'[b].at = "idle"
        /\ UNCHANGED <<x4, x6, x7, x8, x9>>
    BY <1>2, <1>15 DEF Signing!Returns, Signing!TypeOK
  <2>2. ProvenStay(k)
    BY <1>15 DEF ProvenStay
  <2>3. Signing(k)!CallbacksOwn'
    BY <1>15, <2>1 DEF AskersStay, Signing!CallbacksOwn
  <2>4. Signing(k)!IdentitiesBound'
    BY <1>15, <2>1 DEF Signing!IdentitiesBound
  <2> QED
    BY <1>15, <2>1, <2>2, <2>3, <2>4, PollsFrame, TokensFrame
<1>16. CASE Signing(k)!CompleteToken(b)
  <2>1. /\ x5[b].at = "token" /\ x5[b].session \in x4 /\ x5[b].session \in k.sessions
        /\ x5[b].account \in x10[x3[x5[b].session].client]
    BY <1>1, <1>16 DEF Signing!CompleteToken, Signing!Returns, Signing!CallbacksOwn
  <2>2. Signing(k)!Returns(b, "token") /\ UNCHANGED <<x1, x2, x4, x10, x11>>
    BY <1>16 DEF Signing!CompleteToken, Signing!Returns
  <2>3. /\ [x3[x5[b].session] EXCEPT !.account = x5[b].account].client = x3[x5[b].session].client
        /\ [x3[x5[b].session] EXCEPT !.account = x5[b].account].account = x5[b].account
    BY <2>1 DEF Signing!TypeOK, Signing!Session
  <2>4. /\ \A s \in k.sessions \ {x5[b].session} : x3'[s] = x3[s]
        /\ x3'[x5[b].session] \in
              {x3[x5[b].session], [x3[x5[b].session] EXCEPT !.account = x5[b].account]}
    BY <1>16, <2>1 DEF Signing!CompleteToken, Signing!TypeOK
  <2>5. AskersStay(k)
    BY <1>1, <2>2, <2>3, <2>4 DEF AskersStay
  <2>6. Signing(k)!SessionsOwned'
    <3>1. \A s \in k.sessions \ x4' : x3'[s] = Signing(k)!NoSession
      BY <2>1, <2>2, <2>4 DEF Signing!SessionsOwned
    <3>2. \A s \in x4 : /\ x3'[s].client \in k.clients
                        /\ x3'[s].account \in x10[x3'[s].client] \cup {0}
      BY <1>1, <2>1, <2>2, <2>3, <2>4 DEF Signing!SessionsOwned
    <3> QED
      BY <2>2, <3>1, <3>2 DEF Signing!SessionsOwned, Signing!NoSession, Signing!None
  <2> QED
    BY <1>15, <2>2, <2>5, <2>6
<1>17. CASE Signing(k)!Fail(b)
  <2>1. /\ x5[b].at = "fail" /\ x5[b].session \in x4
    BY <1>17 DEF Signing!Fail, Signing!Returns, Signing!CallbacksOwn
  <2>2. Signing(k)!Returns(b, "fail") /\ UNCHANGED <<x1, x2, x4, x10, x11>>
    BY <1>17 DEF Signing!Fail, Signing!Returns
  <2>3. SessionsStay(k)
    BY <1>13, <1>17, <2>1, <2>2 DEF Signing!Fail
  <2>4. AskersStay(k) /\ Signing(k)!SessionsOwned'
    BY <2>2, <2>3, SessionsFrame DEF ProvenStay
  <2> QED
    BY <1>15, <2>2, <2>4
<1> QED
  BY <1>7, <1>8, <1>9, <1>10, <1>11, <1>14, <1>16, <1>17 DEF Signing!CallbackStep

\* The server restarts, and time passes.
LEMMA ServerRestartOwns ==
    ASSUME NEW k, Signing(k)!ConstantsOK, Signing(k)!TypeOK, Signing(k)!AccountInv,
           Signing(k)!ServerRestarts
    PROVE  Signing(k)!TypeOK' /\ Signing(k)!AccountInv'
<1> USE DEF Signing!AccountInv
<1>1. Len(x1) \in Nat /\ x4 \subseteq k.sessions
  BY LenProperties DEF Signing!TypeOK
<1>2. \A s \in k.sessions : /\ [x3[s] EXCEPT !.status = "absent"] \in Signing(k)!Session
                            /\ [x3[s] EXCEPT !.status = "absent"].client = x3[s].client
                            /\ [x3[s] EXCEPT !.status = "absent"].account = x3[s].account
  <2>1. ASSUME NEW s \in k.sessions
        PROVE  /\ [x3[s] EXCEPT !.status = "absent"] \in Signing(k)!Session
               /\ [x3[s] EXCEPT !.status = "absent"].client = x3[s].client
               /\ [x3[s] EXCEPT !.status = "absent"].account = x3[s].account
    <3>1. x3[s] \in Signing(k)!Session
      BY DEF Signing!TypeOK
    <3> QED
      BY <3>1 DEF Signing!Session
  <2> QED
    BY <2>1
<1>3. Signing(k)!Idle \in Signing(k)!Callback /\ Signing(k)!Idle.at = "idle"
  BY <1>1, EmptyRecords
<1>4. /\ x3' = [s \in k.sessions |-> [x3[s] EXCEPT !.status = "absent"]]
      /\ x5' = [d \in k.callbacks |-> Signing(k)!Idle]
      /\ UNCHANGED <<x1, x2, x4, x6, x7, x8, x9, x10, x11>>
  BY DEF Signing!ServerRestarts, Signing!clientVars
<1>5. /\ Signing(k)!Session' = Signing(k)!Session
      /\ Signing(k)!Callback' = Signing(k)!Callback
      /\ Signing(k)!Attempt' = Signing(k)!Attempt
      /\ Signing(k)!Accounts' = Signing(k)!Accounts
  BY <1>4 DEF Signing!Session, Signing!Callback, Signing!Attempt, Signing!Accounts, Signing!None,
     Signing!Statements
<1>6. Signing(k)!TypeOK'
  BY <1>2, <1>3, <1>4, <1>5 DEF Signing!TypeOK
<1>7. \A s \in k.sessions \ x4 : x3'[s] = x3[s]
  BY <1>4 DEF Signing!SessionsOwned, Signing!NoSession, Signing!None
<1>8. ProvenStay(k) /\ SessionsStay(k)
  BY <1>1, <1>2, <1>4, <1>7 DEF ProvenStay, SessionsStay
<1>9. Signing(k)!CallbacksOwn' /\ Signing(k)!IdentitiesBound'
  BY <1>3, <1>4 DEF Signing!CallbacksOwn, Signing!IdentitiesBound
<1> QED
  BY <1>4, <1>6, <1>8, <1>9, SessionsFrame, PollsFrame, TokensFrame

\* Time passes for sessions and attempts.
LEMMA TickOwns ==
    ASSUME NEW k, Signing(k)!ConstantsOK, Signing(k)!TypeOK, Signing(k)!AccountInv, Signing(k)!Tick
    PROVE  Signing(k)!TypeOK' /\ Signing(k)!AccountInv'
<1> USE DEF Signing!AccountInv
<1>1. Len(x1) \in Nat /\ x4 \subseteq k.sessions
  BY LenProperties DEF Signing!TypeOK
<1>2. /\ UNCHANGED <<x1, x2, x4, x5, x6, x8, x9, x10, x11>>
      /\ \A s \in k.sessions : x3'[s] = IF Signing(k)!Present(s)
                THEN [x3[s] EXCEPT !.age = Signing(k)!Older(@, k.ttl)] ELSE x3[s]
      /\ \A c \in k.clients : x7'[c] = IF Signing(k)!Waiting(c)
                THEN [x7[c] EXCEPT !.waited = Signing(k)!Older(@, k.timeout)] ELSE x7[c]
      /\ x3' = [s \in k.sessions |-> x3'[s]] /\ x7' = [c \in k.clients |-> x7'[c]]
  BY DEF Signing!Tick
<1>3. \A s \in k.sessions : /\ x3'[s] \in Signing(k)!Session
                            /\ x3'[s].client = x3[s].client /\ x3'[s].account = x3[s].account
  <2> SUFFICES ASSUME NEW s \in k.sessions
               PROVE  /\ x3'[s] \in Signing(k)!Session
                      /\ x3'[s].client = x3[s].client /\ x3'[s].account = x3[s].account
    OBVIOUS
  <2>1. x3[s] \in Signing(k)!Session
    BY DEF Signing!TypeOK
  <2>2. /\ [x3[s] EXCEPT !.age = Signing(k)!Older(@, k.ttl)] \in Signing(k)!Session
        /\ [x3[s] EXCEPT !.age = Signing(k)!Older(@, k.ttl)].client = x3[s].client
        /\ [x3[s] EXCEPT !.age = Signing(k)!Older(@, k.ttl)].account = x3[s].account
    BY <2>1, AgedSession
  <2> QED
    BY <1>2, <2>1, <2>2
<1>4. \A c \in k.clients : /\ x7'[c] \in Signing(k)!Attempt
                           /\ x7'[c].session = x7[c].session /\ x7'[c].read = x7[c].read
  <2> SUFFICES ASSUME NEW c \in k.clients
               PROVE  /\ x7'[c] \in Signing(k)!Attempt
                      /\ x7'[c].session = x7[c].session /\ x7'[c].read = x7[c].read
    OBVIOUS
  <2>1. x7[c] \in Signing(k)!Attempt
    BY DEF Signing!TypeOK
  <2>2. /\ [x7[c] EXCEPT !.waited = Signing(k)!Older(@, k.timeout)] \in Signing(k)!Attempt
        /\ [x7[c] EXCEPT !.waited = Signing(k)!Older(@, k.timeout)].session = x7[c].session
        /\ [x7[c] EXCEPT !.waited = Signing(k)!Older(@, k.timeout)].read = x7[c].read
    BY <2>1, AgedAttempt
  <2> QED
    BY <1>2, <2>1, <2>2
<1>5. /\ Signing(k)!Session' = Signing(k)!Session
      /\ Signing(k)!Callback' = Signing(k)!Callback
      /\ Signing(k)!Attempt' = Signing(k)!Attempt
      /\ Signing(k)!Accounts' = Signing(k)!Accounts
  BY <1>2 DEF Signing!Session, Signing!Callback, Signing!Attempt, Signing!Accounts, Signing!None,
     Signing!Statements
<1>6. Signing(k)!TypeOK'
  BY <1>2, <1>3, <1>4, <1>5 DEF Signing!TypeOK
<1>7. \A s \in k.sessions \ x4 : x3'[s] = x3[s]
  <2>1. \A s \in k.sessions \ x4 : ~ Signing(k)!Present(s)
    BY <1>1, EmptyRecords DEF Signing!SessionsOwned, Signing!Present
  <2> QED
    BY <1>2, <2>1
<1>8. ProvenStay(k) /\ SessionsStay(k)
  BY <1>1, <1>2, <1>3, <1>7 DEF ProvenStay, SessionsStay
<1> QED
  BY <1>2, <1>4, <1>6, <1>8, SessionsFrame, PollsFrame, CallbacksFrame, IdentitiesFrame, TokensFrame

\* Every step, and hence every behaviour.
LEMMA SigningSteps ==
    ASSUME NEW k, Signing(k)!ConstantsOK, Signing(k)!TypeOK, Signing(k)!AccountInv,
           [Signing(k)!Next]_(Signing(k)!vars)
    PROVE  Signing(k)!TypeOK' /\ Signing(k)!AccountInv'
<1>1. CASE UNCHANGED Signing(k)!vars
  <2>1. UNCHANGED <<x1, x2, x3, x4, x5, x6, x7, x8, x9, x10, x11>>
    BY <1>1 DEF Signing!vars
  <2>2. Signing(k)!TypeOK'
    BY <2>1 DEF Signing!TypeOK, Signing!Session, Signing!Callback, Signing!Attempt, Signing!Accounts,
       Signing!Statements, Signing!None
  <2>3. ProvenStay(k) /\ SessionsStay(k)
    BY <2>1 DEF ProvenStay, SessionsStay
  <2> QED
    BY <2>1, <2>2, <2>3, SessionsFrame, PollsFrame, CallbacksFrame, IdentitiesFrame, TokensFrame
       DEF Signing!AccountInv
<1> QED
  BY <1>1, ClientTypes, ClientOwns, CallbackTypes, CallbackOwns, ServerRestartOwns, TickOwns
     DEF Signing!Next

\* The invariant says what the module promises.
LEMMA OwnFollows ==
    ASSUME NEW k, Signing(k)!AccountInv
    PROVE  Signing(k)!TokenIsOwn /\ Signing(k)!OneAccountPerIdentity
BY DEF Signing!AccountInv, Signing!IdentitiesBound, Signing!OneAccountPerIdentity

\* For any clients, callbacks, sessions, identities, addresses and times: a
\* client holds tokens only of accounts whose owner signed in on it, and an
\* identity keeps the account it first got.
THEOREM SignInOwns ==
    ASSUME NEW k, Signing(k)!ConstantsOK
    PROVE  Signing(k)!Spec =>
              [](Signing(k)!TypeOK /\ Signing(k)!TokenIsOwn /\ Signing(k)!OneAccountPerIdentity)
<1>1. Signing(k)!Init => Signing(k)!TypeOK /\ Signing(k)!AccountInv
  BY SigningStarts
<1>2. (Signing(k)!TypeOK /\ Signing(k)!AccountInv) /\ [Signing(k)!Next]_(Signing(k)!vars)
         => (Signing(k)!TypeOK /\ Signing(k)!AccountInv)'
  BY SigningSteps
<1>3. Signing(k)!TypeOK /\ Signing(k)!AccountInv
         => Signing(k)!TypeOK /\ Signing(k)!TokenIsOwn /\ Signing(k)!OneAccountPerIdentity
  BY OwnFollows
<1> QED
  BY <1>1, <1>2, <1>3, PTL DEF Signing!Spec

-----------------------------------------------------------------------------
\* The usage log, for any limits, write outcomes and logs found on disk: the
\* record k holds them.  Of the pool x1 .. x8 are up, records, priced, file,
\* month, serial, whole and recorded.

\* A record more, at the end.
LEMMA AppendElements ==
    ASSUME NEW S, NEW s \in Seq(S), NEW e \in S
    PROVE  /\ Append(s, e) \in Seq(S) /\ Len(s) \in Nat /\ Len(Append(s, e)) = Len(s) + 1
           /\ \A i \in 1 .. Len(s) : Append(s, e)[i] = s[i]
           /\ Append(s, e)[Len(s) + 1] = e
BY AppendProperties, LenProperties

\* The oldest record less.
LEMMA NewestElements ==
    ASSUME NEW S, NEW s \in Seq(S), Len(s) >= 2
    PROVE  /\ SubSeq(s, 2, Len(s)) \in Seq(S)
           /\ Len(SubSeq(s, 2, Len(s))) = Len(s) - 1
           /\ \A i \in 1 .. Len(s) - 1 : SubSeq(s, 2, Len(s))[i] = s[i + 1]
<1>1. /\ 2 \in 1 .. Len(s) + 1 /\ Len(s) \in 2 - 1 .. Len(s) /\ 2 <= Len(s)
      /\ Len(s) - 2 + 1 = Len(s) - 1 /\ \A i \in 1 .. Len(s) - 1 : 2 + i - 1 = i + 1
  BY LenProperties
<1> QED
  BY <1>1, SubSeqProperties

\* A set of positions with every one after its own is the last of them, as
\* many as it has.
LEMMA UpwardClosed ==
    ASSUME NEW n \in Nat, NEW S \in SUBSET (1 .. n),
           \A i \in S : \A j \in i .. n : j \in S
    PROVE  /\ Cardinality(S) \in 0 .. n
           /\ \A i \in 1 .. n : i \in S <=> i + Cardinality(S) > n
<1> DEFINE c == Cardinality(S)
<1>1. /\ IsFiniteSet(1 .. n) /\ Cardinality(1 .. n) = n
  BY FS_Interval
<1>2. IsFiniteSet(S) /\ c \in Nat /\ c <= n
  <2>1. S \subseteq 1 .. n
    OBVIOUS
  <2>2. IsFiniteSet(S) /\ Cardinality(S) <= Cardinality(1 .. n)
    BY <1>1, <2>1, FS_Subset
  <2>3. c \in Nat
    BY <2>2, FS_CardinalityType
  <2> QED
    BY <1>1, <2>2, <2>3
<1>3. ASSUME NEW i \in S PROVE i + c > n
  <2>1. i .. n \subseteq S
    BY <1>3
  <2>2. IsFiniteSet(i .. n) /\ Cardinality(i .. n) = n - i + 1
    BY <1>3, FS_Interval
  <2>3. Cardinality(i .. n) <= c
    BY <1>2, <2>1, FS_Subset
  <2> QED
    BY <1>2, <2>2, <2>3
<1> DEFINE T == (n - c + 1) .. n
<1> HIDE DEF c
<1>4. IsFiniteSet(T) /\ Cardinality(T) = c
  <2>1. n - c + 1 \in Int /\ n \in Int
    BY <1>2
  <2>2. n - (n - c + 1) + 1 = c
    BY <1>2
  <2> QED
    BY <1>2, <2>1, <2>2, FS_Interval
<1>5. S \subseteq T
  BY <1>2, <1>3
<1>6. S = T
  BY <1>2, <1>4, <1>5, FS_Subset DEF c
<1> QED
  BY <1>2, <1>6 DEF c

\* The records' places are as many as they are.
LEMMA IntervalSize ==
    ASSUME NEW n \in Nat
    PROVE  Cardinality(1 .. n) = n
BY FS_Interval

\* Records in order stay in order: with one of the newest month after them,
\* and without the oldest.
LEMMA OrderKept ==
    ASSUME NEW k, x5 \in Nat, NEW S, NEW s \in Seq(S), \A e \in S : e.month \in Nat,
           Logging(k)!InOrder(s), NEW r \in S, r.month = x5
    PROVE  Logging(k)!InOrder(Append(s, r))
<1>1. /\ Len(s) \in Nat /\ Len(Append(s, r)) = Len(s) + 1
      /\ \A i \in 1 .. Len(s) : Append(s, r)[i] = s[i]
      /\ Append(s, r)[Len(s) + 1] = r
  BY AppendElements
<1>2. \A i \in 1 .. Len(s) : s[i] \in S
  BY ElementOfSeq
<1>3. ASSUME NEW i \in 1 .. Len(s) + 1
      PROVE  /\ Append(s, r)[i].month <= x5
             /\ \A j \in 1 .. i : Append(s, r)[j].month <= Append(s, r)[i].month
  <2>1. CASE i \in 1 .. Len(s)
    BY <1>1, <2>1 DEF Logging!InOrder
  <2>2. CASE i = Len(s) + 1
    BY <1>1, <1>2, <2>2 DEF Logging!InOrder
  <2> QED
    BY <1>1, <2>1, <2>2
<1> QED
  BY <1>1, <1>3 DEF Logging!InOrder

\* Counting inside the module is counting.
LEMMA Counts ==
    ASSUME NEW k, NEW S
    PROVE  Logging(k)!Cardinality(S) = Cardinality(S)
BY DEF Logging!Cardinality, Cardinality

\* The month's cost counts records.
LEMMA MonthCounts ==
    ASSUME NEW k
    PROVE  Logging(k)!MonthCost = Cardinality({i \in DOMAIN x2 : x2[i].month = x5})
<1>1. Logging(k)!MonthCost = Logging(k)!Cardinality({i \in DOMAIN x2 : x2[i].month = x5})
  BY Zenon DEF Logging!MonthCost
<1> QED
  BY <1>1, Counts

\* The log as the program finds it.
LEMMA LogStarts ==
    ASSUME NEW k, Logging(k)!ConstantsOK, Logging(k)!OwnFiles, Logging(k)!Init
    PROVE  Logging(k)!LogInv
<1> USE DEF Logging!ConstantsOK, Logging!OwnFiles
<1>1. /\ x1 = FALSE /\ x3 = FALSE /\ x7 = TRUE /\ x5 = 0 /\ x4 \in k.files
      /\ x2 = x4.recs /\ x6 = Len(x2) /\ x8 = Logging(k)!MonthCost
  BY DEF Logging!Init, Logging!Loaded
<1>2. /\ x4 \in Logging(k)!File /\ x2 \in Seq(Logging(k)!Record)
      /\ Len(x2) \in Nat /\ Len(x2) <= k.max /\ Len(x2) <= k.serials
      /\ \A i \in 1 .. Len(x2) : x2[i].month = 0
      /\ DOMAIN x2 = 1 .. Len(x2)
  BY <1>1, LenProperties DEF Logging!File
<1>3. x8 = Len(x2)
  <2>1. {i \in DOMAIN x2 : x2[i].month = x5} = 1 .. Len(x2)
    BY <1>1, <1>2
  <2>2. Cardinality(1 .. Len(x2)) = Len(x2)
    BY <1>2, IntervalSize
  <2>3. Logging(k)!MonthCost = Cardinality({i \in DOMAIN x2 : x2[i].month = x5})
    BY MonthCounts
  <2> QED
    BY <1>1, <2>1, <2>2, <2>3
<1>4. Logging(k)!TypeOK
  <2>1. x5 \in 0 .. k.last /\ x6 \in 0 .. k.serials /\ x8 \in 0 .. k.serials
    BY <1>1, <1>2, <1>3
  <2> QED
    BY <1>1, <1>2, <2>1 DEF Logging!TypeOK
<1>5. Logging(k)!Ordered
  BY <1>1, <1>2 DEF Logging!Ordered, Logging!InOrder
<1>6. Logging(k)!MonthIsNewest
  BY <1>1, <1>2, <1>3 DEF Logging!MonthIsNewest
<1>7. Logging(k)!FileFollows
  BY <1>1, <1>2, <1>3, EmptySeq DEF Logging!FileFollows
<1> QED
  BY <1>4, <1>5, <1>6, <1>7 DEF Logging!LogInv

\* The file that a line was put after, or not.
LEMMA LinePut ==
    ASSUME NEW k, x4 \in Logging(k)!File, NEW r \in Logging(k)!Record,
           x4.form \in {"absent", "log", "garbled"}, NEW outcome \in Logging(k)!Outcomes
    PROVE  LET f == Logging(k)!Appended(x4, r, outcome)
           IN  /\ f \in Logging(k)!File
               /\ \/ f = x4 /\ outcome = "nothing"
                  \/ f.form = "log" /\ f.recs = Append(x4.recs, r)
                     /\ (outcome = "whole" => f.terminated)
                  \/ f.form = "garbled" /\ f.recs = <<>>
               /\ outcome = "whole" /\ x4.form # "garbled" /\ x4.terminated =>
                     f.form = "log" /\ f.recs = Append(x4.recs, r) /\ f.terminated
<1> USE DEF Logging!File, Logging!Outcomes
<1>1. Append(x4.recs, r) \in Seq(Logging(k)!Record)
  BY AppendElements
<1>2. CASE outcome = "nothing"
  BY <1>2 DEF Logging!Appended
<1>3. CASE /\ outcome # "nothing" /\ x4.form \in {"absent", "log"} /\ x4.terminated
           /\ outcome # "cut"
  <2> DEFINE f == [x4 EXCEPT !.form = "log", !.recs = Append(x4.recs, r),
                             !.terminated = (outcome = "whole")]
  <2>1. Logging(k)!Appended(x4, r, outcome) = f
    BY <1>3 DEF Logging!Appended
  <2>2. f.form = "log" /\ f.recs = Append(x4.recs, r)
    OBVIOUS
  <2>3. f.terminated = (outcome = "whole")
    OBVIOUS
  <2>4. f \in Logging(k)!File
    BY <1>1
  <2> QED
    BY <2>1, <2>2, <2>3, <2>4
<1>4. CASE ~ (/\ outcome # "nothing" /\ x4.form \in {"absent", "log"} /\ x4.terminated
              /\ outcome # "cut") /\ outcome # "nothing"
  <2> DEFINE f == [form |-> "garbled", recs |-> <<>>, priced |-> FALSE, terminated |-> FALSE]
  <2>1. Logging(k)!Appended(x4, r, outcome) = f
    BY <1>4 DEF Logging!Appended
  <2>2. f \in Logging(k)!File
    BY EmptySeq
  <2> QED
    BY <1>4, <2>1, <2>2
<1> QED
  BY <1>2, <1>3, <1>4

\* The steps. Boot brings back what the file has, ...
LEMMA BootLogs ==
    ASSUME NEW k, Logging(k)!ConstantsOK, Logging(k)!LogInv, Logging(k)!Boot
    PROVE  Logging(k)!LogInv' /\ Logging(k)!KeepsRecords
<1> USE DEF Logging!LogInv
<1>1. /\ x2 \in Seq(Logging(k)!Record) /\ x4.recs \in Seq(Logging(k)!Record)
      /\ Len(x2) \in Nat /\ Len(x4.recs) \in Nat /\ Len(x4.recs) <= Len(x2) /\ Len(x2) <= k.max
      /\ Len(x2) <= x6 /\ x8 <= x6 /\ x5 \in 0 .. k.last /\ x6 \in 0 .. k.serials /\ x8 \in Nat
      /\ x4 \in Logging(k)!File /\ DOMAIN x4.recs = 1 .. Len(x4.recs)
  BY LenProperties DEF Logging!TypeOK, Logging!FileFollows, Logging!File
<1>2. /\ Logging(k)!Loaded(x4).recs = x4.recs
      /\ x7 => x4.recs = x2 /\ x4.terminated
  BY DEF Logging!Loaded, Logging!FileFollows
<1>3. /\ x1' = TRUE /\ x3' = TRUE /\ x2' = x4.recs /\ x5' = x5 /\ x6' = x6
      /\ IF x7 THEN x8' = x8 ELSE x8' = Cardinality({i \in DOMAIN x2' : x2'[i].month = x5})
      /\ \/ x4' = x4 /\ x7' = x7
         \/ x4' = Logging(k)!Persisted(x4.recs, TRUE) /\ x7' = TRUE
         \/ x4' = x4 /\ x7' = FALSE
  <2>1. /\ x1' = TRUE /\ x3' = TRUE /\ x2' = x4.recs /\ x5' = x5 /\ x6' = x6
    BY <1>2 DEF Logging!Boot
  <2>2. x8' = IF x7 THEN x8 ELSE Cardinality({i \in DOMAIN x2' : x2'[i].month = x5})
    BY Zenon, Counts DEF Logging!Boot
  <2>3. \/ x4' = x4 /\ x7' = x7
        \/ x4' = Logging(k)!Persisted(x4.recs, TRUE) /\ x7' = TRUE
        \/ x4' = x4 /\ x7' = FALSE
    BY <1>2 DEF Logging!Boot, Logging!Persist
  <2> QED
    BY <2>1, <2>2, <2>3
<1>4. /\ x4' \in Logging(k)!File /\ x4'.recs = x4.recs
      /\ x4'.form \in {"absent", "log", "garbled"}
      /\ x4'.form # "log" => x4'.recs = <<>>
      /\ x7' => x4'.form # "garbled" /\ x4'.terminated
  <2>1. CASE x4' = x4 /\ x7' = x7
    BY <1>1, <1>2, <2>1 DEF Logging!FileFollows
  <2>2. CASE x4' = Logging(k)!Persisted(x4.recs, TRUE)
    BY <1>1, <2>2 DEF Logging!Persisted, Logging!File
  <2>3. CASE x4' = x4 /\ x7' = FALSE
    BY <1>1, <2>3 DEF Logging!FileFollows
  <2> QED
    BY <1>3, <2>1, <2>2, <2>3
<1>5. Logging(k)!Ordered'
  BY <1>3, <1>4 DEF Logging!Ordered, Logging!InOrder
<1>6. /\ Logging(k)!MonthIsNewest'
      /\ x8' \in Nat /\ x8' <= x6
  <2>1. CASE x7
    BY <1>1, <1>2, <1>3, <2>1 DEF Logging!MonthIsNewest
  <2>2. CASE ~ x7
    <3> DEFINE n == Len(x4.recs)
    <3> DEFINE S == {i \in 1 .. n : x4.recs[i].month = x5}
    <3>1. x8' = Cardinality(S)
      BY <1>1, <1>3, <2>2
    <3>2. \A i \in 1 .. n : x4.recs[i].month \in Nat
      <4>1. \A i \in 1 .. n : x4.recs[i] \in Logging(k)!Record
        BY <1>1, ElementOfSeq
      <4> QED
        BY <4>1 DEF Logging!Record
    <3>3. \A i \in S : \A j \in i .. n : j \in S
      <4> SUFFICES ASSUME NEW i \in S, NEW j \in i .. n PROVE j \in S
        OBVIOUS
      <4>1. j \in 1 .. n /\ i \in 1 .. j
        BY <1>1
      <4>2. x4.recs[j].month <= x5 /\ x4.recs[i].month <= x4.recs[j].month
        BY <4>1 DEF Logging!Ordered, Logging!InOrder
      <4> QED
        BY <1>1, <3>2, <4>1, <4>2
    <3>4. /\ Cardinality(S) \in 0 .. n
          /\ \A i \in 1 .. n : i \in S <=> i + Cardinality(S) > n
      <4> HIDE DEF S
      <4>1. S \in SUBSET (1 .. n)
        BY DEF S
      <4> QED
        BY <1>1, <3>3, <4>1, UpwardClosed
    <3> QED
      BY <1>1, <1>3, <3>1, <3>4 DEF Logging!MonthIsNewest
  <2> QED
    BY <2>1, <2>2
<1>7. Logging(k)!FileFollows'
  BY <1>1, <1>3, <1>4, <1>6 DEF Logging!FileFollows
<1>8. Logging(k)!TypeOK'
  <2>1. x7' \in BOOLEAN
    BY <1>3 DEF Logging!TypeOK
  <2>2. x8' \in 0 .. k.serials /\ Len(x2') <= k.max
    <3>1. k.max \in Nat /\ k.serials \in Nat
      BY DEF Logging!ConstantsOK
    <3> QED
      BY <1>1, <1>3, <1>6, <3>1
  <2> QED
    BY <1>1, <1>3, <1>4, <2>1, <2>2 DEF Logging!TypeOK
<1> QED
  BY <1>2, <1>3, <1>5, <1>6, <1>7, <1>8 DEF Logging!KeepsRecords

\* ... a request's record is the newest, in memory and, whole, on disk, ...
LEMMA RecordLogs ==
    ASSUME NEW k, Logging(k)!ConstantsOK, Logging(k)!LogInv, Logging(k)!RecordUsage
    PROVE  Logging(k)!LogInv'
<1> USE DEF Logging!LogInv
<1> DEFINE r == [serial |-> x6 + 1, month |-> x5]
<1> DEFINE all == Append(x2, r)
<1> DEFINE n == Len(x2)
<1>1. /\ x2 \in Seq(Logging(k)!Record) /\ x4.recs \in Seq(Logging(k)!Record)
      /\ n \in Nat /\ Len(x4.recs) \in Nat /\ Len(x4.recs) <= n /\ n <= k.max
      /\ n <= x6 /\ x8 <= x6 /\ x5 \in 0 .. k.last /\ x5 \in Nat /\ x6 \in Nat /\ x8 \in Nat
      /\ x4 \in Logging(k)!File /\ k.max \in Nat /\ k.max >= 1 /\ k.serials \in Nat
  BY LenProperties DEF Logging!TypeOK, Logging!FileFollows, Logging!File, Logging!ConstantsOK
<1>2. /\ x6 < k.serials /\ x6' = x6 + 1 /\ x8' = x8 + 1 /\ x5' = x5
      /\ x1' = x1 /\ x3' = x3
      /\ IF Len(all) > k.max
         THEN /\ x2' = Logging(k)!Newest(all, k.max)
              /\ \/ x4' = Logging(k)!Persisted(x2', x3) /\ x7' = TRUE
                 \/ x4' = x4 /\ x7' = FALSE
         ELSE /\ x2' = all
              /\ \E outcome \in k.outcomes : /\ x4' = Logging(k)!Appended(x4, r, outcome)
                                             /\ x7' = (x7 /\ outcome = "whole")
  BY DEF Logging!RecordUsage, Logging!Persist
<1>3. r \in Logging(k)!Record /\ r.month = x5
  BY <1>1, <1>2 DEF Logging!Record
<1>4. \A e \in Logging(k)!Record : e.month \in Nat
  BY DEF Logging!Record
<1> HIDE DEF r
<1>5. /\ all \in Seq(Logging(k)!Record) /\ Len(all) = n + 1
      /\ \A i \in 1 .. n : all[i] = x2[i]
      /\ all[n + 1] = r
  BY <1>1, <1>3, AppendElements
<1>6. Logging(k)!InOrder(all) /\ Logging(k)!InOrder(Append(x4.recs, r))
  BY <1>1, <1>3, <1>4, OrderKept DEF Logging!Ordered
<1>7. \A i \in 1 .. n + 1 : (all[i].month = x5) <=> (i + x8 > n)
  <2>1. \A i \in 1 .. n : (all[i].month = x5) <=> (i + x8 > n)
    BY <1>5 DEF Logging!MonthIsNewest
  <2>2. (n + 1) + x8 > n
    BY <1>1
  <2> QED
    BY <1>1, <1>3, <1>5, <2>1, <2>2
<1> HIDE DEF all
<1>8. /\ x2' \in Seq(Logging(k)!Record) /\ Len(x2') \in Nat /\ Len(x2') <= k.max
      /\ Len(x2') <= x6' /\ n <= Len(x2')
      /\ Logging(k)!InOrder(x2')
      /\ \A i \in 1 .. Len(x2') : (x2'[i].month = x5) <=> (i + x8' > Len(x2'))
      /\ x8' <= Len(x2') \/ Len(x2') = k.max
  <2>1. CASE n + 1 <= k.max
    <3>1. x2' = all /\ Len(x2') = n + 1
      BY <1>1, <1>2, <1>5, <2>1
    <3>2. \A i \in 1 .. n + 1 : (i + x8 > n) <=> (i + x8' > n + 1)
      BY <1>1, <1>2
    <3>3. x8 <= n \/ n = k.max
      BY DEF Logging!MonthIsNewest
    <3>4. /\ x2' \in Seq(Logging(k)!Record) /\ Len(x2') \in Nat /\ Len(x2') <= k.max
          /\ n <= Len(x2') /\ Logging(k)!InOrder(x2')
      BY <1>1, <1>5, <1>6, <2>1, <3>1
    <3>5. \A i \in 1 .. Len(x2') : (x2'[i].month = x5) <=> (i + x8' > Len(x2'))
      BY <1>7, <3>1, <3>2
    <3>6. Len(x2') <= x6'
      BY <1>1, <1>2, <3>1
    <3>7. x8' <= Len(x2') \/ Len(x2') = k.max
      BY <1>1, <1>2, <2>1, <3>1, <3>3
    <3> QED
      BY <3>4, <3>5, <3>6, <3>7
  <2>2. CASE n = k.max
    <3>0. x2' = Logging(k)!Newest(all, n) /\ n >= 1
      BY <1>1, <1>2, <1>5, <2>2
    <3>1. /\ x2' = Logging(k)!Newest(all, n)
          /\ x2' \in Seq(Logging(k)!Record) /\ Len(x2') = n
          /\ \A i \in 1 .. n : x2'[i] = all[i + 1]
      <4>1. /\ all \in Seq(Logging(k)!Record) /\ Len(all) >= 2 /\ Len(all) = n + 1
            /\ Len(all) - n + 1 = 2 /\ Len(all) - 1 = n
        BY <1>1, <1>5, <3>0
      <4>2. Logging(k)!Newest(all, n) = SubSeq(all, 2, Len(all))
        BY <4>1 DEF Logging!Newest
      <4>3. /\ SubSeq(all, 2, Len(all)) \in Seq(Logging(k)!Record)
            /\ Len(SubSeq(all, 2, Len(all))) = Len(all) - 1
            /\ \A i \in 1 .. Len(all) - 1 : SubSeq(all, 2, Len(all))[i] = all[i + 1]
        BY <4>1, NewestElements
      <4> QED
        BY <3>0, <4>1, <4>2, <4>3
    <3>2. \A i \in 1 .. n : i + 1 \in 1 .. n + 1 /\ \A j \in 1 .. i : j + 1 \in 1 .. i + 1
      BY <1>1
    <3>3. Logging(k)!InOrder(x2')
      BY <1>5, <1>6, <3>1, <3>2 DEF Logging!InOrder
    <3>4. \A i \in 1 .. n : ((i + 1) + x8 > n) <=> (i + x8' > n)
      BY <1>1, <1>2
    <3>5. \A i \in 1 .. n : (x2'[i].month = x5) <=> (i + x8' > n)
      BY <1>7, <3>1, <3>2, <3>4
    <3> QED
      BY <1>1, <1>2, <2>2, <3>1, <3>3, <3>5
  <2> QED
    BY <1>1, <2>1, <2>2
<1>9. /\ x4' \in Logging(k)!File /\ x4'.form \in {"absent", "log", "garbled"}
      /\ x4'.form # "log" => x4'.recs = <<>>
      /\ Len(x4'.recs) <= Len(x2') /\ Logging(k)!InOrder(x4'.recs)
      /\ x7' \in BOOLEAN
      /\ x7' => x4'.recs = x2' /\ x4'.form # "garbled" /\ x4'.terminated
  <2>1. CASE x4' = x4 /\ x7' = FALSE
    <3>1. Len(x4.recs) <= Len(x2')
      BY <1>1, <1>8
    <3>2. Logging(k)!InOrder(x4.recs)
      BY DEF Logging!Ordered
    <3> QED
      BY <1>1, <2>1, <3>1, <3>2 DEF Logging!FileFollows
  <2>2. CASE x4' = Logging(k)!Persisted(x2', x3) /\ x7' = TRUE
    BY <1>8, <2>2 DEF Logging!Persisted, Logging!File, Logging!TypeOK
  <2>3. ASSUME x2' = all, NEW outcome \in k.outcomes,
               x4' = Logging(k)!Appended(x4, r, outcome), x7' = (x7 /\ outcome = "whole")
        PROVE  /\ x4' \in Logging(k)!File /\ x4'.form \in {"absent", "log", "garbled"}
               /\ x4'.form # "log" => x4'.recs = <<>>
               /\ Len(x4'.recs) <= Len(x2') /\ Logging(k)!InOrder(x4'.recs)
               /\ x7' \in BOOLEAN
               /\ x7' => x4'.recs = x2' /\ x4'.form # "garbled" /\ x4'.terminated
    <3>1. outcome \in Logging(k)!Outcomes
      BY <2>3 DEF Logging!ConstantsOK
    <3>2. x4.form \in {"absent", "log", "garbled"}
      BY DEF Logging!FileFollows
    <3>3. /\ x4' \in Logging(k)!File
          /\ \/ x4' = x4 /\ outcome = "nothing"
             \/ x4'.form = "log" /\ x4'.recs = Append(x4.recs, r)
             \/ x4'.form = "garbled" /\ x4'.recs = <<>>
          /\ outcome = "whole" /\ x4.form # "garbled" /\ x4.terminated =>
                x4'.form = "log" /\ x4'.recs = Append(x4.recs, r) /\ x4'.terminated
      BY <1>1, <1>3, <2>3, <3>1, <3>2, LinePut
    <3>4. x7' \in BOOLEAN
      BY <2>3
    <3>5. ASSUME x7' PROVE x4'.recs = x2' /\ x4'.form # "garbled" /\ x4'.terminated
      <4>1. x7 /\ outcome = "whole"
        BY <2>3, <3>5
      <4>2. x4.recs = x2 /\ x4.form # "garbled" /\ x4.terminated
        BY <4>1 DEF Logging!FileFollows
      <4> QED
        BY <2>3, <3>3, <4>1, <4>2 DEF all
    <3>6. /\ Len(Append(x4.recs, r)) <= Len(x2')
          /\ Len(x4.recs) <= Len(x2')
          /\ Len(<<>>) = 0
      BY <1>1, <1>3, <1>5, <1>8, <2>3, AppendElements
    <3>7. Logging(k)!InOrder(<<>>)
      BY DEF Logging!InOrder
    <3>8. \/ x4'.form = x4.form /\ x4'.recs = x4.recs
          \/ x4'.form = "log" /\ x4'.recs = Append(x4.recs, r)
          \/ x4'.form = "garbled" /\ x4'.recs = <<>>
      BY <3>3
    <3>9. /\ x4'.form \in {"absent", "log", "garbled"}
          /\ x4'.form # "log" => x4'.recs = <<>>
      BY <3>2, <3>8 DEF Logging!FileFollows
    <3>10. Logging(k)!InOrder(x4'.recs)
      BY <1>6, <3>7, <3>8 DEF Logging!Ordered
    <3>11. Len(x4'.recs) <= Len(x2')
      BY <1>8, <3>6, <3>8
    <3> QED
      BY <3>3, <3>4, <3>5, <3>9, <3>10, <3>11
  <2> QED
    BY <1>2, <2>1, <2>2, <2>3
<1>10. x8' \in 0 .. k.serials /\ x6' \in 0 .. k.serials /\ x8' <= x6'
  BY <1>1, <1>2
<1>11. Logging(k)!TypeOK'
  BY <1>1, <1>2, <1>8, <1>9, <1>10 DEF Logging!TypeOK
<1>12. Logging(k)!Ordered'
  BY <1>2, <1>8, <1>9 DEF Logging!Ordered, Logging!InOrder
<1>13. Logging(k)!MonthIsNewest'
  BY <1>2, <1>8 DEF Logging!MonthIsNewest
<1>14. Logging(k)!FileFollows'
  BY <1>8, <1>9, <1>10 DEF Logging!FileFollows
<1> QED
  BY <1>11, <1>12, <1>13, <1>14

\* ... and the others leave the records alone.
LEMMA OthersLog ==
    ASSUME NEW k, Logging(k)!ConstantsOK, Logging(k)!LogInv,
           Logging(k)!SavePricing \/ Logging(k)!ProcessEnds \/ Logging(k)!MonthEnds
              \/ UNCHANGED Logging(k)!vars
    PROVE  Logging(k)!LogInv'
<1> USE DEF Logging!LogInv
<1>1. /\ Len(x2) \in Nat /\ x5 \in Nat /\ x8 \in Nat /\ x6 \in Nat /\ k.last \in Nat
      /\ x2 \in Seq(Logging(k)!Record) /\ Len(x4.recs) \in Nat
      /\ \A i \in 1 .. Len(x2) : x2[i].month \in Nat
      /\ \A i \in 1 .. Len(x4.recs) : x4.recs[i].month \in Nat
  <2>1. x2 \in Seq(Logging(k)!Record) /\ x4.recs \in Seq(Logging(k)!Record)
    BY DEF Logging!TypeOK, Logging!File
  <2>2. \A e \in Logging(k)!Record : e.month \in Nat
    BY DEF Logging!Record
  <2>3. /\ \A i \in 1 .. Len(x2) : x2[i] \in Logging(k)!Record
        /\ \A i \in 1 .. Len(x4.recs) : x4.recs[i] \in Logging(k)!Record
    BY <2>1, ElementOfSeq
  <2> QED
    BY <2>1, <2>2, <2>3, LenProperties DEF Logging!TypeOK, Logging!ConstantsOK
<1>2. CASE Logging(k)!SavePricing
  <2>1. /\ UNCHANGED <<x1, x2, x5, x6, x8>> /\ x3' \in BOOLEAN
        /\ \/ x4' = Logging(k)!Persisted(x2, x3') /\ x7' = TRUE
           \/ x4' = x4 /\ x7' = FALSE
    BY <1>2 DEF Logging!SavePricing, Logging!Persist
  <2>2. /\ x4' \in Logging(k)!File /\ x4'.form \in {"absent", "log", "garbled"}
        /\ x4'.form # "log" => x4'.recs = <<>>
        /\ x4'.recs = x2 \/ x4'.recs = x4.recs
        /\ x7' => x4'.recs = x2 /\ x4'.form # "garbled" /\ x4'.terminated
        /\ x7' \in BOOLEAN
    <3>1. CASE x4' = Logging(k)!Persisted(x2, x3') /\ x7' = TRUE
      BY <1>1, <2>1, <3>1 DEF Logging!Persisted, Logging!File
    <3>2. CASE x4' = x4 /\ x7' = FALSE
      BY <3>2 DEF Logging!FileFollows, Logging!TypeOK
    <3> QED
      BY <2>1, <3>1, <3>2
  <2>3. Logging(k)!TypeOK'
    BY <2>1, <2>2 DEF Logging!TypeOK
  <2>4. Logging(k)!Ordered'
    BY <2>1, <2>2 DEF Logging!Ordered, Logging!InOrder
  <2>5. Logging(k)!MonthIsNewest'
    BY <2>1 DEF Logging!MonthIsNewest
  <2>6. Logging(k)!FileFollows'
    BY <1>1, <2>1, <2>2 DEF Logging!FileFollows
  <2> QED
    BY <2>3, <2>4, <2>5, <2>6
<1>3. CASE Logging(k)!ProcessEnds
  BY <1>3 DEF Logging!ProcessEnds, Logging!TypeOK, Logging!Ordered, Logging!InOrder,
     Logging!MonthIsNewest, Logging!FileFollows
<1>4. CASE Logging(k)!MonthEnds
  <2>1. /\ UNCHANGED <<x1, x2, x3, x4, x6, x7>> /\ x5' = x5 + 1 /\ x5 < k.last /\ x8' = 0
    BY <1>4 DEF Logging!MonthEnds
  <2>2. Logging(k)!TypeOK'
    <3>1. x5' \in 0 .. k.last /\ 0 \in 0 .. k.serials
      BY <1>1, <2>1 DEF Logging!TypeOK, Logging!ConstantsOK
    <3> QED
      BY <2>1, <3>1 DEF Logging!TypeOK
  <2>3. Logging(k)!Ordered'
    BY <1>1, <2>1 DEF Logging!Ordered, Logging!InOrder
  <2>4. \A i \in 1 .. Len(x2) : x2[i].month <= x5
    BY DEF Logging!Ordered, Logging!InOrder
  <2>5. Logging(k)!MonthIsNewest'
    BY <1>1, <2>1, <2>4 DEF Logging!MonthIsNewest
  <2>6. Logging(k)!FileFollows'
    BY <1>1, <2>1 DEF Logging!FileFollows
  <2> QED
    BY <2>2, <2>3, <2>5, <2>6
<1>5. CASE UNCHANGED Logging(k)!vars
  BY <1>5 DEF Logging!vars, Logging!TypeOK, Logging!Ordered, Logging!InOrder,
     Logging!MonthIsNewest, Logging!FileFollows
<1> QED
  BY <1>2, <1>3, <1>4, <1>5

\* No step loses count, and a start keeps the records.
LEMMA LogSteps ==
    ASSUME NEW k, Logging(k)!ConstantsOK, Logging(k)!LogInv,
           [Logging(k)!Next]_(Logging(k)!vars)
    PROVE  Logging(k)!LogInv' /\ Logging(k)!KeepsRecords
<1>1. ~ Logging(k)!Boot => Logging(k)!KeepsRecords
  BY DEF Logging!Next, Logging!RecordUsage, Logging!SavePricing, Logging!ProcessEnds,
     Logging!MonthEnds, Logging!vars, Logging!KeepsRecords
<1> QED
  BY <1>1, BootLogs, RecordLogs, OthersLog DEF Logging!Next

\* This month's records are as many as were recorded.
LEMMA LogExact ==
    ASSUME NEW k, Logging(k)!ConstantsOK, Logging(k)!LogInv
    PROVE  Logging(k)!MonthCostExact
<1> SUFFICES ASSUME x8 <= k.max PROVE Logging(k)!MonthCost = x8
  BY DEF Logging!MonthCostExact
<1> DEFINE n == Len(x2)
<1>1. n \in Nat /\ DOMAIN x2 = 1 .. n /\ x8 \in Nat /\ k.max \in Nat
  BY LenProperties DEF Logging!LogInv, Logging!TypeOK, Logging!ConstantsOK
<1>2. x8 <= n
  BY <1>1 DEF Logging!LogInv, Logging!MonthIsNewest
<1>3. {i \in DOMAIN x2 : x2[i].month = x5} = (n - x8 + 1) .. n
  <2>1. \A i \in 1 .. n : (i + x8 > n) <=> i \in (n - x8 + 1) .. n
    BY <1>1, <1>2
  <2>2. (n - x8 + 1) .. n \subseteq 1 .. n
    BY <1>1, <1>2
  <2> QED
    BY <1>1, <2>1, <2>2 DEF Logging!LogInv, Logging!MonthIsNewest
<1>4. Cardinality((n - x8 + 1) .. n) = x8
  <2>1. n - x8 + 1 \in Int /\ n \in Int /\ n - (n - x8 + 1) + 1 = x8
    BY <1>1
  <2> QED
    BY <1>1, <1>2, <2>1, FS_Interval
<1>5. Logging(k)!MonthCost = Cardinality({i \in DOMAIN x2 : x2[i].month = x5})
  BY MonthCounts
<1> QED
  BY <1>3, <1>4, <1>5

\* For any limits, outcomes of writes and logs this build left behind: the
\* month's cost counts each request once, and a restart after whole writes
\* brings back the records.
THEOREM LogIsExact ==
    ASSUME NEW k, Logging(k)!ConstantsOK, Logging(k)!OwnFiles
    PROVE  Logging(k)!Spec => [](Logging(k)!TypeOK /\ Logging(k)!MonthCostExact)
                              /\ Logging(k)!RestartKeepsRecords
<1>1. Logging(k)!Init => Logging(k)!LogInv
  BY LogStarts
<1>2. Logging(k)!LogInv /\ [Logging(k)!Next]_(Logging(k)!vars)
         => Logging(k)!LogInv' /\ Logging(k)!KeepsRecords
  BY LogSteps
<1>3. Logging(k)!LogInv => Logging(k)!TypeOK /\ Logging(k)!MonthCostExact
  BY LogExact DEF Logging!LogInv
<1> QED
  BY <1>1, <1>2, <1>3, PTL DEF Logging!Spec, Logging!RestartKeepsRecords

-----------------------------------------------------------------------------
\* Lists at some of their positions. The places of N positions are 1 .. N, in
\* order.
LEMMA PlacesRise ==
    ASSUME NEW N \in Nat, NEW P, P \subseteq 1 .. N
    PROVE  /\ IsFiniteSet(P) /\ Cardinality(P) \in Nat
           /\ \A i \in P : Place(P, i) \in 1 .. Cardinality(P)
           /\ \A i, j \in P : i < j => Place(P, i) < Place(P, j)
<1>1. IsFiniteSet(P) /\ Cardinality(P) \in Nat
  <2>1. IsFiniteSet(1 .. N)
    BY FS_Interval
  <2>2. IsFiniteSet(P)
    BY <2>1, FS_Subset
  <2> QED
    BY <2>2, FS_CardinalityType
<1>2. ASSUME NEW i \in P
      PROVE  LET U == {j \in P : j <= i} IN
             IsFiniteSet(U) /\ Cardinality(U) \in 1 .. Cardinality(P) /\ Place(P, i) = Cardinality(U)
  <2> DEFINE U == {j \in P : j <= i}
  <2>1. U \in SUBSET P /\ i \in U
    OBVIOUS
  <2>2. IsFiniteSet(U) /\ Cardinality(U) <= Cardinality(P)
    BY <1>1, <2>1, FS_Subset
  <2>3. Cardinality(U) \in Nat /\ Cardinality(U) # 0
    BY <2>1, <2>2, FS_CardinalityType, FS_EmptySet
  <2> QED
    BY <1>1, <2>2, <2>3 DEF Place
<1>3. ASSUME NEW i \in P, NEW j \in P, i < j PROVE Place(P, i) < Place(P, j)
  <2> DEFINE U == {m \in P : m <= i}
             V == {m \in P : m <= j}
  <2>1. U \in SUBSET V /\ j \in V /\ j \notin U
    <3>1. i \in Nat /\ j \in Nat /\ \A m \in P : m \in Nat
      OBVIOUS
    <3>2. \A m \in P : m <= i => m <= j
      BY <1>3, <3>1
    <3>3. ~ j <= i /\ j <= j
      BY <1>3, <3>1
    <3> QED
      BY <3>2, <3>3
  <2>2. IsFiniteSet(U) /\ IsFiniteSet(V) /\ Cardinality(U) \in Nat /\ Cardinality(V) \in Nat
    BY <1>1, <1>2
  <2>3. Cardinality(U) <= Cardinality(V) /\ Cardinality(U) # Cardinality(V)
    <3> HIDE DEF U, V
    <3> QED
      BY <2>1, <2>2, FS_Subset
  <2> QED
    BY <2>2, <2>3 DEF Place
<1> QED
  BY <1>1, <1>2, <1>3

LEMMA NthIsThere ==
    ASSUME NEW N \in Nat, NEW P, P \subseteq 1 .. N
    PROVE  /\ \A n \in 1 .. Cardinality(P) : Nth(P, n) \in P /\ Place(P, Nth(P, n)) = n
           /\ \A i \in P : Nth(P, Place(P, i)) = i
<1> DEFINE C == Cardinality(P)
           f == [i \in P |-> Place(P, i)]
<1>1. IsFiniteSet(P) /\ C \in Nat /\ (\A i \in P : Place(P, i) \in 1 .. C) /\ f \in [P -> 1 .. C]
  BY PlacesRise
<1>2. ASSUME NEW i \in P, NEW j \in P, Place(P, i) = Place(P, j) PROVE i = j
  <2>1. i \in Nat /\ j \in Nat /\ Place(P, i) \in Nat
    BY <1>1
  <2>2. \A m, n \in P : m < n => Place(P, m) < Place(P, n)
    BY PlacesRise
  <2>3. ~ i < j /\ ~ j < i
    BY <1>2, <2>1, <2>2
  <2> QED
    BY <2>1, <2>3
<1>3. f \in Injection(P, 1 .. C)
  BY <1>1, <1>2 DEF Injection, IsInjective
<1>4. IsFiniteSet(1 .. C) /\ Cardinality(1 .. C) = C
  BY <1>1, FS_Interval
<1>5. f \in Surjection(P, 1 .. C)
  <2> HIDE DEF f
  <2> QED
    BY <1>1, <1>3, <1>4, FS_Injection
<1>6. \A n \in 1 .. C : \E i \in P : Place(P, i) = n
  BY <1>5 DEF Surjection
<1>7. \A n \in 1 .. C : Nth(P, n) \in P /\ Place(P, Nth(P, n)) = n
  BY <1>6 DEF Nth
<1>8. ASSUME NEW i \in P PROVE Nth(P, Place(P, i)) = i
  <2>1. Place(P, i) \in 1 .. C
    BY <1>1
  <2>2. Nth(P, Place(P, i)) \in P /\ Place(P, Nth(P, Place(P, i))) = Place(P, i)
    BY <1>7, <2>1
  <2> QED
    BY <1>2, <2>2
<1> QED
  BY <1>7, <1>8

\* A sublist is a list of what is there at the positions, all of it, in order.
LEMMA SublistHas ==
    ASSUME NEW T, NEW s \in Seq(T), NEW P, P \subseteq DOMAIN s
    PROVE  /\ Sublist(s, P) \in Seq(T) /\ Len(Sublist(s, P)) = Cardinality(P)
           /\ \A n \in DOMAIN Sublist(s, P) : Nth(P, n) \in P /\ Sublist(s, P)[n] = s[Nth(P, n)]
           /\ \A i \in P : Place(P, i) \in DOMAIN Sublist(s, P) /\ Sublist(s, P)[Place(P, i)] = s[i]
           /\ \A m, n \in DOMAIN Sublist(s, P) : m < n => Nth(P, m) < Nth(P, n)
<1> DEFINE C == Cardinality(P)
           u == Sublist(s, P)
<1>1. Len(s) \in Nat /\ DOMAIN s = 1 .. Len(s) /\ P \subseteq 1 .. Len(s)
  OBVIOUS
<1>2. C \in Nat /\ \A i \in P : Place(P, i) \in 1 .. C
  BY <1>1, PlacesRise
<1>3. /\ \A n \in 1 .. C : Nth(P, n) \in P /\ Place(P, Nth(P, n)) = n
      /\ \A i \in P : Nth(P, Place(P, i)) = i
  BY <1>1, NthIsThere
<1>4. u = [n \in 1 .. C |-> s[Nth(P, n)]]
  BY DEF Sublist
<1>5. \A n \in 1 .. C : s[Nth(P, n)] \in T
  BY <1>1, <1>3
<1>6. u \in [1 .. C -> T]
  BY <1>4, <1>5
<1>7. u \in Seq(T) /\ Len(u) = C /\ DOMAIN u = 1 .. C
  <2> HIDE DEF u
  <2> QED
    BY <1>2, <1>6
<1>8. ASSUME NEW m \in 1 .. C, NEW n \in 1 .. C, m < n PROVE Nth(P, m) < Nth(P, n)
  <2>1. Nth(P, m) \in P /\ Nth(P, n) \in P /\ Place(P, Nth(P, m)) < Place(P, Nth(P, n))
    BY <1>3, <1>8
  <2>2. Nth(P, m) # Nth(P, n) /\ ~ Nth(P, n) < Nth(P, m)
    <3>1. Nth(P, n) < Nth(P, m) => Place(P, Nth(P, n)) < Place(P, Nth(P, m))
      BY <1>1, <2>1, PlacesRise
    <3> QED
      BY <1>2, <2>1, <3>1
  <2>3. Nth(P, m) \in Nat /\ Nth(P, n) \in Nat
    BY <1>1, <2>1
  <2> QED
    BY <2>2, <2>3
<1> QED
  BY <1>2, <1>3, <1>4, <1>7, <1>8

\* The positions P in a list of length L and Q in one that is put after it.
Beside(P, L, Q) == P \cup {L + j : j \in Q}

\* The places in two lists that are put together.
LEMMA PlacesOfConcat ==
    ASSUME NEW L \in Nat, NEW M \in Nat, NEW P, NEW Q, P \subseteq 1 .. L, Q \subseteq 1 .. M
    PROVE  /\ Beside(P, L, Q) \subseteq 1 .. L + M
           /\ Cardinality(P) \in Nat /\ Cardinality(Q) \in Nat
           /\ Cardinality(Beside(P, L, Q)) = Cardinality(P) + Cardinality(Q)
           /\ \A i \in P : Place(Beside(P, L, Q), i) = Place(P, i)
           /\ \A j \in Q : Place(Beside(P, L, Q), L + j) = Cardinality(P) + Place(Q, j)
<1> DEFINE Moved(S) == {L + j : j \in S}
           R == Beside(P, L, Q)
<1>0. R = P \cup Moved(Q)
  BY DEF Beside
<1> HIDE DEF R
<1>1. (\A i \in P : i \in Nat /\ i <= L) /\ (\A j \in Q : j \in Nat /\ 1 <= j /\ j <= M)
  OBVIOUS
<1>2. IsFiniteSet(P) /\ IsFiniteSet(Q) /\ Cardinality(P) \in Nat /\ Cardinality(Q) \in Nat
  BY PlacesRise
<1>3. ASSUME NEW S, S \subseteq Q
      PROVE  Cardinality(P \cup Moved(S)) = Cardinality(P) + Cardinality(S)
  <2> DEFINE f == [j \in S |-> L + j]
  <2>1. IsFiniteSet(S) /\ Cardinality(S) \in Nat
    BY <1>3, PlacesRise
  <2>2. f \in Bijection(S, Moved(S))
    <3>1. f \in [S -> Moved(S)]
      OBVIOUS
    <3>2. \A a, b \in S : f[a] = f[b] => a = b
      BY <1>1, <1>3
    <3>3. \A m \in Moved(S) : \E a \in S : f[a] = m
      OBVIOUS
    <3> QED
      BY <3>1, <3>2, <3>3 DEF Bijection, Injection, IsInjective, Surjection
  <2>3. ExistsBijection(S, Moved(S))
    BY <2>2 DEF ExistsBijection
  <2>4. IsFiniteSet(Moved(S)) /\ Cardinality(Moved(S)) = Cardinality(S)
    <3> HIDE DEF Moved
    <3> QED
      BY <2>1, <2>3, FS_Bijection
  <2>5. P \cap Moved(S) = {}
    BY <1>1, <1>3
  <2>6. Cardinality({}) = 0
    BY FS_EmptySet
  <2> HIDE DEF Moved
  <2>7. Cardinality(P \cup Moved(S)) = Cardinality(P) + Cardinality(Moved(S)) - 0
    BY <1>2, <2>4, <2>5, <2>6, FS_Union
  <2> QED
    BY <1>2, <2>1, <2>4, <2>7
<1>4. ASSUME NEW i \in P PROVE Place(R, i) = Place(P, i)
  <2>1. {m \in R : m <= i} = {m \in P : m <= i}
    BY <1>0, <1>1
  <2> QED
    BY <2>1 DEF Place
<1>5. ASSUME NEW j \in Q PROVE Place(R, L + j) = Cardinality(P) + Place(Q, j)
  <2> DEFINE S == {m \in Q : m <= j}
  <2>1. {m \in R : m <= L + j} = P \cup Moved(S)
    <3>1. j \in Nat /\ \A i \in P : i <= L + j
      BY <1>1
    <3>2. \A m \in Q : L + m <= L + j <=> m <= j
      BY <1>1
    <3> QED
      BY <1>0, <3>1, <3>2
  <2>2. Cardinality(P \cup Moved(S)) = Cardinality(P) + Cardinality(S)
    BY <1>3
  <2> HIDE DEF Moved
  <2> QED
    BY <2>1, <2>2 DEF Place
<1>6. R \subseteq 1 .. L + M
  <2>1. \A i \in P : i \in 1 .. L + M
    BY <1>1
  <2>2. \A j \in Q : L + j \in 1 .. L + M
    BY <1>1
  <2> QED
    BY <1>0, <2>1, <2>2
<1>7. Cardinality(R) = Cardinality(P) + Cardinality(Q)
  BY <1>0, <1>3
<1> USE DEF R
<1> QED
  BY <1>2, <1>4, <1>5, <1>6, <1>7

\* The sublist of two lists that are put together is their sublists put
\* together.
LEMMA SublistOfConcat ==
    ASSUME NEW T, NEW s \in Seq(T), NEW t \in Seq(T), NEW P, NEW Q, P \subseteq DOMAIN s, Q \subseteq DOMAIN t
    PROVE  Sublist(s \o t, Beside(P, Len(s), Q)) = Sublist(s, P) \o Sublist(t, Q)
<1> DEFINE L == Len(s)
           M == Len(t)
           C == Cardinality(P)
           D == Cardinality(Q)
           R == Beside(P, L, Q)
           u == Sublist(s, P) \o Sublist(t, Q)
<1>1. L \in Nat /\ M \in Nat /\ DOMAIN s = 1 .. L /\ DOMAIN t = 1 .. M /\ P \subseteq 1 .. L /\ Q \subseteq 1 .. M
  OBVIOUS
<1>2. /\ R \subseteq 1 .. L + M /\ C \in Nat /\ D \in Nat /\ Cardinality(R) = C + D
      /\ \A i \in P : Place(R, i) = Place(P, i)
      /\ \A j \in Q : Place(R, L + j) = C + Place(Q, j)
  <2> HIDE DEF L, M
  <2> QED
    BY <1>1, PlacesOfConcat
<1>3. \A i \in R : Nth(R, Place(R, i)) = i
  <2> HIDE DEF R, L, M
  <2>1. L + M \in Nat
    BY <1>1
  <2> QED
    BY <1>2, <2>1, NthIsThere
<1>4. Sublist(s \o t, R) = [n \in 1 .. C + D |-> (s \o t)[Nth(R, n)]]
  <2> HIDE DEF R
  <2> QED
    BY <1>2 DEF Sublist
<1>5. /\ Sublist(s, P) \in Seq(T) /\ Len(Sublist(s, P)) = C
      /\ Sublist(t, Q) \in Seq(T) /\ Len(Sublist(t, Q)) = D
      /\ \A n \in 1 .. C : Sublist(s, P)[n] = s[Nth(P, n)]
      /\ \A n \in 1 .. D : Sublist(t, Q)[n] = t[Nth(Q, n)]
  <2>1. Sublist(s, P) \in Seq(T) /\ Len(Sublist(s, P)) = C
    BY SublistHas
  <2>2. Sublist(t, Q) \in Seq(T) /\ Len(Sublist(t, Q)) = D
    BY SublistHas
  <2> QED
    BY <2>1, <2>2 DEF Sublist
<1>6. u \in Seq(T) /\ Len(u) = C + D
  <2> DEFINE a == Sublist(s, P)
             b == Sublist(t, Q)
  <2>1. a \in Seq(T) /\ Len(a) = C /\ b \in Seq(T) /\ Len(b) = D
    BY <1>5
  <2> HIDE DEF a, b, C, D
  <2>2. a \o b \in Seq(T) /\ Len(a \o b) = C + D
    BY <2>1
  <2> QED
    BY <2>2 DEF a, b
<1>7. /\ \A n \in 1 .. C : Nth(P, n) \in P /\ Place(P, Nth(P, n)) = n
      /\ \A n \in 1 .. D : Nth(Q, n) \in Q /\ Place(Q, Nth(Q, n)) = n
  BY <1>1, NthIsThere
<1>8. ASSUME NEW n \in 1 .. C PROVE (s \o t)[Nth(R, n)] = u[n]
  <2>1. Nth(P, n) \in P /\ Nth(P, n) \in R /\ Place(R, Nth(P, n)) = n
    BY <1>2, <1>7 DEF Beside
  <2>2. Nth(R, n) = Nth(P, n)
    <3> HIDE DEF R, C
    <3> QED
      BY <1>3, <2>1
  <2>3. (s \o t)[Nth(P, n)] = s[Nth(P, n)]
    BY <1>1, <2>1
  <2>4. u[n] = Sublist(s, P)[n]
    <3> HIDE DEF C
    <3> QED
      BY <1>2, <1>5
  <2> QED
    BY <1>5, <2>2, <2>3, <2>4
<1>9. ASSUME NEW n \in 1 .. D PROVE (s \o t)[Nth(R, C + n)] = u[C + n]
  <2>1. Nth(Q, n) \in Q /\ L + Nth(Q, n) \in R /\ Place(R, L + Nth(Q, n)) = C + n
    BY <1>2, <1>7 DEF Beside
  <2>2. Nth(R, C + n) = L + Nth(Q, n)
    <3> HIDE DEF R, C
    <3> QED
      BY <1>3, <2>1
  <2>3. (s \o t)[L + Nth(Q, n)] = t[Nth(Q, n)]
    BY <1>1, <2>1
  <2>4. u[C + n] = Sublist(t, Q)[n]
    <3> HIDE DEF C, D
    <3> QED
      BY <1>2, <1>5
  <2> QED
    BY <1>5, <2>2, <2>3, <2>4
<1>10. \A n \in 1 .. C + D : n \in 1 .. C \/ \E m \in 1 .. D : n = C + m
  <2>1. ASSUME NEW n \in 1 .. C + D, ~ n \in 1 .. C PROVE n - C \in 1 .. D /\ n = C + (n - C)
    <3> HIDE DEF C, D
    <3> QED
      BY <1>2, <2>1
  <2> QED
    BY <2>1
<1>11. \A n \in 1 .. C + D : (s \o t)[Nth(R, n)] = u[n]
  BY <1>8, <1>9, <1>10
<1>12. u = [n \in 1 .. C + D |-> u[n]]
  <2> HIDE DEF u, C, D
  <2> QED
    BY <1>2, <1>6
<1> QED
  <2> HIDE DEF u, C, D, R
  <2>1. [n \in 1 .. C + D |-> (s \o t)[Nth(R, n)]] = [n \in 1 .. C + D |-> u[n]]
    BY <1>11
  <2>2. Sublist(s \o t, R) = u
    BY <1>4, <1>12, <2>1
  <2> QED
    BY <2>2 DEF R, u

LEMMA SublistOfFew ==
    ASSUME NEW s, NEW x
    PROVE  Sublist(s, {}) = <<>> /\ Sublist(<<x>>, {1}) = <<x>>
<1>1. Cardinality({}) = 0 /\ Cardinality({1}) = 1
  BY FS_EmptySet, FS_Singleton
<1>2. Sublist(s, {}) = <<>>
  BY <1>1 DEF Sublist
<1>3. Nth({1}, 1) = 1
  <2>1. {j \in {1} : j <= 1} = {1}
    OBVIOUS
  <2>2. Place({1}, 1) = 1
    BY <1>1, <2>1 DEF Place
  <2> QED
    BY <2>2 DEF Nth
<1>4. Sublist(<<x>>, {1}) = [n \in 1 .. 1 |-> x]
  BY <1>1, <1>3 DEF Sublist
<1> QED
  BY <1>2, <1>4

-----------------------------------------------------------------------------
\* The desktop's channels, for any channels, accounts, commands and faults. Of
\* the pool x1 .. x10 are up, channels, default, file, keychain, account, edit,
\* pc, fetched and intact.

\* A sublist inside the module is a sublist.
LEMMA ConfigSublists ==
    ASSUME NEW k, NEW s, NEW P
    PROVE  Configuring(k)!Sublist(s, P) = Sublist(s, P)
<1>1. \A S : Configuring(k)!Cardinality(S) = Cardinality(S)
  BY DEF Configuring!Cardinality, Cardinality
<1>2. \A i : Configuring(k)!Place(P, i) = Place(P, i)
  BY <1>1 DEF Configuring!Place, Place
<1>3. \A n : Configuring(k)!Nth(P, n) = Nth(P, n)
  <2>1. ASSUME NEW n PROVE Configuring(k)!Nth(P, n) = Nth(P, n)
    <3>1. Configuring(k)!Nth(P, n) = CHOOSE i \in P : Configuring(k)!Place(P, i) = n
      BY DEF Configuring!Nth
    <3>2. Nth(P, n) = CHOOSE i \in P : Place(P, i) = n
      BY DEF Nth
    <3>3. (CHOOSE i \in P : Configuring(k)!Place(P, i) = n) = CHOOSE i \in P : Place(P, i) = n
      BY <1>2
    <3> QED
      BY <3>1, <3>2, <3>3
  <2> QED
    BY <2>1
<1> QED
  BY <1>1, <1>3 DEF Configuring!Sublist, Sublist

\* A channel has an id, a type and keys, and is no more than these.
LEMMA ChannelIs ==
    ASSUME NEW k, NEW c \in Configuring(k)!Channel
    PROVE  /\ c.id \in k.custom \cup k.accounts /\ c.type \in {"custom", "platform"}
           /\ c.keys \in k.lists \cup {k.noKeys}
           /\ \A d \in Configuring(k)!Channel :
                 c.id = d.id /\ c.type = d.type /\ c.keys = d.keys => c = d
           /\ \A q \in k.lists \cup {k.noKeys} :
                 LET d == [c EXCEPT !.keys = q]
                 IN  d \in Configuring(k)!Channel /\ d.id = c.id /\ d.type = c.type /\ d.keys = q
BY DEF Configuring!Channel, Configuring!Ids

\* Some channels of a proper list are a proper list, and all there.
LEMMA SomeChannels ==
    ASSUME NEW k, NEW s \in Seq(Configuring(k)!Channel), Configuring(k)!Proper(s),
           NEW P, P \subseteq DOMAIN s
    PROVE  /\ Sublist(s, P) \in Seq(Configuring(k)!Channel) /\ Configuring(k)!Proper(Sublist(s, P))
           /\ \A n \in DOMAIN Sublist(s, P) : \E i \in P : Sublist(s, P)[n] = s[i]
           /\ \A i \in P : \E n \in DOMAIN Sublist(s, P) : Sublist(s, P)[n] = s[i]
<1> DEFINE u == Sublist(s, P)
<1>1. /\ u \in Seq(Configuring(k)!Channel)
      /\ \A n \in DOMAIN u : Nth(P, n) \in P /\ u[n] = s[Nth(P, n)]
      /\ \A i \in P : Place(P, i) \in DOMAIN u /\ u[Place(P, i)] = s[i]
      /\ \A m, n \in DOMAIN u : m < n => Nth(P, m) < Nth(P, n)
  BY SublistHas
<1> HIDE DEF u
<1>2. ASSUME NEW m \in DOMAIN u, NEW n \in DOMAIN u, u[m].id = u[n].id PROVE m = n
  <2>1. Nth(P, m) = Nth(P, n)
    BY SMTT(40), <1>1, <1>2 DEF Configuring!Proper
  <2>2. m \in Nat /\ n \in Nat /\ Nth(P, m) \in Nat
    <3>1. /\ Len(u) \in Nat /\ DOMAIN u = 1 .. Len(u)
          /\ Len(s) \in Nat /\ DOMAIN s = 1 .. Len(s)
      BY <1>1, LenProperties
    <3>2. Nth(P, m) \in DOMAIN s
      BY <1>1
    <3> QED
      BY <3>1, <3>2
  <2>3. ~ m < n /\ ~ n < m
    BY <1>1, <2>1, <2>2
  <2> QED
    BY <2>2, <2>3
<1>3. Configuring(k)!Proper(u)
  BY <1>1, <1>2 DEF Configuring!Proper
<1> QED
  BY <1>1, <1>3 DEF u

\* Two lists as one.
Joined(s, t) == s \o t

\* Proper lists of different channels are one when put together.
LEMMA ChannelsTogether ==
    ASSUME NEW k, NEW s \in Seq(Configuring(k)!Channel), NEW t \in Seq(Configuring(k)!Channel),
           NEW u, u = Joined(s, t), Configuring(k)!Proper(s), Configuring(k)!Proper(t),
           \A i \in DOMAIN s : \A j \in DOMAIN t : s[i].id # t[j].id
    PROVE  /\ u \in Seq(Configuring(k)!Channel) /\ Configuring(k)!Proper(u)
           /\ \A n \in DOMAIN u : (\E i \in DOMAIN s : u[n] = s[i]) \/ \E j \in DOMAIN t : u[n] = t[j]
           /\ \A i \in DOMAIN s : \E n \in DOMAIN u : u[n] = s[i]
           /\ \A j \in DOMAIN t : \E n \in DOMAIN u : u[n] = t[j]
<1> DEFINE L == Len(s)
<1>1. /\ L \in Nat /\ Len(t) \in Nat /\ DOMAIN s = 1 .. L /\ DOMAIN t = 1 .. Len(t)
      /\ u \in Seq(Configuring(k)!Channel) /\ DOMAIN u = 1 .. L + Len(t)
  BY DEF Joined
<1>2. \A i \in 1 .. L : i \in DOMAIN u /\ u[i] = s[i]
  BY <1>1 DEF Joined
<1>3. \A j \in 1 .. Len(t) : L + j \in DOMAIN u /\ u[L + j] = t[j]
  BY <1>1 DEF Joined
<1> HIDE DEF L
<1>4. \A n \in DOMAIN u : n \in 1 .. L \/ \E j \in 1 .. Len(t) : n = L + j
  <2>1. ASSUME NEW n \in DOMAIN u, ~ n \in 1 .. L PROVE n - L \in 1 .. Len(t) /\ n = L + (n - L)
    BY <1>1, <2>1
  <2> QED
    BY <2>1
<1>5. ASSUME NEW m \in DOMAIN u, NEW n \in DOMAIN u, u[m].id = u[n].id PROVE m = n
  <2>1. CASE m \in 1 .. L /\ n \in 1 .. L
    BY <1>1, <1>2, <1>5, <2>1 DEF Configuring!Proper
  <2>2. CASE m \in 1 .. L /\ ~ n \in 1 .. L
    <3>1. PICK j \in 1 .. Len(t) : n = L + j
      BY <1>4, <2>2
    <3> QED
      BY <1>1, <1>2, <1>3, <1>5, <2>2, <3>1
  <2>3. CASE ~ m \in 1 .. L /\ n \in 1 .. L
    <3>1. PICK j \in 1 .. Len(t) : m = L + j
      BY <1>4, <2>3
    <3> QED
      BY <1>1, <1>2, <1>3, <1>5, <2>3, <3>1
  <2>4. CASE ~ m \in 1 .. L /\ ~ n \in 1 .. L
    <3>1. PICK i \in 1 .. Len(t) : m = L + i
      BY <1>4, <2>4
    <3>2. PICK j \in 1 .. Len(t) : n = L + j
      BY <1>4, <2>4
    <3>3. t[i].id = t[j].id
      BY <1>3, <1>5, <3>1, <3>2
    <3> QED
      BY <1>1, <3>1, <3>2, <3>3 DEF Configuring!Proper
  <2> QED
    BY <2>1, <2>2, <2>3, <2>4
<1>6. ASSUME NEW n \in DOMAIN u
      PROVE  (\E i \in DOMAIN s : u[n] = s[i]) \/ \E j \in DOMAIN t : u[n] = t[j]
  <2>1. CASE n \in 1 .. L
    BY <1>1, <1>2, <2>1
  <2>2. CASE ~ n \in 1 .. L
    <3>1. PICK j \in 1 .. Len(t) : n = L + j
      BY <1>4, <2>2
    <3> QED
      BY <1>1, <1>3, <3>1
  <2> QED
    BY <2>1, <2>2
<1>7. Configuring(k)!Proper(u)
  BY <1>5, <1>6 DEF Configuring!Proper
<1> QED
  BY <1>1, <1>2, <1>3, <1>6, <1>7

\* The channels as the program finds them.
LEMMA ConfigStarts ==
    ASSUME NEW k, Configuring(k)!ConstantsOK, Configuring(k)!Init
    PROVE  Configuring(k)!ConfigInv
<1> USE DEF Configuring!ConstantsOK
<1>1. /\ x1 = FALSE /\ x10 = TRUE /\ x4 \in k.files /\ x2 = x4.channels /\ x3 = x4.default
      /\ x5 = [c \in k.custom |-> k.noKeys] /\ x6 = k.noAccount /\ x7 = Configuring(k)!NoEdit
      /\ x8 = [c \in k.commands |-> "idle"] /\ x9 = [c \in k.commands |-> <<>>]
  BY DEF Configuring!Init
<1>2. /\ x4 \in Configuring(k)!File /\ Configuring(k)!Proper(x4.channels)
      /\ x4.form # "whole" => x4.channels = <<>> /\ x4.default = k.noChannel
  BY <1>1
<1>3. /\ x4.channels \in Seq(Configuring(k)!Channel) /\ x4.form \in {"absent", "whole", "torn"}
      /\ x4.default \in Configuring(k)!Ids \cup {k.noChannel}
  BY <1>2 DEF Configuring!File
<1>4. Configuring(k)!TypeOK
  BY <1>1, <1>2, <1>3 DEF Configuring!TypeOK
<1>5. Configuring(k)!EditFits
  BY <1>1 DEF Configuring!EditFits, Configuring!NoEdit
<1>6. Configuring(k)!KeysKept
  <2>1. ASSUME NEW i \in DOMAIN x2, x2[i].id \in k.custom
        PROVE  x5[x2[i].id] = x2[i].keys \/ (~ x1 /\ x4.channels[i].keys # k.noKeys)
    <3>1. x5[x2[i].id] = k.noKeys
      BY <1>1, <2>1
    <3> QED
      BY <1>1, <3>1
  <2> QED
    BY <2>1 DEF Configuring!KeysKept
<1>7. Configuring(k)!FileKept
  BY <1>1, <1>2, <1>3 DEF Configuring!FileKept
<1> QED
  BY <1>1, <1>2, <1>4, <1>5, <1>6, <1>7 DEF Configuring!ConfigInv

\* The keychain has the keys of every channel of a list, but for the edit
\* under way. What a write keeps of the file, if it keeps all, is the list
\* without keys.
LEMMA WritesKeep ==
    ASSUME NEW k, NEW s \in Seq(Configuring(k)!Channel), Configuring(k)!Proper(s),
           NEW def \in Configuring(k)!Ids \cup {k.noChannel},
           Configuring(k)!ConstantsOK, Configuring(k)!ConfigInv, x1 = TRUE,
           Configuring(k)!Write(s, def)
    PROVE  /\ x4' \in Configuring(k)!File /\ Configuring(k)!Proper(x4'.channels)
           /\ x4'.form # "whole" => x4'.channels = <<>> /\ x4'.default = k.noChannel
           /\ x1' \in BOOLEAN /\ x10' \in BOOLEAN
           /\ x10' => /\ x10 /\ x1' = TRUE /\ x4'.form = "whole" /\ x4'.default = def
                      /\ Len(x4'.channels) = Len(s)
                      /\ \A i \in DOMAIN s : /\ x4'.channels[i].id = s[i].id
                                             /\ x4'.channels[i].type = s[i].type
                                             /\ x4'.channels[i].keys = k.noKeys
<1> DEFINE bare == [i \in DOMAIN s |-> [s[i] EXCEPT !.keys = k.noKeys]]
<1>1. /\ Len(s) \in Nat /\ DOMAIN s = 1 .. Len(s)
      /\ \A i \in DOMAIN s : s[i] \in Configuring(k)!Channel
  OBVIOUS
<1>2. ASSUME NEW i \in DOMAIN s
      PROVE  /\ bare[i] \in Configuring(k)!Channel /\ bare[i].id = s[i].id
             /\ bare[i].type = s[i].type /\ bare[i].keys = k.noKeys
  BY <1>1 DEF Configuring!Channel
<1>3. bare \in Seq(Configuring(k)!Channel) /\ Len(bare) = Len(s) /\ DOMAIN bare = DOMAIN s
  <2>1. bare \in [1 .. Len(s) -> Configuring(k)!Channel]
    BY <1>1, <1>2
  <2> HIDE DEF bare
  <2> QED
    BY <1>1, <2>1
<1> HIDE DEF bare
<1>4. Configuring(k)!Proper(bare)
  BY <1>2, <1>3 DEF Configuring!Proper
<1>5. /\ x4 \in Configuring(k)!File /\ Configuring(k)!Proper(x4.channels) /\ x10 \in BOOLEAN
      /\ x4.form # "whole" => x4.channels = <<>> /\ x4.default = k.noChannel
  BY DEF Configuring!ConfigInv, Configuring!TypeOK
<1>6. CASE x4' = Configuring(k)!Saved(s, def) /\ UNCHANGED <<x1, x10>>
  <2>1. x4' = [form |-> "whole", channels |-> bare, default |-> def]
    BY <1>6 DEF Configuring!Saved, bare
  <2>2. x4' \in Configuring(k)!File
    BY <1>3, <2>1 DEF Configuring!File
  <2> QED
    BY <1>2, <1>3, <1>4, <1>5, <1>6, <2>1, <2>2
<1>7. CASE x4' = x4 /\ x10' = FALSE /\ UNCHANGED x1
  BY <1>5, <1>7
<1>8. CASE /\ x4' = [form |-> "torn", channels |-> <<>>, default |-> k.noChannel]
           /\ x10' = FALSE /\ x1' \in BOOLEAN
  <2>1. <<>> \in Seq(Configuring(k)!Channel) /\ DOMAIN <<>> = {}
    BY EmptySeq
  <2>2. Configuring(k)!Proper(<<>>)
    BY <2>1 DEF Configuring!Proper
  <2>3. x4' \in Configuring(k)!File
    BY <1>8, <2>1 DEF Configuring!File
  <2> QED
    BY <1>8, <2>2, <2>3
<1> QED
  BY <1>6, <1>7, <1>8 DEF Configuring!Write

\* What saves the channels keeps the invariant, if the channels it saves have
\* the keys that the keychain has for them.
LEMMA SavesKeep ==
    ASSUME NEW k, Configuring(k)!ConstantsOK, Configuring(k)!ConfigInv, x1 = TRUE,
           x2' \in Seq(Configuring(k)!Channel), Configuring(k)!Proper(x2'),
           x3' \in Configuring(k)!Ids \cup {k.noChannel},
           Configuring(k)!Write(x2', x3'), x5' = x5, x6' = x6,
           x7' = x7 \/ x7' = Configuring(k)!NoEdit,
           x8' \in [k.commands -> {"idle", "fetch", "upsert", "clear"}],
           x9' \in [k.commands -> {<<>>} \cup {<<a>> : a \in k.accounts}],
           x7' = x7 => \A id \in k.custom :
                         Configuring(k)!Mentions(x2, id) => Configuring(k)!Mentions(x2', id),
           x10 => \A id \in k.custom : \A i \in DOMAIN x2' :
                    x2'[i].id = id => x5[id] = x2'[i].keys \/ Configuring(k)!Between(id)'
    PROVE  Configuring(k)!ConfigInv'
<1>1. /\ x4' \in Configuring(k)!File /\ Configuring(k)!Proper(x4'.channels)
      /\ x4'.form # "whole" => x4'.channels = <<>> /\ x4'.default = k.noChannel
      /\ x1' \in BOOLEAN /\ x10' \in BOOLEAN
      /\ x10' => /\ x10 /\ x1' = TRUE /\ x4'.form = "whole" /\ x4'.default = x3'
                 /\ Len(x4'.channels) = Len(x2')
                 /\ \A i \in DOMAIN x2' : /\ x4'.channels[i].id = x2'[i].id
                                          /\ x4'.channels[i].type = x2'[i].type
                                          /\ x4'.channels[i].keys = k.noKeys
  BY WritesKeep
<1>2. Configuring(k)!TypeOK'
  BY <1>1 DEF Configuring!ConfigInv, Configuring!TypeOK
<1>3. Configuring(k)!EditFits'
  <2>1. CASE x7' = x7
    BY <2>1 DEF Configuring!ConfigInv, Configuring!TypeOK, Configuring!EditFits, Configuring!NoEdit
  <2>2. CASE x7' = Configuring(k)!NoEdit
    BY <2>2 DEF Configuring!EditFits, Configuring!NoEdit
  <2> QED
    BY <2>1, <2>2
<1>4. x10' => Configuring(k)!KeysKept' /\ Configuring(k)!FileKept' /\ x1' = TRUE
  <2>1. ASSUME x10' PROVE Configuring(k)!KeysKept'
    <3>1. ASSUME NEW i \in DOMAIN x2', x2'[i].id \in k.custom
          PROVE  x5'[x2'[i].id] = x2'[i].keys \/ Configuring(k)!Between(x2[i].id)'
      <4>1. PICK id \in k.custom : id = x2'[i].id
        BY <3>1
      <4>2. x5[id] = x2'[i].keys \/ Configuring(k)!Between(id)'
        BY <1>1, <2>1, <4>1
      <4> QED
        BY <4>1, <4>2 DEF Configuring!Between
    <3> QED
      BY <3>1 DEF Configuring!KeysKept
  <2>2. x10' => Configuring(k)!FileKept' /\ x1' = TRUE
    BY <1>1 DEF Configuring!FileKept
  <2> QED
    BY <2>1, <2>2
<1> QED
  BY <1>1, <1>2, <1>3, <1>4 DEF Configuring!ConfigInv

\* The file and the keychain are the channels that the last process had.
LEMMA RestoredIsKept ==
    ASSUME NEW k, Configuring(k)!ConstantsOK, Configuring(k)!ConfigInv, x1 = FALSE, x10 = TRUE
    PROVE  /\ x4.form = "whole" => Configuring(k)!Restored(x4.channels, x5) = x2 /\ x4.default = x3
           /\ x4.form # "whole" => x2 = <<>> /\ x3 = k.noChannel
<1>1. /\ Configuring(k)!KeysKept /\ Configuring(k)!FileKept /\ x7 = Configuring(k)!NoEdit
      /\ Configuring(k)!Proper(x2) /\ x2 \in Seq(Configuring(k)!Channel)
      /\ x4.channels \in Seq(Configuring(k)!Channel)
      /\ x5 \in [k.custom -> k.lists \cup {k.noKeys}]
  BY DEF Configuring!ConfigInv, Configuring!TypeOK, Configuring!File
<1>2. CASE x4.form = "whole"
  <2> DEFINE r == Configuring(k)!Restored(x4.channels, x5)
  <2>1. /\ x3 = x4.default /\ Len(x4.channels) = Len(x2)
        /\ \A i \in DOMAIN x2 : /\ x4.channels[i].id = x2[i].id /\ x4.channels[i].type = x2[i].type
                               /\ x4.channels[i].keys \in {k.noKeys, x2[i].keys}
    BY <1>1, <1>2 DEF Configuring!FileKept
  <2>2. /\ Len(x2) \in Nat /\ DOMAIN x2 = 1 .. Len(x2) /\ DOMAIN x4.channels = DOMAIN x2
        /\ \A i \in DOMAIN x2 : x2[i] \in Configuring(k)!Channel
               /\ x4.channels[i] \in Configuring(k)!Channel
    BY <1>1, <2>1
  <2>3. r = [i \in DOMAIN x2 |->
               IF x4.channels[i].keys # k.noKeys \/ x4.channels[i].id \notin k.custom
               THEN x4.channels[i] ELSE [x4.channels[i] EXCEPT !.keys = x5[x4.channels[i].id]]]
    BY <2>2 DEF Configuring!Restored
  <2>4. ASSUME NEW i \in DOMAIN x2
        PROVE  x2[i] = IF x4.channels[i].keys # k.noKeys \/ x4.channels[i].id \notin k.custom
                       THEN x4.channels[i] ELSE [x4.channels[i] EXCEPT !.keys = x5[x4.channels[i].id]]
    <3> DEFINE c == x2[i]
               f == x4.channels[i]
    <3>1. /\ c \in Configuring(k)!Channel /\ f \in Configuring(k)!Channel /\ f.id = c.id
          /\ f.type = c.type /\ f.keys \in {k.noKeys, c.keys}
      BY <2>1, <2>2
    <3>2. c.id \notin k.custom => c.keys = k.noKeys
      BY <1>1, <3>1 DEF Configuring!Proper, Configuring!Channel
    <3>3. ~ Configuring(k)!Between(c.id)
      BY <1>1 DEF Configuring!Between, Configuring!NoEdit
    <3>4. c.id \in k.custom => x5[c.id] = c.keys \/ f.keys # k.noKeys
      BY <1>1, <3>3 DEF Configuring!KeysKept
    <3> HIDE DEF c, f
    <3>5. CASE f.keys # k.noKeys \/ f.id \notin k.custom
      <4>1. f.keys = c.keys
        BY <3>1, <3>2, <3>5
      <4>2. f = c
        BY <3>1, <4>1, ChannelIs
      <4> QED
        BY <3>5, <4>2 DEF c, f
    <3>6. CASE ~ (f.keys # k.noKeys \/ f.id \notin k.custom)
      <4>1. x5[f.id] = c.keys
        BY <3>1, <3>4, <3>6
      <4>2. [f EXCEPT !.keys = c.keys] = c
        BY <3>1 DEF Configuring!Channel
      <4> QED
        BY <3>6, <4>1, <4>2 DEF c, f
    <3> QED
      BY <3>5, <3>6
  <2>5. x2 = [i \in DOMAIN x2 |-> x2[i]]
    BY <1>1
  <2>6. r = x2
    BY <2>3, <2>4, <2>5
  <2> QED
    BY <1>2, <2>1, <2>6
<1>3. CASE x4.form # "whole"
  BY <1>1, <1>3 DEF Configuring!FileKept
<1> QED
  BY <1>2, <1>3

\* A start reads channels that are all in the file and the keychain.
LEMMA StartKeeps ==
    ASSUME NEW k, Configuring(k)!ConstantsOK, Configuring(k)!ConfigInv, Configuring(k)!Boot
    PROVE  Configuring(k)!ConfigInv' /\ Configuring(k)!KeepsChannels
<1> DEFINE chs == IF x4.form = "whole" THEN x4.channels ELSE <<>>
           res == Configuring(k)!Restored(chs, x5)
           mig == Configuring(k)!Migrated(chs, x5)
<1>1. /\ x1 = FALSE /\ x1' = TRUE /\ x2' = res
      /\ x3' = (IF x4.form = "whole" THEN x4.default ELSE k.noChannel)
      /\ (x5' = mig /\ x10' = TRUE) \/ (x5' = x5 /\ x10' = FALSE)
      /\ x4' = (IF x4.form = "whole" THEN x4 ELSE Configuring(k)!Saved(<<>>, k.noChannel))
      /\ x7' = Configuring(k)!NoEdit /\ x8' = [c \in k.commands |-> "idle"]
      /\ x9' = [c \in k.commands |-> <<>>] /\ x6' = x6
  BY DEF Configuring!Boot, Configuring!ConfigInv, Configuring!TypeOK
<1>2. /\ chs \in Seq(Configuring(k)!Channel) /\ Configuring(k)!Proper(chs) /\ x4 \in Configuring(k)!File
      /\ x5 \in [k.custom -> k.lists \cup {k.noKeys}] /\ x6 \in k.accounts \cup {k.noAccount}
      /\ x4.default \in Configuring(k)!Ids \cup {k.noChannel}
  <2>1. /\ x4 \in Configuring(k)!File /\ Configuring(k)!Proper(x4.channels)
        /\ x5 \in [k.custom -> k.lists \cup {k.noKeys}] /\ x6 \in k.accounts \cup {k.noAccount}
        /\ x4.form # "whole" => x4.channels = <<>>
    BY DEF Configuring!ConfigInv, Configuring!TypeOK
  <2>2. chs = x4.channels
    BY <2>1
  <2> QED
    BY <2>1, <2>2 DEF Configuring!File
<1>3. x4' \in Configuring(k)!File /\ x4'.form = "whole" /\ x4'.channels = chs /\ x4'.default = x3'
  <2>1. CASE x4.form = "whole"
    BY <1>1, <1>2, <2>1
  <2>2. CASE x4.form # "whole"
    <3>1. chs = <<>> /\ x3' = k.noChannel /\ DOMAIN <<>> = {}
      BY <1>1, <2>2
    <3>2. [i \in DOMAIN <<>> |-> [<<>>[i] EXCEPT !.keys = k.noKeys]] = <<>>
      BY <3>1
    <3>3. x4' = [form |-> "whole", channels |-> <<>>, default |-> k.noChannel]
      BY <1>1, <2>2, <3>2 DEF Configuring!Saved
    <3>4. <<>> \in Seq(Configuring(k)!Channel)
      BY EmptySeq
    <3> QED
      BY <3>1, <3>3, <3>4 DEF Configuring!File
  <2> QED
    BY <2>1, <2>2
<1>4. Configuring(k)!KeepsChannels
  <2> SUFFICES ASSUME x10 PROVE x2' = x2 /\ x3' = x3
    BY DEF Configuring!KeepsChannels
  <2>1. /\ x4.form = "whole" => Configuring(k)!Restored(x4.channels, x5) = x2 /\ x4.default = x3
        /\ x4.form # "whole" => x2 = <<>> /\ x3 = k.noChannel
    BY <1>1, RestoredIsKept DEF Configuring!ConfigInv, Configuring!TypeOK
  <2>2. x4.form # "whole" => res = <<>>
    <3>1. x4.form # "whole" => chs = <<>>
      OBVIOUS
    <3> QED
      BY <3>1 DEF Configuring!Restored
  <2> QED
    BY <1>1, <2>1, <2>2
<1> HIDE DEF chs
<1>5. /\ DOMAIN res = DOMAIN chs
      /\ \A i \in DOMAIN chs :
            res[i] = IF chs[i].keys # k.noKeys \/ chs[i].id \notin k.custom THEN chs[i]
                     ELSE [chs[i] EXCEPT !.keys = x5[chs[i].id]]
  BY DEF Configuring!Restored
<1>6. ASSUME NEW i \in DOMAIN chs
      PROVE  /\ res[i] \in Configuring(k)!Channel /\ res[i].id = chs[i].id
             /\ res[i].type = chs[i].type /\ chs[i].keys \in {k.noKeys, res[i].keys}
             /\ res[i].id \in k.custom => res[i].keys = mig[res[i].id]
             /\ res[i].id \notin k.custom => res[i] = chs[i]
  <2>1. chs[i] \in Configuring(k)!Channel
    BY <1>2
  <2>2. CASE chs[i].id \notin k.custom
    BY <1>5, <2>1, <2>2
  <2>3. CASE chs[i].id \in k.custom /\ chs[i].keys # k.noKeys
    <3> DEFINE all == {chs[j] : j \in DOMAIN chs}
               ch == CHOOSE d \in all : d.id = chs[i].id
    <3>1. ch \in all /\ ch.id = chs[i].id
      OBVIOUS
    <3>2. PICK j \in DOMAIN chs : ch = chs[j]
      BY <3>1
    <3>3. ch = chs[i]
      BY <1>2, <3>1, <3>2 DEF Configuring!Proper
    <3>4. mig[chs[i].id] = ch.keys
      BY <2>3 DEF Configuring!Migrated
    <3> QED
      BY <1>5, <2>1, <2>3, <3>3, <3>4
  <2>4. CASE chs[i].id \in k.custom /\ chs[i].keys = k.noKeys
    <3>1. res[i] = [chs[i] EXCEPT !.keys = x5[chs[i].id]] /\ x5[chs[i].id] \in k.lists \cup {k.noKeys}
      BY <1>2, <1>5, <2>4
    <3>2. ~ \E j \in DOMAIN chs : chs[j].id = chs[i].id /\ chs[j].keys # k.noKeys
      BY <1>2, <2>4 DEF Configuring!Proper
    <3>3. mig[chs[i].id] = x5[chs[i].id]
      BY <2>4, <3>2 DEF Configuring!Migrated
    <3>4. /\ res[i] \in Configuring(k)!Channel /\ res[i].id = chs[i].id
          /\ res[i].type = chs[i].type /\ res[i].keys = x5[chs[i].id]
      BY <2>1, <3>1 DEF Configuring!Channel
    <3> QED
      BY <2>4, <3>3, <3>4
  <2> QED
    BY <2>2, <2>3, <2>4
<1>7. mig \in [k.custom -> k.lists \cup {k.noKeys}]
  <2>1. ASSUME NEW c \in k.custom PROVE mig[c] \in k.lists \cup {k.noKeys}
    <3>1. CASE \E i \in DOMAIN chs : chs[i].id = c /\ chs[i].keys # k.noKeys
      <4> DEFINE all == {chs[j] : j \in DOMAIN chs}
                 ch == CHOOSE d \in all : d.id = c
      <4>1. ch \in all
        BY <3>1
      <4>2. mig[c] = ch.keys
        BY <3>1 DEF Configuring!Migrated
      <4>3. \A d \in all : d.keys \in k.lists \cup {k.noKeys}
        <5>1. \A j \in DOMAIN chs : chs[j] \in Configuring(k)!Channel
          BY <1>2
        <5> QED
          BY <5>1, ChannelIs
      <4> QED
        BY <4>1, <4>2, <4>3
    <3>2. CASE ~ \E i \in DOMAIN chs : chs[i].id = c /\ chs[i].keys # k.noKeys
      <4>1. mig[c] = x5[c]
        BY <3>2 DEF Configuring!Migrated
      <4> QED
        BY <1>2, <4>1
    <3> QED
      BY <3>1, <3>2
  <2> QED
    BY <2>1 DEF Configuring!Migrated
<1> HIDE DEF res, mig
<1>8. /\ res \in Seq(Configuring(k)!Channel) /\ Len(res) = Len(chs) /\ Configuring(k)!Proper(res)
  <2>1. Len(chs) \in Nat /\ DOMAIN chs = 1 .. Len(chs)
    BY <1>2
  <2>2. res \in [1 .. Len(chs) -> Configuring(k)!Channel]
    <3>1. \A i \in DOMAIN chs : res[i] \in Configuring(k)!Channel
      BY <1>6
    <3>2. res = [i \in DOMAIN chs |-> res[i]]
      BY DEF res, Configuring!Restored
    <3> QED
      BY <2>1, <3>1, <3>2
  <2>3. Configuring(k)!Proper(res)
    <3>1. \A i, j \in DOMAIN res : res[i].id = res[j].id => i = j
      BY <1>2, <1>5, <1>6 DEF Configuring!Proper
    <3>2. k.custom \cap k.accounts = {}
      BY DEF Configuring!ConstantsOK
    <3>3. ASSUME NEW i \in DOMAIN res
          PROVE  IF res[i].type = "custom" THEN res[i].id \in k.custom
                 ELSE res[i].id \in k.accounts /\ res[i].keys = k.noKeys
      BY <1>2, <1>5, <1>6, <3>2 DEF Configuring!Proper
    <3> QED
      BY <3>1, <3>3 DEF Configuring!Proper
  <2> QED
    BY <2>1, <2>2, <2>3
<1>9. Configuring(k)!TypeOK'
  <2>1. x3' \in Configuring(k)!Ids \cup {k.noChannel}
    BY <1>1, <1>2
  <2> QED
    BY <1>1, <1>2, <1>3, <1>7, <1>8, <2>1 DEF Configuring!TypeOK
<1>10. Configuring(k)!EditFits'
  BY <1>1 DEF Configuring!EditFits, Configuring!NoEdit
<1>11. x10' => Configuring(k)!KeysKept' /\ Configuring(k)!FileKept'
  BY <1>1, <1>3, <1>5, <1>6, <1>8 DEF Configuring!KeysKept, Configuring!FileKept
<1> QED
  BY <1>1, <1>2, <1>3, <1>4, <1>9, <1>10, <1>11 DEF Configuring!ConfigInv

\* An edit changes the keychain, and then the channel.
LEMMA EditsKeep ==
    ASSUME NEW k, Configuring(k)!ConstantsOK, Configuring(k)!ConfigInv,
           \/ Configuring(k)!ProcessEnds \/ Configuring(k)!StartEdit
           \/ Configuring(k)!StoreKeys \/ Configuring(k)!DeleteKeys
    PROVE  Configuring(k)!ConfigInv' /\ Configuring(k)!KeepsChannels
<1> USE DEF Configuring!NoEdit
<1>1. x1 = TRUE /\ x2' = x2 /\ x3' = x3 /\ x4' = x4 /\ x6' = x6 /\ x8' = x8 /\ x9' = x9
  BY DEF Configuring!ProcessEnds, Configuring!StartEdit, Configuring!StoreKeys, Configuring!DeleteKeys,
         Configuring!ConfigInv, Configuring!TypeOK
<1>2. /\ x5 \in [k.custom -> k.lists \cup {k.noKeys}]
      /\ x7 = Configuring(k)!NoEdit \/ x7 \in [op : {"keys", "save", "delete_keys", "delete"},
                                                id : k.custom, keys : k.lists \cup {k.noKeys}]
      /\ x10 => Configuring(k)!KeysKept /\ Configuring(k)!FileKept
  BY DEF Configuring!ConfigInv, Configuring!TypeOK
<1>3. CASE Configuring(k)!ProcessEnds
  <2>1. x1' = FALSE /\ x10' = (x10 /\ x7 = Configuring(k)!NoEdit) /\ x5' = x5 /\ x7' = x7
    BY <1>3 DEF Configuring!ProcessEnds
  <2>2. Configuring(k)!TypeOK' /\ Configuring(k)!EditFits'
    BY <1>1, <2>1 DEF Configuring!ConfigInv, Configuring!TypeOK, Configuring!EditFits
  <2>3. x10' => Configuring(k)!KeysKept' /\ Configuring(k)!FileKept'
    BY <1>1, <1>2, <2>1 DEF Configuring!KeysKept, Configuring!FileKept, Configuring!Between
  <2> QED
    BY <1>1, <2>1, <2>2, <2>3 DEF Configuring!ConfigInv, Configuring!KeepsChannels
<1>4. CASE Configuring(k)!StartEdit
  <2>1. x1' = x1 /\ x5' = x5 /\ x10' = x10 /\ x7 = Configuring(k)!NoEdit
    BY <1>4 DEF Configuring!StartEdit
  <2>2. PICK id \in k.custom :
          \/ /\ Configuring(k)!Mentions(x2, id) \/ x5[id] = k.noKeys
             /\ \E keys \in k.lists \cup {k.noKeys} :
                  x7' = [op |-> IF keys = k.noKeys THEN "save" ELSE "keys", id |-> id, keys |-> keys]
          \/ x7' = [op |-> "delete_keys", id |-> id, keys |-> k.noKeys]
    BY <1>4 DEF Configuring!StartEdit
  <2>3. /\ x7' \in [op : {"keys", "save", "delete_keys", "delete"}, id : k.custom,
                    keys : k.lists \cup {k.noKeys}]
        /\ x7'.op = "keys" => x7'.keys # k.noKeys
        /\ x7'.op = "save" => x7'.keys = k.noKeys
        /\ x7'.op = "save" => Configuring(k)!Mentions(x2, x7'.id) \/ x5[x7'.id] = k.noKeys
        /\ x7'.op # "delete"
    <3>1. CASE /\ Configuring(k)!Mentions(x2, id) \/ x5[id] = k.noKeys
               /\ \E keys \in k.lists \cup {k.noKeys} :
                  x7' = [op |-> IF keys = k.noKeys THEN "save" ELSE "keys", id |-> id, keys |-> keys]
      BY <3>1
    <3>2. CASE x7' = [op |-> "delete_keys", id |-> id, keys |-> k.noKeys]
      BY <3>2
    <3> QED
      BY <2>2, <3>1, <3>2
  <2>4. Configuring(k)!TypeOK'
    BY <1>1, <2>1, <2>3 DEF Configuring!ConfigInv, Configuring!TypeOK
  <2>5. Configuring(k)!EditFits'
    BY <1>1, <2>1, <2>3 DEF Configuring!EditFits, Configuring!Mentions
  <2>6. x10' => Configuring(k)!KeysKept' /\ Configuring(k)!FileKept'
    BY <1>1, <1>2, <2>1 DEF Configuring!KeysKept, Configuring!FileKept, Configuring!Between
  <2> QED
    BY <1>1, <2>1, <2>4, <2>5, <2>6 DEF Configuring!ConfigInv, Configuring!KeepsChannels
<1>5. CASE Configuring(k)!StoreKeys
  <2>1. x1' = x1 /\ x7.op = "keys"
    BY <1>5 DEF Configuring!StoreKeys
  <2>2. /\ x7 \in [op : {"keys", "save", "delete_keys", "delete"}, id : k.custom,
                   keys : k.lists \cup {k.noKeys}]
        /\ x7.keys # k.noKeys
    BY <1>2, <2>1 DEF Configuring!ConfigInv, Configuring!EditFits
  <2>3. CASE /\ x5' = [x5 EXCEPT ![x7.id] = x7.keys] /\ x7' = [x7 EXCEPT !.op = "save"] /\ x10' = x10
    <3>1. /\ x7' \in [op : {"keys", "save", "delete_keys", "delete"}, id : k.custom,
                      keys : k.lists \cup {k.noKeys}]
          /\ x7'.op = "save" /\ x7'.id = x7.id /\ x7'.keys = x7.keys
      BY <2>2, <2>3
    <3>2. /\ x5' \in [k.custom -> k.lists \cup {k.noKeys}] /\ x5'[x7.id] = x7.keys
          /\ \A id \in k.custom : id # x7.id => x5'[id] = x5[id]
      BY <1>2, <2>2, <2>3
    <3>3. Configuring(k)!TypeOK'
      BY <1>1, <2>1, <2>3, <3>1, <3>2 DEF Configuring!ConfigInv, Configuring!TypeOK
    <3>4. Configuring(k)!EditFits'
      BY <2>2, <3>1, <3>2 DEF Configuring!EditFits
    <3>5. x10' => Configuring(k)!KeysKept' /\ Configuring(k)!FileKept'
      BY <1>1, <1>2, <2>1, <2>2, <2>3, <3>1, <3>2
         DEF Configuring!KeysKept, Configuring!FileKept, Configuring!Between
    <3> QED
      BY <1>1, <2>1, <2>3, <3>3, <3>4, <3>5 DEF Configuring!ConfigInv, Configuring!KeepsChannels
  <2>4. CASE x5' = [x5 EXCEPT ![x7.id] = k.noKeys] /\ x7' = Configuring(k)!NoEdit /\ x10' = FALSE
    <3>1. x5' \in [k.custom -> k.lists \cup {k.noKeys}]
      BY <1>2, <2>4
    <3>2. Configuring(k)!TypeOK'
      BY <1>1, <2>1, <2>4, <3>1 DEF Configuring!ConfigInv, Configuring!TypeOK
    <3>3. Configuring(k)!EditFits'
      BY <2>4 DEF Configuring!EditFits
    <3> QED
      BY <1>1, <2>1, <2>4, <3>2, <3>3 DEF Configuring!ConfigInv, Configuring!KeepsChannels
  <2> QED
    BY <1>5, <2>3, <2>4 DEF Configuring!StoreKeys
<1>6. CASE Configuring(k)!DeleteKeys
  <2>1. x1' = x1 /\ x7.op = "delete_keys" /\ x10' = x10
    BY <1>6 DEF Configuring!DeleteKeys
  <2>2. x7 \in [op : {"keys", "save", "delete_keys", "delete"}, id : k.custom,
                keys : k.lists \cup {k.noKeys}]
    BY <1>2, <2>1
  <2>3. CASE x5' = [x5 EXCEPT ![x7.id] = k.noKeys] /\ x7' = [x7 EXCEPT !.op = "delete"]
    <3>1. /\ x7' \in [op : {"keys", "save", "delete_keys", "delete"}, id : k.custom,
                      keys : k.lists \cup {k.noKeys}]
          /\ x7'.op = "delete" /\ x7'.id = x7.id
      BY <2>2, <2>3
    <3>2. /\ x5' \in [k.custom -> k.lists \cup {k.noKeys}]
          /\ \A id \in k.custom : id # x7.id => x5'[id] = x5[id]
      BY <1>2, <2>2, <2>3
    <3>3. Configuring(k)!TypeOK'
      BY <1>1, <2>1, <2>3, <3>1, <3>2 DEF Configuring!ConfigInv, Configuring!TypeOK
    <3>4. Configuring(k)!EditFits'
      BY <3>1 DEF Configuring!EditFits
    <3>5. x10' => Configuring(k)!KeysKept' /\ Configuring(k)!FileKept'
      BY <1>1, <1>2, <2>1, <2>2, <2>3, <3>1, <3>2
         DEF Configuring!KeysKept, Configuring!FileKept, Configuring!Between
    <3> QED
      BY <1>1, <2>1, <3>3, <3>4, <3>5 DEF Configuring!ConfigInv, Configuring!KeepsChannels
  <2>4. CASE x5' = x5 /\ x7' = Configuring(k)!NoEdit
    <3>1. Configuring(k)!TypeOK'
      BY <1>1, <2>1, <2>4 DEF Configuring!ConfigInv, Configuring!TypeOK
    <3>2. Configuring(k)!EditFits'
      BY <2>4 DEF Configuring!EditFits
    <3>3. x10' => Configuring(k)!KeysKept' /\ Configuring(k)!FileKept'
      BY <1>1, <1>2, <2>1, <2>4 DEF Configuring!KeysKept, Configuring!FileKept, Configuring!Between
    <3> QED
      BY <1>1, <2>1, <2>4, <3>1, <3>2, <3>3 DEF Configuring!ConfigInv, Configuring!KeepsChannels
  <2> QED
    BY <1>6, <2>3, <2>4 DEF Configuring!DeleteKeys
<1> QED
  BY <1>3, <1>4, <1>5, <1>6

\* What saves the channels, an edit apart.
LEMMA ChannelsKeep ==
    ASSUME NEW k, Configuring(k)!ConstantsOK, Configuring(k)!ConfigInv, x1 = TRUE,
           NEW s \in Seq(Configuring(k)!Channel), Configuring(k)!Proper(s), x2' = s,
           x3' \in Configuring(k)!Ids \cup {k.noChannel},
           Configuring(k)!Write(x2', x3'), x5' = x5, x6' = x6, x7' = x7,
           x8' \in [k.commands -> {"idle", "fetch", "upsert", "clear"}],
           x9' \in [k.commands -> {<<>>} \cup {<<a>> : a \in k.accounts}],
           \A i \in DOMAIN x2 : x2[i].id \in k.custom => \E n \in DOMAIN s : s[n] = x2[i],
           \A n \in DOMAIN s : s[n].id \in k.custom => \E i \in DOMAIN x2 : s[n] = x2[i]
    PROVE  Configuring(k)!ConfigInv'
<1>1. \A id \in k.custom : Configuring(k)!Mentions(x2, id) => Configuring(k)!Mentions(x2', id)
  BY DEF Configuring!Mentions
<1>2. ASSUME x10, NEW id \in k.custom, NEW n \in DOMAIN x2', x2'[n].id = id
      PROVE  x5[id] = x2'[n].keys \/ Configuring(k)!Between(id)'
  <2>1. PICK i \in DOMAIN x2 : s[n] = x2[i]
    BY <1>2
  <2>2. x5[id] = x2[i].keys \/ Configuring(k)!Between(id)
    BY <1>2, <2>1 DEF Configuring!ConfigInv, Configuring!KeysKept
  <2> QED
    BY <2>1, <2>2 DEF Configuring!Between
<1> QED
  BY <1>1, <1>2, SavesKeep

\* An edit's channel is saved with the keys that the keychain has.
LEMMA SaveKeeps ==
    ASSUME NEW k, Configuring(k)!ConstantsOK, Configuring(k)!ConfigInv,
           Configuring(k)!SaveCustomChannel
    PROVE  Configuring(k)!ConfigInv'
<1> DEFINE id == x7.id
           q == x7.keys
           s == Configuring(k)!WithCustom(x2, id, q)
<1>1. /\ x1 = TRUE /\ x7.op = "save" /\ x2' = s /\ x3' = x3 /\ x7' = Configuring(k)!NoEdit
      /\ Configuring(k)!Write(x2', x3') /\ x5' = x5 /\ x6' = x6 /\ x8' = x8 /\ x9' = x9
  BY DEF Configuring!SaveCustomChannel, Configuring!ConfigInv, Configuring!TypeOK
<1>2. /\ x2 \in Seq(Configuring(k)!Channel) /\ Configuring(k)!Proper(x2) /\ Configuring(k)!EditFits
      /\ x3 \in Configuring(k)!Ids \cup {k.noChannel}
      /\ x10 => Configuring(k)!KeysKept
      /\ x8 \in [k.commands -> {"idle", "fetch", "upsert", "clear"}]
      /\ x9 \in [k.commands -> {<<>>} \cup {<<a>> : a \in k.accounts}]
  BY DEF Configuring!ConfigInv, Configuring!TypeOK
<1>3. id \in k.custom /\ q \in k.lists \cup {k.noKeys}
  BY <1>1 DEF Configuring!ConfigInv, Configuring!TypeOK, Configuring!NoEdit
<1>4. /\ q # k.noKeys => x5[id] = q
      /\ q = k.noKeys => Configuring(k)!Mentions(x2, id) \/ x5[id] = k.noKeys
  BY <1>1, <1>2 DEF Configuring!EditFits
<1>5. /\ Len(x2) \in Nat /\ DOMAIN x2 = 1 .. Len(x2)
      /\ \A i \in DOMAIN x2 : x2[i] \in Configuring(k)!Channel
  BY <1>2
<1>6. x10 => \A i \in DOMAIN x2 : x2[i].id \in k.custom =>
               x5[x2[i].id] = x2[i].keys \/ (x2[i].id = id /\ q # k.noKeys)
  BY <1>1, <1>2 DEF Configuring!KeysKept, Configuring!Between, Configuring!ConfigInv,
     Configuring!TypeOK
<1> HIDE DEF id, q
<1>7. x7' # x7
  BY <1>1 DEF Configuring!NoEdit
<1>8. CASE \E i \in DOMAIN x2 : x2[i].id = id
  <2>1. s = [i \in DOMAIN x2 |-> IF x2[i].id = id /\ q # k.noKeys
                                 THEN [x2[i] EXCEPT !.keys = q] ELSE x2[i]]
    BY <1>8 DEF Configuring!WithCustom
  <2> HIDE DEF s
  <2>2. ASSUME NEW i \in DOMAIN x2
        PROVE  /\ s[i] \in Configuring(k)!Channel /\ s[i].id = x2[i].id /\ s[i].type = x2[i].type
               /\ s[i].keys = IF x2[i].id = id /\ q # k.noKeys THEN q ELSE x2[i].keys
    BY <1>3, <1>5, <2>1 DEF Configuring!Channel
  <2>3. s \in Seq(Configuring(k)!Channel) /\ DOMAIN s = DOMAIN x2
    <3>1. s \in [1 .. Len(x2) -> Configuring(k)!Channel]
      <4>1. s = [i \in 1 .. Len(x2) |-> s[i]]
        BY <1>5, <2>1
      <4> QED
        BY <1>5, <2>2, <4>1
    <3> QED
      BY <1>5, <3>1
  <2>4. Configuring(k)!Proper(s)
    <3>1. \A i, j \in DOMAIN s : s[i].id = s[j].id => i = j
      BY <1>2, <2>2, <2>3 DEF Configuring!Proper
    <3>2. k.custom \cap k.accounts = {}
      BY DEF Configuring!ConstantsOK
    <3>3. ASSUME NEW i \in DOMAIN s
          PROVE  IF s[i].type = "custom" THEN s[i].id \in k.custom
                 ELSE s[i].id \in k.accounts /\ s[i].keys = k.noKeys
      BY <1>2, <1>3, <2>2, <2>3, <3>2 DEF Configuring!Proper
    <3> QED
      BY <3>1, <3>3 DEF Configuring!Proper
  <2>5. ASSUME x10, NEW d \in k.custom, NEW i \in DOMAIN s, s[i].id = d
        PROVE  x5[d] = s[i].keys
    BY <1>4, <1>6, <2>2, <2>3, <2>5
  <2>6. /\ x2' \in Seq(Configuring(k)!Channel) /\ Configuring(k)!Proper(x2')
        /\ x10 => \A d \in k.custom : \A i \in DOMAIN x2' :
                    x2'[i].id = d => x5[d] = x2'[i].keys \/ Configuring(k)!Between(d)'
    BY <1>1, <2>3, <2>4, <2>5
  <2>7. /\ x8' \in [k.commands -> {"idle", "fetch", "upsert", "clear"}]
        /\ x9' \in [k.commands -> {<<>>} \cup {<<a>> : a \in k.accounts}]
        /\ x3' \in Configuring(k)!Ids \cup {k.noChannel}
    BY <1>1, <1>2
  <2> QED
    BY <1>1, <1>7, <2>6, <2>7, SavesKeep
<1>9. CASE ~ \E i \in DOMAIN x2 : x2[i].id = id
  <2> DEFINE c == [id |-> id, type |-> "custom", keys |-> q]
  <2>1. s = Append(x2, c)
    BY <1>9 DEF Configuring!WithCustom
  <2>2. c \in Configuring(k)!Channel /\ c.id = id /\ c.type = "custom" /\ c.keys = q
    BY <1>3 DEF Configuring!Channel, Configuring!Ids
  <2> HIDE DEF c, s
  <2>3. /\ s \in Seq(Configuring(k)!Channel) /\ DOMAIN s = 1 .. Len(x2) + 1
        /\ \A i \in DOMAIN x2 : s[i] = x2[i]
        /\ s[Len(x2) + 1] = c
    BY <1>2, <1>5, <2>1, <2>2
  <2>4. ASSUME NEW i \in DOMAIN s PROVE i \in DOMAIN x2 \/ i = Len(x2) + 1
    BY <1>5, <2>3
  <2>5. Configuring(k)!Proper(s)
    <3>1. ASSUME NEW i \in DOMAIN s, NEW j \in DOMAIN s, s[i].id = s[j].id PROVE i = j
      BY <1>2, <1>9, <2>2, <2>3, <2>4, <3>1 DEF Configuring!Proper
    <3>2. ASSUME NEW i \in DOMAIN s
          PROVE  IF s[i].type = "custom" THEN s[i].id \in k.custom
                 ELSE s[i].id \in k.accounts /\ s[i].keys = k.noKeys
      BY <1>2, <1>3, <2>2, <2>3, <2>4 DEF Configuring!Proper
    <3> QED
      BY <3>1, <3>2 DEF Configuring!Proper
  <2>6. ASSUME x10, NEW d \in k.custom, NEW i \in DOMAIN s, s[i].id = d
        PROVE  x5[d] = s[i].keys
    <3>1. CASE i \in DOMAIN x2
      BY <1>6, <1>9, <2>3, <2>6, <3>1
    <3>2. CASE i = Len(x2) + 1
      <4>1. x5[id] = q
        BY <1>4, <1>9 DEF Configuring!Mentions
      <4> QED
        BY <2>2, <2>3, <2>6, <3>2, <4>1
    <3> QED
      BY <2>4, <3>1, <3>2
  <2>7. /\ x2' \in Seq(Configuring(k)!Channel) /\ Configuring(k)!Proper(x2')
        /\ x10 => \A d \in k.custom : \A i \in DOMAIN x2' :
                    x2'[i].id = d => x5[d] = x2'[i].keys \/ Configuring(k)!Between(d)'
    BY <1>1, <2>3, <2>5, <2>6
  <2>8. /\ x8' \in [k.commands -> {"idle", "fetch", "upsert", "clear"}]
        /\ x9' \in [k.commands -> {<<>>} \cup {<<a>> : a \in k.accounts}]
        /\ x3' \in Configuring(k)!Ids \cup {k.noChannel}
    BY <1>1, <1>2
  <2> QED
    BY <1>1, <1>7, <2>7, <2>8, SavesKeep
<1> QED
  BY <1>8, <1>9

\* An edit's channel is taken out after its keys.
LEMMA DeleteKeeps ==
    ASSUME NEW k, Configuring(k)!ConstantsOK, Configuring(k)!ConfigInv,
           Configuring(k)!DeleteCustomChannel
    PROVE  Configuring(k)!ConfigInv'
<1> DEFINE id == x7.id
           P == {i \in DOMAIN x2 : x2[i].id # id}
           s == Sublist(x2, P)
<1>1. /\ x1 = TRUE /\ x7.op = "delete" /\ x2' = s /\ x3' \in {k.noChannel, x3}
      /\ x7' = Configuring(k)!NoEdit
      /\ Configuring(k)!Write(x2', x3') /\ x5' = x5 /\ x6' = x6 /\ x8' = x8 /\ x9' = x9
  BY ConfigSublists
     DEF Configuring!DeleteCustomChannel, Configuring!ConfigInv, Configuring!TypeOK, Configuring!Without
<1>2. /\ x2 \in Seq(Configuring(k)!Channel) /\ Configuring(k)!Proper(x2)
      /\ x3' \in Configuring(k)!Ids \cup {k.noChannel}
      /\ x10 => Configuring(k)!KeysKept
      /\ x8 \in [k.commands -> {"idle", "fetch", "upsert", "clear"}]
      /\ x9 \in [k.commands -> {<<>>} \cup {<<a>> : a \in k.accounts}]
  BY <1>1 DEF Configuring!ConfigInv, Configuring!TypeOK
<1>3. x7' # x7
  BY <1>1 DEF Configuring!NoEdit
<1>4. /\ s \in Seq(Configuring(k)!Channel) /\ Configuring(k)!Proper(s)
      /\ \A n \in DOMAIN s : \E i \in P : s[n] = x2[i]
  <2>1. P \subseteq DOMAIN x2
    OBVIOUS
  <2> HIDE DEF P
  <2> QED
    BY <1>2, <2>1, SomeChannels
<1> HIDE DEF s
<1>5. ASSUME x10, NEW d \in k.custom, NEW n \in DOMAIN s, s[n].id = d
      PROVE  x5[d] = s[n].keys
  <2>1. PICK i \in P : s[n] = x2[i]
    BY <1>4
  <2>2. x2[i].id = d /\ d # x7.id /\ x2[i].id \in k.custom
    BY <1>5, <2>1
  <2>3. x5[d] = x2[i].keys \/ Configuring(k)!Between(d) \/ ~ x1
    BY <1>2, <1>5, <2>2 DEF Configuring!KeysKept
  <2> QED
    BY <1>1, <2>1, <2>2, <2>3 DEF Configuring!Between
<1>6. /\ x2' \in Seq(Configuring(k)!Channel) /\ Configuring(k)!Proper(x2')
      /\ x10 => \A d \in k.custom : \A i \in DOMAIN x2' :
                  x2'[i].id = d => x5[d] = x2'[i].keys \/ Configuring(k)!Between(d)'
  BY <1>1, <1>4, <1>5
<1>7. /\ x8' \in [k.commands -> {"idle", "fetch", "upsert", "clear"}]
      /\ x9' \in [k.commands -> {<<>>} \cup {<<a>> : a \in k.accounts}]
  BY <1>1, <1>2
<1> QED
  BY <1>1, <1>2, <1>3, <1>6, <1>7, SavesKeep

\* The user's channels are all among those that are not the platform's.
LEMMA CustomsStay ==
    ASSUME NEW k, NEW s \in Seq(Configuring(k)!Channel), Configuring(k)!Proper(s),
           Configuring(k)!ConstantsOK
    PROVE  LET u == Configuring(k)!CustomOnly(s) IN
           /\ u \in Seq(Configuring(k)!Channel) /\ Configuring(k)!Proper(u)
           /\ \A n \in DOMAIN u : u[n].id \in k.custom /\ \E i \in DOMAIN s : u[n] = s[i]
           /\ \A i \in DOMAIN s : s[i].id \in k.custom => \E n \in DOMAIN u : u[n] = s[i]
<1> DEFINE P == {i \in DOMAIN s : s[i].type # "platform"}
           u == Sublist(s, P)
<1>1. Configuring(k)!CustomOnly(s) = u
  BY ConfigSublists DEF Configuring!CustomOnly
<1>2. \A i \in DOMAIN s : s[i] \in Configuring(k)!Channel
  OBVIOUS
<1>3. \A i \in DOMAIN s : i \in P <=> s[i].id \in k.custom
  BY <1>2 DEF Configuring!Proper, Configuring!Channel, Configuring!ConstantsOK
<1>4. /\ u \in Seq(Configuring(k)!Channel) /\ Configuring(k)!Proper(u)
      /\ \A n \in DOMAIN u : \E i \in P : u[n] = s[i]
      /\ \A i \in P : \E n \in DOMAIN u : u[n] = s[i]
  <2>1. P \subseteq DOMAIN s
    OBVIOUS
  <2> HIDE DEF P
  <2> QED
    BY <2>1, SomeChannels
<1> HIDE DEF u
<1> QED
  BY <1>1, <1>3, <1>4

\* What the user does to the list, the default channel or a setting.
LEMMA SettingsKeep ==
    ASSUME NEW k, Configuring(k)!ConstantsOK, Configuring(k)!ConfigInv,
           \/ Configuring(k)!SetDefaultModel \/ Configuring(k)!ReorderChannels
           \/ Configuring(k)!SetSetting
    PROVE  Configuring(k)!ConfigInv'
<1>1. /\ x1 = TRUE /\ x5' = x5 /\ x6' = x6 /\ x7' = x7 /\ x8' = x8 /\ x9' = x9
  BY DEF Configuring!SetDefaultModel, Configuring!ReorderChannels, Configuring!SetSetting,
         Configuring!ConfigInv, Configuring!TypeOK
<1>2. /\ x2 \in Seq(Configuring(k)!Channel) /\ Configuring(k)!Proper(x2)
      /\ x3 \in Configuring(k)!Ids \cup {k.noChannel}
      /\ x8' \in [k.commands -> {"idle", "fetch", "upsert", "clear"}]
      /\ x9' \in [k.commands -> {<<>>} \cup {<<a>> : a \in k.accounts}]
      /\ \A i \in DOMAIN x2 : x2[i] \in Configuring(k)!Channel
  BY <1>1 DEF Configuring!ConfigInv, Configuring!TypeOK
<1>3. CASE Configuring(k)!SetDefaultModel
  <2>1. x2' = x2 /\ Configuring(k)!Write(x2', x3')
    BY <1>3 DEF Configuring!SetDefaultModel
  <2>2. x3' \in Configuring(k)!Ids \cup {k.noChannel}
    <3>1. PICK id \in {ch.id : ch \in {x2[i] : i \in DOMAIN x2}} \cup {k.noChannel} : x3' = id
      BY <1>3 DEF Configuring!SetDefaultModel
    <3>2. \A i \in DOMAIN x2 : x2[i].id \in Configuring(k)!Ids
      BY <1>2, ChannelIs DEF Configuring!Ids
    <3> QED
      BY <3>1, <3>2
  <2> QED
    BY <1>1, <1>2, <2>1, <2>2, ChannelsKeep
<1>4. CASE Configuring(k)!SetSetting
  <2>1. x2' = x2 /\ x3' = x3 /\ Configuring(k)!Write(x2', x3')
    BY <1>4 DEF Configuring!SetSetting
  <2> QED
    BY <1>1, <1>2, <2>1, ChannelsKeep
<1>5. CASE Configuring(k)!ReorderChannels
  <2>1. PICK first \in Configuring(k)!Ids :
          x2' = Configuring(k)!Only(x2, first) \o Configuring(k)!Without(x2, first)
    BY <1>5 DEF Configuring!ReorderChannels
  <2>2. x3' = x3 /\ Configuring(k)!Write(x2', x3')
    BY <1>5 DEF Configuring!ReorderChannels
  <2> DEFINE P == {i \in DOMAIN x2 : x2[i].id = first}
             Q == {i \in DOMAIN x2 : x2[i].id # first}
             a == Sublist(x2, P)
             b == Sublist(x2, Q)
  <2>3. x2' = a \o b
    BY <2>1, ConfigSublists DEF Configuring!Only, Configuring!Without
  <2>4. /\ P \subseteq DOMAIN x2 /\ Q \subseteq DOMAIN x2
        /\ \A i \in DOMAIN x2 : i \in P \/ i \in Q
        /\ \A i \in P : x2[i].id = first
        /\ \A i \in Q : x2[i].id # first
    OBVIOUS
  <2> HIDE DEF P, Q
  <2>5. /\ a \in Seq(Configuring(k)!Channel) /\ Configuring(k)!Proper(a)
        /\ \A n \in DOMAIN a : \E i \in P : a[n] = x2[i]
        /\ \A i \in P : \E n \in DOMAIN a : a[n] = x2[i]
    BY <1>2, <2>4, SomeChannels
  <2>6. /\ b \in Seq(Configuring(k)!Channel) /\ Configuring(k)!Proper(b)
        /\ \A n \in DOMAIN b : \E i \in Q : b[n] = x2[i]
        /\ \A i \in Q : \E n \in DOMAIN b : b[n] = x2[i]
    BY <1>2, <2>4, SomeChannels
  <2> HIDE DEF a, b
  <2> DEFINE u == a \o b
  <2>7. /\ u \in Seq(Configuring(k)!Channel) /\ Configuring(k)!Proper(u)
        /\ \A n \in DOMAIN u : (\E i \in DOMAIN a : u[n] = a[i]) \/ \E j \in DOMAIN b : u[n] = b[j]
        /\ \A i \in DOMAIN a : \E n \in DOMAIN u : u[n] = a[i]
        /\ \A j \in DOMAIN b : \E n \in DOMAIN u : u[n] = b[j]
    <3>1. \A i \in DOMAIN a : \A j \in DOMAIN b : a[i].id # b[j].id
      BY <2>4, <2>5, <2>6
    <3>2. /\ a \in Seq(Configuring(k)!Channel) /\ Configuring(k)!Proper(a)
          /\ b \in Seq(Configuring(k)!Channel) /\ Configuring(k)!Proper(b) /\ u = Joined(a, b)
      BY <2>5, <2>6 DEF Joined
    <3> HIDE DEF u
    <3> QED
      BY <3>1, <3>2, ChannelsTogether
  <2> HIDE DEF u
  <2>8. /\ u \in Seq(Configuring(k)!Channel) /\ Configuring(k)!Proper(u)
        /\ \A i \in DOMAIN x2 : \E n \in DOMAIN u : u[n] = x2[i]
        /\ \A n \in DOMAIN u : \E i \in DOMAIN x2 : u[n] = x2[i]
    <3>1. ASSUME NEW i \in DOMAIN x2 PROVE \E n \in DOMAIN u : u[n] = x2[i]
      <4>1. CASE i \in P
        <5>1. PICK m \in DOMAIN a : a[m] = x2[i]
          BY <2>5, <4>1
        <5> QED
          BY <2>7, <5>1
      <4>2. CASE i \in Q
        <5>1. PICK m \in DOMAIN b : b[m] = x2[i]
          BY <2>6, <4>2
        <5> QED
          BY <2>7, <5>1
      <4> QED
        BY <2>4, <4>1, <4>2
    <3>2. ASSUME NEW n \in DOMAIN u PROVE \E i \in DOMAIN x2 : u[n] = x2[i]
      <4>1. CASE \E m \in DOMAIN a : u[n] = a[m]
        <5>1. PICK m \in DOMAIN a : u[n] = a[m]
          BY <4>1
        <5>2. PICK i \in P : a[m] = x2[i]
          BY <2>5
        <5> QED
          BY <2>4, <5>1, <5>2
      <4>2. CASE \E m \in DOMAIN b : u[n] = b[m]
        <5>1. PICK m \in DOMAIN b : u[n] = b[m]
          BY <4>2
        <5>2. PICK i \in Q : b[m] = x2[i]
          BY <2>6
        <5> QED
          BY <2>4, <5>1, <5>2
      <4> QED
        BY <2>7, <4>1, <4>2
    <3> QED
      BY <2>7, <3>1, <3>2
  <2> QED
    BY <1>1, <1>2, <2>2, <2>3, <2>8, ChannelsKeep DEF u
<1> QED
  BY <1>3, <1>4, <1>5

\* What a command does, which never is to the user's own channels.
LEMMA CommandsKeep ==
    ASSUME NEW k, Configuring(k)!ConstantsOK, Configuring(k)!ConfigInv, NEW c \in k.commands,
           \/ Configuring(k)!Login(c) \/ Configuring(k)!SyncPlatformChannels(c)
           \/ Configuring(k)!Fetch(c) \/ Configuring(k)!UpsertPlatformChannels(c)
           \/ Configuring(k)!Logout(c) \/ Configuring(k)!ClearPlatformChannels(c)
    PROVE  Configuring(k)!ConfigInv'
<1>1. /\ x1 = TRUE /\ x5' = x5 /\ x7' = x7
      /\ x2 \in Seq(Configuring(k)!Channel) /\ Configuring(k)!Proper(x2)
      /\ x3 \in Configuring(k)!Ids \cup {k.noChannel} /\ x6 \in k.accounts \cup {k.noAccount}
      /\ x8 \in [k.commands -> {"idle", "fetch", "upsert", "clear"}]
      /\ x9 \in [k.commands -> {<<>>} \cup {<<a>> : a \in k.accounts}]
  BY DEF Configuring!Login, Configuring!SyncPlatformChannels, Configuring!Fetch,
         Configuring!UpsertPlatformChannels, Configuring!Logout, Configuring!ClearPlatformChannels,
         Configuring!ConfigInv, Configuring!TypeOK
<1>2. /\ x8' \in [k.commands -> {"idle", "fetch", "upsert", "clear"}]
      /\ x6' \in k.accounts \cup {k.noAccount}
  BY <1>1 DEF Configuring!Login, Configuring!SyncPlatformChannels, Configuring!Fetch, Configuring!Goto,
         Configuring!UpsertPlatformChannels, Configuring!Logout, Configuring!ClearPlatformChannels
<1>3. CASE Configuring(k)!Login(c) \/ Configuring(k)!SyncPlatformChannels(c)
           \/ Configuring(k)!Fetch(c) \/ Configuring(k)!Logout(c)
  <2>1. x1' = x1 /\ x2' = x2 /\ x3' = x3 /\ x4' = x4 /\ x10' = x10
    BY <1>3 DEF Configuring!Login, Configuring!SyncPlatformChannels, Configuring!Fetch,
         Configuring!Logout
  <2>2. x9' \in [k.commands -> {<<>>} \cup {<<a>> : a \in k.accounts}]
    <3>1. \/ x9' = x9
          \/ x9' = [x9 EXCEPT ![c] = IF x6 = k.noAccount THEN <<>> ELSE <<x6>>]
      BY <1>3 DEF Configuring!Login, Configuring!SyncPlatformChannels, Configuring!Fetch,
         Configuring!Logout
    <3>2. (IF x6 = k.noAccount THEN <<>> ELSE <<x6>>) \in {<<>>} \cup {<<a>> : a \in k.accounts}
      BY <1>1
    <3> QED
      BY <1>1, <3>1, <3>2
  <2>3. Configuring(k)!TypeOK'
    BY <1>1, <1>2, <2>1, <2>2 DEF Configuring!ConfigInv, Configuring!TypeOK
  <2>4. Configuring(k)!EditFits'
    BY <1>1, <2>1 DEF Configuring!ConfigInv, Configuring!EditFits, Configuring!Mentions
  <2>5. x10' => Configuring(k)!KeysKept' /\ Configuring(k)!FileKept'
    BY <1>1, <2>1 DEF Configuring!ConfigInv, Configuring!KeysKept, Configuring!FileKept,
       Configuring!Between
  <2> QED
    BY <1>1, <2>1, <2>3, <2>4, <2>5 DEF Configuring!ConfigInv
<1> DEFINE own == Configuring(k)!CustomOnly(x2)
<1>4. /\ own \in Seq(Configuring(k)!Channel) /\ Configuring(k)!Proper(own)
      /\ \A n \in DOMAIN own : own[n].id \in k.custom /\ \E i \in DOMAIN x2 : own[n] = x2[i]
      /\ \A i \in DOMAIN x2 : x2[i].id \in k.custom => \E n \in DOMAIN own : own[n] = x2[i]
  BY <1>1, CustomsStay
<1> HIDE DEF own
<1>5. CASE Configuring(k)!ClearPlatformChannels(c)
  <2>1. /\ x2' = own /\ x3' \in {x3, k.noChannel} /\ Configuring(k)!Write(x2', x3')
        /\ x6' = x6 /\ x9' = x9
    BY <1>5 DEF Configuring!ClearPlatformChannels, own
  <2>2. x3' \in Configuring(k)!Ids \cup {k.noChannel}
    BY <1>1, <2>1
  <2> QED
    BY <1>1, <1>2, <1>4, <2>1, <2>2, ChannelsKeep
<1>6. CASE Configuring(k)!UpsertPlatformChannels(c)
  <2> DEFINE p == [i \in DOMAIN x9[c] |-> [id |-> x9[c][i], type |-> "platform", keys |-> k.noKeys]]
             u == own \o p
  <2>1. x2' = u /\ x3' = x3 /\ Configuring(k)!Write(x2', x3') /\ x6' = x6
    BY <1>6 DEF Configuring!UpsertPlatformChannels, Configuring!WithPlatform, own
  <2>2. x9' \in [k.commands -> {<<>>} \cup {<<a>> : a \in k.accounts}]
    <3>1. x9' = [x9 EXCEPT ![c] = <<>>]
      BY <1>6 DEF Configuring!UpsertPlatformChannels
    <3> QED
      BY <1>1, <3>1
  <2>3. /\ p \in Seq(Configuring(k)!Channel) /\ Configuring(k)!Proper(p)
        /\ \A j \in DOMAIN p : p[j].id \in k.accounts
    <3>1. x9[c] \in {<<>>} \cup {<<a>> : a \in k.accounts}
      BY <1>1
    <3>2. CASE x9[c] = <<>>
      <4>1. DOMAIN x9[c] = {}
        BY <3>2
      <4>2. p = <<>>
        BY <4>1
      <4> HIDE DEF p
      <4>3. p \in Seq(Configuring(k)!Channel) /\ DOMAIN p = {}
        BY <4>2, EmptySeq
      <4> QED
        BY <4>3 DEF Configuring!Proper
    <3>3. CASE \E a \in k.accounts : x9[c] = <<a>>
      <4>1. PICK a \in k.accounts : x9[c] = <<a>>
        BY <3>3
      <4> DEFINE d == [id |-> a, type |-> "platform", keys |-> k.noKeys]
      <4>2. DOMAIN x9[c] = {1} /\ x9[c][1] = a
        BY <4>1
      <4>3. p = <<d>>
        <5>1. p = [i \in {1} |-> d]
          BY <4>2
        <5>2. <<d>> = [i \in 1 .. 1 |-> d]
          OBVIOUS
        <5>3. 1 .. 1 = {1}
          OBVIOUS
        <5> QED
          BY <5>1, <5>2, <5>3
      <4>4. d \in Configuring(k)!Channel /\ d.id = a /\ d.type = "platform" /\ d.keys = k.noKeys
        BY DEF Configuring!Channel, Configuring!Ids
      <4> HIDE DEF p, d
      <4>5. p \in Seq(Configuring(k)!Channel) /\ DOMAIN p = {1} /\ p[1] = d
        BY <4>3, <4>4
      <4> QED
        BY <4>4, <4>5 DEF Configuring!Proper
    <3> QED
      BY <3>1, <3>2, <3>3
  <2> HIDE DEF p
  <2>4. k.custom \cap k.accounts = {}
    BY DEF Configuring!ConstantsOK
  <2>5. /\ u \in Seq(Configuring(k)!Channel) /\ Configuring(k)!Proper(u)
        /\ \A n \in DOMAIN u : \/ \E i \in DOMAIN own : u[n] = own[i]
                               \/ \E j \in DOMAIN p : u[n] = p[j]
        /\ \A i \in DOMAIN own : \E n \in DOMAIN u : u[n] = own[i]
    <3>1. \A i \in DOMAIN own : \A j \in DOMAIN p : own[i].id # p[j].id
      BY <1>4, <2>3, <2>4
    <3>2. /\ own \in Seq(Configuring(k)!Channel) /\ Configuring(k)!Proper(own)
          /\ p \in Seq(Configuring(k)!Channel) /\ Configuring(k)!Proper(p) /\ u = Joined(own, p)
      BY <1>4, <2>3 DEF Joined
    <3> HIDE DEF u
    <3> QED
      BY <3>1, <3>2, ChannelsTogether
  <2> HIDE DEF u
  <2>6. /\ \A i \in DOMAIN x2 : x2[i].id \in k.custom => \E n \in DOMAIN u : u[n] = x2[i]
        /\ \A n \in DOMAIN u : u[n].id \in k.custom => \E i \in DOMAIN x2 : u[n] = x2[i]
    <3>1. ASSUME NEW i \in DOMAIN x2, x2[i].id \in k.custom PROVE \E n \in DOMAIN u : u[n] = x2[i]
      <4>1. PICK m \in DOMAIN own : own[m] = x2[i]
        BY <1>4, <3>1
      <4> QED
        BY <2>5, <4>1
    <3>2. ASSUME NEW n \in DOMAIN u, u[n].id \in k.custom PROVE \E i \in DOMAIN x2 : u[n] = x2[i]
      <4>1. PICK m \in DOMAIN own : u[n] = own[m]
        BY <2>3, <2>4, <2>5, <3>2
      <4>2. PICK i \in DOMAIN x2 : own[m] = x2[i]
        BY <1>4
      <4> QED
        BY <4>1, <4>2
    <3> QED
      BY <3>1, <3>2
  <2> QED
    BY <1>1, <1>2, <2>1, <2>2, <2>5, <2>6, ChannelsKeep
<1> QED
  BY <1>3, <1>5, <1>6

LEMMA ConfigSteps ==
    ASSUME NEW k, Configuring(k)!ConstantsOK, Configuring(k)!ConfigInv,
           [Configuring(k)!Next]_(Configuring(k)!vars)
    PROVE  Configuring(k)!ConfigInv' /\ Configuring(k)!KeepsChannels
<1>1. CASE UNCHANGED Configuring(k)!vars
  <2>1. UNCHANGED <<x1, x2, x3, x4, x5, x6, x7, x8, x9, x10>>
    BY <1>1 DEF Configuring!vars
  <2> QED
    BY <2>1 DEF Configuring!ConfigInv, Configuring!TypeOK, Configuring!EditFits, Configuring!KeysKept,
       Configuring!FileKept, Configuring!Between, Configuring!Mentions, Configuring!KeepsChannels
<1>2. CASE Configuring(k)!Boot
  BY <1>2, StartKeeps
<1>3. CASE \/ Configuring(k)!ProcessEnds \/ Configuring(k)!StartEdit
           \/ Configuring(k)!StoreKeys \/ Configuring(k)!DeleteKeys
  BY <1>3, EditsKeep
<1>4. ASSUME x1 = TRUE PROVE Configuring(k)!KeepsChannels
  BY <1>4 DEF Configuring!KeepsChannels
<1>5. CASE Configuring(k)!SaveCustomChannel \/ Configuring(k)!DeleteCustomChannel
  <2>1. x1 = TRUE
    BY <1>5 DEF Configuring!SaveCustomChannel, Configuring!DeleteCustomChannel, Configuring!ConfigInv,
       Configuring!TypeOK
  <2> QED
    BY <1>4, <1>5, <2>1, SaveKeeps, DeleteKeeps
<1>6. CASE \/ Configuring(k)!SetDefaultModel \/ Configuring(k)!ReorderChannels
           \/ Configuring(k)!SetSetting
  <2>1. x1 = TRUE
    BY <1>6 DEF Configuring!SetDefaultModel, Configuring!ReorderChannels, Configuring!SetSetting,
       Configuring!ConfigInv, Configuring!TypeOK
  <2> QED
    BY <1>4, <1>6, <2>1, SettingsKeep
<1>7. ASSUME NEW c \in k.commands,
             \/ Configuring(k)!Login(c) \/ Configuring(k)!SyncPlatformChannels(c)
             \/ Configuring(k)!Fetch(c) \/ Configuring(k)!UpsertPlatformChannels(c)
             \/ Configuring(k)!Logout(c) \/ Configuring(k)!ClearPlatformChannels(c)
      PROVE  Configuring(k)!ConfigInv' /\ Configuring(k)!KeepsChannels
  <2>1. x1 = TRUE
    BY <1>7 DEF Configuring!Login, Configuring!SyncPlatformChannels, Configuring!Fetch,
         Configuring!UpsertPlatformChannels, Configuring!Logout, Configuring!ClearPlatformChannels,
         Configuring!ConfigInv, Configuring!TypeOK
  <2> QED
    BY <1>4, <1>7, <2>1, CommandsKeep
<1> QED
  BY <1>1, <1>2, <1>3, <1>5, <1>6, <1>7 DEF Configuring!Next

\* For any channels, accounts, commands and faults: the channels, their order,
\* their keys and the default one survive a restart, if the disk and the
\* keychain took what they were given and no edit was cut in two.
THEOREM ChannelsSurvive ==
    ASSUME NEW k, Configuring(k)!ConstantsOK
    PROVE  Configuring(k)!Spec => []Configuring(k)!TypeOK /\ Configuring(k)!RestartKeepsChannels
<1>1. Configuring(k)!Init => Configuring(k)!ConfigInv
  BY ConfigStarts
<1>2. Configuring(k)!ConfigInv /\ [Configuring(k)!Next]_(Configuring(k)!vars)
         => Configuring(k)!ConfigInv' /\ Configuring(k)!KeepsChannels
  BY ConfigSteps
<1>3. Configuring(k)!ConfigInv => Configuring(k)!TypeOK
  BY DEF Configuring!ConfigInv
<1> QED
  BY <1>1, <1>2, <1>3, PTL DEF Configuring!Spec, Configuring!RestartKeepsChannels

\* The text among the items of a stream.
Texts(s) == Sublist(s, {k \in DOMAIN s : s[k].kind = "text"})
Alone(x) == IF x.kind = "text" THEN <<x>> ELSE <<>>

LEMMA TextsAre == ASSUME NEW T, NEW s \in Seq(T) PROVE Texts(s) \in Seq(T)
<1>1. {k \in DOMAIN s : s[k].kind = "text"} \subseteq DOMAIN s
  OBVIOUS
<1> QED
  BY <1>1, SublistHas DEF Texts

LEMMA TextsOfConcat ==
    ASSUME NEW T, NEW s \in Seq(T), NEW t \in Seq(T)
    PROVE  Texts(s \o t) = Texts(s) \o Texts(t)
<1> DEFINE P(u) == {k \in DOMAIN u : u[k].kind = "text"}
<1>1. /\ Len(s) \in Nat /\ DOMAIN s = 1 .. Len(s) /\ Len(t) \in Nat /\ DOMAIN t = 1 .. Len(t)
      /\ DOMAIN (s \o t) = 1 .. Len(s) + Len(t)
      /\ \A k \in 1 .. Len(s) : (s \o t)[k] = s[k]
      /\ \A k \in 1 .. Len(t) : (s \o t)[Len(s) + k] = t[k]
  OBVIOUS
<1>2. ASSUME NEW k \in 1 .. Len(s) + Len(t), ~ k \in 1 .. Len(s)
      PROVE  k - Len(s) \in 1 .. Len(t) /\ k = Len(s) + (k - Len(s))
  BY <1>1, <1>2
<1>3. P(s \o t) = Beside(P(s), Len(s), P(t))
  <2>1. ASSUME NEW k \in P(s \o t) PROVE k \in Beside(P(s), Len(s), P(t))
    <3>1. CASE k \in 1 .. Len(s)
      BY <1>1, <3>1 DEF Beside
    <3>2. CASE ~ k \in 1 .. Len(s)
      <4>1. k - Len(s) \in 1 .. Len(t) /\ k = Len(s) + (k - Len(s))
        BY <1>1, <1>2, <3>2
      <4>2. (s \o t)[Len(s) + (k - Len(s))] = t[k - Len(s)]
        BY <1>1, <4>1
      <4>3. k - Len(s) \in P(t)
        BY <1>1, <4>1, <4>2
      <4> QED
        BY <4>1, <4>3 DEF Beside
    <3> QED
      BY <3>1, <3>2
  <2>2. ASSUME NEW k \in P(s) PROVE k \in P(s \o t)
    <3>1. k \in 1 .. Len(s) + Len(t)
      BY <1>1
    <3> QED
      BY <1>1, <3>1
  <2>3. ASSUME NEW k \in P(t) PROVE Len(s) + k \in P(s \o t)
    <3>1. Len(s) + k \in 1 .. Len(s) + Len(t)
      BY <1>1
    <3> QED
      BY <1>1, <3>1
  <2> HIDE DEF P
  <2> QED
    BY <2>1, <2>2, <2>3 DEF Beside
<1>4. P(s) \subseteq DOMAIN s /\ P(t) \subseteq DOMAIN t
  OBVIOUS
<1>5. Sublist(s \o t, Beside(P(s), Len(s), P(t))) = Sublist(s, P(s)) \o Sublist(t, P(t))
  <2> HIDE DEF P
  <2> QED
    BY <1>4, SublistOfConcat
<1> QED
  BY <1>3, <1>5 DEF Texts

LEMMA TextsOfFew == Texts(<<>>) = <<>> /\ \A x : Texts(<<x>>) = Alone(x)
<1>1. ASSUME NEW x PROVE Texts(<<x>>) = Alone(x)
  <2>1. {k \in DOMAIN <<x>> : <<x>>[k].kind = "text"} = IF x.kind = "text" THEN {1} ELSE {}
    <3>1. DOMAIN <<x>> = {1} /\ <<x>>[1] = x
      OBVIOUS
    <3> QED
      BY <3>1
  <2>2. CASE x.kind = "text"
    BY <2>1, <2>2, SublistOfFew DEF Texts, Alone
  <2>3. CASE x.kind # "text"
    BY <2>1, <2>3, SublistOfFew DEF Texts, Alone
  <2> QED
    BY <2>2, <2>3
<1>2. Texts(<<>>) = <<>>
  <2>1. {k \in DOMAIN <<>> : <<>>[k].kind = "text"} = {}
    OBVIOUS
  <2> QED
    BY <2>1, SublistOfFew DEF Texts
<1> QED
  BY <1>1, <1>2

\* An item is put at the end, taken from the front, or read.
LEMMA TextsOfMoved ==
    ASSUME NEW T, NEW s \in Seq(T)
    PROVE  /\ \A x \in T : Texts(Append(s, x)) = Texts(s) \o Alone(x)
           /\ s # <<>> => Texts(s) = Alone(Head(s)) \o Texts(Tail(s))
           /\ \A n \in 0 .. Len(s) - 1 :
                 Texts(SubSeq(s, 1, n + 1)) = Texts(SubSeq(s, 1, n)) \o Alone(s[n + 1])
<1>1. ASSUME NEW x \in T, NEW u \in Seq(T) PROVE Texts(Append(u, x)) = Texts(u) \o Alone(x)
  <2>1. Append(u, x) = u \o <<x>> /\ <<x>> \in Seq(T)
    OBVIOUS
  <2> QED
    BY <2>1, TextsOfConcat, TextsOfFew
<1>2. s # <<>> => Texts(s) = Alone(Head(s)) \o Texts(Tail(s))
  <2>1. s # <<>> => s = <<Head(s)>> \o Tail(s) /\ <<Head(s)>> \in Seq(T) /\ Tail(s) \in Seq(T)
    OBVIOUS
  <2> QED
    BY <2>1, TextsOfConcat, TextsOfFew
<1>3. ASSUME NEW n \in 0 .. Len(s) - 1
      PROVE  Texts(SubSeq(s, 1, n + 1)) = Texts(SubSeq(s, 1, n)) \o Alone(s[n + 1])
  <2>1. Len(s) \in Nat /\ n \in Nat /\ n + 1 \in 1 .. Len(s) /\ (n + 1) - 1 = n /\ s[n + 1] \in T
    OBVIOUS
  <2>2. SubSeq(s, 1, n) \in Seq(T) /\ <<s[n + 1]>> \in Seq(T)
    BY <2>1
  <2>3. SubSeq(s, 1, n + 1) = SubSeq(s, 1, n) \o <<s[n + 1]>>
    <3>1. 1 \in 1 .. Len(s) /\ n + 1 \in 1 .. Len(s)
      BY <2>1
    <3>2. SubSeq(s, 1, n + 1) = SubSeq(s, 1, (n + 1) - 1) \o <<s[n + 1]>>
      BY <3>1, SubSeqRecursiveSecond
    <3> QED
      BY <2>1, <3>2
  <2> QED
    BY <2>2, <2>3, TextsOfConcat, TextsOfFew
<1> QED
  BY <1>1, <1>2, <1>3

LEMMA TextsOfRest ==
    ASSUME NEW T, NEW s \in Seq(T), NEW n \in 0 .. Len(s)
    PROVE  SubSeq(s, n + 1, Len(s)) \in Seq(T)
           /\ Texts(s) = Texts(SubSeq(s, 1, n)) \o Texts(SubSeq(s, n + 1, Len(s)))
<1>1. /\ SubSeq(s, 1, n) \in Seq(T) /\ SubSeq(s, n + 1, Len(s)) \in Seq(T)
      /\ s = SubSeq(s, 1, n) \o SubSeq(s, n + 1, Len(s))
  <2>1. Len(s) \in Nat /\ n \in Nat /\ n <= Len(s) /\ DOMAIN s = 1 .. Len(s)
    OBVIOUS
  <2>2. SubSeq(s, 1, n) \in Seq(T) /\ SubSeq(s, n + 1, Len(s)) \in Seq(T)
    BY <2>1
  <2>3. SubSeq(s, 1, n) \o SubSeq(s, n + 1, Len(s)) = SubSeq(s, 1, Len(s))
    <3>1. 1 \in 1 .. Len(s) + 1 /\ n \in 1 - 1 .. Len(s) /\ Len(s) \in n .. Len(s)
      BY <2>1
    <3> QED
      BY <3>1, ConcatAdjacentSubSeq
  <2> QED
    BY <2>2, <2>3, SubSeqFull
<1> QED
  BY <1>1, TextsOfConcat

-----------------------------------------------------------------------------
\* The way of an answer, for any requests and any number of events. Of the
\* pool x1 .. x13 are ask, sent, read, conn, translator, converter, handler,
\* client, got, status, captured, records and reply.

\* The text of a pipe is that among its items.
LEMMA OwnTextIs == ASSUME NEW k PROVE \A s : Delivery(k)!OwnText(s) = Texts(s)
BY DEF Delivery!OwnText, Delivery!Sublist, Delivery!Nth, Delivery!Place, Texts, Sublist, Nth, Place,
       Delivery!Cardinality, Cardinality

\* What a request asks for stays while its answer is under way.
LEMMA SameAsk ==
    ASSUME NEW k, UNCHANGED x1
    PROVE  /\ Delivery(k)!Translates' = Delivery(k)!Translates
           /\ Delivery(k)!Converts' = Delivery(k)!Converts
           /\ Delivery(k)!Recorder' = Delivery(k)!Recorder
           /\ Delivery(k)!Chat' = Delivery(k)!Chat
BY DEF Delivery!Translates, Delivery!Converts, Delivery!Recorder, Delivery!Chat, Delivery!Dialect

LEMMA AnswerStart == ASSUME NEW k, Delivery(k)!Init PROVE Delivery(k)!DeliveryInv
<1>1. /\ x2 = <<>> /\ x3 = 0 /\ x4 = "open" /\ x5 = Delivery(k)!NoStage /\ x6 = Delivery(k)!NoStage
      /\ x7 = "waiting" /\ x9 = <<>> /\ x10 = 0 /\ x11 = "none" /\ x12 = <<>> /\ x8 = "there"
  BY DEF Delivery!Init
<1>2. /\ x2 \in Seq(Delivery(k)!Items) /\ Len(x2) = 0 /\ DOMAIN x2 = {}
      /\ x5.run = "none" /\ x5.todo = <<>> /\ DOMAIN x5 = {"run", "todo", "first"}
      /\ x6.run = "none" /\ x6.todo = <<>> /\ DOMAIN x6 = {"run", "todo", "first"}
  BY <1>1 DEF Delivery!NoStage
<1>3. Delivery(k)!Shapes
  BY <1>1, <1>2 DEF Delivery!Shapes, Delivery!Stage, Delivery!Kinds, Delivery!LastOnly
<1>4. Delivery(k)!InOrder
  <2>1. Delivery(k)!OwnText(<<>>) = <<>>
    BY OwnTextIs, TextsOfFew
  <2>2. 0 \in 0 .. Len(<<>>) /\ <<>> = SubSeq(<<>>, 1, 0)
    OBVIOUS
  <2> QED
    BY <1>1, <2>1, <2>2 DEF Delivery!InOrder
<1>5. Delivery(k)!Flows
  BY <1>1 DEF Delivery!Flows
<1>6. Delivery(k)!Stops
  BY <1>1, <1>2 DEF Delivery!Stops, Delivery!HasKind
<1>7. Delivery(k)!Ending
  BY <1>1, <1>2 DEF Delivery!Ending, Delivery!HasKind
<1>8. Delivery(k)!Accounts
  BY <1>1, <1>2 DEF Delivery!Accounts, Delivery!HasKind
<1>9. Delivery(k)!ChargedOnce
  BY <1>1, <1>2 DEF Delivery!ChargedOnce
<1> QED
  BY <1>3, <1>4, <1>5, <1>6, <1>7, <1>8, <1>9 DEF Delivery!DeliveryInv

\* The upstream ends its answer, the connection breaks or the client leaves.
LEMMA UpstreamGoes ==
    ASSUME NEW k, Delivery(k)!DeliveryInv,
           x4' = x4 \/ x4' \in {"cut", "closed"} \/ (x4 = "open" /\ x4' = "ended"),
           UNCHANGED <<x1, x2, x3, x5, x6, x7, x9, x10, x11, x12>>,
           x8' = x8 \/ x8' = "gone"
    PROVE  Delivery(k)!DeliveryInv'
<1>0. /\ Delivery(k)!Shapes /\ Delivery(k)!InOrder /\ Delivery(k)!Flows /\ Delivery(k)!Stops
      /\ Delivery(k)!Ending /\ Delivery(k)!Accounts /\ Delivery(k)!ChargedOnce
  BY DEF Delivery!DeliveryInv
<1>1. /\ Delivery(k)!Translates' = Delivery(k)!Translates
      /\ Delivery(k)!Converts' = Delivery(k)!Converts
      /\ Delivery(k)!Recorder' = Delivery(k)!Recorder
      /\ Delivery(k)!Chat' = Delivery(k)!Chat
  BY SameAsk
<1>2. Delivery(k)!Finished' = Delivery(k)!Finished /\ Delivery(k)!Halted' = Delivery(k)!Halted
      /\ Delivery(k)!Final' = Delivery(k)!Final /\ Delivery(k)!ConverterDone' = Delivery(k)!ConverterDone
      /\ Delivery(k)!InFlight' = Delivery(k)!InFlight
  BY <1>1 DEF Delivery!Finished, Delivery!Halted, Delivery!Final, Delivery!ConverterDone, Delivery!InFlight
<1>3. Delivery(k)!Shapes'
  BY <1>0, <1>1 DEF Delivery!Shapes
<1>4. Delivery(k)!InOrder'
  BY <1>0 DEF Delivery!InOrder
<1>5. Delivery(k)!Flows'
  BY <1>0, <1>1, <1>2 DEF Delivery!Flows, Delivery!Live
<1>6. Delivery(k)!Stops'
  BY <1>0, <1>1, <1>2 DEF Delivery!Stops
<1>7. Delivery(k)!Ending'
  BY <1>0, <1>1, <1>2 DEF Delivery!Ending, Delivery!Live
<1>8. Delivery(k)!Accounts'
  BY <1>0, <1>1 DEF Delivery!Accounts
<1>9. Delivery(k)!ChargedOnce'
  BY <1>0, <1>1 DEF Delivery!ChargedOnce
<1> QED
  BY <1>3, <1>4, <1>5, <1>6, <1>7, <1>8, <1>9 DEF Delivery!DeliveryInv

\* An item has its kind.
LEMMA AnItem ==
    ASSUME NEW k, NEW w \in Delivery(k)!ItemKinds, NEW n \in Nat
    PROVE  Delivery(k)!Item(w, n) \in Delivery(k)!Items /\ Delivery(k)!Item(w, n).kind = w
BY DEF Delivery!Item, Delivery!Items

\* The upstream sends another event.
LEMMA UpstreamSent ==
    ASSUME NEW k, Delivery(k)!DeliveryInv, Delivery(k)!UpstreamSends
    PROVE  Delivery(k)!DeliveryInv'
<1>0. /\ Delivery(k)!Shapes /\ Delivery(k)!InOrder /\ Delivery(k)!Flows /\ Delivery(k)!Stops
      /\ Delivery(k)!Ending /\ Delivery(k)!Accounts /\ Delivery(k)!ChargedOnce
  BY DEF Delivery!DeliveryInv
<1>1. /\ Delivery(k)!Translates' = Delivery(k)!Translates
      /\ Delivery(k)!Converts' = Delivery(k)!Converts
      /\ Delivery(k)!Recorder' = Delivery(k)!Recorder
      /\ Delivery(k)!Chat' = Delivery(k)!Chat
  BY SameAsk DEF Delivery!UpstreamSends
<1>2. /\ x4 = "open" /\ x7 # "waiting" /\ ~ Delivery(k)!Finished
      /\ UNCHANGED <<x1, x3, x4, x5, x6, x7, x8, x9, x10, x11, x12>>
  BY DEF Delivery!UpstreamSends, Delivery!Finished
<1>3. PICK w \in Delivery(k)!EventKinds : x2' = Append(x2, Delivery(k)!Item(w, Len(x2) + 1))
  BY DEF Delivery!UpstreamSends
<1> DEFINE e == Delivery(k)!Item(w, Len(x2) + 1)
<1>4. /\ x2 \in Seq(Delivery(k)!Items) /\ Len(x2) \in Nat /\ DOMAIN x2 = 1 .. Len(x2) /\ x3 \in 0 .. Len(x2)
      /\ x9 \in Seq(Delivery(k)!Items)
  BY <1>0 DEF Delivery!Shapes
<1>5. e.kind \in {"text", "other", "usage", "done"} /\ e \in Delivery(k)!Items /\ (~ x1.stream => e.kind = "text")
  <2>1. w \in {"text", "other", "usage", "done"} /\ (~ x1.stream => w = "text")
    BY DEF Delivery!EventKinds
  <2>2. w \in Delivery(k)!ItemKinds /\ Len(x2) + 1 \in Nat
    BY <1>4, <2>1 DEF Delivery!ItemKinds
  <2> QED
    BY <2>1, <2>2, AnItem
<1> HIDE DEF e
<1>6. /\ x2' = Append(x2, e) /\ x2' \in Seq(Delivery(k)!Items) /\ Len(x2') = Len(x2) + 1
      /\ DOMAIN x2' = 1 .. Len(x2) + 1 /\ x2'[Len(x2) + 1] = e
      /\ \A i \in 1 .. Len(x2) : x2'[i] = x2[i]
  BY <1>3, <1>4, <1>5 DEF e
<1>7. \A i \in 1 .. Len(x2) : x2[i].kind # "done"
  <2>1. \A i \in 1 .. Len(x2) : x2[i].kind = "done" => i = Len(x2)
    BY <1>0, <1>4 DEF Delivery!Shapes, Delivery!LastOnly
  <2>2. x2 # <<>> => x2[Len(x2)].kind # "done"
    BY <1>2 DEF Delivery!Finished
  <2>3. \A i \in 1 .. Len(x2) : Len(x2) # 0
    BY <1>4
  <2>4. Len(x2) # 0 => x2 # <<>>
    BY <1>4
  <2> QED
    BY <2>1, <2>2, <2>3, <2>4
<1>8. SubSeq(x2', 1, x3) = SubSeq(x2, 1, x3)
  BY <1>4, <1>6
<1>9. ~ Delivery(k)!Final /\ ~ Delivery(k)!Final' /\ (Delivery(k)!Halted => Delivery(k)!Halted')
  <2>1. x3' # Len(x2')
    BY <1>2, <1>4, <1>6
  <2> QED
    BY <1>1, <1>2, <2>1 DEF Delivery!Final, Delivery!Halted
<1>10. /\ Delivery(k)!ConverterDone' = Delivery(k)!ConverterDone
       /\ Delivery(k)!InFlight' = Delivery(k)!InFlight
  BY <1>1, <1>2 DEF Delivery!ConverterDone, Delivery!InFlight
<1>11. Delivery(k)!Shapes'
  <2>1. /\ x2' \in Seq(Delivery(k)!Items) /\ x3' \in 0 .. Len(x2')
        /\ Delivery(k)!Kinds(x2', {"text", "other", "usage", "done"}) /\ Delivery(k)!LastOnly(x2')
        /\ (~ x1.stream => Delivery(k)!Kinds(x2', {"text"}))
    <3>1. Delivery(k)!Kinds(x2, {"text", "other", "usage", "done"}) /\ (~ x1.stream => Delivery(k)!Kinds(x2, {"text"}))
      BY <1>0 DEF Delivery!Shapes
    <3>2. \A i \in 1 .. Len(x2) + 1 : i = Len(x2) + 1 \/ i \in 1 .. Len(x2)
      BY <1>4
    <3>3. Delivery(k)!Kinds(x2', {"text", "other", "usage", "done"}) /\ Delivery(k)!LastOnly(x2')
          /\ (~ x1.stream => Delivery(k)!Kinds(x2', {"text"}))
      BY <1>4, <1>5, <1>6, <1>7, <3>1, <3>2 DEF Delivery!Kinds, Delivery!LastOnly
    <3>4. x3' \in 0 .. Len(x2')
      BY <1>2, <1>4, <1>6
    <3> QED
      BY <1>6, <3>3, <3>4
  <2> QED
    BY <1>0, <1>1, <1>2, <2>1 DEF Delivery!Shapes
<1>12. Delivery(k)!InOrder'
  <2>1. Texts(x2') = Texts(x2) \o Alone(e) /\ Texts(x2) \in Seq(Delivery(k)!Items)
        /\ Alone(e) \in Seq(Delivery(k)!Items)
    <3>1. Texts(x2') = Texts(x2) \o Alone(e)
      BY <1>4, <1>5, <1>6, TextsOfMoved
    <3>2. Texts(x2) \in Seq(Delivery(k)!Items)
      BY <1>4, TextsAre
    <3>3. Alone(e) \in Seq(Delivery(k)!Items)
      BY <1>5 DEF Alone
    <3> QED
      BY <3>1, <3>2, <3>3
  <2>2. PICK n \in 0 .. Len(Texts(x2)) : Texts(x9) = SubSeq(Texts(x2), 1, n)
    BY <1>0, OwnTextIs DEF Delivery!InOrder
  <2>3. n \in 0 .. Len(Texts(x2')) /\ SubSeq(Texts(x2'), 1, n) = SubSeq(Texts(x2), 1, n)
    BY <2>1, <2>2
  <2>4. \E m \in 0 .. Len(Texts(x2')) : Texts(x9') = SubSeq(Texts(x2'), 1, m)
    BY <1>2, <2>2, <2>3
  <2> QED
    BY <2>4, OwnTextIs DEF Delivery!InOrder
<1>13. Delivery(k)!Flows'
  BY <1>0, <1>1, <1>2, <1>8, <1>10 DEF Delivery!Flows, Delivery!Live
<1>14. Delivery(k)!Stops'
  BY <1>0, <1>1, <1>2, <1>9, <1>10 DEF Delivery!Stops
<1>15. Delivery(k)!Ending'
  BY <1>0, <1>1, <1>2, <1>8, <1>9, <1>10 DEF Delivery!Ending, Delivery!Live
<1>16. Delivery(k)!Accounts'
  BY <1>0, <1>1, <1>2 DEF Delivery!Accounts
<1>17. Delivery(k)!ChargedOnce'
  BY <1>0, <1>1, <1>2 DEF Delivery!ChargedOnce
<1> QED
  BY <1>11, <1>12, <1>13, <1>14, <1>15, <1>16, <1>17 DEF Delivery!DeliveryInv

\* What is recorded of an answer with this status, after which these counts
\* were seen.
RecordsTell(k, code, seen, recs) ==
    /\ recs \in Seq([log : BOOLEAN, usage : {"none", "output", "full"}])
    /\ Delivery(k)!Chat => Len(recs) = IF code >= 400 THEN 1 ELSE 2
    /\ \A i \in 1 .. Len(recs) : i = 2 => code = 200 /\ recs[2].usage = seen

LEMMA RecordsAre ==
    ASSUME NEW k, NEW code \in {200, 400, 502}, NEW seen \in {"none", "output", "full"}
    PROVE  RecordsTell(k, code, seen, Delivery(k)!Recorded(code, seen))
<1> DEFINE R == [log : BOOLEAN, usage : {"none", "output", "full"}]
           r == Delivery(k)!Recorded(code, seen)
           a == IF Delivery(k)!Chat THEN <<[log |-> code < 400, usage |-> "none"]>> ELSE <<>>
           b == IF code < 400 /\ (Delivery(k)!Chat \/ seen # "none")
                THEN <<[log |-> FALSE, usage |-> seen]>> ELSE <<>>
<1>1. r = a \o b
  BY DEF Delivery!Recorded
<1>2. \A y \in R : <<y>> \in Seq(R) /\ Len(<<y>>) = 1 /\ <<y>>[1] = y
  OBVIOUS
<1>3. <<>> \in Seq(R) /\ Len(<<>>) = 0 /\ (code < 400) \in BOOLEAN
  OBVIOUS
<1>4. [log |-> code < 400, usage |-> "none"] \in R /\ [log |-> FALSE, usage |-> seen] \in R
      /\ [log |-> FALSE, usage |-> seen].usage = seen
  BY <1>3
<1>5. /\ a \in Seq(R) /\ Len(a) \in Nat /\ Len(a) <= 1
      /\ (Delivery(k)!Chat => Len(a) = 1) /\ (~ Delivery(k)!Chat => a = <<>>)
  <2>1. CASE Delivery(k)!Chat
    BY <1>2, <1>4, <2>1
  <2>2. CASE ~ Delivery(k)!Chat
    BY <1>3, <2>2
  <2> QED
    BY <2>1, <2>2
<1>6. /\ b \in Seq(R) /\ Len(b) \in Nat /\ Len(b) <= 1
      /\ (Len(b) = 1 => code < 400 /\ b[1].usage = seen)
      /\ (code >= 400 => b = <<>>) /\ (Delivery(k)!Chat /\ code < 400 => Len(b) = 1)
  <2>1. CASE code < 400 /\ (Delivery(k)!Chat \/ seen # "none")
    <3>1. b = <<[log |-> FALSE, usage |-> seen]>>
      BY <2>1
    <3>2. ~ code >= 400
      BY <2>1
    <3> HIDE DEF b, R
    <3> QED
      BY <1>2, <1>4, <2>1, <3>1, <3>2
  <2>2. CASE ~ (code < 400 /\ (Delivery(k)!Chat \/ seen # "none"))
    <3>1. b = <<>>
      BY <2>2
    <3> HIDE DEF b
    <3> QED
      BY <1>3, <2>2, <3>1
  <2> QED
    BY <2>1, <2>2
<1> HIDE DEF a, b, r, R
<1>7. r \in Seq(R) /\ Len(r) \in Nat /\ Len(r) = Len(a) + Len(b) /\ (Len(a) = 1 /\ Len(b) = 1 => r[2] = b[1])
  BY <1>1, <1>5, <1>6
<1>8. (code < 400 <=> code = 200) /\ (code >= 400 <=> code # 200)
  OBVIOUS
<1>9. Delivery(k)!Chat => Len(r) = IF code >= 400 THEN 1 ELSE 2
  <2>1. ASSUME Delivery(k)!Chat PROVE Len(r) = IF code >= 400 THEN 1 ELSE 2
    <3>1. CASE code >= 400
      BY <1>5, <1>6, <1>7, <2>1, <3>1
    <3>2. CASE ~ code >= 400
      <4>1. Len(a) = 1 /\ Len(b) = 1
        BY <1>5, <1>6, <1>8, <2>1, <3>2
      <4>2. Len(r) = 2
        BY <1>7, <4>1
      <4> QED
        BY <3>2, <4>2
    <3> QED
      BY <3>1, <3>2
  <2> QED
    BY <2>1
<1>10. ASSUME NEW i \in 1 .. Len(r), i = 2 PROVE code = 200 /\ r[2].usage = seen
  <2>2. 2 <= Len(r)
    BY <1>7, <1>10
  <2>3. Len(a) = 1 /\ Len(b) = 1
    BY <1>5, <1>6, <1>7, <2>2
  <2> QED
    BY <1>6, <1>7, <1>8, <2>3
<1> QED
  BY <1>7, <1>9, <1>10 DEF R, r, RecordsTell

\* What Return does to what is kept, whatever it replies.
Returned(k, code, body, seen) ==
    /\ UNCHANGED <<x1, x2, x3, x6, x8>>
    /\ x7' = "returned" /\ x10' = code /\ x9' = body /\ x11' = seen
    /\ x4' = x4 \/ (x4 = "open" /\ x4' = "closed")
    /\ x12' = Delivery(k)!Recorded(code, seen)

\* The handler returns with an answer that is whole, has an end that is true,
\* and is charged for.
LEMMA HandlerReturns ==
    ASSUME NEW k, NEW code \in {200, 400, 502}, NEW body \in Seq(Delivery(k)!Items),
           NEW seen \in {"none", "output", "full"},
           Delivery(k)!DeliveryInv, Returned(k, code, body, seen), UNCHANGED x5,
           x7 # "returned",
           \E n \in 0 .. Len(Texts(x2)) : Texts(body) = SubSeq(Texts(x2), 1, n),
           Delivery(k)!HasKind(body, "done") =>
               Delivery(k)!LastOnly(body) /\ Texts(body) = Texts(SubSeq(x2, 1, x3)) /\ Delivery(k)!Halted,
           x8 = "there" /\ code = 200 /\ body # <<>> /\ x4' \in {"open", "ended"} =>
               /\ Texts(body) = Texts(x2) /\ (x4' = "open" => Delivery(k)!Finished)
               /\ x1.source = "chat" =>
                     Delivery(k)!HasKind(body, "done") = Delivery(k)!HasKind(x2, "done"),
           Delivery(k)!HasKind(body, "usage") =>
               /\ x1.source \notin {"anthropic", "responses"} \/ ~ Delivery(k)!Converts
               /\ code = 200 => seen = "full"
    PROVE  Delivery(k)!DeliveryInv'
<1>0. /\ Delivery(k)!Shapes /\ Delivery(k)!InOrder /\ Delivery(k)!Flows /\ Delivery(k)!Stops
      /\ Delivery(k)!Ending /\ Delivery(k)!Accounts /\ Delivery(k)!ChargedOnce
  BY DEF Delivery!DeliveryInv
<1>2. /\ UNCHANGED <<x1, x2, x3, x5, x6, x8>>
      /\ x7' = "returned" /\ x10' = code /\ x9' = body /\ x11' = seen
      /\ x4' = x4 \/ (x4 = "open" /\ x4' = "closed")
      /\ x12' = Delivery(k)!Recorded(code, seen)
  BY DEF Returned
<1>1. /\ Delivery(k)!Translates' = Delivery(k)!Translates
      /\ Delivery(k)!Converts' = Delivery(k)!Converts
      /\ Delivery(k)!Chat' = Delivery(k)!Chat
  BY <1>2, SameAsk
<1>3. Delivery(k)!Finished' = Delivery(k)!Finished /\ Delivery(k)!Halted' = Delivery(k)!Halted
      /\ Delivery(k)!Final' = Delivery(k)!Final
  BY <1>1, <1>2 DEF Delivery!Finished, Delivery!Halted, Delivery!Final
<1>4. Delivery(k)!Shapes'
  BY <1>0, <1>1, <1>2 DEF Delivery!Shapes
<1>5. Delivery(k)!InOrder'
  BY <1>2, OwnTextIs DEF Delivery!InOrder
<1>6. Delivery(k)!Flows'
  BY <1>2 DEF Delivery!Flows
<1>7. Delivery(k)!Stops'
  BY <1>0, <1>1, <1>2, <1>3 DEF Delivery!Stops
<1>8. Delivery(k)!Ending'
  BY <1>1, <1>2, <1>3, OwnTextIs DEF Delivery!Ending
<1>9. /\ x12' \in Seq([log : BOOLEAN, usage : {"none", "output", "full"}])
      /\ Delivery(k)!Chat => Len(x12') = IF code >= 400 THEN 1 ELSE 2
      /\ \A i \in 1 .. Len(x12') : i = 2 => code = 200 /\ x12'[2].usage = seen
  <2>1. RecordsTell(k, code, seen, Delivery(k)!Recorded(code, seen))
    BY RecordsAre
  <2>2. x12' = Delivery(k)!Recorded(code, seen)
    BY <1>2
  <2> QED
    BY <2>1, <2>2 DEF RecordsTell
<1>10. Delivery(k)!Accounts'
  BY <1>0, <1>1, <1>2, <1>9 DEF Delivery!Accounts
<1>11. Delivery(k)!ChargedOnce'
  <2>1. Delivery(k)!Chat' => Len(x12') = IF x10' >= 400 THEN 1 ELSE 2
    BY <1>1, <1>2, <1>9
  <2>2. (\E i \in 1 .. Len(x9') : x9'[i].kind = "usage") => Delivery(k)!HasKind(body, "usage")
    BY <1>2 DEF Delivery!HasKind
  <2>3. \A i \in 1 .. Len(x12') : i = 2 /\ (\E j \in 1 .. Len(x9') : x9'[j].kind = "usage")
            => x12'[i].usage = "full"
    BY <1>9, <2>2
  <2> QED
    BY <1>2, <2>1, <2>3 DEF Delivery!ChargedOnce
<1> QED
  BY <1>4, <1>5, <1>6, <1>7, <1>8, <1>10, <1>11 DEF Delivery!DeliveryInv

\* A pipe with nothing in it, or with one item that is neither text nor the end.
LEMMA PipeOfFew ==
    ASSUME NEW k
    PROVE  /\ <<>> \in Seq(Delivery(k)!Items) /\ Texts(<<>>) = <<>> /\ Delivery(k)!LastOnly(<<>>)
           /\ \A w : ~ Delivery(k)!HasKind(<<>>, w) /\ Delivery(k)!Kinds(<<>>, w)
           /\ \A w \in Delivery(k)!ItemKinds :
                 LET i == Delivery(k)!Item(w, 0)
                 IN /\ <<i>> \in Seq(Delivery(k)!Items) /\ <<i>> # <<>> /\ Texts(<<i>>) = Alone(i)
                    /\ Delivery(k)!LastOnly(<<i>>)
                    /\ \A v : Delivery(k)!HasKind(<<i>>, v) = (v = w)
                    /\ \A W : Delivery(k)!Kinds(<<i>>, W) = (w \in W)
<1>1. /\ <<>> \in Seq(Delivery(k)!Items) /\ Delivery(k)!LastOnly(<<>>)
      /\ \A w : ~ Delivery(k)!HasKind(<<>>, w) /\ Delivery(k)!Kinds(<<>>, w)
  <2>1. <<>> \in Seq(Delivery(k)!Items) /\ DOMAIN <<>> = {}
    OBVIOUS
  <2> QED
    BY <2>1 DEF Delivery!LastOnly, Delivery!HasKind, Delivery!Kinds
<1>2. ASSUME NEW w \in Delivery(k)!ItemKinds
      PROVE  LET i == Delivery(k)!Item(w, 0)
             IN /\ <<i>> \in Seq(Delivery(k)!Items) /\ <<i>> # <<>>
                /\ Delivery(k)!LastOnly(<<i>>)
                /\ \A v : Delivery(k)!HasKind(<<i>>, v) = (v = w)
                /\ \A W : Delivery(k)!Kinds(<<i>>, W) = (w \in W)
  <2> DEFINE i == Delivery(k)!Item(w, 0)
  <2>1. i \in Delivery(k)!Items /\ i.kind = w
    <3>1. 0 \in Nat
      OBVIOUS
    <3> QED
      BY <3>1, AnItem
  <2> HIDE DEF i
  <2>2. <<i>> \in Seq(Delivery(k)!Items) /\ <<i>> # <<>> /\ DOMAIN <<i>> = {1} /\ <<i>>[1] = i /\ Len(<<i>>) = 1
    BY <2>1
  <2>3. Delivery(k)!LastOnly(<<i>>)
    BY <2>2 DEF Delivery!LastOnly
  <2>4. \A v : Delivery(k)!HasKind(<<i>>, v) = (v = w)
    BY <2>1, <2>2 DEF Delivery!HasKind
  <2>5. ASSUME NEW W PROVE Delivery(k)!Kinds(<<i>>, W) = (w \in W)
    <3>1. Delivery(k)!Kinds(<<i>>, W) <=> (\A m \in {1} : i.kind \in W)
      BY <2>2 DEF Delivery!Kinds
    <3>2. (\A m \in {1} : i.kind \in W) <=> w \in W
      BY <2>1
    <3>3. Delivery(k)!Kinds(<<i>>, W) \in BOOLEAN
      BY DEF Delivery!Kinds
    <3> QED
      BY <3>1, <3>2, <3>3
  <2> QED
    BY <2>2, <2>3, <2>4, <2>5 DEF i
<1> QED
  BY <1>1, <1>2, TextsOfFew

\* The upstream accepts.
LEMMA UpstreamResponds ==
    ASSUME NEW k, Delivery(k)!DeliveryInv, Delivery(k)!Respond
    PROVE  Delivery(k)!DeliveryInv'
<1>0. /\ Delivery(k)!Shapes /\ Delivery(k)!InOrder /\ Delivery(k)!Accounts /\ Delivery(k)!ChargedOnce
  BY DEF Delivery!DeliveryInv
<1>1. /\ Delivery(k)!Translates' = Delivery(k)!Translates
      /\ Delivery(k)!Converts' = Delivery(k)!Converts
      /\ Delivery(k)!Chat' = Delivery(k)!Chat
  BY SameAsk DEF Delivery!Respond
<1>2. /\ x2 = <<>> /\ x3 \in 0 .. Len(x2) /\ x9 = <<>> /\ x11 = "none" /\ x7 = "waiting"
      /\ x8 \in {"there", "gone"} /\ x12 = <<>>
      /\ UNCHANGED <<x1, x2, x3, x4, x8, x9, x11, x12>>
  BY <1>0 DEF Delivery!Respond, Delivery!Shapes
<1>3. x3 = 0 /\ SubSeq(x2, 1, x3) = <<>>
  BY <1>2
<1>4. x7' = IF Delivery(k)!Decodes THEN "decoding" ELSE IF Delivery(k)!Rewrites THEN "reading" ELSE "copying"
  BY DEF Delivery!Respond
<1>5. x7' \in {"decoding", "reading", "copying"}
  BY <1>4
<1>6. x7' \in {"decoding", "reading"} => ~ x1.stream
  BY <1>4 DEF Delivery!Decodes, Delivery!Rewrites
<1>7. ~ x1.stream => ~ Delivery(k)!Translates /\ ~ Delivery(k)!Converts
  BY DEF Delivery!Translates, Delivery!Converts
<1>8. x7' \in {"reading", "copying"} => x10' = 200
  BY <1>4 DEF Delivery!Respond
<1> DEFINE start == <<Delivery(k)!Item("start", 0)>>
<1>9. /\ start \in Seq(Delivery(k)!Items) /\ Texts(start) = <<>> /\ Delivery(k)!LastOnly(start)
      /\ Delivery(k)!Kinds(start, {"start", "text", "output", "done"}) /\ ~ Delivery(k)!HasKind(start, "done")
  <2>1. "start" \in Delivery(k)!ItemKinds
    BY DEF Delivery!ItemKinds
  <2>2. Delivery(k)!Item("start", 0).kind = "start"
    BY DEF Delivery!Item
  <2>3. Texts(start) = Alone(Delivery(k)!Item("start", 0))
    BY <2>1, PipeOfFew
  <2>4. Texts(start) = <<>>
    BY <2>2, <2>3 DEF Alone
  <2>5. Delivery(k)!Kinds(start, {"start", "text", "output", "done"})
        = ("start" \in {"start", "text", "output", "done"})
    BY <2>1, PipeOfFew
  <2>6. /\ start \in Seq(Delivery(k)!Items) /\ Delivery(k)!LastOnly(start)
        /\ Delivery(k)!HasKind(start, "done") = ("done" = "start")
    BY <2>1, PipeOfFew
  <2> QED
    BY <2>4, <2>5, <2>6
<1> HIDE DEF start
<1>10. /\ DOMAIN x5' = {"run", "todo", "first"} /\ x5'.todo = <<>>
       /\ x5'.run = IF Delivery(k)!Translates THEN "on" ELSE "none"
       /\ ~ Delivery(k)!Translates => x5' = Delivery(k)!NoStage
  BY DEF Delivery!Respond, Delivery!NoStage
<1>11. /\ DOMAIN x6' = {"run", "todo", "first"}
       /\ x6'.run = IF Delivery(k)!Converts THEN "on" ELSE "none"
       /\ x6'.todo = <<>> \/ (x6'.todo = start /\ x1.source = "responses" /\ x6'.run = "on")
       /\ ~ Delivery(k)!Converts => x6' = Delivery(k)!NoStage
  <2>1. CASE Delivery(k)!Converts
    <3>1. x6' = [Delivery(k)!NoStage EXCEPT !.run = "on",
                              !.todo = IF x1.source = "responses" THEN start ELSE <<>>]
      BY <2>1 DEF Delivery!Respond, start
    <3>2. DOMAIN Delivery(k)!NoStage = {"run", "todo", "first"}
      BY DEF Delivery!NoStage
    <3> QED
      BY <2>1, <3>1, <3>2
  <2>2. CASE ~ Delivery(k)!Converts
    BY <2>2 DEF Delivery!Respond, Delivery!NoStage
  <2> QED
    BY <2>1, <2>2
<1>12. /\ <<>> \in Seq(Delivery(k)!Items) /\ Texts(<<>>) = <<>> /\ Delivery(k)!LastOnly(<<>>)
       /\ \A w : ~ Delivery(k)!HasKind(<<>>, w) /\ Delivery(k)!Kinds(<<>>, w)
  BY PipeOfFew
<1>13. /\ x6'.todo \in Seq(Delivery(k)!Items) /\ Texts(x6'.todo) = <<>> /\ Delivery(k)!LastOnly(x6'.todo)
       /\ ~ Delivery(k)!HasKind(x6'.todo, "done")
       /\ Delivery(k)!Kinds(x6'.todo, IF x1.source \in {"anthropic", "responses"}
                             THEN {"start", "text", "output", "done"}
                             ELSE {"role", "text", "other", "usage", "finish", "done"})
  BY <1>9, <1>11, <1>12
<1>14. Delivery(k)!Shapes'
  <2>1. /\ x2' \in Seq(Delivery(k)!Items) /\ x9' \in Seq(Delivery(k)!Items) /\ x3' \in 0 .. Len(x2')
        /\ Delivery(k)!Kinds(x2', {"text", "other", "usage", "done"}) /\ Delivery(k)!LastOnly(x2')
        /\ ~ x1'.stream => Delivery(k)!Kinds(x2', {"text"})
    BY <1>2, <1>12
  <2>2. /\ Delivery(k)!Stage(x5', IF Delivery(k)!Translates THEN {"none", "on", "over", "failed"} ELSE {"none"})
        /\ Delivery(k)!Stage(x6', IF Delivery(k)!Converts THEN {"none", "on", "over"} ELSE {"none"})
    BY <1>10, <1>11, <1>12, <1>13 DEF Delivery!Stage
  <2>3. /\ Delivery(k)!Kinds(x5'.todo, {"role", "text", "finish", "done"}) /\ Delivery(k)!LastOnly(x5'.todo)
        /\ Delivery(k)!LastOnly(x6'.todo)
        /\ x5'.run = "none" => x5'.todo = <<>>
        /\ x6'.run = "none" => x6'.todo = <<>>
    BY <1>10, <1>11, <1>12, <1>13
  <2>4. /\ x7' \in {"decoding", "reading"} => x5' = Delivery(k)!NoStage /\ x6' = Delivery(k)!NoStage
        /\ x7' = "copying" => (Delivery(k)!Translates => x5'.run # "none") /\ (Delivery(k)!Converts => x6'.run # "none")
    BY <1>6, <1>7, <1>10, <1>11
  <2> QED
    BY <1>1, <1>2, <1>5, <1>6, <1>8, <1>13, <2>1, <2>2, <2>3, <2>4 DEF Delivery!Shapes
<1>15. Delivery(k)!InOrder'
  BY <1>0, <1>2 DEF Delivery!InOrder
<1>16. Delivery(k)!Flows'
  <2>1. Delivery(k)!OwnText(x9') \o Delivery(k)!OwnText(x6'.todo) \o Delivery(k)!OwnText(x5'.todo)
            = Delivery(k)!OwnText(SubSeq(x2', 1, x3'))
    <3>1. /\ Delivery(k)!OwnText(x9') = <<>> /\ Delivery(k)!OwnText(x6'.todo) = <<>>
          /\ Delivery(k)!OwnText(x5'.todo) = <<>> /\ Delivery(k)!OwnText(SubSeq(x2', 1, x3')) = <<>>
      BY <1>2, <1>3, <1>10, <1>12, <1>13, OwnTextIs
    <3>2. <<>> \o <<>> \o <<>> = <<>>
      OBVIOUS
    <3> QED
      BY <3>1, <3>2
  <2> QED
    BY <2>1 DEF Delivery!Flows, Delivery!InFlight
<1>17. Delivery(k)!Stops'
  BY <1>10, <1>11, <1>12, <1>13 DEF Delivery!Stops
<1>18. Delivery(k)!Ending'
  <2>1. ~ Delivery(k)!HasKind(x9', "done") /\ ~ Delivery(k)!HasKind(x5'.todo, "done")
        /\ ~ Delivery(k)!HasKind(SubSeq(x2', 1, x3'), "done")
    BY <1>2, <1>3, <1>10, <1>12
  <2>2. (Delivery(k)!HasKind(x9', "done") \/ Delivery(k)!HasKind(x5'.todo, "done"))
              = Delivery(k)!HasKind(SubSeq(x2', 1, x3'), "done")
    BY <2>1 DEF Delivery!HasKind
  <2>3. x7' # "returned"
    BY <1>5
  <2> QED
    BY <2>1, <2>2, <2>3 DEF Delivery!Ending
<1>19. Delivery(k)!Accounts'
  BY <1>0, <1>2, <1>12 DEF Delivery!Accounts
<1>20. Delivery(k)!ChargedOnce'
  <2>1. Delivery(k)!Chat => Len(x12) = 0
    <3>1. x7 # "returned"
      BY <1>2
    <3> QED
      BY <1>0, <3>1 DEF Delivery!ChargedOnce
  <2>2. x7' # "returned" /\ \A i \in 1 .. Len(x9') : FALSE
    BY <1>2, <1>5
  <2> QED
    BY <1>1, <1>2, <2>1, <2>2 DEF Delivery!ChargedOnce
<1> QED
  BY <1>14, <1>15, <1>16, <1>17, <1>18, <1>19, <1>20 DEF Delivery!DeliveryInv

\* The handler returns with an error, or with nothing.
LEMMA ErrorReturns ==
    ASSUME NEW k, NEW code \in {200, 400, 502}, Delivery(k)!DeliveryInv, UNCHANGED x5, x7 # "returned",
           \/ code # 200 /\ Returned(k, code, <<Delivery(k)!Item("error", 0)>>, x11)
           \/ Returned(k, code, <<>>, x11)
    PROVE  Delivery(k)!DeliveryInv'
<1> DEFINE error == <<Delivery(k)!Item("error", 0)>>
<1>1. Delivery(k)!Shapes /\ Delivery(k)!Accounts
  BY DEF Delivery!DeliveryInv
<1>2. /\ error \in Seq(Delivery(k)!Items) /\ Texts(error) = <<>>
      /\ ~ Delivery(k)!HasKind(error, "done") /\ ~ Delivery(k)!HasKind(error, "usage")
  <2>1. "error" \in Delivery(k)!ItemKinds
    BY DEF Delivery!ItemKinds
  <2>2. Delivery(k)!Item("error", 0).kind = "error"
    BY DEF Delivery!Item
  <2>3. /\ error \in Seq(Delivery(k)!Items) /\ Texts(error) = Alone(Delivery(k)!Item("error", 0))
        /\ Delivery(k)!HasKind(error, "done") = ("done" = "error")
        /\ Delivery(k)!HasKind(error, "usage") = ("usage" = "error")
    BY <2>1, PipeOfFew
  <2> QED
    BY <2>2, <2>3 DEF Alone
<1> HIDE DEF error
<1>3. PICK body \in {error, <<>>} : Returned(k, code, body, x11) /\ (code = 200 => body = <<>>)
  BY DEF error
<1>4. /\ body \in Seq(Delivery(k)!Items) /\ Texts(body) = <<>>
      /\ ~ Delivery(k)!HasKind(body, "done") /\ ~ Delivery(k)!HasKind(body, "usage")
  <2>1. CASE body = error
    BY <1>2, <2>1
  <2>2. CASE body = <<>>
    BY <2>2, PipeOfFew
  <2> QED
    BY <1>3, <2>1, <2>2
<1>5. \E n \in 0 .. Len(Texts(x2)) : Texts(body) = SubSeq(Texts(x2), 1, n)
  <2>1. Texts(x2) \in Seq(Delivery(k)!Items)
    BY <1>1, TextsAre DEF Delivery!Shapes
  <2>2. 0 \in 0 .. Len(Texts(x2)) /\ SubSeq(Texts(x2), 1, 0) = <<>>
    BY <2>1
  <2> QED
    BY <1>4, <2>2
<1>6. x11 \in {"none", "output", "full"}
  BY <1>1 DEF Delivery!Accounts
<1>7. x8 = "there" /\ code = 200 /\ body # <<>> /\ x4' \in {"open", "ended"} =>
               /\ Texts(body) = Texts(x2) /\ (x4' = "open" => Delivery(k)!Finished)
               /\ x1.source = "chat" =>
                     Delivery(k)!HasKind(body, "done") = Delivery(k)!HasKind(x2, "done")
  BY <1>3
<1>8. PICK seen \in {"none", "output", "full"} : seen = x11 /\ Returned(k, code, body, seen)
  BY <1>3, <1>6
<1>9. /\ Delivery(k)!HasKind(body, "done") =>
             Delivery(k)!LastOnly(body) /\ Texts(body) = Texts(SubSeq(x2, 1, x3)) /\ Delivery(k)!Halted
      /\ Delivery(k)!HasKind(body, "usage") =>
             /\ x1.source \notin {"anthropic", "responses"} \/ ~ Delivery(k)!Converts
             /\ code = 200 => seen = "full"
  BY <1>4
<1> HIDE DEF error
<1>10. body \in Seq(Delivery(k)!Items) /\ x7 # "returned" /\ UNCHANGED x5
  BY <1>4
<1> QED
  BY <1>5, <1>7, <1>8, <1>9, <1>10, HandlerReturns, SMTT(60)

\* The upstream does not accept, or is not asked.
LEMMA UpstreamRefuses ==
    ASSUME NEW k, Delivery(k)!DeliveryInv, Delivery(k)!Refuse \/ Delivery(k)!RespondFails
    PROVE  Delivery(k)!DeliveryInv'
<1>0. /\ Delivery(k)!Shapes /\ Delivery(k)!InOrder /\ Delivery(k)!Accounts /\ Delivery(k)!ChargedOnce
  BY DEF Delivery!DeliveryInv
<1>1. x7 = "waiting"
  BY DEF Delivery!Refuse, Delivery!RespondFails
<1>2. CASE Delivery(k)!Refuse
  <2>1. UNCHANGED x5 /\ Returned(k, 400, <<Delivery(k)!Item("error", 0)>>, x11)
    BY <1>2 DEF Delivery!Refuse, Delivery!Return, Delivery!Shut, Returned
  <2>2. x7 # "returned" /\ 400 # 200 /\ 400 \in {200, 400, 502}
    BY <1>1
  <2> QED
    BY <2>1, <2>2, ErrorReturns
<1>3. CASE Delivery(k)!RespondFails /\ x1.provider # "grant"
  <2>1. UNCHANGED x5 /\ Returned(k, 502, <<Delivery(k)!Item("error", 0)>>, x11)
    BY <1>3 DEF Delivery!RespondFails, Delivery!Return, Delivery!Shut, Returned
  <2>2. x7 # "returned" /\ 502 # 200 /\ 502 \in {200, 400, 502}
    BY <1>1
  <2> QED
    BY <2>1, <2>2, ErrorReturns
<1>4. CASE Delivery(k)!RespondFails /\ x1.provider = "grant"
  <2>1. UNCHANGED <<x2, x3, x4, x5, x6, x7, x8, x9, x10, x11, x12>>
    BY <1>4 DEF Delivery!RespondFails
  <2>2. /\ x2' = <<>> /\ x3' \in 0 .. Len(x2') /\ x9' = <<>> /\ x11' = "none" /\ x7' = "waiting" /\ x12' = <<>>
        /\ x8' \in {"there", "gone"}
        /\ x5' = Delivery(k)!NoStage /\ x6' = Delivery(k)!NoStage
    BY <1>0, <1>1, <2>1 DEF Delivery!Shapes
  <2>3. /\ x2' \in Seq(Delivery(k)!Items) /\ Len(x2') = 0 /\ DOMAIN x2' = {} /\ DOMAIN x9' = {}
        /\ x5'.run = "none" /\ x5'.todo = <<>> /\ DOMAIN x5' = {"run", "todo", "first"}
        /\ x6'.run = "none" /\ x6'.todo = <<>> /\ DOMAIN x6' = {"run", "todo", "first"}
    BY <2>2 DEF Delivery!NoStage
  <2>4. Delivery(k)!Shapes'
    BY <2>2, <2>3 DEF Delivery!Shapes, Delivery!Stage, Delivery!Kinds, Delivery!LastOnly
  <2>5. Delivery(k)!InOrder'
    BY <1>0, <2>1 DEF Delivery!InOrder
  <2>6. Delivery(k)!Flows'
    BY <2>2 DEF Delivery!Flows
  <2>7. Delivery(k)!Stops'
    BY <2>2, <2>3 DEF Delivery!Stops, Delivery!HasKind
  <2>8. Delivery(k)!Ending'
    BY <2>2, <2>3 DEF Delivery!Ending, Delivery!HasKind
  <2>9. Delivery(k)!Accounts'
    BY <1>0, <2>1, <2>2, <2>3 DEF Delivery!Accounts, Delivery!HasKind
  <2>10. Delivery(k)!ChargedOnce'
    <3>1. x12' = <<>> /\ x7' # "returned" /\ Len(<<>>) = 0 /\ \A i \in 1 .. Len(<<>>) : FALSE
      BY <2>2
    <3> QED
      BY <3>1 DEF Delivery!ChargedOnce
  <2> QED
    BY <2>4, <2>5, <2>6, <2>7, <2>8, <2>9, <2>10 DEF Delivery!DeliveryInv
<1> QED
  BY <1>2, <1>3, <1>4

\* The body that was collected is whole, or is not.
LEMMA BodyCollected ==
    ASSUME NEW k, Delivery(k)!DeliveryInv, Delivery(k)!WriteWhole \/ Delivery(k)!CollectFails
    PROVE  Delivery(k)!DeliveryInv'
<1>1. CASE Delivery(k)!CollectFails
  <2>1. UNCHANGED x5 /\ x7 # "returned"
    BY <1>1 DEF Delivery!CollectFails
  <2>2. \/ Returned(k, 502, <<Delivery(k)!Item("error", 0)>>, x11)
        \/ Returned(k, 200, <<>>, x11)
    <3>1. \/ Delivery(k)!Return(502, <<Delivery(k)!Item("error", 0)>>, TRUE, x11)
          \/ Delivery(k)!Return(200, <<>>, FALSE, x11)
      BY <1>1, Zenon DEF Delivery!CollectFails
    <3>2. CASE Delivery(k)!Return(502, <<Delivery(k)!Item("error", 0)>>, TRUE, x11)
      BY <3>2 DEF Delivery!Return, Delivery!Shut, Returned
    <3>3. CASE Delivery(k)!Return(200, <<>>, FALSE, x11)
      BY <3>3 DEF Delivery!Return, Delivery!Shut, Returned
    <3> QED
      BY <3>1, <3>2, <3>3
  <2>3. 502 # 200 /\ 502 \in {200, 400, 502} /\ 200 \in {200, 400, 502}
    OBVIOUS
  <2>4. CASE Returned(k, 502, <<Delivery(k)!Item("error", 0)>>, x11)
    BY <2>1, <2>3, <2>4, ErrorReturns
  <2>5. CASE Returned(k, 200, <<>>, x11)
    <3>1. 200 \in {200, 400, 502}
      OBVIOUS
    <3> QED
      BY ZenonT(60), <2>1, <2>5, <3>1, ErrorReturns
  <2> QED
    BY <2>2, <2>4, <2>5
<1>2. CASE Delivery(k)!WriteWhole
  <2>0. Delivery(k)!Shapes
    BY DEF Delivery!DeliveryInv
  <2>1. x7 \in {"decoding", "reading"} /\ x3 = Len(x2) /\ UNCHANGED x5 /\ x4 = "ended"
    BY <1>2 DEF Delivery!WriteWhole, Delivery!UpstreamEnded
  <2>2. PICK body \in {x2, <<>>} : Returned(k, 200, body, "full")
    BY <1>2 DEF Delivery!WriteWhole, Delivery!Return, Delivery!Shut, Returned
  <2>3. /\ x2 \in Seq(Delivery(k)!Items) /\ Delivery(k)!Kinds(x2, {"text"}) /\ x7 # "returned"
    BY <2>0, <2>1 DEF Delivery!Shapes
  <2>4. /\ body \in Seq(Delivery(k)!Items)
        /\ ~ Delivery(k)!HasKind(body, "done") /\ ~ Delivery(k)!HasKind(body, "usage")
    <3>1. ~ Delivery(k)!HasKind(x2, "done") /\ ~ Delivery(k)!HasKind(x2, "usage")
      BY <2>3 DEF Delivery!Kinds, Delivery!HasKind
    <3>2. CASE body = x2
      BY <2>3, <3>1, <3>2
    <3>3. CASE body = <<>>
      BY <3>3, PipeOfFew
    <3> QED
      BY <2>2, <3>2, <3>3
  <2>5. \E n \in 0 .. Len(Texts(x2)) : Texts(body) = SubSeq(Texts(x2), 1, n)
    <3>1. Texts(x2) \in Seq(Delivery(k)!Items) /\ Texts(<<>>) = <<>>
      BY <2>3, TextsAre, TextsOfFew
    <3>2. /\ 0 \in 0 .. Len(Texts(x2)) /\ SubSeq(Texts(x2), 1, 0) = <<>>
          /\ Len(Texts(x2)) \in 0 .. Len(Texts(x2)) /\ SubSeq(Texts(x2), 1, Len(Texts(x2))) = Texts(x2)
      BY <3>1
    <3> QED
      BY <3>1, <3>2
  <2>6. body # <<>> /\ x4' \in {"open", "ended"} =>
            /\ Texts(body) = Texts(x2) /\ (x4' = "open" => Delivery(k)!Finished)
            /\ x1.source = "chat" =>
                  Delivery(k)!HasKind(body, "done") = Delivery(k)!HasKind(x2, "done")
    <3>1. x4' # "open"
      BY <2>1, <2>2 DEF Returned
    <3> QED
      BY <3>1
  <2>7. 200 \in {200, 400, 502} /\ "full" \in {"none", "output", "full"}
    OBVIOUS
  <2> QED
    BY <2>1, <2>2, <2>3, <2>4, <2>5, <2>6, <2>7, HandlerReturns
<1> QED
  BY <1>1, <1>2

\* What has been read of a stream is all of it, when it was read to its end.
LEMMA AllIsRead ==
    ASSUME NEW T, NEW s \in Seq(T), NEW n, n = Len(s)
    PROVE  SubSeq(s, 1, n) = s
BY SubSeqFull

LEMMA CopyIsOver ==
    ASSUME NEW k, Delivery(k)!DeliveryInv, x7 = "copying", Delivery(k)!CopyOver, x8 = "there",
           x4 \in {"open", "ended"}
    PROVE  /\ Texts(x9) = Texts(x2) /\ (x4 = "open" => Delivery(k)!Finished)
           /\ x1.source = "chat" => Delivery(k)!HasKind(x9, "done") = Delivery(k)!HasKind(x2, "done")
<1>0. Delivery(k)!Shapes /\ Delivery(k)!Flows /\ Delivery(k)!Stops /\ Delivery(k)!Ending
  BY DEF Delivery!DeliveryInv
<1>1. /\ x2 \in Seq(Delivery(k)!Items) /\ Texts(x9) \in Seq(Delivery(k)!Items)
  BY <1>0, TextsAre DEF Delivery!Shapes
<1>2. Delivery(k)!Live
  BY DEF Delivery!Live
<1>3. Delivery(k)!InFlight = Texts(SubSeq(x2, 1, x3))
  BY <1>0, <1>2, OwnTextIs DEF Delivery!Flows
<1>4. Texts(<<>>) = <<>> /\ ~ Delivery(k)!HasKind(<<>>, "done")
  BY PipeOfFew
<1>5. CASE Delivery(k)!Converts
  <2>1. x6.run = "over" /\ x6.todo = <<>>
    BY <1>0, <1>5 DEF Delivery!CopyOver, Delivery!Over, Delivery!Shapes, Delivery!Stage
  <2>2. x5.todo = <<>> /\ x3 = Len(x2) /\ (x4 = "open" => Delivery(k)!Finished)
    BY <1>0, <2>1 DEF Delivery!Stops
  <2>3. Delivery(k)!InFlight = Texts(x9)
    BY <1>1, <1>4, <2>1, <2>2, OwnTextIs DEF Delivery!InFlight
  <2>4. SubSeq(x2, 1, x3) = x2
    BY <1>1, <2>2, AllIsRead
  <2>5. x1.source # "chat"
    BY <1>5 DEF Delivery!Converts, Delivery!Dialect
  <2> QED
    BY <1>3, <2>2, <2>3, <2>4, <2>5
<1>6. CASE ~ Delivery(k)!Converts
  <2>1. x6.todo = <<>>
    BY <1>0, <1>6 DEF Delivery!Shapes, Delivery!Stage
  <2>2. x5.todo = <<>> /\ x3 = Len(x2) /\ x4 = "ended"
    <3>1. CASE Delivery(k)!Translates
      <4>1. x5.run \in {"over", "failed"} /\ x5.todo = <<>>
        BY <1>6, <3>1 DEF Delivery!CopyOver, Delivery!BodyOver, Delivery!Over
      <4> QED
        BY <1>0, <4>1 DEF Delivery!Stops
    <3>2. CASE ~ Delivery(k)!Translates
      <4>1. x5.todo = <<>>
        BY <1>0, <3>2 DEF Delivery!Shapes, Delivery!Stage
      <4> QED
        BY <1>6, <3>2, <4>1 DEF Delivery!CopyOver, Delivery!BodyOver, Delivery!UpstreamEnded,
                                Delivery!UpstreamBroken
    <3> QED
      BY <3>1, <3>2
  <2>3. Delivery(k)!InFlight = Texts(x9)
    BY <1>1, <1>4, <2>1, <2>2, OwnTextIs DEF Delivery!InFlight
  <2>4. SubSeq(x2, 1, x3) = x2
    BY <1>1, <2>2, AllIsRead
  <2>5. Delivery(k)!HasKind(x9, "done") = Delivery(k)!HasKind(x2, "done")
    <3>1. (Delivery(k)!HasKind(x9, "done") \/ Delivery(k)!HasKind(x5.todo, "done"))
              = Delivery(k)!HasKind(SubSeq(x2, 1, x3), "done")
      BY <1>0, <1>2, <1>6 DEF Delivery!Ending
    <3>2. ~ Delivery(k)!HasKind(x5.todo, "done")
      BY <1>4, <2>2
    <3> QED
      BY <2>4, <3>1, <3>2 DEF Delivery!HasKind
  <2> QED
    BY <1>3, <2>2, <2>3, <2>4, <2>5
<1> QED
  BY <1>5, <1>6

\* The last stage has ended, or nobody is there to be written to.
LEMMA CopyStops ==
    ASSUME NEW k, Delivery(k)!DeliveryInv, Delivery(k)!CopyEnds
    PROVE  Delivery(k)!DeliveryInv'
<1>0. Delivery(k)!Shapes /\ Delivery(k)!InOrder /\ Delivery(k)!Ending /\ Delivery(k)!Accounts
  BY DEF Delivery!DeliveryInv
<1>1. /\ x7 = "copying" /\ x10 = 200 /\ UNCHANGED x5
      /\ Delivery(k)!CopyOver \/ (~ Delivery(k)!Recorder /\ x8 = "gone")
  BY <1>0 DEF Delivery!CopyEnds, Delivery!Shapes
<1>2. /\ x9 \in Seq(Delivery(k)!Items) /\ x11 \in {"none", "output", "full"}
  BY <1>0 DEF Delivery!Shapes, Delivery!Accounts
<1>3. PICK seen \in {"none", "output", "full"} : Returned(k, 200, x9, seen) /\ (x11 = "full" => seen = "full")
  BY <1>1, <1>2 DEF Delivery!CopyEnds, Delivery!Return, Delivery!Shut, Returned
<1>4. \E n \in 0 .. Len(Texts(x2)) : Texts(x9) = SubSeq(Texts(x2), 1, n)
  BY <1>0, OwnTextIs DEF Delivery!InOrder
<1>5. Delivery(k)!HasKind(x9, "done") =>
          Delivery(k)!LastOnly(x9) /\ Texts(x9) = Texts(SubSeq(x2, 1, x3)) /\ Delivery(k)!Halted
  BY <1>0, OwnTextIs DEF Delivery!Ending
<1>6. x8 = "there" /\ 200 = 200 /\ x9 # <<>> /\ x4' \in {"open", "ended"} =>
               /\ Texts(x9) = Texts(x2) /\ (x4' = "open" => Delivery(k)!Finished)
               /\ x1.source = "chat" =>
                     Delivery(k)!HasKind(x9, "done") = Delivery(k)!HasKind(x2, "done")
  <2>1. ASSUME x8 = "there", x4' \in {"open", "ended"}
        PROVE  /\ Texts(x9) = Texts(x2) /\ (x4' = "open" => Delivery(k)!Finished)
               /\ x1.source = "chat" =>
                     Delivery(k)!HasKind(x9, "done") = Delivery(k)!HasKind(x2, "done")
    <3>1. x4' = x4 /\ x4 \in {"open", "ended"} /\ Delivery(k)!CopyOver
      BY <1>1, <1>3, <2>1 DEF Returned
    <3> QED
      BY <1>1, <2>1, <3>1, CopyIsOver
  <2> QED
    BY <2>1
<1>7. Delivery(k)!HasKind(x9, "usage") =>
               /\ x1.source \notin {"anthropic", "responses"} \/ ~ Delivery(k)!Converts
               /\ 200 = 200 => seen = "full"
  BY <1>0, <1>1, <1>3 DEF Delivery!Accounts
<1>8. Returned(k, 200, x9, seen) /\ 200 \in {200, 400, 502} /\ x7 # "returned"
  BY <1>1, <1>3
<1>9. PICK body \in Seq(Delivery(k)!Items) : body = x9
  BY <1>2
<1> QED
  BY <1>1, <1>4, <1>5, <1>6, <1>7, <1>8, <1>9, HandlerReturns, SMTT(60)

\* What the executor's goroutine writes for an event.
LEMMA TranslatedIs ==
    ASSUME NEW k, NEW s, NEW e \in Delivery(k)!Items, e.kind \in {"text", "other", "usage", "done"}
    PROVE  /\ Delivery(k)!Translated(s, e) \in Seq(Delivery(k)!Items)
           /\ Texts(Delivery(k)!Translated(s, e)) = Alone(e)
           /\ Delivery(k)!Kinds(Delivery(k)!Translated(s, e), {"role", "text", "finish", "done"})
           /\ Delivery(k)!LastOnly(Delivery(k)!Translated(s, e))
           /\ Delivery(k)!HasKind(Delivery(k)!Translated(s, e), "done") =>
                  e.kind = "done" /\ Len(Delivery(k)!Translated(s, e)) = 1
           /\ e.kind = "done" => Delivery(k)!HasKind(Delivery(k)!Translated(s, e), "done")
<1> DEFINE r == Delivery(k)!Role(s)
           role == Delivery(k)!Item("role", 0)
           finish == Delivery(k)!Item("finish", 0)
           t == Delivery(k)!Translated(s, e)
<1>1. /\ role \in Delivery(k)!Items /\ role.kind = "role"
      /\ finish \in Delivery(k)!Items /\ finish.kind = "finish"
  <2>1. "role" \in Delivery(k)!ItemKinds /\ "finish" \in Delivery(k)!ItemKinds /\ 0 \in Nat
    BY DEF Delivery!ItemKinds
  <2> QED
    BY <2>1, AnItem
<1>2. r = <<>> \/ r = <<role>>
  BY DEF Delivery!Role
<1>3. ASSUME NEW i \in Delivery(k)!Items
      PROVE  /\ <<i>> \in Seq(Delivery(k)!Items) /\ Len(<<i>>) = 1 /\ DOMAIN <<i>> = {1} /\ <<i>>[1] = i
             /\ Texts(<<i>>) = Alone(i)
  BY TextsOfFew
<1>4. Alone(role) = <<>> /\ Alone(finish) = <<>>
  BY <1>1 DEF Alone
<1>5. /\ <<>> \in Seq(Delivery(k)!Items) /\ DOMAIN <<>> = {} /\ Texts(<<>>) = <<>>
  BY TextsOfFew
<1>6. CASE e.kind = "text"
  <2>1. t = r \o <<e>>
    BY <1>6 DEF Delivery!Translated
  <2>2. r \in Seq(Delivery(k)!Items) /\ Texts(r) = <<>>
    BY <1>1, <1>2, <1>3, <1>4, <1>5
  <2>3. t \in Seq(Delivery(k)!Items) /\ Texts(t) = Alone(e)
    <3>1. Texts(t) = Texts(r) \o Texts(<<e>>)
      BY <1>3, <2>1, <2>2, TextsOfConcat
    <3>2. Alone(e) \in Seq(Delivery(k)!Items)
      BY DEF Alone
    <3> QED
      BY <1>3, <2>1, <2>2, <3>1, <3>2
  <2>4. \A i \in DOMAIN t : t[i] = role \/ t[i] = e
    <3>1. CASE r = <<>>
      <4>1. t = <<e>>
        BY <2>1, <3>1
      <4> HIDE DEF t
      <4> QED
        BY <1>3, <4>1
    <3>2. CASE r = <<role>>
      <4>1. t = <<role>> \o <<e>>
        BY <2>1, <3>2
      <4> HIDE DEF t, role
      <4>2. Len(t) = 2 /\ t[1] = role /\ t[2] = e /\ t \in Seq(Delivery(k)!Items)
        BY <1>1, <1>3, <4>1
      <4>3. DOMAIN t = 1 .. 2
        BY <4>2
      <4>4. \A i \in 1 .. 2 : i = 1 \/ i = 2
        OBVIOUS
      <4> QED
        BY <4>2, <4>3, <4>4
    <3> QED
      BY <1>2, <3>1, <3>2
  <2>5. \A i \in DOMAIN t : t[i].kind \in {"role", "text"}
    BY <1>1, <1>6, <2>4
  <2> HIDE DEF t
  <2> QED
    BY <1>6, <2>3, <2>5 DEF t, Delivery!Kinds, Delivery!LastOnly, Delivery!HasKind
<1>7. CASE e.kind = "other"
  <2>1. t = r
    BY <1>7 DEF Delivery!Translated
  <2>2. /\ t \in Seq(Delivery(k)!Items) /\ Texts(t) = <<>>
        /\ \A i \in DOMAIN t : t[i].kind = "role"
    <3> HIDE DEF t, r, role
    <3>1. CASE r = <<>>
      BY <1>5, <2>1, <3>1
    <3>2. CASE r = <<role>>
      BY <1>1, <1>3, <1>4, <2>1, <3>2
    <3> QED
      BY <1>2, <3>1, <3>2
  <2>3. Alone(e) = <<>>
    BY <1>7 DEF Alone
  <2> HIDE DEF t
  <2> QED
    BY <1>7, <2>2, <2>3 DEF t, Delivery!Kinds, Delivery!LastOnly, Delivery!HasKind
<1>8. CASE e.kind = "usage"
  <2>1. t = <<finish>>
    BY <1>8 DEF Delivery!Translated
  <2>2. /\ t \in Seq(Delivery(k)!Items) /\ Texts(t) = <<>>
        /\ \A i \in DOMAIN t : t[i].kind = "finish"
    BY <1>1, <1>3, <1>4, <2>1
  <2>3. Alone(e) = <<>>
    BY <1>8 DEF Alone
  <2> HIDE DEF t
  <2> QED
    BY <1>8, <2>2, <2>3 DEF t, Delivery!Kinds, Delivery!LastOnly, Delivery!HasKind
<1>9. CASE e.kind = "done"
  <2>1. t = <<e>>
    BY <1>9 DEF Delivery!Translated
  <2>2. /\ t \in Seq(Delivery(k)!Items) /\ Texts(t) = Alone(e) /\ DOMAIN t = {1} /\ Len(t) = 1 /\ t[1] = e
    BY <1>3, <2>1
  <2> HIDE DEF t
  <2> QED
    BY <1>9, <2>2 DEF t, Delivery!Kinds, Delivery!LastOnly, Delivery!HasKind
<1> QED
  BY <1>6, <1>7, <1>8, <1>9

LEMMA OneMore ==
    ASSUME NEW L \in Nat, NEW n \in 0 .. L, n < L
    PROVE  n + 1 \in 1 .. L /\ n # L /\ n \in 0 .. L - 1 /\ n \in Nat
OBVIOUS

LEMMA OneMoreItem ==
    ASSUME NEW T, NEW s \in Seq(T), NEW n \in 0 .. Len(s) - 1
    PROVE  /\ s[n + 1] \in T /\ s # <<>>
           /\ SubSeq(s, 1, n) \in Seq(T)
           /\ DOMAIN SubSeq(s, 1, n) = 1 .. n /\ \A i \in 1 .. n : SubSeq(s, 1, n)[i] = s[i]
           /\ DOMAIN SubSeq(s, 1, n + 1) = 1 .. n + 1
           /\ \A i \in 1 .. n + 1 : SubSeq(s, 1, n + 1)[i] = s[i]
<1>1. Len(s) \in Nat /\ n \in Nat /\ n + 1 \in 1 .. Len(s) /\ DOMAIN s = 1 .. Len(s)
  OBVIOUS
<1> QED
  BY <1>1

\* An event of a stream is read.
LEMMA OneMoreRead ==
    ASSUME NEW k, Delivery(k)!Shapes, x3 < Len(x2)
    PROVE  /\ x3 + 1 \in 1 .. Len(x2) /\ ~ Delivery(k)!Final
           /\ x2[x3 + 1] \in Delivery(k)!Items
           /\ x2[x3 + 1].kind \in {"text", "other", "usage", "done"}
           /\ x2[x3 + 1].kind = "done" => x3 + 1 = Len(x2) /\ Delivery(k)!Finished
           /\ Texts(SubSeq(x2, 1, x3)) \in Seq(Delivery(k)!Items)
           /\ Texts(SubSeq(x2, 1, x3 + 1)) = Texts(SubSeq(x2, 1, x3)) \o Alone(x2[x3 + 1])
           /\ Delivery(k)!HasKind(SubSeq(x2, 1, x3 + 1), "done")
                  = (Delivery(k)!HasKind(SubSeq(x2, 1, x3), "done") \/ x2[x3 + 1].kind = "done")
<1>1. /\ x2 \in Seq(Delivery(k)!Items) /\ Len(x2) \in Nat /\ DOMAIN x2 = 1 .. Len(x2)
      /\ x3 \in 0 .. Len(x2) /\ Delivery(k)!LastOnly(x2)
      /\ Delivery(k)!Kinds(x2, {"text", "other", "usage", "done"})
  BY SMTT(40) DEF Delivery!Shapes
<1>2. x3 + 1 \in 1 .. Len(x2) /\ x3 # Len(x2) /\ x3 \in 0 .. Len(x2) - 1 /\ x3 \in Nat
  BY <1>1, OneMore
<1>3. ~ Delivery(k)!Final
  BY <1>2 DEF Delivery!Final
<1>4. x2[x3 + 1] \in Delivery(k)!Items /\ x2[x3 + 1].kind \in {"text", "other", "usage", "done"}
  <2>1. x2[x3 + 1] \in Delivery(k)!Items /\ x3 + 1 \in DOMAIN x2
    BY <1>1, <1>2, OneMoreItem
  <2> QED
    BY SMTT(40), <1>1, <2>1 DEF Delivery!Kinds
<1>5. x2[x3 + 1].kind = "done" => x3 + 1 = Len(x2) /\ Delivery(k)!Finished
  <2>1. x2[x3 + 1].kind = "done" => x3 + 1 = Len(x2)
    BY ZenonT(60), <1>1, <1>2 DEF Delivery!LastOnly
  <2>2. x2 # <<>>
    BY ZenonT(60), <1>1, <1>2, OneMoreItem
  <2> QED
    BY <2>1, <2>2 DEF Delivery!Finished
<1>6. SubSeq(x2, 1, x3) \in Seq(Delivery(k)!Items)
  BY <1>1, <1>2, OneMoreItem
<1>7. Texts(SubSeq(x2, 1, x3)) \in Seq(Delivery(k)!Items)
  BY <1>6, TextsAre
<1>8. Texts(SubSeq(x2, 1, x3 + 1)) = Texts(SubSeq(x2, 1, x3)) \o Alone(x2[x3 + 1])
  BY <1>1, <1>2, TextsOfMoved
<1>9. Delivery(k)!HasKind(SubSeq(x2, 1, x3 + 1), "done")
                  <=> (Delivery(k)!HasKind(SubSeq(x2, 1, x3), "done") \/ x2[x3 + 1].kind = "done")
  <2>1. /\ DOMAIN SubSeq(x2, 1, x3) = 1 .. x3 /\ \A i \in 1 .. x3 : SubSeq(x2, 1, x3)[i] = x2[i]
        /\ DOMAIN SubSeq(x2, 1, x3 + 1) = 1 .. x3 + 1
        /\ \A i \in 1 .. x3 + 1 : SubSeq(x2, 1, x3 + 1)[i] = x2[i]
    <3>1. x2 \in Seq(Delivery(k)!Items) /\ x3 \in 0 .. Len(x2) - 1
      BY <1>1, <1>2
    <3> QED
      BY <3>1, OneMoreItem, SMTT(30)
  <2>2. (\A i \in 1 .. x3 + 1 : i \in 1 .. x3 \/ i = x3 + 1) /\ (\A i \in 1 .. x3 : i \in 1 .. x3 + 1)
        /\ x3 + 1 \in 1 .. x3 + 1
    BY <1>2
  <2> QED
    BY <2>1, <2>2 DEF Delivery!HasKind
<1>10. Delivery(k)!HasKind(SubSeq(x2, 1, x3 + 1), "done") \in BOOLEAN
  BY DEF Delivery!HasKind
<1> QED
  BY <1>2, <1>3, <1>4, <1>5, <1>7, <1>8, <1>9, <1>10

\* What a request asks for, and what is done with its answer, in a step that
\* only moves its answer.
LEMMA StageRuns ==
    ASSUME NEW k, Delivery(k)!Shapes
    PROVE  /\ x5.run # "none" => Delivery(k)!Translates /\ x7 \in {"copying", "returned"}
           /\ x6.run # "none" => Delivery(k)!Converts /\ x7 \in {"copying", "returned"}
<1>1. Delivery(k)!NoStage.run = "none"
  BY DEF Delivery!NoStage
<1>2. x7 \notin {"copying", "returned"} => x5.run = "none" /\ x6.run = "none"
  BY <1>1 DEF Delivery!Shapes
<1> QED
  BY <1>2 DEF Delivery!Shapes, Delivery!Stage

LEMMA TranslatorHasRead ==
    ASSUME NEW k, Delivery(k)!DeliveryInv, Delivery(k)!TranslatorReads
    PROVE  Delivery(k)!DeliveryInv'
<1>0. /\ Delivery(k)!Shapes /\ Delivery(k)!InOrder /\ Delivery(k)!Flows /\ Delivery(k)!Stops
      /\ Delivery(k)!Ending /\ Delivery(k)!Accounts /\ Delivery(k)!ChargedOnce
  BY DEF Delivery!DeliveryInv
<1> DEFINE e == x2[x3 + 1]
           t == Delivery(k)!Translated(x5, e)
<1>1. /\ x5.run = "on" /\ x5.todo = <<>> /\ x3 < Len(x2) /\ x3' = x3 + 1
      /\ x5' = [x5 EXCEPT !.todo = t, !.first = @ /\ e.kind \notin {"text", "other"}]
      /\ UNCHANGED <<x1, x2, x4, x6, x7, x8, x9, x10, x11, x12>>
  BY DEF Delivery!TranslatorReads, Delivery!UpstreamHas
<1>2. /\ Delivery(k)!Translates' = Delivery(k)!Translates
      /\ Delivery(k)!Converts' = Delivery(k)!Converts
      /\ Delivery(k)!Recorder' = Delivery(k)!Recorder
      /\ Delivery(k)!Chat' = Delivery(k)!Chat
  BY <1>1, SameAsk
<1>3. Delivery(k)!Translates /\ x7 \in {"copying", "returned"}
  BY <1>0, <1>1, StageRuns
<1>4. /\ x3 + 1 \in 1 .. Len(x2) /\ ~ Delivery(k)!Final
      /\ e \in Delivery(k)!Items
      /\ e.kind \in {"text", "other", "usage", "done"}
      /\ e.kind = "done" => x3 + 1 = Len(x2) /\ Delivery(k)!Finished
      /\ Texts(SubSeq(x2, 1, x3)) \in Seq(Delivery(k)!Items)
      /\ Texts(SubSeq(x2, 1, x3 + 1)) = Texts(SubSeq(x2, 1, x3)) \o Alone(e)
      /\ Delivery(k)!HasKind(SubSeq(x2, 1, x3 + 1), "done")
             = (Delivery(k)!HasKind(SubSeq(x2, 1, x3), "done") \/ e.kind = "done")
  BY <1>0, <1>1, OneMoreRead
<1>5. ~ Delivery(k)!Halted
  BY <1>1, <1>3, <1>4 DEF Delivery!Halted
<1> HIDE DEF e
<1>6. /\ t \in Seq(Delivery(k)!Items) /\ Texts(t) = Alone(e)
      /\ Delivery(k)!Kinds(t, {"role", "text", "finish", "done"}) /\ Delivery(k)!LastOnly(t)
      /\ Delivery(k)!HasKind(t, "done") => e.kind = "done" /\ Len(t) = 1
      /\ e.kind = "done" => Delivery(k)!HasKind(t, "done")
  BY <1>4, TranslatedIs
<1> HIDE DEF t
<1>7. x5'.run = "on" /\ x5'.todo = t /\ DOMAIN x5' = {"run", "todo", "first"}
  BY <1>0, <1>1 DEF Delivery!Shapes, Delivery!Stage
<1>8. Delivery(k)!Finished' = Delivery(k)!Finished
      /\ (e.kind = "done" => Delivery(k)!Final')
  BY <1>1, <1>4 DEF Delivery!Finished, Delivery!Final
<1>9. ~ Delivery(k)!HasKind(x9, "done") /\ ~ Delivery(k)!HasKind(x5.todo, "done")
  <2>1. ~ Delivery(k)!HasKind(<<>>, "done")
    BY PipeOfFew
  <2> QED
    BY <1>0, <1>1, <1>5, <2>1 DEF Delivery!Ending
<1>10. Delivery(k)!Shapes'
  <2>1. x3' \in 0 .. Len(x2')
    BY <1>1, <1>4
  <2>2. Delivery(k)!Stage(x5', {"none", "on", "over", "failed"})
    BY <1>6, <1>7 DEF Delivery!Stage
  <2> QED
    BY <1>0, <1>1, <1>2, <1>3, <1>6, <1>7, <2>1, <2>2 DEF Delivery!Shapes
<1>11. Delivery(k)!InOrder'
  BY <1>0, <1>1 DEF Delivery!InOrder
<1>12. Delivery(k)!Flows'
  <2>1. ASSUME x7 = "copying", Delivery(k)!Live
        PROVE  Delivery(k)!InFlight' = Delivery(k)!OwnText(SubSeq(x2', 1, x3'))
    <3>1. Texts(x9) \o Texts(x6.todo) \o Texts(x5.todo) = Texts(SubSeq(x2, 1, x3))
      BY <1>0, <2>1, OwnTextIs DEF Delivery!Flows, Delivery!InFlight
    <3>2. Texts(x9) \in Seq(Delivery(k)!Items) /\ Texts(x6.todo) \in Seq(Delivery(k)!Items)
          /\ Texts(x5.todo) = <<>> /\ Alone(e) \in Seq(Delivery(k)!Items)
      <4>1. x9 \in Seq(Delivery(k)!Items) /\ x6.todo \in Seq(Delivery(k)!Items)
        BY <1>0 DEF Delivery!Shapes, Delivery!Stage
      <4> QED
        BY <1>1, <1>4, <4>1, TextsAre, TextsOfFew DEF Alone
    <3>3. Texts(x9) \o Texts(x6.todo) \o Alone(e) = Texts(SubSeq(x2, 1, x3)) \o Alone(e)
      <4>1. Texts(x9) \o Texts(x6.todo) \o <<>> = Texts(x9) \o Texts(x6.todo)
        BY <3>2
      <4> QED
        BY <3>1, <3>2, <4>1
    <3>4. Texts(x9') \o Texts(x6'.todo) \o Texts(x5'.todo) = Texts(SubSeq(x2', 1, x3'))
      BY <1>1, <1>4, <1>6, <1>7, <3>3
    <3> QED
      BY <3>4, OwnTextIs DEF Delivery!InFlight
  <2> QED
    BY <1>1, <1>2, <2>1 DEF Delivery!Flows, Delivery!Live
<1>13. Delivery(k)!Stops'
  <2>1. Delivery(k)!HasKind(x5'.todo, "done") => Delivery(k)!Final' /\ Len(x5'.todo) = 1
    BY <1>6, <1>7, <1>8
  <2>2. x7 = "copying" => x6.run # "over" /\ ~ Delivery(k)!HasKind(x6.todo, "done")
    BY <1>0, <1>5 DEF Delivery!Stops
  <2> QED
    BY <1>1, <1>7, <2>1, <2>2 DEF Delivery!Stops
<1>14. Delivery(k)!Ending'
  <2>1. x7 = "copying" /\ Delivery(k)!Live /\ ~ Delivery(k)!Converts =>
          (Delivery(k)!HasKind(x9', "done") \/ Delivery(k)!HasKind(x5'.todo, "done"))
              = Delivery(k)!HasKind(SubSeq(x2', 1, x3'), "done")
    <3>1. x7 = "copying" /\ Delivery(k)!Live /\ ~ Delivery(k)!Converts =>
             ~ Delivery(k)!HasKind(SubSeq(x2, 1, x3), "done")
      BY <1>0, <1>9 DEF Delivery!Ending
    <3>2. Delivery(k)!HasKind(x5'.todo, "done") <=> e.kind = "done"
      BY <1>6, <1>7
    <3>3. ~ Delivery(k)!HasKind(x9', "done") /\ Delivery(k)!HasKind(x5'.todo, "done") \in BOOLEAN
      BY <1>1, <1>9 DEF Delivery!HasKind
    <3>4. SubSeq(x2', 1, x3') = SubSeq(x2, 1, x3 + 1)
      BY <1>1
    <3> QED
      BY <1>4, <3>1, <3>2, <3>3, <3>4
  <2>2. ~ Delivery(k)!HasKind(x9', "done") /\ Delivery(k)!Live' = Delivery(k)!Live
    BY <1>1, <1>2, <1>9 DEF Delivery!Live
  <2> QED
    BY <1>0, <1>1, <1>2, <1>8, <2>1, <2>2 DEF Delivery!Ending
<1>15. Delivery(k)!Accounts'
  BY <1>0, <1>1, <1>2 DEF Delivery!Accounts
<1>16. Delivery(k)!ChargedOnce'
  BY <1>0, <1>1, <1>2 DEF Delivery!ChargedOnce
<1> QED
  BY <1>10, <1>11, <1>12, <1>13, <1>14, <1>15, <1>16 DEF Delivery!DeliveryInv

\* The executor's goroutine has nothing more to pass on, or nobody to pass it
\* to.
LEMMA TranslatorStopped ==
    ASSUME NEW k, Delivery(k)!DeliveryInv, Delivery(k)!TranslatorEnds \/ Delivery(k)!TranslatorWriteFails
    PROVE  Delivery(k)!DeliveryInv'
<1>0. /\ Delivery(k)!Shapes /\ Delivery(k)!InOrder /\ Delivery(k)!Flows /\ Delivery(k)!Stops
      /\ Delivery(k)!Ending /\ Delivery(k)!Accounts /\ Delivery(k)!ChargedOnce
  BY DEF Delivery!DeliveryInv
<1>1. /\ x5.run = "on" /\ (x5.todo = <<>> \/ x7 = "returned")
      /\ UNCHANGED <<x1, x2, x3, x6, x7, x8, x9, x10, x11, x12>>
  BY DEF Delivery!TranslatorEnds, Delivery!TranslatorWriteFails, Delivery!TranslatorStops, Delivery!Closed
<1>2. PICK how \in {"on", "over", "failed"} :
         /\ x5' = [x5 EXCEPT !.run = how, !.todo = <<>>]
         /\ x4' = x4 \/ (x4 = "open" /\ x4' = "closed")
         /\ how # "on" => x4' # "open" /\ (x7 = "copying" /\ x4' = "ended" => x3 = Len(x2))
  <2>0. DOMAIN x5 = {"run", "todo", "first"}
    BY <1>0 DEF Delivery!Shapes, Delivery!Stage
  <2>1. CASE Delivery(k)!TranslatorEnds
    <3>1. CASE Delivery(k)!UpstreamEnded /\ Delivery(k)!TranslatorStops("over")
      BY <3>1 DEF Delivery!UpstreamEnded, Delivery!TranslatorStops, Delivery!Shut
    <3>2. CASE Delivery(k)!UpstreamBroken
               /\ Delivery(k)!TranslatorStops(IF x1.provider = "gemini" THEN "over" ELSE "failed")
      BY <3>2 DEF Delivery!UpstreamBroken, Delivery!TranslatorStops, Delivery!Shut
    <3> QED
      BY <2>1, <3>1, <3>2 DEF Delivery!TranslatorEnds
  <2>2. CASE Delivery(k)!TranslatorWriteFails
    <3>1. CASE x1.provider = "gemini"
      <4>1. x5' = [x5 EXCEPT !.todo = <<>>] /\ x4' = x4
        BY <2>2, <3>1 DEF Delivery!TranslatorWriteFails
      <4>2. x5' = [x5 EXCEPT !.run = "on", !.todo = <<>>]
        BY <1>1, <2>0, <4>1
      <4> QED
        BY <4>1, <4>2
    <3>2. CASE x1.provider # "gemini"
      <4>1. x7 = "returned" /\ Delivery(k)!TranslatorStops("failed")
        BY <2>2, <3>2 DEF Delivery!TranslatorWriteFails, Delivery!Closed
      <4> QED
        BY <4>1 DEF Delivery!TranslatorStops, Delivery!Shut
    <3> QED
      BY <3>1, <3>2
  <2> QED
    BY <2>1, <2>2
<1>3. /\ Delivery(k)!Translates' = Delivery(k)!Translates
      /\ Delivery(k)!Converts' = Delivery(k)!Converts
      /\ Delivery(k)!Recorder' = Delivery(k)!Recorder
      /\ Delivery(k)!Chat' = Delivery(k)!Chat
  BY <1>1, SameAsk
<1>4. Delivery(k)!Translates /\ x7 \in {"copying", "returned"}
  BY <1>0, <1>1, StageRuns
<1>5. x5'.run = how /\ x5'.todo = <<>> /\ DOMAIN x5' = {"run", "todo", "first"}
  BY <1>0, <1>2 DEF Delivery!Shapes, Delivery!Stage
<1>6. Delivery(k)!Finished' = Delivery(k)!Finished /\ Delivery(k)!Final' = Delivery(k)!Final
      /\ (Delivery(k)!Halted => Delivery(k)!Halted')
  BY <1>1, <1>3, <1>4 DEF Delivery!Finished, Delivery!Final, Delivery!Halted
<1>7. /\ <<>> \in Seq(Delivery(k)!Items) /\ Delivery(k)!LastOnly(<<>>) /\ ~ Delivery(k)!HasKind(<<>>, "done")
      /\ Delivery(k)!Kinds(<<>>, {"role", "text", "finish", "done"})
  BY PipeOfFew
<1>8. Delivery(k)!ConverterDone => Delivery(k)!ConverterDone'
  BY <1>1, <1>3, <1>5 DEF Delivery!ConverterDone
<1>9. Delivery(k)!Live' = Delivery(k)!Live
      /\ (x7 = "copying" => Delivery(k)!InFlight' = Delivery(k)!InFlight)
  BY <1>1, <1>3, <1>5 DEF Delivery!Live, Delivery!InFlight
<1>10. Delivery(k)!Shapes'
  <2>1. Delivery(k)!Stage(x5', {"none", "on", "over", "failed"})
    BY <1>5, <1>7 DEF Delivery!Stage
  <2> QED
    BY <1>0, <1>1, <1>3, <1>4, <1>5, <1>7, <2>1 DEF Delivery!Shapes
<1>11. Delivery(k)!InOrder'
  BY <1>0, <1>1 DEF Delivery!InOrder
<1>12. Delivery(k)!Flows'
  BY <1>0, <1>1, <1>9 DEF Delivery!Flows
<1>13. Delivery(k)!Stops'
  <2>1. x4' \in {"open", "ended"} => x4' = x4
    BY <1>2
  <2> QED
    BY <1>0, <1>1, <1>2, <1>5, <1>6, <1>7, <1>8, <2>1 DEF Delivery!Stops
<1>14. Delivery(k)!Ending'
  <2>1. x4' \in {"open", "ended"} => x4' = x4
    BY <1>2
  <2>2. x7 = "copying" => x5'.todo = x5.todo
    BY <1>1, <1>5
  <2> QED
    BY <1>0, <1>1, <1>3, <1>5, <1>6, <1>8, <1>9, <2>1, <2>2 DEF Delivery!Ending
<1>15. Delivery(k)!Accounts'
  BY <1>0, <1>1, <1>3 DEF Delivery!Accounts
<1>16. Delivery(k)!ChargedOnce'
  BY <1>0, <1>1, <1>3 DEF Delivery!ChargedOnce
<1> QED
  BY <1>10, <1>11, <1>12, <1>13, <1>14, <1>15, <1>16 DEF Delivery!DeliveryInv

\* What the converter writes for an item.
LEMMA ConvertedIs ==
    ASSUME NEW k, NEW s, NEW i \in Delivery(k)!Items,
           i.kind \in {"role", "text", "other", "usage", "finish", "done"}
    PROVE  /\ Delivery(k)!Converted(s, i) \in Seq(Delivery(k)!Items)
           /\ Texts(Delivery(k)!Converted(s, i)) = Alone(i)
           /\ Delivery(k)!Kinds(Delivery(k)!Converted(s, i),
                                IF x1.source \in {"anthropic", "responses"}
                                THEN {"start", "text", "output", "done"}
                                ELSE {"role", "text", "other", "usage", "finish", "done"})
           /\ Delivery(k)!LastOnly(Delivery(k)!Converted(s, i))
           /\ Delivery(k)!HasKind(Delivery(k)!Converted(s, i), "done") => i.kind = "done"
<1> DEFINE start == Delivery(k)!Item("start", 0)
           output == Delivery(k)!Item("output", 0)
           c == Delivery(k)!Converted(s, i)
           a == IF s.first THEN <<start>> ELSE <<>>
           b == CASE i.kind = "text" -> <<i>>
                  [] i.kind = "done" -> <<output, i>>
                  [] OTHER -> <<>>
           kinds == IF x1.source \in {"anthropic", "responses"}
                    THEN {"start", "text", "output", "done"}
                    ELSE {"role", "text", "other", "usage", "finish", "done"}
<1>1. /\ start \in Delivery(k)!Items /\ start.kind = "start"
      /\ output \in Delivery(k)!Items /\ output.kind = "output"
  <2>1. "start" \in Delivery(k)!ItemKinds /\ "output" \in Delivery(k)!ItemKinds /\ 0 \in Nat
    BY DEF Delivery!ItemKinds
  <2> QED
    BY <2>1, AnItem
<1>2. ASSUME NEW w \in Delivery(k)!Items
      PROVE  <<w>> \in Seq(Delivery(k)!Items) /\ Len(<<w>>) = 1 /\ DOMAIN <<w>> = {1} /\ <<w>>[1] = w
             /\ Texts(<<w>>) = Alone(w)
  BY TextsOfFew
<1>3. /\ <<>> \in Seq(Delivery(k)!Items) /\ DOMAIN <<>> = {} /\ Len(<<>>) = 0 /\ Texts(<<>>) = <<>>
  BY TextsOfFew
<1>4. Alone(start) = <<>> /\ Alone(output) = <<>> /\ (i.kind # "text" => Alone(i) = <<>>)
      /\ Alone(i) \in Seq(Delivery(k)!Items)
  BY <1>1 DEF Alone
<1>5. CASE x1.source = "anthropic"
  <2>1. c = a \o b
    BY <1>5 DEF Delivery!Converted
  <2>2. a \in Seq(Delivery(k)!Items) /\ Texts(a) = <<>> /\ Len(a) \in Nat
        /\ \A n \in DOMAIN a : a[n].kind = "start"
    <3>1. a = <<start>> \/ a = <<>>
      OBVIOUS
    <3> HIDE DEF a, start
    <3>2. CASE a = <<start>>
      BY <1>1, <1>2, <1>4, <3>2
    <3>3. CASE a = <<>>
      BY <1>3, <3>3
    <3> QED
      BY <3>1, <3>2, <3>3
  <2>3. /\ b \in Seq(Delivery(k)!Items) /\ Texts(b) = Alone(i) /\ Len(b) \in Nat
        /\ \A n \in DOMAIN b : b[n].kind \in {"text", "output", "done"}
                               /\ (b[n].kind = "done" => n = Len(b) /\ i.kind = "done")
    <3>1. CASE i.kind = "text"
      <4>1. b = <<i>>
        BY <3>1
      <4> HIDE DEF b
      <4> QED
        BY <1>2, <3>1, <4>1
    <3>2. CASE i.kind = "done"
      <4>1. b = <<output>> \o <<i>>
        BY <3>2
      <4> HIDE DEF b, output
      <4>2. Len(b) = 2 /\ b[1] = output /\ b[2] = i /\ b \in Seq(Delivery(k)!Items)
        BY <1>1, <1>2, <4>1
      <4>3. Texts(b) = Texts(<<output>>) \o Texts(<<i>>)
        <5>1. <<output>> \in Seq(Delivery(k)!Items) /\ <<i>> \in Seq(Delivery(k)!Items)
          BY <1>1, <1>2
        <5> QED
          BY <4>1, <5>1, TextsOfConcat
      <4>4. Texts(b) = Alone(i)
        BY <1>1, <1>2, <1>4, <3>2, <4>3
      <4>5. DOMAIN b = 1 .. 2 /\ \A n \in 1 .. 2 : n = 1 \/ n = 2
        BY <4>2
      <4> QED
        BY <1>1, <3>2, <4>2, <4>4, <4>5
    <3>3. CASE i.kind \notin {"text", "done"}
      <4>1. b = <<>>
        BY <3>3
      <4> HIDE DEF b
      <4> QED
        BY <1>3, <1>4, <3>3, <4>1
    <3> QED
      BY <3>1, <3>2, <3>3
  <2> HIDE DEF a, b, c
  <2>4. c \in Seq(Delivery(k)!Items) /\ Texts(c) = Alone(i)
    <3>1. Texts(c) = Texts(a) \o Texts(b)
      BY <2>1, <2>2, <2>3, TextsOfConcat
    <3> QED
      BY <1>4, <2>1, <2>2, <2>3, <3>1
  <2>5. Len(c) = Len(a) + Len(b) /\ DOMAIN c = 1 .. Len(a) + Len(b)
        /\ DOMAIN a = 1 .. Len(a) /\ DOMAIN b = 1 .. Len(b)
    BY <2>1, <2>2, <2>3
  <2>6. ASSUME NEW n \in DOMAIN c
        PROVE  c[n].kind \in {"start", "text", "output", "done"} /\ (c[n].kind = "done" => n = Len(c) /\ i.kind = "done")
    <3>1. CASE n \in DOMAIN a
      <4>1. c[n] = a[n]
        BY <2>1, <2>2, <2>3, <3>1
      <4> QED
        BY <2>2, <3>1, <4>1
    <3>2. CASE n \notin DOMAIN a
      <4>1. n - Len(a) \in 1 .. Len(b) /\ (n - Len(a) = Len(b) => n = Len(a) + Len(b))
        BY <2>2, <2>3, <2>5, <3>2
      <4>2. c[n] = b[n - Len(a)]
        BY <2>1, <2>2, <2>3, <2>5, <3>2
      <4> QED
        BY <2>3, <2>5, <4>1, <4>2
    <3> QED
      BY <3>1, <3>2
  <2> QED
    BY <1>5, <2>4, <2>6 DEF c, Delivery!Kinds, Delivery!LastOnly, Delivery!HasKind
<1>6. CASE x1.source # "anthropic"
  <2>1. \/ c = <<i>> /\ i.kind \in kinds
        \/ c = <<>> /\ Alone(i) = <<>>
    BY <1>4, <1>6 DEF Delivery!Converted
  <2> HIDE DEF c
  <2>2. CASE c = <<i>> /\ i.kind \in kinds
    <3> HIDE DEF kinds
    <3>1. /\ c \in Seq(Delivery(k)!Items) /\ Texts(c) = Alone(i)
          /\ \A n \in DOMAIN c : n = Len(c) /\ c[n] = i
      BY <1>2, <2>2
    <3>2. Delivery(k)!Kinds(c, kinds)
      BY <2>2, <3>1 DEF Delivery!Kinds
    <3> QED
      BY <3>1, <3>2 DEF c, kinds, Delivery!LastOnly, Delivery!HasKind
  <2>3. CASE c = <<>> /\ Alone(i) = <<>>
    <3> HIDE DEF kinds
    <3>1. /\ c \in Seq(Delivery(k)!Items) /\ Texts(c) = Alone(i) /\ DOMAIN c = {}
      BY <1>3, <2>3
    <3>2. Delivery(k)!Kinds(c, kinds)
      BY <3>1 DEF Delivery!Kinds
    <3> QED
      BY <3>1, <3>2 DEF c, kinds, Delivery!LastOnly, Delivery!HasKind
  <2> QED
    BY <2>1, <2>2, <2>3
<1> QED
  BY <1>5, <1>6

\* An item is taken from what the converter, or the handler, reads from.
LEMMA BodyTaken ==
    ASSUME NEW k, Delivery(k)!Shapes, Delivery(k)!Stops, Delivery(k)!BodyHas, Delivery(k)!TakeOfBody,
           UNCHANGED <<x1, x2>>
    PROVE  /\ Delivery(k)!NextOfBody \in Delivery(k)!Items
           /\ Delivery(k)!NextOfBody.kind \in (IF Delivery(k)!Translates
                                               THEN {"role", "text", "finish", "done"}
                                               ELSE {"text", "other", "usage", "done"})
           /\ x3' \in 0 .. Len(x2)
           /\ DOMAIN x5' = {"run", "todo", "first"} /\ x5'.run = x5.run /\ x5'.todo \in Seq(Delivery(k)!Items)
           /\ Delivery(k)!Kinds(x5'.todo, {"role", "text", "finish", "done"}) /\ Delivery(k)!LastOnly(x5'.todo)
           /\ ~ Delivery(k)!HasKind(x5'.todo, "done")
           /\ x5.run = "none" => x5'.todo = <<>>
           /\ Delivery(k)!Translates => x5.todo # <<>> /\ x3' = x3
           /\ ~ Delivery(k)!Translates => ~ Delivery(k)!Final /\ x5.run = "none"
           /\ Delivery(k)!NextOfBody.kind = "done" =>
                  x5'.todo = <<>> /\ x3' = Len(x2) /\ Delivery(k)!Finished
           /\ \A t \in Seq(Delivery(k)!Items) :
                  t \o Texts(x5.todo) = Texts(SubSeq(x2, 1, x3)) =>
                  (t \o Alone(Delivery(k)!NextOfBody)) \o Texts(x5'.todo) = Texts(SubSeq(x2, 1, x3'))
           /\ Delivery(k)!HasKind(x5.todo, "done") = Delivery(k)!HasKind(SubSeq(x2, 1, x3), "done") =>
                  (Delivery(k)!NextOfBody.kind = "done" \/ Delivery(k)!HasKind(x5'.todo, "done"))
                      = Delivery(k)!HasKind(SubSeq(x2, 1, x3'), "done")
<1> DEFINE i == Delivery(k)!NextOfBody
<1>0. /\ x5.todo \in Seq(Delivery(k)!Items) /\ DOMAIN x5 = {"run", "todo", "first"}
      /\ Delivery(k)!Kinds(x5.todo, {"role", "text", "finish", "done"}) /\ Delivery(k)!LastOnly(x5.todo)
      /\ x5.run = "none" => x5.todo = <<>>
      /\ Delivery(k)!HasKind(x5.todo, "done") => Delivery(k)!Final /\ Len(x5.todo) = 1
      /\ ~ Delivery(k)!Translates => x5.run = "none"
      /\ x3 \in 0 .. Len(x2)
  BY DEF Delivery!Shapes, Delivery!Stops, Delivery!Stage
<1>1. CASE Delivery(k)!Translates
  <2> DEFINE s == x5.todo
             t == Tail(s)
  <2>1. /\ s # <<>> /\ i = Head(s) /\ x3' = x3 /\ x5'.todo = t /\ x5'.run = x5.run
        /\ DOMAIN x5' = {"run", "todo", "first"}
    BY <1>0, <1>1 DEF Delivery!BodyHas, Delivery!Has, Delivery!NextOfBody, Delivery!TakeOfBody
  <2>2. /\ s \in Seq(Delivery(k)!Items) /\ Len(s) \in Nat /\ DOMAIN s = 1 .. Len(s)
        /\ Delivery(k)!Kinds(s, {"role", "text", "finish", "done"}) /\ Delivery(k)!LastOnly(s)
        /\ Delivery(k)!HasKind(s, "done") => Delivery(k)!Final /\ Len(s) = 1
    BY <1>0
  <2> HIDE DEF s
  <2>3. /\ i = s[1] /\ 1 \in DOMAIN s /\ t \in Seq(Delivery(k)!Items)
        /\ Len(t) = Len(s) - 1 /\ DOMAIN t = 1 .. Len(s) - 1 /\ \A n \in 1 .. Len(s) - 1 : t[n] = s[n + 1]
        /\ Len(s) = 1 => t = <<>>
    BY <2>1, <2>2
  <2>4. \A n \in 1 .. Len(s) - 1 : n + 1 \in 1 .. Len(s) /\ (n + 1 = Len(s) => n = Len(s) - 1) /\ n + 1 # 1
    <3>1. Len(s) \in Nat
      BY <2>2
    <3> QED
      BY <3>1
  <2> HIDE DEF t, i
  <2>5. i \in Delivery(k)!Items /\ i.kind \in {"role", "text", "finish", "done"}
    BY <2>2, <2>3 DEF Delivery!Kinds
  <2>6. Delivery(k)!Kinds(t, {"role", "text", "finish", "done"})
    BY <2>2, <2>3, <2>4 DEF Delivery!Kinds
  <2>7. ~ Delivery(k)!HasKind(t, "done")
    <3>1. ASSUME NEW n \in DOMAIN t, t[n].kind = "done" PROVE FALSE
      <4>1. n + 1 \in DOMAIN s /\ s[n + 1].kind = "done"
        BY <2>2, <2>3, <2>4, <3>1
      <4>2. t = <<>>
        BY <2>2, <2>3, <4>1 DEF Delivery!HasKind
      <4> QED
        BY <3>1, <4>2
    <3> QED
      BY <3>1 DEF Delivery!HasKind
  <2>8. Delivery(k)!LastOnly(t)
    BY <2>7 DEF Delivery!HasKind, Delivery!LastOnly
  <2>9. (i.kind = "done" <=> Delivery(k)!HasKind(s, "done"))
        /\ (i.kind = "done" => t = <<>> /\ x3' = Len(x2) /\ Delivery(k)!Finished)
    <3>1. i.kind = "done" => Delivery(k)!HasKind(s, "done")
      BY <2>3 DEF Delivery!HasKind
    <3>2. Delivery(k)!HasKind(s, "done") => Len(s) = 1 /\ t = <<>> /\ Delivery(k)!Final
      BY <2>2, <2>3
    <3>3. Delivery(k)!HasKind(s, "done") => i.kind = "done"
      <4>1. ASSUME NEW n \in DOMAIN s, s[n].kind = "done" PROVE i.kind = "done"
        <5>1. Len(s) = 1
          BY <3>2, <4>1 DEF Delivery!HasKind
        <5>2. n = 1
          BY <2>2, <5>1
        <5> QED
          BY <2>3, <4>1, <5>2
      <4> QED
        BY <4>1 DEF Delivery!HasKind
    <3> QED
      BY <2>1, <3>1, <3>2, <3>3 DEF Delivery!Final
  <2>10. \A u \in Seq(Delivery(k)!Items) :
                  u \o Texts(s) = Texts(SubSeq(x2, 1, x3)) =>
                  (u \o Alone(i)) \o Texts(t) = Texts(SubSeq(x2, 1, x3'))
    <3>1. Texts(s) = Alone(i) \o Texts(t)
      BY <2>1, <2>2, TextsOfMoved DEF t
    <3>2. Alone(i) \in Seq(Delivery(k)!Items) /\ Texts(t) \in Seq(Delivery(k)!Items)
      BY <2>3, <2>5, TextsAre DEF Alone
    <3>3. ASSUME NEW u \in Seq(Delivery(k)!Items) PROVE (u \o Alone(i)) \o Texts(t) = u \o Texts(s)
      BY <3>1, <3>2
    <3> QED
      BY <2>1, <3>3
  <2>11. (i.kind = "done" \/ Delivery(k)!HasKind(t, "done")) = Delivery(k)!HasKind(s, "done")
    BY <2>7, <2>9 DEF Delivery!HasKind
  <2> QED
    BY <1>0, <1>1, <2>1, <2>2, <2>3, <2>5, <2>6, <2>7, <2>8, <2>9, <2>10, <2>11 DEF i, s
<1>2. CASE ~ Delivery(k)!Translates
  <2>1. x3 < Len(x2) /\ i = x2[x3 + 1] /\ x3' = x3 + 1 /\ x5' = x5 /\ x5.run = "none" /\ x5.todo = <<>>
    BY <1>0, <1>2 DEF Delivery!BodyHas, Delivery!UpstreamHas, Delivery!NextOfBody, Delivery!TakeOfBody
  <2>2. /\ x3 + 1 \in 1 .. Len(x2) /\ ~ Delivery(k)!Final
        /\ i \in Delivery(k)!Items
        /\ i.kind \in {"text", "other", "usage", "done"}
        /\ i.kind = "done" => x3 + 1 = Len(x2) /\ Delivery(k)!Finished
        /\ Texts(SubSeq(x2, 1, x3)) \in Seq(Delivery(k)!Items)
        /\ Texts(SubSeq(x2, 1, x3 + 1)) = Texts(SubSeq(x2, 1, x3)) \o Alone(i)
        /\ Delivery(k)!HasKind(SubSeq(x2, 1, x3 + 1), "done")
               = (Delivery(k)!HasKind(SubSeq(x2, 1, x3), "done") \/ i.kind = "done")
    BY <2>1, OneMoreRead
  <2> HIDE DEF i
  <2>3. Texts(<<>>) = <<>> /\ ~ Delivery(k)!HasKind(<<>>, "done")
    BY PipeOfFew
  <2>4. x3' \in 0 .. Len(x2)
    BY <2>1, <2>2
  <2>5. \A u \in Seq(Delivery(k)!Items) :
                  u \o Texts(x5.todo) = Texts(SubSeq(x2, 1, x3)) =>
                  (u \o Alone(i)) \o Texts(x5'.todo) = Texts(SubSeq(x2, 1, x3'))
    <3>1. Alone(i) \in Seq(Delivery(k)!Items)
      BY <2>2 DEF Alone
    <3>2. ASSUME NEW u \in Seq(Delivery(k)!Items) PROVE u \o <<>> = u /\ (u \o Alone(i)) \o <<>> = u \o Alone(i)
      BY <3>1
    <3>3. ASSUME NEW u \in Seq(Delivery(k)!Items), u \o Texts(x5.todo) = Texts(SubSeq(x2, 1, x3))
          PROVE  (u \o Alone(i)) \o Texts(x5'.todo) = Texts(SubSeq(x2, 1, x3'))
      <4>1. Texts(x5.todo) = <<>> /\ Texts(x5'.todo) = <<>>
        BY <2>1, <2>3
      <4>2. u = Texts(SubSeq(x2, 1, x3))
        BY <3>2, <3>3, <4>1
      <4>3. Texts(SubSeq(x2, 1, x3')) = u \o Alone(i)
        BY <2>1, <2>2, <4>2
      <4> QED
        BY <3>2, <4>1, <4>3
    <3> QED
      BY <3>3
  <2>6. ~ Delivery(k)!HasKind(SubSeq(x2, 1, x3), "done") =>
                  (i.kind = "done" \/ Delivery(k)!HasKind(x5'.todo, "done"))
                      = Delivery(k)!HasKind(SubSeq(x2, 1, x3'), "done")
    <3>1. ~ Delivery(k)!HasKind(x5'.todo, "done") /\ SubSeq(x2, 1, x3') = SubSeq(x2, 1, x3 + 1)
      BY <2>1, <2>3
    <3> QED
      BY <2>2, <3>1
  <2>7. Delivery(k)!HasKind(x5.todo, "done") = Delivery(k)!HasKind(SubSeq(x2, 1, x3), "done")
            => ~ Delivery(k)!HasKind(SubSeq(x2, 1, x3), "done")
    BY <2>1, <2>3
  <2> QED
    BY <1>0, <1>2, <2>1, <2>2, <2>3, <2>4, <2>5, <2>6, <2>7 DEF i
<1> QED
  BY <1>1, <1>2

LEMMA ConverterHasRead ==
    ASSUME NEW k, Delivery(k)!DeliveryInv, Delivery(k)!ConverterReads
    PROVE  Delivery(k)!DeliveryInv'
<1>0. /\ Delivery(k)!Shapes /\ Delivery(k)!InOrder /\ Delivery(k)!Flows /\ Delivery(k)!Stops
      /\ Delivery(k)!Ending /\ Delivery(k)!Accounts /\ Delivery(k)!ChargedOnce
  BY DEF Delivery!DeliveryInv
<1> DEFINE i == Delivery(k)!NextOfBody
           c == Delivery(k)!Converted(x6, i)
           two == x1.source \in {"anthropic", "responses"}
           before == Texts(SubSeq(x2, 1, x3))
           after == Texts(SubSeq(x2, 1, x3'))
<1>1. /\ x6.run = "on" /\ x6.todo = <<>> /\ x7 # "returned" /\ Delivery(k)!BodyHas /\ Delivery(k)!TakeOfBody
      /\ x6' = [run |-> IF i.kind = "done" /\ two THEN "over" ELSE "on", todo |-> c, first |-> FALSE]
      /\ UNCHANGED <<x1, x2, x4, x7, x8, x9, x10, x11, x12>>
  BY DEF Delivery!ConverterReads, Delivery!Closed
<1>2. /\ Delivery(k)!Translates' = Delivery(k)!Translates
      /\ Delivery(k)!Converts' = Delivery(k)!Converts
      /\ Delivery(k)!Recorder' = Delivery(k)!Recorder
      /\ Delivery(k)!Chat' = Delivery(k)!Chat
  BY <1>1, SameAsk
<1>3. Delivery(k)!Converts /\ x7 = "copying"
  BY <1>0, <1>1, StageRuns
<1>4. /\ i \in Delivery(k)!Items
      /\ i.kind \in (IF Delivery(k)!Translates THEN {"role", "text", "finish", "done"}
                                               ELSE {"text", "other", "usage", "done"})
      /\ x3' \in 0 .. Len(x2)
      /\ DOMAIN x5' = {"run", "todo", "first"} /\ x5'.run = x5.run /\ x5'.todo \in Seq(Delivery(k)!Items)
      /\ Delivery(k)!Kinds(x5'.todo, {"role", "text", "finish", "done"}) /\ Delivery(k)!LastOnly(x5'.todo)
      /\ ~ Delivery(k)!HasKind(x5'.todo, "done")
      /\ x5.run = "none" => x5'.todo = <<>>
      /\ Delivery(k)!Translates => x5.todo # <<>> /\ x3' = x3
      /\ ~ Delivery(k)!Translates => ~ Delivery(k)!Final /\ x5.run = "none"
      /\ i.kind = "done" => x5'.todo = <<>> /\ x3' = Len(x2) /\ Delivery(k)!Finished
  BY <1>0, <1>1, BodyTaken
<1>5. \A t \in Seq(Delivery(k)!Items) :
          t \o Texts(x5.todo) = before => (t \o Alone(i)) \o Texts(x5'.todo) = after
  BY <1>0, <1>1, BodyTaken
<1> HIDE DEF i, before, after
<1>6. i.kind \in {"role", "text", "other", "usage", "finish", "done"}
  BY <1>4
<1>7. /\ c \in Seq(Delivery(k)!Items) /\ Texts(c) = Alone(i)
      /\ Delivery(k)!Kinds(c, IF two THEN {"start", "text", "output", "done"}
                              ELSE {"role", "text", "other", "usage", "finish", "done"})
      /\ Delivery(k)!LastOnly(c)
      /\ Delivery(k)!HasKind(c, "done") => i.kind = "done"
  BY <1>4, <1>6, ConvertedIs
<1> HIDE DEF c, two
<1>8. /\ x6'.run \in {"on", "over"} /\ x6'.todo = c /\ DOMAIN x6' = {"run", "todo", "first"}
      /\ x6'.run = "over" => i.kind = "done" /\ two
      /\ i.kind = "done" => x6'.run = "over" \/ ~ two
  BY <1>1
<1>9. Delivery(k)!Finished' = Delivery(k)!Finished
      /\ (i.kind = "done" => Delivery(k)!Final' /\ Delivery(k)!Halted')
  BY <1>1, <1>2, <1>4 DEF Delivery!Finished, Delivery!Final, Delivery!Halted
<1>10. ~ Delivery(k)!HasKind(x9, "done")
  <2>1. ASSUME Delivery(k)!HasKind(x9, "done") PROVE FALSE
    <3>1. Delivery(k)!Halted /\ x5.todo = <<>>
      BY <1>0, <1>3, <2>1 DEF Delivery!Ending
    <3>2. ~ Delivery(k)!Translates
      BY <1>4, <3>1
    <3> QED
      BY <1>1, <1>4, <3>1, <3>2 DEF Delivery!Halted
  <2> QED
    BY <2>1
<1>11. Delivery(k)!Shapes'
  <2>1. /\ Delivery(k)!Stage(x5', IF Delivery(k)!Translates THEN {"none", "on", "over", "failed"} ELSE {"none"})
        /\ Delivery(k)!Stage(x6', {"none", "on", "over"})
    BY <1>0, <1>4, <1>7, <1>8 DEF Delivery!Stage, Delivery!Shapes
  <2> QED
    BY <1>0, <1>1, <1>2, <1>3, <1>4, <1>7, <1>8, <2>1 DEF Delivery!Shapes, two
<1>12. Delivery(k)!InOrder'
  BY <1>0, <1>1 DEF Delivery!InOrder
<1>13. Delivery(k)!Flows'
  <2>1. ASSUME Delivery(k)!Live
        PROVE  Delivery(k)!InFlight' = Delivery(k)!OwnText(SubSeq(x2', 1, x3'))
    <3>1. Texts(x9) \o Texts(x6.todo) \o Texts(x5.todo) = before
      BY <1>0, <1>3, <2>1, OwnTextIs DEF Delivery!Flows, Delivery!InFlight, before
    <3>2. Texts(x9) \in Seq(Delivery(k)!Items) /\ Texts(x6.todo) = <<>>
      <4>1. x9 \in Seq(Delivery(k)!Items)
        BY <1>0 DEF Delivery!Shapes
      <4> QED
        BY <1>1, <4>1, TextsAre, TextsOfFew
    <3>3. Texts(x9) \o <<>> = Texts(x9)
      BY <3>2
    <3>4. Texts(x9) \o Texts(x5.todo) = before
      BY <3>1, <3>2, <3>3
    <3>5. (Texts(x9) \o Alone(i)) \o Texts(x5'.todo) = after
      BY <1>5, <3>2, <3>4
    <3>6. Texts(x9') \o Texts(x6'.todo) \o Texts(x5'.todo) = Texts(SubSeq(x2', 1, x3'))
      BY <1>1, <1>7, <1>8, <3>5 DEF after
    <3> QED
      BY <3>6, OwnTextIs DEF Delivery!InFlight
  <2> QED
    BY <1>1, <1>2, <2>1 DEF Delivery!Flows, Delivery!Live
<1>14. Delivery(k)!Stops'
  <2>1. x5'.run \in {"over", "failed"} =>
          x4' # "open" /\ (x7' = "copying" /\ x4' = "ended" => x3' = Len(x2'))
    <3>1. x5.run \in {"over", "failed"} => Delivery(k)!Translates
      BY <1>4
    <3>2. x5.run \in {"over", "failed"} => x4 # "open" /\ (x7 = "copying" /\ x4 = "ended" => x3 = Len(x2))
      BY <1>0 DEF Delivery!Stops
    <3> QED
      BY <1>1, <1>4, <3>1, <3>2
  <2>2. x6'.run = "over" =>
          /\ x5'.todo = <<>> /\ Delivery(k)!Halted'
          /\ x3' = Len(x2') /\ Delivery(k)!Finished'
    BY <1>1, <1>4, <1>8, <1>9
  <2>3. Delivery(k)!HasKind(x6'.todo, "done") =>
          x5'.todo = <<>> /\ Delivery(k)!Halted' /\ Delivery(k)!ConverterDone'
    <3>1. Delivery(k)!HasKind(x6'.todo, "done") => i.kind = "done"
      BY <1>7, <1>8
    <3>2. i.kind = "done" => x5'.todo = <<>> /\ Delivery(k)!Halted' /\ (x6'.run = "over" \/ ~ two)
      BY <1>4, <1>8, <1>9
    <3>3. x5'.todo = <<>> /\ (x6'.run = "over" \/ ~ two) => Delivery(k)!ConverterDone'
      BY <1>1 DEF Delivery!ConverterDone, two
    <3> QED
      BY <3>1, <3>2, <3>3
  <2> QED
    BY <1>4, <2>1, <2>2, <2>3 DEF Delivery!Stops
<1>15. Delivery(k)!Ending'
  <2>1. ~ Delivery(k)!HasKind(x9', "done") /\ Delivery(k)!Converts' /\ x7' # "returned"
    BY <1>1, <1>2, <1>3, <1>10
  <2> QED
    BY <2>1 DEF Delivery!Ending
<1>16. Delivery(k)!Accounts'
  BY <1>0, <1>1, <1>2 DEF Delivery!Accounts
<1>17. Delivery(k)!ChargedOnce'
  BY <1>0, <1>1, <1>2 DEF Delivery!ChargedOnce
<1> QED
  BY <1>11, <1>12, <1>13, <1>14, <1>15, <1>16, <1>17 DEF Delivery!DeliveryInv

\* What it reads from has ended, or the handler has returned.
LEMMA ConverterHasEnded ==
    ASSUME NEW k, Delivery(k)!DeliveryInv, Delivery(k)!ConverterEnds \/ Delivery(k)!ConverterWriteFails
    PROVE  Delivery(k)!DeliveryInv'
<1>0. /\ Delivery(k)!Shapes /\ Delivery(k)!InOrder /\ Delivery(k)!Flows /\ Delivery(k)!Stops
      /\ Delivery(k)!Ending /\ Delivery(k)!Accounts /\ Delivery(k)!ChargedOnce
  BY DEF Delivery!DeliveryInv
<1> DEFINE done == Delivery(k)!Item("done", 0)
           c == Delivery(k)!ConvertedEnd(x6)
           two == x1.source \in {"anthropic", "responses"}
           kinds == IF two THEN {"start", "text", "output", "done"}
                           ELSE {"role", "text", "other", "usage", "finish", "done"}
<1>1. UNCHANGED <<x1, x2, x3, x4, x5, x7, x8, x9, x10, x11, x12>>
  BY DEF Delivery!ConverterEnds, Delivery!ConverterWriteFails
<1>2. /\ Delivery(k)!Translates' = Delivery(k)!Translates
      /\ Delivery(k)!Converts' = Delivery(k)!Converts
      /\ Delivery(k)!Recorder' = Delivery(k)!Recorder
      /\ Delivery(k)!Chat' = Delivery(k)!Chat
  BY <1>1, SameAsk
<1>3. /\ <<>> \in Seq(Delivery(k)!Items) /\ Texts(<<>>) = <<>> /\ Delivery(k)!LastOnly(<<>>)
      /\ ~ Delivery(k)!HasKind(<<>>, "done") /\ Delivery(k)!Kinds(<<>>, kinds)
  BY PipeOfFew
<1>4. /\ c \in Seq(Delivery(k)!Items) /\ Texts(c) = <<>> /\ Delivery(k)!LastOnly(c)
      /\ Delivery(k)!Kinds(c, kinds) /\ (~ two => c = <<>>)
  <2>1. CASE two
    <3>1. c = Delivery(k)!Converted(x6, done)
      BY <2>1 DEF Delivery!ConvertedEnd
    <3>2. done \in Delivery(k)!Items /\ done.kind = "done"
      <4>1. "done" \in Delivery(k)!ItemKinds /\ 0 \in Nat
        BY DEF Delivery!ItemKinds
      <4> QED
        BY <4>1, AnItem
    <3> HIDE DEF done, c
    <3>3. done.kind \in {"role", "text", "other", "usage", "finish", "done"} /\ Alone(done) = <<>>
      BY <3>2 DEF Alone
    <3> QED
      BY <2>1, <3>1, <3>2, <3>3, ConvertedIs
  <2>2. CASE ~ two
    <3>1. c = <<>>
      BY <2>2 DEF Delivery!ConvertedEnd
    <3> HIDE DEF c, kinds
    <3> QED
      BY <1>3, <3>1
  <2> QED
    BY <2>1, <2>2
<1> HIDE DEF c, kinds
<1>5. DOMAIN x6 = {"run", "todo", "first"} /\ x6.run \in {"none", "on", "over"}
  BY <1>0 DEF Delivery!Shapes, Delivery!Stage
<1>6. /\ DOMAIN x6' = {"run", "todo", "first"} /\ x6'.run \in {"none", "on", "over"}
      /\ x6.run = "over" => x6'.run = "over"
      /\ x6'.run = "none" => x6.run = "none" /\ x6'.todo = <<>>
      /\ x6'.todo \in {c, <<>>}
      /\ x7 = "copying" => x6.run = "on" /\ x6.todo = <<>> /\ x6'.run = "over"
                           /\ Delivery(k)!BodyOver /\ x6'.todo = c
  <2>1. CASE Delivery(k)!ConverterEnds
    BY <1>5, <2>1 DEF Delivery!ConverterEnds, Delivery!Closed, c
  <2>2. CASE Delivery(k)!ConverterWriteFails
    BY <1>5, <2>2 DEF Delivery!ConverterWriteFails, Delivery!Closed
  <2> QED
    BY <2>1, <2>2
<1>7. /\ x6'.todo \in Seq(Delivery(k)!Items) /\ Texts(x6'.todo) = <<>> /\ Delivery(k)!LastOnly(x6'.todo)
      /\ Delivery(k)!Kinds(x6'.todo, kinds)
  <2>1. CASE x6'.todo = c
    BY <1>4, <2>1
  <2>2. CASE x6'.todo = <<>>
    BY <1>3, <2>2
  <2> QED
    BY <1>6, <2>1, <2>2
<1>8. Delivery(k)!Finished' = Delivery(k)!Finished /\ Delivery(k)!Final' = Delivery(k)!Final
      /\ (Delivery(k)!Halted => Delivery(k)!Halted')
  BY <1>1, <1>2, <1>6 DEF Delivery!Finished, Delivery!Final, Delivery!Halted
<1>9. x7 = "copying" =>
         /\ Delivery(k)!Converts /\ x5.todo = <<>> /\ Delivery(k)!Halted'
         /\ x4 # "open" /\ (x4 = "ended" => x3 = Len(x2))
  <2>1. ASSUME x7 = "copying"
        PROVE  /\ Delivery(k)!Converts /\ x5.todo = <<>> /\ Delivery(k)!Halted'
               /\ x4 # "open" /\ (x4 = "ended" => x3 = Len(x2))
    <3>1. Delivery(k)!Converts
      BY <1>0, <1>6, <2>1, StageRuns
    <3>2. CASE Delivery(k)!Translates
      <4>1. x5.run \in {"over", "failed"} /\ x5.todo = <<>>
        BY <1>6, <2>1, <3>2 DEF Delivery!BodyOver, Delivery!Over
      <4>2. Delivery(k)!Halted'
        BY <1>1, <1>2, <3>2, <4>1 DEF Delivery!Halted
      <4> QED
        BY <1>0, <2>1, <3>1, <4>1, <4>2 DEF Delivery!Stops
    <3>3. CASE ~ Delivery(k)!Translates
      <4>1. x5.todo = <<>>
        BY <1>0, <3>3 DEF Delivery!Shapes, Delivery!Stage
      <4>2. Delivery(k)!Halted'
        BY <1>2, <1>6, <2>1, <3>1, <3>3 DEF Delivery!Halted
      <4>3. Delivery(k)!UpstreamEnded \/ Delivery(k)!UpstreamBroken
        BY <1>6, <2>1, <3>3 DEF Delivery!BodyOver
      <4> QED
        BY <3>1, <4>1, <4>2, <4>3 DEF Delivery!UpstreamEnded, Delivery!UpstreamBroken
    <3> QED
      BY <3>2, <3>3
  <2> QED
    BY <2>1
<1>10. Delivery(k)!Shapes'
  <2>1. x7 \in {"copying", "returned"} /\ Delivery(k)!Converts
    <3>1. x6.run # "none"
      <4>1. x6.run = "none" => x6.todo = <<>>
        BY <1>0 DEF Delivery!Shapes
      <4> QED
        BY <4>1 DEF Delivery!ConverterEnds, Delivery!ConverterWriteFails
    <3> QED
      BY <1>0, <3>1, StageRuns
  <2>2. Delivery(k)!Stage(x6', {"none", "on", "over"})
    BY <1>6, <1>7 DEF Delivery!Stage
  <2>3. x7 = "copying" => x6'.run # "none"
    BY <1>6
  <2>4. Delivery(k)!Kinds(x6'.todo, IF x1.source \in {"anthropic", "responses"}
                             THEN {"start", "text", "output", "done"}
                             ELSE {"role", "text", "other", "usage", "finish", "done"})
    BY <1>7 DEF kinds
  <2> QED
    BY <1>0, <1>1, <1>2, <1>6, <1>7, <2>1, <2>2, <2>3, <2>4 DEF Delivery!Shapes
<1>11. Delivery(k)!InOrder'
  BY <1>0, <1>1 DEF Delivery!InOrder
<1>12. Delivery(k)!Flows'
  <2>1. x7 = "copying" => Delivery(k)!InFlight' = Delivery(k)!InFlight
    <3>1. x7 = "copying" => Texts(x6.todo) = <<>>
      BY <1>3, <1>6
    <3> QED
      BY <1>1, <1>7, <3>1, OwnTextIs DEF Delivery!InFlight
  <2> QED
    BY <1>0, <1>1, <1>2, <2>1 DEF Delivery!Flows, Delivery!Live
<1>13. Delivery(k)!Stops'
  <2>1. x7 = "copying" => Delivery(k)!ConverterDone'
    BY <1>6 DEF Delivery!ConverterDone
  <2> QED
    BY <1>0, <1>1, <1>8, <1>9, <2>1 DEF Delivery!Stops
<1>14. Delivery(k)!Ending'
  <2>1. x7 = "copying" /\ Delivery(k)!HasKind(x9, "done") => x6'.todo = <<>> /\ Delivery(k)!ConverterDone'
    <3>1. x7 = "copying" /\ Delivery(k)!HasKind(x9, "done") => ~ two
      BY <1>0, <1>6, <1>9 DEF Delivery!Ending, Delivery!ConverterDone
    <3>2. x7 = "copying" => Delivery(k)!ConverterDone'
      BY <1>6 DEF Delivery!ConverterDone
    <3> QED
      BY <1>4, <1>6, <3>1, <3>2
  <2>2. x7 = "copying" => Delivery(k)!Converts'
    BY <1>2, <1>9
  <2>3. Delivery(k)!HasKind(x9, "done") =>
          /\ Delivery(k)!LastOnly(x9) /\ Delivery(k)!OwnText(x9) = Delivery(k)!OwnText(SubSeq(x2, 1, x3))
          /\ Delivery(k)!Halted /\ (x7 = "copying" => x5.todo = <<>>)
    BY <1>0 DEF Delivery!Ending
  <2>4. x7 = "returned" /\ x8 = "there" /\ x10 = 200 /\ x9 # <<>>
        /\ x4 \in {"open", "ended"} =>
          /\ Delivery(k)!OwnText(x9) = Delivery(k)!OwnText(x2) /\ (x4 = "open" => Delivery(k)!Finished)
          /\ x1.source = "chat" => Delivery(k)!HasKind(x9, "done") = Delivery(k)!HasKind(x2, "done")
    BY <1>0 DEF Delivery!Ending
  <2> QED
    BY <1>1, <1>8, <2>1, <2>2, <2>3, <2>4 DEF Delivery!Ending
<1>15. Delivery(k)!Accounts'
  BY <1>0, <1>1, <1>2 DEF Delivery!Accounts
<1>16. Delivery(k)!ChargedOnce'
  BY <1>0, <1>1, <1>2 DEF Delivery!ChargedOnce
<1> QED
  BY <1>10, <1>11, <1>12, <1>13, <1>14, <1>15, <1>16 DEF Delivery!DeliveryInv

\* A piece of a body is collected.
LEMMA PieceCollected ==
    ASSUME NEW k, Delivery(k)!DeliveryInv, Delivery(k)!Collect
    PROVE  Delivery(k)!DeliveryInv'
<1>0. /\ Delivery(k)!Shapes /\ Delivery(k)!InOrder /\ Delivery(k)!Flows /\ Delivery(k)!Stops
      /\ Delivery(k)!Ending /\ Delivery(k)!Accounts /\ Delivery(k)!ChargedOnce
  BY DEF Delivery!DeliveryInv
<1>1. /\ x7 \in {"decoding", "reading"} /\ x3 < Len(x2) /\ x3' = x3 + 1
      /\ UNCHANGED <<x1, x2, x4, x5, x6, x7, x8, x9, x10, x11, x12>>
  BY DEF Delivery!Collect, Delivery!UpstreamHas
<1>2. /\ Delivery(k)!Translates' = Delivery(k)!Translates
      /\ Delivery(k)!Converts' = Delivery(k)!Converts
      /\ Delivery(k)!Chat' = Delivery(k)!Chat
  BY <1>1, SameAsk
<1>3. x9 = <<>> /\ x5 = Delivery(k)!NoStage /\ x7 \notin {"waiting", "copying", "returned"}
  BY <1>0, <1>1 DEF Delivery!Shapes
<1>4. x5.run = "none" /\ x5.todo = <<>>
  BY <1>3 DEF Delivery!NoStage
<1>5. ~ Delivery(k)!HasKind(<<>>, "done")
  BY PipeOfFew
<1>6. Delivery(k)!Shapes'
  <2>1. x3' \in 0 .. Len(x2')
    <3>1. x3 + 1 \in 1 .. Len(x2)
      BY <1>0, <1>1, OneMoreRead
    <3> QED
      BY <1>1, <3>1
  <2> QED
    BY <1>0, <1>1, <1>2, <2>1 DEF Delivery!Shapes
<1>7. Delivery(k)!InOrder'
  BY <1>0, <1>1 DEF Delivery!InOrder
<1>8. Delivery(k)!Flows'
  BY <1>1, <1>3 DEF Delivery!Flows
<1>9. Delivery(k)!Stops'
  BY <1>1, <1>3, <1>4, <1>5 DEF Delivery!Stops
<1>10. Delivery(k)!Ending'
  BY <1>1, <1>3, <1>5 DEF Delivery!Ending
<1>11. Delivery(k)!Accounts'
  BY <1>0, <1>1, <1>2 DEF Delivery!Accounts
<1>12. Delivery(k)!ChargedOnce'
  BY <1>0, <1>1, <1>2 DEF Delivery!ChargedOnce
<1> QED
  BY <1>6, <1>7, <1>8, <1>9, <1>10, <1>11, <1>12 DEF Delivery!DeliveryInv

\* The handler copies an item that it took from the last stage.
LEMMA ItemCopied ==
    ASSUME NEW k, Delivery(k)!DeliveryInv, NEW i \in Delivery(k)!Items,
           x7 = "copying", UNCHANGED <<x1, x2, x4, x7, x8, x10, x12>>,
           x9' = IF ~ Delivery(k)!Recorder /\ x8 = "gone" THEN x9 ELSE Append(x9, i),
           x11' = CASE i.kind = "usage" -> "full" [] i.kind = "output" -> "output" [] OTHER -> x11,
           /\ x3' \in 0 .. Len(x2)
           /\ Delivery(k)!Stage(x5', IF Delivery(k)!Translates THEN {"none", "on", "over", "failed"} ELSE {"none"})
           /\ Delivery(k)!Stage(x6', IF Delivery(k)!Converts THEN {"none", "on", "over"} ELSE {"none"})
           /\ Delivery(k)!Kinds(x5'.todo, {"role", "text", "finish", "done"}) /\ Delivery(k)!LastOnly(x5'.todo)
           /\ Delivery(k)!LastOnly(x6'.todo)
           /\ x5'.run = "none" => x5'.todo = <<>>
           /\ x6'.run = "none" => x6'.todo = <<>>
           /\ Delivery(k)!Kinds(x6'.todo, IF x1.source \in {"anthropic", "responses"}
                             THEN {"start", "text", "output", "done"}
                             ELSE {"role", "text", "other", "usage", "finish", "done"})
           /\ (Delivery(k)!Translates => x5'.run # "none") /\ (Delivery(k)!Converts => x6'.run # "none"),
           Delivery(k)!Stops',
           ~ Delivery(k)!HasKind(x9, "done"),
           Delivery(k)!Live =>
               ((Texts(x9) \o Alone(i)) \o Texts(x6'.todo)) \o Texts(x5'.todo) = Texts(SubSeq(x2, 1, x3')),
           i.kind = "done" =>
               x6'.todo = <<>> /\ x5'.todo = <<>> /\ Delivery(k)!Halted' /\ Delivery(k)!ConverterDone',
           Delivery(k)!Live /\ ~ Delivery(k)!Converts =>
               (i.kind = "done" \/ Delivery(k)!HasKind(x5'.todo, "done"))
                   = Delivery(k)!HasKind(SubSeq(x2, 1, x3'), "done"),
           i.kind = "usage" => x1.source \notin {"anthropic", "responses"} \/ ~ Delivery(k)!Converts,
           i.kind = "output" => x1.source \in {"anthropic", "responses"} /\ Delivery(k)!Converts
    PROVE  Delivery(k)!DeliveryInv'
<1>0. /\ Delivery(k)!Shapes /\ Delivery(k)!InOrder /\ Delivery(k)!Accounts /\ Delivery(k)!ChargedOnce
  BY DEF Delivery!DeliveryInv
<1>1. /\ Delivery(k)!Translates' = Delivery(k)!Translates
      /\ Delivery(k)!Converts' = Delivery(k)!Converts
      /\ Delivery(k)!Recorder' = Delivery(k)!Recorder
      /\ Delivery(k)!Chat' = Delivery(k)!Chat
  BY SameAsk
<1>2. /\ x9 \in Seq(Delivery(k)!Items) /\ x2 \in Seq(Delivery(k)!Items) /\ x8 \in {"there", "gone"}
      /\ x12 = <<>> /\ x11 \in {"none", "output", "full"}
  BY <1>0 DEF Delivery!Shapes, Delivery!Accounts
<1>3. Delivery(k)!Live' = Delivery(k)!Live /\ (Delivery(k)!Live \/ x9' = x9)
      /\ (Delivery(k)!Live => x9' = Append(x9, i))
  BY <1>1, <1>2 DEF Delivery!Live
<1>4. ASSUME Delivery(k)!Live
      PROVE  /\ x9' \in Seq(Delivery(k)!Items) /\ Texts(x9') = Texts(x9) \o Alone(i)
             /\ Len(x9') = Len(x9) + 1 /\ DOMAIN x9' = 1 .. Len(x9) + 1 /\ x9'[Len(x9) + 1] = i
             /\ \A n \in 1 .. Len(x9) : x9'[n] = x9[n]
  <2>1. x9' = Append(x9, i)
    BY <1>3, <1>4
  <2>2. Texts(x9') = Texts(x9) \o Alone(i)
    BY <1>2, <2>1, TextsOfMoved
  <2> QED
    BY <1>2, <2>1, <2>2
<1>5. x9' \in Seq(Delivery(k)!Items)
  BY <1>2, <1>3, <1>4
<1>6. DOMAIN x9 = 1 .. Len(x9) /\ Len(x9) \in Nat
      /\ \A n \in 1 .. Len(x9) + 1 : n \in 1 .. Len(x9) \/ n = Len(x9) + 1
  <2>1. DOMAIN x9 = 1 .. Len(x9) /\ Len(x9) \in Nat
    BY <1>2
  <2> QED
    BY <2>1
<1>7. \A w : Delivery(k)!HasKind(x9', w) =>
          Delivery(k)!HasKind(x9, w) \/ (Delivery(k)!Live /\ i.kind = w)
  BY <1>3, <1>4, <1>6 DEF Delivery!HasKind
<1>8. Delivery(k)!Live /\ i.kind = "done" => Delivery(k)!HasKind(x9', "done") /\ Delivery(k)!LastOnly(x9')
  <2>1. \A n \in 1 .. Len(x9) : x9[n].kind # "done"
    BY <1>6 DEF Delivery!HasKind
  <2>2. Len(x9) + 1 \in 1 .. Len(x9) + 1
    BY <1>6
  <2> QED
    BY <1>4, <1>6, <2>1, <2>2 DEF Delivery!HasKind, Delivery!LastOnly
<1>9. Delivery(k)!Live =>
          (Texts(x9') \o Texts(x6'.todo)) \o Texts(x5'.todo) = Texts(SubSeq(x2', 1, x3'))
  BY <1>4
<1>10. Texts(x6'.todo) \in Seq(Delivery(k)!Items) /\ Texts(x5'.todo) \in Seq(Delivery(k)!Items)
       /\ Texts(x9') \in Seq(Delivery(k)!Items) /\ Texts(<<>>) = <<>>
  BY <1>5, TextsAre, TextsOfFew DEF Delivery!Stage
<1>11. Delivery(k)!Shapes'
  BY <1>0, <1>1, <1>2, <1>5 DEF Delivery!Shapes
<1>12. Delivery(k)!InOrder'
  <2>1. CASE ~ Delivery(k)!Live
    BY <1>0, <1>3, <2>1 DEF Delivery!InOrder
  <2>2. CASE Delivery(k)!Live
    <3> DEFINE a == Texts(x9')
               b == Texts(x6'.todo) \o Texts(x5'.todo)
               c == Texts(SubSeq(x2, x3' + 1, Len(x2)))
    <3>1. a \in Seq(Delivery(k)!Items) /\ b \in Seq(Delivery(k)!Items) /\ c \in Seq(Delivery(k)!Items)
      <4>1. SubSeq(x2, x3' + 1, Len(x2)) \in Seq(Delivery(k)!Items)
        BY <1>2, TextsOfRest
      <4>2. c \in Seq(Delivery(k)!Items)
        BY <4>1, TextsAre
      <4> QED
        BY <1>10, <4>2
    <3>2. a \o b = Texts(SubSeq(x2, 1, x3'))
      <4>1. a \o b = (Texts(x9') \o Texts(x6'.todo)) \o Texts(x5'.todo)
        <5>1. /\ Texts(x9') \in Seq(Delivery(k)!Items) /\ Texts(x6'.todo) \in Seq(Delivery(k)!Items)
              /\ Texts(x5'.todo) \in Seq(Delivery(k)!Items)
          BY <1>10
        <5>2. (Texts(x9') \o Texts(x6'.todo)) \o Texts(x5'.todo) = Texts(x9') \o (Texts(x6'.todo) \o Texts(x5'.todo))
          <6>1. \A u, v, w \in Seq(Delivery(k)!Items) : (u \o v) \o w = u \o (v \o w)
            BY ConcatAssociative
          <6> QED
            BY <5>1, <6>1, Zenon
        <5> QED
          BY <5>2, Zenon
      <4> QED
        BY <1>9, <2>2, <4>1, Zenon
    <3>3. Texts(x2) = (a \o b) \o c
      BY <1>2, <3>2, TextsOfRest
    <3> HIDE DEF a, b, c
    <3>4. Len(a) \in 0 .. Len(Texts(x2)) /\ a = SubSeq(Texts(x2), 1, Len(a))
      BY <3>1, <3>3
    <3> QED
      BY <3>4, OwnTextIs DEF Delivery!InOrder, a
  <2> QED
    BY <2>1, <2>2
<1>13. Delivery(k)!Flows'
  BY <1>3, <1>9, OwnTextIs DEF Delivery!Flows, Delivery!InFlight
<1>14. Delivery(k)!Ending'
  <2>1. ASSUME Delivery(k)!HasKind(x9', "done")
        PROVE  /\ Delivery(k)!LastOnly(x9') /\ Texts(x9') = Texts(SubSeq(x2', 1, x3')) /\ Delivery(k)!Halted'
               /\ x5'.todo = <<>> /\ x6'.todo = <<>> /\ Delivery(k)!ConverterDone'
    <3>1. Delivery(k)!Live /\ i.kind = "done"
      BY <1>7, <2>1
    <3>2. x5'.todo = <<>> /\ x6'.todo = <<>> /\ Delivery(k)!Halted' /\ Delivery(k)!ConverterDone'
      BY <3>1
    <3>3. (Texts(x9') \o <<>>) \o <<>> = Texts(x9')
      BY <1>10
    <3> QED
      BY <1>8, <1>9, <1>10, <3>1, <3>2, <3>3
  <2>2. Delivery(k)!Live /\ ~ Delivery(k)!Converts =>
          (Delivery(k)!HasKind(x9', "done") \/ Delivery(k)!HasKind(x5'.todo, "done"))
              = Delivery(k)!HasKind(SubSeq(x2', 1, x3'), "done")
    <3>1. Delivery(k)!Live => (Delivery(k)!HasKind(x9', "done") <=> i.kind = "done")
      BY <1>7, <1>8
    <3>2. Delivery(k)!HasKind(x9', "done") \in BOOLEAN
      BY DEF Delivery!HasKind
    <3> QED
      BY <3>1, <3>2
  <2>3. x7' # "returned"
    OBVIOUS
  <2> QED
    BY <1>1, <1>3, <2>1, <2>2, <2>3, OwnTextIs DEF Delivery!Ending
<1>15. Delivery(k)!Accounts'
  <2>1. x11' \in {"none", "output", "full"}
    BY <1>2
  <2>2. Delivery(k)!HasKind(x9', "usage") => x1.source \notin {"anthropic", "responses"} \/ ~ Delivery(k)!Converts
    BY <1>0, <1>7 DEF Delivery!Accounts
  <2>3. Delivery(k)!HasKind(x9', "usage") => x11' = "full"
    <3>1. Delivery(k)!HasKind(x9', "usage") => Delivery(k)!HasKind(x9, "usage") \/ i.kind = "usage"
      BY <1>7
    <3>2. Delivery(k)!HasKind(x9, "usage") => x11 = "full"
      BY <1>0 DEF Delivery!Accounts
    <3>3. Delivery(k)!HasKind(x9', "usage") => i.kind # "output"
      BY <2>2
    <3> QED
      BY <3>1, <3>2, <3>3
  <2> QED
    BY <1>0, <1>1, <2>1, <2>2, <2>3 DEF Delivery!Accounts
<1>16. Delivery(k)!ChargedOnce'
  <2>1. x12' = <<>> /\ x7' # "returned" /\ Len(<<>>) = 0 /\ \A n \in 1 .. Len(<<>>) : FALSE
    BY <1>2
  <2> QED
    BY <2>1 DEF Delivery!ChargedOnce
<1> QED
  BY <1>11, <1>12, <1>13, <1>14, <1>15, <1>16 DEF Delivery!DeliveryInv

LEMMA HandlerCopies ==
    ASSUME NEW k, Delivery(k)!DeliveryInv, Delivery(k)!Copy
    PROVE  Delivery(k)!DeliveryInv'
<1>0. /\ Delivery(k)!Shapes /\ Delivery(k)!InOrder /\ Delivery(k)!Flows /\ Delivery(k)!Stops
      /\ Delivery(k)!Ending /\ Delivery(k)!Accounts /\ Delivery(k)!ChargedOnce
  BY DEF Delivery!DeliveryInv
<1> DEFINE i == Delivery(k)!NextOfCopy
           two == x1.source \in {"anthropic", "responses"}
<1>1. /\ x7 = "copying" /\ Delivery(k)!CopyHas /\ Delivery(k)!TakeOfCopy
      /\ x11' = CASE i.kind = "usage" -> "full" [] i.kind = "output" -> "output" [] OTHER -> x11
      /\ x9' = IF ~ Delivery(k)!Recorder /\ x8 = "gone" THEN x9 ELSE Append(x9, i)
      /\ UNCHANGED <<x1, x2, x4, x7, x8, x10, x12>>
  BY DEF Delivery!Copy, Delivery!Seen
<1>2. /\ Delivery(k)!Translates' = Delivery(k)!Translates
      /\ Delivery(k)!Converts' = Delivery(k)!Converts
      /\ Delivery(k)!Recorder' = Delivery(k)!Recorder
      /\ Delivery(k)!Chat' = Delivery(k)!Chat
  BY <1>1, SameAsk
<1>3. /\ x9 \in Seq(Delivery(k)!Items) /\ Texts(x9) \in Seq(Delivery(k)!Items)
      /\ x5.todo \in Seq(Delivery(k)!Items) /\ Texts(x5.todo) \in Seq(Delivery(k)!Items)
  <2>1. x9 \in Seq(Delivery(k)!Items) /\ x5.todo \in Seq(Delivery(k)!Items)
    BY <1>0 DEF Delivery!Shapes, Delivery!Stage
  <2> QED
    BY <2>1, TextsAre
<1>4. Delivery(k)!Live =>
          (Texts(x9) \o Texts(x6.todo)) \o Texts(x5.todo) = Texts(SubSeq(x2, 1, x3))
  BY <1>0, <1>1, OwnTextIs DEF Delivery!Flows, Delivery!InFlight
<1>5. CASE Delivery(k)!Converts
  <2> DEFINE s == x6.todo
             t == Tail(s)
  <2>1. /\ s # <<>> /\ i = Head(s) /\ UNCHANGED <<x3, x5>> /\ x6' = [x6 EXCEPT !.todo = Tail(@)]
    BY <1>1, <1>5 DEF Delivery!CopyHas, Delivery!Has, Delivery!NextOfCopy, Delivery!TakeOfCopy
  <2>2. /\ s \in Seq(Delivery(k)!Items) /\ Len(s) \in Nat /\ DOMAIN s = 1 .. Len(s) /\ Delivery(k)!LastOnly(s)
        /\ Delivery(k)!Kinds(s, IF two THEN {"start", "text", "output", "done"}
                                ELSE {"role", "text", "other", "usage", "finish", "done"})
        /\ DOMAIN x6 = {"run", "todo", "first"} /\ x6.run \in {"none", "on", "over"}
        /\ x6.run = "none" => s = <<>>
    BY <1>0, <1>5 DEF Delivery!Shapes, Delivery!Stage
  <2>3. x6'.run = x6.run /\ x6'.todo = t /\ DOMAIN x6' = {"run", "todo", "first"} /\ x6.run # "none"
    BY <2>1, <2>2
  <2> HIDE DEF s
  <2>4. /\ i = s[1] /\ 1 \in DOMAIN s /\ t \in Seq(Delivery(k)!Items)
        /\ Len(t) = Len(s) - 1 /\ DOMAIN t = 1 .. Len(s) - 1 /\ \A n \in 1 .. Len(s) - 1 : t[n] = s[n + 1]
        /\ Len(s) = 1 => t = <<>>
    BY <2>1, <2>2
  <2>5. \A n \in 1 .. Len(s) - 1 : n + 1 \in 1 .. Len(s) /\ (n + 1 = Len(s) => n = Len(s) - 1)
    <3>1. Len(s) \in Nat
      BY <2>2
    <3> QED
      BY <3>1
  <2>6. Texts(s) = Alone(i) \o Texts(t) /\ Texts(t) \in Seq(Delivery(k)!Items)
    BY <2>1, <2>2, <2>4, TextsOfMoved, TextsAre
  <2> HIDE DEF t, i
  <2>7. /\ i \in Delivery(k)!Items
        /\ i.kind \in (IF two THEN {"start", "text", "output", "done"}
                       ELSE {"role", "text", "other", "usage", "finish", "done"})
    BY <2>2, <2>4 DEF Delivery!Kinds
  <2>8. /\ Delivery(k)!Kinds(t, IF two THEN {"start", "text", "output", "done"}
                                ELSE {"role", "text", "other", "usage", "finish", "done"})
        /\ Delivery(k)!LastOnly(t)
        /\ Delivery(k)!HasKind(t, "done") => Delivery(k)!HasKind(s, "done")
        /\ i.kind = "done" => t = <<>> /\ Delivery(k)!HasKind(s, "done")
    <3> DEFINE kinds == IF two THEN {"start", "text", "output", "done"}
                               ELSE {"role", "text", "other", "usage", "finish", "done"}
    <3>1. Delivery(k)!Kinds(s, kinds) => Delivery(k)!Kinds(t, kinds)
      <4> HIDE DEF kinds
      <4> QED
        BY <2>2, <2>4, <2>5 DEF Delivery!Kinds
    <3>2. Delivery(k)!LastOnly(t)
      <4>1. ASSUME NEW n \in DOMAIN t, t[n].kind = "done" PROVE n = Len(t)
        <5>1. n + 1 \in DOMAIN s /\ s[n + 1].kind = "done" /\ (n + 1 = Len(s) => n = Len(s) - 1)
          BY <2>2, <2>4, <2>5, <4>1
        <5>2. n + 1 = Len(s)
          BY <2>2, <5>1 DEF Delivery!LastOnly
        <5> QED
          BY <2>4, <5>1, <5>2
      <4> QED
        BY <4>1 DEF Delivery!LastOnly
    <3>3. Delivery(k)!HasKind(t, "done") => Delivery(k)!HasKind(s, "done")
      BY <2>2, <2>4, <2>5 DEF Delivery!HasKind
    <3>4. i.kind = "done" => t = <<>> /\ Delivery(k)!HasKind(s, "done")
      BY <2>2, <2>4 DEF Delivery!LastOnly, Delivery!HasKind
    <3> QED
      BY <2>2, <3>1, <3>2, <3>3, <3>4
  <2>9. ~ Delivery(k)!HasKind(x9, "done")
    BY <1>0, <1>1, <2>1 DEF Delivery!Ending, s
  <2>10. Delivery(k)!Finished' = Delivery(k)!Finished /\ Delivery(k)!Final' = Delivery(k)!Final
         /\ Delivery(k)!Halted' = Delivery(k)!Halted /\ Delivery(k)!ConverterDone' = Delivery(k)!ConverterDone
    BY <1>1, <1>2, <2>1, <2>3 DEF Delivery!Finished, Delivery!Final, Delivery!Halted, Delivery!ConverterDone
  <2>11. Delivery(k)!Stops'
    BY <1>0, <1>1, <2>1, <2>3, <2>8, <2>10 DEF Delivery!Stops, s
  <2>12. Delivery(k)!Live =>
             ((Texts(x9) \o Alone(i)) \o Texts(x6'.todo)) \o Texts(x5'.todo) = Texts(SubSeq(x2, 1, x3'))
    <3>1. Alone(i) \in Seq(Delivery(k)!Items)
      BY <2>7 DEF Alone
    <3>2. (Texts(x9) \o Alone(i)) \o Texts(t) = Texts(x9) \o Texts(s)
      <4>1. (Texts(x9) \o Alone(i)) \o Texts(t) = Texts(x9) \o (Alone(i) \o Texts(t))
        <5>1. \A u, v, w \in Seq(Delivery(k)!Items) : (u \o v) \o w = u \o (v \o w)
          BY ConcatAssociative
        <5> QED
          BY <1>3, <2>6, <3>1, <5>1, ZenonT(60)
      <4> QED
        BY <2>6, <4>1, Zenon
    <3> QED
      BY <1>4, <2>1, <2>3, <3>2 DEF s
  <2>13. i.kind = "done" =>
             x6'.todo = <<>> /\ x5'.todo = <<>> /\ Delivery(k)!Halted' /\ Delivery(k)!ConverterDone'
    BY <1>0, <1>1, <2>1, <2>3, <2>8, <2>10 DEF Delivery!Stops, s
  <2>14. /\ x3' \in 0 .. Len(x2)
         /\ Delivery(k)!Stage(x5', IF Delivery(k)!Translates THEN {"none", "on", "over", "failed"} ELSE {"none"})
         /\ Delivery(k)!Kinds(x5'.todo, {"role", "text", "finish", "done"}) /\ Delivery(k)!LastOnly(x5'.todo)
         /\ x5'.run = "none" => x5'.todo = <<>>
         /\ (Delivery(k)!Translates => x5'.run # "none")
    BY <1>0, <1>1, <2>1 DEF Delivery!Shapes
  <2>15. /\ Delivery(k)!Stage(x6', IF Delivery(k)!Converts THEN {"none", "on", "over"} ELSE {"none"})
         /\ Delivery(k)!LastOnly(x6'.todo) /\ x6'.run # "none"
         /\ Delivery(k)!Kinds(x6'.todo, IF x1.source \in {"anthropic", "responses"}
                             THEN {"start", "text", "output", "done"}
                             ELSE {"role", "text", "other", "usage", "finish", "done"})
    BY <1>5, <2>2, <2>3, <2>4, <2>8 DEF Delivery!Stage
  <2>16. /\ i.kind = "usage" => ~ two
         /\ i.kind = "output" => two
    BY <2>7
  <2> HIDE DEF two
  <2> QED
    BY <1>1, <1>5, <2>7, <2>9, <2>11, <2>12, <2>13, <2>14, <2>15, <2>16, ItemCopied, SMTT(60) DEF two
<1>6. CASE ~ Delivery(k)!Converts
  <2>1. Delivery(k)!BodyHas /\ Delivery(k)!TakeOfBody /\ i = Delivery(k)!NextOfBody /\ UNCHANGED x6
    BY <1>1, <1>6 DEF Delivery!CopyHas, Delivery!NextOfCopy, Delivery!TakeOfCopy
  <2> HIDE DEF i
  <2>2. /\ i \in Delivery(k)!Items
        /\ i.kind \in (IF Delivery(k)!Translates THEN {"role", "text", "finish", "done"}
                                                 ELSE {"text", "other", "usage", "done"})
        /\ x3' \in 0 .. Len(x2)
        /\ DOMAIN x5' = {"run", "todo", "first"} /\ x5'.run = x5.run /\ x5'.todo \in Seq(Delivery(k)!Items)
        /\ Delivery(k)!Kinds(x5'.todo, {"role", "text", "finish", "done"}) /\ Delivery(k)!LastOnly(x5'.todo)
        /\ ~ Delivery(k)!HasKind(x5'.todo, "done")
        /\ x5.run = "none" => x5'.todo = <<>>
        /\ Delivery(k)!Translates => x5.todo # <<>> /\ x3' = x3
        /\ ~ Delivery(k)!Translates => ~ Delivery(k)!Final /\ x5.run = "none"
        /\ i.kind = "done" => x5'.todo = <<>> /\ x3' = Len(x2) /\ Delivery(k)!Finished
    BY <1>0, <1>1, <2>1, BodyTaken
  <2>3. \A t \in Seq(Delivery(k)!Items) :
            t \o Texts(x5.todo) = Texts(SubSeq(x2, 1, x3)) =>
            (t \o Alone(i)) \o Texts(x5'.todo) = Texts(SubSeq(x2, 1, x3'))
    BY <1>0, <1>1, <2>1, BodyTaken
  <2>4. Delivery(k)!HasKind(x5.todo, "done") = Delivery(k)!HasKind(SubSeq(x2, 1, x3), "done") =>
            (i.kind = "done" \/ Delivery(k)!HasKind(x5'.todo, "done"))
                = Delivery(k)!HasKind(SubSeq(x2, 1, x3'), "done")
    BY <1>0, <1>1, <2>1, BodyTaken
  <2>5. x6.run = "none" /\ x6.todo = <<>> /\ Texts(<<>>) = <<>> /\ ~ Delivery(k)!HasKind(<<>>, "done")
    <3>1. x6.run = "none" /\ x6.todo = <<>>
      BY <1>0, <1>6 DEF Delivery!Shapes, Delivery!Stage
    <3>2. Texts(<<>>) = <<>> /\ ~ Delivery(k)!HasKind(<<>>, "done")
      BY PipeOfFew
    <3> QED
      BY <3>1, <3>2
  <2>6. ~ Delivery(k)!HasKind(x9, "done")
    <3>1. ASSUME Delivery(k)!HasKind(x9, "done") PROVE FALSE
      <4>1. Delivery(k)!Halted /\ x5.todo = <<>>
        BY <1>0, <1>1, <3>1 DEF Delivery!Ending
      <4>2. ~ Delivery(k)!Translates
        BY <2>2, <4>1
      <4> QED
        BY <1>6, <2>2, <4>1, <4>2 DEF Delivery!Halted
    <3> QED
      BY <3>1
  <2>7. Delivery(k)!Finished' = Delivery(k)!Finished
        /\ (i.kind = "done" => Delivery(k)!Final' /\ Delivery(k)!Halted')
    BY <1>1, <1>2, <2>2 DEF Delivery!Finished, Delivery!Final, Delivery!Halted
  <2>8. Delivery(k)!ConverterDone'
    BY <1>2, <1>6 DEF Delivery!ConverterDone
  <2>9. Delivery(k)!Stops'
    <3>1. x5'.run \in {"over", "failed"} =>
            x4' # "open" /\ (x7' = "copying" /\ x4' = "ended" => x3' = Len(x2'))
      <4>1. x5.run \in {"over", "failed"} => Delivery(k)!Translates
        BY <2>2
      <4>2. x5.run \in {"over", "failed"} => x4 # "open" /\ (x7 = "copying" /\ x4 = "ended" => x3 = Len(x2))
        BY <1>0 DEF Delivery!Stops
      <4> QED
        BY <1>1, <2>2, <4>1, <4>2
    <3> QED
      BY <2>1, <2>2, <2>5, <3>1 DEF Delivery!Stops
  <2>10. Delivery(k)!Live =>
             ((Texts(x9) \o Alone(i)) \o Texts(x6'.todo)) \o Texts(x5'.todo) = Texts(SubSeq(x2, 1, x3'))
    <3>1. Alone(i) \in Seq(Delivery(k)!Items)
      BY <2>2 DEF Alone
    <3>2. Texts(x9) \o <<>> = Texts(x9) /\ (Texts(x9) \o Alone(i)) \o <<>> = Texts(x9) \o Alone(i)
      BY <1>3, <3>1
    <3>3. Texts(x6.todo) = <<>> /\ Texts(x6'.todo) = <<>>
      BY <2>1, <2>5
    <3>4. Delivery(k)!Live => Texts(x9) \o Texts(x5.todo) = Texts(SubSeq(x2, 1, x3))
      BY <1>4, <3>2, <3>3
    <3>5. Delivery(k)!Live => (Texts(x9) \o Alone(i)) \o Texts(x5'.todo) = Texts(SubSeq(x2, 1, x3'))
      BY <1>3, <2>3, <3>4
    <3> QED
      BY <3>2, <3>3, <3>5
  <2>11. Delivery(k)!Live =>
             (i.kind = "done" \/ Delivery(k)!HasKind(x5'.todo, "done"))
                 = Delivery(k)!HasKind(SubSeq(x2, 1, x3'), "done")
    <3>1. Delivery(k)!Live => (Delivery(k)!HasKind(x9, "done") \/ Delivery(k)!HasKind(x5.todo, "done"))
                                  = Delivery(k)!HasKind(SubSeq(x2, 1, x3), "done")
      BY <1>0, <1>1, <1>6 DEF Delivery!Ending
    <3>2. Delivery(k)!HasKind(x5.todo, "done") \in BOOLEAN
      BY DEF Delivery!HasKind
    <3> QED
      BY <2>4, <2>6, <3>1, <3>2
  <2>12. i.kind = "done" =>
             x6'.todo = <<>> /\ x5'.todo = <<>> /\ Delivery(k)!Halted' /\ Delivery(k)!ConverterDone'
    BY <2>1, <2>2, <2>5, <2>7, <2>8
  <2>13. /\ Delivery(k)!Stage(x5', IF Delivery(k)!Translates THEN {"none", "on", "over", "failed"} ELSE {"none"})
         /\ x5'.run = "none" => x5'.todo = <<>>
         /\ (Delivery(k)!Translates => x5'.run # "none")
    BY <1>0, <1>1, <2>2 DEF Delivery!Shapes, Delivery!Stage
  <2>14. /\ Delivery(k)!Stage(x6', IF Delivery(k)!Converts THEN {"none", "on", "over"} ELSE {"none"})
         /\ Delivery(k)!LastOnly(x6'.todo) /\ (x6'.run = "none" => x6'.todo = <<>>)
         /\ Delivery(k)!Kinds(x6'.todo, IF x1.source \in {"anthropic", "responses"}
                             THEN {"start", "text", "output", "done"}
                             ELSE {"role", "text", "other", "usage", "finish", "done"})
    BY <1>0, <2>1 DEF Delivery!Shapes
  <2>15. i.kind # "output"
    BY <2>2
  <2> QED
    BY <1>1, <1>6, <2>2, <2>6, <2>9, <2>10, <2>11, <2>12, <2>13, <2>14, <2>15, ItemCopied, SMTT(60)
<1> QED
  BY <1>5, <1>6

\* What reaches the client is whole.
LEMMA WholeAnswer ==
    ASSUME NEW k, Delivery(k)!DeliveryInv PROVE Delivery(k)!AnswerIsWhole
<1>0. /\ Delivery(k)!Shapes /\ Delivery(k)!InOrder /\ Delivery(k)!Ending /\ Delivery(k)!ChargedOnce
  BY DEF Delivery!DeliveryInv
<1>1. DOMAIN x9 = 1 .. Len(x9) /\ DOMAIN x2 = 1 .. Len(x2)
  <2>1. x9 \in Seq(Delivery(k)!Items) /\ x2 \in Seq(Delivery(k)!Items)
    BY <1>0 DEF Delivery!Shapes
  <2> QED
    BY <2>1
<1>2. Delivery(k)!DoneIsLast
  <2>1. ASSUME NEW n \in 1 .. Len(x9), x9[n].kind = "done"
        PROVE  n = Len(x9) /\ Delivery(k)!OwnText(x9) = Delivery(k)!OwnText(SubSeq(x2, 1, x3))
    <3>1. Delivery(k)!HasKind(x9, "done")
      BY <1>1, <2>1 DEF Delivery!HasKind
    <3>2. Delivery(k)!LastOnly(x9) /\ Delivery(k)!OwnText(x9) = Delivery(k)!OwnText(SubSeq(x2, 1, x3))
      BY <1>0, <3>1 DEF Delivery!Ending
    <3> QED
      BY <1>1, <2>1, <3>2 DEF Delivery!LastOnly
  <2> QED
    BY <2>1 DEF Delivery!DoneIsLast
<1>3. Delivery(k)!Whole
  <2>1. x7 = "returned" /\ x8 = "there" /\ x4 = "ended" /\ x10 = 200 /\ x9 # <<>> =>
           /\ Delivery(k)!OwnText(x9) = Delivery(k)!OwnText(x2)
           /\ x1.source = "chat" => Delivery(k)!HasKind(x9, "done") = Delivery(k)!HasKind(x2, "done")
    BY <1>0 DEF Delivery!Ending
  <2> QED
    BY <1>1, <2>1 DEF Delivery!Whole, Delivery!HasKind
<1> QED
  BY <1>0, <1>2, <1>3 DEF Delivery!AnswerIsWhole

\* Every step of the upstream, the translator, the converter, the handler and
\* the client keeps the answer in order.
LEMMA AnswerStep ==
    ASSUME NEW k, Delivery(k)!DeliveryInv, [Delivery(k)!Next]_(Delivery(k)!vars)
    PROVE  Delivery(k)!DeliveryInv'
<1>1. CASE Delivery(k)!UpstreamSends
  BY <1>1, UpstreamSent
<1>2. CASE \/ Delivery(k)!UpstreamEnds \/ Delivery(k)!UpstreamCuts \/ Delivery(k)!ClientLeaves
           \/ UNCHANGED Delivery(k)!vars
  BY <1>2, UpstreamGoes DEF Delivery!UpstreamEnds, Delivery!UpstreamCuts, Delivery!ClientLeaves, Delivery!vars
<1>3. CASE Delivery(k)!Refuse \/ Delivery(k)!RespondFails
  BY <1>3, UpstreamRefuses
<1>4. CASE Delivery(k)!Respond
  BY <1>4, UpstreamResponds
<1>5. CASE Delivery(k)!TranslatorStep
  BY <1>5, TranslatorHasRead, TranslatorStopped DEF Delivery!TranslatorStep
<1>6. CASE Delivery(k)!ConverterStep
  BY <1>6, ConverterHasRead, ConverterHasEnded DEF Delivery!ConverterStep
<1>7. CASE Delivery(k)!HandlerStep
  BY <1>7, PieceCollected, BodyCollected, HandlerCopies, CopyStops DEF Delivery!HandlerStep
<1> QED
  BY <1>1, <1>2, <1>3, <1>4, <1>5, <1>6, <1>7 DEF Delivery!Next

\* An answer reaches its client whole and is charged once, whatever is asked
\* and however much the upstream sends.
THEOREM AnswersArrive ==
    ASSUME NEW k
    PROVE  Delivery(k)!Init /\ [][Delivery(k)!Next]_(Delivery(k)!vars) => []Delivery(k)!AnswerIsWhole
<1>1. Delivery(k)!Init => Delivery(k)!DeliveryInv
  BY AnswerStart
<1>2. Delivery(k)!DeliveryInv /\ [Delivery(k)!Next]_(Delivery(k)!vars) => Delivery(k)!DeliveryInv'
  BY AnswerStep
<1>3. Delivery(k)!DeliveryInv => Delivery(k)!AnswerIsWhole
  BY WholeAnswer
<1> QED
  BY <1>1, <1>2, <1>3, PTL

-----------------------------------------------------------------------------
\* What the desktop's proxy intercepts, for any hosts, targets, edits and
\* connections. Of the pool x1 .. x18 are runs, up, running, rules, file,
\* dynamic, cache, edit, edits, stored, gateway, proxy, reset, conn, test,
\* asked, odd and fetched.

\* Hosts are named, and the targets' are among them.
LEMMA HostsKnown ==
    ASSUME NEW k, Intercepting(k)!ConstantsOK, Intercepting(k)!TypeOK
    PROVE  /\ "" \notin Intercepting(k)!Hosts
           /\ Intercepting(k)!SupportedHosts \subseteq Intercepting(k)!Hosts
           /\ Intercepting(k)!DefaultBaseDomains \subseteq Intercepting(k)!Hosts
           /\ k.vendors \cup UNION {t.hosts : t \in {u \in k.targets : u.viability = "supported"}}
                  \subseteq Intercepting(k)!Hosts
<1>1. "" \notin Intercepting(k)!Hosts
  BY DEF Intercepting!Hosts
<1>2. x6 \subseteq UNION (k.offered \cup {k.targets})
          /\ k.targets \subseteq UNION (k.offered \cup {k.targets})
  BY DEF Intercepting!TypeOK, Intercepting!EditTypes
<1>3. Intercepting(k)!MergedTargets \subseteq UNION (k.offered \cup {k.targets})
  BY <1>2 DEF Intercepting!MergedTargets
<1>4. Intercepting(k)!SupportedHosts \subseteq Intercepting(k)!Hosts
  BY <1>3 DEF Intercepting!ConstantsOK, Intercepting!SupportedHosts
<1>5. k.vendors \cup UNION {t.hosts : t \in {u \in k.targets : u.viability = "supported"}}
          \subseteq Intercepting(k)!Hosts
  BY <1>2 DEF Intercepting!ConstantsOK
<1> QED
  BY <1>1, <1>4, <1>5 DEF Intercepting!ConstantsOK, Intercepting!DefaultBaseDomains

LEMMA InterceptStarts ==
    ASSUME NEW k, Intercepting(k)!ConstantsOK, Intercepting(k)!Init
    PROVE  Intercepting(k)!InterceptInv
<1>1. Intercepting(k)!TypeOK
  <2>1. k.edits \in Nat /\ k.tokens \in Nat /\ k.runs \in Nat
    BY DEF Intercepting!ConstantsOK
  <2>2. x1 \in 0 .. k.runs /\ x9 \in 0 .. k.edits /\ x10 \in 0 .. k.tokens
        /\ x11 \in 0 .. k.tokens /\ x12 \in 0 .. k.tokens
    <3>1. x1 = 0 /\ x9 = 0 /\ x10 = 0 /\ x11 = 0 /\ x12 = 0
      BY DEF Intercepting!Init
    <3> QED
      BY <2>1, <3>1
  <2>3. x2 \in BOOLEAN /\ x3 \in BOOLEAN /\ x18 \in BOOLEAN
    BY DEF Intercepting!Init
  <2>4. /\ x4 \in [base : SUBSET Intercepting(k)!Hosts, added : SUBSET Intercepting(k)!Hosts,
                  removed : SUBSET Intercepting(k)!Hosts]
        /\ x5 \in [form : {"absent", "torn", "whole"}, added : SUBSET Intercepting(k)!Hosts,
                  removed : SUBSET Intercepting(k)!Hosts]
        /\ x6 \in k.offered \cup {{}}
        /\ x7 \in [form : {"absent", "torn", "whole"}, targets : k.offered \cup {{}}]
    BY DEF Intercepting!Init, Intercepting!NoRules, Intercepting!NoTargets
  <2> QED
    BY <2>2, <2>3, <2>4 DEF Intercepting!Init, Intercepting!TypeOK, Intercepting!EditTypes,
           Intercepting!TokenTypes, Intercepting!TrafficTypes
<1>3. Intercepting(k)!EndsClean
  BY DEF Intercepting!Init, Intercepting!EndsClean, Intercepting!Unsaved
<1>4. Intercepting(k)!EditsKept
  BY DEF Intercepting!Init, Intercepting!EditsKept, Intercepting!Unsaved, Intercepting!NoRules
<1>5. Intercepting(k)!BaselineKnows /\ Intercepting(k)!TokensFollow /\ Intercepting(k)!TestIsRecent
  BY DEF Intercepting!Init, Intercepting!BaselineKnows, Intercepting!TokensFollow,
     Intercepting!TestIsRecent, Intercepting!TestTellsTruth, Intercepting!Idle
<1> QED
  BY <1>1, <1>3, <1>4, <1>5 DEF Intercepting!InterceptInv

\* What does not touch the edits, or forgets some of them, keeps the others.
LEMMA EditsLeftAlone ==
    ASSUME NEW k, Intercepting(k)!EditsKept, UNCHANGED <<x4, x5, x8, x16>>, x17 \subseteq x17', x3'
               => x3
    PROVE  Intercepting(k)!EditsKept'
<1>1. Intercepting(k)!Unsaved' = Intercepting(k)!Unsaved
  BY DEF Intercepting!Unsaved
<1> QED
  BY <1>1 DEF Intercepting!EditsKept, Intercepting!AsAsked

\* An edit is in the rules as it was asked, and is not yet saved.
LEMMA EditsEdited ==
    ASSUME NEW k, NEW e \in k.calls, NEW name \in DOMAIN k.normal,
           Intercepting(k)!TypeOK, Intercepting(k)!EditsKept,
           Intercepting(k)!AddRule(e, name) \/ Intercepting(k)!RemoveRule(e, name)
    PROVE  Intercepting(k)!EditsKept'
<1> DEFINE h == k.normal[name]
<1>1. /\ h \in Intercepting(k)!Hosts /\ h # "" /\ x8[e] = ""
      /\ \/ x4' = [x4 EXCEPT !.added = x4.added \cup {h}, !.removed = x4.removed \ {h}]
             /\ x16' = [x16 EXCEPT ![h] = "add"]
         \/ x4' = [x4 EXCEPT !.added = x4.added \ {h}, !.removed = x4.removed \cup {h}]
                /\ x16' = [x16 EXCEPT ![h] = "remove"]
      /\ x8' = [x8 EXCEPT ![e] = h] /\ x17' = x17 \ {h} /\ x3' = x3 /\ x5' = x5
  BY DEF Intercepting!AddRule, Intercepting!RemoveRule, Intercepting!Edited, Intercepting!Hosts,
         Intercepting!NoEdit,
     Intercepting!disk
<1> HIDE DEF h
<1>0. /\ x4 \in [base : SUBSET Intercepting(k)!Hosts, added : SUBSET Intercepting(k)!Hosts,
                 removed : SUBSET Intercepting(k)!Hosts]
      /\ x8 \in [k.calls -> Intercepting(k)!Hosts \cup {""}]
      /\ x16 \in [Intercepting(k)!Hosts -> {"nothing", "add", "remove"}]
  BY DEF Intercepting!TypeOK, Intercepting!EditTypes, Intercepting!NoEdit
<1>2. Intercepting(k)!Unsaved' = Intercepting(k)!Unsaved \cup {h}
  <2>1. Intercepting(k)!Unsaved = {x8[d] : d \in k.calls} \ {""}
    BY DEF Intercepting!Unsaved, Intercepting!NoEdit
  <2>2. Intercepting(k)!Unsaved' = {x8'[d] : d \in k.calls} \ {""}
    BY DEF Intercepting!Unsaved, Intercepting!NoEdit
  <2>3. x8'[e] = h /\ \A d \in k.calls : d # e => x8'[d] = x8[d]
    BY <1>0, <1>1
  <2>4. \A g : g \in {x8'[d] : d \in k.calls} \ {""} => g \in ({x8[d] : d \in k.calls} \ {""}) \cup {h}
    BY <2>3
  <2>5. \A g : g \in {x8[d] : d \in k.calls} \ {""} => g \in {x8'[d] : d \in k.calls} \ {""}
    <3>1. x8[e] = ""
      BY <1>1
    <3> QED
      BY <2>3, <3>1
  <2>6. h \in {x8'[d] : d \in k.calls} \ {""}
    BY <1>1, <2>3
  <2> QED
    BY <2>1, <2>2, <2>4, <2>5, <2>6
<1>3. x4'.added \cap x4'.removed = {} /\ x5'.added \cap x5'.removed = {}
  <2>1. x4.added \cap x4.removed = {} /\ x5.added \cap x5.removed = {}
    BY DEF Intercepting!EditsKept
  <2>2. \/ x4'.added = x4.added \cup {h} /\ x4'.removed = x4.removed \ {h}
        \/ x4'.added = x4.added \ {h} /\ x4'.removed = x4.removed \cup {h}
    BY <1>0, <1>1
  <2> QED
    BY <1>1, <2>1, <2>2
<1>4. x16'[h] \in {"add", "remove"} /\ Intercepting(k)!AsAsked(h, x4)'
  <2>1. CASE /\ x4' = [x4 EXCEPT !.added = x4.added \cup {h}, !.removed = x4.removed \ {h}]
             /\ x16' = [x16 EXCEPT ![h] = "add"]
    <3>1. x16'[h] = "add" /\ h \in x4'.added
      BY <1>0, <1>1, <2>1
    <3> QED
      BY <3>1 DEF Intercepting!AsAsked
  <2>2. CASE /\ x4' = [x4 EXCEPT !.added = x4.added \ {h}, !.removed = x4.removed \cup {h}]
             /\ x16' = [x16 EXCEPT ![h] = "remove"]
    <3>1. x16'[h] = "remove" /\ h \in x4'.removed
      BY <1>0, <1>1, <2>2
    <3> QED
      BY <3>1 DEF Intercepting!AsAsked
  <2> QED
    BY <1>1, <2>1, <2>2
<1>5. ASSUME NEW g \in Intercepting(k)!Hosts, g # h
      PROVE  /\ x16'[g] = x16[g] /\ (g \in x4'.added <=> g \in x4.added)
             /\ (g \in x4'.removed <=> g \in x4.removed)
  <2>1. x16'[g] = x16[g]
    BY <1>0, <1>1, <1>5
  <2>2. CASE x4' = [x4 EXCEPT !.added = x4.added \cup {h}, !.removed = x4.removed \ {h}]
    BY <1>0, <1>5, <2>1, <2>2
  <2>3. CASE x4' = [x4 EXCEPT !.added = x4.added \ {h}, !.removed = x4.removed \cup {h}]
    BY <1>0, <1>5, <2>1, <2>3
  <2> QED
    BY <1>1, <2>2, <2>3
<1>6. ASSUME NEW g \in Intercepting(k)!Hosts \ x17', g # h
      PROVE  /\ x3' \/ g \in Intercepting(k)!Unsaved' => Intercepting(k)!AsAsked(g, x4)'
             /\ g \in Intercepting(k)!Unsaved' \/ x16'[g] = "nothing"
                    \/ (x5'.form = "whole" /\ Intercepting(k)!AsAsked(g, x5)')
  BY <1>1, <1>2, <1>5, <1>6 DEF Intercepting!EditsKept, Intercepting!AsAsked
<1>7. Intercepting(k)!Hosts' = Intercepting(k)!Hosts
  BY DEF Intercepting!Hosts
<1> QED
  BY <1>2, <1>3, <1>4, <1>6, <1>7 DEF Intercepting!EditsKept

\* A save writes every edit down, or remembers whose it could not.
LEMMA EditsSaved ==
    ASSUME NEW k, NEW e \in k.calls, Intercepting(k)!TypeOK, Intercepting(k)!EditsKept,
           Intercepting(k)!Save(e)
    PROVE  Intercepting(k)!EditsKept'
<1>1. /\ x4' = x4 /\ x3' = x3 /\ x16' = x16 /\ x8' = [x8 EXCEPT ![e] = ""]
      /\ \/ /\ x5' = [form |-> "whole", added |-> x4.added, removed |-> x4.removed]
            /\ x17' = x17 \cup Intercepting(k)!SavedOver
         \/ /\ x5' = x5 \/ x5' = [form |-> "torn", added |-> {}, removed |-> {}]
            /\ x17' = Intercepting(k)!Hosts \/ (x5' = x5 /\ x17' = x17 \cup {x8[e]})
  <2>1. /\ x4' = x4 /\ x3' = x3 /\ x16' = x16 /\ x8' = [x8 EXCEPT ![e] = ""]
    BY DEF Intercepting!Save, Intercepting!NoEdit
  <2>2. CASE /\ x5' = [form |-> "whole", added |-> x4.added, removed |-> x4.removed]
             /\ x17' = x17 \cup Intercepting(k)!SavedOver
    BY <2>1, <2>2
  <2>3. CASE /\ x5' \in {x5, Intercepting(k)!NoRules("torn")}
             /\ x17' = IF x5'.form = "torn" THEN Intercepting(k)!Hosts ELSE x17 \cup {x8[e]}
    <3>1. Intercepting(k)!NoRules("torn") = [form |-> "torn", added |-> {}, removed |-> {}]
      BY DEF Intercepting!NoRules
    <3>2. CASE x5' = [form |-> "torn", added |-> {}, removed |-> {}]
      <4>1. x5'.form = "torn"
        BY <3>2
      <4> QED
        BY <2>1, <2>3, <3>2, <4>1
    <3>3. CASE x5' = x5
      BY <2>1, <2>3, <3>3
    <3> QED
      BY <2>3, <3>1, <3>2, <3>3
  <2> QED
    BY <2>2, <2>3 DEF Intercepting!Save
<1>2. x8 \in [k.calls -> Intercepting(k)!Hosts \cup {""}] /\ x17 \subseteq Intercepting(k)!Hosts
      /\ x16 \in [Intercepting(k)!Hosts -> {"nothing", "add", "remove"}]
  BY DEF Intercepting!TypeOK, Intercepting!EditTypes, Intercepting!NoEdit
<1>3. /\ Intercepting(k)!Unsaved' \subseteq Intercepting(k)!Unsaved
      /\ Intercepting(k)!Unsaved \subseteq Intercepting(k)!Unsaved' \cup {x8[e]}
  <2>1. Intercepting(k)!Unsaved = {x8[d] : d \in k.calls} \ {""}
    BY DEF Intercepting!Unsaved, Intercepting!NoEdit
  <2>2. Intercepting(k)!Unsaved' = {x8'[d] : d \in k.calls} \ {""}
    BY DEF Intercepting!Unsaved, Intercepting!NoEdit
  <2>3. x8'[e] = "" /\ \A d \in k.calls : d # e => x8'[d] = x8[d]
    BY <1>1, <1>2
  <2> QED
    BY <2>1, <2>2, <2>3
<1>4. x4'.added \cap x4'.removed = {} /\ x5'.added \cap x5'.removed = {}
  <2>1. x4.added \cap x4.removed = {} /\ x5.added \cap x5.removed = {}
    BY DEF Intercepting!EditsKept
  <2>2. \/ x5'.added = x4.added /\ x5'.removed = x4.removed
        \/ x5' = x5
        \/ x5'.added = {} /\ x5'.removed = {}
    <3>1. CASE x5' = [form |-> "whole", added |-> x4.added, removed |-> x4.removed]
      BY <3>1
    <3>2. CASE x5' = [form |-> "torn", added |-> {}, removed |-> {}]
      BY <3>2
    <3> QED
      BY <1>1, <3>1, <3>2
  <2> QED
    BY <1>1, <2>1, <2>2
<1>5. Intercepting(k)!Hosts' = Intercepting(k)!Hosts
  BY DEF Intercepting!Hosts
<1>6. ASSUME NEW h \in Intercepting(k)!Hosts \ x17'
      PROVE  /\ x3' \/ h \in Intercepting(k)!Unsaved' => Intercepting(k)!AsAsked(h, x4)'
             /\ h \in Intercepting(k)!Unsaved' \/ x16'[h] = "nothing"
                    \/ (x5'.form = "whole" /\ Intercepting(k)!AsAsked(h, x5)')
  <2>1. h \in Intercepting(k)!Hosts \ x17
    BY <1>1, <1>2, <1>6
  <2>2. /\ x3 \/ h \in Intercepting(k)!Unsaved => Intercepting(k)!AsAsked(h, x4)
        /\ h \in Intercepting(k)!Unsaved \/ x16[h] = "nothing"
               \/ (x5.form = "whole" /\ Intercepting(k)!AsAsked(h, x5))
    BY <2>1 DEF Intercepting!EditsKept
  <2>3. x3' \/ h \in Intercepting(k)!Unsaved' => Intercepting(k)!AsAsked(h, x4)'
    BY <1>1, <1>3, <2>2 DEF Intercepting!AsAsked
  <2>4. CASE x5' = [form |-> "whole", added |-> x4.added, removed |-> x4.removed]
             /\ x17' = x17 \cup Intercepting(k)!SavedOver
    <3>1. h \notin Intercepting(k)!SavedOver
      BY <1>6, <2>4
    <3>2. h \in Intercepting(k)!Unsaved \/ x16[h] = "nothing" \/ Intercepting(k)!AsAsked(h, x4)
      BY <2>1, <2>2, <3>1 DEF Intercepting!SavedOver, Intercepting!AsAsked
    <3> QED
      BY <1>1, <2>2, <2>3, <2>4, <3>2 DEF Intercepting!AsAsked
  <2>5. CASE x5' = x5 /\ x17' = x17 \cup {x8[e]}
    <3>1. h # x8[e]
      BY <1>6, <2>5
    <3> QED
      BY <1>1, <1>3, <2>2, <2>3, <2>5, <3>1 DEF Intercepting!AsAsked
  <2> QED
    BY <1>1, <1>6, <2>4, <2>5
<1> QED
  BY <1>4, <1>5, <1>6 DEF Intercepting!EditsKept

\* A start loads what was saved; what was not is remembered.
LEMMA EditsLoaded ==
    ASSUME NEW k, Intercepting(k)!TypeOK, Intercepting(k)!EditsKept, Intercepting(k)!Start
    PROVE  Intercepting(k)!EditsKept'
<1>1. /\ x5' = x5 /\ x8' = x8 /\ x16' = x16 /\ x17' = x17 \cup Intercepting(k)!Unsaved
      /\ x4' = Intercepting(k)!Load(Intercepting(k)!DefaultBaseDomains)
  BY DEF Intercepting!Start, Intercepting!disk
<1>2. /\ x5.form # "whole" => x4'.added = x4.added /\ x4'.removed = x4.removed
      /\ x5.form = "whole" => x4'.added = x5.added /\ x4'.removed = x5.removed
  <2>1. x4 \in [base : SUBSET Intercepting(k)!Hosts, added : SUBSET Intercepting(k)!Hosts,
                removed : SUBSET Intercepting(k)!Hosts]
    BY DEF Intercepting!TypeOK, Intercepting!EditTypes
  <2> QED
    BY <1>1, <2>1 DEF Intercepting!Load
<1>3. Intercepting(k)!Hosts' = Intercepting(k)!Hosts
          /\ Intercepting(k)!Unsaved' = Intercepting(k)!Unsaved
  BY <1>1 DEF Intercepting!Hosts, Intercepting!Unsaved
<1>4. ASSUME NEW h \in Intercepting(k)!Hosts \ x17'
      PROVE  /\ h \notin Intercepting(k)!Unsaved'
             /\ Intercepting(k)!AsAsked(h, x4)'
             /\ x16'[h] = "nothing" \/ (x5'.form = "whole" /\ Intercepting(k)!AsAsked(h, x5)')
  BY <1>1, <1>2, <1>3, <1>4 DEF Intercepting!EditsKept, Intercepting!AsAsked
<1>5. x4'.added \cap x4'.removed = {} /\ x5'.added \cap x5'.removed = {}
  BY <1>1, <1>2 DEF Intercepting!EditsKept
<1> QED
  BY <1>3, <1>4, <1>5 DEF Intercepting!EditsKept
\* The type of each variable, and of what stays where it is.
LEMMA InterceptTypes ==
    ASSUME NEW k, Intercepting(k)!ConstantsOK, Intercepting(k)!TypeOK
    PROVE  /\ k.edits \in Nat /\ k.tokens \in Nat /\ k.runs \in Nat /\ k.tokens >= 1
           /\ x2 \in BOOLEAN /\ x3 \in BOOLEAN /\ x18 \in BOOLEAN
           /\ x1 \in 0 .. k.runs /\ x9 \in 0 .. k.edits
           /\ x10 \in 0 .. k.tokens /\ x11 \in 0 .. k.tokens /\ x12 \in 0 .. k.tokens
           /\ x4 \in [base : SUBSET Intercepting(k)!Hosts, added : SUBSET Intercepting(k)!Hosts,
                      removed : SUBSET Intercepting(k)!Hosts]
           /\ x5 \in [form : {"absent", "torn", "whole"}, added : SUBSET Intercepting(k)!Hosts,
                      removed : SUBSET Intercepting(k)!Hosts]
           /\ x8 \in [k.calls -> Intercepting(k)!Hosts \cup {""}]
           /\ x16 \in [Intercepting(k)!Hosts -> {"nothing", "add", "remove"}]
           /\ x17 \subseteq Intercepting(k)!Hosts
           /\ Intercepting(k)!Hosts' = Intercepting(k)!Hosts
                  /\ Intercepting(k)!Idle' = Intercepting(k)!Idle
           /\ Intercepting(k)!Unsaved \subseteq Intercepting(k)!Hosts
<1>1. x8 \in [k.calls -> Intercepting(k)!Hosts \cup {""}]
  BY DEF Intercepting!TypeOK, Intercepting!EditTypes, Intercepting!NoEdit
<1>2. Intercepting(k)!Unsaved \subseteq Intercepting(k)!Hosts
  BY <1>1 DEF Intercepting!Unsaved, Intercepting!NoEdit
<1>3. Intercepting(k)!Hosts' = Intercepting(k)!Hosts /\ Intercepting(k)!Idle' = Intercepting(k)!Idle
  BY DEF Intercepting!Hosts, Intercepting!Idle
<1>4. k.edits \in Nat /\ k.tokens \in Nat /\ k.runs \in Nat /\ k.tokens >= 1
  BY DEF Intercepting!ConstantsOK
<1> QED
  BY <1>1, <1>2, <1>3, <1>4 DEF Intercepting!TypeOK, Intercepting!EditTypes, Intercepting!TokenTypes

\* Edits, tokens and connections that stay keep their types.
LEMMA UnchangedTyped ==
    ASSUME NEW k, Intercepting(k)!TypeOK
    PROVE  /\ UNCHANGED <<x4, x5, x8, x16, x17>> => Intercepting(k)!EditTypes'
           /\ UNCHANGED <<x10, x11, x12, x13>> => Intercepting(k)!TokenTypes'
           /\ UNCHANGED <<x14, x15>> => Intercepting(k)!TrafficTypes'
<1>1. UNCHANGED <<x4, x5, x8, x16, x17>> => Intercepting(k)!EditTypes'
  BY DEF Intercepting!TypeOK, Intercepting!EditTypes, Intercepting!Hosts, Intercepting!NoEdit
<1>2. UNCHANGED <<x10, x11, x12, x13>> => Intercepting(k)!TokenTypes'
  BY DEF Intercepting!TypeOK, Intercepting!TokenTypes, Intercepting!Idle
<1>3. UNCHANGED <<x14, x15>> => Intercepting(k)!TrafficTypes'
  BY DEF Intercepting!TypeOK, Intercepting!TrafficTypes, Intercepting!Idle, Intercepting!Names
<1> QED
  BY <1>1, <1>2, <1>3

\* A test that the rules have changed under has its type.
LEMMA TestOutdated ==
    ASSUME NEW k, Intercepting(k)!TypeOK, x15' = Intercepting(k)!Outdated
    PROVE  /\ x15' = x15 \/ x15.at = "looked"
           /\ x15' \in {Intercepting(k)!Idle} \cup [at : {"looked", "done"},
                  name : Intercepting(k)!Names,
                          said : BOOLEAN, did : BOOLEAN, stale : BOOLEAN]
           /\ x15' # Intercepting(k)!Idle => x15 # Intercepting(k)!Idle
           /\ x15.at = "looked" => x15'.at = "looked" /\ x15'.stale
<1>1. x15 \in {Intercepting(k)!Idle} \cup [at : {"looked", "done"}, name : Intercepting(k)!Names,
                          said : BOOLEAN, did : BOOLEAN, stale : BOOLEAN]
  BY DEF Intercepting!TypeOK, Intercepting!TrafficTypes
<1>2. CASE x15.at = "looked"
  <2>1. x15 \in [at : {"looked", "done"}, name : Intercepting(k)!Names, said : BOOLEAN, did : BOOLEAN,
            stale : BOOLEAN]
    BY <1>1, <1>2 DEF Intercepting!Idle
  <2>2. x15' = [x15 EXCEPT !.stale = TRUE]
    BY <1>2 DEF Intercepting!Outdated
  <2> QED
    BY <1>2, <2>1, <2>2 DEF Intercepting!Idle
<1>3. CASE x15.at # "looked"
  <2>1. x15' = x15
    BY <1>3 DEF Intercepting!Outdated
  <2> QED
    BY <1>1, <1>3, <2>1
<1> QED
  BY <1>2, <1>3

\* Processes begin and end with their types.
LEMMA ProcessTyped ==
    ASSUME NEW k, Intercepting(k)!ConstantsOK, Intercepting(k)!TypeOK,
           Intercepting(k)!Boot \/ Intercepting(k)!ProcessEnds
    PROVE  Intercepting(k)!TypeOK'
<1>1. CASE Intercepting(k)!Boot
  <2>1. x4' \in [base : SUBSET Intercepting(k)!Hosts, added : SUBSET Intercepting(k)!Hosts,
                 removed : SUBSET Intercepting(k)!Hosts]
    <3>1. x4' = [base |-> k.vendors \cup UNION {t.hosts : t \in {u \in k.targets : u.viability = "supported"}},
                 added |-> {}, removed |-> {}]
      BY <1>1 DEF Intercepting!Boot
    <3> QED
      BY <3>1, HostsKnown
  <2>2. x1' \in 0 .. k.runs
    <3>1. x1 < k.runs /\ x1' = x1 + 1
      BY <1>1 DEF Intercepting!Boot
    <3>2. k.runs \in Nat /\ x1 \in 0 .. k.runs
      BY InterceptTypes
    <3> QED
      BY <3>1, <3>2
  <2>3. x10' \in 0 .. k.tokens /\ x11' \in 0 .. k.tokens /\ x12' \in 0 .. k.tokens
    <3>1. (x10' = 1 \/ x10' = x10) /\ x11' = x10' /\ x12' = x10'
      BY <1>1 DEF Intercepting!Boot
    <3>2. k.tokens \in Nat /\ k.tokens >= 1 /\ x10 \in 0 .. k.tokens
      BY InterceptTypes
    <3> QED
      BY <3>1, <3>2
  <2>4. x2' \in BOOLEAN /\ x6' \in k.offered \cup {{}}
    BY <1>1 DEF Intercepting!Boot
  <2>5. UNCHANGED <<x3, x5, x7, x8, x9, x13, x14, x15, x16, x17, x18>>
    BY <1>1 DEF Intercepting!Boot, Intercepting!history
  <2>6. Intercepting(k)!EditTypes'
    BY <2>1, <2>5, InterceptTypes DEF Intercepting!EditTypes, Intercepting!NoEdit
  <2>7. Intercepting(k)!TokenTypes'
    BY <2>3, <2>5, InterceptTypes DEF Intercepting!TokenTypes, Intercepting!TypeOK
  <2> QED
    BY <2>2, <2>4, <2>5, <2>6, <2>7, UnchangedTyped DEF Intercepting!TypeOK
<1>2. CASE Intercepting(k)!ProcessEnds
  <2>1. x17' \subseteq Intercepting(k)!Hosts
    BY <1>2, InterceptTypes DEF Intercepting!ProcessEnds
  <2>2. /\ x2' \in BOOLEAN /\ x3' \in BOOLEAN /\ x13' = Intercepting(k)!Idle
               /\ x15' = Intercepting(k)!Idle
        /\ x8' = [e \in k.calls |-> Intercepting(k)!NoEdit]
               /\ x14' = [c \in k.conns |-> Intercepting(k)!Idle]
        /\ UNCHANGED <<x1, x4, x5, x6, x7, x9, x10, x11, x12, x16, x18>>
    BY <1>2 DEF Intercepting!ProcessEnds, Intercepting!disk
  <2>3. Intercepting(k)!EditTypes'
    BY <2>1, <2>2, InterceptTypes DEF Intercepting!EditTypes, Intercepting!NoEdit
  <2>4. Intercepting(k)!TokenTypes'
    BY <2>2, InterceptTypes DEF Intercepting!TokenTypes, Intercepting!TypeOK
  <2>5. Intercepting(k)!TrafficTypes'
    BY <2>2, InterceptTypes DEF Intercepting!TrafficTypes, Intercepting!TypeOK, Intercepting!Names
  <2> QED
    BY <2>2, <2>3, <2>4, <2>5, UnchangedTyped DEF Intercepting!TypeOK
<1> QED
  BY <1>1, <1>2

\* The proxy starts and stops with its types.
LEMMA ProxyTyped ==
    ASSUME NEW k, Intercepting(k)!ConstantsOK, Intercepting(k)!TypeOK,
           Intercepting(k)!Start \/ Intercepting(k)!Stop
    PROVE  Intercepting(k)!TypeOK'
<1>1. CASE Intercepting(k)!Start
  <2>1. x4' \in [base : SUBSET Intercepting(k)!Hosts, added : SUBSET Intercepting(k)!Hosts,
                 removed : SUBSET Intercepting(k)!Hosts]
    <3>1. x4' = Intercepting(k)!Load(Intercepting(k)!DefaultBaseDomains)
      BY <1>1 DEF Intercepting!Start
    <3> QED
      BY <3>1, HostsKnown, InterceptTypes DEF Intercepting!Load
  <2>2. x17' \subseteq Intercepting(k)!Hosts
    BY <1>1, InterceptTypes DEF Intercepting!Start
  <2>3. x15' \in {Intercepting(k)!Idle} \cup [at : {"looked", "done"}, name : Intercepting(k)!Names,
                          said : BOOLEAN, did : BOOLEAN, stale : BOOLEAN]
    BY <1>1, TestOutdated DEF Intercepting!Start
  <2>4. x3' \in BOOLEAN /\ x18' \in BOOLEAN
        /\ UNCHANGED <<x1, x2, x5, x6, x7, x8, x9, x10, x11, x12, x13, x14, x16>>
    BY <1>1 DEF Intercepting!Start, Intercepting!disk
  <2>5. Intercepting(k)!EditTypes'
    BY <2>1, <2>2, <2>4, InterceptTypes DEF Intercepting!EditTypes, Intercepting!NoEdit
  <2>6. Intercepting(k)!TrafficTypes'
    BY <2>3, <2>4, InterceptTypes DEF Intercepting!TrafficTypes, Intercepting!TypeOK, Intercepting!Names
  <2> QED
    BY <2>4, <2>5, <2>6, UnchangedTyped DEF Intercepting!TypeOK
<1>2. CASE Intercepting(k)!Stop
  <2>1. x3' \in BOOLEAN
            /\ UNCHANGED <<x1, x2, x4, x5, x6, x7, x8, x9, x10, x11, x12, x13, x15, x16, x17, x18>>
    BY <1>2 DEF Intercepting!Stop, Intercepting!disk, Intercepting!history
  <2>2. x14' \in [k.conns -> {Intercepting(k)!Idle} \cup
                      [at : {"taken", "origin", "gateway", "answered"}, how : {"tunnel", "plain"},
                       key : 0 .. k.tokens, answer : {"none", "served", "refused", "bad gateway"}]]
    BY <1>2 DEF Intercepting!Stop, Intercepting!TypeOK, Intercepting!TrafficTypes
  <2>3. Intercepting(k)!TrafficTypes'
    BY <2>1, <2>2, InterceptTypes DEF Intercepting!TrafficTypes, Intercepting!TypeOK, Intercepting!Names
  <2> QED
    BY <2>1, <2>3, UnchangedTyped DEF Intercepting!TypeOK
<1> QED
  BY <1>1, <1>2

\* Edits and saves keep their types.
LEMMA EditsTyped ==
    ASSUME NEW k, NEW e \in k.calls, Intercepting(k)!ConstantsOK, Intercepting(k)!TypeOK,
           \/ Intercepting(k)!Save(e)
           \/ \E n \in DOMAIN k.normal : Intercepting(k)!AddRule(e, n)
                  \/ Intercepting(k)!RemoveRule(e, n)
    PROVE  Intercepting(k)!TypeOK'
<1>1. ASSUME NEW n \in DOMAIN k.normal, Intercepting(k)!AddRule(e, n)
                 \/ Intercepting(k)!RemoveRule(e, n)
      PROVE  Intercepting(k)!TypeOK'
  <2> DEFINE h == k.normal[n]
  <2>1. /\ h \in Intercepting(k)!Hosts /\ x9 < k.edits /\ x9' = x9 + 1
        /\ \/ x4' = [x4 EXCEPT !.added = x4.added \cup {h}, !.removed = x4.removed \ {h}]
               /\ x16' = [x16 EXCEPT ![h] = "add"]
           \/ x4' = [x4 EXCEPT !.added = x4.added \ {h}, !.removed = x4.removed \cup {h}]
                  /\ x16' = [x16 EXCEPT ![h] = "remove"]
        /\ x8' = [x8 EXCEPT ![e] = h] /\ x17' = x17 \ {h} /\ x15' = Intercepting(k)!Outdated
        /\ UNCHANGED <<x1, x2, x3, x5, x6, x7, x10, x11, x12, x13, x14, x18>>
    BY <1>1 DEF Intercepting!AddRule, Intercepting!RemoveRule, Intercepting!Edited, Intercepting!Hosts,
           Intercepting!disk
  <2> HIDE DEF h
  <2>2. x4' \in [base : SUBSET Intercepting(k)!Hosts, added : SUBSET Intercepting(k)!Hosts,
                 removed : SUBSET Intercepting(k)!Hosts]
    <3>1. CASE x4' = [x4 EXCEPT !.added = x4.added \cup {h}, !.removed = x4.removed \ {h}]
      BY <2>1, <3>1, InterceptTypes
    <3>2. CASE x4' = [x4 EXCEPT !.added = x4.added \ {h}, !.removed = x4.removed \cup {h}]
      BY <2>1, <3>2, InterceptTypes
    <3> QED
      BY <2>1, <3>1, <3>2
  <2>3. x15' \in {Intercepting(k)!Idle} \cup [at : {"looked", "done"}, name : Intercepting(k)!Names,
                          said : BOOLEAN, did : BOOLEAN, stale : BOOLEAN]
    BY <2>1, TestOutdated
  <2>4. x9' \in 0 .. k.edits
    <3>1. k.edits \in Nat /\ x9 \in 0 .. k.edits
      BY InterceptTypes
    <3> QED
      BY <2>1, <3>1
  <2>5. x16' \in [Intercepting(k)!Hosts -> {"nothing", "add", "remove"}]
    <3>1. x16 \in [Intercepting(k)!Hosts -> {"nothing", "add", "remove"}]
      BY InterceptTypes
    <3> QED
      BY <2>1, <3>1
  <2>6. x8' \in [k.calls -> Intercepting(k)!Hosts \cup {""}]
    <3>1. x8 \in [k.calls -> Intercepting(k)!Hosts \cup {""}]
      BY InterceptTypes
    <3> QED
      BY <2>1, <3>1
  <2>7. x17' \subseteq Intercepting(k)!Hosts
    <3>1. x17 \subseteq Intercepting(k)!Hosts
      BY InterceptTypes
    <3> QED
      BY <2>1, <3>1
  <2>8. Intercepting(k)!EditTypes'
    BY <2>1, <2>2, <2>5, <2>6, <2>7, InterceptTypes DEF Intercepting!EditTypes, Intercepting!NoEdit
  <2>9. Intercepting(k)!TrafficTypes'
    BY <2>1, <2>3, InterceptTypes DEF Intercepting!TrafficTypes, Intercepting!TypeOK, Intercepting!Names
  <2> QED
    BY <2>1, <2>4, <2>8, <2>9, UnchangedTyped DEF Intercepting!TypeOK
<1>2. CASE Intercepting(k)!Save(e)
  <2>1. x17' \subseteq Intercepting(k)!Hosts
    <3>1. x8[e] # "" /\ x8[e] \in Intercepting(k)!Hosts \cup {""}
      BY <1>2, InterceptTypes DEF Intercepting!Save, Intercepting!NoEdit
    <3> QED
      BY <1>2, <3>1, InterceptTypes DEF Intercepting!Save, Intercepting!SavedOver
  <2>2. x5' \in [form : {"absent", "torn", "whole"}, added : SUBSET Intercepting(k)!Hosts,
                     removed : SUBSET Intercepting(k)!Hosts]
    <3>1. \/ x5' = [form |-> "whole", added |-> x4.added, removed |-> x4.removed]
          \/ x5' = x5 \/ x5' = [form |-> "torn", added |-> {}, removed |-> {}]
      BY <1>2 DEF Intercepting!Save, Intercepting!NoRules
    <3>2. x4.added \subseteq Intercepting(k)!Hosts /\ x4.removed \subseteq Intercepting(k)!Hosts
      BY InterceptTypes
    <3>3. CASE x5' = [form |-> "whole", added |-> x4.added, removed |-> x4.removed]
      BY <3>2, <3>3
    <3>4. CASE x5' = [form |-> "torn", added |-> {}, removed |-> {}]
      BY <3>4
    <3> QED
      BY <3>1, <3>3, <3>4, InterceptTypes
  <2>3. x8' \in [k.calls -> Intercepting(k)!Hosts \cup {""}]
    BY <1>2, InterceptTypes DEF Intercepting!Save, Intercepting!NoEdit
  <2>4. UNCHANGED <<x1, x2, x3, x4, x6, x7, x9, x10, x11, x12, x13, x14, x15, x16, x18>>
    BY <1>2 DEF Intercepting!Save
  <2>5. Intercepting(k)!EditTypes'
    BY <2>1, <2>2, <2>3, <2>4, InterceptTypes DEF Intercepting!EditTypes, Intercepting!NoEdit
  <2> QED
    BY <2>4, <2>5, UnchangedTyped DEF Intercepting!TypeOK
<1> QED
  BY <1>1, <1>2
\* Tokens and targets keep their types.
LEMMA TokensTyped ==
    ASSUME NEW k, Intercepting(k)!ConstantsOK, Intercepting(k)!TypeOK,
           \/ Intercepting(k)!FetchTargets \/ Intercepting(k)!ResetToken
                  \/ Intercepting(k)!SetAccessToken
    PROVE  Intercepting(k)!TypeOK'
<1>1. CASE Intercepting(k)!FetchTargets
  <2>1. x6' \in k.offered \cup {{}}
    BY <1>1 DEF Intercepting!FetchTargets, Intercepting!TypeOK
  <2>2. x7' \in [form : {"absent", "torn", "whole"}, targets : k.offered \cup {{}}]
    <3>1. \/ x7' = x7
          \/ x7' = [form |-> "whole", targets |-> x6']
          \/ x7' = [form |-> "torn", targets |-> {}]
      BY <1>1 DEF Intercepting!FetchTargets, Intercepting!NoTargets
    <3>2. CASE x7' = [form |-> "whole", targets |-> x6']
      BY <2>1, <3>2
    <3>3. CASE x7' = [form |-> "torn", targets |-> {}]
      BY <3>3
    <3> QED
      BY <3>1, <3>2, <3>3 DEF Intercepting!TypeOK
  <2>3. x18' \in BOOLEAN
        /\ UNCHANGED <<x1, x2, x3, x4, x5, x8, x9, x10, x11, x12, x13, x14, x15, x16, x17>>
    BY <1>1 DEF Intercepting!FetchTargets
  <2> QED
    BY <2>1, <2>2, <2>3, UnchangedTyped DEF Intercepting!TypeOK
<1>2. CASE Intercepting(k)!ResetToken
  <2>1. /\ x10 < k.tokens /\ x10' = x10 + 1 /\ x13' = [at |-> "gateway", token |-> x10']
        /\ UNCHANGED <<x1, x2, x3, x4, x5, x6, x7, x8, x9, x11, x12, x14, x15, x16, x17, x18>>
    BY <1>2 DEF Intercepting!ResetToken, Intercepting!history
  <2>2. x10' \in 0 .. k.tokens
    <3>1. k.tokens \in Nat /\ x10 \in 0 .. k.tokens
      BY InterceptTypes
    <3> QED
      BY <2>1, <3>1
  <2>3. Intercepting(k)!TokenTypes'
    BY <2>1, <2>2, InterceptTypes DEF Intercepting!TokenTypes
  <2> QED
    BY <2>1, <2>3, UnchangedTyped DEF Intercepting!TypeOK
<1>3. CASE Intercepting(k)!SetAccessToken
  <2>1. UNCHANGED <<x1, x2, x3, x4, x5, x6, x7, x8, x9, x10, x14, x15, x16, x17, x18>>
    BY <1>3 DEF Intercepting!SetAccessToken, Intercepting!disk, Intercepting!history
  <2>2. /\ x13 \in [at : {"gateway", "proxy"}, token : 0 .. k.tokens]
        /\ \/ x13' = [x13 EXCEPT !.at = "proxy"] \/ x13' = Intercepting(k)!Idle
        /\ x11' \in {x11, x13.token} /\ x12' \in {x12, x13.token}
    BY <1>3 DEF Intercepting!SetAccessToken, Intercepting!TypeOK, Intercepting!TokenTypes,
           Intercepting!Idle
  <2>3. Intercepting(k)!TokenTypes'
    BY <2>1, <2>2, InterceptTypes DEF Intercepting!TokenTypes
  <2> QED
    BY <2>1, <2>3, UnchangedTyped DEF Intercepting!TypeOK
<1> QED
  BY <1>1, <1>2, <1>3

\* What a connection carries after a step: its key is the proxy's from when the
\* token was put in, and it is refused for not being the gateway's.
MayCarry(k, c, v) ==
    \/ v = Intercepting(k)!Idle
    \/ /\ v \in [at : {"taken", "origin", "gateway", "answered"}, how : {"tunnel", "plain"},
                 key : 0 .. k.tokens, answer : {"none", "served", "refused", "bad gateway"}]
       /\ v.at = "origin" => v.key = 0
       /\ v.at = "gateway" => v.key = x12
       /\ v.at = "answered" => x14[c].at = "gateway" /\ v.key = x14[c].key
       /\ v.at = "answered" /\ v.answer = "refused" => v.key # x11

LEMMA Carries ==
    ASSUME NEW k, NEW c \in k.conns, Intercepting(k)!ConstantsOK, Intercepting(k)!TypeOK,
           Intercepting(k)!ConnStep(c)
    PROVE  /\ x2 = TRUE
           /\ UNCHANGED <<x1, x2, x3, x4, x5, x6, x7, x8, x9, x10, x11, x12, x13, x15, x16, x17, x18>>
           /\ \E v : x14' = [x14 EXCEPT ![c] = v] /\ MayCarry(k, c, v)
<1> DEFINE V == [at : {"taken", "origin", "gateway", "answered"}, how : {"tunnel", "plain"},
                 key : 0 .. k.tokens, answer : {"none", "served", "refused", "bad gateway"}]
<1>1. /\ x14[c].at \in {"taken", "origin", "gateway", "answered"} => x14[c] \in V
      /\ 0 \in 0 .. k.tokens /\ x12 \in 0 .. k.tokens
  <2>1. k.tokens \in Nat /\ x12 \in 0 .. k.tokens
    BY InterceptTypes
  <2>2. x14[c] \in {Intercepting(k)!Idle} \cup V
    BY DEF Intercepting!TypeOK, Intercepting!TrafficTypes
  <2>3. x14[c] = Intercepting(k)!Idle => x14[c].at = "idle"
    BY DEF Intercepting!Idle
  <2>4. 0 \in 0 .. k.tokens
    BY <2>1
  <2> QED
    BY <2>1, <2>2, <2>3, <2>4
<1>3. \E v : Intercepting(k)!Carry(c, v) /\ MayCarry(k, c, v)
  <2>1. CASE \E n, p : Intercepting(k)!HandleConnect(c, n) \/ Intercepting(k)!HandleHTTP(c, n, p)
    <3>1. PICK at \in {"taken", "origin"}, how \in {"tunnel", "plain"} :
              Intercepting(k)!Carry(c, Intercepting(k)!Conn(at, how))
      BY <2>1 DEF Intercepting!HandleConnect, Intercepting!HandleHTTP
    <3>2. Intercepting(k)!Conn(at, how) = [at |-> at, how |-> how, key |-> 0, answer |-> "none"]
      BY DEF Intercepting!Conn, Intercepting!Client
    <3>3. [at |-> at, how |-> how, key |-> 0, answer |-> "none"] \in V
      BY <1>1
    <3>4. MayCarry(k, c, [at |-> at, how |-> how, key |-> 0, answer |-> "none"])
      BY <3>3 DEF MayCarry
    <3> QED
      BY <3>1, <3>2, <3>4
  <2>2. CASE Intercepting(k)!InjectAuth(c)
    <3>1. x14[c] \in V /\ Intercepting(k)!Carry(c, [x14[c] EXCEPT !.at = "gateway", !.key = x12])
      BY <1>1, <2>2 DEF Intercepting!InjectAuth
    <3>2. MayCarry(k, c, [x14[c] EXCEPT !.at = "gateway", !.key = x12])
      BY <1>1, <3>1 DEF MayCarry
    <3> QED
      BY <3>1, <3>2
  <2>3. CASE Intercepting(k)!RoundTrip(c)
    <3>1. PICK a \in {"served", "refused", "bad gateway"} :
              /\ Intercepting(k)!Carry(c, [x14[c] EXCEPT !.at = "answered", !.answer = a])
              /\ a = "refused" => x14[c].key # x11
      BY <2>3 DEF Intercepting!RoundTrip, Intercepting!TokenMatches
    <3>2. x14[c] \in V /\ x14[c].at = "gateway"
      BY <1>1, <2>3 DEF Intercepting!RoundTrip
    <3>3. MayCarry(k, c, [x14[c] EXCEPT !.at = "answered", !.answer = a])
      BY <3>1, <3>2 DEF MayCarry
    <3> QED
      BY <3>1, <3>3
  <2>4. CASE Intercepting(k)!NextRequest(c)
    <3>1. x14[c] \in V
              /\ Intercepting(k)!Carry(c, [x14[c] EXCEPT !.at = "taken", !.key = 0, !.answer = "none"])
      BY <1>1, <2>4 DEF Intercepting!NextRequest, Intercepting!Client
    <3>2. MayCarry(k, c, [x14[c] EXCEPT !.at = "taken", !.key = 0, !.answer = "none"])
      BY <1>1, <3>1 DEF MayCarry
    <3> QED
      BY <3>1, <3>2
  <2>5. CASE Intercepting(k)!Close(c)
    BY <2>5 DEF Intercepting!Close, MayCarry
  <2> QED
    BY <2>1, <2>2, <2>3, <2>4, <2>5 DEF Intercepting!ConnStep
<1>4. x2 = TRUE
  BY DEF Intercepting!ConnStep, Intercepting!HandleConnect, Intercepting!HandleHTTP,
         Intercepting!InjectAuth,
     Intercepting!RoundTrip, Intercepting!NextRequest, Intercepting!Close, Intercepting!TypeOK
<1> QED
  BY <1>3, <1>4 DEF Intercepting!Carry, Intercepting!disk, Intercepting!history

\* So does traffic.
LEMMA TrafficTyped ==
    ASSUME NEW k, Intercepting(k)!ConstantsOK, Intercepting(k)!TypeOK,
           \/ \E c \in k.conns : Intercepting(k)!ConnStep(c)
           \/ \E n \in DOMAIN k.normal : Intercepting(k)!TestLooks(n)
           \/ Intercepting(k)!TestConnects
    PROVE  Intercepting(k)!TypeOK'
<1>1. ASSUME NEW c \in k.conns, Intercepting(k)!ConnStep(c) PROVE Intercepting(k)!TypeOK'
  <2>1. PICK v : x14' = [x14 EXCEPT ![c] = v] /\ MayCarry(k, c, v)
    BY <1>1, Carries
  <2>2. UNCHANGED <<x1, x2, x3, x4, x5, x6, x7, x8, x9, x10, x11, x12, x13, x15, x16, x17, x18>>
    BY <1>1, Carries
  <2>3. Intercepting(k)!TrafficTypes'
    BY <2>1, <2>2 DEF MayCarry, Intercepting!TypeOK, Intercepting!TrafficTypes, Intercepting!Idle,
           Intercepting!Names
  <2> QED
    BY <2>2, <2>3, UnchangedTyped DEF Intercepting!TypeOK
<1>2. ASSUME NEW n \in DOMAIN k.normal, Intercepting(k)!TestLooks(n) PROVE Intercepting(k)!TypeOK'
  <2>1. /\ x15' = [at |-> "looked", name |-> n, said |-> n \in Intercepting(k)!Effective, did |-> FALSE,
               stale |-> FALSE]
        /\ UNCHANGED <<x1, x2, x3, x4, x5, x6, x7, x8, x9, x10, x11, x12, x13, x14, x16, x17, x18>>
    BY <1>2 DEF Intercepting!TestLooks, Intercepting!disk, Intercepting!history
  <2>2. (n \in Intercepting(k)!Effective) \in BOOLEAN
    OBVIOUS
  <2>3. x15' \in [at : {"looked", "done"}, name : Intercepting(k)!Names, said : BOOLEAN, did : BOOLEAN,
            stale : BOOLEAN]
    BY <2>1, <2>2 DEF Intercepting!Names
  <2>4. Intercepting(k)!TrafficTypes'
    BY <2>1, <2>3, InterceptTypes DEF Intercepting!TypeOK, Intercepting!TrafficTypes, Intercepting!Names
  <2> QED
    BY <2>1, <2>4, UnchangedTyped DEF Intercepting!TypeOK
<1>3. CASE Intercepting(k)!TestConnects
  <2>1. /\ x15.at = "looked"
               /\ x15' = [x15 EXCEPT !.at = "done", !.did = Intercepting(k)!Match(x15.name, "")]
        /\ UNCHANGED <<x1, x2, x3, x4, x5, x6, x7, x8, x9, x10, x11, x12, x13, x14, x16, x17, x18>>
    BY <1>3 DEF Intercepting!TestConnects, Intercepting!disk, Intercepting!history
  <2>2. Intercepting(k)!Match(x15.name, "") \in BOOLEAN
    BY DEF Intercepting!Match
  <2>3. x15 \in [at : {"looked", "done"}, name : Intercepting(k)!Names, said : BOOLEAN, did : BOOLEAN,
            stale : BOOLEAN]
    <3>1. x15 = Intercepting(k)!Idle => x15.at = "idle"
      BY DEF Intercepting!Idle
    <3> QED
      BY <2>1, <3>1 DEF Intercepting!TypeOK, Intercepting!TrafficTypes
  <2>4. x15' \in [at : {"looked", "done"}, name : Intercepting(k)!Names, said : BOOLEAN, did : BOOLEAN,
            stale : BOOLEAN]
    BY <2>1, <2>2, <2>3
  <2>5. Intercepting(k)!TrafficTypes'
    BY <2>1, <2>4, InterceptTypes DEF Intercepting!TypeOK, Intercepting!TrafficTypes, Intercepting!Names
  <2> QED
    BY <2>1, <2>5, UnchangedTyped DEF Intercepting!TypeOK
<1> QED
  BY <1>1, <1>2, <1>3

\* Every step keeps the types.
LEMMA InterceptTyped ==
    ASSUME NEW k, Intercepting(k)!ConstantsOK, Intercepting(k)!TypeOK, Intercepting(k)!Next
    PROVE  Intercepting(k)!TypeOK'
BY ProcessTyped, ProxyTyped, EditsTyped, TokensTyped, TrafficTyped DEF Intercepting!Next,
       Intercepting!Names

\* Nothing is under way in a process that has ended.
LEMMA CleanStays ==
    ASSUME NEW k, Intercepting(k)!ConstantsOK, Intercepting(k)!TypeOK, Intercepting(k)!EndsClean,
           Intercepting(k)!Next
    PROVE  Intercepting(k)!EndsClean'
<1>1. CASE Intercepting(k)!ProcessEnds
  BY <1>1 DEF Intercepting!ProcessEnds, Intercepting!EndsClean, Intercepting!Unsaved, Intercepting!Idle,
         Intercepting!NoEdit
<1>2. CASE ~ Intercepting(k)!ProcessEnds
  <2>1. x2' = TRUE
    <3>1. ASSUME NEW c \in k.conns, Intercepting(k)!ConnStep(c) PROVE x2' = TRUE
      BY <3>1, Carries
    <3> QED
      BY <1>2, <3>1 DEF Intercepting!TypeOK, Intercepting!Next, Intercepting!Boot, Intercepting!Start,
             Intercepting!Stop,
         Intercepting!AddRule, Intercepting!RemoveRule, Intercepting!Edited, Intercepting!Save,
         Intercepting!FetchTargets, Intercepting!ResetToken, Intercepting!SetAccessToken,
         Intercepting!TestLooks, Intercepting!TestConnects
  <2> QED
    BY <2>1 DEF Intercepting!EndsClean
<1> QED
  BY <1>1, <1>2

\* The baseline, the tokens and the tests, each as far as a step concerns it.
LEMMA BaselineStays ==
    ASSUME NEW k, Intercepting(k)!ConstantsOK, Intercepting(k)!TypeOK, Intercepting(k)!EndsClean,
           Intercepting(k)!BaselineKnows, Intercepting(k)!Next
    PROVE  Intercepting(k)!BaselineKnows'
<1> USE DEF Intercepting!BaselineKnows
<1>1. ASSUME UNCHANGED <<x6, x4, x18>>, x3' => x3 PROVE Intercepting(k)!BaselineKnows'
  BY <1>1 DEF Intercepting!SupportedHosts, Intercepting!MergedTargets
<1>2. CASE Intercepting(k)!Boot
  BY <1>2 DEF Intercepting!Boot, Intercepting!EndsClean
<1>3. CASE Intercepting(k)!Start
  <2>1. x6' = x6 /\ x4' = Intercepting(k)!Load(Intercepting(k)!DefaultBaseDomains)
    BY <1>3 DEF Intercepting!Start
  <2>2. x4'.base = Intercepting(k)!DefaultBaseDomains
    BY <2>1, InterceptTypes DEF Intercepting!Load
  <2>3. Intercepting(k)!SupportedHosts' = Intercepting(k)!SupportedHosts
    BY <2>1 DEF Intercepting!SupportedHosts, Intercepting!MergedTargets
  <2> QED
    BY <2>2, <2>3 DEF Intercepting!DefaultBaseDomains
<1>4. CASE Intercepting(k)!FetchTargets
  BY <1>4 DEF Intercepting!FetchTargets
<1>5. ASSUME NEW e \in k.calls, NEW n \in DOMAIN k.normal,
             Intercepting(k)!AddRule(e, n) \/ Intercepting(k)!RemoveRule(e, n)
      PROVE  Intercepting(k)!BaselineKnows'
  <2>1. x6' = x6 /\ x18' = x18 /\ x3' = x3 /\ x4'.base = x4.base
    BY <1>5, InterceptTypes DEF Intercepting!AddRule, Intercepting!RemoveRule, Intercepting!Edited
  <2> QED
    BY <2>1 DEF Intercepting!SupportedHosts, Intercepting!MergedTargets
<1>6. ASSUME NEW c \in k.conns, Intercepting(k)!ConnStep(c) PROVE Intercepting(k)!BaselineKnows'
  BY <1>1, <1>6, Carries
<1>7. ASSUME \/ Intercepting(k)!ProcessEnds \/ Intercepting(k)!Stop \/ Intercepting(k)!ResetToken
             \/ Intercepting(k)!SetAccessToken \/ Intercepting(k)!TestConnects
             \/ \E n \in DOMAIN k.normal : Intercepting(k)!TestLooks(n)
             \/ \E e \in k.calls : Intercepting(k)!Save(e)
      PROVE  Intercepting(k)!BaselineKnows'
  BY <1>1, <1>7 DEF Intercepting!ProcessEnds, Intercepting!Stop, Intercepting!ResetToken,
         Intercepting!SetAccessToken,
     Intercepting!TestConnects, Intercepting!TestLooks, Intercepting!Save, Intercepting!history
<1> QED
  BY <1>2, <1>3, <1>4, <1>5, <1>6, <1>7 DEF Intercepting!Next, Intercepting!Names

LEMMA TokensStay ==
    ASSUME NEW k, Intercepting(k)!ConstantsOK, Intercepting(k)!TypeOK, Intercepting(k)!EndsClean,
           Intercepting(k)!TokensFollow, Intercepting(k)!Next
    PROVE  Intercepting(k)!TokensFollow'
<1>0. x10 \in Nat /\ x11 \in Nat /\ x12 \in Nat /\ k.tokens \in Nat
  <2>1. k.tokens \in Nat /\ x10 \in 0 .. k.tokens /\ x11 \in 0 .. k.tokens /\ x12 \in 0 .. k.tokens
    BY InterceptTypes
  <2> QED
    BY <2>1
<1>1. ASSUME UNCHANGED <<x10, x11, x12, x13>>, x2' => x2,
             \A c \in k.conns : x14'[c] = x14[c] \/ x14'[c] = Intercepting(k)!Idle
      PROVE  Intercepting(k)!TokensFollow'
  BY <1>1 DEF Intercepting!TokensFollow, Intercepting!Idle, Intercepting!Client
<1>2. CASE Intercepting(k)!Boot
  <2>1. /\ x10' = IF x10 = 0 THEN 1 ELSE x10
        /\ x11' = x10' /\ x12' = x10' /\ x13' = Intercepting(k)!Idle
               /\ \A c \in k.conns : x14'[c] = Intercepting(k)!Idle
    BY <1>2 DEF Intercepting!Boot, Intercepting!EndsClean
  <2> QED
    BY <1>0, <2>1 DEF Intercepting!TokensFollow, Intercepting!Idle, Intercepting!Client
<1>3. CASE Intercepting(k)!ResetToken
  <2>1. /\ x2 /\ x13 = Intercepting(k)!Idle /\ x10' = x10 + 1
               /\ x13' = [at |-> "gateway", token |-> x10']
        /\ UNCHANGED <<x11, x12, x14>>
    BY <1>3 DEF Intercepting!ResetToken
  <2>2. x13'.at = "gateway" /\ x13'.token = x10' /\ x13' # Intercepting(k)!Idle'
    BY <2>1 DEF Intercepting!Idle
  <2>3. x12 # 0 /\ x12 <= x11 /\ x11 <= x10'
    BY <1>0, <2>1 DEF Intercepting!TokensFollow, Intercepting!Client
  <2> QED
    BY <2>1, <2>2, <2>3 DEF Intercepting!TokensFollow, Intercepting!Client
<1>4. CASE Intercepting(k)!SetAccessToken
  <2>1. x2 /\ x13.at \in {"gateway", "proxy"} /\ UNCHANGED <<x10, x14>>
    BY <1>4 DEF Intercepting!SetAccessToken, Intercepting!disk
  <2>2. x13 # Intercepting(k)!Idle /\ x13 \in [at : {"gateway", "proxy"}, token : 0 .. k.tokens]
    <3>1. Intercepting(k)!Idle.at = "idle"
      BY DEF Intercepting!Idle
    <3> QED
      BY <2>1, <3>1 DEF Intercepting!TypeOK, Intercepting!TokenTypes
  <2>3. x13.token = x10 /\ x12 # 0 /\ x12 <= x11 /\ x11 <= x10 /\ (x13.at = "proxy" => x11 = x10)
    BY <2>1, <2>2 DEF Intercepting!TokensFollow, Intercepting!Client
  <2>4. CASE x13.at = "gateway"
    <3>1. x11' = x10 /\ x12' = x12 /\ x13' = [x13 EXCEPT !.at = "proxy"]
      BY <1>4, <2>3, <2>4 DEF Intercepting!SetAccessToken
    <3>2. x13'.at = "proxy" /\ x13'.token = x10 /\ x13' # Intercepting(k)!Idle'
      BY <2>2, <2>3, <3>1 DEF Intercepting!Idle
    <3>3. \A c \in k.conns : /\ x14[c].at = "origin" => x14[c].key = 0
                             /\ x14[c].at \in {"gateway", "answered"} => x14[c].key # 0
                                    /\ x14[c].key <= x11
                             /\ x14[c].at = "answered" /\ x14[c].answer = "refused" => x14[c].key < x11
      BY <2>1 DEF Intercepting!TokensFollow, Intercepting!Client
    <3>4. ASSUME NEW c \in k.conns, x14[c].at \in {"gateway", "answered"}
          PROVE  x14[c].key \in Nat
      <4>1. Intercepting(k)!Idle.at = "idle"
        BY DEF Intercepting!Idle
      <4>2. x14[c].key \in 0 .. k.tokens
        BY <3>4, <4>1 DEF Intercepting!TypeOK, Intercepting!TrafficTypes
      <4> QED
        BY <1>0, <4>2
    <3> QED
      BY <1>0, <2>1, <2>3, <3>1, <3>2, <3>3, <3>4 DEF Intercepting!TokensFollow, Intercepting!Client
  <2>5. CASE x13.at = "proxy"
    <3>1. x11' = x11 /\ x12' = x10 /\ x13' = Intercepting(k)!Idle
      BY <1>4, <2>3, <2>5 DEF Intercepting!SetAccessToken
    <3>2. x12' # 0 /\ x12' <= x11' /\ x11' <= x10' /\ x12' = x11' /\ x11' = x10'
      BY <1>0, <2>1, <2>3, <2>5, <3>1
    <3>3. Intercepting(k)!Idle' = Intercepting(k)!Idle
      BY DEF Intercepting!Idle
    <3> QED
      BY <2>1, <3>1, <3>2, <3>3 DEF Intercepting!TokensFollow, Intercepting!Client
  <2> QED
    BY <2>1, <2>4, <2>5
<1>5. ASSUME NEW c \in k.conns, Intercepting(k)!ConnStep(c) PROVE Intercepting(k)!TokensFollow'
  <2>1. x2 = TRUE /\ UNCHANGED <<x2, x10, x11, x12, x13>>
    BY <1>5, Carries
  <2>2. PICK v : x14' = [x14 EXCEPT ![c] = v] /\ MayCarry(k, c, v)
    BY <1>5, Carries
  <2>3. x14'[c] = v /\ \A d \in k.conns : d # c => x14'[d] = x14[d]
    BY <2>2 DEF Intercepting!TypeOK, Intercepting!TrafficTypes
  <2>4. /\ x14[c].at = "gateway" => x14[c].key # 0 /\ x14[c].key <= x11 /\ x14[c].key \in Nat
        /\ x12 # 0 /\ x12 <= x11
    <3>1. Intercepting(k)!Idle.at = "idle"
      BY DEF Intercepting!Idle
    <3>2. x14[c].at = "gateway" => x14[c].key \in 0 .. k.tokens
      BY <3>1 DEF Intercepting!TypeOK, Intercepting!TrafficTypes
    <3>3. \A i \in 0 .. k.tokens : i \in Nat
      BY <1>0
    <3> QED
      BY <2>1, <3>2, <3>3 DEF Intercepting!TokensFollow, Intercepting!Client
  <2>5. /\ v.at = "origin" => v.key = 0
        /\ v.at \in {"gateway", "answered"} => v.key # 0 /\ v.key <= x11
        /\ v.at = "answered" /\ v.answer = "refused" => v.key < x11
    <3>1. CASE v = Intercepting(k)!Idle
      BY <3>1 DEF Intercepting!Idle
    <3>2. CASE v # Intercepting(k)!Idle
      <4>1. /\ v.at = "origin" => v.key = 0
            /\ v.at = "gateway" => v.key = x12
            /\ v.at = "answered" => x14[c].at = "gateway" /\ v.key = x14[c].key
            /\ v.at = "answered" /\ v.answer = "refused" => v.key # x11
        BY <2>2, <3>2 DEF MayCarry
      <4>2. v.at = "answered" => v.key # 0 /\ v.key <= x11 /\ v.key \in Nat
        BY <2>4, <4>1
      <4> QED
        BY <1>0, <2>4, <4>1, <4>2
    <3> QED
      BY <3>1, <3>2
  <2>6. Intercepting(k)!Idle' = Intercepting(k)!Idle
    BY DEF Intercepting!Idle
  <2> QED
    BY <2>1, <2>3, <2>5, <2>6 DEF Intercepting!TokensFollow, Intercepting!Client
<1>6. CASE Intercepting(k)!ProcessEnds
  BY <1>6 DEF Intercepting!ProcessEnds, Intercepting!TokensFollow
<1>7. CASE Intercepting(k)!Stop
  BY <1>1, <1>7 DEF Intercepting!Stop, Intercepting!disk
<1>8. ASSUME \/ Intercepting(k)!Start \/ Intercepting(k)!FetchTargets \/ Intercepting(k)!TestConnects
             \/ \E n \in DOMAIN k.normal : Intercepting(k)!TestLooks(n)
             \/ \E e \in k.calls : \/ Intercepting(k)!Save(e)
                                   \/ \E n \in DOMAIN k.normal : Intercepting(k)!AddRule(e, n)
                                          \/ Intercepting(k)!RemoveRule(e, n)
      PROVE  Intercepting(k)!TokensFollow'
  <2>1. UNCHANGED <<x2, x10, x11, x12, x13, x14>>
    BY <1>8 DEF Intercepting!Start, Intercepting!FetchTargets, Intercepting!TestConnects,
           Intercepting!TestLooks,
       Intercepting!Save, Intercepting!AddRule, Intercepting!RemoveRule, Intercepting!Edited,
           Intercepting!disk
  <2> QED
    BY <1>1, <2>1
<1> QED
  BY <1>2, <1>3, <1>4, <1>5, <1>6, <1>7, <1>8 DEF Intercepting!Next, Intercepting!Names

LEMMA TestsStay ==
    ASSUME NEW k, Intercepting(k)!ConstantsOK, Intercepting(k)!TypeOK, Intercepting(k)!EndsClean,
           Intercepting(k)!TestIsRecent, Intercepting(k)!Next
    PROVE  Intercepting(k)!TestIsRecent'
<1> USE DEF Intercepting!TestIsRecent, Intercepting!TestTellsTruth
<1>1. ASSUME x15' = x15, x4' = x4 PROVE Intercepting(k)!TestIsRecent'
  BY <1>1 DEF Intercepting!Effective
<1>2. ASSUME x15' = Intercepting(k)!Idle PROVE Intercepting(k)!TestIsRecent'
  BY <1>2 DEF Intercepting!Idle
<1>3. CASE Intercepting(k)!Boot
  BY <1>2, <1>3 DEF Intercepting!Boot, Intercepting!EndsClean
<1>4. CASE Intercepting(k)!ProcessEnds
  BY <1>2, <1>4 DEF Intercepting!ProcessEnds
<1>5. ASSUME x15' = Intercepting(k)!Outdated PROVE Intercepting(k)!TestIsRecent'
  <2>1. CASE x15.at = "looked"
    BY <1>5, <2>1, TestOutdated
  <2>2. CASE x15.at # "looked"
    BY <1>5, <2>2 DEF Intercepting!Outdated
  <2> QED
    BY <2>1, <2>2
<1>6. ASSUME NEW n \in DOMAIN k.normal, Intercepting(k)!TestLooks(n) PROVE Intercepting(k)!TestIsRecent'
  <2>1. x4' = x4 /\ x15' = [at |-> "looked", name |-> n, said |-> n \in Intercepting(k)!Effective,
            did |-> FALSE, stale |-> FALSE]
    BY <1>6 DEF Intercepting!TestLooks
  <2>2. Intercepting(k)!Effective' = Intercepting(k)!Effective
    BY <2>1 DEF Intercepting!Effective
  <2>3. x15'.at = "looked" /\ x15'.name = n /\ x15'.said = (n \in Intercepting(k)!Effective)
    BY <2>1
  <2> QED
    BY <2>2, <2>3
<1>7. CASE Intercepting(k)!TestConnects
  <2>1. /\ x15.at = "looked"
               /\ x15' = [x15 EXCEPT !.at = "done", !.did = Intercepting(k)!Match(x15.name, "")]
    BY <1>7 DEF Intercepting!TestConnects
  <2>2. x15 \in [at : {"looked", "done"}, name : Intercepting(k)!Names, said : BOOLEAN, did : BOOLEAN,
            stale : BOOLEAN]
    <3>1. x15 = Intercepting(k)!Idle => x15.at = "idle"
      BY DEF Intercepting!Idle
    <3> QED
      BY <2>1, <3>1 DEF Intercepting!TypeOK, Intercepting!TrafficTypes
  <2>3. /\ x15'.at = "done" /\ x15'.name = x15.name /\ x15'.said = x15.said /\ x15'.stale = x15.stale
        /\ x15'.did = Intercepting(k)!Match(x15.name, "")
    BY <2>1, <2>2
  <2>4. ~ x15.stale => x15.said = (x15.name \in Intercepting(k)!Effective)
    BY <2>1
  <2> QED
    BY <2>3, <2>4 DEF Intercepting!Match
<1>8. ASSUME NEW c \in k.conns, Intercepting(k)!ConnStep(c) PROVE Intercepting(k)!TestIsRecent'
  BY <1>1, <1>8, Carries
<1>9. ASSUME \/ Intercepting(k)!Stop \/ Intercepting(k)!FetchTargets \/ Intercepting(k)!ResetToken
             \/ Intercepting(k)!SetAccessToken \/ \E e \in k.calls : Intercepting(k)!Save(e)
      PROVE  Intercepting(k)!TestIsRecent'
  <2>1. x15' = x15 /\ x4' = x4
    BY <1>9 DEF Intercepting!Stop, Intercepting!FetchTargets, Intercepting!ResetToken,
           Intercepting!SetAccessToken,
       Intercepting!Save
  <2> QED
    BY <1>1, <2>1
<1>10. ASSUME \/ Intercepting(k)!Start
              \/ \E e \in k.calls : \E n \in DOMAIN k.normal : Intercepting(k)!AddRule(e, n)
                     \/ Intercepting(k)!RemoveRule(e, n)
       PROVE  Intercepting(k)!TestIsRecent'
  BY <1>5, <1>10 DEF Intercepting!Start, Intercepting!AddRule, Intercepting!RemoveRule,
         Intercepting!Edited
<1> QED
  BY <1>3, <1>4, <1>6, <1>7, <1>8, <1>9, <1>10 DEF Intercepting!Next, Intercepting!Names

\* Every step keeps the edits that are not remembered as lost.
LEMMA EditsStay ==
    ASSUME NEW k, Intercepting(k)!ConstantsOK, Intercepting(k)!TypeOK, Intercepting(k)!EndsClean,
           Intercepting(k)!EditsKept, Intercepting(k)!Next
    PROVE  Intercepting(k)!EditsKept'
<1>1. CASE Intercepting(k)!Boot
  <2>1. /\ ~ x3' /\ x4'.added = {} /\ x4'.removed = {} /\ Intercepting(k)!Unsaved = {}
        /\ UNCHANGED <<x5, x8, x16, x17>>
    BY <1>1 DEF Intercepting!Boot, Intercepting!EndsClean, Intercepting!history
  <2>2. Intercepting(k)!Unsaved' = Intercepting(k)!Unsaved
            /\ Intercepting(k)!Hosts' = Intercepting(k)!Hosts
    BY <2>1 DEF Intercepting!Unsaved, Intercepting!Hosts
  <2> QED
    BY <2>1, <2>2 DEF Intercepting!EditsKept, Intercepting!AsAsked
<1>2. CASE Intercepting(k)!ProcessEnds
  <2>1. /\ ~ x3' /\ x17' = x17 \cup Intercepting(k)!Unsaved /\ Intercepting(k)!Unsaved' = {}
        /\ UNCHANGED <<x4, x5, x16>>
    BY <1>2 DEF Intercepting!ProcessEnds, Intercepting!Unsaved, Intercepting!NoEdit, Intercepting!disk
  <2>2. Intercepting(k)!Hosts' = Intercepting(k)!Hosts
    BY DEF Intercepting!Hosts
  <2> QED
    BY <2>1, <2>2 DEF Intercepting!EditsKept, Intercepting!AsAsked
<1>3. CASE Intercepting(k)!Start
  BY <1>3, EditsLoaded
<1>4. ASSUME NEW e \in k.calls,
             \/ Intercepting(k)!Save(e)
             \/ \E n \in DOMAIN k.normal : Intercepting(k)!AddRule(e, n)
                    \/ Intercepting(k)!RemoveRule(e, n)
      PROVE  Intercepting(k)!EditsKept'
  BY <1>4, EditsEdited, EditsSaved
<1>5. ASSUME NEW c \in k.conns, Intercepting(k)!ConnStep(c) PROVE Intercepting(k)!EditsKept'
  <2>1. UNCHANGED <<x3, x4, x5, x8, x16, x17>>
    BY <1>5, Carries
  <2> QED
    BY <2>1, EditsLeftAlone
<1>6. ASSUME \/ Intercepting(k)!Stop \/ Intercepting(k)!FetchTargets \/ Intercepting(k)!ResetToken
             \/ Intercepting(k)!SetAccessToken \/ Intercepting(k)!TestConnects
             \/ \E n \in DOMAIN k.normal : Intercepting(k)!TestLooks(n)
      PROVE  Intercepting(k)!EditsKept'
  <2>1. UNCHANGED <<x4, x5, x8, x16, x17>> /\ (x3' => x3)
    BY <1>6 DEF Intercepting!Stop, Intercepting!FetchTargets, Intercepting!ResetToken,
           Intercepting!SetAccessToken,
       Intercepting!TestConnects, Intercepting!TestLooks, Intercepting!disk, Intercepting!history
  <2> QED
    BY <2>1, EditsLeftAlone
<1> QED
  BY <1>1, <1>2, <1>3, <1>4, <1>5, <1>6 DEF Intercepting!Next, Intercepting!Names

LEMMA InterceptSteps ==
    ASSUME NEW k, Intercepting(k)!ConstantsOK, Intercepting(k)!InterceptInv,
           [Intercepting(k)!Next]_(Intercepting(k)!vars)
    PROVE  Intercepting(k)!InterceptInv'
<1>1. CASE Intercepting(k)!Next
  BY <1>1, InterceptTyped, CleanStays, EditsStay, BaselineStays, TokensStay,
         TestsStay DEF Intercepting!InterceptInv
<1>2. CASE UNCHANGED Intercepting(k)!vars
  <2>1. UNCHANGED <<x1, x2, x3, x4, x5, x6, x7, x8, x9, x10, x11, x12, x13, x14, x15, x16, x17, x18>>
    BY <1>2 DEF Intercepting!vars
  <2>2. Intercepting(k)!TypeOK'
    BY <2>1, UnchangedTyped DEF Intercepting!InterceptInv, Intercepting!TypeOK
  <2>3. Intercepting(k)!EditsKept'
    BY <2>1, EditsLeftAlone DEF Intercepting!InterceptInv
  <2>4. Intercepting(k)!EndsClean' /\ Intercepting(k)!BaselineKnows' /\ Intercepting(k)!TokensFollow'
        /\ Intercepting(k)!TestIsRecent'
    BY <2>1 DEF Intercepting!InterceptInv, Intercepting!EndsClean, Intercepting!BaselineKnows,
       Intercepting!TokensFollow, Intercepting!TestIsRecent, Intercepting!TestTellsTruth,
           Intercepting!Unsaved,
       Intercepting!Idle, Intercepting!SupportedHosts, Intercepting!MergedTargets,
           Intercepting!Effective,
       Intercepting!NoEdit, Intercepting!Client
  <2> QED
    BY <2>2, <2>3, <2>4 DEF Intercepting!InterceptInv
<1> QED
  BY <1>1, <1>2

\* What the invariant means for the user and for the traffic.
LEMMA InterceptFollows ==
    ASSUME NEW k, Intercepting(k)!ConstantsOK, Intercepting(k)!InterceptInv
    PROVE  Intercepting(k)!InterceptSound
<1> USE DEF Intercepting!InterceptInv
<1>1. Intercepting(k)!EditsInForce
  <2> SUFFICES ASSUME x3, NEW h \in Intercepting(k)!Hosts \ x17
               PROVE  /\ x16[h] = "add" => h \in Intercepting(k)!Effective
                      /\ x16[h] = "remove" => h \notin Intercepting(k)!Effective
    BY DEF Intercepting!EditsInForce
  <2>1. Intercepting(k)!AsAsked(h, x4) /\ x4.added \cap x4.removed = {}
    BY DEF Intercepting!EditsKept
  <2> QED
    BY <2>1 DEF Intercepting!AsAsked, Intercepting!Effective
<1>2. Intercepting(k)!TargetsCovered
  BY DEF Intercepting!BaselineKnows, Intercepting!TargetsCovered, Intercepting!Effective
<1>3. Intercepting(k)!TokensAgree
  <2>1. x10 \in Nat /\ x11 \in Nat /\ x12 \in Nat /\ k.tokens \in Nat
    <3>1. k.tokens \in Nat /\ x10 \in 0 .. k.tokens /\ x11 \in 0 .. k.tokens /\ x12 \in 0 .. k.tokens
      BY InterceptTypes
    <3> QED
      BY <3>1
  <2>2. CASE ~ x2
    BY <2>2 DEF Intercepting!EndsClean, Intercepting!TokensAgree, Intercepting!Idle
  <2>3. CASE x2
    <3>1. ASSUME NEW c \in k.conns, x14[c].at = "answered",
                 x14[c].answer = "refused" PROVE x14[c].key < x10
      <4>1. x14[c].key < x11 /\ x11 <= x10
        BY <2>3, <3>1 DEF Intercepting!TokensFollow
      <4>2. x14[c].key \in 0 .. k.tokens
        <5>1. Intercepting(k)!Idle.at = "idle"
          BY DEF Intercepting!Idle
        <5> QED
          BY <3>1, <5>1 DEF Intercepting!TypeOK, Intercepting!TrafficTypes
      <4> QED
        BY <2>1, <4>1, <4>2
    <3> QED
      BY <2>3, <3>1 DEF Intercepting!TokensFollow, Intercepting!TokensAgree
  <2> QED
    BY <2>2, <2>3
<1>4. Intercepting(k)!TestTellsTruth
  BY DEF Intercepting!TestIsRecent
<1> QED
  BY <1>1, <1>2, <1>3, <1>4 DEF Intercepting!InterceptSound

\* The desktop's proxy intercepts what the user and the targets say, with the
\* token of the gateway behind it, and its test tells so, for any hosts,
\* targets, edits, connections, restarts and failing writes.
THEOREM InterceptsAsAsked ==
    ASSUME NEW k, Intercepting(k)!ConstantsOK
    PROVE  Intercepting(k)!Spec => []Intercepting(k)!InterceptSound
<1>1. Intercepting(k)!Init => Intercepting(k)!InterceptInv
  BY InterceptStarts
<1>2. Intercepting(k)!InterceptInv /\ [Intercepting(k)!Next]_(Intercepting(k)!vars)
          => Intercepting(k)!InterceptInv'
  BY InterceptSteps
<1>3. Intercepting(k)!InterceptInv => Intercepting(k)!InterceptSound
  BY InterceptFollows
<1> QED
  BY <1>1, <1>2, <1>3, PTL DEF Intercepting!Spec
=============================================================================
