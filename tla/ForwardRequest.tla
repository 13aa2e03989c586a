---------------------------- MODULE ForwardRequest ----------------------------
(***************************************************************************)
(* gateway.Service.forwardRequest: concurrent chat requests walk their     *)
(* candidates and meet in the state the service shares between them - one  *)
(* circuit breaker, one key rotator and one concurrency counter per        *)
(* channel, one cooldown per API key, one penalty per candidate, one       *)
(* pinned candidate per session.                                           *)
(*                                                                         *)
(* A member of Requests is an HTTP handler goroutine; it serves one        *)
(* request after another.  Every shared object has a lock (or an atomic)   *)
(* of its own and no lock spans two of them, so a step of this module is   *)
(* one call on one object, except Begin (which reads the session and the   *)
(* penalties) and Settle (which records the result with three of them).    *)
(***************************************************************************)
EXTENDS Integers, FiniteSets, Breaker, Penalty, Candidates

CONSTANTS
    Requests,           \* handler goroutines
    Channels,
    Steps,              \* candidates: a channel with an upstream model
    ChannelOf,          \* [Steps -> Channels]
    Enterprise,         \* channels with Source "enterprise"
    KeysOf,             \* [Channels -> Seq(API keys)], the order of APIKeys
    MaxConcurrent,      \* [Channels -> Nat], 0 for no limit
    Plans,              \* what ResolveChatPlan may return
    UnhealthySets,      \* which channels may be marked unhealthy meanwhile
    SessionOf,          \* [Requests -> session keys], NoSession for ""
    NoSession,
    NoStep,
    NoKey,
    Failures,           \* how an upstream call may fail, among FailureKinds
    CooldownTicks,      \* ticks a failed key is skipped for (120s)
    StickyEnabled, HealthCheckEnabled, PenaltyEnabled, CooldownEnabled

Keys == UNION {ToSet(KeysOf[c]) : c \in Channels}
Sessions == {SessionOf[r] : r \in Requests} \ {NoSession}

\* What an upstream call can come back with, as far as the code tells apart:
\* 429; 401 or 403; another 4xx; a 5xx; no answer at all.
FailureKinds == {"rate", "auth", "client", "server", "network"}

\* classifier.Classify: a network error has status 0, which no rule knows, so
\* it is not retryable whatever the adapter's Retryable field says.
Retryable == {"rate", "server"}

CountsForBreaker == {"server", "network"}

ShouldRotateKey == {"rate", "auth"}

ASSUME ForwardAssumption ==
    /\ IsFiniteSet(Requests)
    /\ ChannelOf \in [Steps -> Channels]
    /\ MaxConcurrent \in [Channels -> Nat]
    /\ \A c \in Channels : IsInjective(KeysOf[c])
    /\ Failures \subseteq FailureKinds
    /\ CooldownTicks \in Nat \ {0}

VARIABLES
    breaker,    \* Service.circuitBreakers
    index,      \* KeyRotator.index of each channel, modulo its keys
    cooldown,   \* ticks left of each key's entry in CooldownManager
    penalty,    \* PenaltyManager.entries
    session,    \* Resolver.sessions: the step that answered last
    inflight,   \* ConcurrencyLimiter.inflight
    pc,         \* where the goroutine is in forwardRequest
    plan,       \* the ordered candidates still to try, the current one first
    tried,      \* keys of the current candidate the rotator has handed out
    key,        \* the key this turn of the key loop is about
    result      \* execErr and upstreamResp: "none" is nil for both

shared == <<breaker, index, cooldown, penalty, session, inflight>>
local == <<pc, plan, tried, key, result>>
vars == <<breaker, index, cooldown, penalty, session, inflight,
          pc, plan, tried, key, result>>

Current(r) == Head(plan[r])
Channel(r) == ChannelOf[Current(r)]
Rotates(r) == Len(KeysOf[Channel(r)]) > 1
Limited(c) == MaxConcurrent[c] > 0

-----------------------------------------------------------------------------
SharedTypeOK ==
    /\ breaker \in [Channels -> BreakerState]
    /\ index \in [Channels -> Nat]
    /\ cooldown \in [Keys -> 0 .. CooldownTicks]
    /\ penalty \in [Steps -> PenaltyEntry]
    /\ inflight \in [Channels -> Int]

LocalTypeOK ==
    /\ session \in [Sessions -> Steps \union {NoStep}]
    /\ pc \in [Requests -> {"idle", "step", "acquire", "pick", "check", "call",
                            "release", "settle"}]
    /\ \A r \in Requests : /\ ToSet(plan[r]) \subseteq Steps
                           /\ pc[r] \notin {"idle", "step"} => plan[r] # <<>>
    /\ tried \in [Requests -> SUBSET Keys]
    /\ key \in [Requests -> Keys \union {NoKey}]
    /\ result \in [Requests -> {"none", "ok"} \union Failures]

\* Every variable holds a value of the Go type it stands for, and a request
\* that is past the top of the loop has a current candidate.
TypeOK == SharedTypeOK /\ LocalTypeOK

Init ==
    /\ breaker = [c \in Channels |-> NewBreaker]
    /\ index = [c \in Channels |-> 0]
    /\ cooldown = [k \in Keys |-> 0]
    /\ penalty = [s \in Steps |-> NoPenalty]
    /\ session = [k \in Sessions |-> NoStep]
    /\ inflight = [c \in Channels |-> 0]
    /\ pc = [r \in Requests |-> "idle"]
    /\ plan = [r \in Requests |-> <<>>]
    /\ tried = [r \in Requests |-> {}]
    /\ key = [r \in Requests |-> NoKey]
    /\ result = [r \in Requests |-> "none"]

-----------------------------------------------------------------------------
Pinned(r) ==
    IF StickyEnabled /\ SessionOf[r] # NoSession THEN session[SessionOf[r]] ELSE NoStep

\* The four passes over the candidates before the loop, in the code's order.
Ordered(r, steps, unhealthy) ==
    LET On(channels) == {s \in Steps : ChannelOf[s] \in channels}
        sticky == BySession(steps, Pinned(r))
        healthy == IF HealthCheckEnabled THEN Healthy(sticky, On(unhealthy)) ELSE sticky
        byok == EnterpriseFirst(healthy, On(Enterprise))
    IN  IF PenaltyEnabled
        THEN ByPenalty(byok, [s \in Steps |-> AfterGetPenalty(penalty[s]).penalty])
        ELSE byok

\* The channels' health is part of the plan, as it was when it was resolved.
\* A plan of one candidate is not sorted and its penalty is not read.
Begin(r, steps, unhealthy) ==
    /\ pc[r] = "idle"
    /\ pc' = [pc EXCEPT ![r] = "step"]
    /\ plan' = [plan EXCEPT ![r] = Ordered(r, steps, unhealthy)]
    /\ penalty' = [s \in Steps |->
                     IF PenaltyEnabled /\ Len(plan'[r]) > 1 /\ s \in ToSet(plan'[r])
                     THEN AfterGetPenalty(penalty[s]) ELSE penalty[s]]
    /\ UNCHANGED <<breaker, index, cooldown, session, inflight, tried, key, result>>

\* Mutant of NextCandidate: the loop does not advance.
SameCandidate(r) ==
    /\ pc' = [pc EXCEPT ![r] = "step"]
    /\ result' = [result EXCEPT ![r] = "none"]
    /\ UNCHANGED <<plan, tried, key>>

\* The loop's "continue".
NextCandidate(r) ==
    /\ pc' = [pc EXCEPT ![r] = "step"]
    /\ plan' = [plan EXCEPT ![r] = Tail(@)]
    /\ result' = [result EXCEPT ![r] = "none"]
    /\ UNCHANGED <<tried, key>>

\* The handler returns: with an answer, an error, or a panic.
Return(r) ==
    /\ pc' = [pc EXCEPT ![r] = "idle"]
    /\ plan' = [plan EXCEPT ![r] = <<>>]
    /\ result' = [result EXCEPT ![r] = "none"]
    /\ UNCHANGED <<tried, key>>

Exhausted(r) ==
    /\ pc[r] = "step" /\ plan[r] = <<>>
    /\ Return(r)
    /\ UNCHANGED shared

\* Mutant of Allow: the breaker's answer is ignored.
AllowAlways(r) ==
    /\ pc[r] = "step" /\ plan[r] # <<>>
    /\ pc' = [pc EXCEPT ![r] = "acquire"]
    /\ UNCHANGED <<shared, plan, tried, key, result>>

Allow(r) ==
    /\ pc[r] = "step" /\ plan[r] # <<>>
    /\ Allows(breaker[Channel(r)])
    /\ breaker' = [breaker EXCEPT ![Channel(r)] = AfterAllow(@)]
    /\ pc' = [pc EXCEPT ![r] = "acquire"]
    /\ UNCHANGED <<index, cooldown, penalty, session, inflight, plan, tried, key, result>>

CircuitOpen(r) ==
    /\ pc[r] = "step" /\ plan[r] # <<>>
    /\ ~Allows(breaker[Channel(r)])
    /\ NextCandidate(r)
    /\ UNCHANGED shared

\* providerConfigForChannel fails, for example because the keychain does.
ConfigurationError(r) ==
    /\ pc[r] = "acquire"
    /\ NextCandidate(r)
    /\ UNCHANGED shared

\* Mutant of Acquire: off by one at the limit.
AcquireOneMore(r) ==
    /\ pc[r] = "acquire"
    /\ Limited(Channel(r)) => inflight[Channel(r)] <= MaxConcurrent[Channel(r)]
    /\ inflight' = [inflight EXCEPT ![Channel(r)] = IF Limited(Channel(r)) THEN @ + 1 ELSE @]
    /\ pc' = [pc EXCEPT ![r] = IF Rotates(r) THEN "pick" ELSE "call"]
    /\ UNCHANGED <<breaker, index, cooldown, penalty, session, plan, tried, key, result>>

Acquire(r) ==
    /\ pc[r] = "acquire"
    /\ Limited(Channel(r)) => inflight[Channel(r)] < MaxConcurrent[Channel(r)]
    /\ inflight' = [inflight EXCEPT ![Channel(r)] = IF Limited(Channel(r)) THEN @ + 1 ELSE @]
    /\ pc' = [pc EXCEPT ![r] = IF Rotates(r) THEN "pick" ELSE "call"]
    /\ UNCHANGED <<breaker, index, cooldown, penalty, session, plan, tried, key, result>>

\* Acquire gives up when the channel is full, and also when its one
\* compare-and-swap loses against another request's (ConcurrencyLimiter).
Races(q, r) ==
    q # r /\ pc[q] \in {"acquire", "release"} /\ Channel(q) = Channel(r)

AtLimit(r) ==
    /\ pc[r] = "acquire" /\ Limited(Channel(r))
    /\ \/ inflight[Channel(r)] >= MaxConcurrent[Channel(r)]
       \/ \E q \in Requests : Races(q, r)
    /\ NextCandidate(r)
    /\ UNCHANGED shared

\* Out of the key loop, whose variables end with it.
LeaveKeys(r) ==
    /\ pc' = [pc EXCEPT ![r] = "release"]
    /\ tried' = [tried EXCEPT ![r] = {}]
    /\ key' = [key EXCEPT ![r] = NoKey]

\* KeyRotator.Next: the key under the index, and where the index is after it.
KeyOfTurn(c) == KeysOf[c][index[c] + 1]
IndexAfter(c) == (index[c] + 1) % Len(KeysOf[c])

\* The index is shared by all requests, so a key comes back sooner than after a
\* full round when others rotate too.
NextKey(r) ==
    /\ pc[r] = "pick" /\ tried[r] # ToSet(KeysOf[Channel(r)])
    /\ index' = [index EXCEPT ![Channel(r)] = IndexAfter(Channel(r))]
    /\ LET next == KeyOfTurn(Channel(r))
       IN  \/ /\ next \in tried[r]
              /\ LeaveKeys(r)
           \/ /\ next \notin tried[r]
              /\ pc' = [pc EXCEPT ![r] = "check"]
              /\ tried' = [tried EXCEPT ![r] = @ \union {next}]
              /\ key' = [key EXCEPT ![r] = next]
    /\ UNCHANGED <<breaker, cooldown, penalty, session, inflight, plan, result>>

\* Mutant of AllKeysTried: the way out of the key loop misses the Release.
AllKeysTriedLeaks(r) ==
    /\ pc[r] = "pick" /\ tried[r] = ToSet(KeysOf[Channel(r)])
    /\ pc' = [pc EXCEPT ![r] = "settle"]
    /\ UNCHANGED <<shared, plan, tried, key, result>>

AllKeysTried(r) ==
    /\ pc[r] = "pick" /\ tried[r] = ToSet(KeysOf[Channel(r)])
    /\ LeaveKeys(r)
    /\ UNCHANGED <<shared, plan, result>>

\* A key on cooldown is skipped; nobody holds a lock until it is used.
SkipKey(r) ==
    /\ pc[r] = "check"
    /\ CooldownEnabled /\ cooldown[key[r]] > 0
    /\ pc' = [pc EXCEPT ![r] = "pick"]
    /\ key' = [key EXCEPT ![r] = NoKey]
    /\ UNCHANGED <<shared, plan, tried, result>>

UseKey(r) ==
    /\ pc[r] = "check"
    /\ ~(CooldownEnabled /\ cooldown[key[r]] > 0)
    /\ pc' = [pc EXCEPT ![r] = "call"]
    /\ UNCHANGED <<shared, plan, tried, key, result>>

CallSucceeds(r) ==
    /\ pc[r] = "call"
    /\ result' = [result EXCEPT ![r] = "ok"]
    /\ LeaveKeys(r)
    /\ UNCHANGED <<shared, plan>>

\* With several keys every kind of failure moves on to the next key, and the
\* failures that are the key's own put it on cooldown.
CallFails(r, failure) ==
    /\ pc[r] = "call"
    /\ result' = [result EXCEPT ![r] = failure]
    /\ IF Rotates(r)
       THEN /\ pc' = [pc EXCEPT ![r] = "pick"]
            /\ key' = [key EXCEPT ![r] = NoKey]
            /\ UNCHANGED tried
       ELSE LeaveKeys(r)
    /\ cooldown' = IF Rotates(r) /\ CooldownEnabled /\ failure \in ShouldRotateKey
                   THEN [cooldown EXCEPT ![key[r]] = CooldownTicks] ELSE cooldown
    /\ UNCHANGED <<breaker, index, penalty, session, inflight, plan>>

Release(r) ==
    /\ pc[r] = "release"
    /\ inflight' = [inflight EXCEPT ![Channel(r)] =
                      IF Limited(Channel(r)) /\ @ > 0 THEN @ - 1 ELSE @]
    /\ pc' = [pc EXCEPT ![r] = "settle"]
    /\ UNCHANGED <<breaker, index, cooldown, penalty, session, plan, tried, key, result>>

\* execErr is nil: the candidate is credited before upstreamResp is used.  If
\* no key was called upstreamResp is nil too and reading its Status panics,
\* which ends this request alone (net/http recovers).
SettleSuccess(r) ==
    /\ pc[r] = "settle" /\ result[r] \in {"none", "ok"}
    /\ breaker' = [breaker EXCEPT ![Channel(r)] = AfterSuccess(@)]
    /\ penalty' = [penalty EXCEPT ![Current(r)] = AfterPenaltySuccess(@)]
    /\ session' = IF SessionOf[r] # NoSession
                  THEN [session EXCEPT ![SessionOf[r]] = Current(r)] ELSE session
    /\ Return(r)
    /\ UNCHANGED <<index, cooldown, inflight>>

SettleFailure(r) ==
    /\ pc[r] = "settle" /\ result[r] \in Failures
    /\ breaker' = IF result[r] \in CountsForBreaker
                  THEN [breaker EXCEPT ![Channel(r)] = AfterFailure(@)] ELSE breaker
    /\ penalty' = IF result[r] = "rate" /\ PenaltyEnabled
                  THEN [penalty EXCEPT ![Current(r)] = AfterRateLimit(@)] ELSE penalty
    /\ IF result[r] \in Retryable THEN NextCandidate(r) ELSE Return(r)
    /\ UNCHANGED <<index, cooldown, session, inflight>>

\* The session's TTL runs out.
SessionExpires(k) ==
    /\ session[k] # NoStep
    /\ session' = [session EXCEPT ![k] = NoStep]
    /\ UNCHANGED <<breaker, index, cooldown, penalty, inflight, local>>

Tick ==
    /\ breaker' = [c \in Channels |-> AfterTick(breaker[c])]
    /\ cooldown' = [k \in Keys |-> IF cooldown[k] > 0 THEN cooldown[k] - 1 ELSE 0]
    /\ penalty' = [s \in Steps |-> AfterPenaltyTick(penalty[s])]
    /\ UNCHANGED <<index, session, inflight, local>>

-----------------------------------------------------------------------------
Progress(r) ==
    \/ Exhausted(r) \/ Allow(r) \/ CircuitOpen(r)
    \/ ConfigurationError(r) \/ Acquire(r) \/ AtLimit(r)
    \/ NextKey(r) \/ AllKeysTried(r) \/ SkipKey(r) \/ UseKey(r)
    \/ CallSucceeds(r) \/ \E f \in Failures : CallFails(r, f)
    \/ Release(r) \/ SettleSuccess(r) \/ SettleFailure(r)

Next ==
    \/ \E r \in Requests :
         \/ \E steps \in Plans, unhealthy \in UnhealthySets : Begin(r, steps, unhealthy)
         \/ Progress(r)
    \/ \E k \in Sessions : SessionExpires(k)
    \/ Tick

\* Time passes, a goroutine that can run does, and every upstream call ends:
\* the adapters' http.Client has a timeout.  Nothing obliges a client to send
\* another request.
Fairness == WF_vars(Tick) /\ \A r \in Requests : WF_vars(Progress(r))

Spec == Init /\ [][Next]_vars /\ Fairness

-----------------------------------------------------------------------------
\* Requests the breaker of c has let through and that have not settled, and
\* those of them that hold one of its concurrency slots.
Through(c) ==
    {r \in Requests : /\ pc[r] \in {"acquire", "pick", "check", "call", "release", "settle"}
                      /\ Channel(r) = c}

Holders(c) ==
    {r \in Requests : /\ pc[r] \in {"pick", "check", "call", "release"}
                      /\ Channel(r) = c}

\* The counter of a limited channel is exactly the number of requests between
\* their Acquire and their Release: no path through the key loop, neither the
\* early break nor a failure, leaks a slot or gives one back twice.
SlotsConserved ==
    \A c \in Channels : Limited(c) => inflight[c] = Cardinality(Holders(c))

\* A channel never serves more requests at once than its MaxConcurrent.
LimitRespected ==
    \A c \in Channels : Limited(c) => Cardinality(Holders(c)) <= MaxConcurrent[c]

\* RecordFailure has no cap, yet the failure counter runs past its threshold
\* by less than the number of concurrent requests: once the breaker is open
\* only requests it let through earlier can still fail.
FailuresBounded ==
    \A c \in Channels :
        breaker[c].failures + Cardinality(Through(c)) < MaxFailures + Cardinality(Requests)

\* While a breaker is open no request gets past it: those on their way to the
\* channel only become fewer.
OpenBreakerAdmitsNone ==
    [][\A c \in Channels : IsOpen(breaker[c]) => Through(c)' \subseteq Through(c)]_vars

\* Whatever the others do to the breakers, rotators and slots it meets, a
\* request comes to an end.
RequestEnds == \A r \in Requests : pc[r] # "idle" ~> pc[r] = "idle"

\* An open breaker does not stay open: the failures of requests it let through
\* earlier do restart its timeout, but they run out.
BreakerRecovers == \A c \in Channels : IsOpen(breaker[c]) ~> ~IsOpen(breaker[c])

\* A candidate is credited with a success only if its upstream answered: the
\* comment on the key loop says keys on cooldown are skipped.
CreditNeedsAnswer ==
    \A r \in Requests : pc[r] = "settle" => result[r] # "none"

\* One bad key does not fail its channel: a request gives a channel up over a
\* key's own failure only when it has been through every key.
NoKeyPassedOver ==
    [][\A r \in Requests :
         pc[r] = "pick" /\ pc'[r] = "release" /\ result[r] \in ShouldRotateKey
            => tried[r] = ToSet(KeysOf[Channel(r)])]_vars

=============================================================================
