------------------------------ MODULE Admission ------------------------------
(***************************************************************************)
(* How the gateway admits a chat request (gateway/ratelimit.go, called by  *)
(* handleChat): the monthly cost limit, the sliding window of all requests,*)
(* the global concurrency, the sliding window of the plan's first channel; *)
(* and what a finished request adds to the accounts these checks read.     *)
(* Every check and every update takes its own lock, so requests get in     *)
(* between any two of them.                                                *)
(*                                                                         *)
(* Windows hold the ages of their entries in ticks.  A tick is a fraction  *)
(* of the minute the windows cover, Minute ticks in all.                   *)
(***************************************************************************)
EXTENDS Integers, Sequences, SequencesExt

CONSTANTS
    Requests,           \* handler goroutines
    Channels,
    Overridden,         \* channels with an entry in ChannelOverrides
    Global,             \* rateLimitGlobalKey
    RPM, TPM,           \* [window -> Nat], 0 for no limit; effectiveRateLimit
    MinInterval,        \* [window -> Nat] ticks between two requests
    MaxWait,            \* ticks admit retries for
    MaxConcurrent,      \* global, 0 for no limit
    CostLimit,          \* monthly, in units of the cost of one request
    Minute

Windows == {Global} \union Overridden

ASSUME AdmissionAssumption ==
    /\ IsFiniteSet(Requests)
    /\ Overridden \subseteq Channels /\ Global \notin Channels
    /\ RPM \in [Windows -> Nat] /\ TPM \in [Windows -> Nat]
    /\ MinInterval \in [Windows -> 0 .. Minute]
    /\ MaxConcurrent \in Nat /\ MaxWait \in Nat
    /\ CostLimit \in Nat \ {0} /\ Minute \in Nat \ {0}

VARIABLES
    reqs,       \* ages of the requests each window admitted, oldest first
    samples,    \* ages of the token samples of each window, oldest first
    inflight,   \* rateLimiter.inflight
    cost,       \* MonthCostUSD of the usage service
    sent,       \* ages of the requests sent to each overridden channel (history)
    pc,         \* where a handler is
    wait,       \* ticks until its admit gives up
    target,     \* plan[0].Channel, then the channel that answers
    pending     \* windows it has still to add its tokens to

accounts == <<reqs, samples, inflight, cost, sent>>
vars == <<reqs, samples, inflight, cost, sent, pc, wait, target, pending>>

Ages == 0 .. Minute

\* Ages are within the minute and no window holds more requests than its RPM.
TypeOK ==
    /\ \A k \in Windows : /\ ToSet(reqs[k]) \subseteq Ages
                          /\ ToSet(samples[k]) \subseteq Ages
                          /\ RPM[k] > 0 => Len(reqs[k]) <= RPM[k]
    /\ \A c \in Overridden : ToSet(sent[c]) \subseteq Ages
    /\ inflight \in Nat /\ cost \in Nat
    /\ pc \in [Requests -> {"idle", "global", "slot", "plan", "channel", "forward",
                            "usage", "tokens", "release"}]
    /\ wait \in [Requests -> 0 .. MaxWait]
    /\ target \in [Requests -> Channels]
    /\ pending \in [Requests -> SUBSET Windows]

Init ==
    /\ reqs = [k \in Windows |-> <<>>]
    /\ samples = [k \in Windows |-> <<>>]
    /\ sent = [c \in Overridden |-> <<>>]
    /\ inflight = 0 /\ cost = 0
    /\ pc = [r \in Requests |-> "idle"]
    /\ wait = [r \in Requests |-> 0]
    /\ target \in [Requests -> Channels]
    /\ pending = [r \in Requests |-> {}]

Goto(r, there) == pc' = [pc EXCEPT ![r] = there]

-----------------------------------------------------------------------------
\* Mutant of CheckCost: the account is not looked at.
CheckNoCost(r) ==
    /\ pc[r] = "idle"
    /\ cost < CostLimit + 9
    /\ Goto(r, "global")
    /\ wait' = [wait EXCEPT ![r] = MaxWait]
    /\ UNCHANGED <<accounts, target, pending>>

\* Month's cost so far against the limit; a request over it is answered 402 and
\* leaves no trace.
CheckCost(r) ==
    /\ pc[r] = "idle"
    /\ cost < CostLimit
    /\ Goto(r, "global")
    /\ wait' = [wait EXCEPT ![r] = MaxWait]
    /\ UNCHANGED <<accounts, target, pending>>

\* Mutant of MayAdmit: off by one at the RPM.
MayAdmitOneMore(k) ==
    /\ reqs[k] # <<>> => Last(reqs[k]) >= MinInterval[k]
    /\ RPM[k] > 0 => Len(reqs[k]) <= RPM[k]
    /\ TPM[k] > 0 => Len(samples[k]) < TPM[k]

\* tryAdmit's three conditions on window k.
MayAdmit(k) ==
    /\ reqs[k] # <<>> => Last(reqs[k]) >= MinInterval[k]
    /\ RPM[k] > 0 => Len(reqs[k]) < RPM[k]
    /\ TPM[k] > 0 => Len(samples[k]) < TPM[k]

Admit(k) ==
    /\ MayAdmit(k)
    /\ reqs' = [reqs EXCEPT ![k] = Append(@, 0)]

\* The deadline has passed and the last retry failed.
GiveUp(r, k) == wait[r] = 0 /\ ~MayAdmit(k)

AdmitGlobal(r) ==
    /\ pc[r] = "global" /\ Admit(Global)
    /\ Goto(r, "slot")
    /\ UNCHANGED <<samples, inflight, cost, sent, wait, target, pending>>

\* Mutant of RefuseGlobal: no deadline.
RefuseNever(r) == FALSE /\ UNCHANGED vars

RefuseGlobal(r) ==
    /\ pc[r] = "global" /\ GiveUp(r, Global)
    /\ Goto(r, "idle")
    /\ UNCHANGED <<accounts, wait, target, pending>>

\* acquireConcurrent counts also when there is no limit.  A request refused
\* here has already used up one of the window's.
AcquireConcurrent(r) ==
    /\ pc[r] = "slot" /\ (MaxConcurrent > 0 => inflight < MaxConcurrent)
    /\ inflight' = inflight + 1
    /\ Goto(r, "plan")
    /\ UNCHANGED <<reqs, samples, cost, sent, wait, target, pending>>

RefuseConcurrent(r) ==
    /\ pc[r] = "slot" /\ MaxConcurrent > 0 /\ inflight >= MaxConcurrent
    /\ Goto(r, "idle")
    /\ UNCHANGED <<accounts, wait, target, pending>>

\* ResolveChatPlan fails, or the request body does not parse.
NoPlan(r) ==
    /\ pc[r] = "plan"
    /\ Goto(r, "release")
    /\ UNCHANGED <<accounts, wait, target, pending>>

\* A plan whose first channel has no override is not checked again.
Resolve(r, first) ==
    /\ pc[r] = "plan"
    /\ target' = [target EXCEPT ![r] = first]
    /\ IF first \in Overridden
       THEN Goto(r, "channel") /\ wait' = [wait EXCEPT ![r] = MaxWait]
       ELSE Goto(r, "forward") /\ UNCHANGED wait
    /\ UNCHANGED <<accounts, pending>>

AdmitChannel(r) ==
    /\ pc[r] = "channel" /\ Admit(target[r])
    /\ Goto(r, "forward")
    /\ UNCHANGED <<samples, inflight, cost, sent, wait, target, pending>>

\* Mutant of RefuseChannel: the deferred release is forgotten.
RefuseChannelLeaks(r) ==
    /\ pc[r] = "channel" /\ GiveUp(r, target[r])
    /\ Goto(r, "idle")
    /\ UNCHANGED <<accounts, wait, target, pending>>

RefuseChannel(r) ==
    /\ pc[r] = "channel" /\ GiveUp(r, target[r])
    /\ Goto(r, "release")
    /\ UNCHANGED <<accounts, wait, target, pending>>

\* forwardRequest sends it to a channel of its own choice: session, health and
\* penalties reorder the plan, and a fallback leaves its first channel.
Forward(r, used) ==
    /\ pc[r] = "forward"
    /\ target' = [target EXCEPT ![r] = used]
    /\ sent' = IF used \in Overridden
               THEN [sent EXCEPT ![used] = Append(@, 0)] ELSE sent
    /\ Goto(r, "usage")
    /\ UNCHANGED <<reqs, samples, inflight, cost, wait, pending>>

\* Blocked as a prompt injection, or no candidate took it.
NotSent(r) ==
    /\ pc[r] = "forward"
    /\ Goto(r, "release")
    /\ UNCHANGED <<accounts, wait, target, pending>>

\* recordUsageAndTokens: first the usage service, then the global window, then
\* the channel's; an answer without usage is not charged and adds no tokens.
RecordUsage(r) ==
    /\ pc[r] = "usage"
    /\ cost' = cost + 1
    /\ pending' = [pending EXCEPT ![r] = {Global} \union ({target[r]} \intersect Overridden)]
    /\ Goto(r, "tokens")
    /\ UNCHANGED <<reqs, samples, inflight, sent, wait, target>>

NoUsage(r) ==
    /\ pc[r] = "usage"
    /\ Goto(r, "release")
    /\ UNCHANGED <<accounts, wait, target, pending>>

\* The samples of a window without a TPM limit are never read and not kept here.
AddTokens(r, k) ==
    /\ pc[r] = "tokens"
    /\ k \in pending[r] /\ (k # Global => Global \notin pending[r])
    /\ samples' = IF TPM[k] > 0 THEN [samples EXCEPT ![k] = Append(@, 0)] ELSE samples
    /\ pending' = [pending EXCEPT ![r] = @ \ {k}]
    /\ Goto(r, IF pending[r] = {k} THEN "release" ELSE "tokens")
    /\ UNCHANGED <<reqs, inflight, cost, sent, wait, target>>

ReleaseConcurrent(r) ==
    /\ pc[r] = "release"
    /\ inflight' = IF inflight > 0 THEN inflight - 1 ELSE 0
    /\ Goto(r, "idle")
    /\ UNCHANGED <<reqs, samples, cost, sent, wait, target, pending>>

MonthEnds ==
    /\ cost > 0
    /\ cost' = 0
    /\ UNCHANGED <<reqs, samples, inflight, sent, pc, wait, target, pending>>

\* pruneTimes and pruneSamples stop at the first entry that is not older than
\* the minute.  They run whenever a window is looked at; nobody sees the entries
\* they drop in between.
Expired(ages) == Cardinality({i \in DOMAIN ages : \A j \in 1 .. i : ages[j] >= Minute})

Older(ages) == [i \in 1 .. Len(ages) - Expired(ages) |-> ages[Expired(ages) + i] + 1]

Tick ==
    /\ reqs' = [k \in Windows |-> Older(reqs[k])]
    /\ samples' = [k \in Windows |-> Older(samples[k])]
    /\ sent' = [c \in Overridden |-> Older(sent[c])]
    /\ wait' = [r \in Requests |-> IF wait[r] > 0 THEN wait[r] - 1 ELSE 0]
    /\ UNCHANGED <<inflight, cost, pc, target, pending>>

-----------------------------------------------------------------------------
Progress(r) ==
    \/ AdmitGlobal(r) \/ RefuseGlobal(r)
    \/ AcquireConcurrent(r) \/ RefuseConcurrent(r)
    \/ NoPlan(r) \/ \E c \in Channels : Resolve(r, c)
    \/ AdmitChannel(r) \/ RefuseChannel(r)
    \/ NotSent(r) \/ \E c \in Channels : Forward(r, c)
    \/ RecordUsage(r) \/ NoUsage(r) \/ \E k \in Windows : AddTokens(r, k)
    \/ ReleaseConcurrent(r)

Next ==
    \/ \E r \in Requests : CheckCost(r) \/ Progress(r)
    \/ MonthEnds
    \/ Tick

\* A handler that can go on does, and time passes; upstream calls time out.
Fairness == WF_vars(Tick) /\ \A r \in Requests : WF_vars(Progress(r))

Spec == Init /\ [][Next]_vars /\ Fairness

-----------------------------------------------------------------------------
Admitted == {r \in Requests : pc[r] \in {"plan", "channel", "forward", "usage",
                                         "tokens", "release"}}

\* Requests under way that are still to be charged, if they are charged at all.
Uncharged == {r \in Requests : pc[r] \in {"global", "slot", "plan", "channel",
                                          "forward", "usage"}}

\* The global counter is the number of handlers that hold a slot, on every way
\* out of handleChat, and stays within the limit.
ConcurrencyExact ==
    /\ inflight = Cardinality(Admitted)
    /\ MaxConcurrent > 0 => inflight <= MaxConcurrent

\* The cost limit is checked before a request and charged after it, so requests
\* under way may overshoot it, but by less than one request each.
CostOvershootBounded ==
    cost + Cardinality(Uncharged) < CostLimit + Cardinality(Requests)

\* Every request gets an answer: no refusal leaves it waiting for a window that
\* others keep full.
RequestEnds == \A r \in Requests : pc[r] # "idle" ~> pc[r] = "idle"

\* "The target channel is known, apply its rate limit": no more requests are
\* sent to an overridden channel within a minute than its RPM.
ChannelRPMRespected ==
    \A c \in Overridden : RPM[c] > 0 => Len(sent[c]) <= RPM[c]

=============================================================================
