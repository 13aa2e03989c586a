---------------------------- MODULE RelayLimiter ----------------------------
(***************************************************************************)
(* The relay's rate limiter, internal/ratelimit/limiter.go. A request is   *)
(* counted against its user and then against its device, each under the    *)
(* limiter's lock; a bucket is made when its key is first seen, refilled   *)
(* when it is next asked, and deleted by CleanupLoop when nobody has asked *)
(* for five minutes. A bucket of rate r holds r tokens and gains r in a    *)
(* minute, so with a token of Cost parts and a unit of time in which one   *)
(* part is gained, a minute is Burst units and a full bucket Burst parts.  *)
(***************************************************************************)
EXTENDS Naturals, Sequences

CONSTANTS
    Keys,           \* users and devices
    KeysOf,         \* per request, its keys in the order they are counted
    Burst,          \* the rate, in parts; and a minute
    Cost            \* a token, in parts

Requests == DOMAIN KeysOf

ConstantsOK ==
    /\ Burst \in Nat /\ Cost \in Nat \ {0} /\ Cost <= Burst
    /\ \A r \in Requests : KeysOf[r] \in Seq(Keys) /\ KeysOf[r] # <<>>

VARIABLES
    tokens,     \* per key, bucket.tokens
    idle,       \* per key, the time since bucket.lastTime
    kept,       \* the keys that have a bucket
    next,       \* per request in the middleware, how many keys it has passed
    answer      \* the key last asked about, and the answer

vars == <<tokens, idle, kept, next, answer>>

Forgotten == 5 * Burst

Min2(a, b) == IF a <= b THEN a ELSE b

(* What the bucket of a key holds by now. *)
Refilled(k) == Min2(Burst, tokens[k] + idle[k])

-----------------------------------------------------------------------------
Init ==
    /\ tokens = [k \in Keys |-> 0]
    /\ idle = [k \in Keys |-> 0]
    /\ kept = {}
    /\ next = [r \in Requests |-> 0]
    /\ answer = <<>>

(* The middleware goes on to the next key, or lets the request through;    *)
(* one that is refused keeps what its earlier keys have paid.              *)
Proceed(r, ok) ==
    next' = [next EXCEPT ![r] = IF ok /\ @ + 1 < Len(KeysOf[r]) THEN @ + 1 ELSE 0]

(* Mutant of Stamp: a refused request leaves lastTime as it was. *)
StampPassed(k, ok) == idle' = IF ok THEN [idle EXCEPT ![k] = 0] ELSE idle

(* lastTime is now, of a refused request too. *)
Stamp(k, ok) == idle' = [idle EXCEPT ![k] = 0]

(* allow, for a key without a bucket: a full one, of which one token goes. *)
AllowFirst(r) ==
    LET k == KeysOf[r][next[r] + 1] IN
    /\ k \notin kept
    /\ kept' = kept \cup {k}
    /\ tokens' = [tokens EXCEPT ![k] = Burst - Cost]
    /\ idle' = [idle EXCEPT ![k] = 0]
    /\ answer' = <<k, TRUE>>
    /\ Proceed(r, TRUE)

(* allow, for one with a bucket: refill it, stamp it, take a token. *)
Allow(r) ==
    LET k == KeysOf[r][next[r] + 1]
        ok == Refilled(k) >= Cost
    IN /\ k \in kept
       /\ tokens' = [tokens EXCEPT ![k] = IF ok THEN Refilled(k) - Cost ELSE Refilled(k)]
       /\ Stamp(k, ok)
       /\ answer' = <<k, ok>>
       /\ Proceed(r, ok)
       /\ UNCHANGED kept

(* CleanupLoop, one key: its ticker fires at any time. *)
Cleanup(k) ==
    /\ k \in kept
    /\ idle[k] > Forgotten
    /\ kept' = kept \ {k}
    /\ tokens' = [tokens EXCEPT ![k] = 0]
    /\ idle' = [idle EXCEPT ![k] = 0]
    /\ UNCHANGED <<next, answer>>

(* Time passes; beyond Forgotten the code tells no times apart. *)
Tick ==
    /\ idle' = [k \in Keys |-> IF k \in kept THEN Min2(Forgotten + 1, idle[k] + 1) ELSE 0]
    /\ UNCHANGED <<tokens, kept, next, answer>>

Next ==
    \/ \E r \in Requests : AllowFirst(r) \/ Allow(r)
    \/ \E k \in Keys : Cleanup(k)
    \/ Tick

Spec == Init /\ [][Next]_vars

-----------------------------------------------------------------------------
TypeOK ==
    /\ tokens \in [Keys -> 0 .. Burst]
    /\ idle \in [Keys -> 0 .. Forgotten + 1]
    /\ kept \subseteq Keys
    /\ next \in [Requests -> Nat] /\ \A r \in Requests : next[r] < Len(KeysOf[r])
    /\ answer \in {<<>>} \cup (Keys \X BOOLEAN)

(* The bucket of a key that has none is full. *)
Level == [k \in Keys |-> IF k \in kept THEN Refilled(k) ELSE Burst]

Ideal == INSTANCE TokenBucket WITH parts <- Level

(* Buckets that are refilled when they are asked, and forgotten when they  *)
(* are not, decide every request as buckets that are always there.         *)
IdealStep == Ideal!Next \/ UNCHANGED <<Level, answer>>
IsTokenBucket == Ideal!Spec
=============================================================================
