--------------------------- MODULE Servers_proofs ---------------------------
(***************************************************************************)
(* What the servers' parts of Services keep, for whatever their constants  *)
(* are: the relay's limiter is a token bucket per key, RelayLimiter; its   *)
(* accounts are true, RelayGateway; the platform's rows are as its         *)
(* requests asked, PlatformDirectory, and its schema complete,             *)
(* PlatformDatabase.                                                       *)
(***************************************************************************)
EXTENDS Services, Integers, Sequences, SequenceTheorems, FiniteSetTheorems,
        WellFoundedInduction, TLAPS

-----------------------------------------------------------------------------
\* The relay's limiter, for any keys, any requests and any rate of at least one
\* token. Of the pool x1 .. x5 are tokens, idle, kept, next and answer.
KeyOf(k, r) == k.keysOf[r][x4[r] + 1]

\* The key a request in the middleware is asked about.
LEMMA KeyOfType ==
    ASSUME NEW k, Limiter(k)!ConstantsOK, Limiter(k)!TypeOK, NEW r \in Limiter(k)!Requests
    PROVE  /\ KeyOf(k, r) \in k.keys
           /\ Len(k.keysOf[r]) \in Nat /\ x4[r] \in Nat /\ x4[r] + 1 <= Len(k.keysOf[r])
BY DEF Limiter!ConstantsOK, Limiter!TypeOK, KeyOf

\* A bucket that is refilled is between empty and full.
LEMMA RefilledType ==
    ASSUME NEW k, Limiter(k)!ConstantsOK, Limiter(k)!TypeOK, NEW j \in k.keys
    PROVE  /\ x1[j] \in 0 .. k.burst /\ x2[j] \in Nat /\ Limiter(k)!Refilled(j) \in 0 .. k.burst
           /\ x2[j] >= k.burst => Limiter(k)!Refilled(j) = k.burst
BY DEF Limiter!ConstantsOK, Limiter!TypeOK, Limiter!Refilled, Limiter!Min2, Limiter!Forgotten

LEMMA LevelType ==
    ASSUME NEW k, Limiter(k)!ConstantsOK, Limiter(k)!TypeOK
    PROVE  Limiter(k)!Level \in [k.keys -> 0 .. k.burst]
BY RefilledType DEF Limiter!ConstantsOK, Limiter!Level

LEMMA ProceedType ==
    ASSUME NEW k, Limiter(k)!ConstantsOK, Limiter(k)!TypeOK,
           NEW r \in Limiter(k)!Requests, NEW ok \in BOOLEAN, Limiter(k)!Proceed(r, ok)
    PROVE  /\ x4' \in [Limiter(k)!Requests -> Nat]
           /\ \A q \in Limiter(k)!Requests : x4'[q] < Len(k.keysOf[q])
<1>1. \A q \in Limiter(k)!Requests : Len(k.keysOf[q]) \in Nat /\ Len(k.keysOf[q]) > 0
  BY DEF Limiter!ConstantsOK
<1> QED
  BY <1>1 DEF Limiter!TypeOK, Limiter!Proceed

LEMMA LimiterStarts ==
    ASSUME NEW k, Limiter(k)!ConstantsOK, Limiter(k)!Init
    PROVE  Limiter(k)!TypeOK
<1>1. \A q \in Limiter(k)!Requests : Len(k.keysOf[q]) > 0
  BY DEF Limiter!ConstantsOK
<1> QED
  BY <1>1 DEF Limiter!ConstantsOK, Limiter!Init, Limiter!TypeOK, Limiter!Forgotten

LEMMA LimiterTypeStep ==
    ASSUME NEW k, Limiter(k)!ConstantsOK, Limiter(k)!TypeOK, [Limiter(k)!Next]_(Limiter(k)!vars)
    PROVE  Limiter(k)!TypeOK'
<1>1. ASSUME NEW r \in Limiter(k)!Requests, Limiter(k)!AllowFirst(r) PROVE Limiter(k)!TypeOK'
  <2>1. KeyOf(k, r) \in k.keys
    BY KeyOfType
  <2>2. /\ x4' \in [Limiter(k)!Requests -> Nat]
        /\ \A q \in Limiter(k)!Requests : x4'[q] < Len(k.keysOf[q])
    BY <1>1, ProceedType DEF Limiter!AllowFirst
  <2>3. /\ x1' = [x1 EXCEPT ![KeyOf(k, r)] = k.burst - k.cost]
        /\ x2' = [x2 EXCEPT ![KeyOf(k, r)] = 0]
        /\ x3' = x3 \cup {KeyOf(k, r)} /\ x5' = <<KeyOf(k, r), TRUE>>
    BY <1>1 DEF Limiter!AllowFirst, KeyOf
  <2>4. x1' \in [k.keys -> 0 .. k.burst]
    <3>1. k.burst - k.cost \in 0 .. k.burst
      BY DEF Limiter!ConstantsOK
    <3> QED
      BY <2>1, <2>3, <3>1 DEF Limiter!TypeOK
  <2>5. x2' \in [k.keys -> 0 .. Limiter(k)!Forgotten + 1]
    <3>1. 0 \in 0 .. Limiter(k)!Forgotten + 1
      BY DEF Limiter!ConstantsOK, Limiter!Forgotten
    <3>2. x2 \in [k.keys -> 0 .. Limiter(k)!Forgotten + 1]
      BY DEF Limiter!TypeOK
    <3> QED
      BY <2>3, <3>1, <3>2
  <2>6. x3' \subseteq k.keys /\ x5' \in k.keys \X BOOLEAN
    BY <2>1, <2>3 DEF Limiter!TypeOK
  <2> QED
    BY <2>2, <2>4, <2>5, <2>6 DEF Limiter!TypeOK
<1>2. ASSUME NEW r \in Limiter(k)!Requests, Limiter(k)!Allow(r) PROVE Limiter(k)!TypeOK'
  <2> DEFINE j == KeyOf(k, r)
             ok == Limiter(k)!Refilled(j) >= k.cost
  <2>1. j \in k.keys /\ Limiter(k)!Refilled(j) \in 0 .. k.burst
    BY KeyOfType, RefilledType
  <2>2. ok \in BOOLEAN
    OBVIOUS
  <2>3. /\ x1' = [x1 EXCEPT ![j] = IF ok THEN Limiter(k)!Refilled(j) - k.cost
                                        ELSE Limiter(k)!Refilled(j)]
        /\ x2' = [x2 EXCEPT ![j] = 0]
        /\ x5' = <<j, ok>> /\ Limiter(k)!Proceed(r, ok) /\ x3' = x3
    BY <1>2 DEF Limiter!Allow, Limiter!Stamp, KeyOf
  <2>4. /\ x4' \in [Limiter(k)!Requests -> Nat]
        /\ \A q \in Limiter(k)!Requests : x4'[q] < Len(k.keysOf[q])
    BY <2>2, <2>3, ProceedType
  <2>5. x1' \in [k.keys -> 0 .. k.burst]
    BY <2>1, <2>3 DEF Limiter!ConstantsOK, Limiter!TypeOK
  <2>6. x5' \in k.keys \X BOOLEAN
    BY <2>1, <2>2, <2>3
  <2> QED
    BY <2>3, <2>4, <2>5, <2>6 DEF Limiter!ConstantsOK, Limiter!TypeOK, Limiter!Forgotten
<1>3. ASSUME NEW j \in k.keys, Limiter(k)!Cleanup(j) PROVE Limiter(k)!TypeOK'
  BY <1>3 DEF Limiter!ConstantsOK, Limiter!Cleanup, Limiter!TypeOK, Limiter!Forgotten
<1>4. CASE Limiter(k)!Tick
  BY <1>4 DEF Limiter!ConstantsOK, Limiter!Tick, Limiter!TypeOK, Limiter!Forgotten, Limiter!Min2
<1>5. CASE UNCHANGED Limiter(k)!vars
  BY <1>5 DEF Limiter!vars, Limiter!TypeOK
<1> QED
  BY <1>1, <1>2, <1>3, <1>4, <1>5 DEF Limiter!Next

(* The limiter's state has its type; no bucket holds more than the rate.   *)
THEOREM LimiterTypes ==
    ASSUME NEW k, Limiter(k)!ConstantsOK
    PROVE  Limiter(k)!Spec => []Limiter(k)!TypeOK
<1>1. Limiter(k)!Init => Limiter(k)!TypeOK
  BY LimiterStarts
<1>2. Limiter(k)!TypeOK /\ [Limiter(k)!Next]_(Limiter(k)!vars) => Limiter(k)!TypeOK'
  BY LimiterTypeStep
<1> QED
  BY <1>1, <1>2, PTL DEF Limiter!Spec

\* One bucket's level changes and no other's.
LEMMA LevelOfOne ==
    ASSUME NEW k, Limiter(k)!ConstantsOK, Limiter(k)!TypeOK,
           NEW j \in k.keys, NEW n \in 0 .. k.burst,
           x1' = [x1 EXCEPT ![j] = n], x2' = [x2 EXCEPT ![j] = 0],
           x3' = x3 \cup {j}
    PROVE  Limiter(k)!Level' = [Limiter(k)!Level EXCEPT ![j] = n]
<1>1. ASSUME NEW i \in k.keys PROVE Limiter(k)!Level'[i] = [Limiter(k)!Level EXCEPT ![j] = n][i]
  BY DEF Limiter!ConstantsOK, Limiter!TypeOK, Limiter!Level, Limiter!Refilled, Limiter!Min2
<1> QED
  BY <1>1 DEF Limiter!Level

\* Every step of the limiter is a step of the ideal buckets, or none.
LEMMA LimiterStepIsIdeal ==
    ASSUME NEW k, Limiter(k)!ConstantsOK, Limiter(k)!TypeOK, [Limiter(k)!Next]_(Limiter(k)!vars)
    PROVE  Limiter(k)!IdealStep
<1>1. ASSUME NEW r \in Limiter(k)!Requests, Limiter(k)!AllowFirst(r)
      PROVE  Limiter(k)!Ideal!Pass(KeyOf(k, r))
  <2>1. KeyOf(k, r) \in k.keys /\ KeyOf(k, r) \notin x3
    BY <1>1, KeyOfType DEF Limiter!AllowFirst, KeyOf
  <2>2. Limiter(k)!Level[KeyOf(k, r)] = k.burst
    BY <2>1 DEF Limiter!Level
  <2>3. /\ x1' = [x1 EXCEPT ![KeyOf(k, r)] = k.burst - k.cost]
        /\ x2' = [x2 EXCEPT ![KeyOf(k, r)] = 0]
        /\ x3' = x3 \cup {KeyOf(k, r)} /\ x5' = <<KeyOf(k, r), TRUE>>
    BY <1>1 DEF Limiter!AllowFirst, KeyOf
  <2>4. k.burst - k.cost \in 0 .. k.burst /\ k.burst >= k.cost
    BY DEF Limiter!ConstantsOK
  <2>5. Limiter(k)!Level' = [Limiter(k)!Level EXCEPT ![KeyOf(k, r)] = k.burst - k.cost]
    BY <2>1, <2>3, <2>4, LevelOfOne
  <2> QED
    BY <2>1, <2>2, <2>3, <2>4, <2>5 DEF Limiter!Level, Limiter!Ideal!Pass
<1>2. ASSUME NEW r \in Limiter(k)!Requests, Limiter(k)!Allow(r)
      PROVE  Limiter(k)!Ideal!Pass(KeyOf(k, r)) \/ Limiter(k)!Ideal!Refuse(KeyOf(k, r))
  <2> DEFINE j == KeyOf(k, r)
             ok == Limiter(k)!Refilled(j) >= k.cost
             n == IF ok THEN Limiter(k)!Refilled(j) - k.cost ELSE Limiter(k)!Refilled(j)
  <2>1. j \in k.keys /\ j \in x3 /\ Limiter(k)!Refilled(j) \in 0 .. k.burst
    BY <1>2, KeyOfType, RefilledType DEF Limiter!Allow, KeyOf
  <2>2. /\ x1' = [x1 EXCEPT ![j] = n] /\ x2' = [x2 EXCEPT ![j] = 0]
        /\ x5' = <<j, ok>> /\ x3' = x3
    BY <1>2 DEF Limiter!Allow, Limiter!Stamp, KeyOf
  <2>3. n \in 0 .. k.burst
    BY <2>1 DEF Limiter!ConstantsOK
  <2>4. x3' = x3 \cup {j}
    BY <2>1, <2>2
  <2>5. Limiter(k)!Level' = [Limiter(k)!Level EXCEPT ![j] = n]
    <3> HIDE DEF n, j
    <3> QED
      BY <2>1, <2>2, <2>3, <2>4, LevelOfOne
  <2>6. /\ Limiter(k)!Level[j] = Limiter(k)!Refilled(j)
        /\ Limiter(k)!Level \in [k.keys -> 0 .. k.burst]
    BY <2>1, LevelType DEF Limiter!Level
  <2>7. CASE ok
    <3>1. x5' = <<j, TRUE>>
      BY <2>2, <2>7
    <3> QED
      BY <2>5, <2>6, <2>7, <3>1 DEF Limiter!Ideal!Pass
  <2>8. CASE ~ok
    <3>1. x5' = <<j, FALSE>>
      <4>1. ok = FALSE
        BY <2>8
      <4> QED
        BY <2>2, <4>1
    <3>2. Limiter(k)!Level' = Limiter(k)!Level
      BY <2>1, <2>5, <2>6, <2>8
    <3>3. ~(Limiter(k)!Level[j] >= k.cost) /\ Limiter(k)!Level[j] \in Nat /\ k.cost \in Nat
      BY <2>1, <2>6, <2>8 DEF Limiter!ConstantsOK
    <3> QED
      BY <3>1, <3>2, <3>3 DEF Limiter!Ideal!Refuse
  <2> QED
    BY <2>7, <2>8
<1>3. ASSUME NEW j \in k.keys, Limiter(k)!Cleanup(j) PROVE UNCHANGED <<Limiter(k)!Level, x5>>
  <2>1. j \in x3 /\ Limiter(k)!Refilled(j) = k.burst
    <3>1. j \in x3 /\ x2[j] > 5 * k.burst
      BY <1>3 DEF Limiter!Cleanup, Limiter!Forgotten
    <3>2. k.burst \in Nat /\ x2[j] \in Nat
      BY RefilledType DEF Limiter!ConstantsOK
    <3>3. x2[j] >= k.burst
      BY <3>1, <3>2
    <3> QED
      BY <3>1, <3>3, RefilledType
  <2>2. ASSUME NEW i \in k.keys PROVE Limiter(k)!Level'[i] = Limiter(k)!Level[i]
    BY <1>3, <2>1 DEF Limiter!Cleanup, Limiter!Level, Limiter!Refilled, Limiter!TypeOK
  <2> QED
    BY <1>3, <2>2 DEF Limiter!Cleanup, Limiter!Level
<1>4. CASE Limiter(k)!Tick
  <2>1. ASSUME NEW j \in k.keys
        PROVE  Limiter(k)!Level'[j] = Limiter(k)!Ideal!Min2(k.burst, Limiter(k)!Level[j] + 1)
    <3>1. CASE j \in x3
      <4>1. /\ x1[j] \in 0 .. k.burst /\ x2[j] \in 0 .. 5 * k.burst + 1
            /\ k.burst \in Nat /\ k.burst > 0
        BY DEF Limiter!ConstantsOK, Limiter!TypeOK, Limiter!Forgotten
      <4>2. /\ Limiter(k)!Level[j] = Limiter(k)!Min2(k.burst, x1[j] + x2[j])
            /\ Limiter(k)!Level'[j] =
                    Limiter(k)!Min2(k.burst, x1[j] + Limiter(k)!Min2(5 * k.burst + 1, x2[j] + 1))
        BY <1>4, <3>1 DEF Limiter!Tick, Limiter!Level, Limiter!Refilled, Limiter!Forgotten
      <4> QED
        BY <4>1, <4>2 DEF Limiter!Min2, Limiter!Ideal!Min2
    <3>2. CASE j \notin x3
      BY <1>4, <3>2 DEF Limiter!ConstantsOK, Limiter!Tick, Limiter!Level, Limiter!Ideal!Min2
    <3> QED
      BY <3>1, <3>2
  <2>2. Limiter(k)!Level'
            = [j \in k.keys |-> Limiter(k)!Ideal!Min2(k.burst, Limiter(k)!Level[j] + 1)]
    BY <2>1 DEF Limiter!Level
  <2> QED
    BY <1>4, <2>2 DEF Limiter!Tick, Limiter!Ideal!Refill, Limiter!IdealStep, Limiter!Ideal!Next
<1>5. CASE UNCHANGED Limiter(k)!vars
  BY <1>5 DEF Limiter!vars, Limiter!IdealStep, Limiter!Level, Limiter!Refilled
<1> QED
  BY <1>1, <1>2, <1>3, <1>4, <1>5, KeyOfType
     DEF Limiter!Next, Limiter!IdealStep, Limiter!Ideal!Next

\* The two facts about a step, together.
LEMMA LimiterSteps ==
    ASSUME NEW k, Limiter(k)!ConstantsOK, Limiter(k)!TypeOK, [Limiter(k)!Next]_(Limiter(k)!vars)
    PROVE  Limiter(k)!TypeOK' /\ Limiter(k)!IdealStep
BY LimiterTypeStep, LimiterStepIsIdeal

(* The limiter decides every request as buckets that are always there and  *)
(* always refilled: neither the lazy refilling of allow nor CleanupLoop    *)
(* lets a request through or refuses one that those would not.             *)
THEOREM LimiterIsTokenBucket ==
    ASSUME NEW k, Limiter(k)!ConstantsOK
    PROVE  Limiter(k)!Spec => Limiter(k)!IsTokenBucket
<1>1. Limiter(k)!Init => Limiter(k)!Ideal!Init
  BY DEF Limiter!Init, Limiter!Ideal!Init, Limiter!Level
<1>2. Limiter(k)!TypeOK /\ [Limiter(k)!Next]_(Limiter(k)!vars)
          => [Limiter(k)!Ideal!Next]_<<Limiter(k)!Level, x5>>
  BY LimiterStepIsIdeal DEF Limiter!IdealStep
<1> QED
  BY <1>1, <1>2, LimiterTypes, PTL DEF Limiter!Spec, Limiter!IsTokenBucket, Limiter!Ideal!Spec

-----------------------------------------------------------------------------
\* The relay gateway, for any requests, questions, channels, mappings and
\* bounds. Of the pool x1 .. x14 are up, env, opened, channel, disk, db, traces,
\* tracing, request, inFlight, counted, answers, asked and events.

\* Of two naturals, the smaller and the other are related by <.
LEMMA LessThanRelated ==
    ASSUME NEW x \in Nat, NEW y \in Nat, y < x
    PROVE  <<y, x>> \in OpToRel(<, Nat)
<1> DEFINE p == <<y, x>>
<1>1. p \in Nat \X Nat /\ p[1] = y /\ p[2] = x
  OBVIOUS
<1>2. p[1] < p[2]
  BY <1>1
<1> HIDE DEF p
<1>3. p \in OpToRel(<, Nat)
  BY <1>1, <1>2, Zenon DEF OpToRel
<1> QED
  BY <1>3 DEF p

\* A set of naturals that is not empty has a least member.
LEMMA LeastElement ==
    ASSUME NEW S, S \subseteq Nat, S # {}
    PROVE  \E x \in S : \A y \in S : x <= y
<1>1. PICK x \in S : \A y \in S : ~ (<<y, x>> \in OpToRel(<, Nat))
  BY NatLessThanWellFounded, WFMin
<1>2. ASSUME NEW y \in S, y < x PROVE FALSE
  BY <1>1, <1>2, LessThanRelated
<1> QED
  BY <1>2

\* The module's Min of a set of naturals.
LEMMA MinIsIn ==
    ASSUME NEW k, NEW S, S \subseteq Nat, S # {}
    PROVE  Gateway(k)!Min(S) \in S
BY LeastElement DEF Gateway!Min

\* The module's Min of two naturals.
LEMMA MinOfTwo ==
    ASSUME NEW k, NEW m \in Nat, NEW n \in Nat
    PROVE  Gateway(k)!Min({m, n}) \in Nat /\ Gateway(k)!Min({m, n}) <= m
<1>1. Gateway(k)!Min({m, n}) \in {m, n} /\ \A y \in {m, n} : Gateway(k)!Min({m, n}) <= y
  <2>1. \E x \in {m, n} : \A y \in {m, n} : x <= y
    OBVIOUS
  <2> QED
    BY <2>1 DEF Gateway!Min
<1> QED
  BY <1>1

\* Counting inside the module is counting.
LEMMA Sizes ==
    ASSUME NEW k, NEW S
    PROVE  Gateway(k)!Cardinality(S) = Cardinality(S) /\ (Gateway(k)!IsFiniteSet(S) <=> IsFiniteSet(S))
BY DEF Gateway!Cardinality, Cardinality, Gateway!IsFiniteSet, IsFiniteSet

\* A member more.
LEMMA OneMoreElement ==
    ASSUME NEW k, NEW S, Gateway(k)!IsFiniteSet(S), NEW e, e \notin S
    PROVE  /\ Gateway(k)!IsFiniteSet(S \cup {e}) /\ Gateway(k)!Cardinality(S) \in Nat
           /\ Gateway(k)!Cardinality(S \cup {e}) = Gateway(k)!Cardinality(S) + 1
BY Sizes, FS_AddElement, FS_CardinalityType

\* A member less.
LEMMA OneLess ==
    ASSUME NEW k, NEW S, Gateway(k)!IsFiniteSet(S), NEW e \in S
    PROVE  /\ Gateway(k)!Cardinality(S) \in Nat /\ Gateway(k)!Cardinality(S) >= 1
           /\ Gateway(k)!Cardinality(S \ {e}) = Gateway(k)!Cardinality(S) - 1
<1>1. /\ IsFiniteSet(S \ {e}) /\ Cardinality(S) \in Nat /\ Cardinality(S \ {e}) \in Nat
      /\ Cardinality(S \ {e}) = Cardinality(S) - 1
  BY Sizes, FS_RemoveElement, FS_CardinalityType
<1> QED
  BY <1>1, Sizes

\* Some of the members.
LEMMA Smaller ==
    ASSUME NEW k, NEW S, Gateway(k)!IsFiniteSet(S), NEW T, T \subseteq S
    PROVE  /\ Gateway(k)!IsFiniteSet(T) /\ Gateway(k)!Cardinality(T) \in Nat /\ Gateway(k)!Cardinality(S) \in Nat
           /\ Gateway(k)!Cardinality(T) <= Gateway(k)!Cardinality(S)
BY Sizes, FS_Subset, FS_CardinalityType

\* No members.
LEMMA NoneCounted ==
    ASSUME NEW k
    PROVE  Gateway(k)!IsFiniteSet({}) /\ Gateway(k)!Cardinality({}) = 0
BY Sizes, FS_EmptySet

\* Channels are named by their places.
LEMMA ChannelNames ==
    ASSUME NEW k, Gateway(k)!ConstantsOK
    PROVE  /\ \A i \in 1..Len(k.channels) : k.channels[i] \in Gateway(k)!Ids
           /\ \A c \in Gateway(k)!Ids : \E i \in 1..Len(k.channels) : k.channels[i] = c
<1>1. k.channels \in Seq(Gateway(k)!Ids)
  BY DEF Gateway!ConstantsOK
<1>2. DOMAIN k.channels = 1..Len(k.channels)
  BY <1>1, LenProperties
<1> QED
  BY <1>2 DEF Gateway!Ids, Gateway!Range

\* A model that is sent to an upstream is one it is known to have, but for a
\* token's own channel.
LEMMA ResolvedRight ==
    ASSUME NEW k, Gateway(k)!ConstantsOK, NEW a \in k.asks,
           Gateway(k)!ResolveUpstream(a).channel # Gateway(k)!NoChannel
    PROVE  LET to == Gateway(k)!ResolveUpstream(a)
           IN  /\ to.channel \in Gateway(k)!Ids /\ to.model \in Gateway(k)!Models
               /\ \/ to.channel = a.claim /\ to.model = a.model
                  \/ to.model = a.model /\ to.model \in k.serves[to.channel]
                  \/ \E i \in 1..Len(k.mappings) :
                        /\ k.mappings[i].logical = a.model /\ k.mappings[i].channel = to.channel
                        /\ k.mappings[i].upstream = to.model
<1>1. CASE Gateway(k)!Usable(a.claim)
  BY <1>1 DEF Gateway!ResolveUpstream, Gateway!Usable, Gateway!Models
<1>2. CASE ~ Gateway(k)!Usable(a.claim) /\ Gateway(k)!MappedTo(a.model) # {}
  <2> DEFINE i == Gateway(k)!Min(Gateway(k)!MappedTo(a.model))
  <2>1. i \in Gateway(k)!MappedTo(a.model)
    <3>1. Gateway(k)!MappedTo(a.model) \subseteq Nat
      BY DEF Gateway!MappedTo
    <3> QED
      BY <1>2, <3>1, MinIsIn
  <2>2. i \in 1..Len(k.mappings) /\ k.mappings[i].logical = a.model
    BY <2>1 DEF Gateway!MappedTo
  <2>3. k.mappings[i].channel \in Gateway(k)!Ids /\ k.mappings[i].upstream \in Gateway(k)!Models
    BY <2>2 DEF Gateway!ConstantsOK, Gateway!Models
  <2>4. Gateway(k)!ResolveUpstream(a) = [channel |-> k.mappings[i].channel, model |-> k.mappings[i].upstream]
    BY <1>2 DEF Gateway!ResolveUpstream, Gateway!ResolveChannel
  <2> QED
    BY <2>2, <2>3, <2>4
<1>3. CASE ~ Gateway(k)!Usable(a.claim) /\ Gateway(k)!MappedTo(a.model) = {}
  <2>1. Gateway(k)!Listing(a.model) # {}
    BY <1>3 DEF Gateway!ResolveUpstream, Gateway!ResolveChannel
  <2> DEFINE i == Gateway(k)!Min(Gateway(k)!Listing(a.model))
  <2>2. i \in Gateway(k)!Listing(a.model)
    <3>1. Gateway(k)!Listing(a.model) \subseteq Nat
      BY SMTT(40) DEF Gateway!Listing
    <3> QED
      BY <2>1, <3>1, MinIsIn
  <2>3. /\ k.channels[i] \in Gateway(k)!Ids /\ a.model \in k.serves[k.channels[i]]
    BY <2>2, ChannelNames DEF Gateway!Listing
  <2>4. Gateway(k)!ResolveUpstream(a) = [channel |-> k.channels[i], model |-> a.model]
    BY <1>3, <2>1 DEF Gateway!ResolveUpstream, Gateway!ResolveChannel
  <2> QED
    BY <2>3, <2>4 DEF Gateway!Models
<1> QED
  BY <1>1, <1>2, <1>3

\* A model that is listed finds a channel, unless all that list it are unhealthy.
LEMMA ListedFound ==
    ASSUME NEW k, Gateway(k)!ConstantsOK
    PROVE  Gateway(k)!ListedAreServed
<1> SUFFICES ASSUME NEW m, NEW c \in Gateway(k)!Ids, m \in k.serves[c], Gateway(k)!Resolvable(c)
             PROVE  Gateway(k)!ResolveChannel(m).channel # Gateway(k)!NoChannel
  BY DEF Gateway!ListedAreServed
<1>1. CASE Gateway(k)!MappedTo(m) # {}
  <2> DEFINE i == Gateway(k)!Min(Gateway(k)!MappedTo(m))
  <2>1. i \in Gateway(k)!MappedTo(m)
    <3>1. Gateway(k)!MappedTo(m) \subseteq Nat
      BY DEF Gateway!MappedTo
    <3> QED
      BY <1>1, <3>1, MinIsIn
  <2>2. k.mappings[i].channel \in Gateway(k)!Ids
    BY <2>1 DEF Gateway!MappedTo, Gateway!ConstantsOK
  <2>3. Gateway(k)!ResolveChannel(m).channel = k.mappings[i].channel
    BY <1>1 DEF Gateway!ResolveChannel
  <2> QED
    BY <2>2, <2>3 DEF Gateway!ConstantsOK
<1>2. CASE Gateway(k)!MappedTo(m) = {}
  <2>1. Gateway(k)!Listing(m) # {}
    <3>1. PICK i \in 1..Len(k.channels) : k.channels[i] = c
      BY ChannelNames
    <3> QED
      BY <3>1 DEF Gateway!Listing
  <2> DEFINE i == Gateway(k)!Min(Gateway(k)!Listing(m))
  <2>2. i \in Gateway(k)!Listing(m)
    <3>1. Gateway(k)!Listing(m) \subseteq Nat
      BY DEF Gateway!Listing
    <3> QED
      BY <2>1, <3>1, MinIsIn
  <2>3. k.channels[i] \in Gateway(k)!Ids
    BY <2>2, ChannelNames DEF Gateway!Listing
  <2>4. Gateway(k)!ResolveChannel(m).channel = k.channels[i]
    BY <1>2, <2>1 DEF Gateway!ResolveChannel
  <2> QED
    BY <2>3, <2>4 DEF Gateway!ConstantsOK
<1> QED
  BY <1>1, <1>2

\* Who is inside is a request, and finitely many are.
LEMMA InsidersType ==
    ASSUME NEW k, Gateway(k)!ConstantsOK, Gateway(k)!TypeOK
    PROVE  /\ Gateway(k)!Insiders \subseteq k.requests /\ Gateway(k)!IsFiniteSet(Gateway(k)!Insiders)
           /\ \A r \in Gateway(k)!Insiders : x9[r] \in Gateway(k)!Entered
<1>1. Gateway(k)!Insiders \subseteq k.requests /\ \A r \in Gateway(k)!Insiders : x9[r] \in Gateway(k)!Entered
  BY DEF Gateway!Insiders, Gateway!Inside, Gateway!Idle, Gateway!TypeOK
<1> QED
  BY <1>1, Smaller DEF Gateway!ConstantsOK

\* Who is inside, after one of them has moved.
LEMMA MoveOf ==
    ASSUME NEW k, Gateway(k)!TypeOK, NEW r \in Gateway(k)!Insiders, NEW q \in Gateway(k)!Entered, x9' = [x9 EXCEPT ![r] = q]
    PROVE  /\ Gateway(k)!Insiders' = Gateway(k)!Insiders /\ x9'[r] = q
           /\ \A p \in Gateway(k)!Insiders : p # r => x9'[p] = x9[p]
           /\ x9' \in [k.requests -> {Gateway(k)!Idle} \cup Gateway(k)!Entered]
<1>1. q.at # "idle"
  BY DEF Gateway!Entered
<1>2. r \in k.requests /\ x9 \in [k.requests -> {Gateway(k)!Idle} \cup Gateway(k)!Entered]
  BY DEF Gateway!Insiders, Gateway!TypeOK
<1> QED
  BY <1>1, <1>2 DEF Gateway!Insiders, Gateway!Inside

\* Who is inside, after one of them has left.
LEMMA LeaveOf ==
    ASSUME NEW k, Gateway(k)!TypeOK, NEW r \in Gateway(k)!Insiders, x9' = [x9 EXCEPT ![r] = Gateway(k)!Idle]
    PROVE  /\ Gateway(k)!Insiders' = Gateway(k)!Insiders \ {r}
           /\ \A p \in Gateway(k)!Insiders : p # r => x9'[p] = x9[p]
           /\ x9' \in [k.requests -> {Gateway(k)!Idle} \cup Gateway(k)!Entered]
<1>1. r \in k.requests /\ x9 \in [k.requests -> {Gateway(k)!Idle} \cup Gateway(k)!Entered]
  BY DEF Gateway!Insiders, Gateway!TypeOK
<1> QED
  BY <1>1 DEF Gateway!Insiders, Gateway!Inside, Gateway!Idle

\* One who leaves is counted, if at all, with its answer: everything holds on.
LEMMA LeaveKeeps ==
    ASSUME NEW k, Gateway(k)!ConstantsOK, Gateway(k)!RelayInv, NEW r \in Gateway(k)!Insiders,
           x9[r].at \in {"in", "chosen", "copy"},
           x9' = [x9 EXCEPT ![r] = Gateway(k)!Idle], x10' = x10 - 1,
           UNCHANGED <<x1, x2, x3, x4, x5, x6, x7, x8, x13, x14>>,
           \/ ~ x9[r].ok /\ x11' = x11 /\ x12' = x12
           \/ /\ x9[r].ok /\ x12' = x12
              /\ x11' = [x11 EXCEPT ![Gateway(k)!LabelOf(x9[r].channel)] = @ + 1]
           \/ /\ x9[r].at = "in" /\ x12' = x12 \cup {Gateway(k)!Answer(r, "list", TRUE)}
              /\ x11' = [x11 EXCEPT ![Gateway(k)!LabelOf(x9[r].channel)] = @ + 1]
    PROVE  Gateway(k)!RelayInv'
<1> USE DEF Gateway!RelayInv
<1>1. /\ Gateway(k)!Insiders \subseteq k.requests /\ Gateway(k)!IsFiniteSet(Gateway(k)!Insiders) /\ x9[r] \in Gateway(k)!Entered
      /\ Gateway(k)!Insiders' = Gateway(k)!Insiders \ {r}
      /\ \A p \in Gateway(k)!Insiders : p # r => x9'[p] = x9[p]
      /\ x9' \in [k.requests -> {Gateway(k)!Idle} \cup Gateway(k)!Entered]
  BY InsidersType, LeaveOf
<1> DEFINE c0 == x9[r].channel
<1> DEFINE ans == Gateway(k)!Answer(r, "list", TRUE)
<1>2. /\ ans.serial = x9[r].serial /\ ans.kind = "list" /\ ans.ok = TRUE /\ ans.channel = c0
      /\ x9[r].at = "in" => ~ x9[r].ok /\ ans \notin x12
  BY DEF Gateway!Answer, Gateway!ServedOnce
<1>3. Gateway(k)!IsFiniteSet(x12) /\ Gateway(k)!IsFiniteSet(x12')
  <2>1. Gateway(k)!IsFiniteSet(x12)
    BY DEF Gateway!TypeOK
  <2>2. CASE x12' = x12
    BY <2>1, <2>2
  <2>3. CASE x9[r].at = "in" /\ x12' = x12 \cup {ans}
    <3>1. ans \notin x12
      BY <1>2, <2>3
    <3> HIDE DEF ans
    <3>2. Gateway(k)!IsFiniteSet(x12 \cup {ans})
      BY <2>1, <3>1, OneMoreElement
    <3> QED
      BY <2>1, <2>3, <3>2
  <2> QED
    BY <2>2, <2>3
<1>4. /\ x11 \in [Gateway(k)!Ids \cup {Gateway(k)!NoChannel} -> Nat]
      /\ x11' \in [Gateway(k)!Ids \cup {Gateway(k)!NoChannel} -> Nat]
      /\ \A c \in Gateway(k)!Ids : x11'[c] = IF x11' = x11 \/ c # c0 THEN x11[c] ELSE x11[c] + 1
      /\ x11' # x11 \/ (~ x9[r].ok /\ x12' = x12)
  <2>1. x11 \in [Gateway(k)!Ids \cup {Gateway(k)!NoChannel} -> Nat] /\ Gateway(k)!LabelOf(c0) \in Gateway(k)!Ids \cup {Gateway(k)!NoChannel}
    BY DEF Gateway!TypeOK, Gateway!LabelOf
  <2>2. \A c \in Gateway(k)!Ids : Gateway(k)!LabelOf(c0) = c <=> c = c0
    BY DEF Gateway!LabelOf, Gateway!ConstantsOK
  <2>3. ASSUME x11' = [x11 EXCEPT ![Gateway(k)!LabelOf(c0)] = @ + 1]
        PROVE  /\ x11' \in [Gateway(k)!Ids \cup {Gateway(k)!NoChannel} -> Nat]
               /\ x11' # x11
               /\ \A c \in Gateway(k)!Ids : x11'[c] = IF c # c0 THEN x11[c] ELSE x11[c] + 1
    <3>1. x11'[Gateway(k)!LabelOf(c0)] = x11[Gateway(k)!LabelOf(c0)] + 1 /\ x11[Gateway(k)!LabelOf(c0)] \in Nat
      BY <2>1, <2>3
    <3> QED
      BY <2>1, <2>2, <2>3, <3>1
  <2> QED
    BY <2>1, <2>3
<1>5. Gateway(k)!GaugeExact'
  BY <1>1, OneLess DEF Gateway!GaugeExact
<1>6. Gateway(k)!TypeOK'
  <2>1. /\ Gateway(k)!IsFiniteSet(k.requests) /\ x10 = Gateway(k)!Cardinality(Gateway(k)!Insiders)
    BY DEF Gateway!ConstantsOK, Gateway!GaugeExact
  <2>2. x10' \in 0..Gateway(k)!Cardinality(k.requests)
    <3>1. Gateway(k)!Cardinality(Gateway(k)!Insiders) <= Gateway(k)!Cardinality(k.requests) /\ Gateway(k)!Cardinality(k.requests) \in Nat
      BY <1>1, <2>1, Smaller
    <3>2. Gateway(k)!Cardinality(Gateway(k)!Insiders) \in Nat /\ Gateway(k)!Cardinality(Gateway(k)!Insiders) >= 1
      BY <1>1, OneLess
    <3> QED
      BY <2>1, <3>1, <3>2
  <2> QED
    BY <1>1, <1>3, <1>4, <2>2 DEF Gateway!TypeOK
<1>7. Gateway(k)!CountsExact'
  <2> SUFFICES ASSUME NEW c \in Gateway(k)!Ids
               PROVE  x11'[c] + Gateway(k)!Cardinality(Gateway(k)!Succeeding(c)') = Gateway(k)!Cardinality(Gateway(k)!Successes(c)')
    BY DEF Gateway!CountsExact
  <2>1. /\ x11[c] + Gateway(k)!Cardinality(Gateway(k)!Succeeding(c)) = Gateway(k)!Cardinality(Gateway(k)!Successes(c))
        /\ x11[c] \in Nat
    BY <1>4 DEF Gateway!CountsExact
  <2>2. Gateway(k)!IsFiniteSet(Gateway(k)!Succeeding(c)) /\ Gateway(k)!IsFiniteSet(Gateway(k)!Successes(c))
    BY <1>1, <1>3, Smaller DEF Gateway!Succeeding, Gateway!Successes
  <2>3. CASE c # c0 \/ x11' = x11
    <3>1. Gateway(k)!Succeeding(c)' = Gateway(k)!Succeeding(c)
      BY <1>1, <1>4, <2>3 DEF Gateway!Succeeding
    <3>2. Gateway(k)!Successes(c)' = Gateway(k)!Successes(c)
      BY <1>2, <1>4, <2>3 DEF Gateway!Successes
    <3> QED
      BY <1>4, <2>1, <2>3, <3>1, <3>2
  <2>4. CASE c = c0 /\ x11' # x11 /\ x9[r].ok
    <3>1. r \in Gateway(k)!Succeeding(c) /\ Gateway(k)!Succeeding(c)' = Gateway(k)!Succeeding(c) \ {r}
      BY <1>1, <2>4 DEF Gateway!Succeeding
    <3>2. Gateway(k)!Successes(c)' = Gateway(k)!Successes(c)
      BY <1>2, <2>4 DEF Gateway!Successes
    <3> QED
      BY <1>4, <2>1, <2>2, <2>4, <3>1, <3>2, OneLess
  <2>5. CASE c = c0 /\ x11' # x11 /\ ~ x9[r].ok
    <3>1. Gateway(k)!Succeeding(c)' = Gateway(k)!Succeeding(c)
      BY <1>1, <2>5 DEF Gateway!Succeeding
    <3>2. ans \notin Gateway(k)!Successes(c) /\ Gateway(k)!Successes(c)' = Gateway(k)!Successes(c) \cup {ans}
      BY <1>2, <2>5 DEF Gateway!Successes
    <3>3. Gateway(k)!Cardinality(Gateway(k)!Succeeding(c)) \in Nat
      BY <2>2, Smaller
    <3> HIDE DEF ans
    <3>4. /\ Gateway(k)!Cardinality(Gateway(k)!Successes(c)) \in Nat
          /\ Gateway(k)!Cardinality(Gateway(k)!Successes(c) \cup {ans}) = Gateway(k)!Cardinality(Gateway(k)!Successes(c)) + 1
      BY <2>2, <3>2, OneMoreElement
    <3>5. x11'[c] = x11[c] + 1
      BY <1>4, <2>5
    <3> QED
      BY <2>1, <3>1, <3>2, <3>3, <3>4, <3>5
  <2> QED
    BY <2>3, <2>4, <2>5
<1>8. Gateway(k)!TracesTrue'
  <2>1. \A a \in x12' : a \in x12 \/ a.kind # "relay"
    BY <1>2
  <2>2. ASSUME NEW a \in x12, a.kind = "relay"
        PROVE  \/ \E t \in x7 \cup x8 : t.trace = a.trace
               \/ \E p \in Gateway(k)!Insiders \ {r} : x9[p].serial = a.serial
    BY <2>2 DEF Gateway!TracesTrue, Gateway!ServedOnce, Gateway!Traced
  <2> QED
    BY <1>1, <2>1, <2>2 DEF Gateway!TracesTrue
<1>9. Gateway(k)!RoutedRight'
  BY <1>1 DEF Gateway!RoutedRight
<1>10. Gateway(k)!ServedOnce'
  <2>1. \A a \in x12' : a \in x12 \/ a.serial = x9[r].serial
    BY <1>2
  <2>2. x9[r].serial \in 1..x13 /\ \A p \in Gateway(k)!Insiders' : x9'[p].serial # x9[r].serial
    <3>1. x9[r].serial \in 1..k.asked /\ x9[r].serial <= x13 /\ x13 \in 0..k.asked
      BY <1>1 DEF Gateway!ServedOnce, Gateway!Entered, Gateway!TypeOK
    <3> QED
      BY <1>1, <3>1 DEF Gateway!ServedOnce, Gateway!ConstantsOK
  <2>3. (~ x1' => Gateway(k)!Insiders' = {}) /\ \A p \in Gateway(k)!Insiders' : x9'[p].serial <= x13'
    BY <1>1 DEF Gateway!ServedOnce
  <2>4. \A a \in x12' : a.serial \in 1..x13'
    BY <2>1, <2>2 DEF Gateway!ServedOnce
  <2>5. \A p, q \in Gateway(k)!Insiders' : x9'[p].serial = x9'[q].serial => p = q
    BY <1>1 DEF Gateway!ServedOnce
  <2>6. ASSUME NEW p \in Gateway(k)!Insiders', x9'[p].at \in {"in", "chosen"}
        PROVE  ~ x9'[p].ok /\ \A a \in x12' : a.serial # x9'[p].serial
    BY <1>1, <2>1, <2>2, <2>6 DEF Gateway!ServedOnce
  <2>7. \A p \in Gateway(k)!Insiders' : x9'[p].at # "in" => x9'[p].channel \in Gateway(k)!Ids
    BY <1>1 DEF Gateway!ServedOnce
  <2> QED
    BY <2>3, <2>4, <2>5, <2>6, <2>7 DEF Gateway!ServedOnce
<1>11. Gateway(k)!Traced'
  <2>1. \A a \in x12' : a \in x12 \/ a.serial = x9[r].serial
    BY <1>2
  <2>2. \A p \in Gateway(k)!Insiders' : x9'[p].serial # x9[r].serial /\ p \in Gateway(k)!Insiders /\ x9'[p] = x9[p]
    BY <1>1 DEF Gateway!ServedOnce
  <2> QED
    BY <2>1, <2>2 DEF Gateway!Traced
<1>12. Gateway(k)!SavedByLast'
  BY <1>1 DEF Gateway!SavedByLast
<1> QED
  BY <1>5, <1>6, <1>7, <1>8, <1>9, <1>10, <1>11, <1>12

\* One who comes has a serial number nobody has had.
LEMMA ArriveKeeps ==
    ASSUME NEW k, Gateway(k)!ConstantsOK, Gateway(k)!RelayInv, NEW r \in k.requests, Gateway(k)!Arrive(r)
    PROVE  Gateway(k)!RelayInv'
<1> USE DEF Gateway!RelayInv
<1> USE DEF Gateway!Running, Gateway!Stored
<1>1. /\ Gateway(k)!Insiders \subseteq k.requests /\ Gateway(k)!IsFiniteSet(Gateway(k)!Insiders)
      /\ r \notin Gateway(k)!Insiders /\ x9 \in [k.requests -> {Gateway(k)!Idle} \cup Gateway(k)!Entered]
      /\ x1 /\ x13 \in Nat /\ x13' = x13 + 1 /\ x13' \in 1..k.asked /\ x10' = x10 + 1
      /\ UNCHANGED <<x1, x2, x3, x4, x5, x6, x7, x8, x11, x12, x14>>
  <2>1. Gateway(k)!Insiders \subseteq k.requests /\ Gateway(k)!IsFiniteSet(Gateway(k)!Insiders) /\ r \notin Gateway(k)!Insiders
    BY InsidersType DEF Gateway!Arrive, Gateway!Free, Gateway!Insiders
  <2>2. x13 \in 0..k.asked /\ k.asked \in Nat /\ x13 < k.asked /\ x13' = x13 + 1
    BY DEF Gateway!Arrive, Gateway!TypeOK, Gateway!ConstantsOK
  <2>3. x13 \in Nat /\ x13' \in 1..k.asked
    BY <2>2
  <2>4. x9 \in [k.requests -> {Gateway(k)!Idle} \cup Gateway(k)!Entered]
    BY DEF Gateway!TypeOK
  <2>5. /\ x1 /\ x10' = x10 + 1
        /\ UNCHANGED <<x1, x2, x3, x4, x5, x6, x7, x8, x11, x12, x14>>
    BY DEF Gateway!Arrive
  <2> QED
    BY <2>1, <2>2, <2>3, <2>4, <2>5
<1>2. PICK q \in Gateway(k)!Entered : /\ x9' = [x9 EXCEPT ![r] = q] /\ q.at = "in" /\ q.serial = x13'
                            /\ ~ q.ok
  <2>1. PICK a \in k.asks : x9' = [x9 EXCEPT ![r] =
              [at |-> "in", ask |-> a, serial |-> x13', channel |-> a.claim, model |-> a.model,
               ok |-> FALSE, trace |-> IF a.trace = "" THEN <<"made", x13'>> ELSE <<"given", a.trace>>]]
    BY DEF Gateway!Arrive
  <2> DEFINE id == IF a.trace = "" THEN <<"made", x13'>> ELSE <<"given", a.trace>>
  <2>2. id \in Gateway(k)!TraceIds /\ a.claim \in Gateway(k)!Names /\ a.model \in Gateway(k)!Models
    BY <1>1 DEF Gateway!TraceIds, Gateway!Names, Gateway!Models
  <2> HIDE DEF id
  <2> DEFINE q == [at |-> "in", ask |-> a, serial |-> x13', channel |-> a.claim,
                   model |-> a.model, ok |-> FALSE, trace |-> id]
  <2>3. q \in Gateway(k)!Entered
    BY <1>1, <2>2 DEF Gateway!Entered
  <2>4. x9' = [x9 EXCEPT ![r] = q]
    BY <2>1 DEF id
  <2> QED
    BY <2>3, <2>4
<1>3. /\ Gateway(k)!Insiders' = Gateway(k)!Insiders \cup {r} /\ x9'[r] = q
      /\ \A p \in Gateway(k)!Insiders : x9'[p] = x9[p]
      /\ x9' \in [k.requests -> {Gateway(k)!Idle} \cup Gateway(k)!Entered]
  <2>1. q.at # "idle"
    BY <1>2
  <2> QED
    BY <1>1, <1>2, <2>1 DEF Gateway!Insiders, Gateway!Inside
<1>4. Gateway(k)!GaugeExact'
  BY <1>1, <1>3, OneMoreElement DEF Gateway!GaugeExact
<1>5. Gateway(k)!TypeOK'
  <2>1. Gateway(k)!Cardinality(Gateway(k)!Insiders') <= Gateway(k)!Cardinality(k.requests) /\ Gateway(k)!Cardinality(k.requests) \in Nat
    BY <1>1, <1>3, Smaller DEF Gateway!ConstantsOK
  <2>2. x10' = Gateway(k)!Cardinality(Gateway(k)!Insiders') /\ x10' \in Nat
    BY <1>1, <1>3, <1>4, OneMoreElement DEF Gateway!GaugeExact
  <2>3. x10' \in 0..Gateway(k)!Cardinality(k.requests)
    BY <2>1, <2>2
  <2> QED
    BY <1>1, <1>3, <2>3 DEF Gateway!TypeOK
<1>6. Gateway(k)!CountsExact'
  <2>1. \A c : Gateway(k)!Succeeding(c)' = Gateway(k)!Succeeding(c)
    BY <1>1, <1>2, <1>3 DEF Gateway!Succeeding
  <2>2. \A c : Gateway(k)!Successes(c)' = Gateway(k)!Successes(c)
    BY <1>1 DEF Gateway!Successes
  <2> QED
    BY <1>1, <2>1, <2>2 DEF Gateway!CountsExact
<1>7. Gateway(k)!TracesTrue'
  BY <1>1, <1>3 DEF Gateway!TracesTrue
<1>8. Gateway(k)!RoutedRight'
  BY <1>2, <1>3 DEF Gateway!RoutedRight
<1>9. Gateway(k)!ServedOnce'
  <2>1. \A p \in Gateway(k)!Insiders : x9[p].serial <= x13 /\ x9[p].serial \in Nat
    BY InsidersType DEF Gateway!ServedOnce, Gateway!Entered
  <2>2. \A p \in Gateway(k)!Insiders : x9'[p].serial <= x13' /\ x9'[p].serial # x13'
    BY <1>1, <1>3, <2>1
  <2>3. \A a \in x12' : a.serial \in 1..x13' /\ a.serial # x13'
    BY <1>1 DEF Gateway!ServedOnce
  <2>4. (~ x1' => Gateway(k)!Insiders' = {}) /\ \A p \in Gateway(k)!Insiders' : x9'[p].serial <= x13'
    BY <1>1, <1>2, <1>3, <2>2
  <2>5. \A p, o \in Gateway(k)!Insiders' : x9'[p].serial = x9'[o].serial => p = o
    BY <1>2, <1>3, <2>2 DEF Gateway!ServedOnce
  <2>6. ASSUME NEW p \in Gateway(k)!Insiders', x9'[p].at \in {"in", "chosen"}
        PROVE  ~ x9'[p].ok /\ \A a \in x12' : a.serial # x9'[p].serial
    BY <1>1, <1>2, <1>3, <2>3, <2>6 DEF Gateway!ServedOnce
  <2>7. \A p \in Gateway(k)!Insiders' : x9'[p].at # "in" => x9'[p].channel \in Gateway(k)!Ids
    BY <1>2, <1>3 DEF Gateway!ServedOnce
  <2> QED
    BY <2>3, <2>4, <2>5, <2>6, <2>7 DEF Gateway!ServedOnce
<1>10. Gateway(k)!Traced'
  BY <1>1, <1>2, <1>3 DEF Gateway!Traced
<1>11. Gateway(k)!SavedByLast'
  BY <1>1, <1>3 DEF Gateway!SavedByLast
<1> QED
  BY <1>4, <1>5, <1>6, <1>7, <1>8, <1>9, <1>10, <1>11

\* One who moves on, with no answer yet or the one it had, keeps its place.
LEMMA MoveKeeps ==
    ASSUME NEW k, Gateway(k)!ConstantsOK, Gateway(k)!RelayInv, NEW r \in Gateway(k)!Insiders, NEW q \in Gateway(k)!Entered,
           x9' = [x9 EXCEPT ![r] = q], q.serial = x9[r].serial, q.ok = x9[r].ok,
           q.at # "in", q.channel \in Gateway(k)!Ids, q.at = "chosen" => x9[r].at = "in",
           q.ok => q.channel = x9[r].channel,
           UNCHANGED <<x1, x10, x11, x12, x13>>
    PROVE  Gateway(k)!GaugeExact' /\ Gateway(k)!CountsExact' /\ Gateway(k)!ServedOnce'
<1> USE DEF Gateway!RelayInv
<1>1. /\ Gateway(k)!Insiders' = Gateway(k)!Insiders /\ x9'[r] = q
      /\ \A p \in Gateway(k)!Insiders : p # r => x9'[p] = x9[p]
      /\ x9[r] \in Gateway(k)!Entered /\ Gateway(k)!IsFiniteSet(Gateway(k)!Insiders) /\ Gateway(k)!IsFiniteSet(x12)
  BY MoveOf, InsidersType DEF Gateway!TypeOK
<1>2. Gateway(k)!GaugeExact'
  BY <1>1 DEF Gateway!GaugeExact
<1>3. \A c : Gateway(k)!Succeeding(c)' = Gateway(k)!Succeeding(c)
  BY <1>1 DEF Gateway!Succeeding
<1>4. \A c : Gateway(k)!Successes(c)' = Gateway(k)!Successes(c)
  BY DEF Gateway!Successes
<1>5. Gateway(k)!CountsExact'
  BY <1>3, <1>4 DEF Gateway!CountsExact
<1>6. /\ ~ x1' => Gateway(k)!Insiders' = {}
      /\ \A p \in Gateway(k)!Insiders' : x9'[p].serial <= x13'
      /\ \A a \in x12' : a.serial \in 1..x13'
  BY <1>1 DEF Gateway!ServedOnce
<1>7. \A p, o \in Gateway(k)!Insiders' : x9'[p].serial = x9'[o].serial => p = o
  BY <1>1 DEF Gateway!ServedOnce
<1>8. ASSUME NEW p \in Gateway(k)!Insiders', x9'[p].at \in {"in", "chosen"}
      PROVE  ~ x9'[p].ok /\ \A a \in x12' : a.serial # x9'[p].serial
  BY <1>1, <1>8 DEF Gateway!ServedOnce
<1>9. \A p \in Gateway(k)!Insiders' : x9'[p].at # "in" => x9'[p].channel \in Gateway(k)!Ids
  BY <1>1 DEF Gateway!ServedOnce
<1>10. Gateway(k)!ServedOnce'
  BY <1>6, <1>7, <1>8, <1>9 DEF Gateway!ServedOnce
<1> QED
  BY <1>2, <1>5, <1>10

\* An answer is counted with the one who got it until it leaves.
LEMMA AnswerKeeps ==
    ASSUME NEW k, Gateway(k)!ConstantsOK, Gateway(k)!RelayInv, NEW r \in Gateway(k)!Insiders, NEW q \in Gateway(k)!Entered,
           x9[r].at = "chosen", q.at = "save", q.channel \in Gateway(k)!Ids,
           x9' = [x9 EXCEPT ![r] = q], q.serial = x9[r].serial,
           NEW a, x12' = x12 \cup {a}, a.serial = q.serial, a.ok = q.ok, a.channel = q.channel,
           UNCHANGED <<x1, x10, x11, x13>>
    PROVE  Gateway(k)!GaugeExact' /\ Gateway(k)!CountsExact' /\ Gateway(k)!ServedOnce'
<1> USE DEF Gateway!RelayInv
<1>1. /\ Gateway(k)!Insiders' = Gateway(k)!Insiders /\ x9'[r] = q
      /\ \A p \in Gateway(k)!Insiders : p # r => x9'[p] = x9[p]
      /\ x9[r] \in Gateway(k)!Entered /\ Gateway(k)!IsFiniteSet(Gateway(k)!Insiders) /\ Gateway(k)!IsFiniteSet(x12)
  BY MoveOf, InsidersType DEF Gateway!TypeOK
<1>2. Gateway(k)!GaugeExact'
  BY <1>1 DEF Gateway!GaugeExact
<1>3. ~ x9[r].ok /\ a \notin x12
  BY <1>1 DEF Gateway!ServedOnce
<1>4. ASSUME NEW c \in Gateway(k)!Ids
      PROVE  x11'[c] + Gateway(k)!Cardinality(Gateway(k)!Succeeding(c)') = Gateway(k)!Cardinality(Gateway(k)!Successes(c)')
  <2>1. /\ x11[c] + Gateway(k)!Cardinality(Gateway(k)!Succeeding(c)) = Gateway(k)!Cardinality(Gateway(k)!Successes(c))
        /\ x11[c] \in Nat
    BY DEF Gateway!CountsExact, Gateway!TypeOK
  <2>2. Gateway(k)!IsFiniteSet(Gateway(k)!Succeeding(c)) /\ Gateway(k)!IsFiniteSet(Gateway(k)!Successes(c))
    BY <1>1, Smaller DEF Gateway!Succeeding, Gateway!Successes
  <2>3. CASE ~ (q.ok /\ c = q.channel)
    <3>1. Gateway(k)!Succeeding(c)' = Gateway(k)!Succeeding(c)
      BY <1>1, <1>3, <2>3 DEF Gateway!Succeeding
    <3>2. Gateway(k)!Successes(c)' = Gateway(k)!Successes(c)
      BY <2>3 DEF Gateway!Successes
    <3> QED
      BY <2>1, <3>1, <3>2
  <2>4. CASE q.ok /\ c = q.channel
    <3>1. r \notin Gateway(k)!Succeeding(c) /\ Gateway(k)!Succeeding(c)' = Gateway(k)!Succeeding(c) \cup {r}
      BY <1>1, <1>3, <2>4 DEF Gateway!Succeeding
    <3>2. a \notin Gateway(k)!Successes(c) /\ Gateway(k)!Successes(c)' = Gateway(k)!Successes(c) \cup {a}
      BY <1>3, <2>4 DEF Gateway!Successes
    <3>3. /\ Gateway(k)!Cardinality(Gateway(k)!Succeeding(c)) \in Nat
          /\ Gateway(k)!Cardinality(Gateway(k)!Succeeding(c) \cup {r}) = Gateway(k)!Cardinality(Gateway(k)!Succeeding(c)) + 1
      BY <2>2, <3>1, OneMoreElement
    <3>4. /\ Gateway(k)!Cardinality(Gateway(k)!Successes(c)) \in Nat
          /\ Gateway(k)!Cardinality(Gateway(k)!Successes(c) \cup {a}) = Gateway(k)!Cardinality(Gateway(k)!Successes(c)) + 1
      BY <2>2, <3>2, OneMoreElement
    <3> QED
      BY <2>1, <3>1, <3>2, <3>3, <3>4
  <2> QED
    BY <2>3, <2>4
<1>5. Gateway(k)!CountsExact'
  BY <1>4 DEF Gateway!CountsExact
<1>6. /\ ~ x1' => Gateway(k)!Insiders' = {}
      /\ \A p \in Gateway(k)!Insiders' : x9'[p].serial <= x13'
  BY <1>1 DEF Gateway!ServedOnce
<1>7. \A p, o \in Gateway(k)!Insiders' : x9'[p].serial = x9'[o].serial => p = o
  BY <1>1 DEF Gateway!ServedOnce
<1>8. \A b \in x12' : b.serial \in 1..x13'
  <2>1. x9[r].serial \in 1..k.asked /\ x9[r].serial <= x13 /\ x13 \in 0..k.asked
    BY <1>1 DEF Gateway!ServedOnce, Gateway!Entered, Gateway!TypeOK
  <2>2. a.serial \in 1..x13
    BY <2>1 DEF Gateway!ConstantsOK
  <2> QED
    BY <2>2 DEF Gateway!ServedOnce
<1>9. ASSUME NEW p \in Gateway(k)!Insiders', x9'[p].at \in {"in", "chosen"}
      PROVE  ~ x9'[p].ok /\ \A b \in x12' : b.serial # x9'[p].serial
  <2>1. p # r /\ p \in Gateway(k)!Insiders /\ x9'[p] = x9[p]
    BY <1>1, <1>9
  <2> QED
    BY <1>9, <2>1 DEF Gateway!ServedOnce
<1>10. \A p \in Gateway(k)!Insiders' : x9'[p].at # "in" => x9'[p].channel \in Gateway(k)!Ids
  BY <1>1 DEF Gateway!ServedOnce
<1> QED
  BY <1>2, <1>5, <1>6, <1>7, <1>8, <1>9, <1>10 DEF Gateway!ServedOnce

\* What a request leaves in a channel's record.
LEMMA HealthKept ==
    ASSUME NEW k, Gateway(k)!TypeOK, NEW c \in Gateway(k)!Ids, NEW h \in BOOLEAN, NEW f \in 0..Gateway(k)!FailLimit,
           Gateway(k)!UpdateHealth(c, h, f)
    PROVE  x4' \in [Gateway(k)!Ids -> Gateway(k)!Health]
<1>1. x4 \in [Gateway(k)!Ids -> Gateway(k)!Health]
  BY DEF Gateway!TypeOK
<1>2. x4[c].enabled \in BOOLEAN /\ (f < Gateway(k)!FailLimit) \in BOOLEAN
  BY <1>1 DEF Gateway!Health
<1> DEFINE e == x4[c].enabled /\ f < Gateway(k)!FailLimit
<1>3. e \in BOOLEAN
  BY Zenon
<1> HIDE DEF e
<1>4. [enabled |-> e, healthy |-> h, fails |-> f] \in Gateway(k)!Health
  BY <1>3 DEF Gateway!Health
<1>5. x4' = [x4 EXCEPT ![c] = [enabled |-> e, healthy |-> h, fails |-> f]]
  BY DEF Gateway!UpdateHealth, e
<1> QED
  BY <1>1, <1>4, <1>5

\* A failure more, up to the limit.
LEMMA FailsMore ==
    ASSUME NEW k, Gateway(k)!TypeOK, NEW c \in Gateway(k)!Ids
    PROVE  Gateway(k)!Min({Gateway(k)!FailLimit, x4[c].fails + 1}) \in 0..Gateway(k)!FailLimit
<1>1. x4[c].fails + 1 \in Nat /\ Gateway(k)!FailLimit = 3
  BY DEF Gateway!TypeOK, Gateway!Health, Gateway!FailLimit
<1>2. Gateway(k)!Min({3, x4[c].fails + 1}) \in Nat /\ Gateway(k)!Min({3, x4[c].fails + 1}) <= 3
  <2> DEFINE n == x4[c].fails + 1
  <2>1. n \in Nat
    BY <1>1
  <2> HIDE DEF n
  <2>2. Gateway(k)!Min({3, n}) \in Nat /\ Gateway(k)!Min({3, n}) <= 3
    BY <2>1, MinOfTwo
  <2> QED
    BY <2>2 DEF n
<1> QED
  BY <1>1, <1>2

\* Where requests are does not matter to what was answered.
LEMMA RouteKeeps ==
    ASSUME NEW k, Gateway(k)!ConstantsOK, Gateway(k)!RelayInv, NEW r \in k.requests, Gateway(k)!Route(r)
    PROVE  Gateway(k)!RelayInv'
<1> USE DEF Gateway!RelayInv, Gateway!Running, Gateway!Stored
<1> DEFINE a0 == x9[r].ask
<1>1. /\ r \in Gateway(k)!Insiders /\ x9[r].at = "in" /\ x9[r] \in Gateway(k)!Entered /\ ~ x9[r].ok /\ a0 \in k.asks
      /\ x9 \in [k.requests -> {Gateway(k)!Idle} \cup Gateway(k)!Entered]
      /\ UNCHANGED <<x1, x2, x3, x4, x5, x6, x7, x8, x12, x13, x14>>
  BY InsidersType DEF Gateway!Route, Gateway!Handled, Gateway!Insiders, Gateway!Inside, Gateway!Entered, Gateway!ServedOnce, Gateway!TypeOK
<1>2. CASE Gateway(k)!ResolveUpstream(a0).channel = Gateway(k)!NoChannel
  <2>1. x9' = [x9 EXCEPT ![r] = Gateway(k)!Idle] /\ x10' = x10 - 1 /\ x11' = x11
    BY <1>2 DEF Gateway!Route, Gateway!Leave
  <2> QED
    BY <1>1, <2>1, LeaveKeeps
<1>3. CASE Gateway(k)!ResolveUpstream(a0).channel # Gateway(k)!NoChannel
  <2> DEFINE to == Gateway(k)!ResolveUpstream(a0)
  <2> DEFINE q == [x9[r] EXCEPT !.at = "chosen", !.channel = to.channel, !.model = to.model]
  <2>1. /\ to.channel \in Gateway(k)!Ids /\ to.model \in Gateway(k)!Models
        /\ \/ to.channel = a0.claim /\ to.model = a0.model
           \/ to.model = a0.model /\ to.model \in k.serves[to.channel]
           \/ \E i \in 1..Len(k.mappings) :
                 /\ k.mappings[i].logical = a0.model /\ k.mappings[i].channel = to.channel
                 /\ k.mappings[i].upstream = to.model
    BY <1>1, <1>3, ResolvedRight
  <2>2. Gateway(k)!Chosen(r, to) /\ x10' = x10 /\ x11' = x11
    BY <1>3 DEF Gateway!Route
  <2> HIDE DEF to
  <2>3. /\ q \in Gateway(k)!Entered /\ q.at = "chosen" /\ q.channel = to.channel /\ q.model = to.model
        /\ q.serial = x9[r].serial /\ q.ok = x9[r].ok /\ q.ask = a0
    BY <1>1, <2>1 DEF Gateway!Entered, Gateway!Names
  <2>4. x9' = [x9 EXCEPT ![r] = q]
    BY <1>1, <2>2 DEF Gateway!Chosen
  <2> HIDE DEF q
  <2>15. Gateway(k)!RelayInv /\ r \in Gateway(k)!Insiders
    BY <1>1
  <2>5. Gateway(k)!GaugeExact' /\ Gateway(k)!CountsExact' /\ Gateway(k)!ServedOnce'
    BY <2>15, <1>1, <2>1, <2>2, <2>3, <2>4, MoveKeeps
  <2>6. /\ Gateway(k)!Insiders' = Gateway(k)!Insiders /\ x9'[r] = q
        /\ \A p \in Gateway(k)!Insiders : p # r => x9'[p] = x9[p]
        /\ x9' \in [k.requests -> {Gateway(k)!Idle} \cup Gateway(k)!Entered]
    <3>1. Gateway(k)!TypeOK /\ r \in Gateway(k)!Insiders
      BY <1>1
    <3> QED
      BY <3>1, <2>3, <2>4, MoveOf
  <2>7. Gateway(k)!TypeOK'
    BY <1>1, <2>2, <2>6 DEF Gateway!TypeOK
  <2>8. Gateway(k)!TracesTrue'
    BY <1>1, <2>3, <2>6 DEF Gateway!TracesTrue
  <2>9. Gateway(k)!RoutedRight'
    <3> SUFFICES ASSUME NEW p \in Gateway(k)!Insiders, x9'[p].at # "in"
                 PROVE  \/ x9'[p].channel = x9'[p].ask.claim /\ x9'[p].model = x9'[p].ask.model
                        \/ /\ x9'[p].model = x9'[p].ask.model
                           /\ x9'[p].model \in k.serves[x9'[p].channel]
                        \/ \E i \in 1..Len(k.mappings) :
                              /\ k.mappings[i].logical = x9'[p].ask.model
                              /\ k.mappings[i].channel = x9'[p].channel
                              /\ k.mappings[i].upstream = x9'[p].model
      BY <2>6 DEF Gateway!RoutedRight
    <3>1. CASE p = r
      BY <2>1, <2>3, <2>6, <3>1
    <3>2. CASE p # r
      BY <2>6, <3>2 DEF Gateway!RoutedRight
    <3> QED
      BY <3>1, <3>2
  <2>10. Gateway(k)!Traced'
    BY <1>1, <2>3, <2>6 DEF Gateway!Traced
  <2>11. Gateway(k)!SavedByLast'
    BY <1>1, <2>3, <2>6 DEF Gateway!SavedByLast
  <2> QED
    BY <2>5, <2>7, <2>8, <2>9, <2>10, <2>11
<1> QED
  BY <1>2, <1>3

\* A move after the channel is chosen leaves what was sent, and where, as it was.
LEMMA SentKeeps ==
    ASSUME NEW k, Gateway(k)!ConstantsOK, Gateway(k)!RelayInv, NEW r \in Gateway(k)!Insiders, NEW q \in Gateway(k)!Entered,
           x9[r].at # "in", x9' = [x9 EXCEPT ![r] = q],
           q.channel = x9[r].channel, q.model = x9[r].model, q.ask = x9[r].ask
    PROVE  Gateway(k)!RoutedRight'
<1>1. /\ Gateway(k)!Insiders' = Gateway(k)!Insiders /\ x9'[r] = q
      /\ \A p \in Gateway(k)!Insiders : p # r => x9'[p] = x9[p]
  <2>1. Gateway(k)!TypeOK
    BY DEF Gateway!RelayInv
  <2> QED
    <3>1. x9 \in [k.requests -> {Gateway(k)!Idle} \cup Gateway(k)!Entered] /\ r \in k.requests
      BY <2>1 DEF Gateway!TypeOK, Gateway!Insiders
    <3> QED
      BY <2>1, <3>1, MoveOf
<1> SUFFICES ASSUME NEW p \in Gateway(k)!Insiders, x9'[p].at # "in"
             PROVE  \/ x9'[p].channel = x9'[p].ask.claim /\ x9'[p].model = x9'[p].ask.model
                    \/ /\ x9'[p].model = x9'[p].ask.model
                       /\ x9'[p].model \in k.serves[x9'[p].channel]
                    \/ \E i \in 1..Len(k.mappings) :
                          /\ k.mappings[i].logical = x9'[p].ask.model
                          /\ k.mappings[i].channel = x9'[p].channel
                          /\ k.mappings[i].upstream = x9'[p].model
  BY <1>1 DEF Gateway!RoutedRight
<1>2. /\ x9'[p].channel = x9[p].channel /\ x9'[p].model = x9[p].model
      /\ x9'[p].ask = x9[p].ask /\ x9[p].at # "in"
  BY <1>1
<1> QED
  BY <1>2 DEF Gateway!RoutedRight, Gateway!RelayInv

\* Who gets an answer, or none, has yet to save what it says of the channel.
LEMMA RelaysKeeps ==
    ASSUME NEW k, Gateway(k)!ConstantsOK, Gateway(k)!RelayInv, NEW r \in k.requests, Gateway(k)!Relays(r)
    PROVE  Gateway(k)!RelayInv'
<1> USE DEF Gateway!RelayInv, Gateway!Running
<1> DEFINE c == x9[r].channel
<1>1. /\ r \in Gateway(k)!Insiders /\ x9[r].at = "chosen" /\ x9[r] \in Gateway(k)!Entered /\ c \in Gateway(k)!Ids
      /\ x9 \in [k.requests -> {Gateway(k)!Idle} \cup Gateway(k)!Entered] /\ ~ x9[r].ok
      /\ UNCHANGED <<x1, x2, x3, x5, x6, x7, x8, x10, x11, x13, x14>>
  <2>1. /\ x9[r].at = "chosen"
        /\ UNCHANGED <<x1, x2, x3, x5, x6, x7, x8, x10, x11, x13, x14>>
    BY DEF Gateway!Relays, Gateway!Unreachable, Gateway!Answered, Gateway!Sends, Gateway!FormRead
  <2>2. r \in Gateway(k)!Insiders
    BY <2>1 DEF Gateway!Insiders, Gateway!Inside
  <2>3. x9[r] \in Gateway(k)!Entered /\ x9 \in [k.requests -> {Gateway(k)!Idle} \cup Gateway(k)!Entered]
    BY <2>2, InsidersType DEF Gateway!TypeOK
  <2>4. c \in Gateway(k)!Ids /\ ~ x9[r].ok
    BY <2>1, <2>2 DEF Gateway!ServedOnce
  <2> QED
    BY <2>1, <2>2, <2>3, <2>4
<1>2. x4' \in [Gateway(k)!Ids -> Gateway(k)!Health]
  <2> DEFINE more == Gateway(k)!Min({Gateway(k)!FailLimit, x4[c].fails + 1})
  <2>1. more \in 0..Gateway(k)!FailLimit /\ 0 \in 0..Gateway(k)!FailLimit /\ 1 \in 0..Gateway(k)!FailLimit
    BY <1>1, FailsMore DEF Gateway!FailLimit
  <2> HIDE DEF more
  <2>2. \/ \E f \in 0..Gateway(k)!FailLimit : Gateway(k)!UpdateHealth(c, FALSE, f)
        \/ \E ok \in BOOLEAN : \E f \in 0..Gateway(k)!FailLimit : Gateway(k)!UpdateHealth(c, ok, f)
    <3>1. CASE Gateway(k)!Unreachable(r)
      BY <2>1, <3>1 DEF Gateway!Unreachable, more
    <3>2. ASSUME NEW ok \in BOOLEAN, Gateway(k)!Answered(r, ok)
          PROVE  \E f \in 0..Gateway(k)!FailLimit : Gateway(k)!UpdateHealth(c, ok, f)
      BY <2>1, <3>2 DEF Gateway!Answered, more
    <3> QED
      BY <3>1, <3>2 DEF Gateway!Relays
  <2> HIDE DEF c
  <2> QED
    BY <1>1, <2>2, HealthKept
<1>3. PICK q \in Gateway(k)!Entered :
         /\ x9' = [x9 EXCEPT ![r] = q] /\ q.at = "save"
         /\ q.serial = x9[r].serial /\ q.channel = c /\ q.model = x9[r].model /\ q.ask = x9[r].ask
         /\ \/ x12' = x12 /\ q.ok = x9[r].ok
            \/ \E a : /\ x12' = x12 \cup {a} /\ a.serial = q.serial /\ a.ok = q.ok
                      /\ a.channel = c
  <2>1. CASE Gateway(k)!Unreachable(r)
    <3> DEFINE q == [x9[r] EXCEPT !.at = "save"]
    <3>1. /\ q \in Gateway(k)!Entered /\ x9' = [x9 EXCEPT ![r] = q] /\ q.at = "save"
          /\ q.serial = x9[r].serial /\ q.channel = c /\ q.model = x9[r].model
          /\ q.ask = x9[r].ask /\ q.ok = x9[r].ok /\ x12' = x12
      BY <1>1, <2>1 DEF Gateway!Unreachable, Gateway!Entered
    <3> HIDE DEF q
    <3> QED
      BY <3>1
  <2>2. ASSUME NEW ok \in BOOLEAN, Gateway(k)!Answered(r, ok)
        PROVE  \E q \in Gateway(k)!Entered :
                 /\ x9' = [x9 EXCEPT ![r] = q] /\ q.at = "save" /\ q.serial = x9[r].serial
                 /\ q.channel = c /\ q.model = x9[r].model /\ q.ask = x9[r].ask
                 /\ \E a : /\ x12' = x12 \cup {a} /\ a.serial = q.serial /\ a.ok = q.ok
                           /\ a.channel = c
    <3> DEFINE q == [x9[r] EXCEPT !.at = "save", !.ok = ok]
    <3> DEFINE a == Gateway(k)!Answer(r, "relay", ok)
    <3>1. /\ q \in Gateway(k)!Entered /\ x9' = [x9 EXCEPT ![r] = q] /\ q.at = "save"
          /\ q.serial = x9[r].serial /\ q.channel = c /\ q.model = x9[r].model
          /\ q.ask = x9[r].ask /\ q.ok = ok
      BY <1>1, <2>2 DEF Gateway!Answered, Gateway!Entered
    <3>2. x12' = x12 \cup {a} /\ a.serial = x9[r].serial /\ a.ok = ok /\ a.channel = c
      BY <2>2 DEF Gateway!Answered, Gateway!Answer
    <3> HIDE DEF q, a
    <3> QED
      BY <3>1, <3>2
  <2> QED
    BY <2>1, <2>2 DEF Gateway!Relays
<1>4. /\ Gateway(k)!Insiders' = Gateway(k)!Insiders /\ x9'[r] = q
      /\ \A p \in Gateway(k)!Insiders : p # r => x9'[p] = x9[p]
      /\ x9' \in [k.requests -> {Gateway(k)!Idle} \cup Gateway(k)!Entered]
  <2>1. Gateway(k)!TypeOK /\ x9' = [x9 EXCEPT ![r] = q] /\ r \in Gateway(k)!Insiders
    BY <1>1, <1>3
  <2> QED
    BY <1>1, <2>1, MoveOf
<1>5. Gateway(k)!GaugeExact' /\ Gateway(k)!CountsExact' /\ Gateway(k)!ServedOnce'
  <2>1. CASE x12' = x12 /\ q.ok = x9[r].ok
    BY <1>1, <1>3, <2>1, MoveKeeps
  <2>2. ASSUME NEW a, x12' = x12 \cup {a}, a.serial = q.serial, a.ok = q.ok, a.channel = c
        PROVE  Gateway(k)!GaugeExact' /\ Gateway(k)!CountsExact' /\ Gateway(k)!ServedOnce'
    BY <1>1, <1>3, <2>2, AnswerKeeps
  <2> QED
    BY <1>3, <2>1, <2>2
<1>6. Gateway(k)!IsFiniteSet(x12')
  <2>1. Gateway(k)!IsFiniteSet(x12)
    BY DEF Gateway!TypeOK
  <2>2. ASSUME NEW a, x12' = x12 \cup {a} PROVE Gateway(k)!IsFiniteSet(x12')
    <3>1. CASE a \in x12
      <4>1. x12' = x12
        BY <2>2, <3>1
      <4> QED
        BY <2>1, <4>1
    <3>2. CASE a \notin x12
      BY <2>1, <2>2, <3>2, OneMoreElement
    <3> QED
      BY <3>1, <3>2
  <2> QED
    BY <1>3, <2>1, <2>2
<1>7. Gateway(k)!TypeOK'
  BY <1>1, <1>2, <1>4, <1>6 DEF Gateway!TypeOK
<1>8. Gateway(k)!TracesTrue'
  <2>1. \A a \in x12' : a \in x12 \/ a.serial = x9[r].serial
    BY <1>3
  <2>2. \A p \in Gateway(k)!Insiders' : x9'[p].serial = x9[p].serial
    BY <1>3, <1>4
  <2>3. \A a \in x12 : a \in x12'
    BY <1>3
  <2>4. ASSUME NEW a \in x12', a.kind = "relay"
        PROVE  \/ \E t \in x7' \cup x8' : t.trace = a.trace
               \/ \E p \in Gateway(k)!Insiders' : x9'[p].serial = a.serial
    <3>1. CASE a \in x12
      BY <1>1, <1>4, <2>2, <2>4, <3>1 DEF Gateway!TracesTrue
    <3>2. CASE a.serial = x9[r].serial
      BY <1>1, <1>4, <2>2, <3>2
    <3> QED
      BY <2>1, <3>1, <3>2
  <2>5. /\ \A t \in x7', u \in x7' : t.trace = u.trace => t = u
        /\ \A t \in x8' : t \in x12'
    BY <1>1, <2>3 DEF Gateway!TracesTrue
  <2> QED
    BY <2>4, <2>5 DEF Gateway!TracesTrue
<1>9. Gateway(k)!RoutedRight'
  BY <1>1, <1>3, SentKeeps
<1>10. Gateway(k)!Traced'
  <2>1. \A a \in x12' : a \in x12 \/ a.serial = x9[r].serial
    BY <1>3
  <2> SUFFICES ASSUME NEW p \in Gateway(k)!Insiders, x9'[p].at = "copy", NEW a \in x12',
                      a.serial = x9'[p].serial
               PROVE  \E t \in x7' \cup x8' : t.trace = a.trace
    BY <1>4 DEF Gateway!Traced
  <2>2. p # r /\ x9'[p] = x9[p]
    BY <1>3, <1>4
  <2>3. x9[p].serial # x9[r].serial
    BY <1>1, <2>2 DEF Gateway!ServedOnce
  <2>4. a \in x12
    BY <2>1, <2>2, <2>3
  <2> QED
    BY <1>1, <2>2, <2>4 DEF Gateway!Traced
<1>11. Gateway(k)!SavedByLast'
  BY <1>1, <1>3, <1>4 DEF Gateway!SavedByLast
<1> QED
  BY <1>5, <1>7, <1>8, <1>9, <1>10, <1>11

\* The file has what the channels are; the database is next.
LEMMA SaveToDiskKeeps ==
    ASSUME NEW k, Gateway(k)!ConstantsOK, Gateway(k)!RelayInv, NEW r \in k.requests, Gateway(k)!SaveToDisk(r)
    PROVE  Gateway(k)!RelayInv'
<1> USE DEF Gateway!RelayInv, Gateway!Running
<1> DEFINE q == [x9[r] EXCEPT !.at = "saved"]
<1>1. /\ x9[r].at = "save" /\ x5' = x4 /\ x9' = [x9 EXCEPT ![r].at = "saved"]
      /\ UNCHANGED <<x1, x2, x3, x4, x6, x7, x8, x10, x11, x12, x13, x14>>
  BY DEF Gateway!SaveToDisk
<1>2. r \in Gateway(k)!Insiders
  BY <1>1 DEF Gateway!Insiders, Gateway!Inside
<1>3. x9[r] \in Gateway(k)!Entered /\ x9 \in [k.requests -> {Gateway(k)!Idle} \cup Gateway(k)!Entered] /\ x9[r].channel \in Gateway(k)!Ids
  BY <1>1, <1>2, InsidersType DEF Gateway!TypeOK, Gateway!ServedOnce
<1>4. /\ q \in Gateway(k)!Entered /\ x9' = [x9 EXCEPT ![r] = q] /\ q.at = "saved"
      /\ q.serial = x9[r].serial /\ q.channel = x9[r].channel /\ q.model = x9[r].model
      /\ q.ask = x9[r].ask /\ q.ok = x9[r].ok
  BY <1>1, <1>3 DEF Gateway!Entered
<1> HIDE DEF q
<1>5. /\ Gateway(k)!Insiders' = Gateway(k)!Insiders /\ x9'[r] = q
      /\ \A p \in Gateway(k)!Insiders : p # r => x9'[p] = x9[p]
      /\ x9' \in [k.requests -> {Gateway(k)!Idle} \cup Gateway(k)!Entered]
  BY <1>2, <1>3, <1>4, MoveOf
<1>6. Gateway(k)!GaugeExact' /\ Gateway(k)!CountsExact' /\ Gateway(k)!ServedOnce'
  BY <1>1, <1>2, <1>3, <1>4, MoveKeeps
<1>7. Gateway(k)!TypeOK'
  BY <1>1, <1>5 DEF Gateway!TypeOK
<1>8. Gateway(k)!TracesTrue'
  BY <1>1, <1>4, <1>5 DEF Gateway!TracesTrue
<1>9. Gateway(k)!RoutedRight'
  BY <1>1, <1>2, <1>3, <1>4, SentKeeps
<1>10. Gateway(k)!Traced'
  BY <1>1, <1>4, <1>5 DEF Gateway!Traced
<1>11. Gateway(k)!SavedByLast'
  BY <1>1, <1>2, <1>4, <1>5 DEF Gateway!SavedByLast
<1> QED
  BY <1>6, <1>7, <1>8, <1>9, <1>10, <1>11

\* The database too; the exchange is handed to recordTrace.
LEMMA SaveToDBKeeps ==
    ASSUME NEW k, Gateway(k)!ConstantsOK, Gateway(k)!RelayInv, NEW r \in k.requests, Gateway(k)!SaveToDB(r)
    PROVE  Gateway(k)!RelayInv'
<1> USE DEF Gateway!RelayInv, Gateway!Running
<1> DEFINE q == [x9[r] EXCEPT !.at = "copy"]
<1>1. /\ x9[r].at = "saved" /\ x9' = [x9 EXCEPT ![r].at = "copy"]
      /\ x6' = IF x3 THEN x4 ELSE x6
      /\ x8' = x8 \cup {a \in x12 : a.serial = x9[r].serial}
      /\ UNCHANGED <<x1, x2, x3, x4, x5, x7, x10, x11, x12, x13, x14>>
  BY DEF Gateway!SaveToDB, Gateway!Exchange
<1>2. r \in Gateway(k)!Insiders
  BY <1>1 DEF Gateway!Insiders, Gateway!Inside
<1>3. x9[r] \in Gateway(k)!Entered /\ x9 \in [k.requests -> {Gateway(k)!Idle} \cup Gateway(k)!Entered] /\ x9[r].channel \in Gateway(k)!Ids
  BY <1>1, <1>2, InsidersType DEF Gateway!TypeOK, Gateway!ServedOnce
<1>4. /\ q \in Gateway(k)!Entered /\ x9' = [x9 EXCEPT ![r] = q] /\ q.at = "copy"
      /\ q.serial = x9[r].serial /\ q.channel = x9[r].channel /\ q.model = x9[r].model
      /\ q.ask = x9[r].ask /\ q.ok = x9[r].ok
  BY <1>1, <1>3 DEF Gateway!Entered
<1> HIDE DEF q
<1>5. /\ Gateway(k)!Insiders' = Gateway(k)!Insiders /\ x9'[r] = q
      /\ \A p \in Gateway(k)!Insiders : p # r => x9'[p] = x9[p]
      /\ x9' \in [k.requests -> {Gateway(k)!Idle} \cup Gateway(k)!Entered]
  BY <1>2, <1>3, <1>4, MoveOf
<1>6. Gateway(k)!GaugeExact' /\ Gateway(k)!CountsExact' /\ Gateway(k)!ServedOnce'
  BY <1>1, <1>2, <1>3, <1>4, MoveKeeps
<1>7. Gateway(k)!TypeOK'
  BY <1>1, <1>5 DEF Gateway!TypeOK
<1>8. Gateway(k)!TracesTrue'
  BY <1>1, <1>4, <1>5 DEF Gateway!TracesTrue
<1>9. Gateway(k)!RoutedRight'
  BY <1>1, <1>2, <1>3, <1>4, SentKeeps
<1>10. Gateway(k)!Traced'
  BY <1>1, <1>4, <1>5 DEF Gateway!Traced
<1>11. Gateway(k)!SavedByLast'
  BY <1>1, <1>4, <1>5 DEF Gateway!SavedByLast
<1> QED
  BY <1>6, <1>7, <1>8, <1>9, <1>10, <1>11

\* A start loads what the last one left; nobody is inside.
LEMMA BootKeeps ==
    ASSUME NEW k, Gateway(k)!ConstantsOK, Gateway(k)!RelayInv, Gateway(k)!Boot
    PROVE  Gateway(k)!RelayInv'
<1> USE DEF Gateway!RelayInv
<1>1. /\ x1' = TRUE /\ x14' = x14 + 1 /\ x14 < k.events /\ ~ x1 /\ x3' \in BOOLEAN
      /\ x4' = IF x3' /\ x6 # Gateway(k)!Nothing THEN x6 ELSE x5
      /\ x6' = IF x3' THEN x4' ELSE x6
      /\ UNCHANGED <<x2, x5, x7, x8, x9, x10, x11, x12, x13>>
  BY DEF Gateway!Boot
<1>2. Gateway(k)!Insiders' = Gateway(k)!Insiders /\ Gateway(k)!Insiders = {}
  BY <1>1 DEF Gateway!Insiders, Gateway!Inside, Gateway!ServedOnce
<1>3. x4' \in [Gateway(k)!Ids -> Gateway(k)!Health] /\ x6' \in [Gateway(k)!Ids -> Gateway(k)!Health] \cup {Gateway(k)!Nothing}
  BY <1>1 DEF Gateway!TypeOK
<1>4. x14' \in 0..k.events
  <2>1. x14 \in 0..k.events /\ k.events \in Nat
    BY DEF Gateway!TypeOK, Gateway!ConstantsOK
  <2> QED
    BY <1>1, <2>1
<1>5. Gateway(k)!TypeOK'
  BY <1>1, <1>3, <1>4 DEF Gateway!TypeOK
<1>6. Gateway(k)!GaugeExact' /\ Gateway(k)!CountsExact'
  <2>1. \A c : Gateway(k)!Succeeding(c)' = Gateway(k)!Succeeding(c) /\ Gateway(k)!Successes(c)' = Gateway(k)!Successes(c)
    BY <1>1, <1>2 DEF Gateway!Succeeding, Gateway!Successes
  <2> QED
    BY <1>1, <1>2, <2>1 DEF Gateway!GaugeExact, Gateway!CountsExact
<1>7. Gateway(k)!TracesTrue' /\ Gateway(k)!RoutedRight' /\ Gateway(k)!Traced'
  BY <1>1, <1>2 DEF Gateway!TracesTrue, Gateway!RoutedRight, Gateway!Traced
<1>8. Gateway(k)!ServedOnce'
  BY <1>1, <1>2 DEF Gateway!ServedOnce
<1>9. Gateway(k)!SavedByLast'
  BY <1>1, <1>2 DEF Gateway!SavedByLast
<1> QED
  BY <1>5, <1>6, <1>7, <1>8, <1>9

\* The process ends with its requests, its counters and what it had to trace.
LEMMA EndKeeps ==
    ASSUME NEW k, Gateway(k)!ConstantsOK, Gateway(k)!RelayInv, Gateway(k)!ProcessEnds
    PROVE  Gateway(k)!RelayInv'
<1> USE DEF Gateway!RelayInv
<1>1. /\ x1' = FALSE /\ x9' = [r \in k.requests |-> Gateway(k)!Idle] /\ x8' = {} /\ x12' = {}
      /\ x10' = 0 /\ x11' = [c \in DOMAIN x11 |-> 0]
      /\ UNCHANGED <<x2, x3, x4, x5, x6, x7, x13, x14>>
  BY DEF Gateway!ProcessEnds
<1>2. Gateway(k)!Insiders' = {}
  BY <1>1 DEF Gateway!Insiders, Gateway!Inside, Gateway!Idle
<1>3. Gateway(k)!IsFiniteSet({}) /\ Gateway(k)!Cardinality({}) = 0
  BY NoneCounted
<1>4. x11' = [c \in Gateway(k)!Ids \cup {Gateway(k)!NoChannel} |-> 0]
  BY <1>1 DEF Gateway!TypeOK
<1>5. 0 \in 0..Gateway(k)!Cardinality(k.requests)
  <2>1. Gateway(k)!Cardinality(k.requests) \in Nat
    BY Smaller DEF Gateway!ConstantsOK
  <2> QED
    BY <2>1
<1>6. x9' \in [k.requests -> {Gateway(k)!Idle} \cup Gateway(k)!Entered]
  BY <1>1
<1>7. x11' \in [Gateway(k)!Ids \cup {Gateway(k)!NoChannel} -> Nat]
  BY <1>4
<1>8. Gateway(k)!TypeOK'
  BY <1>1, <1>3, <1>5, <1>6, <1>7 DEF Gateway!TypeOK
<1>9. Gateway(k)!GaugeExact'
  BY <1>1, <1>2, <1>3 DEF Gateway!GaugeExact
<1>10. Gateway(k)!CountsExact'
  <2> SUFFICES ASSUME NEW c \in Gateway(k)!Ids
               PROVE  x11'[c] + Gateway(k)!Cardinality(Gateway(k)!Succeeding(c)') = Gateway(k)!Cardinality(Gateway(k)!Successes(c)')
    BY DEF Gateway!CountsExact
  <2>1. Gateway(k)!Succeeding(c)' = {} /\ Gateway(k)!Successes(c)' = {} /\ x11'[c] = 0
    BY <1>1, <1>2, <1>4 DEF Gateway!Succeeding, Gateway!Successes
  <2> QED
    BY <1>3, <2>1
<1>11. Gateway(k)!TracesTrue' /\ Gateway(k)!RoutedRight' /\ Gateway(k)!Traced'
  BY <1>1, <1>2 DEF Gateway!TracesTrue, Gateway!RoutedRight, Gateway!Traced
<1>12. Gateway(k)!ServedOnce'
  BY <1>1, <1>2 DEF Gateway!ServedOnce
<1>13. Gateway(k)!SavedByLast'
  BY <1>1 DEF Gateway!SavedByLast
<1> QED
  BY <1>8, <1>9, <1>10, <1>11, <1>12, <1>13

\* An exchange is recorded, unless one of its trace id is.
LEMMA InsertKeeps ==
    ASSUME NEW k, Gateway(k)!ConstantsOK, Gateway(k)!RelayInv, Gateway(k)!InsertTrace
    PROVE  Gateway(k)!RelayInv'
<1> USE DEF Gateway!RelayInv, Gateway!Running
<1>1. UNCHANGED <<x1, x2, x3, x4, x5, x6, x9, x10, x11, x12, x13, x14>>
  BY DEF Gateway!InsertTrace
<1>2. PICK t \in x8 : /\ x8' = x8 \ {t}
                      /\ x7' = IF \E u \in x7 : u.trace = t.trace THEN x7 ELSE x7 \cup {t}
  BY DEF Gateway!InsertTrace
<1>3. Gateway(k)!Insiders' = Gateway(k)!Insiders
  BY <1>1 DEF Gateway!Insiders, Gateway!Inside
<1>4. \A id : (\E u \in x7 \cup x8 : u.trace = id) => \E u \in x7' \cup x8' : u.trace = id
  <2> SUFFICES ASSUME NEW u \in x7 \cup x8 PROVE \E v \in x7' \cup x8' : v.trace = u.trace
    OBVIOUS
  <2>1. CASE u # t \/ ~ \E v \in x7 : v.trace = t.trace
    BY <1>2, <2>1
  <2>2. CASE u = t /\ \E v \in x7 : v.trace = t.trace
    BY <1>2, <2>2
  <2> QED
    BY <2>1, <2>2
<1>5. Gateway(k)!TypeOK'
  BY <1>1 DEF Gateway!TypeOK
<1>6. Gateway(k)!GaugeExact' /\ Gateway(k)!CountsExact'
  <2>1. \A c : Gateway(k)!Succeeding(c)' = Gateway(k)!Succeeding(c) /\ Gateway(k)!Successes(c)' = Gateway(k)!Successes(c)
    BY <1>1, <1>3 DEF Gateway!Succeeding, Gateway!Successes
  <2> QED
    BY <1>1, <1>3, <2>1 DEF Gateway!GaugeExact, Gateway!CountsExact
<1>7. Gateway(k)!TracesTrue'
  <2>1. \A u \in x7', v \in x7' : u.trace = v.trace => u = v
    BY <1>2 DEF Gateway!TracesTrue
  <2>2. \A a \in x12' : a.kind = "relay" =>
            \/ \E u \in x7' \cup x8' : u.trace = a.trace
            \/ \E r \in Gateway(k)!Insiders' : x9'[r].serial = a.serial
    BY <1>1, <1>3, <1>4 DEF Gateway!TracesTrue
  <2>3. \A u \in x8' : u \in x12'
    BY <1>1, <1>2 DEF Gateway!TracesTrue
  <2> QED
    BY <2>1, <2>2, <2>3 DEF Gateway!TracesTrue
<1>8. Gateway(k)!RoutedRight' /\ Gateway(k)!ServedOnce'
  BY <1>1, <1>3 DEF Gateway!RoutedRight, Gateway!ServedOnce
<1>9. Gateway(k)!Traced'
  BY <1>1, <1>3, <1>4 DEF Gateway!Traced
<1>10. Gateway(k)!SavedByLast'
  BY <1>1, <1>3 DEF Gateway!SavedByLast
<1> QED
  BY <1>5, <1>6, <1>7, <1>8, <1>9, <1>10

\* An operator's edit is saved at once.
LEMMA OperateKeeps ==
    ASSUME NEW k, Gateway(k)!ConstantsOK, Gateway(k)!RelayInv, Gateway(k)!Operate
    PROVE  Gateway(k)!RelayInv'
<1> USE DEF Gateway!RelayInv
<1>1. /\ x14' = x14 + 1 /\ x14 < k.events
      /\ x5' = x4' /\ x6' = IF x3 THEN x4' ELSE x6
      /\ UNCHANGED <<x1, x2, x3, x7, x8, x9, x10, x11, x12, x13>>
  BY DEF Gateway!Operate
<1>2. x4' \in [Gateway(k)!Ids -> Gateway(k)!Health]
  <2>1. PICK c \in Gateway(k)!Ids : x4' = [x4 EXCEPT ![c].enabled = ~ @]
    BY DEF Gateway!Operate
  <2>2. x4 \in [Gateway(k)!Ids -> Gateway(k)!Health]
    BY DEF Gateway!TypeOK
  <2>3. [x4[c] EXCEPT !.enabled = ~ @] \in Gateway(k)!Health
    BY <2>2 DEF Gateway!Health
  <2> QED
    BY <2>1, <2>2, <2>3
<1>3. Gateway(k)!Insiders' = Gateway(k)!Insiders
  BY <1>1 DEF Gateway!Insiders, Gateway!Inside
<1>4. x14' \in 0..k.events
  <2>1. x14 \in 0..k.events /\ k.events \in Nat
    BY DEF Gateway!TypeOK, Gateway!ConstantsOK
  <2> QED
    BY <1>1, <2>1
<1>5. Gateway(k)!TypeOK'
  BY <1>1, <1>2, <1>4 DEF Gateway!TypeOK
<1>6. Gateway(k)!GaugeExact' /\ Gateway(k)!CountsExact'
  <2>1. \A c : Gateway(k)!Succeeding(c)' = Gateway(k)!Succeeding(c) /\ Gateway(k)!Successes(c)' = Gateway(k)!Successes(c)
    BY <1>1, <1>3 DEF Gateway!Succeeding, Gateway!Successes
  <2> QED
    BY <1>1, <1>3, <2>1 DEF Gateway!GaugeExact, Gateway!CountsExact
<1>7. Gateway(k)!TracesTrue' /\ Gateway(k)!RoutedRight' /\ Gateway(k)!Traced' /\ Gateway(k)!ServedOnce'
  <2>1. Gateway(k)!TracesTrue' /\ Gateway(k)!Traced'
    BY <1>1, <1>3 DEF Gateway!TracesTrue, Gateway!Traced
  <2>2. Gateway(k)!RoutedRight' /\ Gateway(k)!ServedOnce'
    BY <1>1, <1>3 DEF Gateway!RoutedRight, Gateway!ServedOnce
  <2> QED
    BY <2>1, <2>2
<1>8. Gateway(k)!SavedByLast'
  BY <1>1 DEF Gateway!SavedByLast
<1> QED
  BY <1>5, <1>6, <1>7, <1>8

\* Nobody is inside at the start.
LEMMA RelayStarts ==
    ASSUME NEW k, Gateway(k)!ConstantsOK, Gateway(k)!Init
    PROVE  Gateway(k)!RelayInv
<1> USE DEF Gateway!Init
<1>1. Gateway(k)!Insiders = {}
  BY DEF Gateway!Insiders, Gateway!Inside, Gateway!Idle
<1>2. Gateway(k)!IsFiniteSet({}) /\ Gateway(k)!Cardinality({}) = 0
  BY NoneCounted
<1>3. Gateway(k)!TypeOK
  <2>1. Gateway(k)!Cardinality(k.requests) \in Nat /\ k.asked \in Nat /\ k.events \in Nat
    BY Smaller DEF Gateway!ConstantsOK
  <2>2. 0 \in 0..Gateway(k)!Cardinality(k.requests) /\ 0 \in 0..k.asked /\ 0 \in 0..k.events
    BY <2>1
  <2>3. k.saved \in [Gateway(k)!Ids -> Gateway(k)!Health]
    BY DEF Gateway!ConstantsOK
  <2>4. /\ x9 \in [k.requests -> {Gateway(k)!Idle} \cup Gateway(k)!Entered]
        /\ x11 \in [Gateway(k)!Ids \cup {Gateway(k)!NoChannel} -> Nat]
    OBVIOUS
  <2> QED
    BY <1>2, <2>2, <2>3, <2>4 DEF Gateway!TypeOK
<1>4. Gateway(k)!GaugeExact
  BY <1>1, <1>2 DEF Gateway!GaugeExact
<1>5. Gateway(k)!CountsExact
  <2> SUFFICES ASSUME NEW c \in Gateway(k)!Ids
               PROVE  x11[c] + Gateway(k)!Cardinality(Gateway(k)!Succeeding(c)) = Gateway(k)!Cardinality(Gateway(k)!Successes(c))
    BY DEF Gateway!CountsExact
  <2>1. Gateway(k)!Succeeding(c) = {} /\ Gateway(k)!Successes(c) = {} /\ x11[c] = 0
    BY <1>1 DEF Gateway!Succeeding, Gateway!Successes
  <2> QED
    BY <1>2, <2>1
<1>6. Gateway(k)!TracesTrue /\ Gateway(k)!RoutedRight /\ Gateway(k)!Traced
  BY <1>1 DEF Gateway!TracesTrue, Gateway!RoutedRight, Gateway!Traced
<1>7. Gateway(k)!ServedOnce
  BY <1>1 DEF Gateway!ServedOnce
<1>8. Gateway(k)!SavedByLast
  BY DEF Gateway!SavedByLast
<1> QED
  BY <1>3, <1>4, <1>5, <1>6, <1>7, <1>8 DEF Gateway!RelayInv

\* Every step, of a request or of the gateway.
LEMMA RelaySteps ==
    ASSUME NEW k, Gateway(k)!ConstantsOK, Gateway(k)!RelayInv, [Gateway(k)!Next]_(Gateway(k)!vars)
    PROVE  Gateway(k)!RelayInv'
<1>1. ASSUME NEW r \in k.requests, Gateway(k)!Step(r) PROVE Gateway(k)!RelayInv'
  <2>1. CASE Gateway(k)!Route(r)
    BY <2>1, RouteKeeps
  <2>2. CASE Gateway(k)!Relays(r)
    BY <2>2, RelaysKeeps
  <2>3. CASE Gateway(k)!SaveToDisk(r)
    BY <2>3, SaveToDiskKeeps
  <2>4. CASE Gateway(k)!SaveToDB(r)
    BY <2>4, SaveToDBKeeps
  <2>5. ASSUME x9[r].at \in {"in", "chosen", "copy"}, x9' = [x9 EXCEPT ![r] = Gateway(k)!Idle],
               x10' = x10 - 1, UNCHANGED <<x1, x2, x3, x4, x5, x6, x7, x8, x13, x14>>,
               \/ ~ x9[r].ok /\ x11' = x11 /\ x12' = x12
               \/ /\ x9[r].ok /\ x12' = x12
                  /\ x11' = [x11 EXCEPT ![Gateway(k)!LabelOf(x9[r].channel)] = @ + 1]
               \/ /\ x9[r].at = "in" /\ x12' = x12 \cup {Gateway(k)!Answer(r, "list", TRUE)}
                  /\ x11' = [x11 EXCEPT ![Gateway(k)!LabelOf(x9[r].channel)] = @ + 1]
        PROVE  Gateway(k)!RelayInv'
    <3>1. r \in Gateway(k)!Insiders
      BY <2>5 DEF Gateway!Insiders, Gateway!Inside
    <3> QED
      BY <2>5, <3>1, LeaveKeeps
  <2>6. r \in Gateway(k)!Insiders /\ x9[r].at \in {"in", "chosen"} => ~ x9[r].ok
    BY DEF Gateway!RelayInv, Gateway!ServedOnce
  <2>7. x9[r].at \in {"in", "chosen"} => r \in Gateway(k)!Insiders
    BY DEF Gateway!Insiders, Gateway!Inside
  <2> USE DEF Gateway!Leave, Gateway!Running, Gateway!Stored
  <2>8. CASE Gateway(k)!TurnedAway(r)
    <3>1. /\ x9[r].at = "in" /\ x9' = [x9 EXCEPT ![r] = Gateway(k)!Idle] /\ x10' = x10 - 1
          /\ UNCHANGED <<x1, x2, x3, x4, x5, x6, x7, x8, x11, x12, x13, x14>>
      BY <2>8 DEF Gateway!TurnedAway
    <3> QED
      BY <2>5, <2>6, <2>7, <3>1
  <2>9. CASE Gateway(k)!ListModels(r)
    <3>1. /\ x9[r].at = "in" /\ x9' = [x9 EXCEPT ![r] = Gateway(k)!Idle] /\ x10' = x10 - 1
          /\ UNCHANGED <<x1, x2, x3, x4, x5, x6, x7, x8, x13, x14>>
          /\ x12' = x12 \cup {Gateway(k)!Answer(r, "list", TRUE)}
          /\ x11' = [x11 EXCEPT ![Gateway(k)!LabelOf(x9[r].channel)] = @ + 1]
      BY <2>9 DEF Gateway!ListModels, Gateway!Handled
    <3> QED
      BY <2>5, <3>1
  <2>10. CASE Gateway(k)!BadForm(r)
    <3>1. /\ x9[r].at = "chosen" /\ x9' = [x9 EXCEPT ![r] = Gateway(k)!Idle] /\ x10' = x10 - 1
          /\ UNCHANGED <<x1, x2, x3, x4, x5, x6, x7, x8, x11, x12, x13, x14>>
      BY <2>10 DEF Gateway!BadForm
    <3> QED
      BY <2>5, <2>6, <2>7, <3>1
  <2>11. CASE Gateway(k)!Panic(r)
    <3>1. /\ x9[r].at = "chosen" /\ x9' = [x9 EXCEPT ![r] = Gateway(k)!Idle] /\ x10' = x10 - 1
          /\ UNCHANGED <<x1, x2, x3, x4, x5, x6, x7, x8, x11, x12, x13, x14>>
      BY <2>11 DEF Gateway!Panic, Gateway!FormRead
    <3> QED
      BY <2>5, <2>6, <2>7, <3>1
  <2>12. CASE Gateway(k)!CopyBody(r)
    <3>1. /\ x9[r].at = "copy" /\ x9' = [x9 EXCEPT ![r] = Gateway(k)!Idle] /\ x10' = x10 - 1
          /\ UNCHANGED <<x1, x2, x3, x4, x5, x6, x7, x8, x12, x13, x14>>
          /\ x11' = IF x9[r].ok THEN [x11 EXCEPT ![Gateway(k)!LabelOf(x9[r].channel)] = @ + 1] ELSE x11
      BY <2>12 DEF Gateway!CopyBody
    <3> QED
      BY <2>5, <3>1
  <2> QED
    BY <1>1, <2>1, <2>2, <2>3, <2>4, <2>8, <2>9, <2>10, <2>11, <2>12 DEF Gateway!Step
<1>2. CASE UNCHANGED Gateway(k)!vars
  <2>0. UNCHANGED <<x1, x2, x3, x4, x5, x6, x7, x8, x9, x10, x11, x12, x13, x14>>
    BY <1>2 DEF Gateway!vars
  <2>1. Gateway(k)!TypeOK'
    BY <2>0 DEF Gateway!TypeOK, Gateway!RelayInv
  <2>2. Gateway(k)!GaugeExact'
    BY <2>0 DEF Gateway!GaugeExact, Gateway!RelayInv, Gateway!Insiders, Gateway!Inside, Gateway!Succeeding, Gateway!Successes
  <2>3. Gateway(k)!CountsExact'
    BY <2>0 DEF Gateway!CountsExact, Gateway!RelayInv, Gateway!Insiders, Gateway!Inside, Gateway!Succeeding, Gateway!Successes
  <2>4. Gateway(k)!TracesTrue'
    BY <2>0 DEF Gateway!TracesTrue, Gateway!RelayInv, Gateway!Insiders, Gateway!Inside
  <2>5. Gateway(k)!RoutedRight'
    BY <2>0 DEF Gateway!RoutedRight, Gateway!RelayInv, Gateway!Insiders, Gateway!Inside
  <2>6. Gateway(k)!ServedOnce'
    BY <2>0 DEF Gateway!ServedOnce, Gateway!RelayInv, Gateway!Insiders, Gateway!Inside, Gateway!Succeeding, Gateway!Successes
  <2>7. Gateway(k)!Traced'
    BY <2>0 DEF Gateway!Traced, Gateway!RelayInv, Gateway!Insiders, Gateway!Inside
  <2>8. Gateway(k)!SavedByLast'
    BY <2>0 DEF Gateway!SavedByLast, Gateway!RelayInv, Gateway!Insiders, Gateway!Inside
  <2> QED
    BY <2>1, <2>2, <2>3, <2>4, <2>5, <2>6, <2>7, <2>8 DEF Gateway!RelayInv
<1> QED
  BY <1>1, <1>2, ArriveKeeps, BootKeeps, EndKeeps, InsertKeeps, OperateKeeps DEF Gateway!Next

\* The invariant says what the module promises.
LEMMA RelayFollows ==
    ASSUME NEW k, Gateway(k)!ConstantsOK, Gateway(k)!RelayInv
    PROVE  Gateway(k)!RelayAccounts
<1>1. Gateway(k)!StartsAsSaved
  <2> SUFFICES ASSUME x1, \A r \in k.requests : x9[r].at \notin {"save", "saved"}
               PROVE  x4 = IF x3 THEN x6 ELSE x5
    BY DEF Gateway!StartsAsSaved
  <2>1. \A r \in Gateway(k)!Insiders : x9[r].at \notin {"save", "saved"}
    BY DEF Gateway!Insiders
  <2> QED
    BY <2>1 DEF Gateway!RelayInv, Gateway!SavedByLast, Gateway!TypeOK
<1>2. Gateway(k)!ListedAreServed
  BY ListedFound
<1> QED
  BY <1>1, <1>2 DEF Gateway!RelayAccounts, Gateway!RelayInv

\* The gauge and the counters of the relay gateway tell of the requests that
\* are inside and were answered, its traces of exchanges that took place, a
\* request goes where its model is known, and a start loads what was saved
\* last: always, whatever the channels and mappings are.
THEOREM RelayIsAccounted ==
    ASSUME NEW CONSTANT k, Gateway(k)!ConstantsOK
    PROVE  Gateway(k)!Init /\ [][Gateway(k)!Next]_(Gateway(k)!vars) => []Gateway(k)!RelayAccounts
<1>1. Gateway(k)!Init => Gateway(k)!RelayInv
  BY RelayStarts
<1>2. Gateway(k)!RelayInv /\ [Gateway(k)!Next]_(Gateway(k)!vars) => Gateway(k)!RelayInv'
  BY RelaySteps
<1>3. Gateway(k)!RelayInv => Gateway(k)!RelayAccounts
  BY RelayFollows
<1> QED
  BY <1>1, <1>2, <1>3, PTL

-----------------------------------------------------------------------------
\* The platform's tables, for any requests, rows, edits and lists of models. Of
\* the pool x1 .. x10 are table, rows, keys, models, running, begun, used,
\* ideal, blurred and gone.

\* A finite set, listed, is all there.
LEMMA ListedSet ==
    ASSUME NEW k, NEW S, IsFiniteSet(S)
    PROVE  /\ Dir(k)!Listed(S) \in Seq(S)
           /\ S = {Dir(k)!Listed(S)[n] : n \in DOMAIN Dir(k)!Listed(S)}
<1> DEFINE N == Cardinality(S)
<1>1. N \in Nat /\ ExistsBijection(1 .. N, S) /\ Dir(k)!Cardinality(S) = N
  BY FS_CardinalityType DEF Dir!Cardinality, Cardinality
<1>2. PICK f \in [1 .. N -> S] : \A e \in S : \E n \in 1 .. N : f[n] = e
  BY <1>1 DEF ExistsBijection, Bijection, Surjection
<1>3. S = {f[n] : n \in DOMAIN f}
  BY <1>2
<1>3a. \E s \in [1 .. N -> S] : S = {s[n] : n \in DOMAIN s}
  BY <1>2, <1>3
<1>4. Dir(k)!Listed(S) \in [1 .. N -> S] /\ S = {Dir(k)!Listed(S)[n] : n \in DOMAIN Dir(k)!Listed(S)}
  <2>1. Dir(k)!Listed(S) = CHOOSE s \in [1 .. N -> S] : S = {s[n] : n \in DOMAIN s}
    BY <1>1 DEF Dir!Listed
  <2> HIDE DEF N
  <2> QED
    BY <1>3a, <2>1
<1> DEFINE s == Dir(k)!Listed(S)
<1> HIDE DEF s
<1>5. s \in [1 .. N -> S] => s \in Seq(S)
  BY <1>1
<1> QED
  BY <1>4, <1>5 DEF s

\* What a list of statements has in it, if it is empty or a single one.
LEMMA OfNone ==
    ASSUME NEW k
    PROVE  /\ <<>> \in Seq(Dir(k)!AStatement) /\ Dir(k)!Names(<<>>) = {} /\ Dir(k)!ModelsOf(<<>>) = {}
           /\ Dir(k)!InOrder(<<>>)
BY DEF Dir!Names, Dir!ModelsOf, Dir!InOrder

LEMMA OfOne ==
    ASSUME NEW k, NEW name \in {"insert", "select", "update", "delete", "archive", "replace", "key",
                                "clear", "list"}
    PROVE  /\ <<<<name>>>> \in Seq(Dir(k)!AStatement) /\ Dir(k)!Names(<<<<name>>>>) = {name}
           /\ Dir(k)!ModelsOf(<<<<name>>>>) = {} /\ Dir(k)!InOrder(<<<<name>>>>)
<1> DEFINE s == <<<<name>>>>
<1>1. DOMAIN s = {1} /\ s[1][1] = name /\ s[1] \in Dir(k)!AStatement
  BY DEF Dir!AStatement
<1>2. s \in Seq(Dir(k)!AStatement)
  BY <1>1
<1> HIDE DEF s
<1>3. Dir(k)!Names(s) = {name}
  BY <1>1 DEF Dir!Names
<1>4. Dir(k)!ModelsOf(s) = {}
  BY <1>1 DEF Dir!ModelsOf
<1>5. Dir(k)!InOrder(s)
  BY <1>1 DEF Dir!InOrder
<1> QED
  BY <1>2, <1>3, <1>4, <1>5 DEF s

\* The statements of one list rank before those of the other.
Precede(k, s, t) == \A m \in Dir(k)!Names(s), n \in Dir(k)!Names(t) : Dir(k)!Rank(m) < Dir(k)!Rank(n)

\* And of one list after another.
LEMMA OfBoth ==
    ASSUME NEW k, NEW s \in Seq(Dir(k)!AStatement), NEW t \in Seq(Dir(k)!AStatement)
    PROVE  /\ s \o t \in Seq(Dir(k)!AStatement)
               /\ Dir(k)!Names(s \o t) = Dir(k)!Names(s) \cup Dir(k)!Names(t)
           /\ Dir(k)!ModelsOf(s \o t) = Dir(k)!ModelsOf(s) \cup Dir(k)!ModelsOf(t)
           /\ Dir(k)!InOrder(s) /\ Dir(k)!InOrder(t) /\ Precede(k, s, t) => Dir(k)!InOrder(s \o t)
<1> DEFINE u == s \o t
<1>1. /\ u \in Seq(Dir(k)!AStatement) /\ Len(u) = Len(s) + Len(t) /\ Len(s) \in Nat /\ Len(t) \in Nat
      /\ DOMAIN u = 1 .. Len(u) /\ DOMAIN s = 1 .. Len(s) /\ DOMAIN t = 1 .. Len(t)
  OBVIOUS
<1>2. /\ \A n \in DOMAIN s : n \in DOMAIN u /\ u[n] = s[n]
      /\ \A n \in DOMAIN t : n + Len(s) \in DOMAIN u /\ u[n + Len(s)] = t[n]
      /\ \A n \in DOMAIN u : \/ n \in DOMAIN s /\ u[n] = s[n]
                             \/ n - Len(s) \in DOMAIN t /\ u[n] = t[n - Len(s)]
  BY <1>1
<1> HIDE DEF u
<1>3. Dir(k)!Names(u) = Dir(k)!Names(s) \cup Dir(k)!Names(t)
  <2>1. Dir(k)!Names(u) \subseteq Dir(k)!Names(s) \cup Dir(k)!Names(t)
    BY <1>2 DEF Dir!Names
  <2>2. Dir(k)!Names(s) \subseteq Dir(k)!Names(u) /\ Dir(k)!Names(t) \subseteq Dir(k)!Names(u)
    BY <1>2 DEF Dir!Names
  <2> QED
    BY <2>1, <2>2
<1>4. Dir(k)!ModelsOf(u) = Dir(k)!ModelsOf(s) \cup Dir(k)!ModelsOf(t)
  <2>1. Dir(k)!ModelsOf(u) \subseteq Dir(k)!ModelsOf(s) \cup Dir(k)!ModelsOf(t)
    BY <1>2 DEF Dir!ModelsOf
  <2>2. Dir(k)!ModelsOf(s) \subseteq Dir(k)!ModelsOf(u)
            /\ Dir(k)!ModelsOf(t) \subseteq Dir(k)!ModelsOf(u)
    BY <1>2 DEF Dir!ModelsOf
  <2> QED
    BY <2>1, <2>2
<1>5. ASSUME Dir(k)!InOrder(s), Dir(k)!InOrder(t),
             \A m \in Dir(k)!Names(s), n \in Dir(k)!Names(t) : Dir(k)!Rank(m) < Dir(k)!Rank(n),
             NEW m \in DOMAIN u, NEW n \in DOMAIN u, m < n
      PROVE  \/ Dir(k)!Rank(u[m][1]) < Dir(k)!Rank(u[n][1])
             \/ u[m][1] = "model" /\ u[n][1] = "model"
  <2>1. CASE m \in DOMAIN s /\ n \in DOMAIN s
    BY <2>1, <1>2, <1>5 DEF Dir!InOrder
  <2>2. CASE m \in DOMAIN s /\ n \notin DOMAIN s
    <3>1. n - Len(s) \in DOMAIN t /\ u[n] = t[n - Len(s)] /\ u[m] = s[m]
      BY <1>2, <2>2
    <3>2. s[m][1] \in Dir(k)!Names(s) /\ t[n - Len(s)][1] \in Dir(k)!Names(t)
      BY <2>2, <3>1 DEF Dir!Names
    <3> QED
      BY <3>1, <3>2, <1>5
  <2>3. CASE m \notin DOMAIN s
    <3>1. n \notin DOMAIN s
      BY <1>1, <1>5, <2>3
    <3>2. /\ m - Len(s) \in DOMAIN t /\ u[m] = t[m - Len(s)]
          /\ n - Len(s) \in DOMAIN t /\ u[n] = t[n - Len(s)]
      BY <1>2, <2>3, <3>1
    <3>3. m - Len(s) < n - Len(s)
      BY <1>1, <1>5
    <3> QED
      BY <3>2, <3>3, <1>5 DEF Dir!InOrder
  <2> QED
    BY <2>1, <2>2, <2>3
<1>6. Dir(k)!InOrder(s) /\ Dir(k)!InOrder(t) /\ Precede(k, s, t) => Dir(k)!InOrder(u)
  BY <1>5 DEF Dir!InOrder, Precede
<1> QED
  BY <1>1, <1>3, <1>4, <1>6 DEF u

\* What is left of a list in order when its first statement is done.
LEMMA OfTail ==
    ASSUME NEW k, NEW do \in Seq(Dir(k)!AStatement), do # <<>>, Dir(k)!InOrder(do)
    PROVE  LET name == Head(do)[1] IN
           /\ Tail(do) \in Seq(Dir(k)!AStatement) /\ Dir(k)!InOrder(Tail(do))
           /\ Len(do) = 1 <=> Tail(do) = <<>>
           /\ name \in Dir(k)!Names(do) /\ Dir(k)!Names(Tail(do)) \subseteq Dir(k)!Names(do)
           /\ Dir(k)!Names(do) = Dir(k)!Names(Tail(do)) \cup {name}
           /\ \A n \in Dir(k)!Names(Tail(do)) : Dir(k)!Rank(name) < Dir(k)!Rank(n)
                  \/ (name = "model" /\ n = "model")
           /\ name # "model" => Dir(k)!ModelsOf(Tail(do)) = Dir(k)!ModelsOf(do)
           /\ name = "model" => Dir(k)!ModelsOf(do) = Dir(k)!ModelsOf(Tail(do)) \cup {Head(do)[2]}
<1> DEFINE t == Tail(do)
           name == Head(do)[1]
<1>1. /\ Len(do) \in Nat \ {0} /\ DOMAIN do = 1 .. Len(do) /\ t \in Seq(Dir(k)!AStatement)
      /\ Len(t) = Len(do) - 1 /\ DOMAIN t = 1 .. Len(t) /\ Head(do) = do[1]
      /\ \A n \in DOMAIN t : t[n] = do[n + 1]
  OBVIOUS
<1> HIDE DEF t
<1>3. Len(do) = 1 <=> t = <<>>
  <2>1. Len(t) = 0 <=> t = <<>>
    BY <1>1, EmptySeq
  <2> QED
    BY <1>1, <2>1
<1>2. /\ \A n \in DOMAIN t : n + 1 \in DOMAIN do /\ t[n] = do[n + 1] /\ 1 < n + 1
      /\ \A n \in DOMAIN do : n = 1 \/ (n - 1 \in DOMAIN t /\ do[n] = t[n - 1])
      /\ 1 \in DOMAIN do
  <2>1. \A n \in DOMAIN t : n + 1 \in DOMAIN do /\ t[n] = do[n + 1] /\ 1 < n + 1
    BY <1>1
  <2>2. ASSUME NEW n \in DOMAIN do, n # 1 PROVE n - 1 \in DOMAIN t /\ do[n] = t[n - 1]
    <3>1. n - 1 \in 1 .. Len(t) /\ (n - 1) + 1 = n
      BY <1>1, <2>2
    <3> QED
      BY <1>1, <3>1
  <2>3. 1 \in DOMAIN do
    BY <1>1
  <2> QED
    BY <2>1, <2>2, <2>3
<1>4. Dir(k)!InOrder(t)
  <2>1. ASSUME NEW m \in DOMAIN t, NEW n \in DOMAIN t, m < n
        PROVE  \/ Dir(k)!Rank(t[m][1]) < Dir(k)!Rank(t[n][1])
               \/ t[m][1] = "model" /\ t[n][1] = "model"
    <3>1. m + 1 \in DOMAIN do /\ n + 1 \in DOMAIN do /\ m + 1 < n + 1
      BY <1>1, <1>2, <2>1
    <3> QED
      BY <3>1, <1>2, <2>1 DEF Dir!InOrder
  <2> QED
    BY <2>1 DEF Dir!InOrder
<1>5. Dir(k)!Names(do) = Dir(k)!Names(t) \cup {name}
  <2>1. Dir(k)!Names(do) \subseteq Dir(k)!Names(t) \cup {name}
    BY <1>1, <1>2 DEF Dir!Names
  <2>2. Dir(k)!Names(t) \subseteq Dir(k)!Names(do)
    BY <1>2 DEF Dir!Names
  <2>3. name \in Dir(k)!Names(do)
    BY <1>1, <1>2 DEF Dir!Names
  <2> QED
    BY <2>1, <2>2, <2>3
<1>6. ASSUME NEW n \in Dir(k)!Names(t)
      PROVE  Dir(k)!Rank(name) < Dir(k)!Rank(n) \/ (name = "model" /\ n = "model")
  <2>1. PICK j \in DOMAIN t : n = t[j][1]
    BY <1>6 DEF Dir!Names
  <2> DEFINE l == j + 1
  <2>2. l \in DOMAIN do /\ do[l][1] = n /\ 1 < l /\ 1 \in DOMAIN do /\ do[1][1] = name
    BY <1>1, <1>2, <2>1
  <2> HIDE DEF l
  <2> QED
    BY <2>2 DEF Dir!InOrder
<1>7. Dir(k)!ModelsOf(t) \subseteq Dir(k)!ModelsOf(do)
  BY <1>2 DEF Dir!ModelsOf
<1>8. name # "model" => Dir(k)!ModelsOf(do) \subseteq Dir(k)!ModelsOf(t)
  <2>1. ASSUME name # "model", NEW m \in DOMAIN do, do[m][1] = "model"
        PROVE  \E n \in DOMAIN t : t[n][1] = "model" /\ t[n][2] = do[m][2]
    <3>1. m # 1
      BY <1>1, <2>1
    <3> QED
      BY <1>2, <2>1, <3>1
  <2> QED
    BY <2>1 DEF Dir!ModelsOf
<1>9. name = "model" => Dir(k)!ModelsOf(do) = Dir(k)!ModelsOf(t) \cup {Head(do)[2]}
  <2>1. Dir(k)!ModelsOf(do) \subseteq Dir(k)!ModelsOf(t) \cup {Head(do)[2]}
    BY <1>1, <1>2 DEF Dir!ModelsOf
  <2>2. name = "model" => Head(do)[2] \in Dir(k)!ModelsOf(do)
    BY <1>1, <1>2 DEF Dir!ModelsOf
  <2> QED
    BY <2>1, <2>2, <1>7
<1> QED
  BY <1>1, <1>3, <1>4, <1>5, <1>6, <1>7, <1>8, <1>9 DEF t

\* The statements of a key, of clearing models, and of adding models.
LEMMA OfPieces ==
    ASSUME NEW k, NEW a, a.extra.models = Dir(k)!NoModels \/ IsFiniteSet(a.extra.models),
           a.extra.models = Dir(k)!NoModels \/ a.extra.models \subseteq k.models
    PROVE  /\ Dir(k)!SetKeyOf(a) \in Seq(Dir(k)!AStatement) /\ Dir(k)!InOrder(Dir(k)!SetKeyOf(a))
           /\ Dir(k)!ModelsOf(Dir(k)!SetKeyOf(a)) = {}
           /\ Dir(k)!Names(Dir(k)!SetKeyOf(a)) = IF a.extra.key = Dir(k)!Absent THEN {} ELSE {"key"}
           /\ Dir(k)!ClearOf(a) \in Seq(Dir(k)!AStatement) /\ Dir(k)!InOrder(Dir(k)!ClearOf(a))
           /\ Dir(k)!ModelsOf(Dir(k)!ClearOf(a)) = {}
           /\ Dir(k)!Names(Dir(k)!ClearOf(a)) = IF a.extra.models = Dir(k)!NoModels THEN {} ELSE {"clear"}
           /\ Dir(k)!AddModels(a) \in Seq(Dir(k)!AStatement) /\ Dir(k)!InOrder(Dir(k)!AddModels(a))
           /\ Dir(k)!ModelsOf(Dir(k)!AddModels(a)) = IF a.extra.models = Dir(k)!NoModels THEN {} ELSE a.extra.models
           /\ Dir(k)!Names(Dir(k)!AddModels(a)) \subseteq {"model"}
           /\ a.extra.models = Dir(k)!NoModels => Dir(k)!AddModels(a) = <<>>
<1>1. /\ Dir(k)!SetKeyOf(a) \in Seq(Dir(k)!AStatement) /\ Dir(k)!InOrder(Dir(k)!SetKeyOf(a))
      /\ Dir(k)!ModelsOf(Dir(k)!SetKeyOf(a)) = {}
      /\ Dir(k)!Names(Dir(k)!SetKeyOf(a)) = IF a.extra.key = Dir(k)!Absent THEN {} ELSE {"key"}
  BY OfNone, OfOne DEF Dir!SetKeyOf
<1>2. /\ Dir(k)!ClearOf(a) \in Seq(Dir(k)!AStatement) /\ Dir(k)!InOrder(Dir(k)!ClearOf(a))
      /\ Dir(k)!ModelsOf(Dir(k)!ClearOf(a)) = {}
      /\ Dir(k)!Names(Dir(k)!ClearOf(a)) = IF a.extra.models = Dir(k)!NoModels THEN {} ELSE {"clear"}
  BY OfNone, OfOne DEF Dir!ClearOf
<1>3. CASE a.extra.models = Dir(k)!NoModels
  <2>1. Dir(k)!AddModels(a) = <<>>
    BY <1>3 DEF Dir!AddModels
  <2> QED
    BY <1>1, <1>2, <1>3, <2>1, OfNone
<1>4. CASE a.extra.models # Dir(k)!NoModels
  <2> DEFINE M == a.extra.models
             s == Dir(k)!Listed(M)
             t == [n \in DOMAIN s |-> <<"model", s[n]>>]
  <2>1. s \in Seq(M) /\ M = {s[n] : n \in DOMAIN s}
    BY <1>4, ListedSet
  <2>2. Dir(k)!AddModels(a) = t
    BY <1>4 DEF Dir!AddModels
  <2> HIDE DEF s
  <2>3. Len(s) \in Nat /\ DOMAIN s = 1 .. Len(s) /\ \A n \in DOMAIN s : s[n] \in k.models
    BY <1>4, <2>1
  <2>4. \A n \in DOMAIN s : <<"model", s[n]>> \in Dir(k)!AStatement
    BY <2>3 DEF Dir!AStatement
  <2>5. t \in [1 .. Len(s) -> Dir(k)!AStatement]
    BY <2>3, <2>4
  <2>6. /\ DOMAIN t = DOMAIN s
        /\ \A n \in DOMAIN t : t[n] = <<"model", s[n]>> /\ t[n][1] = "model" /\ t[n][2] = s[n]
    OBVIOUS
  <2> HIDE DEF t
  <2>7. t \in Seq(Dir(k)!AStatement)
    BY <2>3, <2>5
  <2>8. Dir(k)!Names(t) \subseteq {"model"}
    BY <2>6 DEF Dir!Names
  <2>9. Dir(k)!InOrder(t)
    BY <2>6 DEF Dir!InOrder
  <2>10. Dir(k)!ModelsOf(t) = M
    <3>1. Dir(k)!ModelsOf(t) \subseteq M
      BY <2>1, <2>6 DEF Dir!ModelsOf
    <3>2. ASSUME NEW e \in M PROVE e \in Dir(k)!ModelsOf(t)
      <4>1. PICK n \in DOMAIN s : s[n] = e
        BY <2>1, <3>2
      <4> QED
        BY <2>6, <4>1 DEF Dir!ModelsOf
    <3> QED
      BY <3>1, <3>2
  <2> QED
    BY <1>1, <1>2, <1>4, <2>2, <2>7, <2>8, <2>9, <2>10
<1> QED
  BY <1>3, <1>4

\* The first of two lists, if it is not empty, begins them both.
LEMMA HeadOfBoth ==
    ASSUME NEW A, NEW s \in Seq(A), NEW t \in Seq(A), s # <<>>
    PROVE  s \o t # <<>> /\ Head(s \o t) = Head(s)
<1>1. Len(s) \in Nat \ {0} /\ Len(t) \in Nat
  BY EmptySeq, LenProperties
<1>2. Len(s \o t) = Len(s) + Len(t) /\ s \o t \in Seq(A) /\ (s \o t)[1] = s[1]
  BY <1>1, ConcatProperties
<1>3. s \o t # <<>>
  BY <1>1, <1>2, EmptySeq
<1> QED
  BY <1>1, <1>2, <1>3

\* What one asks.
LEMMA AskingFacts ==
    ASSUME NEW k, NEW kinds, NEW parents, NEW gives, NEW extras,
           NEW a \in Dir(k)!Asking(kinds, parents, gives, extras)
    PROVE  /\ a.kind \in kinds /\ a.id \in k.ids /\ a.parent \in parents /\ a.give \in gives
           /\ a.extra \in extras
           /\ DOMAIN a = {"kind", "id", "parent", "give", "extra"}
BY DEF Dir!Asking, Dir!Ask

LEMMA AskFacts ==
    ASSUME NEW k, Dir(k)!ConstantsOK, NEW t \in Dir(k)!Tables, NEW a \in Dir(k)!AsksOf(t)
    PROVE  /\ a.kind \in {"create", "update", "delete", "list", "seed", "seedModels", "sync"}
           /\ a.id \in k.ids /\ a.parent \in k.parents \cup {Dir(k)!Shared}
           /\ a.give \in k.edits \cup {Dir(k)!Nothing}
           /\ a.extra.key \in {Dir(k)!Absent, "k1"}
           /\ a.extra.models = Dir(k)!NoModels \/ a.extra.models \in k.lists
           /\ t # "channel" => a.extra.models = Dir(k)!NoModels /\ a.extra.key = Dir(k)!Absent
           /\ a.kind \in {"delete", "list", "seed", "sync"} =>
                  a.extra.models = Dir(k)!NoModels /\ a.extra.key = Dir(k)!Absent
           /\ a.kind = "seedModels" => a.extra.models # Dir(k)!NoModels /\ a.extra.key = Dir(k)!Absent
           /\ Dir(k)!GeneratesIds(t) => a.kind \in {"create", "update", "delete", "list"}
<1> DEFINE E == [key : {Dir(k)!Absent, "k1"}, models : {Dir(k)!NoModels} \cup k.lists]
<1>1. Dir(k)!NoExtra.models = Dir(k)!NoModels /\ Dir(k)!NoExtra.key = Dir(k)!Absent
  BY DEF Dir!NoExtra
<1>2. /\ Dir(k)!Full \subseteq k.edits
      /\ Dir(k)!ChannelExtras = E /\ \A e \in E : e.key \in {Dir(k)!Absent, "k1"}
             /\ e.models \in {Dir(k)!NoModels} \cup k.lists
  BY DEF Dir!Full, Dir!ChannelExtras
<1>3. CASE t = "channel"
  <2> DEFINE S == [key : {Dir(k)!Absent}, models : k.lists]
  <2>0. ~ Dir(k)!GeneratesIds(t)
    BY <1>3 DEF Dir!GeneratesIds, Dir!HasParent
  <2>1. \A e \in S : e.key = Dir(k)!Absent /\ e.models \in k.lists /\ e.models # Dir(k)!NoModels
    BY DEF Dir!ConstantsOK
  <2>2. \/ a \in Dir(k)!Asking({"create"}, {Dir(k)!Shared}, Dir(k)!Full, E)
        \/ a \in Dir(k)!Asking({"update"}, {Dir(k)!Shared}, k.edits, E)
        \/ a \in Dir(k)!Asking({"delete", "list"}, {Dir(k)!Shared}, {Dir(k)!Nothing}, {Dir(k)!NoExtra})
        \/ a \in Dir(k)!Asking({"seed"}, {Dir(k)!Shared}, Dir(k)!Full, {Dir(k)!NoExtra})
        \/ a \in Dir(k)!Asking({"seedModels"}, {Dir(k)!Shared}, {Dir(k)!Nothing}, S)
    BY <1>2, <1>3 DEF Dir!AsksOf, Dir!ChannelAsks, Dir!SeedAsks, Dir!Looks
  <2> HIDE DEF E, S
  <2>3. CASE a \in Dir(k)!Asking({"create"}, {Dir(k)!Shared}, Dir(k)!Full, E)
    BY <1>2, <1>3, <2>0, <2>3, AskingFacts
  <2>4. CASE a \in Dir(k)!Asking({"update"}, {Dir(k)!Shared}, k.edits, E)
    BY <1>2, <1>3, <2>0, <2>4, AskingFacts
  <2>5. CASE a \in Dir(k)!Asking({"delete", "list"}, {Dir(k)!Shared}, {Dir(k)!Nothing},
                 {Dir(k)!NoExtra})
    BY <1>1, <1>3, <2>0, <2>5, AskingFacts
  <2>6. CASE a \in Dir(k)!Asking({"seed"}, {Dir(k)!Shared}, Dir(k)!Full, {Dir(k)!NoExtra})
    BY <1>1, <1>2, <1>3, <2>0, <2>6, AskingFacts
  <2>7. CASE a \in Dir(k)!Asking({"seedModels"}, {Dir(k)!Shared}, {Dir(k)!Nothing}, S)
    BY <1>3, <2>0, <2>1, <2>7, AskingFacts
  <2> QED
    BY <2>2, <2>3, <2>4, <2>5, <2>6, <2>7
<1>4. CASE t \in {"resource", "combo"}
  <2>1. \/ a \in Dir(k)!Asking({"create"}, k.parents, Dir(k)!Full, {Dir(k)!NoExtra})
        \/ a \in Dir(k)!Asking({"update"}, k.parents, k.edits, {Dir(k)!NoExtra})
        \/ a \in Dir(k)!Asking({"delete", "list"}, k.parents, {Dir(k)!Nothing}, {Dir(k)!NoExtra})
    BY <1>4 DEF Dir!AsksOf, Dir!ResourceAsks, Dir!ComboAsks, Dir!Looks
  <2>2. CASE a \in Dir(k)!Asking({"create"}, k.parents, Dir(k)!Full, {Dir(k)!NoExtra})
    BY <1>1, <1>2, <1>4, <2>2, AskingFacts
  <2>3. CASE a \in Dir(k)!Asking({"update"}, k.parents, k.edits, {Dir(k)!NoExtra})
    BY <1>1, <1>2, <1>4, <2>3, AskingFacts
  <2>4. CASE a \in Dir(k)!Asking({"delete", "list"}, k.parents, {Dir(k)!Nothing}, {Dir(k)!NoExtra})
    BY <1>1, <1>4, <2>4, AskingFacts
  <2> QED
    BY <2>1, <2>2, <2>3, <2>4
<1>5. CASE t = "gateway"
  <2>0. ~ Dir(k)!GeneratesIds(t)
    BY <1>5 DEF Dir!GeneratesIds, Dir!HasParent
  <2>1. \/ a \in Dir(k)!Asking({"create"}, {Dir(k)!Shared}, Dir(k)!Full, {Dir(k)!NoExtra})
        \/ a \in Dir(k)!Asking({"update"}, {Dir(k)!Shared}, k.edits, {Dir(k)!NoExtra})
        \/ a \in Dir(k)!Asking({"delete", "list"}, {Dir(k)!Shared}, {Dir(k)!Nothing}, {Dir(k)!NoExtra})
    BY <1>5 DEF Dir!AsksOf, Dir!GatewayAsks, Dir!Looks
  <2>2. CASE a \in Dir(k)!Asking({"create"}, {Dir(k)!Shared}, Dir(k)!Full, {Dir(k)!NoExtra})
    BY <1>1, <1>2, <1>5, <2>0, <2>2, AskingFacts
  <2>3. CASE a \in Dir(k)!Asking({"update"}, {Dir(k)!Shared}, k.edits, {Dir(k)!NoExtra})
    BY <1>1, <1>2, <1>5, <2>0, <2>3, AskingFacts
  <2>4. CASE a \in Dir(k)!Asking({"delete", "list"}, {Dir(k)!Shared}, {Dir(k)!Nothing},
                 {Dir(k)!NoExtra})
    BY <1>1, <1>5, <2>0, <2>4, AskingFacts
  <2> QED
    BY <2>1, <2>2, <2>3, <2>4
<1>6. CASE t = "device"
  <2>1. \/ a \in Dir(k)!Asking({"create"}, k.parents, Dir(k)!Full, {Dir(k)!NoExtra})
        \/ a \in Dir(k)!Asking({"delete", "list"}, k.parents, {Dir(k)!Nothing}, {Dir(k)!NoExtra})
    BY <1>6 DEF Dir!AsksOf, Dir!DeviceAsks, Dir!Looks
  <2>2. CASE a \in Dir(k)!Asking({"create"}, k.parents, Dir(k)!Full, {Dir(k)!NoExtra})
    BY <1>1, <1>2, <1>6, <2>2, AskingFacts
  <2>3. CASE a \in Dir(k)!Asking({"delete", "list"}, k.parents, {Dir(k)!Nothing}, {Dir(k)!NoExtra})
    BY <1>1, <1>6, <2>3, AskingFacts
  <2> QED
    BY <2>1, <2>2, <2>3
<1>7. CASE t = "model"
  <2>0. ~ Dir(k)!GeneratesIds(t)
    BY <1>7 DEF Dir!GeneratesIds, Dir!HasParent
  <2>1. a \in Dir(k)!Asking({"sync"}, {Dir(k)!Shared}, Dir(k)!Full, {Dir(k)!NoExtra})
    BY <1>7 DEF Dir!AsksOf, Dir!CatalogAsks
  <2> QED
    BY <1>1, <1>2, <1>7, <2>0, <2>1, AskingFacts
<1> QED
  BY <1>3, <1>4, <1>5, <1>6, <1>7 DEF Dir!Tables

\* Both together, when what is put after keeps the order.
LEMMA OfBothBegun ==
    ASSUME NEW k, NEW s \in Seq(Dir(k)!AStatement), NEW t \in Seq(Dir(k)!AStatement), s # <<>>,
           Dir(k)!InOrder(s), Dir(k)!InOrder(t), Precede(k, s, t)
    PROVE  /\ s \o t \in Seq(Dir(k)!AStatement)
               /\ Dir(k)!Names(s \o t) = Dir(k)!Names(s) \cup Dir(k)!Names(t)
           /\ Dir(k)!ModelsOf(s \o t) = Dir(k)!ModelsOf(s) \cup Dir(k)!ModelsOf(t)
                  /\ Dir(k)!InOrder(s \o t)
           /\ s \o t # <<>> /\ Head(s \o t) = Head(s)
<1>1. s \o t # <<>> /\ Head(s \o t) = Head(s)
  BY HeadOfBoth
<1> QED
  BY <1>1, OfBoth

\* The statements of each kind of request.
LEMMA StatementFacts ==
    ASSUME NEW k, Dir(k)!ConstantsOK, NEW t \in Dir(k)!Tables, NEW a \in Dir(k)!AsksOf(t)
    PROVE  LET do == Dir(k)!Statements(t, a)
               name == Head(do)[1]
               listed == a.extra.models # Dir(k)!NoModels IN
           /\ do \in Seq(Dir(k)!AStatement) /\ do # <<>> /\ Dir(k)!InOrder(do)
           /\ a.kind = "create" =>
                  /\ name = "insert"
                  /\ Dir(k)!Names(do) \subseteq {"insert", "key", "model"}
                  /\ "key" \in Dir(k)!Names(do) <=> a.extra.key # Dir(k)!Absent
                  /\ Dir(k)!ModelsOf(do) = IF listed THEN a.extra.models ELSE {}
                  /\ ~ listed => "model" \notin Dir(k)!Names(do)
           /\ a.kind = "update" =>
                  /\ name = "select"
                  /\ Dir(k)!Names(do) \subseteq {"select", "update", "key", "clear", "model"}
                  /\ "update" \in Dir(k)!Names(do)
                  /\ "key" \in Dir(k)!Names(do) <=> a.extra.key # Dir(k)!Absent
                  /\ "clear" \in Dir(k)!Names(do) <=> listed
                  /\ Dir(k)!ModelsOf(do) = IF listed THEN a.extra.models ELSE {}
                  /\ ~ listed => "model" \notin Dir(k)!Names(do)
           /\ a.kind = "delete" =>
                  /\ name = IF t = "combo" THEN "archive" ELSE "delete"
                  /\ Dir(k)!Names(do) = IF t = "channel" THEN {"delete", "clear"} ELSE {name}
                  /\ Dir(k)!ModelsOf(do) = {}
           /\ a.kind \in {"seed", "sync"} =>
                  name = "replace" /\ Dir(k)!Names(do) = {"replace"} /\ Dir(k)!ModelsOf(do) = {}
           /\ a.kind = "seedModels" =>
                  /\ name = "clear" /\ Dir(k)!Names(do) \subseteq {"clear", "model"}
                  /\ "clear" \in Dir(k)!Names(do) /\ Dir(k)!ModelsOf(do) = a.extra.models
           /\ a.kind = "list" => name = "list" /\ Dir(k)!Names(do) = {"list"}
<1> DEFINE do == Dir(k)!Statements(t, a)
           listed == a.extra.models # Dir(k)!NoModels
           K == Dir(k)!SetKeyOf(a)
           C == Dir(k)!ClearOf(a)
           M == Dir(k)!AddModels(a)
<1>1. /\ a.kind \in {"create", "update", "delete", "list", "seed", "seedModels", "sync"}
      /\ a.kind = "seedModels" => listed
  BY AskFacts
<1>2. listed => IsFiniteSet(a.extra.models) /\ a.extra.models \subseteq k.models
  <2>1. listed => a.extra.models \subseteq k.models
    BY AskFacts DEF Dir!ConstantsOK
  <2>2. IsFiniteSet(k.models)
    BY DEF Dir!ConstantsOK, Dir!IsFiniteSet, IsFiniteSet
  <2> QED
    BY <2>1, <2>2, FS_Subset
<1>3. /\ K \in Seq(Dir(k)!AStatement) /\ Dir(k)!InOrder(K) /\ Dir(k)!ModelsOf(K) = {}
      /\ Dir(k)!Names(K) = IF a.extra.key = Dir(k)!Absent THEN {} ELSE {"key"}
      /\ C \in Seq(Dir(k)!AStatement) /\ Dir(k)!InOrder(C) /\ Dir(k)!ModelsOf(C) = {}
      /\ Dir(k)!Names(C) = IF listed THEN {"clear"} ELSE {}
      /\ M \in Seq(Dir(k)!AStatement) /\ Dir(k)!InOrder(M)
             /\ Dir(k)!ModelsOf(M) = IF listed THEN a.extra.models ELSE {}
      /\ Dir(k)!Names(M) \subseteq {"model"} /\ (~ listed => M = <<>>)
  BY <1>2, OfPieces
<1>3a. /\ K \in Seq(Dir(k)!AStatement) /\ Dir(k)!InOrder(K) /\ C \in Seq(Dir(k)!AStatement)
              /\ Dir(k)!InOrder(C)
       /\ M \in Seq(Dir(k)!AStatement) /\ Dir(k)!InOrder(M)
  BY <1>3
<1>4. ~ listed => Dir(k)!Names(M) = {}
  BY <1>3, OfNone
<1>5. /\ \A n \in {"insert", "select", "delete", "archive", "list"} : Dir(k)!Rank(n) = 0
      /\ Dir(k)!Rank("update") = 1 /\ Dir(k)!Rank("replace") = 1 /\ Dir(k)!Rank("key") = 2
      /\ Dir(k)!Rank("clear") = 3 /\ Dir(k)!Rank("model") = 4
  BY DEF Dir!Rank
<1> HIDE DEF K, C, M
<1>6. CASE a.kind = "create"
  <2> DEFINE s == <<<<"insert">>>>
             u == s \o K
             v == u \o M
  <2>1. do = v
    BY <1>6 DEF Dir!Statements, Dir!CreateStatements, K, M
  <2>2. s \in Seq(Dir(k)!AStatement) /\ Dir(k)!Names(s) = {"insert"} /\ Dir(k)!ModelsOf(s) = {}
            /\ Dir(k)!InOrder(s) /\ s # <<>> /\ Head(s)[1] = "insert"
    BY OfOne
  <2>2a. s \in Seq(Dir(k)!AStatement) /\ Dir(k)!InOrder(s) /\ s # <<>>
    BY <2>2
  <2> HIDE DEF s
  <2>3. Precede(k, s, K)
    BY <1>3, <1>5, <2>2 DEF Precede
  <2>4a. /\ u \in Seq(Dir(k)!AStatement) /\ Dir(k)!Names(u) = Dir(k)!Names(s) \cup Dir(k)!Names(K)
          /\ Dir(k)!ModelsOf(u) = Dir(k)!ModelsOf(s) \cup Dir(k)!ModelsOf(K) /\ Dir(k)!InOrder(u)
          /\ u # <<>> /\ Head(u) = Head(s)
    BY <1>3a, <2>2a, <2>3, OfBothBegun
  <2>4. /\ u \in Seq(Dir(k)!AStatement) /\ Dir(k)!Names(u) = Dir(k)!Names(s) \cup Dir(k)!Names(K)
               /\ Dir(k)!ModelsOf(u) = {} /\ Dir(k)!InOrder(u)
        /\ u # <<>> /\ Head(u)[1] = "insert"
    BY <1>3, <2>2, <2>3, <2>4a
  <2> HIDE DEF u
  <2>5. Precede(k, u, M)
    BY <1>3, <1>5, <2>2, <2>4 DEF Precede
  <2>6a. /\ v \in Seq(Dir(k)!AStatement) /\ Dir(k)!Names(v) = Dir(k)!Names(u) \cup Dir(k)!Names(M)
          /\ Dir(k)!ModelsOf(v) = Dir(k)!ModelsOf(u) \cup Dir(k)!ModelsOf(M) /\ Dir(k)!InOrder(v)
          /\ v # <<>> /\ Head(v) = Head(u)
    BY <1>3a, <2>4, <2>5, OfBothBegun
  <2>6. /\ v \in Seq(Dir(k)!AStatement) /\ Dir(k)!Names(v) = Dir(k)!Names(u) \cup Dir(k)!Names(M)
               /\ Dir(k)!ModelsOf(v) = Dir(k)!ModelsOf(M)
        /\ Dir(k)!InOrder(v) /\ v # <<>> /\ Head(v)[1] = "insert"
    BY <1>3, <2>4, <2>5, <2>6a
  <2> HIDE DEF v
  <2> QED
    BY <1>3, <1>4, <1>6, <2>1, <2>2, <2>4, <2>6
<1>7. CASE a.kind = "update"
  <2> DEFINE s1 == <<<<"select">>>>
             s2 == <<<<"update">>>>
             s == <<<<"select">>, <<"update">>>>
             u == s \o K
             v == u \o C
             w == v \o M
  <2>1. do = w
    BY <1>7 DEF Dir!Statements, Dir!UpdateStatements, K, C, M
  <2>2. /\ s1 \in Seq(Dir(k)!AStatement) /\ Dir(k)!Names(s1) = {"select"} /\ Dir(k)!ModelsOf(s1) = {}
               /\ Dir(k)!InOrder(s1)
        /\ s2 \in Seq(Dir(k)!AStatement) /\ Dir(k)!Names(s2) = {"update"} /\ Dir(k)!ModelsOf(s2) = {}
               /\ Dir(k)!InOrder(s2)
        /\ s = s1 \o s2 /\ s # <<>> /\ Head(s)[1] = "select"
    BY OfOne
  <2>2a. /\ s1 \in Seq(Dir(k)!AStatement) /\ Dir(k)!InOrder(s1) /\ s2 \in Seq(Dir(k)!AStatement)
                /\ Dir(k)!InOrder(s2)
         /\ s = s1 \o s2 /\ s # <<>>
    BY <2>2
  <2> HIDE DEF s1, s2, s
  <2>3. Precede(k, s1, s2)
    BY <1>5, <2>2 DEF Precede
  <2>4a. /\ s \in Seq(Dir(k)!AStatement) /\ Dir(k)!Names(s) = Dir(k)!Names(s1) \cup Dir(k)!Names(s2)
                /\ Dir(k)!InOrder(s)
         /\ Dir(k)!ModelsOf(s) = Dir(k)!ModelsOf(s1) \cup Dir(k)!ModelsOf(s2)
    BY <2>2a, <2>3, OfBoth
  <2>4. s \in Seq(Dir(k)!AStatement) /\ Dir(k)!Names(s) = {"select", "update"}
            /\ Dir(k)!ModelsOf(s) = {} /\ Dir(k)!InOrder(s)
    BY <2>2, <2>4a
  <2>5. Precede(k, s, K)
    BY <1>3, <1>5, <2>4 DEF Precede
  <2>6a. /\ u \in Seq(Dir(k)!AStatement) /\ Dir(k)!Names(u) = Dir(k)!Names(s) \cup Dir(k)!Names(K)
          /\ Dir(k)!ModelsOf(u) = Dir(k)!ModelsOf(s) \cup Dir(k)!ModelsOf(K) /\ Dir(k)!InOrder(u)
          /\ u # <<>> /\ Head(u) = Head(s)
    <3>1. s \in Seq(Dir(k)!AStatement) /\ Dir(k)!InOrder(s) /\ s # <<>>
      BY <2>2a, <2>4
    <3>2. K \in Seq(Dir(k)!AStatement) /\ Dir(k)!InOrder(K)
      BY <1>3a
    <3> QED
      BY <2>5, <3>1, <3>2, OfBothBegun
  <2>6. /\ u \in Seq(Dir(k)!AStatement) /\ Dir(k)!Names(u) = Dir(k)!Names(s) \cup Dir(k)!Names(K)
               /\ Dir(k)!ModelsOf(u) = {} /\ Dir(k)!InOrder(u)
        /\ u # <<>> /\ Head(u)[1] = "select"
    BY <1>3, <2>2, <2>4, <2>5, <2>6a
  <2> HIDE DEF u
  <2>7. Precede(k, u, C)
    BY <1>3, <1>5, <2>4, <2>6 DEF Precede
  <2>8a. /\ v \in Seq(Dir(k)!AStatement) /\ Dir(k)!Names(v) = Dir(k)!Names(u) \cup Dir(k)!Names(C)
          /\ Dir(k)!ModelsOf(v) = Dir(k)!ModelsOf(u) \cup Dir(k)!ModelsOf(C) /\ Dir(k)!InOrder(v)
          /\ v # <<>> /\ Head(v) = Head(u)
    BY <1>3a, <2>6, <2>7, OfBothBegun
  <2>8. /\ v \in Seq(Dir(k)!AStatement) /\ Dir(k)!Names(v) = Dir(k)!Names(u) \cup Dir(k)!Names(C)
               /\ Dir(k)!ModelsOf(v) = {} /\ Dir(k)!InOrder(v)
        /\ v # <<>> /\ Head(v)[1] = "select"
    BY <1>3, <2>6, <2>7, <2>8a
  <2> HIDE DEF v
  <2>9. Precede(k, v, M)
    BY <1>3, <1>5, <2>4, <2>6, <2>8 DEF Precede
  <2>10a. /\ w \in Seq(Dir(k)!AStatement) /\ Dir(k)!Names(w) = Dir(k)!Names(v) \cup Dir(k)!Names(M)
          /\ Dir(k)!ModelsOf(w) = Dir(k)!ModelsOf(v) \cup Dir(k)!ModelsOf(M) /\ Dir(k)!InOrder(w)
          /\ w # <<>> /\ Head(w) = Head(v)
    BY <1>3a, <2>8, <2>9, OfBothBegun
  <2>10. /\ w \in Seq(Dir(k)!AStatement) /\ Dir(k)!Names(w) = Dir(k)!Names(v) \cup Dir(k)!Names(M)
                /\ Dir(k)!ModelsOf(w) = Dir(k)!ModelsOf(M)
         /\ Dir(k)!InOrder(w) /\ w # <<>> /\ Head(w)[1] = "select"
    BY <1>3, <2>8, <2>9, <2>10a
  <2> HIDE DEF w
  <2> QED
    BY <1>3, <1>4, <1>7, <2>1, <2>4, <2>6, <2>8, <2>10
<1>8. CASE a.kind = "delete" /\ t = "channel"
  <2> DEFINE s1 == <<<<"delete">>>>
             s2 == <<<<"clear">>>>
  <2>1. do = s1 \o s2 /\ Head(do)[1] = "delete" /\ do # <<>>
    BY <1>8 DEF Dir!Statements, Dir!DeleteStatements
  <2>2. /\ s1 \in Seq(Dir(k)!AStatement) /\ Dir(k)!Names(s1) = {"delete"} /\ Dir(k)!ModelsOf(s1) = {}
               /\ Dir(k)!InOrder(s1)
        /\ s2 \in Seq(Dir(k)!AStatement) /\ Dir(k)!Names(s2) = {"clear"} /\ Dir(k)!ModelsOf(s2) = {}
               /\ Dir(k)!InOrder(s2)
    BY OfOne
  <2> HIDE DEF s1, s2
  <2>3. Precede(k, s1, s2)
    BY <1>5, <2>2 DEF Precede
  <2>4. do \in Seq(Dir(k)!AStatement) /\ Dir(k)!Names(do) = {"delete", "clear"}
            /\ Dir(k)!ModelsOf(do) = {} /\ Dir(k)!InOrder(do)
    <3>1. /\ s1 \in Seq(Dir(k)!AStatement) /\ Dir(k)!InOrder(s1)
          /\ s2 \in Seq(Dir(k)!AStatement) /\ Dir(k)!InOrder(s2)
      BY <2>2
    <3>2. /\ s1 \o s2 \in Seq(Dir(k)!AStatement)
                 /\ Dir(k)!Names(s1 \o s2) = Dir(k)!Names(s1) \cup Dir(k)!Names(s2)
          /\ Dir(k)!ModelsOf(s1 \o s2) = Dir(k)!ModelsOf(s1) \cup Dir(k)!ModelsOf(s2)
                 /\ Dir(k)!InOrder(s1 \o s2)
      BY <2>3, <3>1, OfBoth
    <3> QED
      BY <2>1, <2>2, <3>2
  <2> QED
    BY <1>8, <2>1, <2>4
<1>9. CASE a.kind = "delete" /\ t # "channel"
  <2> DEFINE name == IF t = "combo" THEN "archive" ELSE "delete"
  <2>1. do = <<<<name>>>> /\ Head(do)[1] = name /\ do # <<>>
    BY <1>9 DEF Dir!Statements, Dir!DeleteStatements
  <2>2. name \in {"archive", "delete"}
    OBVIOUS
  <2> QED
    BY <1>9, <2>1, <2>2, OfOne
<1>10. CASE a.kind \in {"seed", "sync"}
  <2>1. do = <<<<"replace">>>> /\ Head(do)[1] = "replace" /\ do # <<>>
    BY <1>10 DEF Dir!Statements
  <2> QED
    BY <1>10, <2>1, OfOne
<1>11. CASE a.kind = "seedModels"
  <2> DEFINE s == <<<<"clear">>>>
  <2>1. do = s \o M
    BY <1>11 DEF Dir!Statements, Dir!SeedModelsStatements, M
  <2>2. s \in Seq(Dir(k)!AStatement) /\ Dir(k)!Names(s) = {"clear"} /\ Dir(k)!ModelsOf(s) = {}
            /\ Dir(k)!InOrder(s) /\ s # <<>> /\ Head(s)[1] = "clear"
    BY OfOne
  <2>2a. s \in Seq(Dir(k)!AStatement) /\ Dir(k)!InOrder(s) /\ s # <<>>
    BY <2>2
  <2> HIDE DEF s
  <2>3. Precede(k, s, M)
    BY <1>3, <1>5, <2>2 DEF Precede
  <2>4a. /\ do \in Seq(Dir(k)!AStatement) /\ Dir(k)!Names(do) = Dir(k)!Names(s) \cup Dir(k)!Names(M)
          /\ Dir(k)!ModelsOf(do) = Dir(k)!ModelsOf(s) \cup Dir(k)!ModelsOf(M) /\ Dir(k)!InOrder(do)
          /\ do # <<>> /\ Head(do) = Head(s)
    BY <1>3a, <2>1, <2>2a, <2>3, OfBothBegun
  <2>4. /\ do \in Seq(Dir(k)!AStatement) /\ Dir(k)!Names(do) = {"clear"} \cup Dir(k)!Names(M)
               /\ Dir(k)!ModelsOf(do) = Dir(k)!ModelsOf(M)
        /\ Dir(k)!InOrder(do) /\ do # <<>> /\ Head(do)[1] = "clear"
    BY <1>3, <2>1, <2>2, <2>3, <2>4a
  <2> QED
    BY <1>1, <1>3, <1>11, <2>4
<1>12. CASE a.kind = "list"
  <2>1. do = <<<<"list">>>> /\ Head(do)[1] = "list" /\ do # <<>>
    BY <1>12 DEF Dir!Statements
  <2> QED
    BY <1>12, <2>1, OfOne
<1> QED
  BY <1>1, <1>6, <1>7, <1>8, <1>9, <1>10, <1>11, <1>12

\* A request under way; Idle is one.
Runs(k) == [do : Seq(Dir(k)!AStatement), ask : {Dir(k)!Idle.ask} \cup Dir(k)!AsksOf(x1),
    read : SUBSET Dir(k)!Rows]

\* What is known of any request's question.
LEMMA AskTyped ==
    ASSUME NEW k, Dir(k)!ConstantsOK, Dir(k)!TypeOK, NEW a \in {Dir(k)!Idle.ask} \cup Dir(k)!AsksOf(x1)
    PROVE  /\ a.kind \in {"create", "update", "delete", "list", "seed", "seedModels", "sync"}
           /\ a.id \in k.ids /\ a.parent \in k.parents \cup {Dir(k)!Shared}
           /\ a.give \in k.edits \cup {Dir(k)!Nothing}
           /\ a.extra.key \in {Dir(k)!Absent, "k1"}
           /\ a.extra.models = Dir(k)!NoModels \/ a.extra.models \in SUBSET k.models
           /\ a.kind = "seedModels" => a.extra.models # Dir(k)!NoModels
<1>1. CASE a = Dir(k)!Idle.ask
  <2>1. (CHOOSE i \in k.ids : TRUE) \in k.ids
    BY DEF Dir!ConstantsOK
  <2>2. /\ a.kind = "list" /\ a.id = (CHOOSE i \in k.ids : TRUE) /\ a.parent = Dir(k)!Shared
        /\ a.give = Dir(k)!Nothing /\ a.extra.key = Dir(k)!Absent /\ a.extra.models = Dir(k)!NoModels
    BY <1>1 DEF Dir!Idle, Dir!Ask, Dir!NoExtra
  <2> QED
    BY <2>1, <2>2
<1>2. CASE a \in Dir(k)!AsksOf(x1)
  <2>1. x1 \in Dir(k)!Tables
    BY DEF Dir!TypeOK
  <2>2. /\ a.kind \in {"create", "update", "delete", "list", "seed", "seedModels", "sync"}
        /\ a.id \in k.ids /\ a.parent \in k.parents \cup {Dir(k)!Shared}
        /\ a.give \in k.edits \cup {Dir(k)!Nothing}
        /\ a.extra.key \in {Dir(k)!Absent, "k1"}
        /\ a.extra.models = Dir(k)!NoModels \/ a.extra.models \in k.lists
        /\ a.kind = "seedModels" => a.extra.models # Dir(k)!NoModels
    BY <1>2, <2>1, AskFacts
  <2> QED
    BY <2>2 DEF Dir!ConstantsOK
<1> QED
  BY <1>1, <1>2

\* A busy request that changes something asked one of its table's questions.
LEMMA BusyAsk ==
    ASSUME NEW k, Dir(k)!ConstantsOK, Dir(k)!TypeOK, NEW r \in k.requests
    PROVE  /\ x5[r] \in Runs(k) /\ Dir(k)!AskOf(r) \in {Dir(k)!Idle.ask} \cup Dir(k)!AsksOf(x1)
           /\ Dir(k)!AskOf(r) = x5[r].ask /\ x5[r].do \in Seq(Dir(k)!AStatement)
                  /\ x5[r].read \subseteq Dir(k)!Rows
           /\ Dir(k)!AskOf(r).kind # "list" => Dir(k)!AskOf(r) \in Dir(k)!AsksOf(x1)
<1>1. x5[r] \in Runs(k)
  BY DEF Dir!TypeOK, Runs
<1>2. Dir(k)!Idle.ask.kind = "list"
  BY DEF Dir!Idle, Dir!Ask
<1> QED
  BY <1>1, <1>2 DEF Dir!AskOf, Runs

LEMMA RunKinds ==
    ASSUME NEW k, NEW run \in Runs(k)
    PROVE  /\ \A d \in Seq(Dir(k)!AStatement) : [run EXCEPT !.do = d] \in Runs(k)
           /\ \A m \in SUBSET Dir(k)!Rows : [run EXCEPT !.read = m] \in Runs(k)
           /\ \A d \in Seq(Dir(k)!AStatement),
                  m \in SUBSET Dir(k)!Rows : [run EXCEPT !.do = d, !.read = m] \in Runs(k)
BY DEF Runs

LEMMA IdleRuns ==
    ASSUME NEW k
    PROVE  Dir(k)!Idle \in Runs(k) /\ Dir(k)!Idle.do = <<>> /\ Dir(k)!Idle.read = {}
BY OfNone DEF Runs, Dir!Idle

\* The rows that requests write.
LEMMA RowsWritten ==
    ASSUME NEW k, Dir(k)!ConstantsOK, Dir(k)!TypeOK, NEW a \in {Dir(k)!Idle.ask} \cup Dir(k)!AsksOf(x1)
    PROVE  /\ Dir(k)!New(a) \in Dir(k)!Rows /\ Dir(k)!New(a) # Dir(k)!NoRow
               /\ Dir(k)!New(a).parent = a.parent
           /\ \A old \in Dir(k)!Rows \ {Dir(k)!NoRow} :
                 /\ Dir(k)!Merged(x1, old, a.give) \in Dir(k)!Rows
                        /\ Dir(k)!Merged(x1, old, a.give) # Dir(k)!NoRow
                 /\ Dir(k)!Merged(x1, old, a.give).parent = old.parent
                 /\ [old EXCEPT !.y = Dir(k)!Archived] \in Dir(k)!Rows
                        /\ [old EXCEPT !.y = Dir(k)!Archived] # Dir(k)!NoRow
<1> DEFINE P == k.parents \cup {Dir(k)!Shared}
           X == {"v1", "v2", "v0"}
           Y == {"v1", "v2", "v0", "archived"}
           S == [parent : P, x : X, y : Y]
<1>1. Dir(k)!Rows = {Dir(k)!NoRow} \cup S /\ Dir(k)!NoRow.x = "none"
  BY DEF Dir!Rows, Dir!NoRow, Dir!Values, Dir!Default, Dir!Archived
<1>2. \A row \in S : row.x # "none" /\ row # Dir(k)!NoRow
  BY <1>1
<1>3. a.give.x \in {"v1", "v2", "keep"} /\ a.give.y \in {"v1", "v2", "keep"}
  <2>1. a.give \in k.edits \cup {Dir(k)!Nothing}
    BY AskTyped
  <2> QED
    BY <2>1 DEF Dir!ConstantsOK, Dir!Nothing, Dir!Values, Dir!Keep
<1>4. a.parent \in P
  BY AskTyped
<1>5. Dir(k)!New(a) \in S /\ Dir(k)!New(a).parent = a.parent
  BY <1>3, <1>4 DEF Dir!New, Dir!OrElse, Dir!Keep, Dir!Default
<1>6. ASSUME NEW old \in S
      PROVE  /\ Dir(k)!Merged(x1, old, a.give) \in S
                 /\ Dir(k)!Merged(x1, old, a.give).parent = old.parent
             /\ [old EXCEPT !.y = Dir(k)!Archived] \in S
  <2>1. Dir(k)!OrElse(a.give.x, IF x1 = "resource" THEN Dir(k)!Default ELSE old.x) \in X
    BY <1>3 DEF Dir!OrElse, Dir!Keep, Dir!Default
  <2>2. Dir(k)!OrElse(a.give.y, old.y) \in Y
    BY <1>3 DEF Dir!OrElse, Dir!Keep
  <2> QED
    BY <2>1, <2>2 DEF Dir!Merged, Dir!Archived
<1> HIDE DEF S
<1> QED
  BY <1>1, <1>2, <1>5, <1>6

LEMMA AfterAskTyped ==
    ASSUME NEW k, Dir(k)!ConstantsOK, Dir(k)!TypeOK, NEW a \in {Dir(k)!Idle.ask} \cup Dir(k)!AsksOf(x1),
           NEW was \in Dir(k)!Things
    PROVE  Dir(k)!AfterAsk(x1, a, was) \in Dir(k)!Things
<1> DEFINE told == IF a.extra.models = Dir(k)!NoModels THEN was.models ELSE a.extra.models
           key == IF a.extra.key = Dir(k)!Absent THEN was.key ELSE a.extra.key
           mine == was.row # Dir(k)!NoRow /\ was.row.parent = a.parent
<1>1. /\ was.row \in Dir(k)!Rows /\ was.key \in {Dir(k)!Absent, "k1"} /\ was.models \in SUBSET k.models
      /\ \A row \in Dir(k)!Rows, y \in {Dir(k)!Absent, "k1"}, m \in SUBSET k.models :
            [row |-> row, key |-> y, models |-> m] \in Dir(k)!Things
      /\ was = [row |-> was.row, key |-> was.key, models |-> was.models]
  BY DEF Dir!Things
<1>2. told \in SUBSET k.models /\ key \in {Dir(k)!Absent, "k1"}
  BY <1>1, AskTyped
<1>3. Dir(k)!New(a) \in Dir(k)!Rows /\ Dir(k)!NoRow \in Dir(k)!Rows
  BY RowsWritten DEF Dir!Rows
<1>4. mine => Dir(k)!Merged(x1, was.row, a.give) \in Dir(k)!Rows
          /\ [was.row EXCEPT !.y = Dir(k)!Archived] \in Dir(k)!Rows
  BY <1>1, RowsWritten
<1>5. was.models \cup told \in SUBSET k.models
  BY <1>1, <1>2
<1> DEFINE A == [row |-> Dir(k)!New(a), key |-> key, models |-> was.models \cup told]
           B == [row |-> Dir(k)!Merged(x1, was.row, a.give), key |-> key, models |-> told]
           C == [was EXCEPT !.row.y = Dir(k)!Archived]
           D == [row |-> Dir(k)!NoRow, key |-> Dir(k)!Absent, models |-> {}]
           E == [was EXCEPT !.row = Dir(k)!New(a)]
           F == [was EXCEPT !.models = told]
<1>6. Dir(k)!AfterAsk(x1, a, was) =
          CASE a.kind = "create" /\ was.row = Dir(k)!NoRow -> A
            [] a.kind = "update" /\ mine -> B
            [] a.kind = "delete" /\ mine /\ x1 = "combo" -> C
            [] a.kind = "delete" /\ mine /\ x1 # "combo" -> D
            [] a.kind \in {"seed", "sync"} -> E
            [] a.kind = "seedModels" -> F
            [] OTHER -> was
  BY DEF Dir!AfterAsk
<1>7. A \in Dir(k)!Things
  BY <1>1, <1>2, <1>3, <1>5
<1>8. mine => B \in Dir(k)!Things
  BY <1>1, <1>2, <1>4
<1>9. mine => C \in Dir(k)!Things
  <2>1. C = [row |-> [was.row EXCEPT !.y = Dir(k)!Archived], key |-> was.key, models |-> was.models]
    BY <1>1
  <2> QED
    BY <2>1, <1>1, <1>4
<1>10. D \in Dir(k)!Things
  <2>1. {} \in SUBSET k.models /\ Dir(k)!Absent \in {Dir(k)!Absent, "k1"}
    OBVIOUS
  <2> QED
    BY <2>1, <1>1, <1>3
<1>11. E \in Dir(k)!Things
  <2>1. E = [row |-> Dir(k)!New(a), key |-> was.key, models |-> was.models]
    BY <1>1
  <2> QED
    BY <2>1, <1>1, <1>3
<1>12. F \in Dir(k)!Things
  <2>1. F = [row |-> was.row, key |-> was.key, models |-> told]
    BY <1>1
  <2> QED
    BY <2>1, <1>1, <1>2
<1> HIDE DEF A, B, C, D, E, F, told, key
<1> QED
  BY <1>6, <1>7, <1>8, <1>9, <1>10, <1>11, <1>12

-----------------------------------------------------------------------------
\* The statements, one after the other. A request under way ends, goes on with
\* its next statement, or has read something.
Statement(k, r) ==
    \/ Dir(k)!Insert(r) \/ Dir(k)!Select(r) \/ Dir(k)!Update(r) \/ Dir(k)!Delete(r)
           \/ Dir(k)!Archive(r) \/ Dir(k)!Replace(r)
    \/ Dir(k)!SetKey(r) \/ Dir(k)!ClearModels(r) \/ Dir(k)!AddModel(r) \/ Dir(k)!List(r)
           \/ Dir(k)!Fail(r)

Goes(k, r) ==
    \/ x5' = [x5 EXCEPT ![r] = Dir(k)!Idle]
    \/ Dir(k)!Busy(r) /\ x5' = [x5 EXCEPT ![r] = [x5[r] EXCEPT !.do = Tail(x5[r].do)]]
    \/ /\ Dir(k)!At(r, "select") /\ Dir(k)!Found(Dir(k)!AskOf(r))
       /\ x5' = [x5 EXCEPT ![r] = [x5[r] EXCEPT !.do = Tail(x5[r].do),
              !.read = {x2[Dir(k)!AskOf(r).id]}]]
    \/ /\ Dir(k)!At(r, "list")
       /\ x5' = [x5 EXCEPT ![r] = [x5[r] EXCEPT !.read = {Dir(k)!NoRow} \cup Dir(k)!Shown(Dir(k)!AskOf(r))]]

LEMMA ProceedGoes ==
    ASSUME NEW k, Dir(k)!TypeOK, NEW r \in k.requests, Dir(k)!Busy(r), Dir(k)!Proceed(r)
    PROVE  /\ Goes(k, r)
           /\ x8' \in {x8, [x8 EXCEPT ![Dir(k)!AskOf(r).id] = Dir(k)!AfterAsk(x1, Dir(k)!AskOf(r),
                  x8[Dir(k)!AskOf(r).id])]}
<1>1. Goes(k, r)
  <2>1. CASE Len(x5[r].do) = 1
    BY <2>1 DEF Dir!Proceed, Goes
  <2>2. CASE Len(x5[r].do) # 1
    <3>1. x5' = [x5 EXCEPT ![r] = [x5[r] EXCEPT !.do = Tail(x5[r].do)]]
      BY <2>2 DEF Dir!Proceed, Dir!Later
    <3> QED
      BY <3>1 DEF Goes
  <2> QED
    BY <2>1, <2>2
<1>2. x8' \in {x8, [x8 EXCEPT ![Dir(k)!AskOf(r).id] = Dir(k)!AfterAsk(x1, Dir(k)!AskOf(r),
          x8[Dir(k)!AskOf(r).id])]}
  BY DEF Dir!Proceed, Dir!AskOf
<1> QED
  BY <1>1, <1>2

LEMMA StatementGoes ==
    ASSUME NEW k, Dir(k)!TypeOK, NEW r \in k.requests, Statement(k, r)
    PROVE  /\ Goes(k, r) /\ x1' = x1 /\ x6' = x6
           /\ x8' \in {x8, [x8 EXCEPT ![Dir(k)!AskOf(r).id] = Dir(k)!AfterAsk(x1, Dir(k)!AskOf(r),
                  x8[Dir(k)!AskOf(r).id])]}
<1> USE DEF Dir!At
<1>1. CASE Dir(k)!Insert(r)
  <2>1. Dir(k)!Proceed(r) \/ Dir(k)!Refuse(r)
    BY <1>1 DEF Dir!Insert
  <2> QED
    BY <1>1, <2>1, ProceedGoes DEF Dir!Insert, Dir!Refuse, Goes
<1>2. CASE Dir(k)!Select(r)
  <2>1. CASE Dir(k)!Found(Dir(k)!AskOf(r))
    <3>1. x5' = [x5 EXCEPT ![r] = [x5[r] EXCEPT !.do = Tail(x5[r].do),
              !.read = {x2[Dir(k)!AskOf(r).id]}]]
      BY <1>2, <2>1 DEF Dir!Select, Dir!TypeOK
    <3> QED
      BY <1>2, <2>1, <3>1 DEF Dir!Select, Goes
  <2>2. CASE ~ Dir(k)!Found(Dir(k)!AskOf(r))
    BY <1>2, <2>2 DEF Dir!Select, Dir!Refuse, Goes
  <2> QED
    BY <2>1, <2>2
<1>3. CASE Dir(k)!Update(r)
  BY SMTT(40), <1>3, ProceedGoes DEF Dir!Update
<1>4. CASE Dir(k)!Delete(r)
  <2>1. Dir(k)!Proceed(r) \/ Dir(k)!Refuse(r)
    BY SMTT(40), <1>4 DEF Dir!Delete
  <2> QED
    BY <1>4, <2>1, ProceedGoes DEF Dir!Delete, Dir!Refuse, Goes
<1>5. CASE Dir(k)!Archive(r)
  <2>1. Dir(k)!Proceed(r) \/ Dir(k)!Refuse(r)
    BY <1>5 DEF Dir!Archive
  <2> QED
    BY <1>5, <2>1, ProceedGoes DEF Dir!Archive, Dir!Refuse, Goes
<1>6. CASE Dir(k)!Replace(r)
  BY <1>6, ProceedGoes DEF Dir!Replace
<1>7. CASE Dir(k)!SetKey(r)
  BY <1>7, ProceedGoes DEF Dir!SetKey
<1>8. CASE Dir(k)!ClearModels(r)
  BY <1>8, ProceedGoes DEF Dir!ClearModels
<1>9. CASE Dir(k)!AddModel(r)
  BY <1>9, ProceedGoes DEF Dir!AddModel
<1>10. CASE Dir(k)!List(r)
  <2>1. CASE x5[r].read = {}
    <3>1. x5' = [x5 EXCEPT ![r] = [x5[r] EXCEPT !.read = {Dir(k)!NoRow} \cup Dir(k)!Shown(Dir(k)!AskOf(r))]]
      BY <1>10, <2>1 DEF Dir!List
    <3> QED
      BY <1>10, <3>1 DEF Dir!List, Goes
  <2>2. CASE x5[r].read # {}
    BY <1>10, <2>2 DEF Dir!List, Goes
  <2> QED
    BY <2>1, <2>2
<1>11. CASE Dir(k)!Fail(r)
  <2> DEFINE passed == Len(x5[r].do) > 1 /\ Head(x5[r].do)[1] \in {"key", "clear", "model"}
  <2>1. CASE passed
    <3>1. x5' = [x5 EXCEPT ![r] = [x5[r] EXCEPT !.do = Tail(x5[r].do)]]
      BY <1>11, <2>1 DEF Dir!Fail, Dir!Later
    <3> QED
      BY <1>11, <3>1 DEF Dir!Fail, Goes
  <2>2. CASE ~ passed
    BY <1>11, <2>2 DEF Dir!Fail, Goes
  <2> QED
    BY <1>11, <2>1, <2>2
<1> QED
  BY <1>1, <1>2, <1>3, <1>4, <1>5, <1>6, <1>7, <1>8, <1>9, <1>10, <1>11 DEF Statement

\* The steps of the platform.
LEMMA DirectorySteps ==
    ASSUME NEW k, [Dir(k)!Next]_(Dir(k)!vars)
    PROVE  \/ UNCHANGED Dir(k)!vars
           \/ Dir(k)!Crash
           \/ \E r \in k.requests : Statement(k, r)
           \/ \E r \in k.requests : \E a \in Dir(k)!AsksOf(x1) : Dir(k)!Begin(r, a)
<1>1. ASSUME NEW r \in k.requests, Dir(k)!Step(r)
      PROVE  Statement(k, r) \/ \E a \in Dir(k)!AsksOf(x1) : Dir(k)!Begin(r, a)
  BY <1>1 DEF Dir!Step, Statement
<1> QED
  BY <1>1 DEF Dir!Next

\* Every request stays well typed, ...
LEMMA RunsTyped ==
    ASSUME NEW k, Dir(k)!ConstantsOK, Dir(k)!TypeOK, NEW r \in k.requests, Goes(k, r)
    PROVE  x5' \in [k.requests -> Runs(k)]
<1>1. x5 \in [k.requests -> Runs(k)] /\ x5[r] \in Runs(k) /\ x2 \in [k.ids -> Dir(k)!Rows]
  BY DEF Dir!TypeOK, Runs
<1>2. x5[r].do \in Seq(Dir(k)!AStatement) /\ Dir(k)!AskOf(r).id \in k.ids
  BY BusyAsk, AskTyped
<1>3. Dir(k)!Idle \in Runs(k)
  BY IdleRuns
<1>4. CASE Dir(k)!Busy(r) /\ x5' = [x5 EXCEPT ![r] = [x5[r] EXCEPT !.do = Tail(x5[r].do)]]
  <2>1. Tail(x5[r].do) \in Seq(Dir(k)!AStatement)
    BY <1>2, <1>4, HeadTailProperties DEF Dir!Busy
  <2>2. [x5[r] EXCEPT !.do = Tail(x5[r].do)] \in Runs(k)
    BY <1>1, <2>1, RunKinds
  <2> QED
    BY <1>1, <1>4, <2>2
<1>5. CASE /\ Dir(k)!At(r, "select") /\ Dir(k)!Found(Dir(k)!AskOf(r))
           /\ x5' = [x5 EXCEPT ![r] = [x5[r] EXCEPT !.do = Tail(x5[r].do),
                  !.read = {x2[Dir(k)!AskOf(r).id]}]]
  <2>1. Tail(x5[r].do) \in Seq(Dir(k)!AStatement)
    BY <1>2, <1>5, HeadTailProperties DEF Dir!At, Dir!Busy
  <2>2. {x2[Dir(k)!AskOf(r).id]} \in SUBSET Dir(k)!Rows
    BY <1>1, <1>2
  <2>3. [x5[r] EXCEPT !.do = Tail(x5[r].do), !.read = {x2[Dir(k)!AskOf(r).id]}] \in Runs(k)
    BY <1>1, <2>1, <2>2, RunKinds
  <2> QED
    BY <1>1, <1>5, <2>3
<1>6. CASE /\ Dir(k)!At(r, "list")
           /\ x5' = [x5 EXCEPT ![r] = [x5[r] EXCEPT !.read = {Dir(k)!NoRow} \cup Dir(k)!Shown(Dir(k)!AskOf(r))]]
  <2>1. {Dir(k)!NoRow} \cup Dir(k)!Shown(Dir(k)!AskOf(r)) \in SUBSET Dir(k)!Rows
    BY <1>1 DEF Dir!Shown, Dir!Rows
  <2>2. [x5[r] EXCEPT !.read = {Dir(k)!NoRow} \cup Dir(k)!Shown(Dir(k)!AskOf(r))] \in Runs(k)
    BY <1>1, <2>1, RunKinds
  <2> QED
    BY <1>1, <1>6, <2>2
<1> QED
  BY <1>1, <1>3, <1>4, <1>5, <1>6 DEF Goes

\* ... and so do the tables.
LEMMA TablesTyped ==
    ASSUME NEW k, Dir(k)!ConstantsOK, Dir(k)!TypeOK, Dir(k)!Orderly, NEW r \in k.requests,
           Statement(k, r)
    PROVE  /\ x2' \in [k.ids -> Dir(k)!Rows] /\ x3' \in [k.ids -> {Dir(k)!Absent, "k1"}]
           /\ x4' \in [k.ids -> SUBSET k.models] /\ x8' \in [k.ids -> Dir(k)!Things]
           /\ x7' \subseteq k.ids /\ x9' \subseteq k.ids /\ x10' \subseteq k.ids
<1> DEFINE a == Dir(k)!AskOf(r)
<1>1. /\ x2 \in [k.ids -> Dir(k)!Rows] /\ x3 \in [k.ids -> {Dir(k)!Absent, "k1"}]
      /\ x4 \in [k.ids -> SUBSET k.models] /\ x8 \in [k.ids -> Dir(k)!Things]
      /\ x7 \subseteq k.ids /\ x9 \subseteq k.ids /\ x10 \subseteq k.ids
  BY DEF Dir!TypeOK
<1>2. /\ a \in {Dir(k)!Idle.ask} \cup Dir(k)!AsksOf(x1) /\ a.id \in k.ids
      /\ a.extra.key \in {Dir(k)!Absent, "k1"} /\ x5[r].do \in Seq(Dir(k)!AStatement)
      /\ x5[r].read \subseteq Dir(k)!Rows
  BY BusyAsk, AskTyped
<1>3. Dir(k)!New(a) \in Dir(k)!Rows /\ Dir(k)!NoRow \in Dir(k)!Rows
  BY <1>2, RowsWritten DEF Dir!Rows
<1>4. x8' \in [k.ids -> Dir(k)!Things]
  <2>1. x8[a.id] \in Dir(k)!Things
    BY <1>1, <1>2
  <2>2. Dir(k)!AfterAsk(x1, a, x8[a.id]) \in Dir(k)!Things
    BY <1>2, <2>1, AfterAskTyped
  <2>3. x8' \in {x8, [x8 EXCEPT ![a.id] = Dir(k)!AfterAsk(x1, a, x8[a.id])]}
    BY StatementGoes
  <2> QED
    BY <1>1, <2>2, <2>3
<1> HIDE DEF a
<1>5. CASE Dir(k)!Insert(r)
  BY <1>1, <1>2, <1>3, <1>4, <1>5 DEF Dir!Insert, a
<1>6. CASE Dir(k)!Select(r)
  BY <1>1, <1>4, <1>6 DEF Dir!Select
<1>7. CASE Dir(k)!Update(r)
  <2>1. Dir(k)!NoRow \notin x5[r].read
    <3>1. "update" \in Dir(k)!Names(x5[r].do)
      <4>1. /\ x5[r].do # <<>> /\ Head(x5[r].do)[1] = "update"
        BY <1>7 DEF Dir!Update, Dir!At, Dir!Busy
      <4> QED
        BY <1>2, <4>1, OfTail DEF Dir!Orderly
    <3>2. a.kind # "list"
      BY <3>1 DEF Dir!Orderly, a
    <3> QED
      BY <3>2 DEF Dir!Orderly, a
  <2>2. PICK old \in x5[r].read :
            x2' = IF x2[a.id] = Dir(k)!NoRow THEN x2 ELSE [x2 EXCEPT ![a.id] = Dir(k)!Merged(x1, old,
                a.give)]
    BY <1>7 DEF Dir!Update, a
  <2>3. Dir(k)!Merged(x1, old, a.give) \in Dir(k)!Rows
    BY <1>2, <2>1, <2>2, RowsWritten
  <2>4. x2' \in [k.ids -> Dir(k)!Rows]
    BY <1>1, <2>2, <2>3
  <2> QED
    BY <1>1, <1>4, <1>7, <2>4 DEF Dir!Update
<1>8. CASE Dir(k)!Delete(r)
  BY <1>1, <1>2, <1>3, <1>4, <1>8 DEF Dir!Delete, a
<1>9. CASE Dir(k)!Archive(r)
  <2>1. CASE Dir(k)!Found(a)
    <3>1. x2[a.id] \in Dir(k)!Rows \ {Dir(k)!NoRow}
      BY <1>1, <1>2, <2>1 DEF Dir!Found
    <3>2. [x2[a.id] EXCEPT !.y = Dir(k)!Archived] \in Dir(k)!Rows
      BY <1>2, <3>1, RowsWritten
    <3>3. x2' = [x2 EXCEPT ![a.id] = [x2[a.id] EXCEPT !.y = Dir(k)!Archived]]
      BY <1>9, <2>1 DEF Dir!Archive, a
    <3>4. x2' \in [k.ids -> Dir(k)!Rows]
      BY <1>1, <3>2, <3>3
    <3> QED
      BY <1>1, <1>4, <1>9, <3>4 DEF Dir!Archive
  <2>2. CASE ~ Dir(k)!Found(a)
    BY <1>1, <1>4, <1>9, <2>2 DEF Dir!Archive, a
  <2> QED
    BY <2>1, <2>2
<1>10. CASE Dir(k)!Replace(r)
  BY <1>1, <1>2, <1>3, <1>4, <1>10 DEF Dir!Replace, a
<1>11. CASE Dir(k)!SetKey(r)
  BY <1>1, <1>2, <1>4, <1>11 DEF Dir!SetKey, a
<1>12. CASE Dir(k)!ClearModels(r)
  BY <1>1, <1>2, <1>4, <1>12 DEF Dir!ClearModels, a
<1>13. CASE Dir(k)!AddModel(r)
  <2> DEFINE m == Head(x5[r].do)[2]
  <2>1. m \in k.models
    <3>1. x5[r].do # <<>> /\ Head(x5[r].do)[1] = "model"
      BY <1>13 DEF Dir!AddModel, Dir!At, Dir!Busy
    <3>2. Head(x5[r].do) \in Dir(k)!AStatement
      BY <1>2, <3>1, HeadTailProperties
    <3> QED
      BY <3>1, <3>2 DEF Dir!AStatement
  <2>2. x4' = [x4 EXCEPT ![a.id] = x4[a.id] \cup {m}]
    BY <1>13 DEF Dir!AddModel, a
  <2>3. x4' \in [k.ids -> SUBSET k.models]
    BY <1>1, <1>2, <2>1, <2>2
  <2> QED
    BY <1>1, <1>4, <1>13, <2>3 DEF Dir!AddModel
<1>14. CASE Dir(k)!List(r)
  BY <1>1, <1>4, <1>14 DEF Dir!List
<1>15. CASE Dir(k)!Fail(r)
  BY <1>1, <1>2, <1>4, <1>15 DEF Dir!Fail, a
<1> QED
  BY <1>5, <1>6, <1>7, <1>8, <1>9, <1>10, <1>11, <1>12, <1>13, <1>14, <1>15 DEF Statement

LEMMA TypesStay ==
    ASSUME NEW k, Dir(k)!ConstantsOK, Dir(k)!TypeOK, Dir(k)!Orderly, [Dir(k)!Next]_(Dir(k)!vars)
    PROVE  Dir(k)!TypeOK'
<1>1. /\ x1 \in Dir(k)!Tables /\ x5 \in [k.requests -> Runs(k)] /\ x6 \in 0 .. k.begun
             /\ k.begun \in Nat
      /\ \A r \in k.requests : x5[r].ask.id \in k.ids
  <2>1. ASSUME NEW r \in k.requests PROVE x5[r].ask.id \in k.ids
    <3>1. x5[r].ask \in {Dir(k)!Idle.ask} \cup Dir(k)!AsksOf(x1)
      BY BusyAsk
    <3> QED
      BY <3>1, AskTyped
  <2> QED
    BY <2>1 DEF Dir!TypeOK, Runs, Dir!ConstantsOK
<1>2. CASE UNCHANGED Dir(k)!vars
  BY <1>2 DEF Dir!vars, Dir!TypeOK
<1>3. CASE Dir(k)!Crash
  <2>1. x5' \in [k.requests -> Runs(k)]
    BY <1>3, IdleRuns DEF Dir!Crash
  <2>2. x9' \subseteq k.ids
    BY <1>1, <1>3 DEF Dir!Crash, Dir!TypeOK
  <2> QED
    BY <1>3, <2>1, <2>2 DEF Dir!Crash, Dir!TypeOK, Runs
<1>4. ASSUME NEW r \in k.requests, Statement(k, r) PROVE Dir(k)!TypeOK'
  <2>1. Goes(k, r) /\ x1' = x1 /\ x6' = x6
    BY <1>4, StatementGoes
  <2>2. x5' \in [k.requests -> Runs(k)]
    BY <2>1, RunsTyped
  <2>3. /\ x2' \in [k.ids -> Dir(k)!Rows] /\ x3' \in [k.ids -> {Dir(k)!Absent, "k1"}]
        /\ x4' \in [k.ids -> SUBSET k.models] /\ x8' \in [k.ids -> Dir(k)!Things]
        /\ x7' \subseteq k.ids /\ x9' \subseteq k.ids /\ x10' \subseteq k.ids
    BY <1>4, TablesTyped
  <2> QED
    BY <1>1, <2>1, <2>2, <2>3 DEF Dir!TypeOK, Runs
<1>5. ASSUME NEW r \in k.requests, NEW a \in Dir(k)!AsksOf(x1), Dir(k)!Begin(r, a) PROVE Dir(k)!TypeOK'
  <2>1. Dir(k)!Statements(x1, a) \in Seq(Dir(k)!AStatement)
    BY <1>1, StatementFacts
  <2>2. a.id \in k.ids
    BY AskTyped
  <2>3. x5' \in [k.requests -> Runs(k)]
    <3>1. [do |-> Dir(k)!Statements(x1, a), ask |-> a, read |-> {}] \in Runs(k)
      BY <2>1 DEF Runs
    <3> QED
      BY <1>1, <1>5, <3>1 DEF Dir!Begin
  <2>4. x9' \subseteq k.ids
    BY <1>5, <2>2 DEF Dir!Begin, Dir!TypeOK
  <2>5. x6' \in 0 .. k.begun
    BY <1>1, <1>5 DEF Dir!Begin
  <2> QED
    BY <1>5, <2>3, <2>4, <2>5 DEF Dir!Begin, Dir!TypeOK, Runs
<1> QED
  BY <1>2, <1>3, <1>4, <1>5, DirectorySteps

\* What a request's next statement leaves of its list.
LEMMA GoesOrdered ==
    ASSUME NEW k, Dir(k)!ConstantsOK, Dir(k)!TypeOK, Dir(k)!Orderly, NEW r \in k.requests, Goes(k, r)
    PROVE  /\ \A q \in k.requests \ {r} : x5'[q] = x5[q]
           /\ Dir(k)!InOrder(x5'[r].do) /\ Dir(k)!Names(x5'[r].do) \subseteq Dir(k)!Names(x5[r].do)
           /\ \/ x5'[r] = Dir(k)!Idle
              \/ x5'[r].ask = x5[r].ask /\ (x5'[r].read = x5[r].read
                                            \/ /\ Dir(k)!At(r, "select") /\ Dir(k)!Found(x5[r].ask)
                                               /\ x5'[r].read = {x2[x5[r].ask.id]}
                                            \/ /\ Dir(k)!At(r, "list")
                                               /\ x5'[r].read = {Dir(k)!NoRow} \cup Dir(k)!Shown(x5[r].ask))
<1>1. x5 \in [k.requests -> Runs(k)] /\ x5[r] \in Runs(k) /\ x5[r].do \in Seq(Dir(k)!AStatement)
          /\ Dir(k)!AskOf(r) = x5[r].ask
  BY BusyAsk DEF Dir!TypeOK, Runs
<1>2. Dir(k)!Idle.do = <<>> /\ Dir(k)!InOrder(<<>>) /\ Dir(k)!Names(<<>>) = {}
  BY IdleRuns, OfNone
<1>3. Dir(k)!InOrder(x5[r].do)
  BY DEF Dir!Orderly
<1>4. Dir(k)!Busy(r) => Dir(k)!InOrder(Tail(x5[r].do))
          /\ Dir(k)!Names(Tail(x5[r].do)) \subseteq Dir(k)!Names(x5[r].do)
  BY <1>1, <1>3, OfTail DEF Dir!Busy
<1>5. CASE x5' = [x5 EXCEPT ![r] = Dir(k)!Idle]
  BY <1>1, <1>2, <1>5
<1>6. CASE Dir(k)!Busy(r) /\ x5' = [x5 EXCEPT ![r] = [x5[r] EXCEPT !.do = Tail(x5[r].do)]]
  <2>1. /\ x5'[r].do = Tail(x5[r].do) /\ x5'[r].ask = x5[r].ask /\ x5'[r].read = x5[r].read
        /\ \A q \in k.requests \ {r} : x5'[q] = x5[q]
    BY <1>1, <1>6 DEF Runs
  <2> QED
    BY <1>4, <1>6, <2>1
<1>7. CASE /\ Dir(k)!At(r, "select") /\ Dir(k)!Found(Dir(k)!AskOf(r))
           /\ x5' = [x5 EXCEPT ![r] = [x5[r] EXCEPT !.do = Tail(x5[r].do),
                  !.read = {x2[Dir(k)!AskOf(r).id]}]]
  <2>1. /\ x5'[r].do = Tail(x5[r].do) /\ x5'[r].ask = x5[r].ask /\ x5'[r].read = {x2[x5[r].ask.id]}
        /\ \A q \in k.requests \ {r} : x5'[q] = x5[q]
    BY <1>1, <1>7 DEF Runs
  <2>2. Dir(k)!Busy(r)
    BY <1>7 DEF Dir!At
  <2> QED
    BY <1>1, <1>4, <1>7, <2>1, <2>2
<1>8. CASE /\ Dir(k)!At(r, "list")
           /\ x5' = [x5 EXCEPT ![r] = [x5[r] EXCEPT !.read = {Dir(k)!NoRow} \cup Dir(k)!Shown(Dir(k)!AskOf(r))]]
  <2>1. /\ x5'[r].do = x5[r].do /\ x5'[r].ask = x5[r].ask
        /\ x5'[r].read = {Dir(k)!NoRow} \cup Dir(k)!Shown(x5[r].ask)
        /\ \A q \in k.requests \ {r} : x5'[q] = x5[q]
    BY <1>1, <1>8 DEF Runs
  <2> QED
    BY <1>1, <1>3, <1>8, <2>1
<1> QED
  BY <1>5, <1>6, <1>7, <1>8 DEF Goes

\* The name of a request's next statement is one of its list.
LEMMA AtName ==
    ASSUME NEW k, Dir(k)!ConstantsOK, Dir(k)!TypeOK, Dir(k)!Orderly, NEW r \in k.requests, NEW name,
           Dir(k)!At(r, name)
    PROVE  /\ name \in Dir(k)!Names(x5[r].do) /\ x5[r].do # <<>> /\ Head(x5[r].do)[1] = name
           /\ Dir(k)!Busy(r) /\ x5[r].do \in Seq(Dir(k)!AStatement) /\ Dir(k)!InOrder(x5[r].do)
<1>1. x5[r].do # <<>> /\ Head(x5[r].do)[1] = name
  BY DEF Dir!At, Dir!Busy
<1>2. x5[r].do \in Seq(Dir(k)!AStatement) /\ Dir(k)!InOrder(x5[r].do)
  BY BusyAsk DEF Dir!Orderly
<1> QED
  BY <1>1, <1>2, OfTail DEF Dir!Busy

\* Lists of statements stay in order, and only channels get models.
LEMMA OrderStays ==
    ASSUME NEW k, Dir(k)!ConstantsOK, Dir(k)!TypeOK, Dir(k)!Orderly, [Dir(k)!Next]_(Dir(k)!vars)
    PROVE  Dir(k)!Orderly'
<1>1. /\ Dir(k)!Idle.ask.kind = "list" /\ Dir(k)!Idle.do = <<>> /\ Dir(k)!InOrder(<<>>)
             /\ Dir(k)!Names(<<>>) = {}
      /\ Dir(k)!Idle.read = {} /\ x1 \in Dir(k)!Tables
  BY IdleRuns, OfNone DEF Dir!Idle, Dir!Ask, Dir!TypeOK
<1>2. CASE UNCHANGED Dir(k)!vars
  BY <1>2 DEF Dir!vars, Dir!Orderly, Dir!AskOf
<1>3. CASE Dir(k)!Crash
  <2>1. UNCHANGED <<x1, x4>> /\ \A r \in k.requests : x5'[r] = Dir(k)!Idle
    BY <1>3 DEF Dir!Crash
  <2> QED
    BY <1>1, <2>1 DEF Dir!Orderly, Dir!AskOf
<1>4. ASSUME NEW r \in k.requests, Statement(k, r) PROVE Dir(k)!Orderly'
  <2>1. Goes(k, r) /\ x1' = x1
    BY <1>4, StatementGoes
  <2>2. /\ \A q \in k.requests \ {r} : x5'[q] = x5[q]
        /\ Dir(k)!InOrder(x5'[r].do) /\ Dir(k)!Names(x5'[r].do) \subseteq Dir(k)!Names(x5[r].do)
        /\ \/ x5'[r] = Dir(k)!Idle
           \/ x5'[r].ask = x5[r].ask /\ (x5'[r].read = x5[r].read
                                         \/ /\ Dir(k)!At(r, "select") /\ Dir(k)!Found(x5[r].ask)
                                            /\ x5'[r].read = {x2[x5[r].ask.id]}
                                         \/ /\ Dir(k)!At(r, "list")
                                            /\ x5'[r].read = {Dir(k)!NoRow} \cup Dir(k)!Shown(x5[r].ask))
    BY <2>1, GoesOrdered
  <2>3. \A q \in k.requests : Dir(k)!InOrder(x5'[q].do)
            /\ Dir(k)!Names(x5'[q].do) \subseteq Dir(k)!Names(x5[q].do)
    BY <2>2 DEF Dir!Orderly
  <2>4. ASSUME NEW q \in k.requests
        PROVE  /\ x5'[q].ask.kind = "list" => Dir(k)!Names(x5'[q].do) \subseteq {"list"}
               /\ x5'[q].ask.kind # "list" => "list" \notin Dir(k)!Names(x5'[q].do)
                      /\ Dir(k)!NoRow \notin x5'[q].read
    <3>1. /\ x5[q].ask.kind = "list" => Dir(k)!Names(x5[q].do) \subseteq {"list"}
          /\ x5[q].ask.kind # "list" => "list" \notin Dir(k)!Names(x5[q].do)
                 /\ Dir(k)!NoRow \notin x5[q].read
      BY DEF Dir!Orderly, Dir!AskOf
    <3>2. CASE q # r
      BY <2>2, <3>1, <3>2
    <3>3. CASE x5'[q] = Dir(k)!Idle
      BY <1>1, <3>3
    <3>4. CASE q = r /\ x5'[r].ask = x5[r].ask /\ x5'[r].read = x5[r].read
      BY <2>2, <3>1, <3>4
    <3>5. CASE /\ q = r /\ x5'[r].ask = x5[r].ask /\ Dir(k)!Found(x5[r].ask)
               /\ x5'[r].read = {x2[x5[r].ask.id]}
      <4>1. Dir(k)!NoRow \notin x5'[r].read
        BY <3>5 DEF Dir!Found
      <4> QED
        BY <2>2, <3>1, <3>5, <4>1
    <3>6. CASE q = r /\ x5'[r].ask = x5[r].ask /\ Dir(k)!At(r, "list")
      <4>1. "list" \in Dir(k)!Names(x5[r].do)
        BY <3>6, AtName
      <4> QED
        BY <2>2, <3>1, <3>6, <4>1
    <3> QED
      BY <2>2, <3>2, <3>3, <3>4, <3>5, <3>6
  <2>5. ASSUME x1 # "channel"
        PROVE  (\A i \in k.ids : x4'[i] = {})
                   /\ \A q \in k.requests : "model" \notin Dir(k)!Names(x5'[q].do)
    <3>1. /\ \A i \in k.ids : x4[i] = {}
          /\ \A q \in k.requests : "model" \notin Dir(k)!Names(x5[q].do)
      BY <2>5 DEF Dir!Orderly
    <3>2. ~ Dir(k)!AddModel(r)
      BY <3>1, AtName DEF Dir!AddModel
    <3>3. x4' = x4 \/ Dir(k)!ClearModels(r)
      BY <1>4, <3>2 DEF Statement, Dir!Insert, Dir!Select, Dir!Update, Dir!Delete, Dir!Archive,
             Dir!Replace,
         Dir!SetKey, Dir!List, Dir!Fail
    <3>4. Dir(k)!ClearModels(r) => \A i \in k.ids : x4'[i] = {}
      BY <3>1 DEF Dir!ClearModels, Dir!TypeOK
    <3> QED
      BY <2>3, <3>1, <3>3, <3>4
  <2> QED
    BY <2>1, <2>3, <2>4, <2>5 DEF Dir!Orderly, Dir!AskOf
<1>5. ASSUME NEW r \in k.requests, NEW a \in Dir(k)!AsksOf(x1), Dir(k)!Begin(r, a) PROVE Dir(k)!Orderly'
  <2> DEFINE do == Dir(k)!Statements(x1, a)
  <2>1. /\ UNCHANGED <<x1, x4>> /\ x5'[r] = [do |-> do, ask |-> a, read |-> {}]
        /\ \A q \in k.requests \ {r} : x5'[q] = x5[q]
    BY <1>5 DEF Dir!Begin, Dir!TypeOK
  <2>2. /\ Dir(k)!InOrder(do)
        /\ a.kind = "list" => Dir(k)!Names(do) = {"list"}
    BY <1>1, StatementFacts
  <2>3. a.kind # "list" => "list" \notin Dir(k)!Names(do)
    <3>1. a.kind \in {"create", "update", "delete", "list", "seed", "seedModels", "sync"}
      BY <1>1, AskFacts
    <3>2. CASE a.kind = "create"
      BY <1>1, <3>2, StatementFacts
    <3>3. CASE a.kind = "update"
      BY <1>1, <3>3, StatementFacts
    <3>4. CASE a.kind = "delete"
      BY <1>1, <3>4, StatementFacts
    <3>5. CASE a.kind \in {"seed", "sync"}
      BY <1>1, <3>5, StatementFacts
    <3>6. CASE a.kind = "seedModels"
      BY <1>1, <3>6, StatementFacts
    <3> QED
      BY <3>1, <3>2, <3>3, <3>4, <3>5, <3>6
  <2>4. x1 # "channel" => "model" \notin Dir(k)!Names(do)
    <3>1. /\ a.kind \in {"create", "update", "delete", "list", "seed", "seedModels", "sync"}
          /\ x1 # "channel" => a.extra.models = Dir(k)!NoModels
          /\ a.kind = "seedModels" => a.extra.models # Dir(k)!NoModels
      BY <1>1, AskFacts
    <3>2. CASE a.kind = "create"
      BY <1>1, <3>1, <3>2, StatementFacts
    <3>3. CASE a.kind = "update"
      BY <1>1, <3>1, <3>3, StatementFacts
    <3>4. CASE a.kind = "delete"
      BY <1>1, <3>4, StatementFacts
    <3>5. CASE a.kind \in {"seed", "sync"}
      BY <1>1, <3>5, StatementFacts
    <3>6. CASE a.kind = "list"
      BY <1>1, <3>6, StatementFacts
    <3> QED
      BY <3>1, <3>2, <3>3, <3>4, <3>5, <3>6
  <2> HIDE DEF do
  <2>5. ASSUME NEW q \in k.requests
        PROVE  /\ Dir(k)!InOrder(x5'[q].do)
               /\ x5'[q].ask.kind = "list" => Dir(k)!Names(x5'[q].do) \subseteq {"list"}
               /\ x5'[q].ask.kind # "list" => "list" \notin Dir(k)!Names(x5'[q].do)
                      /\ Dir(k)!NoRow \notin x5'[q].read
               /\ x1 # "channel" => "model" \notin Dir(k)!Names(x5'[q].do)
    <3>1. CASE q = r
      BY <2>1, <2>2, <2>3, <2>4, <3>1
    <3>2. CASE q # r
      BY <2>1, <3>2 DEF Dir!Orderly, Dir!AskOf
    <3> QED
      BY <3>1, <3>2
  <2> QED
    BY <2>1, <2>5 DEF Dir!Orderly, Dir!AskOf
<1> QED
  BY <1>2, <1>3, <1>4, <1>5, DirectorySteps

\* A generated id is given to one row only, whatever happens to it.
LEMMA IdsStayFresh ==
    ASSUME NEW k, Dir(k)!ConstantsOK, Dir(k)!TypeOK, Dir(k)!Orderly, Dir(k)!FreshIds,
           [Dir(k)!Next]_(Dir(k)!vars)
    PROVE  Dir(k)!FreshIds'
<1> SUFFICES ASSUME Dir(k)!GeneratesIds(x1)
             PROVE  /\ x10' \subseteq x7' /\ \A i \in k.ids : x2'[i] # Dir(k)!NoRow => i \in x7'
                    /\ \A r \in k.requests : "replace" \notin Dir(k)!Names(x5'[r].do)
                    /\ \A r \in k.requests : "insert" \in Dir(k)!Names(x5'[r].do) =>
                          x5'[r].ask.kind = "create" /\ x5'[r].ask.id \notin x7'
                    /\ \A r, q \in k.requests :
                          /\ "insert" \in Dir(k)!Names(x5'[r].do)
                                 /\ "insert" \in Dir(k)!Names(x5'[q].do)
                          /\ x5'[r].ask.id = x5'[q].ask.id
                          => r = q
  <2>1. x1' = x1
    <3>1. ASSUME NEW r \in k.requests, Statement(k, r) PROVE x1' = x1
      BY <3>1, StatementGoes
    <3> QED
      BY <3>1, DirectorySteps DEF Dir!vars, Dir!Crash, Dir!Begin
  <2> QED
    BY <2>1 DEF Dir!FreshIds, Dir!Inserts, Dir!AskOf, Dir!GeneratesIds, Dir!HasParent
<1>1. /\ x10 \subseteq x7 /\ \A i \in k.ids : x2[i] # Dir(k)!NoRow => i \in x7
      /\ \A r \in k.requests : "replace" \notin Dir(k)!Names(x5[r].do)
      /\ \A r \in k.requests : "insert" \in Dir(k)!Names(x5[r].do) =>
            x5[r].ask.kind = "create" /\ x5[r].ask.id \notin x7
      /\ \A r, q \in k.requests :
            /\ "insert" \in Dir(k)!Names(x5[r].do) /\ "insert" \in Dir(k)!Names(x5[q].do)
            /\ x5[r].ask.id = x5[q].ask.id
            => r = q
  BY DEF Dir!FreshIds, Dir!Inserts, Dir!AskOf
<1>2. CASE UNCHANGED Dir(k)!vars
  BY <1>1, <1>2 DEF Dir!vars
<1>3. CASE Dir(k)!Crash
  <2>1. UNCHANGED <<x2, x7, x10>> /\ \A r \in k.requests : x5'[r] = Dir(k)!Idle
    BY <1>3 DEF Dir!Crash
  <2>2. Dir(k)!Names(Dir(k)!Idle.do) = {}
    BY IdleRuns, OfNone
  <2> QED
    BY <1>1, <2>1, <2>2
<1>4. ASSUME NEW r \in k.requests, Statement(k, r)
      PROVE  /\ x10' \subseteq x7' /\ \A i \in k.ids : x2'[i] # Dir(k)!NoRow => i \in x7'
             /\ \A q \in k.requests : "replace" \notin Dir(k)!Names(x5'[q].do)
             /\ \A q \in k.requests : "insert" \in Dir(k)!Names(x5'[q].do) =>
                    x5'[q].ask.kind = "create" /\ x5'[q].ask.id \notin x7'
             /\ \A p, q \in k.requests :
                    /\ "insert" \in Dir(k)!Names(x5'[p].do) /\ "insert" \in Dir(k)!Names(x5'[q].do)
                    /\ x5'[p].ask.id = x5'[q].ask.id
                    => p = q
  <2> DEFINE i == x5[r].ask.id
  <2>1. Goes(k, r) /\ i \in k.ids /\ Dir(k)!AskOf(r) = x5[r].ask
    <3>1. Dir(k)!AskOf(r) = x5[r].ask /\ x5[r].ask \in {Dir(k)!Idle.ask} \cup Dir(k)!AsksOf(x1)
      BY BusyAsk
    <3> QED
      BY <1>4, <3>1, StatementGoes, AskTyped
  <2>2. /\ \A q \in k.requests \ {r} : x5'[q] = x5[q]
        /\ Dir(k)!Names(x5'[r].do) \subseteq Dir(k)!Names(x5[r].do)
        /\ x5'[r] = Dir(k)!Idle \/ x5'[r].ask = x5[r].ask
    BY <2>1, GoesOrdered
  <2>3. Dir(k)!Names(Dir(k)!Idle.do) = {}
    BY IdleRuns, OfNone
  <2>4. \A q \in k.requests : /\ Dir(k)!Names(x5'[q].do) \subseteq Dir(k)!Names(x5[q].do)
                              /\ x5'[q].ask = x5[q].ask \/ Dir(k)!Names(x5'[q].do) = {}
    BY <2>2, <2>3
  <2>5. ~ Dir(k)!Replace(r)
    BY <1>1, AtName DEF Dir!Replace
  <2>6. CASE Dir(k)!Insert(r)
    <3>1. "insert" \in Dir(k)!Names(x5[r].do)
      BY <2>6, AtName DEF Dir!Insert
    <3>2. x10' = x10 /\ (x7' = x7 \/ x7' = x7 \cup {i})
      BY <2>1, <2>6 DEF Dir!Insert
    <3>3. \A j \in k.ids : x2'[j] # Dir(k)!NoRow => j \in x7'
      BY <1>1, <2>1, <2>6 DEF Dir!Insert, Dir!TypeOK
    <3>4. "insert" \notin Dir(k)!Names(x5'[r].do)
      <4>1. Dir(k)!At(r, "insert")
        BY <2>6 DEF Dir!Insert
      <4>2. /\ x5[r].do \in Seq(Dir(k)!AStatement) /\ Dir(k)!InOrder(x5[r].do) /\ x5[r].do # <<>>
            /\ Head(x5[r].do)[1] = "insert"
        BY <4>1, AtName
      <4>3. \A n \in Dir(k)!Names(Tail(x5[r].do)) : Dir(k)!Rank("insert") < Dir(k)!Rank(n)
        BY <4>2, OfTail
      <4>4. Dir(k)!Rank("insert") = 0
        BY DEF Dir!Rank
      <4>5. "insert" \notin Dir(k)!Names(Tail(x5[r].do))
        BY <4>3, <4>4
      <4>6. x5'[r] = Dir(k)!Idle \/ x5'[r].do = Tail(x5[r].do)
        <5>1. CASE Len(x5[r].do) = 1 \/ x2[i] # Dir(k)!NoRow
          BY <2>1, <2>6, <5>1 DEF Dir!Insert, Dir!Proceed, Dir!Refuse, Dir!TypeOK
        <5>2. CASE Len(x5[r].do) # 1 /\ x2[i] = Dir(k)!NoRow
          <6>1. x5' = [x5 EXCEPT ![r] = Dir(k)!Later(x5[r])]
            BY <2>1, <2>6, <5>2 DEF Dir!Insert, Dir!Proceed
          <6>2. x5 \in [k.requests -> Runs(k)]
            BY DEF Dir!TypeOK, Runs
          <6>3. x5'[r] = [x5[r] EXCEPT !.do = Tail(x5[r].do)] /\ x5[r] \in Runs(k)
            BY <6>1, <6>2 DEF Dir!Later
          <6> QED
            BY <6>3 DEF Runs
        <5> QED
          BY <5>1, <5>2
      <4> QED
        BY <2>3, <4>5, <4>6
    <3>5. \A q \in k.requests \ {r} : "insert" \in Dir(k)!Names(x5[q].do) => x5[q].ask.id # i
      BY <1>1, <3>1
    <3> QED
      BY <1>1, <2>2, <2>4, <3>2, <3>3, <3>4, <3>5
  <2>7. CASE ~ Dir(k)!Insert(r)
    <3>1. x7' = x7
      BY <1>4, <2>5, <2>7 DEF Statement, Dir!Select, Dir!Update, Dir!Delete, Dir!Archive, Dir!SetKey,
         Dir!ClearModels, Dir!AddModel, Dir!List, Dir!Fail
    <3>2. (\A j \in k.ids : x2'[j] # Dir(k)!NoRow => x2[j] # Dir(k)!NoRow) /\ x10' \subseteq x7
      <4>1. CASE Dir(k)!Select(r) \/ Dir(k)!SetKey(r) \/ Dir(k)!ClearModels(r) \/ Dir(k)!AddModel(r)
                     \/ Dir(k)!List(r) \/ Dir(k)!Fail(r)
        BY <1>1, <4>1 DEF Dir!Select, Dir!SetKey, Dir!ClearModels, Dir!AddModel, Dir!List, Dir!Fail
      <4>2. CASE Dir(k)!Update(r)
        <5>1. x10' = x10
          BY <4>2 DEF Dir!Update
        <5>2. x2' = x2 \/ (x2[i] # Dir(k)!NoRow /\ \A j \in k.ids \ {i} : x2'[j] = x2[j])
          BY <2>1, <4>2 DEF Dir!Update, Dir!TypeOK
        <5> QED
          BY <1>1, <5>1, <5>2
      <4>3. CASE Dir(k)!Delete(r)
        <5>1. (x2' = x2 /\ x10' = x10) \/ Dir(k)!Found(x5[r].ask)
          BY <2>1, <4>3 DEF Dir!Delete
        <5>2. Dir(k)!Found(x5[r].ask) =>
                  x10' = x10 \cup {i} /\ i \in x7 /\ \A j \in k.ids : x2'[j] # Dir(k)!NoRow
                      => x2[j] # Dir(k)!NoRow
          BY <1>1, <2>1, <4>3 DEF Dir!Delete, Dir!Found, Dir!TypeOK
        <5> QED
          BY <1>1, <5>1, <5>2
      <4>4. CASE Dir(k)!Archive(r)
        <5>1. x10' = x10
          BY <4>4 DEF Dir!Archive
        <5>2. x2' = x2 \/ (x2[i] # Dir(k)!NoRow /\ \A j \in k.ids \ {i} : x2'[j] = x2[j])
          BY <2>1, <4>4 DEF Dir!Archive, Dir!TypeOK, Dir!Found
        <5> QED
          BY <1>1, <5>1, <5>2
      <4> QED
        BY <1>4, <2>5, <2>7, <4>1, <4>2, <4>3, <4>4 DEF Statement
    <3> QED
      BY <1>1, <2>4, <3>1, <3>2
  <2> QED
    BY <2>6, <2>7
<1>5. ASSUME NEW r \in k.requests, NEW a \in Dir(k)!AsksOf(x1), Dir(k)!Begin(r, a)
      PROVE  /\ x10' \subseteq x7' /\ \A i \in k.ids : x2'[i] # Dir(k)!NoRow => i \in x7'
             /\ \A q \in k.requests : "replace" \notin Dir(k)!Names(x5'[q].do)
             /\ \A q \in k.requests : "insert" \in Dir(k)!Names(x5'[q].do) =>
                    x5'[q].ask.kind = "create" /\ x5'[q].ask.id \notin x7'
             /\ \A p, q \in k.requests :
                    /\ "insert" \in Dir(k)!Names(x5'[p].do) /\ "insert" \in Dir(k)!Names(x5'[q].do)
                    /\ x5'[p].ask.id = x5'[q].ask.id
                    => p = q
  <2> DEFINE do == Dir(k)!Statements(x1, a)
  <2>1. /\ UNCHANGED <<x2, x7, x10>> /\ x5'[r] = [do |-> do, ask |-> a, read |-> {}]
        /\ \A q \in k.requests \ {r} : x5'[q] = x5[q]
    BY <1>5 DEF Dir!Begin, Dir!TypeOK
  <2>2. x1 \in Dir(k)!Tables /\ a.kind \in {"create", "update", "delete", "list"}
    BY AskFacts DEF Dir!TypeOK
  <2>3. "replace" \notin Dir(k)!Names(do) /\ ("insert" \in Dir(k)!Names(do) => a.kind = "create")
    <3>1. CASE a.kind = "create"
      BY <2>2, <3>1, StatementFacts
    <3>2. CASE a.kind = "update"
      BY <2>2, <3>2, StatementFacts
    <3>3. CASE a.kind = "delete"
      BY <2>2, <3>3, StatementFacts
    <3>4. CASE a.kind = "list"
      BY <2>2, <3>4, StatementFacts
    <3> QED
      BY <2>2, <3>1, <3>2, <3>3, <3>4
  <2>4. a.kind = "create" =>
            a.id \notin x7 /\ \A q \in k.requests : "insert" \in Dir(k)!Names(x5[q].do)
                => x5[q].ask.id # a.id
    <3>1. a.kind = "create" =>
              a.id \notin x7 /\ \A q \in Dir(k)!AsksOfId(a.id) : x5[q].ask.kind # "create"
      BY <1>5 DEF Dir!Begin
    <3>2. ASSUME NEW q \in k.requests, "insert" \in Dir(k)!Names(x5[q].do), x5[q].ask.id = a.id
          PROVE  q \in Dir(k)!AsksOfId(a.id) /\ x5[q].ask.kind = "create"
      <4>1. x5[q].do # <<>>
        BY <3>2, OfNone
      <4> QED
        BY <1>1, <3>2, <4>1 DEF Dir!AsksOfId, Dir!Busy
    <3> QED
      BY <3>1, <3>2
  <2> HIDE DEF do
  <2> QED
    BY <1>1, <2>1, <2>3, <2>4
<1> QED
  BY <1>2, <1>3, <1>4, <1>5, DirectorySteps

\* A deleted row does not come back.
LEMMA DeletedStay ==
    ASSUME NEW k, Dir(k)!ConstantsOK, Dir(k)!TypeOK, Dir(k)!Orderly, Dir(k)!FreshIds,
           Dir(k)!DeletedStaysDeleted, [Dir(k)!Next]_(Dir(k)!vars)
    PROVE  Dir(k)!DeletedStaysDeleted'
<1>1. ASSUME NEW r \in k.requests, Statement(k, r) PROVE Dir(k)!DeletedStaysDeleted'
  <2> DEFINE i == x5[r].ask.id
  <2>1. x1' = x1 /\ i \in k.ids /\ Dir(k)!AskOf(r) = x5[r].ask
    <3>1. Dir(k)!AskOf(r) = x5[r].ask /\ x5[r].ask \in {Dir(k)!Idle.ask} \cup Dir(k)!AsksOf(x1)
      BY BusyAsk
    <3> QED
      BY <1>1, <3>1, StatementGoes, AskTyped
  <2>2. SUFFICES ASSUME Dir(k)!GeneratesIds(x1) PROVE \A j \in x10' : x2'[j] = Dir(k)!NoRow
    BY <2>1 DEF Dir!DeletedStaysDeleted, Dir!GeneratesIds, Dir!HasParent
  <2>3. (\A j \in x10 : x2[j] = Dir(k)!NoRow /\ j \in k.ids) /\ x2 \in [k.ids -> Dir(k)!Rows]
    BY <2>2 DEF Dir!DeletedStaysDeleted, Dir!TypeOK
  <2>4. CASE Dir(k)!Insert(r)
    <3>1. "insert" \in Dir(k)!Names(x5[r].do)
      BY <2>4, AtName DEF Dir!Insert
    <3>2. i \notin x10
      BY <2>1, <2>2, <3>1 DEF Dir!FreshIds, Dir!Inserts
    <3> QED
      BY <2>1, <2>3, <2>4, <3>2 DEF Dir!Insert
  <2>5. ~ Dir(k)!Replace(r)
    BY <2>2, AtName DEF Dir!Replace, Dir!FreshIds
  <2>6. CASE Dir(k)!Update(r)
    BY <2>1, <2>3, <2>6 DEF Dir!Update
  <2>7. CASE Dir(k)!Delete(r)
    BY <2>1, <2>3, <2>7 DEF Dir!Delete
  <2>8. CASE Dir(k)!Archive(r)
    BY <2>1, <2>3, <2>8 DEF Dir!Archive, Dir!Found
  <2>9. CASE Dir(k)!Select(r) \/ Dir(k)!SetKey(r) \/ Dir(k)!ClearModels(r) \/ Dir(k)!AddModel(r)
                 \/ Dir(k)!List(r) \/ Dir(k)!Fail(r)
    BY <2>3, <2>9 DEF Dir!Select, Dir!SetKey, Dir!ClearModels, Dir!AddModel, Dir!List, Dir!Fail
  <2> QED
    BY <1>1, <2>4, <2>5, <2>6, <2>7, <2>8, <2>9 DEF Statement
<1> QED
  BY <1>1, DirectorySteps DEF Dir!vars, Dir!Crash, Dir!Begin, Dir!DeletedStaysDeleted, Dir!GeneratesIds,
         Dir!HasParent

\* What a request reads is its own parent's.
LEMMA OwnStay ==
    ASSUME NEW k, Dir(k)!ConstantsOK, Dir(k)!TypeOK, Dir(k)!Orderly, Dir(k)!OwnRowsOnly,
           [Dir(k)!Next]_(Dir(k)!vars)
    PROVE  Dir(k)!OwnRowsOnly'
<1>1. CASE UNCHANGED Dir(k)!vars
  BY <1>1 DEF Dir!vars, Dir!OwnRowsOnly, Dir!AskOf
<1>2. CASE Dir(k)!Crash
  <2>1. \A r \in k.requests : x5'[r].read = {}
    BY <1>2, IdleRuns DEF Dir!Crash
  <2> QED
    BY <2>1 DEF Dir!OwnRowsOnly
<1>3. ASSUME NEW r \in k.requests, Statement(k, r) PROVE Dir(k)!OwnRowsOnly'
  <2>1. Goes(k, r)
    BY <1>3, StatementGoes
  <2>2. /\ \A q \in k.requests \ {r} : x5'[q] = x5[q]
        /\ \/ x5'[r] = Dir(k)!Idle
           \/ x5'[r].ask = x5[r].ask /\ (x5'[r].read = x5[r].read
                                         \/ /\ Dir(k)!At(r, "select") /\ Dir(k)!Found(x5[r].ask)
                                            /\ x5'[r].read = {x2[x5[r].ask.id]}
                                         \/ /\ Dir(k)!At(r, "list")
                                            /\ x5'[r].read = {Dir(k)!NoRow} \cup Dir(k)!Shown(x5[r].ask))
    BY <2>1, GoesOrdered
  <2>3. \A q \in k.requests : \A row \in x5[q].read \ {Dir(k)!NoRow} : row.parent = x5[q].ask.parent
    BY DEF Dir!OwnRowsOnly, Dir!AskOf
  <2>4. Dir(k)!Idle.read = {}
    BY IdleRuns
  <2>5. \A row \in x5'[r].read \ {Dir(k)!NoRow} : row.parent = x5'[r].ask.parent
    BY <2>2, <2>3, <2>4 DEF Dir!Found, Dir!Shown
  <2> QED
    BY <2>2, <2>3, <2>5 DEF Dir!OwnRowsOnly, Dir!AskOf
<1>4. ASSUME NEW r \in k.requests, NEW a \in Dir(k)!AsksOf(x1),
             Dir(k)!Begin(r, a) PROVE Dir(k)!OwnRowsOnly'
  <2>1. /\ x5'[r].read = {} /\ \A q \in k.requests \ {r} : x5'[q] = x5[q]
    BY <1>4 DEF Dir!Begin, Dir!TypeOK
  <2> QED
    BY <2>1 DEF Dir!OwnRowsOnly, Dir!AskOf
<1> QED
  BY <1>1, <1>2, <1>3, <1>4, DirectorySteps

-----------------------------------------------------------------------------
\* A row that a step is not about has its turn as before.
LEMMA TurnFrame ==
    ASSUME NEW k, NEW r \in k.requests, NEW i \in k.ids, Dir(k)!InTurnAt(i),
           \A q \in k.requests \ {r} : x5'[q] = x5[q],
           x5[r].do = <<>> \/ x5[r].ask.id # i \/ x5[r].ask.kind = "list",
           x5'[r].do = <<>> \/ x5'[r].ask.id # i \/ x5'[r].ask.kind = "list",
           x1' = x1, x2'[i] = x2[i], x3'[i] = x3[i], x4'[i] = x4[i], x8'[i] = x8[i],
           (i \in x10') <=> (i \in x10)
    PROVE  Dir(k)!InTurnAt(i)'
<1>1. Dir(k)!Writers(i)' = Dir(k)!Writers(i) /\ r \notin Dir(k)!Writers(i)
          /\ Dir(k)!Writers(i) \subseteq k.requests
  BY DEF Dir!Writers, Dir!AsksOfId, Dir!Busy, Dir!AskOf
<1>2. Dir(k)!AsAsked(i)' <=> Dir(k)!AsAsked(i)
  BY DEF Dir!AsAsked
<1>3. ASSUME NEW q \in Dir(k)!Writers(i) PROVE Dir(k)!Ahead(q)' <=> Dir(k)!Ahead(q)
  <2>1. x5'[q] = x5[q] /\ x5[q].ask.id = i
    BY <1>1, <1>3 DEF Dir!Writers, Dir!AsksOfId, Dir!AskOf
  <2> QED
    BY <1>2, <2>1 DEF Dir!Ahead, Dir!AskOf, Dir!Actual
<1> QED
  BY <1>1, <1>2, <1>3 DEF Dir!InTurnAt

\* The writer of a row, alone with it, ends with what was asked or goes on.
LEMMA OwnTurn ==
    ASSUME NEW k, NEW r \in k.requests, NEW i \in k.ids, \A q \in Dir(k)!Writers(i) : q = r,
           \A q \in k.requests \ {r} : x5'[q] = x5[q],
           \/ x5'[r].do = <<>> /\ Dir(k)!AsAsked(i)'
           \/ /\ x5'[r].do # <<>> /\ x5'[r].ask.id = i /\ x5'[r].ask.kind # "list"
              /\ Dir(k)!Ahead(r)'
    PROVE  Dir(k)!InTurnAt(i)'
<1>1. \A q \in Dir(k)!Writers(i)' : q = r
  BY DEF Dir!Writers, Dir!AsksOfId, Dir!Busy, Dir!AskOf
<1>2. x5'[r].do # <<>> /\ x5'[r].ask.id = i /\ x5'[r].ask.kind # "list" => r \in Dir(k)!Writers(i)'
  BY DEF Dir!Writers, Dir!AsksOfId, Dir!Busy, Dir!AskOf
<1>3. x5'[r].do = <<>> => r \notin Dir(k)!Writers(i)'
  BY DEF Dir!Writers, Dir!AsksOfId, Dir!Busy, Dir!AskOf
<1> QED
  BY <1>1, <1>2, <1>3 DEF Dir!InTurnAt

\* What is left of the list says what becomes of the row: when it proceeds to
\* it, the request ends with what was asked or goes on.
LEMMA ProceedTurn ==
    ASSUME NEW k, Dir(k)!ConstantsOK, Dir(k)!TypeOK, Dir(k)!Orderly, NEW r \in k.requests,
           Dir(k)!Busy(r), Dir(k)!Proceed(r),
           NEW i, i = x5[r].ask.id, x1' = x1,
           Dir(k)!Alike(Dir(k)!Outcome(x1, Tail(x5[r].do), x5[r].ask, [row |-> x2'[i], key |-> x3'[i],
           models |-> x4'[i]]),
                  Dir(k)!AfterAsk(x1, x5[r].ask, x8[i]), i \in x10'),
           Dir(k)!Names(Tail(x5[r].do)) \cap (Dir(k)!Deciding \cup {"update"}) = {}
    PROVE  /\ \A q \in k.requests \ {r} : x5'[q] = x5[q]
           /\ \A j \in k.ids \ {i} : x8'[j] = x8[j]
           /\ \/ x5'[r].do = <<>> /\ Dir(k)!AsAsked(i)'
              \/ /\ x5'[r].do # <<>> /\ x5'[r].ask = x5[r].ask
                 /\ Dir(k)!Ahead(r)'
<1> DEFINE t == Tail(x5[r].do)
           is == [row |-> x2'[i], key |-> x3'[i], models |-> x4'[i]]
           one == Dir(k)!Outcome(x1, t, x5[r].ask, is)
           other == Dir(k)!AfterAsk(x1, x5[r].ask, x8[i])
<1>1. /\ x5 \in [k.requests -> Runs(k)] /\ x5[r] \in Runs(k) /\ x8 \in [k.ids -> Dir(k)!Things]
      /\ i \in k.ids /\ x5[r].do # <<>> /\ x5[r].do \in Seq(Dir(k)!AStatement)
             /\ Dir(k)!InOrder(x5[r].do)
  <2>1. x5[r].ask \in {Dir(k)!Idle.ask} \cup Dir(k)!AsksOf(x1) /\ x5[r] \in Runs(k)
            /\ x5[r].do \in Seq(Dir(k)!AStatement)
    BY BusyAsk
  <2>2. x5[r].ask.id \in k.ids
    BY <2>1, AskTyped
  <2> QED
    BY <2>1, <2>2 DEF Dir!TypeOK, Runs, Dir!Orderly, Dir!Busy
<1>2. Len(x5[r].do) = 1 <=> t = <<>>
  BY <1>1, OfTail
<1>3. one.row = other.row /\ one.models = other.models /\ (i \in x10' \/ one.key = other.key)
  BY DEF Dir!Alike
<1>6. Dir(k)!Alike(one, other, i \in x10')
  OBVIOUS
<1> HIDE DEF t, other
<1>4. CASE Len(x5[r].do) = 1
  <2>1. Dir(k)!Names(t) = {} /\ Dir(k)!ModelsOf(t) = {}
    BY <1>2, <1>4, OfNone
  <2>2. one.row = x2'[i] /\ one.key = x3'[i] /\ one.models = x4'[i]
    BY <2>1 DEF Dir!Outcome
  <2> HIDE DEF one
  <2>3. x5'[r] = Dir(k)!Idle /\ \A q \in k.requests \ {r} : x5'[q] = x5[q]
    BY <1>1, <1>4 DEF Dir!Proceed
  <2>4. x8'[i] = other /\ \A j \in k.ids \ {i} : x8'[j] = x8[j]
    BY <1>1, <1>4 DEF Dir!Proceed, other
  <2>5. Dir(k)!AsAsked(i)'
    BY <1>3, <2>2, <2>4 DEF Dir!AsAsked
  <2> QED
    BY <2>3, <2>4, <2>5, IdleRuns
<1>5. CASE Len(x5[r].do) # 1
  <2>1. x8' = x8 /\ x5' = [x5 EXCEPT ![r] = Dir(k)!Later(x5[r])]
    BY <1>5 DEF Dir!Proceed
  <2>2. /\ x5'[r].do = t /\ x5'[r].ask = x5[r].ask /\ \A q \in k.requests \ {r} : x5'[q] = x5[q]
    BY <1>1, <2>1 DEF Dir!Later, Runs, t
  <2>3. Dir(k)!AfterAsk(x1, x5[r].ask, x8[i])' = other
    BY <2>1, <2>2 DEF other
  <2>4. Dir(k)!Outcome(x1, x5[r].do, x5[r].ask, Dir(k)!Actual(i))' = one
    BY <2>2 DEF Dir!Actual
  <2> HIDE DEF one
  <2>5. Dir(k)!Names(t) \cap Dir(k)!Deciding = {} /\ "update" \notin Dir(k)!Names(t)
    BY DEF t
  <2>6. Dir(k)!Ahead(r)'
    BY <1>6, <2>2, <2>3, <2>4, <2>5 DEF Dir!Ahead, Dir!AskOf
  <2> QED
    BY <1>2, <1>5, <2>1, <2>2, <2>6
<1> QED
  BY <1>4, <1>5

\* What a list makes of a row, its key and its models.
LEMMA OutcomeFields ==
    ASSUME NEW k, NEW do, NEW a, NEW row, NEW key, NEW models
    PROVE  LET o == Dir(k)!Outcome(x1, do, a, [row |-> row, key |-> key, models |-> models]) IN
           /\ o.row = CASE "replace" \in Dir(k)!Names(do) -> Dir(k)!New(a)
                        [] "update" \in Dir(k)!Names(do) -> Dir(k)!Merged(x1, row, a.give)
                        [] OTHER -> row
           /\ o.key = IF "key" \in Dir(k)!Names(do) THEN a.extra.key ELSE key
           /\ o.models = (IF "clear" \in Dir(k)!Names(do) THEN {} ELSE models) \cup Dir(k)!ModelsOf(do)
BY DEF Dir!Outcome

LEMMA RankFacts ==
    ASSUME NEW k
    PROVE  /\ \A n \in Dir(k)!Deciding \cup {"list"} : Dir(k)!Rank(n) = 0
           /\ Dir(k)!Rank("update") = 1 /\ Dir(k)!Rank("replace") = 1 /\ Dir(k)!Rank("key") = 2
           /\ Dir(k)!Rank("clear") = 3 /\ Dir(k)!Rank("model") = 4
BY DEF Dir!Rank, Dir!Deciding

\* A request with a statement to do, other than a listing, writes its row.
LEMMA WriterFacts ==
    ASSUME NEW k, Dir(k)!ConstantsOK, Dir(k)!TypeOK, Dir(k)!Orderly, NEW r \in k.requests, NEW name,
           Dir(k)!At(r, name),
           name # "list"
    PROVE  /\ r \in Dir(k)!Writers(x5[r].ask.id) /\ x5[r].ask.id \in k.ids
               /\ x5[r].ask \in Dir(k)!AsksOf(x1)
           /\ x5[r].ask.kind # "list" /\ x1 \in Dir(k)!Tables /\ Dir(k)!AskOf(r) = x5[r].ask
<1>1. name \in Dir(k)!Names(x5[r].do) /\ x5[r].do # <<>>
  BY AtName
<1>2. Dir(k)!AskOf(r) = x5[r].ask /\ x5[r].ask \in {Dir(k)!Idle.ask} \cup Dir(k)!AsksOf(x1)
  BY BusyAsk
<1>3. x5[r].ask.kind # "list"
  BY <1>1 DEF Dir!Orderly, Dir!AskOf
<1>4. x5[r].ask.id \in k.ids
  BY <1>2, AskTyped
<1>5. x5[r].ask \in Dir(k)!AsksOf(x1)
  BY <1>2, <1>3, BusyAsk
<1> QED
  BY <1>1, <1>2, <1>3, <1>4, <1>5 DEF Dir!Writers, Dir!AsksOfId, Dir!Busy, Dir!TypeOK

\* A request that still has to decide has done nothing yet, ...
LEMMA Undecided ==
    ASSUME NEW k, Dir(k)!ConstantsOK, Dir(k)!TypeOK, Dir(k)!Orderly, Dir(k)!InTurn,
           NEW r \in k.requests,
           NEW name \in Dir(k)!Deciding, Dir(k)!At(r, name), x5[r].ask.id \notin x9
    PROVE  /\ x5[r].do = Dir(k)!Statements(x1, x5[r].ask) /\ Dir(k)!AsAsked(x5[r].ask.id)
           /\ name # "list" /\ Dir(k)!Names(Tail(x5[r].do)) \cap Dir(k)!Deciding = {}
           /\ name \notin Dir(k)!Names(Tail(x5[r].do))
           /\ Dir(k)!Names(x5[r].do) = Dir(k)!Names(Tail(x5[r].do)) \cup {name}
           /\ Dir(k)!ModelsOf(Tail(x5[r].do)) = Dir(k)!ModelsOf(x5[r].do)
<1>1. name # "list" /\ name # "model"
  BY DEF Dir!Deciding
<1>2. r \in Dir(k)!Writers(x5[r].ask.id) /\ x5[r].ask.id \in k.ids /\ Dir(k)!AskOf(r) = x5[r].ask
  BY <1>1, WriterFacts
<1>3. /\ name \in Dir(k)!Names(x5[r].do) /\ x5[r].do # <<>> /\ Head(x5[r].do)[1] = name
      /\ x5[r].do \in Seq(Dir(k)!AStatement) /\ Dir(k)!InOrder(x5[r].do)
  BY AtName
<1>4. /\ \A n \in Dir(k)!Names(Tail(x5[r].do)) : Dir(k)!Rank(name) < Dir(k)!Rank(n)
             \/ (name = "model" /\ n = "model")
      /\ Dir(k)!Names(x5[r].do) = Dir(k)!Names(Tail(x5[r].do)) \cup {name}
      /\ name # "model" => Dir(k)!ModelsOf(Tail(x5[r].do)) = Dir(k)!ModelsOf(x5[r].do)
  BY <1>3, OfTail
<1>5. \A n \in Dir(k)!Names(Tail(x5[r].do)) : n \notin Dir(k)!Deciding
  BY <1>1, <1>4, RankFacts
<1>6. Dir(k)!InTurnAt(x5[r].ask.id)
  BY <1>2 DEF Dir!InTurn
<1>7. Dir(k)!Ahead(r) /\ Dir(k)!Names(x5[r].do) \cap Dir(k)!Deciding # {}
  BY <1>2, <1>3, <1>6 DEF Dir!InTurnAt
<1>8. x5[r].do = Dir(k)!Statements(x1, x5[r].ask) /\ Dir(k)!AsAsked(x5[r].ask.id)
  BY <1>2, <1>7 DEF Dir!Ahead
<1> QED
  BY <1>1, <1>4, <1>5, <1>8

\* ... and one that has decided foresees what it was asked for.
LEMMA Decided ==
    ASSUME NEW k, Dir(k)!ConstantsOK, Dir(k)!TypeOK, Dir(k)!Orderly, Dir(k)!InTurn,
           NEW r \in k.requests,
           NEW name \in {"update", "replace", "key", "clear", "model"}, Dir(k)!At(r, name),
           x5[r].ask.id \notin x9
    PROVE  LET i == x5[r].ask.id IN
           /\ Dir(k)!Alike(Dir(k)!Outcome(x1, x5[r].do, x5[r].ask, Dir(k)!Actual(i)), Dir(k)!AfterAsk(x1,
                  x5[r].ask, x8[i]), i \in x10)
           /\ name = "update" => x5[r].read = {x2[i]} /\ x2[i] # Dir(k)!NoRow
           /\ Dir(k)!Names(Tail(x5[r].do)) \cap (Dir(k)!Deciding \cup {"update", "replace"}) = {}
           /\ \A n \in Dir(k)!Names(Tail(x5[r].do)) : Dir(k)!Rank(name) < Dir(k)!Rank(n)
                  \/ (name = "model" /\ n = "model")
           /\ Dir(k)!Names(x5[r].do) = Dir(k)!Names(Tail(x5[r].do)) \cup {name}
           /\ name # "model" => Dir(k)!ModelsOf(Tail(x5[r].do)) = Dir(k)!ModelsOf(x5[r].do)
           /\ name = "model" =>
                  Dir(k)!ModelsOf(x5[r].do) = Dir(k)!ModelsOf(Tail(x5[r].do)) \cup {Head(x5[r].do)[2]}
<1>2. r \in Dir(k)!Writers(x5[r].ask.id) /\ x5[r].ask.id \in k.ids /\ Dir(k)!AskOf(r) = x5[r].ask
  BY WriterFacts
<1>3. /\ name \in Dir(k)!Names(x5[r].do) /\ x5[r].do # <<>> /\ Head(x5[r].do)[1] = name
      /\ x5[r].do \in Seq(Dir(k)!AStatement) /\ Dir(k)!InOrder(x5[r].do)
  BY AtName
<1>4. /\ \A n \in Dir(k)!Names(Tail(x5[r].do)) : Dir(k)!Rank(name) < Dir(k)!Rank(n)
             \/ (name = "model" /\ n = "model")
      /\ Dir(k)!Names(x5[r].do) = Dir(k)!Names(Tail(x5[r].do)) \cup {name}
      /\ name # "model" => Dir(k)!ModelsOf(Tail(x5[r].do)) = Dir(k)!ModelsOf(x5[r].do)
      /\ name = "model"
             => Dir(k)!ModelsOf(x5[r].do) = Dir(k)!ModelsOf(Tail(x5[r].do)) \cup {Head(x5[r].do)[2]}
  BY <1>3, OfTail
<1>5. Dir(k)!Rank(name) \in 1 .. 4
  BY RankFacts
<1>6. \A n \in Dir(k)!Names(Tail(x5[r].do)) : n \notin Dir(k)!Deciding \cup {"update", "replace"}
  <2>1. \A n \in Dir(k)!Deciding \cup {"update", "replace"} : Dir(k)!Rank(n) \in 0 .. 1 /\ n # "model"
    BY RankFacts DEF Dir!Deciding
  <2> QED
    BY <1>4, <1>5, <2>1
<1>7. name \notin Dir(k)!Deciding
  BY DEF Dir!Deciding
<1>8. Dir(k)!InTurnAt(x5[r].ask.id)
  BY <1>2 DEF Dir!InTurn
<1>9. Dir(k)!Ahead(r) /\ Dir(k)!Names(x5[r].do) \cap Dir(k)!Deciding = {}
  BY <1>2, <1>4, <1>6, <1>7, <1>8 DEF Dir!InTurnAt
<1>10. /\ Dir(k)!Alike(Dir(k)!Outcome(x1, x5[r].do, x5[r].ask, Dir(k)!Actual(x5[r].ask.id)),
                 Dir(k)!AfterAsk(x1, x5[r].ask, x8[x5[r].ask.id]), x5[r].ask.id \in x10)
       /\ "update" \in Dir(k)!Names(x5[r].do) =>
              x5[r].read = {x2[x5[r].ask.id]} /\ x2[x5[r].ask.id] # Dir(k)!NoRow
  BY <1>2, <1>9 DEF Dir!Ahead
<1> QED
  BY <1>3, <1>4, <1>6, <1>10

\* Which requests begin with which statement.
LEMMA HeadKinds ==
    ASSUME NEW k, Dir(k)!ConstantsOK, NEW t \in Dir(k)!Tables, NEW a \in Dir(k)!AsksOf(t)
    PROVE  LET name == Head(Dir(k)!Statements(t, a))[1] IN
           /\ name = "insert" => a.kind = "create"
           /\ name = "select" => a.kind = "update"
           /\ name = "delete" => a.kind = "delete" /\ t # "combo"
           /\ name = "archive" => a.kind = "delete" /\ t = "combo"
<1> DEFINE name == Head(Dir(k)!Statements(t, a))[1]
<1>1. a.kind \in {"create", "update", "delete", "list", "seed", "seedModels", "sync"}
  BY AskFacts
<1>2. a.kind = "create" => name = "insert"
  BY StatementFacts
<1>3. a.kind = "update" => name = "select"
  BY StatementFacts
<1>4. a.kind = "delete" => name = IF t = "combo" THEN "archive" ELSE "delete"
  BY StatementFacts
<1>5. a.kind \in {"seed", "sync"} => name = "replace"
  BY StatementFacts
<1>6. a.kind = "seedModels" => name = "clear"
  BY StatementFacts
<1>7. a.kind = "list" => name = "list"
  BY StatementFacts
<1> QED
  BY <1>1, <1>2, <1>3, <1>4, <1>5, <1>6, <1>7

\* What an update runs.
LEMMA UpdateList ==
    ASSUME NEW k, Dir(k)!ConstantsOK, NEW t \in Dir(k)!Tables, NEW a \in Dir(k)!AsksOf(t),
           a.kind = "update"
    PROVE  /\ Dir(k)!Names(Dir(k)!Statements(t, a)) \subseteq {"select", "update", "key", "clear",
               "model"}
           /\ "update" \in Dir(k)!Names(Dir(k)!Statements(t, a))
           /\ "key" \in Dir(k)!Names(Dir(k)!Statements(t, a)) <=> a.extra.key # Dir(k)!Absent
           /\ "clear" \in Dir(k)!Names(Dir(k)!Statements(t, a)) <=> a.extra.models # Dir(k)!NoModels
           /\ Dir(k)!ModelsOf(Dir(k)!Statements(t,
                  a)) = IF a.extra.models # Dir(k)!NoModels THEN a.extra.models ELSE {}
<1> DEFINE do == Dir(k)!Statements(t, a)
           listed == a.extra.models # Dir(k)!NoModels
<1> HIDE DEF do
<1>1. /\ Dir(k)!Names(do) \subseteq {"select", "update", "key", "clear", "model"}
      /\ "update" \in Dir(k)!Names(do)
      /\ "key" \in Dir(k)!Names(do) <=> a.extra.key # Dir(k)!Absent
  BY StatementFacts DEF do
<1>2. "clear" \in Dir(k)!Names(do) <=> listed
  BY StatementFacts DEF do
<1>3. Dir(k)!ModelsOf(do) = IF listed THEN a.extra.models ELSE {}
  BY StatementFacts DEF do
<1> QED
  BY <1>1, <1>2, <1>3 DEF do

\* What a deletion runs.
LEMMA DeleteList ==
    ASSUME NEW k, Dir(k)!ConstantsOK, NEW t \in Dir(k)!Tables, NEW a \in Dir(k)!AsksOf(t),
           a.kind = "delete"
    PROVE  LET do == Dir(k)!Statements(t, a) IN
           /\ Dir(k)!Names(do) = IF t = "channel" THEN {"delete", "clear"} ELSE {Head(do)[1]}
           /\ Dir(k)!ModelsOf(do) = {}
<1> DEFINE do == Dir(k)!Statements(t, a)
<1> HIDE DEF do
<1>1. Head(do)[1] = IF t = "combo" THEN "archive" ELSE "delete"
  BY StatementFacts DEF do
<1>2. t = "channel" => Dir(k)!Names(do) = {"delete", "clear"}
  BY StatementFacts DEF do
<1>3. t # "channel" => Dir(k)!Names(do) = {Head(do)[1]}
  BY StatementFacts DEF do
<1>4. Dir(k)!ModelsOf(do) = {}
  BY StatementFacts DEF do
<1> QED
  BY <1>1, <1>2, <1>3, <1>4 DEF do

\* What a creation runs.
LEMMA CreateList ==
    ASSUME NEW k, Dir(k)!ConstantsOK, NEW t \in Dir(k)!Tables, NEW a \in Dir(k)!AsksOf(t),
           a.kind = "create"
    PROVE  LET do == Dir(k)!Statements(t, a) IN
           /\ Dir(k)!Names(do) \subseteq {"insert", "key", "model"}
           /\ "key" \in Dir(k)!Names(do) <=> a.extra.key # Dir(k)!Absent
           /\ Dir(k)!ModelsOf(do) = IF a.extra.models # Dir(k)!NoModels THEN a.extra.models ELSE {}
<1> DEFINE do == Dir(k)!Statements(t, a)
           listed == a.extra.models # Dir(k)!NoModels
<1> HIDE DEF do
<1>1. Dir(k)!Names(do) \subseteq {"insert", "key", "model"}
          /\ ("key" \in Dir(k)!Names(do) <=> a.extra.key # Dir(k)!Absent)
  BY StatementFacts DEF do
<1>2. Dir(k)!ModelsOf(do) = IF listed THEN a.extra.models ELSE {}
  BY StatementFacts DEF do
<1> QED
  BY <1>1, <1>2 DEF do

\* What a step of a row's only writer makes of the row.
Turned(k, r, i) ==
    /\ \A q \in k.requests \ {r} : x5'[q] = x5[q]
    /\ \/ x5'[r].do = <<>> /\ Dir(k)!AsAsked(i)'
       \/ /\ x5'[r].do # <<>> /\ x5'[r].ask = x5[r].ask
          /\ Dir(k)!Ahead(r)'

\* A request that is refused leaves the row as it was asked to be.
LEMMA RefuseTurn ==
    ASSUME NEW k, Dir(k)!TypeOK, NEW r \in k.requests, Dir(k)!Refuse(r), NEW i, Dir(k)!AsAsked(i),
           x2'[i] = x2[i], x3'[i] = x3[i], x4'[i] = x4[i], x10' = x10
    PROVE  Turned(k, r, i)
<1>1. /\ x5'[r] = Dir(k)!Idle /\ x8' = x8
      /\ \A q \in k.requests \ {r} : x5'[q] = x5[q]
  BY DEF Dir!Refuse, Dir!TypeOK
<1>2. Dir(k)!AsAsked(i)'
  BY <1>1 DEF Dir!AsAsked
<1> QED
  BY <1>1, <1>2, IdleRuns DEF Turned

LEMMA InsertTurn ==
    ASSUME NEW k, Dir(k)!ConstantsOK, Dir(k)!TypeOK, Dir(k)!Orderly, Dir(k)!InTurn,
           NEW r \in k.requests, Dir(k)!Insert(r),
           NEW i \in k.ids, i = x5[r].ask.id, i \notin x9
    PROVE  Turned(k, r, i)
<1> DEFINE a == x5[r].ask
           t == Tail(x5[r].do)
           told == IF a.extra.models = Dir(k)!NoModels THEN x8[i].models ELSE a.extra.models
           given == IF a.extra.key = Dir(k)!Absent THEN x8[i].key ELSE a.extra.key
<1>1. Dir(k)!At(r, "insert") /\ "insert" \in Dir(k)!Deciding
  BY DEF Dir!Insert, Dir!Deciding
<1>2. /\ x5[r].do = Dir(k)!Statements(x1, a) /\ Dir(k)!AsAsked(i)
             /\ Dir(k)!Names(t) \cap Dir(k)!Deciding = {}
      /\ "insert" \notin Dir(k)!Names(t) /\ Dir(k)!Names(x5[r].do) = Dir(k)!Names(t) \cup {"insert"}
      /\ Dir(k)!ModelsOf(t) = Dir(k)!ModelsOf(x5[r].do)
  BY <1>1, Undecided
<1>3. a \in Dir(k)!AsksOf(x1) /\ x1 \in Dir(k)!Tables /\ Dir(k)!AskOf(r) = a
  BY <1>1, WriterFacts
<1>4. Head(x5[r].do)[1] = "insert" /\ Dir(k)!Busy(r)
  BY <1>1, AtName
<1>5. a.kind = "create"
  BY <1>2, <1>3, <1>4, HeadKinds
<1>6. /\ Dir(k)!Names(x5[r].do) \subseteq {"insert", "key", "model"}
      /\ "key" \in Dir(k)!Names(x5[r].do) <=> a.extra.key # Dir(k)!Absent
      /\ Dir(k)!ModelsOf(x5[r].do) = IF a.extra.models # Dir(k)!NoModels THEN a.extra.models ELSE {}
  <2>1. /\ Dir(k)!Names(Dir(k)!Statements(x1, a)) \subseteq {"insert", "key", "model"}
        /\ "key" \in Dir(k)!Names(Dir(k)!Statements(x1, a)) <=> a.extra.key # Dir(k)!Absent
        /\ Dir(k)!ModelsOf(Dir(k)!Statements(x1,
               a)) = IF a.extra.models # Dir(k)!NoModels THEN a.extra.models ELSE {}
    BY <1>3, <1>5, CreateList
  <2>2. x5[r].do = Dir(k)!Statements(x1, a)
    BY <1>2
  <2> QED
    BY <2>1, <2>2
<1>7. /\ Dir(k)!Names(t) \cap {"replace", "update", "clear"} = {}
      /\ "key" \in Dir(k)!Names(t) <=> a.extra.key # Dir(k)!Absent
      /\ Dir(k)!ModelsOf(t) = IF a.extra.models # Dir(k)!NoModels THEN a.extra.models ELSE {}
  BY <1>2, <1>6
<1>8. x2[i] = x8[i].row /\ x4[i] = x8[i].models /\ (i \in x10 \/ x3[i] = x8[i].key)
  BY <1>2 DEF Dir!AsAsked
<1>9. UNCHANGED <<x1, x3, x4, x10>>
  BY DEF Dir!Insert
<1> HIDE DEF a, t
<1>10. CASE x2[i] = Dir(k)!NoRow
  <2> DEFINE o == Dir(k)!Outcome(x1, t, a, [row |-> x2'[i], key |-> x3'[i], models |-> x4'[i]])
             after == Dir(k)!AfterAsk(x1, a, x8[i])
  <2>1. Dir(k)!Proceed(r) /\ x2' = [x2 EXCEPT ![i] = Dir(k)!New(a)] /\ x2 \in [k.ids -> Dir(k)!Rows]
    BY <1>3, <1>10 DEF Dir!Insert, Dir!TypeOK, a
  <2>2. x2'[i] = Dir(k)!New(a)
    BY <2>1
  <2>3. o.row = Dir(k)!New(a) /\ o.models = x4[i] \cup Dir(k)!ModelsOf(t)
        /\ o.key = IF a.extra.key = Dir(k)!Absent THEN x3[i] ELSE a.extra.key
    BY <1>7, <1>9, <2>2, OutcomeFields
  <2>4. after = [row |-> Dir(k)!New(a), key |-> given, models |-> x8[i].models \cup told]
    BY <1>5, <1>8, <1>10 DEF Dir!AfterAsk
  <2>5. after.row = Dir(k)!New(a) /\ after.key = given /\ after.models = x8[i].models \cup told
    BY SMTT(40), <2>4
  <2> HIDE DEF o, after
  <2>6. o.models = after.models
    BY <1>7, <1>8, <2>3, <2>5
  <2>7. Dir(k)!Alike(o, after, i \in x10')
    <3>1. o.row = after.row
      BY SMTT(40), <2>3, <2>5
    <3>2. i \in x10' \/ o.key = after.key
      BY <1>8, <1>9, <2>3, <2>5
    <3> QED
      BY <2>6, <3>1, <3>2 DEF Dir!Alike
  <2>8. Dir(k)!Names(t) \cap (Dir(k)!Deciding \cup {"update"}) = {}
    BY <1>2, <1>7
  <2>9. x1' = x1
    BY <1>9
  <2> QED
    BY <1>4, <2>1, <2>7, <2>8, <2>9, ProceedTurn DEF Turned, o, after, a, t
<1>11. CASE x2[i] # Dir(k)!NoRow
  <2>1. Dir(k)!Refuse(r) /\ x2' = x2
    BY <1>3, <1>11 DEF Dir!Insert, a
  <2> QED
    BY <1>2, <1>9, <2>1, RefuseTurn
<1> QED
  BY <1>10, <1>11

LEMMA SelectTurn ==
    ASSUME NEW k, Dir(k)!ConstantsOK, Dir(k)!TypeOK, Dir(k)!Orderly, Dir(k)!InTurn,
           NEW r \in k.requests, Dir(k)!Select(r),
           NEW i \in k.ids, i = x5[r].ask.id, i \notin x9
    PROVE  Turned(k, r, i)
<1> DEFINE a == x5[r].ask
           t == Tail(x5[r].do)
           told == IF a.extra.models = Dir(k)!NoModels THEN x8[i].models ELSE a.extra.models
           given == IF a.extra.key = Dir(k)!Absent THEN x8[i].key ELSE a.extra.key
<1>1. Dir(k)!At(r, "select") /\ "select" \in Dir(k)!Deciding
  BY DEF Dir!Select, Dir!Deciding
<1>2. /\ x5[r].do = Dir(k)!Statements(x1, a) /\ Dir(k)!AsAsked(i)
             /\ Dir(k)!Names(t) \cap Dir(k)!Deciding = {}
      /\ "select" \notin Dir(k)!Names(t) /\ Dir(k)!Names(x5[r].do) = Dir(k)!Names(t) \cup {"select"}
      /\ Dir(k)!ModelsOf(t) = Dir(k)!ModelsOf(x5[r].do)
  BY <1>1, Undecided
<1>3. a \in Dir(k)!AsksOf(x1) /\ x1 \in Dir(k)!Tables /\ Dir(k)!AskOf(r) = a
  BY <1>1, WriterFacts
<1>4. Head(x5[r].do)[1] = "select" /\ Dir(k)!Busy(r)
  BY <1>1, AtName
<1>5. a.kind = "update"
  BY <1>2, <1>3, <1>4, HeadKinds
<1>6. /\ Dir(k)!Names(x5[r].do) \subseteq {"select", "update", "key", "clear", "model"}
      /\ "update" \in Dir(k)!Names(x5[r].do)
      /\ "key" \in Dir(k)!Names(x5[r].do) <=> a.extra.key # Dir(k)!Absent
      /\ "clear" \in Dir(k)!Names(x5[r].do) <=> a.extra.models # Dir(k)!NoModels
      /\ Dir(k)!ModelsOf(x5[r].do) = IF a.extra.models # Dir(k)!NoModels THEN a.extra.models ELSE {}
  <2>1. /\ Dir(k)!Names(Dir(k)!Statements(x1, a)) \subseteq {"select", "update", "key", "clear",
               "model"}
        /\ "update" \in Dir(k)!Names(Dir(k)!Statements(x1, a))
        /\ "key" \in Dir(k)!Names(Dir(k)!Statements(x1, a)) <=> a.extra.key # Dir(k)!Absent
        /\ "clear" \in Dir(k)!Names(Dir(k)!Statements(x1, a)) <=> a.extra.models # Dir(k)!NoModels
        /\ Dir(k)!ModelsOf(Dir(k)!Statements(x1,
               a)) = IF a.extra.models # Dir(k)!NoModels THEN a.extra.models ELSE {}
    BY <1>3, <1>5, UpdateList
  <2>2. x5[r].do = Dir(k)!Statements(x1, a)
    BY <1>2
  <2> QED
    BY <2>1, <2>2
<1>7. /\ "replace" \notin Dir(k)!Names(t) /\ "update" \in Dir(k)!Names(t)
      /\ "key" \in Dir(k)!Names(t) <=> a.extra.key # Dir(k)!Absent
      /\ "clear" \in Dir(k)!Names(t) <=> a.extra.models # Dir(k)!NoModels
      /\ Dir(k)!ModelsOf(t) = IF a.extra.models # Dir(k)!NoModels THEN a.extra.models ELSE {}
  BY <1>2, <1>6
<1>8. x2[i] = x8[i].row /\ x4[i] = x8[i].models /\ (i \in x10 \/ x3[i] = x8[i].key)
  BY <1>2 DEF Dir!AsAsked
<1>9. UNCHANGED <<x1, x2, x3, x4, x10>>
  BY DEF Dir!Select
<1> HIDE DEF a, t
<1>10. CASE Dir(k)!Found(a)
  <2> DEFINE o == Dir(k)!Outcome(x1, t, a, [row |-> x2[i], key |-> x3[i], models |-> x4[i]])
             after == Dir(k)!AfterAsk(x1, a, x8[i])
  <2>1. x2[i] # Dir(k)!NoRow /\ x2[i].parent = a.parent
    BY <1>10 DEF Dir!Found, a
  <2>2. /\ x5'[r].do = t /\ x5'[r].ask = a /\ x5'[r].read = {x2[i]} /\ x8' = x8
        /\ \A q \in k.requests \ {r} : x5'[q] = x5[q]
    <3>1. /\ x5' = [x5 EXCEPT ![r] = [x5[r] EXCEPT !.do = Tail(x5[r].do), !.read = {x2[i]}]]
          /\ x8' = x8
      BY <1>3, <1>10 DEF Dir!Select, Dir!TypeOK, a
    <3>2. x5 \in [k.requests -> Runs(k)] /\ x5[r] \in Runs(k)
      BY DEF Dir!TypeOK, Runs
    <3>3. x5'[r] = [x5[r] EXCEPT !.do = Tail(x5[r].do), !.read = {x2[i]}]
      BY <3>1, <3>2
    <3>4. x5'[r].do = t /\ x5'[r].ask = a /\ x5'[r].read = {x2[i]}
      BY <3>2, <3>3 DEF Runs, a, t
    <3> QED
      BY <3>1, <3>2, <3>4
  <2>3. /\ o.row = Dir(k)!Merged(x1, x2[i], a.give)
        /\ o.models = (IF a.extra.models # Dir(k)!NoModels THEN {} ELSE x4[i]) \cup Dir(k)!ModelsOf(t)
        /\ o.key = IF a.extra.key = Dir(k)!Absent THEN x3[i] ELSE a.extra.key
    BY <1>7, OutcomeFields
  <2>4. after = [row |-> Dir(k)!Merged(x1, x2[i], a.give), key |-> given, models |-> told]
    BY <1>5, <1>8, <2>1 DEF Dir!AfterAsk
  <2>5. after.row = Dir(k)!Merged(x1, x2[i], a.give) /\ after.key = given /\ after.models = told
    BY SMTT(40), <2>4
  <2> HIDE DEF o, after
  <2>6. o.models = after.models
    BY <1>7, <1>8, <2>3, <2>5
  <2>7. Dir(k)!Alike(o, after, i \in x10)
    <3>1. o.row = after.row
      BY <2>3, <2>5
    <3>2. i \in x10 \/ o.key = after.key
      BY <1>8, <2>3, <2>5
    <3> QED
      BY <2>6, <3>1, <3>2 DEF Dir!Alike
  <2>8. Dir(k)!Ahead(r)'
    <3>1. Dir(k)!Outcome(x1, x5[r].do, x5[r].ask, Dir(k)!Actual(i))' = o
      BY <1>9, <2>2 DEF o, Dir!Actual
    <3>2. Dir(k)!AfterAsk(x1, x5[r].ask, x8[i])' = after
      BY <1>9, <2>2 DEF after
    <3>3. x5'[r].ask.id = i
      BY <2>2 DEF a
    <3>4. x10' = x10 /\ x2' = x2
      BY <1>9
    <3>5. (Dir(k)!Names(x5[r].do) \cap Dir(k)!Deciding = {})'
      BY <1>2, <2>2
    <3> QED
      BY <2>1, <2>2, <2>7, <3>1, <3>2, <3>3, <3>4, <3>5 DEF Dir!Ahead, Dir!AskOf
  <2>9. t # <<>>
    BY <1>7, OfNone
  <2> QED
    BY <2>2, <2>8, <2>9 DEF Turned, a
<1>11. CASE ~ Dir(k)!Found(a)
  <2>1. Dir(k)!Refuse(r)
    BY <1>3, <1>11 DEF Dir!Select
  <2> QED
    BY <1>2, <1>9, <2>1, RefuseTurn
<1> QED
  BY <1>10, <1>11

LEMMA DeleteTurn ==
    ASSUME NEW k, Dir(k)!ConstantsOK, Dir(k)!TypeOK, Dir(k)!Orderly, Dir(k)!InTurn,
           NEW r \in k.requests, Dir(k)!Delete(r),
           NEW i \in k.ids, i = x5[r].ask.id, i \notin x9
    PROVE  Turned(k, r, i)
<1> DEFINE a == x5[r].ask
           t == Tail(x5[r].do)
<1>1. Dir(k)!At(r, "delete") /\ "delete" \in Dir(k)!Deciding
  BY DEF Dir!Delete, Dir!Deciding
<1>2. /\ x5[r].do = Dir(k)!Statements(x1, a) /\ Dir(k)!AsAsked(i)
             /\ Dir(k)!Names(t) \cap Dir(k)!Deciding = {}
      /\ "delete" \notin Dir(k)!Names(t) /\ Dir(k)!Names(x5[r].do) = Dir(k)!Names(t) \cup {"delete"}
      /\ Dir(k)!ModelsOf(t) = Dir(k)!ModelsOf(x5[r].do)
  BY <1>1, Undecided
<1>3. a \in Dir(k)!AsksOf(x1) /\ x1 \in Dir(k)!Tables /\ Dir(k)!AskOf(r) = a
  BY <1>1, WriterFacts
<1>4. Head(x5[r].do)[1] = "delete" /\ Dir(k)!Busy(r)
  BY <1>1, AtName
<1>5. a.kind = "delete" /\ x1 # "combo"
  BY <1>2, <1>3, <1>4, HeadKinds
<1>6. /\ Dir(k)!Names(x5[r].do) = IF x1 = "channel" THEN {"delete", "clear"} ELSE {"delete"}
      /\ Dir(k)!ModelsOf(x5[r].do) = {}
  <2>1. /\ Dir(k)!Names(Dir(k)!Statements(x1, a)) = IF x1 = "channel" THEN {"delete",
               "clear"} ELSE {"delete"}
        /\ Dir(k)!ModelsOf(Dir(k)!Statements(x1, a)) = {}
    <3> DEFINE do == Dir(k)!Statements(x1, a)
    <3>1. Head(do)[1] = "delete"
      BY <1>2, <1>4
    <3>2. a.kind = "delete"
      BY <1>5
    <3>3. /\ Dir(k)!Names(do) = IF x1 = "channel" THEN {"delete", "clear"} ELSE {Head(do)[1]}
          /\ Dir(k)!ModelsOf(do) = {}
      BY <1>3, <3>2, DeleteList
    <3> QED
      BY <3>1, <3>3 DEF do
  <2>2. x5[r].do = Dir(k)!Statements(x1, a)
    BY <1>2
  <2> QED
    BY <2>1, <2>2
<1>7. Dir(k)!Names(t) = (IF x1 = "channel" THEN {"clear"} ELSE {}) /\ Dir(k)!ModelsOf(t) = {}
  BY <1>2, <1>6
<1>8. x2[i] = x8[i].row /\ x4[i] = x8[i].models
  BY <1>2 DEF Dir!AsAsked
<1>9. UNCHANGED <<x1, x3, x4>> /\ (x1 # "channel" => x4[i] = {})
  BY DEF Dir!Delete, Dir!Orderly
<1> HIDE DEF a, t
<1>10. CASE Dir(k)!Found(a)
  <2> DEFINE o == Dir(k)!Outcome(x1, t, a, [row |-> x2'[i], key |-> x3'[i], models |-> x4'[i]])
             after == Dir(k)!AfterAsk(x1, a, x8[i])
  <2>1. Dir(k)!Proceed(r) /\ x2'[i] = Dir(k)!NoRow /\ i \in x10'
    BY <1>3, <1>10 DEF Dir!Delete, Dir!TypeOK, a
  <2>2. o.row = Dir(k)!NoRow /\ o.models = {}
    BY <1>7, <1>9, <2>1, OutcomeFields
  <2>3. after = [row |-> Dir(k)!NoRow, key |-> Dir(k)!Absent, models |-> {}]
    <3>1. x8[i].row # Dir(k)!NoRow /\ x8[i].row.parent = a.parent
      BY <1>8, <1>10 DEF Dir!Found, a
    <3> QED
      BY <1>5, <3>1 DEF Dir!AfterAsk
  <2>4. after.row = Dir(k)!NoRow /\ after.models = {}
    BY <2>3
  <2> HIDE DEF o, after
  <2>5. Dir(k)!Alike(o, after, i \in x10')
    BY <2>1, <2>2, <2>4 DEF Dir!Alike
  <2>6. Dir(k)!Names(t) \cap (Dir(k)!Deciding \cup {"update"}) = {} /\ x1' = x1
    BY <1>2, <1>7, <1>9
  <2> QED
    BY <1>4, <2>1, <2>5, <2>6, ProceedTurn DEF Turned, o, after, a, t
<1>11. CASE ~ Dir(k)!Found(a)
  <2>1. Dir(k)!Refuse(r) /\ x2' = x2 /\ x10' = x10
    BY <1>3, <1>11 DEF Dir!Delete
  <2> QED
    BY <1>2, <1>9, <2>1, RefuseTurn
<1> QED
  BY <1>10, <1>11

LEMMA ArchiveTurn ==
    ASSUME NEW k, Dir(k)!ConstantsOK, Dir(k)!TypeOK, Dir(k)!Orderly, Dir(k)!InTurn,
           NEW r \in k.requests, Dir(k)!Archive(r),
           NEW i \in k.ids, i = x5[r].ask.id, i \notin x9
    PROVE  Turned(k, r, i)
<1> DEFINE a == x5[r].ask
           t == Tail(x5[r].do)
<1>1. Dir(k)!At(r, "archive") /\ "archive" \in Dir(k)!Deciding
  BY DEF Dir!Archive, Dir!Deciding
<1>2. /\ x5[r].do = Dir(k)!Statements(x1, a) /\ Dir(k)!AsAsked(i)
             /\ Dir(k)!Names(t) \cap Dir(k)!Deciding = {}
      /\ "archive" \notin Dir(k)!Names(t) /\ Dir(k)!Names(x5[r].do) = Dir(k)!Names(t) \cup {"archive"}
      /\ Dir(k)!ModelsOf(t) = Dir(k)!ModelsOf(x5[r].do)
  BY <1>1, Undecided
<1>3. a \in Dir(k)!AsksOf(x1) /\ x1 \in Dir(k)!Tables /\ Dir(k)!AskOf(r) = a
  BY <1>1, WriterFacts
<1>4. Head(x5[r].do)[1] = "archive" /\ Dir(k)!Busy(r)
  BY <1>1, AtName
<1>5. a.kind = "delete" /\ x1 = "combo"
  BY <1>2, <1>3, <1>4, HeadKinds
<1>6. Dir(k)!Names(x5[r].do) = {"archive"} /\ Dir(k)!ModelsOf(x5[r].do) = {}
  <2>1. /\ Dir(k)!Names(Dir(k)!Statements(x1, a)) = IF x1 = "channel" THEN {"delete",
               "clear"} ELSE {"archive"}
        /\ Dir(k)!ModelsOf(Dir(k)!Statements(x1, a)) = {}
    <3> DEFINE do == Dir(k)!Statements(x1, a)
    <3>1. Head(do)[1] = "archive"
      BY <1>2, <1>4
    <3>2. a.kind = "delete"
      BY <1>5
    <3>3. /\ Dir(k)!Names(do) = IF x1 = "channel" THEN {"delete", "clear"} ELSE {Head(do)[1]}
          /\ Dir(k)!ModelsOf(do) = {}
      BY <1>3, <3>2, DeleteList
    <3> QED
      BY <3>1, <3>3 DEF do
  <2>2. x5[r].do = Dir(k)!Statements(x1, a)
    BY <1>2
  <2> QED
    BY <1>5, <2>1, <2>2
<1>7. Dir(k)!Names(t) = {} /\ Dir(k)!ModelsOf(t) = {}
  BY <1>2, <1>6
<1>8. x2[i] = x8[i].row /\ x4[i] = x8[i].models /\ (i \in x10 \/ x3[i] = x8[i].key)
  BY <1>2 DEF Dir!AsAsked
<1>9. UNCHANGED <<x1, x3, x4, x10>>
  BY DEF Dir!Archive
<1> HIDE DEF a, t
<1>10. CASE Dir(k)!Found(a)
  <2> DEFINE o == Dir(k)!Outcome(x1, t, a, [row |-> x2'[i], key |-> x3'[i], models |-> x4'[i]])
             after == Dir(k)!AfterAsk(x1, a, x8[i])
             row == [x2[i] EXCEPT !.y = Dir(k)!Archived]
  <2>1. Dir(k)!Proceed(r) /\ x2'[i] = row
    BY <1>3, <1>10 DEF Dir!Archive, Dir!TypeOK, a
  <2> HIDE DEF row
  <2>2. o.row = row /\ o.models = x4[i] /\ o.key = x3[i]
    <3>1. o = Dir(k)!Outcome(x1, t, a, [row |-> row, key |-> x3[i], models |-> x4[i]])
      BY <1>9, <2>1
    <3> HIDE DEF o
    <3>2. \A name \in {"replace", "update", "key", "clear"} : name \notin Dir(k)!Names(t)
      BY <1>7
    <3>3. o.row = row
      BY <3>1, <3>2, OutcomeFields
    <3>4. o.key = x3[i]
      BY <3>1, <3>2, OutcomeFields
    <3>5. o.models = x4[i] \cup Dir(k)!ModelsOf(t)
      BY <3>1, <3>2, OutcomeFields
    <3> QED
      BY <1>7, <3>3, <3>4, <3>5
  <2>3. after = [x8[i] EXCEPT !.row = [x8[i].row EXCEPT !.y = Dir(k)!Archived]]
    <3>1. x8[i].row # Dir(k)!NoRow /\ x8[i].row.parent = a.parent
      BY <1>8, <1>10 DEF Dir!Found, a
    <3>2. a.kind = "delete" /\ x1 = "combo"
      BY <1>5
    <3>3. [x8[i] EXCEPT !.row.y = Dir(k)!Archived] = [x8[i] EXCEPT !.row = [x8[i].row EXCEPT !.y = Dir(k)!Archived]]
      OBVIOUS
    <3>4. after = [x8[i] EXCEPT !.row.y = Dir(k)!Archived]
      <4> DEFINE was == x8[i]
                 mine == was.row # Dir(k)!NoRow /\ was.row.parent = a.parent
                 told == IF a.extra.models = Dir(k)!NoModels THEN was.models ELSE a.extra.models
                 key == IF a.extra.key = Dir(k)!Absent THEN was.key ELSE a.extra.key
                 A == [row |-> Dir(k)!New(a), key |-> key, models |-> was.models \cup told]
                 B == [row |-> Dir(k)!Merged(x1, was.row, a.give), key |-> key, models |-> told]
                 C == [was EXCEPT !.row.y = Dir(k)!Archived]
                 D == [row |-> Dir(k)!NoRow, key |-> Dir(k)!Absent, models |-> {}]
                 E == [was EXCEPT !.row = Dir(k)!New(a)]
                 F == [was EXCEPT !.models = told]
      <4>1. after =
                CASE a.kind = "create" /\ was.row = Dir(k)!NoRow -> A
                  [] a.kind = "update" /\ mine -> B
                  [] a.kind = "delete" /\ mine /\ x1 = "combo" -> C
                  [] a.kind = "delete" /\ mine /\ x1 # "combo" -> D
                  [] a.kind \in {"seed", "sync"} -> E
                  [] a.kind = "seedModels" -> F
                  [] OTHER -> was
        BY DEF Dir!AfterAsk, after
      <4> HIDE DEF A, B, C, D, E, F, after
      <4>2. after = C
        BY <3>1, <3>2, <4>1
      <4> QED
        BY <4>2 DEF C
    <3> HIDE DEF after
    <3> QED
      BY <3>3, <3>4
  <2>4. after.row = row /\ after.models = x8[i].models /\ after.key = x8[i].key
    <3>1. x8[i] \in Dir(k)!Things
      BY DEF Dir!TypeOK
    <3> QED
      BY <1>8, <2>3, <3>1 DEF Dir!Things, row
  <2> HIDE DEF o, after
  <2>5. Dir(k)!Alike(o, after, i \in x10')
    BY <1>8, <1>9, <2>2, <2>4 DEF Dir!Alike
  <2>6. Dir(k)!Names(t) \cap (Dir(k)!Deciding \cup {"update"}) = {} /\ x1' = x1
    BY <1>7, <1>9
  <2> QED
    BY <1>4, <2>1, <2>5, <2>6, ProceedTurn DEF Turned, o, after, a, t
<1>11. CASE ~ Dir(k)!Found(a)
  <2>1. Dir(k)!Refuse(r) /\ x2' = x2
    BY <1>3, <1>11 DEF Dir!Archive
  <2> QED
    BY <1>2, <1>9, <2>1, RefuseTurn
<1> QED
  BY <1>10, <1>11

\* A request that has decided goes on: its next statement is done, the rest of
\* its list makes the same of the row.
LEMMA SameTurn ==
    ASSUME NEW k, Dir(k)!ConstantsOK, Dir(k)!TypeOK, Dir(k)!Orderly, Dir(k)!InTurn,
           NEW r \in k.requests,
           NEW name \in {"update", "replace", "key", "clear", "model"}, Dir(k)!At(r, name),
           NEW i \in k.ids, i = x5[r].ask.id, i \notin x9, Dir(k)!Proceed(r), x1' = x1, x10' = x10,
           Dir(k)!Outcome(x1, Tail(x5[r].do), x5[r].ask, [row |-> x2'[i], key |-> x3'[i],
           models |-> x4'[i]])
               = Dir(k)!Outcome(x1, x5[r].do, x5[r].ask, [row |-> x2[i], key |-> x3[i],
                   models |-> x4[i]])
    PROVE  Turned(k, r, i)
<1> DEFINE t == Tail(x5[r].do)
           o == Dir(k)!Outcome(x1, t, x5[r].ask, [row |-> x2'[i], key |-> x3'[i], models |-> x4'[i]])
           after == Dir(k)!AfterAsk(x1, x5[r].ask, x8[i])
<1>1. /\ Dir(k)!Alike(Dir(k)!Outcome(x1, x5[r].do, x5[r].ask, Dir(k)!Actual(i)), after, i \in x10)
      /\ Dir(k)!Names(t) \cap (Dir(k)!Deciding \cup {"update", "replace"}) = {}
  <2> HIDE DEF o, after, t
  <2>1. x5[r].ask.id \notin x9
    OBVIOUS
  <2>2. /\ Dir(k)!Alike(Dir(k)!Outcome(x1, x5[r].do, x5[r].ask, Dir(k)!Actual(x5[r].ask.id)),
                  Dir(k)!AfterAsk(x1, x5[r].ask, x8[x5[r].ask.id]), x5[r].ask.id \in x10)
        /\ Dir(k)!Names(Tail(x5[r].do)) \cap (Dir(k)!Deciding \cup {"update", "replace"}) = {}
    <3> DEFINE id == x5[r].ask.id
               alike == Dir(k)!Alike(Dir(k)!Outcome(x1, x5[r].do, x5[r].ask, Dir(k)!Actual(id)),
                               Dir(k)!AfterAsk(x1, x5[r].ask, x8[id]), id \in x10)
               left == Dir(k)!Names(Tail(x5[r].do)) \cap (Dir(k)!Deciding \cup {"update",
                   "replace"}) = {}
    <3>1. alike /\ left
      BY <2>1, Decided, ZenonT(60)
    <3> QED
      BY <3>1
  <2> QED
    BY <2>2 DEF after, t
<1>2. Dir(k)!Outcome(x1, x5[r].do, x5[r].ask, Dir(k)!Actual(i)) = o
  BY DEF Dir!Actual
<1> HIDE DEF o, after, t
<1>3. Dir(k)!Alike(o, after, i \in x10')
  BY <1>1, <1>2
<1>4. Dir(k)!Names(t) \cap (Dir(k)!Deciding \cup {"update"}) = {}
  BY <1>1
<1>5. Dir(k)!Busy(r)
  BY AtName
<1> QED
  BY <1>3, <1>4, <1>5, ProceedTurn DEF Turned, o, after, t

LEMMA SameOutcome ==
    ASSUME NEW k, NEW do, NEW t, NEW a, NEW row, NEW key, NEW models, NEW row2, NEW key2, NEW models2,
           row2 = CASE "replace" \in Dir(k)!Names(do) -> Dir(k)!New(a)
                    [] "update" \in Dir(k)!Names(do) -> Dir(k)!Merged(x1, row, a.give)
                    [] OTHER -> row,
           "replace" \notin Dir(k)!Names(t), "update" \notin Dir(k)!Names(t),
           (IF "key" \in Dir(k)!Names(t) THEN a.extra.key ELSE key2)
               = (IF "key" \in Dir(k)!Names(do) THEN a.extra.key ELSE key),
           (IF "clear" \in Dir(k)!Names(t) THEN {} ELSE models2) \cup Dir(k)!ModelsOf(t)
               = (IF "clear" \in Dir(k)!Names(do) THEN {} ELSE models) \cup Dir(k)!ModelsOf(do)
    PROVE  Dir(k)!Outcome(x1, t, a, [row |-> row2, key |-> key2, models |-> models2])
               = Dir(k)!Outcome(x1, do, a, [row |-> row, key |-> key, models |-> models])
BY DEF Dir!Outcome

LEMMA UpdateTurn ==
    ASSUME NEW k, Dir(k)!ConstantsOK, Dir(k)!TypeOK, Dir(k)!Orderly, Dir(k)!InTurn,
           NEW r \in k.requests, Dir(k)!Update(r),
           NEW i \in k.ids, i = x5[r].ask.id, i \notin x9
    PROVE  Turned(k, r, i)
<1> DEFINE do == x5[r].do
           a == x5[r].ask
           t == Tail(do)
<1>1. Dir(k)!At(r, "update") /\ Dir(k)!Proceed(r) /\ UNCHANGED <<x1, x3, x4, x10>>
  BY DEF Dir!Update
<1>2. /\ x5[r].read = {x2[i]} /\ x2[i] # Dir(k)!NoRow
      /\ Dir(k)!Names(t) \cap (Dir(k)!Deciding \cup {"update", "replace"}) = {}
      /\ Dir(k)!Names(do) = Dir(k)!Names(t) \cup {"update"} /\ Dir(k)!ModelsOf(t) = Dir(k)!ModelsOf(do)
  BY <1>1, Decided
<1>3. Dir(k)!AskOf(r) = a
  BY <1>1, WriterFacts
<1> HIDE DEF do, a, t
<1>4. x2'[i] = Dir(k)!Merged(x1, x2[i], a.give)
  <2>1. PICK old \in x5[r].read :
            x2' = IF x2[i] = Dir(k)!NoRow THEN x2 ELSE [x2 EXCEPT ![i] = Dir(k)!Merged(x1, old, a.give)]
    BY <1>3 DEF Dir!Update, a
  <2>2. old = x2[i] /\ x2 \in [k.ids -> Dir(k)!Rows]
    BY <1>2, <2>1 DEF Dir!TypeOK
  <2> QED
    BY <1>2, <2>1, <2>2
<1>5. /\ "replace" \notin Dir(k)!Names(do) /\ "update" \in Dir(k)!Names(do)
      /\ "replace" \notin Dir(k)!Names(t) /\ "update" \notin Dir(k)!Names(t)
      /\ "key" \in Dir(k)!Names(t) <=> "key" \in Dir(k)!Names(do)
      /\ "clear" \in Dir(k)!Names(t) <=> "clear" \in Dir(k)!Names(do)
  BY <1>2
<1>6. Dir(k)!Outcome(x1, t, a, [row |-> x2'[i], key |-> x3'[i], models |-> x4'[i]])
          = Dir(k)!Outcome(x1, do, a, [row |-> x2[i], key |-> x3[i], models |-> x4[i]])
  BY <1>1, <1>2, <1>4, <1>5, SameOutcome
<1> QED
  BY <1>1, <1>6, SameTurn DEF do, a, t

LEMMA ReplaceTurn ==
    ASSUME NEW k, Dir(k)!ConstantsOK, Dir(k)!TypeOK, Dir(k)!Orderly, Dir(k)!InTurn,
           NEW r \in k.requests, Dir(k)!Replace(r),
           NEW i \in k.ids, i = x5[r].ask.id, i \notin x9
    PROVE  Turned(k, r, i)
<1> DEFINE do == x5[r].do
           a == x5[r].ask
           t == Tail(do)
<1>1. Dir(k)!At(r, "replace") /\ Dir(k)!Proceed(r) /\ UNCHANGED <<x1, x3, x4, x10>>
  BY DEF Dir!Replace
<1>2. /\ Dir(k)!Names(t) \cap (Dir(k)!Deciding \cup {"update", "replace"}) = {}
      /\ Dir(k)!Names(do) = Dir(k)!Names(t) \cup {"replace"} /\ Dir(k)!ModelsOf(t) = Dir(k)!ModelsOf(do)
  BY <1>1, Decided
<1>3. Dir(k)!AskOf(r) = a
  BY <1>1, WriterFacts
<1> HIDE DEF do, a, t
<1>4. x2'[i] = Dir(k)!New(a)
  BY <1>3 DEF Dir!Replace, Dir!TypeOK, a
<1>5. /\ "replace" \in Dir(k)!Names(do) /\ "update" \notin Dir(k)!Names(do)
      /\ "replace" \notin Dir(k)!Names(t) /\ "update" \notin Dir(k)!Names(t)
      /\ "key" \in Dir(k)!Names(t) <=> "key" \in Dir(k)!Names(do)
      /\ "clear" \in Dir(k)!Names(t) <=> "clear" \in Dir(k)!Names(do)
  BY <1>2
<1>6. Dir(k)!Outcome(x1, t, a, [row |-> x2'[i], key |-> x3'[i], models |-> x4'[i]])
          = Dir(k)!Outcome(x1, do, a, [row |-> x2[i], key |-> x3[i], models |-> x4[i]])
  BY <1>1, <1>2, <1>4, <1>5, SameOutcome
<1> QED
  BY <1>1, <1>6, SameTurn DEF do, a, t

LEMMA SetKeyTurn ==
    ASSUME NEW k, Dir(k)!ConstantsOK, Dir(k)!TypeOK, Dir(k)!Orderly, Dir(k)!InTurn,
           NEW r \in k.requests, Dir(k)!SetKey(r),
           NEW i \in k.ids, i = x5[r].ask.id, i \notin x9
    PROVE  Turned(k, r, i)
<1> DEFINE do == x5[r].do
           a == x5[r].ask
           t == Tail(do)
<1>1. Dir(k)!At(r, "key") /\ Dir(k)!Proceed(r) /\ UNCHANGED <<x1, x2, x4, x10>>
  BY DEF Dir!SetKey
<1>2. /\ Dir(k)!Names(t) \cap (Dir(k)!Deciding \cup {"update", "replace"}) = {}
      /\ \A n \in Dir(k)!Names(t) : Dir(k)!Rank("key") < Dir(k)!Rank(n)
      /\ Dir(k)!Names(do) = Dir(k)!Names(t) \cup {"key"} /\ Dir(k)!ModelsOf(t) = Dir(k)!ModelsOf(do)
  BY <1>1, Decided
<1>3. Dir(k)!AskOf(r) = a
  BY <1>1, WriterFacts
<1> HIDE DEF do, a, t
<1>4. x3'[i] = a.extra.key
  BY <1>3 DEF Dir!SetKey, Dir!TypeOK, a
<1>5. /\ "replace" \notin Dir(k)!Names(do) /\ "update" \notin Dir(k)!Names(do)
             /\ "key" \in Dir(k)!Names(do)
      /\ "replace" \notin Dir(k)!Names(t) /\ "update" \notin Dir(k)!Names(t)
      /\ "clear" \in Dir(k)!Names(t) <=> "clear" \in Dir(k)!Names(do)
  BY <1>2
<1>6. "key" \notin Dir(k)!Names(t)
  BY <1>2, RankFacts
<1>7. Dir(k)!Outcome(x1, t, a, [row |-> x2'[i], key |-> x3'[i], models |-> x4'[i]])
          = Dir(k)!Outcome(x1, do, a, [row |-> x2[i], key |-> x3[i], models |-> x4[i]])
  BY <1>1, <1>2, <1>4, <1>5, <1>6, SameOutcome
<1> QED
  BY <1>1, <1>7, SameTurn DEF do, a, t

LEMMA ClearModelsTurn ==
    ASSUME NEW k, Dir(k)!ConstantsOK, Dir(k)!TypeOK, Dir(k)!Orderly, Dir(k)!InTurn,
           NEW r \in k.requests, Dir(k)!ClearModels(r),
           NEW i \in k.ids, i = x5[r].ask.id, i \notin x9
    PROVE  Turned(k, r, i)
<1> DEFINE do == x5[r].do
           a == x5[r].ask
           t == Tail(do)
<1>1. Dir(k)!At(r, "clear") /\ Dir(k)!Proceed(r) /\ UNCHANGED <<x1, x2, x3, x10>>
  BY DEF Dir!ClearModels
<1>2. /\ Dir(k)!Names(t) \cap (Dir(k)!Deciding \cup {"update", "replace"}) = {}
      /\ \A n \in Dir(k)!Names(t) : Dir(k)!Rank("clear") < Dir(k)!Rank(n)
      /\ Dir(k)!Names(do) = Dir(k)!Names(t) \cup {"clear"} /\ Dir(k)!ModelsOf(t) = Dir(k)!ModelsOf(do)
  BY <1>1, Decided
<1>3. Dir(k)!AskOf(r) = a
  BY <1>1, WriterFacts
<1> HIDE DEF do, a, t
<1>4. x4'[i] = {}
  BY <1>3 DEF Dir!ClearModels, Dir!TypeOK, a
<1>5. /\ "replace" \notin Dir(k)!Names(do) /\ "update" \notin Dir(k)!Names(do)
             /\ "clear" \in Dir(k)!Names(do)
      /\ "replace" \notin Dir(k)!Names(t) /\ "update" \notin Dir(k)!Names(t)
      /\ "key" \in Dir(k)!Names(t) <=> "key" \in Dir(k)!Names(do)
  BY <1>2
<1>6. "clear" \notin Dir(k)!Names(t)
  BY <1>2, RankFacts
<1>7. Dir(k)!Outcome(x1, t, a, [row |-> x2'[i], key |-> x3'[i], models |-> x4'[i]])
          = Dir(k)!Outcome(x1, do, a, [row |-> x2[i], key |-> x3[i], models |-> x4[i]])
  BY <1>1, <1>2, <1>4, <1>5, <1>6, SameOutcome
<1> QED
  BY <1>1, <1>7, SameTurn DEF do, a, t

LEMMA AddModelTurn ==
    ASSUME NEW k, Dir(k)!ConstantsOK, Dir(k)!TypeOK, Dir(k)!Orderly, Dir(k)!InTurn,
           NEW r \in k.requests, Dir(k)!AddModel(r),
           NEW i \in k.ids, i = x5[r].ask.id, i \notin x9
    PROVE  Turned(k, r, i)
<1> DEFINE do == x5[r].do
           a == x5[r].ask
           t == Tail(do)
           m == Head(do)[2]
<1>1. Dir(k)!At(r, "model") /\ Dir(k)!Proceed(r) /\ UNCHANGED <<x1, x2, x3, x10>>
  BY DEF Dir!AddModel
<1>2. /\ Dir(k)!Names(t) \cap (Dir(k)!Deciding \cup {"update", "replace"}) = {}
      /\ \A n \in Dir(k)!Names(t) : Dir(k)!Rank("model") < Dir(k)!Rank(n) \/ n = "model"
      /\ Dir(k)!Names(do) = Dir(k)!Names(t) \cup {"model"}
             /\ Dir(k)!ModelsOf(do) = Dir(k)!ModelsOf(t) \cup {m}
  BY <1>1, Decided
<1>3. Dir(k)!AskOf(r) = a
  BY <1>1, WriterFacts
<1>4. x4'[i] = x4[i] \cup {m}
  BY <1>3 DEF Dir!AddModel, Dir!TypeOK
<1> HIDE DEF do, a, t, m
<1>5. /\ "replace" \notin Dir(k)!Names(do) /\ "update" \notin Dir(k)!Names(do)
      /\ "replace" \notin Dir(k)!Names(t) /\ "update" \notin Dir(k)!Names(t)
      /\ "key" \in Dir(k)!Names(t) <=> "key" \in Dir(k)!Names(do)
  BY <1>2
<1>6. "clear" \notin Dir(k)!Names(t) /\ "clear" \notin Dir(k)!Names(do)
  BY <1>2, RankFacts
<1>7. (IF "clear" \in Dir(k)!Names(t) THEN {} ELSE x4'[i]) \cup Dir(k)!ModelsOf(t)
          = (IF "clear" \in Dir(k)!Names(do) THEN {} ELSE x4[i]) \cup Dir(k)!ModelsOf(do)
  BY <1>2, <1>4, <1>6
<1>8. Dir(k)!Outcome(x1, t, a, [row |-> x2'[i], key |-> x3'[i], models |-> x4'[i]])
          = Dir(k)!Outcome(x1, do, a, [row |-> x2[i], key |-> x3[i], models |-> x4[i]])
  BY <1>1, <1>5, <1>7, SameOutcome
<1> QED
  BY <1>1, <1>8, SameTurn DEF do, a, t

\* A statement leaves other rows alone.
LEMMA StatementFrame ==
    ASSUME NEW k, Dir(k)!ConstantsOK, Dir(k)!TypeOK, NEW r \in k.requests, Statement(k, r),
           NEW i \in k.ids, i = x5[r].ask.id
    PROVE  /\ \A j \in k.ids \ {i} : /\ x2'[j] = x2[j] /\ x3'[j] = x3[j] /\ x4'[j] = x4[j]
                                     /\ x8'[j] = x8[j] /\ (j \in x10' <=> j \in x10)
           /\ x9 \subseteq x9' /\ (Dir(k)!Fail(r) => i \in x9')
           /\ Dir(k)!List(r) => UNCHANGED <<x2, x3, x4, x8, x10>>
<1>1. /\ x2 \in [k.ids -> Dir(k)!Rows] /\ x3 \in [k.ids -> {Dir(k)!Absent, "k1"}]
      /\ x4 \in [k.ids -> SUBSET k.models] /\ x8 \in [k.ids -> Dir(k)!Things]
  BY DEF Dir!TypeOK
<1>2. Dir(k)!AskOf(r) = x5[r].ask
  BY BusyAsk
<1>3. \A j \in k.ids \ {i} : x8'[j] = x8[j]
  <2>1. x8' \in {x8, [x8 EXCEPT ![Dir(k)!AskOf(r).id] = Dir(k)!AfterAsk(x1, Dir(k)!AskOf(r),
            x8[Dir(k)!AskOf(r).id])]}
    BY StatementGoes
  <2> QED
    BY <1>1, <1>2, <2>1
<1>4. x9 \subseteq x9' /\ (Dir(k)!Fail(r) => i \in x9')
  BY ZenonT(60), <1>2 DEF Statement, Dir!Insert, Dir!Select, Dir!Update, Dir!Delete, Dir!Archive, Dir!Replace,
         Dir!SetKey,
     Dir!ClearModels, Dir!AddModel, Dir!List, Dir!Fail
<1>5. \A j \in k.ids \ {i} : j \in x10' <=> j \in x10
  BY <1>2 DEF Statement, Dir!Insert, Dir!Select, Dir!Update, Dir!Delete, Dir!Archive, Dir!Replace,
         Dir!SetKey,
     Dir!ClearModels, Dir!AddModel, Dir!List, Dir!Fail
<1>6. \A j \in k.ids \ {i} : x2'[j] = x2[j]
  <2>1. CASE Dir(k)!Insert(r) \/ Dir(k)!Delete(r) \/ Dir(k)!Archive(r) \/ Dir(k)!Replace(r)
    BY <1>1, <1>2, <2>1 DEF Dir!Insert, Dir!Delete, Dir!Archive, Dir!Replace
  <2>2. CASE Dir(k)!Update(r)
    BY <1>1, <1>2, <2>2 DEF Dir!Update
  <2>3. CASE Dir(k)!Select(r) \/ Dir(k)!SetKey(r) \/ Dir(k)!ClearModels(r) \/ Dir(k)!AddModel(r)
                 \/ Dir(k)!List(r) \/ Dir(k)!Fail(r)
    BY <2>3 DEF Dir!Select, Dir!SetKey, Dir!ClearModels, Dir!AddModel, Dir!List, Dir!Fail
  <2> QED
    BY <2>1, <2>2, <2>3 DEF Statement
<1>7. \A j \in k.ids \ {i} : x3'[j] = x3[j]
  <2>1. CASE Dir(k)!SetKey(r)
    BY <1>1, <1>2, <2>1 DEF Dir!SetKey
  <2>2. CASE ~ Dir(k)!SetKey(r)
    BY <2>2 DEF Statement, Dir!Insert, Dir!Select, Dir!Update, Dir!Delete, Dir!Archive, Dir!Replace,
       Dir!ClearModels, Dir!AddModel, Dir!List, Dir!Fail
  <2> QED
    BY <2>1, <2>2
<1>8. \A j \in k.ids \ {i} : x4'[j] = x4[j]
  <2>1. CASE Dir(k)!ClearModels(r) \/ Dir(k)!AddModel(r)
    BY <1>1, <1>2, <2>1 DEF Dir!ClearModels, Dir!AddModel
  <2>2. CASE ~ (Dir(k)!ClearModels(r) \/ Dir(k)!AddModel(r))
    BY <2>2 DEF Statement, Dir!Insert, Dir!Select, Dir!Update, Dir!Delete, Dir!Archive, Dir!Replace,
       Dir!SetKey, Dir!List, Dir!Fail
  <2> QED
    BY <2>1, <2>2
<1>9. Dir(k)!List(r) => UNCHANGED <<x2, x3, x4, x8, x10>>
  BY DEF Dir!List
<1> QED
  BY <1>3, <1>4, <1>5, <1>6, <1>7, <1>8, <1>9

\* A statement of the row's only writer.
LEMMA StatementTurn ==
    ASSUME NEW k, Dir(k)!ConstantsOK, Dir(k)!TypeOK, Dir(k)!Orderly, Dir(k)!InTurn,
           NEW r \in k.requests, Statement(k, r),
           NEW i \in k.ids, i = x5[r].ask.id, i \notin x9, ~ Dir(k)!List(r), ~ Dir(k)!Fail(r)
    PROVE  Dir(k)!InTurnAt(i)'
<1>1. PICK name \in {"insert", "select", "update", "delete", "archive", "replace", "key", "clear",
          "model"} :
          Dir(k)!At(r, name)
  BY DEF Statement, Dir!Insert, Dir!Select, Dir!Update, Dir!Delete, Dir!Archive, Dir!Replace,
         Dir!SetKey,
     Dir!ClearModels, Dir!AddModel
<1>2. Turned(k, r, i)
  BY InsertTurn, SelectTurn, UpdateTurn, DeleteTurn, ArchiveTurn, ReplaceTurn, SetKeyTurn,
     ClearModelsTurn, AddModelTurn DEF Statement
<1>3. r \in Dir(k)!Writers(i) /\ x5[r].ask.kind # "list"
  BY <1>1, WriterFacts
<1>4. Dir(k)!InTurnAt(i)
  BY DEF Dir!InTurn
<1>5. \A q \in Dir(k)!Writers(i) : q = r
  BY <1>3, <1>4 DEF Dir!InTurnAt
<1>6. \/ x5'[r].do = <<>> /\ Dir(k)!AsAsked(i)'
      \/ /\ x5'[r].do # <<>> /\ x5'[r].ask.id = i /\ x5'[r].ask.kind # "list"
         /\ Dir(k)!Ahead(r)'
  BY <1>2, <1>3 DEF Turned
<1>7. \A q \in k.requests \ {r} : x5'[q] = x5[q]
  BY <1>2 DEF Turned
<1> QED
  BY <1>5, <1>6, <1>7, OwnTurn

\* A request that begins alone with its row foresees what it is asked for.
LEMMA BeginTurn ==
    ASSUME NEW k, Dir(k)!ConstantsOK, Dir(k)!TypeOK, Dir(k)!InTurn, NEW r \in k.requests,
           NEW a \in Dir(k)!AsksOf(x1),
           Dir(k)!Begin(r, a), NEW i \in k.ids, i = a.id, i \notin x9', a.kind # "list"
    PROVE  Dir(k)!InTurnAt(i)'
<1> DEFINE do == Dir(k)!Statements(x1, a)
           was == x8[i]
           told == IF a.extra.models = Dir(k)!NoModels THEN was.models ELSE a.extra.models
<1>1. /\ x5'[r] = [do |-> do, ask |-> a, read |-> {}]
      /\ \A q \in k.requests \ {r} : x5'[q] = x5[q]
      /\ UNCHANGED <<x1, x2, x3, x4, x8, x10>> /\ Dir(k)!AsksOfId(i) = {} /\ i \notin x9
  BY DEF Dir!Begin, Dir!TypeOK
<1>2. Dir(k)!Writers(i) = {} /\ Dir(k)!AsAsked(i)
  <2>1. Dir(k)!Writers(i) = {}
    BY <1>1 DEF Dir!Writers
  <2>2. Dir(k)!InTurnAt(i)
    BY <1>1 DEF Dir!InTurn
  <2> QED
    BY <2>1, <2>2 DEF Dir!InTurnAt
<1>3. x2[i] = was.row /\ x4[i] = was.models /\ (i \in x10 \/ x3[i] = was.key) /\ was \in Dir(k)!Things
  BY <1>2 DEF Dir!AsAsked, Dir!TypeOK
<1>4. x1 \in Dir(k)!Tables /\ do # <<>> /\ do \in Seq(Dir(k)!AStatement) /\ Dir(k)!InOrder(do)
  <2>1. x1 \in Dir(k)!Tables
    BY DEF Dir!TypeOK
  <2> QED
    BY <2>1, StatementFacts
<1>5. /\ a.kind \in {"create", "update", "delete", "seed", "seedModels", "sync"}
      /\ a.kind = "seedModels" => a.extra.models # Dir(k)!NoModels /\ a.extra.key = Dir(k)!Absent
  BY <1>4, AskFacts
<1>6. Dir(k)!AsAsked(i)'
  BY <1>1, <1>2 DEF Dir!AsAsked
<1>7. Dir(k)!Ahead(r)'
  <2>1. CASE a.kind \in {"create", "update", "delete"}
    <3>1. a.kind = "create" => Head(do)[1] = "insert"
      BY <1>4, StatementFacts
    <3>2. a.kind = "update" => Head(do)[1] = "select"
      BY <1>4, StatementFacts
    <3>3. a.kind = "delete" => Head(do)[1] = IF x1 = "combo" THEN "archive" ELSE "delete"
      BY <1>4, StatementFacts
    <3>4. Head(do)[1] \in Dir(k)!Deciding
      BY <2>1, <3>1, <3>2, <3>3 DEF Dir!Deciding
    <3>5. Head(do)[1] \in Dir(k)!Names(do)
      BY <1>4, OfTail
    <3>6. Dir(k)!Names(do) \cap Dir(k)!Deciding # {}
      BY <3>4, <3>5
    <3> HIDE DEF do
    <3>7. x5'[r].do = do /\ x5'[r].ask = a /\ x5'[r].ask.id = i
      BY <1>1
    <3>8. do = Dir(k)!Statements(x1', a)
      BY <1>1 DEF do
    <3> QED
      BY <1>6, <3>6, <3>7, <3>8 DEF Dir!Ahead, Dir!AskOf
  <2>2. CASE a.kind \in {"seed", "seedModels", "sync"}
    <3> DEFINE o == Dir(k)!Outcome(x1, do, a, [row |-> x2[i], key |-> x3[i], models |-> x4[i]])
               after == Dir(k)!AfterAsk(x1, a, x8[i])
    <3>1. Dir(k)!Names(do) \cap (Dir(k)!Deciding \cup {"update"}) = {}
              /\ Dir(k)!Alike(o, after, i \in x10)
      <4>1. CASE a.kind \in {"seed", "sync"}
        <5>1. Dir(k)!Names(do) = {"replace"} /\ Dir(k)!ModelsOf(do) = {}
          BY <1>4, <4>1, StatementFacts
        <5>2. o.row = Dir(k)!New(a) /\ o.key = x3[i] /\ o.models = x4[i]
          <6>1. "replace" \in Dir(k)!Names(do) /\ "key" \notin Dir(k)!Names(do)
                    /\ "clear" \notin Dir(k)!Names(do)
            BY <5>1
          <6> HIDE DEF do, o
          <6>2. o.row = Dir(k)!New(a) /\ o.key = x3[i]
            <7>1. "update" \notin Dir(k)!Names(do)
              BY <5>1
            <7> QED
              BY <6>1, <7>1, OutcomeFields DEF o
          <6>3. o.models = x4[i] \cup Dir(k)!ModelsOf(do)
            BY <6>1, OutcomeFields DEF o
          <6> QED
            BY <5>1, <6>2, <6>3
        <5>3. after = [was EXCEPT !.row = Dir(k)!New(a)]
          BY <4>1 DEF Dir!AfterAsk
        <5>4. after.row = Dir(k)!New(a) /\ after.key = was.key /\ after.models = was.models
          <6> HIDE DEF after
          <6> QED
            BY <1>3, <5>3 DEF Dir!Things
        <5>5. Dir(k)!Names(do) \cap (Dir(k)!Deciding \cup {"update"}) = {}
          BY <5>1 DEF Dir!Deciding
        <5> HIDE DEF o, after
        <5> QED
          BY <1>3, <5>2, <5>4, <5>5 DEF Dir!Alike
      <4>2. CASE a.kind = "seedModels"
        <5>1. Dir(k)!Names(do) \subseteq {"clear", "model"} /\ "clear" \in Dir(k)!Names(do)
                  /\ Dir(k)!ModelsOf(do) = a.extra.models
          BY <1>4, <4>2, StatementFacts
        <5>2. o.row = x2[i] /\ o.key = x3[i] /\ o.models = a.extra.models
          <6>1. /\ "replace" \notin Dir(k)!Names(do) /\ "update" \notin Dir(k)!Names(do)
                /\ "key" \notin Dir(k)!Names(do) /\ "clear" \in Dir(k)!Names(do)
            BY <5>1
          <6> HIDE DEF do, o
          <6>2. o.row = x2[i] /\ o.key = x3[i]
            BY <6>1, OutcomeFields DEF o
          <6>3. o.models = (IF "clear" \in Dir(k)!Names(do) THEN {} ELSE x4[i]) \cup Dir(k)!ModelsOf(do)
            BY OutcomeFields DEF o
          <6> QED
            BY <5>1, <6>1, <6>2, <6>3
        <5>3. after = [was EXCEPT !.models = told]
          BY <4>2 DEF Dir!AfterAsk
        <5>4. after.row = was.row /\ after.key = was.key /\ after.models = told
          <6> HIDE DEF after
          <6> QED
            BY <1>3, <5>3 DEF Dir!Things
        <5>5. Dir(k)!Names(do) \cap (Dir(k)!Deciding \cup {"update"}) = {}
          BY <5>1 DEF Dir!Deciding
        <5> HIDE DEF o, after
        <5> QED
          BY <1>3, <1>5, <4>2, <5>2, <5>4, <5>5 DEF Dir!Alike
      <4> QED
        BY <2>2, <4>1, <4>2
    <3>2. x5'[r].do = do /\ x5'[r].ask = a /\ x5'[r].ask.id = i
      BY <1>1
    <3>3. Dir(k)!Outcome(x1, x5[r].do, x5[r].ask, Dir(k)!Actual(i))' = o
      BY <1>1, <3>2 DEF Dir!Actual
    <3>4. Dir(k)!AfterAsk(x1, x5[r].ask, x8[i])' = after
      BY <1>1, <3>2
    <3>5. (i \in x10') <=> (i \in x10)
      BY <1>1
    <3> HIDE DEF o, after, do
    <3>6. Dir(k)!Alike(o, after, i \in x10')
      BY <3>1, <3>5
    <3> QED
      BY <3>1, <3>2, <3>3, <3>4, <3>6 DEF Dir!Ahead, Dir!AskOf
  <2> QED
    BY <1>5, <2>1, <2>2
<1>8. x5'[r].do # <<>> /\ x5'[r].ask.id = i /\ x5'[r].ask.kind # "list"
  BY <1>1, <1>4
<1>9. \A q \in Dir(k)!Writers(i) : q = r
  BY <1>2
<1>10. \A q \in k.requests \ {r} : x5'[q] = x5[q]
  BY <1>1
<1> QED
  BY <1>7, <1>8, <1>9, <1>10, OwnTurn

\* Rows stay as they were asked to be, or on their way.
LEMMA TurnsStay ==
    ASSUME NEW k, Dir(k)!ConstantsOK, Dir(k)!TypeOK, Dir(k)!Orderly, Dir(k)!InTurn,
           [Dir(k)!Next]_(Dir(k)!vars)
    PROVE  Dir(k)!InTurn'
<1>1. CASE UNCHANGED Dir(k)!vars
  <2>1. Dir(k)!InTurn' <=> Dir(k)!InTurn
    BY <1>1 DEF Dir!vars, Dir!InTurn, Dir!InTurnAt, Dir!Writers, Dir!AsksOfId, Dir!Busy, Dir!AskOf,
           Dir!AsAsked,
       Dir!Ahead, Dir!Actual
  <2> QED
    BY <2>1
<1>2. CASE Dir(k)!Crash
  <2>1. /\ UNCHANGED <<x2, x3, x4, x8, x10>> /\ \A r \in k.requests : x5'[r] = Dir(k)!Idle
        /\ x9' = x9 \cup {x5[r].ask.id : r \in {q \in k.requests : Dir(k)!Busy(q)}}
    BY <1>2 DEF Dir!Crash
  <2>2. ASSUME NEW i \in k.ids, i \notin x9' PROVE Dir(k)!InTurnAt(i)'
    <3>1. i \notin x9 /\ Dir(k)!Writers(i) = {}
      BY <2>1, <2>2 DEF Dir!Writers, Dir!AsksOfId, Dir!AskOf
    <3>2. Dir(k)!AsAsked(i)
      BY <3>1 DEF Dir!InTurn, Dir!InTurnAt
    <3>3. Dir(k)!AsAsked(i)'
      BY <2>1, <3>2 DEF Dir!AsAsked
    <3>4. Dir(k)!Writers(i)' = {}
      BY <2>1, IdleRuns DEF Dir!Writers, Dir!AsksOfId, Dir!Busy
    <3> QED
      BY <3>3, <3>4 DEF Dir!InTurnAt
  <2> QED
    BY <2>2 DEF Dir!InTurn
<1>3. ASSUME NEW r \in k.requests, Statement(k, r) PROVE Dir(k)!InTurn'
  <2>1. PICK i \in k.ids : i = x5[r].ask.id
    <3>1. x5[r].ask \in {Dir(k)!Idle.ask} \cup Dir(k)!AsksOf(x1)
      BY BusyAsk
    <3> QED
      BY <3>1, AskTyped
  <2>2. /\ \A j \in k.ids \ {i} : /\ x2'[j] = x2[j] /\ x3'[j] = x3[j] /\ x4'[j] = x4[j]
                                  /\ x8'[j] = x8[j] /\ (j \in x10' <=> j \in x10)
        /\ x9 \subseteq x9' /\ (Dir(k)!Fail(r) => i \in x9')
        /\ Dir(k)!List(r) => UNCHANGED <<x2, x3, x4, x8, x10>>
    BY <1>3, <2>1, StatementFrame
  <2>3. Goes(k, r) /\ x1' = x1
    BY <1>3, StatementGoes
  <2>4. /\ \A q \in k.requests \ {r} : x5'[q] = x5[q]
        /\ x5'[r].do = <<>> \/ x5'[r].ask = x5[r].ask
    BY <2>3, GoesOrdered, IdleRuns
  <2>5. Dir(k)!List(r) => x5[r].ask.kind = "list"
    <3>1. Dir(k)!At(r, "list") => "list" \in Dir(k)!Names(x5[r].do)
      BY AtName
    <3> QED
      BY <3>1 DEF Dir!List, Dir!Orderly, Dir!AskOf
  <2>6. ASSUME NEW j \in k.ids, j \notin x9' PROVE Dir(k)!InTurnAt(j)'
    <3>1. Dir(k)!InTurnAt(j)
      BY <2>2, <2>6 DEF Dir!InTurn
    <3>2. CASE Dir(k)!List(r)
      <4>1. /\ x5[r].ask.kind = "list" /\ (x5'[r].do = <<>> \/ x5'[r].ask.kind = "list")
            /\ x2'[j] = x2[j] /\ x3'[j] = x3[j] /\ x4'[j] = x4[j] /\ x8'[j] = x8[j]
            /\ (j \in x10' <=> j \in x10)
        BY <2>2, <2>4, <2>5, <3>2
      <4> QED
        BY <2>3, <2>4, <3>1, <4>1, TurnFrame
    <3>3. CASE j # i
      <4>1. /\ x5[r].ask.id # j /\ (x5'[r].do = <<>> \/ x5'[r].ask.id # j)
            /\ x2'[j] = x2[j] /\ x3'[j] = x3[j] /\ x4'[j] = x4[j] /\ x8'[j] = x8[j]
            /\ (j \in x10' <=> j \in x10)
        BY <2>1, <2>2, <2>4, <3>3
      <4> QED
        BY <2>3, <2>4, <3>1, <4>1, TurnFrame
    <3>4. CASE j = i /\ ~ Dir(k)!List(r)
      <4>1. ~ Dir(k)!Fail(r) /\ i \notin x9
        BY <2>2, <2>6, <3>4
      <4>2. Dir(k)!InTurnAt(i)'
        BY <1>3, <2>1, <3>4, <4>1, StatementTurn
      <4> QED
        BY <3>4, <4>2
    <3> QED
      BY <3>2, <3>3, <3>4
  <2> QED
    BY <2>6 DEF Dir!InTurn
<1>4. ASSUME NEW r \in k.requests, NEW a \in Dir(k)!AsksOf(x1), Dir(k)!Begin(r, a) PROVE Dir(k)!InTurn'
  <2>1. /\ x5'[r].ask = a /\ x5[r].do = <<>>
        /\ \A q \in k.requests \ {r} : x5'[q] = x5[q]
        /\ UNCHANGED <<x1, x2, x3, x4, x8, x10>> /\ x9 \subseteq x9'
    BY <1>4 DEF Dir!Begin, Dir!Free, Dir!Busy, Dir!TypeOK
  <2>2. ASSUME NEW j \in k.ids, j \notin x9' PROVE Dir(k)!InTurnAt(j)'
    <3>1. CASE a.id = j /\ a.kind # "list"
      BY <1>4, <2>2, <3>1, BeginTurn
    <3>2. CASE a.id # j \/ a.kind = "list"
      <4>1. Dir(k)!InTurnAt(j)
        BY <2>1, <2>2 DEF Dir!InTurn
      <4>2. /\ x5'[r].do = <<>> \/ x5'[r].ask.id # j \/ x5'[r].ask.kind = "list"
            /\ x1' = x1 /\ x2'[j] = x2[j] /\ x3'[j] = x3[j] /\ x4'[j] = x4[j] /\ x8'[j] = x8[j]
            /\ (j \in x10' <=> j \in x10)
        BY <2>1, <3>2
      <4> QED
        BY <2>1, <4>1, <4>2, TurnFrame
    <3> QED
      BY <3>1, <3>2
  <2> QED
    BY <2>2 DEF Dir!InTurn
<1> QED
  BY <1>1, <1>2, <1>3, <1>4, DirectorySteps

\* At first there is nothing, and everything is as asked.
LEMMA DirectoryStart ==
    ASSUME NEW k, Dir(k)!ConstantsOK, Dir(k)!Init
    PROVE  Dir(k)!DirectoryInv
<1>1. /\ Dir(k)!Idle \in Runs(k) /\ Dir(k)!Idle.do = <<>> /\ Dir(k)!Idle.read = {}
             /\ Dir(k)!Idle.ask.kind = "list"
      /\ Dir(k)!Names(<<>>) = {} /\ Dir(k)!InOrder(<<>>)
  BY IdleRuns, OfNone DEF Dir!Idle, Dir!Ask
<1>2. \A r \in k.requests : x5[r] = Dir(k)!Idle
  BY DEF Dir!Init
<1>3. Dir(k)!TypeOK
  <2>1. x5 \in [k.requests -> Runs(k)]
    BY <1>1 DEF Dir!Init
  <2>2. [row |-> Dir(k)!NoRow, key |-> Dir(k)!Absent, models |-> {}] \in Dir(k)!Things
            /\ Dir(k)!NoRow \in Dir(k)!Rows
    BY DEF Dir!Things, Dir!Rows
  <2> QED
    BY <2>1, <2>2 DEF Dir!Init, Dir!TypeOK, Runs, Dir!ConstantsOK
<1>4. Dir(k)!Orderly
  BY <1>1, <1>2 DEF Dir!Init, Dir!Orderly, Dir!AskOf
<1>5. Dir(k)!FreshIds
  BY <1>1, <1>2 DEF Dir!Init, Dir!FreshIds, Dir!Inserts
<1>6. Dir(k)!InTurn
  <2>1. ASSUME NEW i \in k.ids PROVE Dir(k)!InTurnAt(i)
    <3>1. Dir(k)!Writers(i) = {}
      BY <1>1, <1>2 DEF Dir!Writers, Dir!AsksOfId, Dir!Busy
    <3>2. Dir(k)!AsAsked(i)
      BY DEF Dir!Init, Dir!AsAsked
    <3> QED
      BY <3>1, <3>2 DEF Dir!InTurnAt
  <2> QED
    BY <2>1 DEF Dir!InTurn
<1>7. Dir(k)!DeletedStaysDeleted
  BY DEF Dir!Init, Dir!DeletedStaysDeleted
<1>8. Dir(k)!OwnRowsOnly
  BY <1>1, <1>2 DEF Dir!OwnRowsOnly
<1> QED
  BY <1>3, <1>4, <1>5, <1>6, <1>7, <1>8 DEF Dir!DirectoryInv

LEMMA DirectoryStep ==
    ASSUME NEW k, Dir(k)!ConstantsOK, Dir(k)!DirectoryInv, [Dir(k)!Next]_(Dir(k)!vars)
    PROVE  Dir(k)!DirectoryInv'
<1>1. Dir(k)!TypeOK /\ Dir(k)!Orderly /\ Dir(k)!FreshIds /\ Dir(k)!InTurn /\ Dir(k)!DeletedStaysDeleted
          /\ Dir(k)!OwnRowsOnly
  BY DEF Dir!DirectoryInv
<1>2. Dir(k)!TypeOK'
  BY <1>1, TypesStay
<1>3. Dir(k)!Orderly'
  BY <1>1, OrderStays
<1>4. Dir(k)!FreshIds'
  BY <1>1, IdsStayFresh
<1>5. Dir(k)!InTurn'
  BY <1>1, TurnsStay
<1>6. Dir(k)!DeletedStaysDeleted'
  BY <1>1, DeletedStay
<1>7. Dir(k)!OwnRowsOnly'
  BY <1>1, OwnStay
<1> QED
  BY <1>2, <1>3, <1>4, <1>5, <1>6, <1>7 DEF Dir!DirectoryInv

LEMMA DirectoryHolds ==
    ASSUME NEW k, Dir(k)!DirectoryInv
    PROVE  Dir(k)!RowsAsAsked /\ Dir(k)!DeletedStaysDeleted /\ Dir(k)!OwnRowsOnly
<1>1. ASSUME NEW i \in k.ids, i \notin x9, Dir(k)!AsksOfId(i) = {} PROVE Dir(k)!AsAsked(i)
  <2>1. Dir(k)!Writers(i) = {} /\ Dir(k)!InTurnAt(i)
    BY <1>1 DEF Dir!Writers, Dir!DirectoryInv, Dir!InTurn
  <2> QED
    BY <2>1 DEF Dir!InTurnAt
<1> QED
  BY <1>1 DEF Dir!RowsAsAsked, Dir!DirectoryInv

\* For any requests, rows, edits and lists of models: rows are what requests
\* that did not overlap made of them, one after the other; a deleted row with a
\* generated id does not come back; a request reads only its parent's rows.
THEOREM RowsFollowRequests ==
    ASSUME NEW k, Dir(k)!ConstantsOK
    PROVE  Dir(k)!Spec => [](Dir(k)!RowsAsAsked /\ Dir(k)!DeletedStaysDeleted /\ Dir(k)!OwnRowsOnly)
<1>1. Dir(k)!Init => Dir(k)!DirectoryInv
  BY DirectoryStart
<1>2. Dir(k)!DirectoryInv /\ [Dir(k)!Next]_(Dir(k)!vars) => Dir(k)!DirectoryInv'
  BY DirectoryStep
<1>3. Dir(k)!DirectoryInv => Dir(k)!RowsAsAsked /\ Dir(k)!DeletedStaysDeleted /\ Dir(k)!OwnRowsOnly
  BY DirectoryHolds
<1> QED
  BY <1>1, <1>2, <1>3, PTL DEF Dir!Spec

-----------------------------------------------------------------------------
\* The platform's database, for any releases, backups and writes. Of the pool
\* x1 .. x10 are phase, release, main, db, dirty, at, pending, files, job and
\* restored.

\* What the constants say of the migrations.
LEMMA ReleasesRun ==
    ASSUME NEW k, Db(k)!ConstantsOK
    PROVE  /\ Len(Db(k)!Migrations) \in Nat
           /\ \A n \in 1 .. Len(Db(k)!Migrations) :
                 /\ Len(Db(k)!Migrations[n]) \in Nat
                 /\ Db(k)!SchemaAt(n, Len(Db(k)!Migrations[n]) + 1) = Db(k)!SchemaAfter(n)
                 /\ \A j \in 1 .. Len(Db(k)!Migrations[n]) :
                       /\ ~ Db(k)!Fails(Db(k)!SchemaAt(n, j), Db(k)!Migrations[n][j])
                       /\ Db(k)!SchemaAt(n, j + 1)
                              = Db(k)!AfterStatement(Db(k)!SchemaAt(n, j), Db(k)!Migrations[n][j])
           /\ \A n \in 0 .. Len(Db(k)!Migrations) :
                 <<Db(k)!Migrating, "">> \in Db(k)!SchemaAfter(n)
           /\ Db(k)!Queried \subseteq Db(k)!SchemaAfter(Len(Db(k)!Migrations))
BY Zenon DEF Db!ConstantsOK, Db!MigrationsRun

\* The migrations are in order as long as a write leaves them alone.
LEMMA SameInOrder ==
    ASSUME NEW k, NEW x, NEW y, Db(k)!InOrder(x), y.applied = x.applied, y.schema = x.schema,
           {"applied", "schema"} \subseteq DOMAIN y
    PROVE  Db(k)!InOrder(y)
BY DEF Db!InOrder, Db!FirstOnes

\* What is read of a file under pages of the connection has its migrations in
\* order, if both have.
LEMMA UnderInOrder ==
    ASSUME NEW k, NEW file, NEW pages, Db(k)!InOrder(x4), Db(k)!InOrder(file)
    PROVE  Db(k)!InOrder(Db(k)!Under(file, pages))
<1> DEFINE u == Db(k)!Under(file, pages)
<1>1. /\ u.applied = IF "meta" \in pages THEN x4.applied ELSE file.applied
      /\ u.schema = IF "meta" \in pages THEN x4.schema ELSE file.schema
      /\ {"applied", "schema"} \subseteq DOMAIN u
  BY DEF Db!Under
<1> HIDE DEF u
<1>2. \/ u.applied = x4.applied /\ u.schema = x4.schema
      \/ u.applied = file.applied /\ u.schema = file.schema
  BY <1>1
<1>3. Db(k)!InOrder(u)
  BY <1>1, <1>2 DEF Db!InOrder, Db!FirstOnes
<1> QED
  BY <1>3 DEF u

LEMMA DatabaseStart == ASSUME NEW k, Db(k)!ConstantsOK, Db(k)!Init PROVE Db(k)!MigrationInv
<1>1. /\ Db(k)!Empty.applied = {} /\ Db(k)!Empty.schema = {}
      /\ {"applied", "schema"} \subseteq DOMAIN Db(k)!Empty /\ x2 \in k.releases /\ x2 \in Nat \ {0}
      /\ Len(Db(k)!Migrations) \in Nat
  <2>1. x2 \in k.releases /\ k.releases \subseteq 1 .. Len(Db(k)!Migrations)
    BY DEF Db!Init, Db!ConstantsOK
  <2>2. Len(Db(k)!Migrations) \in Nat
    BY ReleasesRun
  <2> QED
    BY <2>1, <2>2 DEF Db!Empty
<1>2. {} = 1 .. 0 /\ 0 \in 0 .. Len(Db(k)!Migrations)
  BY <1>1
<1>3. Db(k)!InOrder(Db(k)!Empty)
  BY <1>1, <1>2 DEF Db!InOrder, Db!FirstOnes
<1> QED
  BY <1>1, <1>3 DEF Db!Init, Db!MigrationInv, Db!AllInOrder, Db!TornByRestore, Db!Idle

\* No step of a migration fails, and each leaves the schema on its way.
LEMMA StatementRuns ==
    ASSUME NEW k, Db(k)!ConstantsOK, Db(k)!MigrationInv, Db(k)!Statement
    PROVE  LET s == Db(k)!Migrations[x6[1]][x6[2]] IN
           /\ ~ Db(k)!Fails(x7, s) /\ x7' = Db(k)!AfterStatement(x7, s)
           /\ x6' = <<x6[1], x6[2] + 1>> /\ x1' = x1
           /\ x6[1] \in 1 .. Len(Db(k)!Migrations) /\ x6[2] \in 1 .. Len(Db(k)!Migrations[x6[1]])
           /\ x7' = Db(k)!SchemaAt(x6[1], x6[2] + 1)
<1> DEFINE n == x6[1]
           j == x6[2]
<1>1. /\ x1 = "migrating" /\ n <= x2 /\ j \in 1 .. Len(Db(k)!Migrations[n])
      /\ x2 \in k.releases /\ n \in 1 .. x2 + 1
      /\ j # 0 => x7 = Db(k)!SchemaAt(n, j)
  BY DEF Db!Statement, Db!MigrationInv, Db!OnItsWay
<1>2. n \in 1 .. Len(Db(k)!Migrations) /\ Len(Db(k)!Migrations[n]) \in Nat
  <2>1. k.releases \subseteq 1 .. Len(Db(k)!Migrations)
    BY DEF Db!ConstantsOK
  <2>2. Len(Db(k)!Migrations) \in Nat
    BY ReleasesRun
  <2>3. n \in 1 .. Len(Db(k)!Migrations)
    BY <1>1, <2>1, <2>2
  <2> QED
    BY <2>3, ReleasesRun
<1>3. x7 = Db(k)!SchemaAt(n, j)
  BY <1>1, <1>2
<1>4. /\ ~ Db(k)!Fails(Db(k)!SchemaAt(n, j), Db(k)!Migrations[n][j])
      /\ Db(k)!SchemaAt(n, j + 1) = Db(k)!AfterStatement(Db(k)!SchemaAt(n, j), Db(k)!Migrations[n][j])
  BY <1>1, <1>2, ReleasesRun
<1> QED
  BY <1>1, <1>2, <1>3, <1>4 DEF Db!Statement

\* Steps that leave the files, the job, the release and the server alone.
LEMMA DatabaseWrites ==
    ASSUME NEW k, Db(k)!MigrationInv, NEW new, Db(k)!InOrder(new), UNCHANGED <<x1, x2, x3, x6, x7, x10>>,
           x4' = new, x1 = "serving", new.applied = x4.applied,
           \/ UNCHANGED <<x8, x9>>
           \/ x9' = Db(k)!Idle /\ x9.op # "writing" /\ UNCHANGED x8
    PROVE  Db(k)!MigrationInv'
BY DEF Db!MigrationInv, Db!AllInOrder, Db!TornByRestore, Db!Idle

LEMMA OrderedNotTorn ==
    ASSUME NEW k, NEW x, Len(Db(k)!Migrations) \in Nat, Db(k)!InOrder(x) PROVE x # Db(k)!Torn
<1>1. Db(k)!Torn.applied = {0}
  BY DEF Db!Torn, Db!Empty
<1>2. \A m \in 0 .. Len(Db(k)!Migrations) : 0 \notin 1 .. m
  OBVIOUS
<1> QED
  BY <1>1, <1>2 DEF Db!InOrder, Db!FirstOnes

LEMMA DatabaseStep ==
    ASSUME NEW k, Db(k)!ConstantsOK, Db(k)!MigrationInv, [Db(k)!Next]_(Db(k)!vars)
    PROVE  Db(k)!MigrationInv'
<1>1. /\ Len(Db(k)!Migrations) \in Nat /\ k.releases \subseteq 1 .. Len(Db(k)!Migrations) /\ x2 \in k.releases /\ x2 \in 1 .. Len(Db(k)!Migrations) /\ x6[1] \in 1 .. x2 + 1
      /\ Db(k)!InOrder(x4) /\ (x3 = Db(k)!Torn \/ Db(k)!InOrder(x3))
      /\ \A b \in DOMAIN x8 : Db(k)!InOrder(x8[b])
  <2>1. Len(Db(k)!Migrations) \in Nat /\ k.releases \subseteq 1 .. Len(Db(k)!Migrations)
    BY ReleasesRun DEF Db!ConstantsOK
  <2> QED
    BY <2>1 DEF Db!MigrationInv, Db!AllInOrder
<1>0. /\ x6[1] \in Nat \ {0} /\ x2 \in Nat \ {0} /\ Len(Db(k)!Migrations) \in Nat
      /\ x6[1] <= x2 + 1 /\ x2 <= Len(Db(k)!Migrations)
  BY <1>1
<1>2. CASE UNCHANGED Db(k)!vars
  BY <1>2 DEF Db!vars, Db!MigrationInv
<1>3. CASE Db(k)!Boot
  <2> DEFINE t == <<Db(k)!Migrating, "">>
  <2> HIDE DEF t
  <2>1. /\ x1 = "down" /\ x6' = <<1, 0>> /\ x10' = FALSE /\ UNCHANGED <<x2, x7, x8, x9>> /\ x3' = x3
        /\ \/ x3 = Db(k)!Torn /\ x1' = "failed" /\ x4' = x4
           \/ /\ x3 # Db(k)!Torn /\ x1' = "migrating"
              /\ \/ t \in x4.schema /\ x4' = x4
                 \/ t \notin x4.schema /\ x4' = [x4 EXCEPT !.schema = @ \cup {t}]
    BY <1>3 DEF Db!Boot, Db!Commit, t
  <2>2. Db(k)!InOrder(x4') /\ (x1' = "migrating" => t \in x4'.schema)
    <3>1. CASE x4' = x4 /\ (x1' = "migrating" => t \in x4.schema)
      BY <1>1, <2>1, <3>1
    <3>2. CASE t \notin x4.schema /\ x4' = [x4 EXCEPT !.schema = @ \cup {t}]
      <4>1. PICK m \in 0 .. Len(Db(k)!Migrations) : Db(k)!FirstOnes(x4, m)
        BY <1>1 DEF Db!InOrder
      <4>2. t \in Db(k)!SchemaAfter(m)
        BY <4>1, ReleasesRun DEF t
      <4>3. x4'.applied = x4.applied /\ x4'.schema = x4.schema \cup {t}
        BY <1>1, <3>2 DEF Db!InOrder
      <4>4. m = 0 /\ x4.schema = {}
        BY <3>2, <4>1, <4>2 DEF Db!FirstOnes
      <4>5. Db(k)!SchemaAfter(0) = {t}
        <5>1. 1 .. 1 - 1 = {} /\ 1 .. (0 + 1) - 1 = {}
          OBVIOUS
        <5>2. Db(k)!Before(1, 1) = {}
          BY <5>1 DEF Db!Before
        <5>3. Db(k)!SchemaAfter(0) = Db(k)!SchemaAt(1, 1)
          BY DEF Db!SchemaAfter
        <5> QED
          BY <5>2, <5>3, Zenon DEF Db!SchemaAt, t
      <4> QED
        <5>1. x4.applied = 1 .. 0 /\ 0 \in 0 .. Len(Db(k)!Migrations)
          BY <1>0, <4>1, <4>4 DEF Db!FirstOnes
        <5>2. Db(k)!FirstOnes(x4', 0)
          BY <4>3, <4>4, <4>5, <5>1 DEF Db!FirstOnes
        <5>3. {"applied", "schema"} \subseteq DOMAIN x4'
          BY <1>1, <3>2 DEF Db!InOrder
        <5> QED
          BY <4>3, <5>1, <5>2, <5>3 DEF Db!InOrder
    <3> QED
      BY <2>1, <3>1, <3>2
  <2>3. 1 .. 1 - 1 = {}
    OBVIOUS
  <2> QED
    <3>1. x6'[1] = 1 /\ x6'[2] = 0 /\ x6'[1] \in 1 .. x2 + 1
      BY <1>0, <2>1
    <3>2. Db(k)!AllInOrder(x4', x3, x8)
      BY <1>1, <2>2 DEF Db!AllInOrder
    <3>3. Db(k)!TornByRestore(x1', x3, x9, x8)
      BY <2>1 DEF Db!MigrationInv, Db!TornByRestore, Db!Idle
    <3>4. x1' = "migrating" => Db(k)!OnItsWay(x6'[1], x6'[2], x4', x7')
      BY <2>2, <2>3, <3>1 DEF Db!OnItsWay, t
    <3> QED
      BY <2>1, <3>1, <3>2, <3>3, <3>4 DEF Db!MigrationInv
<1>4. CASE Db(k)!SkipMigration
  <2>1. /\ x1 = "migrating" /\ x6[1] <= x2 /\ x6[1] \in x4.applied /\ x6' = <<x6[1] + 1, 0>>
        /\ UNCHANGED <<x1, x2, x3, x4, x5, x7, x8, x9, x10>>
    BY <1>4 DEF Db!SkipMigration, Db!Applied, Db!NextMigration, Db!Quiet
  <2>2. 1 .. x6[1] - 1 \subseteq x4.applied
    BY <2>1 DEF Db!MigrationInv, Db!AllInOrder, Db!TornByRestore, Db!OnItsWay
  <2>3. x6'[1] = x6[1] + 1 /\ x6'[2] = 0 /\ x6'[1] \in 1 .. x2 + 1
    BY <1>1, <2>1
  <2>4. 1 .. x6'[1] - 1 \subseteq x4.applied /\ <<Db(k)!Migrating, "">> \in x4.schema
    <3>1. <<Db(k)!Migrating, "">> \in x4.schema
      BY <2>1 DEF Db!MigrationInv, Db!OnItsWay
    <3>2. x6'[1] - 1 = x6[1]
      BY <1>0, <2>3
    <3>3. \A i \in 1 .. x6[1] : i = x6[1] \/ i \in 1 .. x6[1] - 1
      BY <1>0
    <3> QED
      BY <2>1, <2>2, <3>1, <3>2, <3>3
  <2>5. Db(k)!OnItsWay(x6'[1], x6'[2], x4, x7)
    BY <2>3, <2>4 DEF Db!OnItsWay
  <2> QED
    BY <2>1, <2>3, <2>5 DEF Db!MigrationInv
<1>5. CASE Db(k)!BeginMigration
  <2>1. /\ x1 = "migrating" /\ x6[1] <= x2 /\ x6[1] \notin x4.applied /\ x6' = <<x6[1], 1>>
        /\ x7' = x4.schema /\ UNCHANGED <<x1, x2, x3, x4, x5, x8, x9, x10>>
    BY <1>5 DEF Db!BeginMigration, Db!Applied, Db!Quiet
  <2>2. 1 .. x6[1] - 1 \subseteq x4.applied /\ <<Db(k)!Migrating, "">> \in x4.schema
    BY <2>1 DEF Db!MigrationInv, Db!AllInOrder, Db!TornByRestore, Db!OnItsWay
  <2>3. PICK m \in 0 .. Len(Db(k)!Migrations) : Db(k)!FirstOnes(x4, m)
    BY <1>1 DEF Db!InOrder
  <2>4. m = x6[1] - 1
    <3>1. x4.applied = 1 .. m
      BY <2>3 DEF Db!FirstOnes
    <3>2. m \in Nat /\ x6[1] \in Nat \ {0} /\ x6[1] \notin 1 .. m
      BY <1>1, <2>1, <2>3, <3>1
    <3>3. x6[1] - 1 = 0 \/ x6[1] - 1 \in 1 .. m
      <4>1. x6[1] - 1 = 0 \/ x6[1] - 1 \in 1 .. x6[1] - 1
        BY <3>2
      <4> QED
        BY <2>2, <3>1, <4>1
    <3> QED
      BY <3>2, <3>3
  <2>5. x4.schema = Db(k)!SchemaAfter(m)
    BY <2>2, <2>3 DEF Db!FirstOnes
  <2>6. x7' = Db(k)!SchemaAt(x6[1], 1)
    BY <1>1, <2>1, <2>4, <2>5 DEF Db!SchemaAfter
  <2>7. Len(Db(k)!Migrations[x6[1]]) \in Nat
    <3>1. x6[1] \in 1 .. Len(Db(k)!Migrations)
      BY <1>1, <2>1
    <3> QED
      BY <3>1, ReleasesRun
  <2>8. x6'[1] = x6[1] /\ x6'[2] = 1 /\ 1 \in 1 .. Len(Db(k)!Migrations[x6[1]]) + 1
    BY <2>1, <2>7
  <2>9. Db(k)!OnItsWay(x6'[1], x6'[2], x4, x7')
    BY <2>1, <2>2, <2>6, <2>8 DEF Db!OnItsWay
  <2> QED
    BY <2>1, <2>8, <2>9 DEF Db!MigrationInv
<1>6. CASE Db(k)!Statement
  <2>1. /\ x6' = <<x6[1], x6[2] + 1>> /\ x1' = x1 /\ x1 = "migrating"
        /\ x6[2] \in 1 .. Len(Db(k)!Migrations[x6[1]])
        /\ Len(Db(k)!Migrations[x6[1]]) \in Nat
        /\ x7' = Db(k)!SchemaAt(x6[1], x6[2] + 1) /\ UNCHANGED <<x2, x3, x4, x5, x8, x9, x10>>
    BY <1>6, StatementRuns, ReleasesRun DEF Db!Statement, Db!Quiet
  <2>2. <<Db(k)!Migrating, "">> \in x4.schema /\ 1 .. x6[1] - 1 \subseteq x4.applied /\ x6[1] \notin x4.applied
    <3>1. Db(k)!OnItsWay(x6[1], x6[2], x4, x7) /\ x6[2] # 0
      BY <2>1 DEF Db!MigrationInv
    <3> QED
      BY <3>1 DEF Db!OnItsWay
  <2>3. x6'[1] = x6[1] /\ x6'[2] = x6[2] + 1 /\ x6[2] + 1 \in 1 .. Len(Db(k)!Migrations[x6[1]]) + 1
    BY <2>1
  <2>4. Db(k)!OnItsWay(x6'[1], x6'[2], x4, x7')
    BY <2>1, <2>2, <2>3 DEF Db!OnItsWay
  <2> QED
    BY <2>1, <2>3, <2>4 DEF Db!MigrationInv
<1>7. CASE Db(k)!CommitMigration
  <2>1. /\ x1 = "migrating" /\ x6[1] <= x2 /\ x6[2] = Len(Db(k)!Migrations[x6[1]]) + 1
        /\ x6' = <<x6[1] + 1, 0>> /\ UNCHANGED <<x1, x2, x3, x7, x8, x9, x10>>
        /\ x4' = [x4 EXCEPT !.schema = x7, !.applied = @ \cup {x6[1]}]
    BY <1>7 DEF Db!CommitMigration, Db!Commit, Db!NextMigration, Db!Quiet
  <2>2. x6[1] \in 1 .. Len(Db(k)!Migrations) /\ Len(Db(k)!Migrations[x6[1]]) \in Nat
        /\ Db(k)!SchemaAt(x6[1], x6[2]) = Db(k)!SchemaAfter(x6[1])
        /\ <<Db(k)!Migrating, "">> \in Db(k)!SchemaAfter(x6[1])
    <3>1. x6[1] \in 1 .. Len(Db(k)!Migrations)
      BY <1>1, <2>1
    <3>2. Len(Db(k)!Migrations[x6[1]]) \in Nat
          /\ Db(k)!SchemaAt(x6[1], Len(Db(k)!Migrations[x6[1]]) + 1) = Db(k)!SchemaAfter(x6[1])
      BY <3>1, ReleasesRun
    <3>3. x6[1] \in 0 .. Len(Db(k)!Migrations)
      BY <1>1, <3>1
    <3>4. <<Db(k)!Migrating, "">> \in Db(k)!SchemaAfter(x6[1])
      BY <3>3, ReleasesRun
    <3> QED
      BY <2>1, <3>1, <3>2, <3>4
  <2>3. 1 .. x6[1] - 1 \subseteq x4.applied /\ x6[1] \notin x4.applied
        /\ x7 = Db(k)!SchemaAt(x6[1], x6[2])
    <3>1. Db(k)!OnItsWay(x6[1], x6[2], x4, x7) /\ x6[2] # 0
      <4>1. x6[2] # 0
        <5>1. \A n \in Nat : n + 1 # 0
          OBVIOUS
        <5>2. Len(Db(k)!Migrations[x6[1]]) + 1 # 0
          BY <2>2, <5>1, Zenon
        <5> QED
          BY <2>1, <5>2
      <4> QED
        BY <2>1, <4>1 DEF Db!MigrationInv
    <3> QED
      BY <3>1 DEF Db!OnItsWay
  <2>4. PICK m \in 0 .. Len(Db(k)!Migrations) : Db(k)!FirstOnes(x4, m)
    BY <1>1 DEF Db!InOrder
  <2>5. x4.applied = 1 .. x6[1] - 1
    <3>1. x4.applied = 1 .. m /\ m \in Nat /\ x6[1] \in Nat \ {0}
      BY <1>0, <2>4 DEF Db!FirstOnes
    <3>2. x6[1] \notin 1 .. m /\ (x6[1] - 1 = 0 \/ x6[1] - 1 \in 1 .. m)
      BY <2>3, <3>1
    <3>3. m = x6[1] - 1
      BY <3>1, <3>2
    <3> QED
      BY <3>1, <3>3
  <2>6. x4'.applied = 1 .. x6[1] /\ x4'.schema = Db(k)!SchemaAfter(x6[1])
        /\ {"applied", "schema"} \subseteq DOMAIN x4'
    <3>1. {"applied", "schema"} \subseteq DOMAIN x4
      BY <1>1 DEF Db!InOrder
    <3>2. x4'.applied = x4.applied \cup {x6[1]} /\ x4'.schema = x7
          /\ {"applied", "schema"} \subseteq DOMAIN x4'
      BY <2>1, <3>1
    <3>3. (1 .. x6[1] - 1) \cup {x6[1]} = 1 .. x6[1]
      <4>1. \A i : i \in 1 .. x6[1] <=> i = x6[1] \/ i \in 1 .. x6[1] - 1
        BY <1>0
      <4> QED
        BY <4>1
    <3> QED
      BY <2>2, <2>3, <2>5, <3>2, <3>3
  <2>7. Db(k)!InOrder(x4')
    <3>1. x6[1] \in 0 .. Len(Db(k)!Migrations)
      BY <1>0, <2>1
    <3>2. Db(k)!FirstOnes(x4', x6[1])
      BY <2>6 DEF Db!FirstOnes
    <3> QED
      BY <2>6, <3>1, <3>2 DEF Db!InOrder
  <2>8. x6'[1] = x6[1] + 1 /\ x6'[2] = 0 /\ x6'[1] - 1 = x6[1] /\ x6'[1] \in 1 .. x2 + 1
    BY <1>1, <2>1
  <2>9. Db(k)!OnItsWay(x6'[1], x6'[2], x4', x7')
    BY <2>2, <2>6, <2>8 DEF Db!OnItsWay
  <2>10. Db(k)!AllInOrder(x4', x3, x8)
    BY <1>1, <2>7 DEF Db!AllInOrder
  <2> QED
    BY <2>1, <2>8, <2>9, <2>10 DEF Db!MigrationInv
<1>8. CASE Db(k)!Serve
  <2>1. /\ x1 = "migrating" /\ x6[1] = x2 + 1 /\ x1' = "serving"
        /\ UNCHANGED <<x2, x3, x4, x5, x6, x7, x8, x9, x10>>
    BY <1>8 DEF Db!Serve, Db!Quiet
  <2>2. 1 .. x6[1] - 1 \subseteq x4.applied
    BY <2>1 DEF Db!MigrationInv, Db!AllInOrder, Db!TornByRestore, Db!OnItsWay
  <2>3. 1 .. x2 \subseteq x4.applied
    BY <1>1, <2>1, <2>2
  <2> QED
    BY <1>1, <2>1, <2>3 DEF Db!MigrationInv, Db!AllInOrder, Db!TornByRestore, Db!OnItsWay
<1>9. CASE Db(k)!WriteRow
  <2>1. /\ x1 = "serving" /\ x4' = [x4 EXCEPT !.rows = @ + 1]
        /\ UNCHANGED <<x1, x2, x3, x6, x7, x8, x9, x10>>
    BY <1>9 DEF Db!WriteRow, Db!Commit, Db!Busy, Db!Quiet
  <2>2. x4'.applied = x4.applied /\ x4'.schema = x4.schema
        /\ {"applied", "schema"} \subseteq DOMAIN x4'
    BY <1>1, <2>1 DEF Db!InOrder
  <2>3. Db(k)!InOrder(x4')
    BY <1>1, <2>2, SameInOrder
  <2> QED
    BY <2>1, <2>2, <2>3, DatabaseWrites
<1>10. CASE Db(k)!Checkpoint
  <2>1. /\ x1 # "down" /\ x3 # Db(k)!Torn /\ x3' = x4 /\ x9.op # "writing"
        /\ UNCHANGED <<x1, x2, x4, x6, x7, x8, x9, x10>>
    BY <1>10 DEF Db!Checkpoint, Db!Busy, Db!Quiet
  <2>2. x1 # "failed" /\ x4 # Db(k)!Torn
    BY <1>1, <2>1, OrderedNotTorn DEF Db!MigrationInv, Db!AllInOrder, Db!TornByRestore, Db!OnItsWay
  <2> QED
    BY <1>1, <2>1, <2>2 DEF Db!MigrationInv, Db!AllInOrder, Db!TornByRestore, Db!OnItsWay
<1>11. CASE Db(k)!RecordBackup \/ Db(k)!RemoveRecord
  <2>1. /\ x9.op \in {"backup", "delete"} /\ x9' = Db(k)!Idle
        /\ \E r : x4' = [x4 EXCEPT !.records = r]
        /\ UNCHANGED <<x1, x2, x3, x6, x7, x8, x10>>
    BY <1>11 DEF Db!RecordBackup, Db!RemoveRecord, Db!Commit, Db!Busy
  <2>2. x4'.applied = x4.applied /\ x4'.schema = x4.schema
        /\ {"applied", "schema"} \subseteq DOMAIN x4'
    BY <1>1, <2>1 DEF Db!InOrder
  <2>3. Db(k)!InOrder(x4')
    BY <1>1, <2>2, SameInOrder
  <2>4. x1 = "serving"
    BY <2>1 DEF Db!MigrationInv, Db!TornByRestore, Db!Idle
  <2> QED
    BY <2>1, <2>2, <2>3, <2>4, DatabaseWrites
<1>12. CASE Db(k)!FinishRestore
  <2>1. /\ x9.op = "writing" /\ x3' = x8[x9.id] /\ x10' = TRUE /\ x9' = Db(k)!Idle
        /\ \E kept : x4' = Db(k)!Under(x8[x9.id], kept)
        /\ UNCHANGED <<x1, x2, x6, x7, x8>>
    BY <1>12 DEF Db!FinishRestore, Db!Busy
  <2>2. x1 = "serving" /\ x9.id \in DOMAIN x8
    BY <2>1 DEF Db!MigrationInv, Db!TornByRestore, Db!Idle
  <2>3. Db(k)!InOrder(x3') /\ Db(k)!InOrder(x4')
    BY <1>1, <2>1, <2>2, UnderInOrder
  <2>4. x3' # Db(k)!Torn
    BY <1>1, <2>3, OrderedNotTorn
  <2> QED
    BY <1>1, <2>1, <2>2, <2>3, <2>4 DEF Db!MigrationInv, Db!AllInOrder, Db!TornByRestore, Db!OnItsWay, Db!Idle
<1>13. CASE Db(k)!ProcessEnds
  <2>1. /\ x1' = "down" /\ x9' = Db(k)!Idle /\ x6' = <<1, 0>> /\ UNCHANGED <<x2, x8, x10>>
        /\ \/ x3' = Db(k)!Torn /\ x4' = x4
           \/ x3 # Db(k)!Torn /\ x4' = Db(k)!Under(x3, x5) /\ (x3' = x4' \/ x3' = x3)
    BY <1>13 DEF Db!ProcessEnds
  <2>2. Db(k)!InOrder(x4') /\ (x3' = Db(k)!Torn \/ Db(k)!InOrder(x3'))
    BY <1>1, <2>1, UnderInOrder
  <2> QED
    <3>1. x6'[1] = 1 /\ x6'[1] \in 1 .. x2 + 1
      BY <1>0, <2>1
    <3>2. Db(k)!AllInOrder(x4', x3', x8)
      BY <1>1, <2>2 DEF Db!AllInOrder
    <3>3. Db(k)!TornByRestore(x1', x3', x9', x8)
      BY <2>1 DEF Db!TornByRestore, Db!Idle
    <3> QED
      BY <2>1, <3>1, <3>2, <3>3 DEF Db!MigrationInv
<1>14. CASE Db(k)!Upgrade
  BY <1>1, <1>14 DEF Db!Upgrade, Db!MigrationInv, Db!Quiet, Db!InOrder, Db!FirstOnes
<1>15. ASSUME NEW b \in k.backups, Db(k)!VacuumInto(b) PROVE Db(k)!MigrationInv'
  BY <1>1, <1>15 DEF Db!VacuumInto, Db!MigrationInv, Db!HasBackups, Db!Idle, Db!Busy, Db!AllInOrder, Db!TornByRestore
<1>16. ASSUME NEW b \in k.backups, Db(k)!RemoveFile(b) PROVE Db(k)!MigrationInv'
  BY <1>1, <1>16 DEF Db!RemoveFile, Db!MigrationInv, Db!HasBackups, Db!Idle, Db!Busy, Db!AllInOrder, Db!TornByRestore
<1>17. ASSUME NEW b \in k.backups, Db(k)!StartRestore(b) PROVE Db(k)!MigrationInv'
  BY <1>1, <1>17 DEF Db!StartRestore, Db!MigrationInv, Db!HasBackups, Db!Idle, Db!Busy, Db!AllInOrder, Db!TornByRestore
<1> QED
  BY <1>2, <1>3, <1>4, <1>5, <1>6, <1>7, <1>8, <1>9, <1>10, <1>11, <1>12, <1>13, <1>14, <1>15, <1>16, <1>17 DEF Db!Next

LEMMA SchemaFollows ==
    ASSUME NEW k, Db(k)!ConstantsOK, Db(k)!MigrationInv PROVE Db(k)!SchemaReady
<1>1. ASSUME x1 = "serving", x2 = Len(Db(k)!Migrations), ~ x10 PROVE Db(k)!Queried \subseteq x4.schema
  <2>1. 1 .. x2 \subseteq x4.applied /\ x2 \in Nat \ {0} /\ Db(k)!InOrder(x4)
    <3>1. k.releases \subseteq 1 .. Len(Db(k)!Migrations) /\ Len(Db(k)!Migrations) \in Nat
      BY ReleasesRun DEF Db!ConstantsOK
    <3> QED
      BY <1>1, <3>1 DEF Db!MigrationInv, Db!AllInOrder
  <2>2. PICK m \in 0 .. x2 : Db(k)!FirstOnes(x4, m)
    BY <1>1, <2>1 DEF Db!InOrder
  <2>3. m = x2
    BY <2>1, <2>2 DEF Db!FirstOnes
  <2>4. x4.schema = Db(k)!SchemaAfter(x2)
    BY <2>1, <2>2, <2>3 DEF Db!FirstOnes
  <2> QED
    BY <1>1, <2>4, ReleasesRun
<1>2. x1 = "failed" => x3 = Db(k)!Torn
  BY DEF Db!MigrationInv, Db!TornByRestore
<1> QED
  BY <1>1, <1>2 DEF Db!SchemaReady

\* For any releases, backups and crashes: a server of the newest release that
\* serves, and in which no backup was put back since it started, has every
\* table and column it uses; only a file that a restore tore keeps a server
\* from starting.
THEOREM MigrationsArrive == ASSUME NEW k, Db(k)!ConstantsOK PROVE Db(k)!Spec => []Db(k)!SchemaReady
<1>1. Db(k)!Init => Db(k)!MigrationInv
  BY DatabaseStart
<1>2. Db(k)!MigrationInv /\ [Db(k)!Next]_(Db(k)!vars) => Db(k)!MigrationInv'
  BY DatabaseStep
<1>3. Db(k)!MigrationInv => Db(k)!SchemaReady
  BY SchemaFollows
<1> QED
  BY <1>1, <1>2, <1>3, PTL DEF Db!Spec
=============================================================================
