------------------------- MODULE MCServices_proofs -------------------------
(***************************************************************************)
(* The properties of MCServices that hold of its parts by what             *)
(* Desktop_proofs and Servers_proofs prove of the components, for whatever *)
(* their constants are.                                                    *)
(***************************************************************************)
EXTENDS MCServices, Desktop_proofs, Servers_proofs, TLAPS

-----------------------------------------------------------------------------
\* The runs of the parts. A behaviour stays with its part, and its steps are
\* the part's.
LEMMA PartsStart ==
    ASSUME Init
    PROVE  /\ part = "usage" => Logging(Usage)!Init
           /\ part = "token" => Tokens(Token)!Init
           /\ part = "people" => Signing(People)!Init
           /\ part = "addresses" => Signing(Addresses)!Init
           /\ part = "signin" => Signing(Person)!Init
           /\ part = "relay" => Gateway(Relay)!Init
           /\ part = "directory" => Dir(Directory)!Init
           /\ part = "database" => Db(Database)!Init
           /\ part = "limiter" => Limiter(Limits)!Init
           /\ part = "answer" => Delivery(Answer)!Init
           /\ part = "config" => Configuring(Config)!Init
           /\ part = "rules" => Intercepting(Ruled)!Init
           /\ part = "intercepts" => Intercepting(Carried)!Init
BY DEF Init

LEMMA PartsMove ==
    ASSUME [Next]_vars
    PROVE  /\ part' = part
           /\ part = "usage" => [Logging(Usage)!Next]_(Logging(Usage)!vars)
           /\ part = "token" => [Tokens(Token)!Next]_(Tokens(Token)!vars)
           /\ part = "people" => [Signing(People)!Next]_(Signing(People)!vars)
           /\ part = "addresses" => [Signing(Addresses)!Next]_(Signing(Addresses)!vars)
           /\ part = "signin" => [Signing(Person)!Next]_(Signing(Person)!vars)
           /\ part = "relay" => [Gateway(Relay)!Next]_(Gateway(Relay)!vars)
           /\ part = "directory" => [Dir(Directory)!Next]_(Dir(Directory)!vars)
           /\ part = "database" => [Db(Database)!Next]_(Db(Database)!vars)
           /\ part = "limiter" => [Limiter(Limits)!Next]_(Limiter(Limits)!vars)
           /\ part = "answer" => [Delivery(Answer)!Next]_(Delivery(Answer)!vars)
           /\ part = "config" => [Configuring(Config)!Next]_(Configuring(Config)!vars)
           /\ part = "rules" => [Intercepting(Ruled)!Next]_(Intercepting(Ruled)!vars)
           /\ part = "intercepts" => [Intercepting(Carried)!Next]_(Intercepting(Carried)!vars)
<1>1. CASE UNCHANGED vars
  BY <1>1 DEF vars, pool, Logging!vars, Tokens!vars, Signing!vars, Gateway!vars, Dir!vars,
     Db!vars, Limiter!vars, Delivery!vars, Configuring!vars, Intercepting!vars,
     Intercepting!disk, Intercepting!history
<1>2. CASE Next
  BY <1>2 DEF Next
<1> QED
  BY <1>1, <1>2

LEMMA PartsConstants ==
    /\ Logging(Usage)!ConstantsOK /\ Logging(Usage)!OwnFiles
    /\ Signing(People)!ConstantsOK /\ Signing(Addresses)!ConstantsOK
    /\ Signing(Person)!ConstantsOK
    /\ Tokens(Token)!ConstantsOK /\ Gateway(Relay)!ConstantsOK /\ Limiter(Limits)!ConstantsOK
    /\ Dir(Directory)!ConstantsOK /\ Db(Database)!ConstantsOK /\ Configuring(Config)!ConstantsOK
    /\ Intercepting(Ruled)!ConstantsOK /\ Intercepting(Carried)!ConstantsOK
<1>1. Logging(Usage)!OwnFiles
  <2>1. /\ Usage.files = {Absent, OldLog} /\ Usage.max = 3 /\ Usage.serials = 4
    BY DEF Usage
  <2>2. /\ Absent.form = "absent" /\ Absent.recs = <<>> /\ Absent.terminated
        /\ OldLog.form = "log" /\ OldLog.recs = <<[serial |-> 1, month |-> 0]>> /\ OldLog.terminated
    BY DEF Absent, OldLog
  <2>3. /\ Len(<<>>) = 0 /\ Len(OldLog.recs) = 1 /\ OldLog.recs[1].month = 0
    BY <2>2
  <2>4. \A i \in 1 .. Len(Absent.recs) : Absent.recs[i].month = 0
    BY <2>2, <2>3
  <2>5. \A i \in 1 .. Len(OldLog.recs) : OldLog.recs[i].month = 0
    BY <2>3
  <2>6. /\ 1 <= Usage.max /\ 1 <= Usage.serials /\ 0 <= Usage.max /\ 0 <= Usage.serials
    BY <2>1
  <2>7. ASSUME NEW f \in Usage.files
        PROVE  /\ f.form \in {"absent", "log"} /\ f.terminated /\ (f.form = "absent" => f.recs = <<>>)
               /\ Len(f.recs) <= Usage.max /\ Len(f.recs) <= Usage.serials
               /\ \A i \in 1 .. Len(f.recs) : f.recs[i].month = 0
    <3>1. CASE f = Absent
      BY <2>2, <2>3, <2>4, <2>6, <3>1
    <3>2. CASE f = OldLog
      BY <2>2, <2>3, <2>5, <2>6, <3>2
    <3> QED
      BY <2>1, <2>7, <3>1, <3>2
  <2> QED
    BY <2>7 DEF Logging!OwnFiles
<1> QED
  BY <1>1, ConstantsHold

\* What each of these parts keeps.
ServicesInv ==
    /\ part = "usage" => Logging(Usage)!LogInv
    /\ part = "token" => Tokens(Token)!BeliefInv
    /\ part = "people" => Signing(People)!TypeOK /\ Signing(People)!AccountInv
    /\ part = "addresses" => Signing(Addresses)!TypeOK /\ Signing(Addresses)!AccountInv
    /\ part = "signin" => Signing(Person)!TypeOK /\ Signing(Person)!AccountInv
    /\ part = "relay" => Gateway(Relay)!RelayInv
    /\ part = "directory" => Dir(Directory)!DirectoryInv
    /\ part = "database" => Db(Database)!MigrationInv
    /\ part = "limiter" => Limiter(Limits)!TypeOK
    /\ part = "answer" => Delivery(Answer)!DeliveryInv
    /\ part = "config" => Configuring(Config)!ConfigInv
    /\ part = "rules" => Intercepting(Ruled)!InterceptInv
    /\ part = "intercepts" => Intercepting(Carried)!InterceptInv

LEMMA ServicesStart == ASSUME Init PROVE ServicesInv
BY PartsStart, PartsConstants, LogStarts, TokensStart, SigningStarts, RelayStarts, DirectoryStart,
   DatabaseStart, LimiterStarts, AnswerStart, ConfigStarts, InterceptStarts DEF ServicesInv

LEMMA ServicesStep == ASSUME ServicesInv, [Next]_vars PROVE ServicesInv'
<1>1. part = "usage" => Logging(Usage)!LogInv'
  BY PartsMove, PartsConstants, LogSteps DEF ServicesInv
<1>2. part = "token" => Tokens(Token)!BeliefInv'
  BY PartsMove, PartsConstants, TokensStep DEF ServicesInv
<1>3. part = "people" => Signing(People)!TypeOK' /\ Signing(People)!AccountInv'
  BY PartsMove, PartsConstants, SigningSteps DEF ServicesInv
<1>4. part = "addresses" => Signing(Addresses)!TypeOK' /\ Signing(Addresses)!AccountInv'
  BY PartsMove, PartsConstants, SigningSteps DEF ServicesInv
<1>5. part = "signin" => Signing(Person)!TypeOK' /\ Signing(Person)!AccountInv'
  BY PartsMove, PartsConstants, SigningSteps DEF ServicesInv
<1>6. part = "relay" => Gateway(Relay)!RelayInv'
  BY PartsMove, PartsConstants, RelaySteps DEF ServicesInv
<1>7. part = "limiter" => Limiter(Limits)!TypeOK'
  BY PartsMove, PartsConstants, LimiterSteps DEF ServicesInv
<1>8. part = "directory" => Dir(Directory)!DirectoryInv'
  BY PartsMove, PartsConstants, DirectoryStep DEF ServicesInv
<1>9. part = "database" => Db(Database)!MigrationInv'
  BY PartsMove, PartsConstants, DatabaseStep DEF ServicesInv
<1>10. part = "answer" => Delivery(Answer)!DeliveryInv'
  BY PartsMove, AnswerStep DEF ServicesInv
<1>11. part = "config" => Configuring(Config)!ConfigInv'
  BY PartsMove, PartsConstants, ConfigSteps DEF ServicesInv
<1>12. part = "rules" => Intercepting(Ruled)!InterceptInv'
  BY PartsMove, PartsConstants, InterceptSteps DEF ServicesInv
<1>13. part = "intercepts" => Intercepting(Carried)!InterceptInv'
  BY PartsMove, PartsConstants, InterceptSteps DEF ServicesInv
<1> QED
  BY <1>1, <1>2, <1>3, <1>4, <1>5, <1>6, <1>7, <1>8, <1>9, <1>10, <1>11, <1>12, <1>13, PartsMove
     DEF ServicesInv

LEMMA ServicesKeep == Spec => []ServicesInv
<1>1. Init => ServicesInv
  BY ServicesStart
<1>2. ServicesInv /\ [Next]_vars => ServicesInv'
  BY ServicesStep
<1> QED
  BY <1>1, <1>2, PTL DEF Spec

\* In the run of the parts: a client holds tokens only of accounts whose owner
\* signed in on it, and an identity keeps its account.
THEOREM AccountsStayOwn == Spec => []AccountsAreOwn
<1>1. ServicesInv => AccountsAreOwn
  BY OwnFollows DEF ServicesInv, AccountsAreOwn
<1> QED
  BY <1>1, ServicesKeep, PTL

\* In the run of the parts: the month's cost counts each request once.
THEOREM MonthCostStaysExact == Spec => []MonthCostExact
<1>1. ServicesInv => MonthCostExact
  BY LogExact, PartsConstants DEF ServicesInv, MonthCostExact
<1> QED
  BY <1>1, ServicesKeep, PTL

\* In the run of the parts: the relay gateway's gauge, counters and traces tell
\* what was asked and answered, requests go where their model is known, and a
\* start loads what was saved last.
THEOREM RelayStaysAccounted == Spec => []RelayAccounts
<1>1. ServicesInv => RelayAccounts
  BY RelayFollows, PartsConstants DEF ServicesInv, RelayAccounts
<1> QED
  BY <1>1, ServicesKeep, PTL

\* In the run of the parts: the platform's rows are what the requests that did
\* not overlap made of them, deleted ones stay deleted, and requests read their
\* own parent's.
THEOREM TablesFollowRequests == Spec => []DirectoryAsAsked
<1>1. ServicesInv => DirectoryAsAsked
  BY DirectoryHolds DEF ServicesInv, DirectoryAsAsked
<1> QED
  BY <1>1, ServicesKeep, PTL

\* In the run of the parts: a server of the newest release that serves finds its
\* whole schema.
THEOREM SchemaStaysReady == Spec => []SchemaReady
<1>1. ServicesInv => SchemaReady
  BY SchemaFollows, PartsConstants DEF ServicesInv, SchemaReady
<1> QED
  BY <1>1, ServicesKeep, PTL

\* In the run of the parts: what the client got is the upstream's text in
\* order, whole when it ends as whole, and charged once.
THEOREM AnswerStaysWhole == Spec => []AnswerIsWhole
<1>1. ServicesInv => AnswerIsWhole
  BY WholeAnswer DEF ServicesInv, AnswerIsWhole
<1> QED
  BY <1>1, ServicesKeep, PTL

\* In the run of the parts: what is intercepted, and with which key, follows the
\* user's edits, the targets and the access token.
THEOREM InterceptsStayTrue == Spec => []InterceptsFollow
<1>1. ServicesInv => InterceptsFollow
  BY InterceptFollows, PartsConstants DEF ServicesInv, InterceptsFollow
<1> QED
  BY <1>1, ServicesKeep, PTL

\* In the run of the parts: the usage log survives a restart, unless a write
\* failed; and the channels with their keys, unless the disk or the keychain
\* failed or an edit was cut in two.
THEOREM DataSurvives == Spec => RestartKeepsData
<1>1. ServicesInv /\ [Next]_vars
         => [/\ part = "usage" => Logging(Usage)!KeepsRecords
             /\ part = "config" => Configuring(Config)!KeepsChannels]_vars
  BY PartsMove, PartsConstants, LogSteps, ConfigSteps DEF ServicesInv
<1> QED
  BY <1>1, ServicesKeep, PTL DEF Spec, RestartKeepsData

\* In the run of the parts: a token that is used from the cache is still
\* accepted.
THEOREM TokensLive == Spec => CachedTokenLives
<1>1. ServicesInv /\ [Next]_vars => [part = "token" => Tokens(Token)!TakesLiveToken]_vars
  BY PartsMove, PartsConstants, StepTakesLive DEF ServicesInv
<1> QED
  BY <1>1, ServicesKeep, PTL DEF Spec, CachedTokenLives

\* In the run of the parts: the limiter's steps are steps of a token bucket.
THEOREM BucketsAreIdeal == Spec => IsTokenBucket
<1>1. ServicesInv /\ [Next]_vars => [part = "limiter" => Limiter(Limits)!IdealStep]_vars
  BY PartsMove, PartsConstants, LimiterSteps DEF ServicesInv
<1> QED
  BY <1>1, ServicesKeep, PTL DEF Spec, IsTokenBucket
=============================================================================
