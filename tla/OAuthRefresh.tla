---------------------------- MODULE OAuthRefresh ----------------------------
(***************************************************************************)
(* The access token of a channel with OAuth credentials,                   *)
(* providers/oauth_refresh.go: requests of the channel share one cached    *)
(* token, refresh it without a lock when it is near its expiry, and each   *)
(* stores what it got. The code computes the expiry when the answer        *)
(* arrives, while the endpoint counts from when it issued the token.       *)
(***************************************************************************)
EXTENDS Integers

CONSTANTS
    Requests,       \* goroutines that forward requests of the channel
    Margin,         \* the refresher's safety margin, in ticks (60 s)
    Timeout,        \* its http.Client's timeout, in ticks (15 s)
    Lifetimes,      \* expires_in values of the endpoint, in ticks
    MaxAge          \* bound: how long after its expiry a token's age is counted

ConstantsOK ==
    /\ Margin \in Nat /\ Timeout \in Nat /\ Timeout < Margin
    /\ Lifetimes \subseteq Nat /\ MaxAge \in Nat

VARIABLES
    cache,      \* OAuthTokenRefresher.tokens of the channel: at most one token
    grant,      \* what the channel's refresh token is worth at the endpoint
    pc,         \* per request
    held,       \* per request, the token it saw in the cache or returns
    issued,     \* per request, the token on its way from the endpoint
    waited      \* per request, how long its exchange with the endpoint has taken

vars == <<cache, grant, pc, held, issued, waited>>

(* left: until the endpoint stops accepting it; believed: until ExpiresAt. *)
Token == [left : Int, believed : Int]

Labels == {"idle", "cached", "sent", "issued", "fresh", "fallback"}

Goto(r, l) == pc' = [pc EXCEPT ![r] = l]

-----------------------------------------------------------------------------
Init ==
    /\ cache = {} /\ grant \in {"reusable", "once"}
    /\ pc = [r \in Requests |-> "idle"]
    /\ held = [r \in Requests |-> {}]
    /\ issued = [r \in Requests |-> {}]
    /\ waited = [r \in Requests |-> 0]

(* Mutant of ShouldRefresh: only an expired token is refreshed. *)
ShouldRefreshExpired(t) == t.believed <= 0

ShouldRefresh(t) == t.believed <= Margin

(* EnsureValidToken, first part: GetToken, and the cached token will do. *)
UseCached(r) ==
    /\ pc[r] = "idle"
    /\ \E t \in cache : ~ShouldRefresh(t) /\ held' = [held EXCEPT ![r] = {t}]
    /\ Goto(r, "cached")
    /\ UNCHANGED <<cache, grant, issued, waited>>

(* ... or it will not, and the request goes to the token endpoint. The     *)
(* token it saw in the cache is what it falls back to.                     *)
Refresh(r) ==
    /\ pc[r] = "idle"
    /\ \A t \in cache : ShouldRefresh(t)
    /\ held' = [held EXCEPT ![r] = cache]
    /\ Goto(r, "sent")
    /\ UNCHANGED <<cache, grant, issued, waited>>

(* The endpoint issues a token. EnsureValidToken always sends the channel's *)
(* configured refresh token, so an endpoint that rotates refresh tokens    *)
(* answers it once.                                                        *)
Issue(r) ==
    /\ pc[r] = "sent"
    /\ grant # "spent"
    /\ \E life \in Lifetimes :
          issued' = [issued EXCEPT ![r] = {[left |-> life, believed |-> life]}]
    /\ grant' = IF grant = "once" THEN "spent" ELSE grant
    /\ Goto(r, "issued")
    /\ UNCHANGED <<cache, held, waited>>

(* refreshToken: the answer arrives, ExpiresAt is counted from now, and    *)
(* the token replaces whatever another request has stored meanwhile.       *)
Store(r) ==
    /\ pc[r] = "issued"
    /\ cache' = issued[r]
    /\ held' = [held EXCEPT ![r] = issued[r]]
    /\ issued' = [issued EXCEPT ![r] = {}]
    /\ waited' = [waited EXCEPT ![r] = 0]
    /\ Goto(r, "fresh")
    /\ UNCHANGED grant

(* The exchange fails or times out: the token seen in the cache, even if   *)
(* it has expired, or an error, and then the request has its API key only. *)
RefreshFails(r) ==
    /\ pc[r] \in {"sent", "issued"}
    /\ issued' = [issued EXCEPT ![r] = {}]
    /\ waited' = [waited EXCEPT ![r] = 0]
    /\ Goto(r, "fallback")
    /\ UNCHANGED <<cache, grant, held>>

(* The request is sent upstream with the token, or with the API key. *)
Done(r) ==
    /\ pc[r] \in {"cached", "fresh", "fallback"}
    /\ held' = [held EXCEPT ![r] = {}]
    /\ Goto(r, "idle")
    /\ UNCHANGED <<cache, grant, issued, waited>>

Older(n) == IF n > -MaxAge THEN n - 1 ELSE n

Aged(t) == [left |-> Older(t.left), believed |-> Older(t.believed)]

(* On its way a token ages at the endpoint only. *)
AgedOnTheWay(t) == [t EXCEPT !.left = Older(@)]

InExchange(r) == pc[r] \in {"sent", "issued"}

(* Time passes; the client gives an exchange up after Timeout. *)
Tick ==
    /\ \A r \in Requests : InExchange(r) => waited[r] < Timeout
    /\ cache' = {Aged(t) : t \in cache}
    /\ held' = [r \in Requests |-> {Aged(t) : t \in held[r]}]
    /\ issued' = [r \in Requests |-> {AgedOnTheWay(t) : t \in issued[r]}]
    /\ waited' = [r \in Requests |-> IF InExchange(r) THEN waited[r] + 1 ELSE 0]
    /\ UNCHANGED <<grant, pc>>

Next ==
    \/ \E r \in Requests : \/ UseCached(r) \/ Refresh(r) \/ Issue(r) \/ Store(r)
                           \/ RefreshFails(r) \/ Done(r)
    \/ Tick

Spec == Init /\ [][Next]_vars

-----------------------------------------------------------------------------
TypeOK ==
    /\ cache \subseteq Token /\ grant \in {"reusable", "once", "spent"}
    /\ pc \in [Requests -> Labels]
    /\ held \in [Requests -> SUBSET Token] /\ issued \in [Requests -> SUBSET Token]
    /\ waited \in [Requests -> 0 .. Timeout]

(* What keeps a cached token alive: the client believes it to live at most *)
(* as long as an exchange may take longer than it does, and of a token on  *)
(* its way no longer than its exchange has taken.                          *)
CacheClose == \A t \in cache : t.left >= t.believed - Timeout
IssuedClose ==
    \A r \in Requests : /\ pc[r] # "issued" => issued[r] = {}
                        /\ \A t \in issued[r] : t.left >= t.believed - waited[r]

BeliefInv == TypeOK /\ CacheClose /\ IssuedClose

(* A token that a request takes from the cache without refreshing it is    *)
(* still accepted by the endpoint, whatever other requests stored in the   *)
(* meantime and however long the answers took: the margin of               *)
(* EnsureValidToken covers the time refreshToken does not count.           *)
TakesLiveToken ==
    \A r \in Requests :
        pc[r] = "idle" /\ pc'[r] = "cached" => \A t \in held'[r] : t.left > 0
CachedTokenLives == [][TakesLiveToken]_vars
=============================================================================
