-------------------------------- MODULE Mitm --------------------------------
(***************************************************************************)
(* The desktop's intercepting proxy, internal/mitm/manager.go with ca.go,  *)
(* proxy.go and health.go, and what it does to the system's proxy settings *)
(* (network/proxy_darwin.go). Manager.mu is held by a start and by a stop; *)
(* a health probe looks at the proxy without it, and stops the manager     *)
(* when the proxy no longer answers. While a start runs external commands  *)
(* the process may end, the user may change the settings, the listener die.*)
(***************************************************************************)
EXTENDS Naturals

CONSTANTS Probes    \* bound: health probes at once, of this run and of older ones

VARIABLES
    state,      \* Manager.state between operations
    step,       \* the step a start is at, holding the lock; "none" when nobody holds it
    ca,         \* what of the certificate authority is on disk
    loaded,     \* EnsureCA has succeeded in this process
    trusted,    \* the system trusts the authority
    listener,   \* Proxy.listener: "dead" when it is set but accepts no more
    web,        \* the system's HTTP proxy
    secure,     \* and its HTTPS proxy
    probe,      \* per probe goroutine
    cancelled,  \* per probe, whether its context is cancelled
    left        \* history: a setting of ours has outlived a process or a failed command

vars == <<state, step, ca, loaded, trusted, listener, web, secure, probe, cancelled, left>>

settings == <<web, secure, left>>
probes == <<probe, cancelled>>

(* Whose the setting is: nobody's, the manager's, the user's. *)
Owner == {"off", "own", "user"}

ConstantsOK == Probes # {}

-----------------------------------------------------------------------------
Init ==
    /\ state = "stopped" /\ step = "none"
    /\ ca = "none" /\ loaded = FALSE /\ trusted = FALSE
    /\ listener = "none"
    /\ web \in {"off", "user"} /\ secure = web
    /\ probe = [k \in Probes |-> "off"]
    /\ cancelled = [k \in Probes |-> FALSE]
    /\ left = FALSE

Ours(w, s) == "own" \in {w, s}

(* Clear: two commands, whose failures are ignored. *)
Clear ==
    /\ web' \in {"off", web}
    /\ secure' \in {"off", secure}
    /\ left' = Ours(web', secure')

(* The part of Start and Stop that clears what CurrentAddr, which reads    *)
(* the HTTP setting only, calls ours; it may also fail to read it.         *)
ClearOwn ==
    \/ web = "own" /\ Clear
    \/ UNCHANGED <<web, secure>> /\ left' = Ours(web, secure)

(* failWith, after a rollback of the steps named: uninstalling the         *)
(* authority may fail. What is cached of certificates is not modelled.     *)
FailWith(steps) ==
    /\ state' = "error"
    /\ step' = "none"
    /\ listener' = IF "proxy" \in steps THEN "none" ELSE listener
    /\ trusted' \in IF "trust" \in steps THEN {FALSE, trusted} ELSE {trusted}

(* Start, to the end of the clearing of what an earlier process left.      *)
StartMITM ==
    /\ step = "none" /\ state # "running"
    /\ \E k \in Probes : probe[k] = "off"
    /\ ClearOwn
    /\ step' = "ca"
    /\ UNCHANGED <<state, ca, loaded, trusted, listener, probes>>

(* EnsureCA: loaded already, or from disk, where a certificate without its *)
(* key is an error, or generated and saved, the certificate first.         *)
EnsureCA ==
    /\ step = "ca"
    /\ \/ /\ loaded \/ ca # "certificate"
          /\ loaded' = TRUE
          /\ ca' = IF loaded THEN ca ELSE "both"
          /\ step' = "trust"
          /\ UNCHANGED <<state, listener, trusted>>
       \/ /\ ~loaded
          /\ ca' \in IF ca = "none" THEN {"none", "certificate"} ELSE {ca}
          /\ FailWith({})
          /\ UNCHANGED loaded
    /\ UNCHANGED <<settings, probes>>

(* A failed installation may have removed an old certificate, or installed *)
(* the new one and failed to verify it; it is not rolled back.             *)
InstallTrust ==
    /\ step = "trust"
    /\ \/ /\ trusted' = TRUE
          /\ step' = "proxy"
          /\ UNCHANGED <<state, listener>>
       \/ /\ state' = "error" /\ step' = "none"
          /\ trusted' \in BOOLEAN
          /\ UNCHANGED listener
    /\ UNCHANGED <<ca, loaded, settings, probes>>

(* Proxy.Start: the port may be taken. *)
StartProxy ==
    /\ step = "proxy"
    /\ \/ /\ listener = "none"
          /\ listener' = "open"
          /\ step' = "web"
          /\ UNCHANGED <<state, trusted>>
       \/ FailWith({"trust", "ca"})
    /\ UNCHANGED <<ca, loaded, settings, probes>>

(* IsHealthy dials the listener. *)
IsHealthy == listener = "open"

(* Set, its first command; also of a user whose own proxy is in use. *)
SetWebProxy ==
    /\ step = "web"
    /\ \/ /\ IsHealthy
          /\ web' = "own"
          /\ step' = "secure"
          /\ UNCHANGED <<state, listener, trusted, left>>
       \/ /\ FailWith({"proxy", "trust", "ca"})
          /\ UNCHANGED <<web, left>>
    /\ UNCHANGED <<ca, loaded, secure, probes>>

(* Its second command. If that fails the rollback leaves the first one's   *)
(* setting. Otherwise the manager runs, and a probe with it.               *)
SetSecureProxy ==
    /\ step = "secure"
    /\ \/ /\ secure' = "own"
          /\ left' = FALSE
          /\ state' = "running" /\ step' = "none"
          /\ \E k \in Probes :
                /\ probe[k] = "off"
                /\ probe' = [probe EXCEPT ![k] = "tick"]
                /\ cancelled' = [cancelled EXCEPT ![k] = FALSE]
          /\ UNCHANGED <<listener, trusted>>
       \/ /\ FailWith({"proxy", "trust", "ca"})
          /\ left' = Ours(web, secure)
          /\ UNCHANGED <<secure, probes>>
    /\ UNCHANGED <<ca, loaded, web>>

(* Stop, in any other state than stopped; the authority stays trusted. *)
Stop ==
    /\ state' = "stopped"
    /\ listener' = "none"
    /\ cancelled' = [k \in Probes |-> TRUE]
    /\ ClearOwn
    /\ UNCHANGED <<step, ca, loaded, trusted>>

StopMITM ==
    /\ step = "none" /\ state # "stopped"
    /\ Stop
    /\ UNCHANGED probe

(* The process crashes, or is killed while a start is under way; or it     *)
(* quits when it is stopped. Nothing of this is undone by the next one     *)
(* before its own start.                                                   *)
Restart ==
    /\ state' = "stopped" /\ step' = "none"
    /\ loaded' = FALSE /\ listener' = "none"
    /\ probe' = [k \in Probes |-> "off"]
    /\ cancelled' = [k \in Probes |-> FALSE]
    /\ left' = Ours(web, secure)
    /\ UNCHANGED <<ca, trusted, web, secure>>

-----------------------------------------------------------------------------
(* Mutant of CheckProxy: a listener that is set is healthy. *)
CheckListenerSet(k) ==
    /\ probe[k] = "tick"
    /\ probe' = [probe EXCEPT ![k] =
                    IF cancelled[k] THEN "off" ELSE IF listener = "none" THEN "unhealthy" ELSE "tick"]
    /\ UNCHANGED <<state, step, ca, loaded, trusted, listener, settings, cancelled>>

(* HealthProbe.Run: its ticker and its cancellation may be ready at once,  *)
(* and then either is taken.                                               *)
CheckProxy(k) ==
    /\ probe[k] = "tick"
    /\ probe' \in {[probe EXCEPT ![k] = l] :
                      l \in IF cancelled[k] THEN {"off", IF IsHealthy THEN "tick" ELSE "unhealthy"}
                            ELSE {IF IsHealthy THEN "tick" ELSE "unhealthy"}}
    /\ UNCHANGED <<state, step, ca, loaded, trusted, listener, settings, cancelled>>

(* onUnhealthy: a stop of the manager, in whatever run it is by now. *)
ProbeStops(k) ==
    /\ probe[k] = "unhealthy" /\ step = "none"
    /\ probe' = [probe EXCEPT ![k] = "off"]
    /\ IF state = "stopped"
       THEN UNCHANGED <<state, step, ca, loaded, trusted, listener, settings, cancelled>>
       ELSE Stop

(* The listener stops accepting. *)
ListenerDies ==
    /\ listener = "open"
    /\ listener' = "dead"
    /\ UNCHANGED <<state, step, ca, loaded, trusted, settings, probes>>

(* The user changes the system's settings, or one of them. *)
UserSets ==
    /\ web' \in {web, "off", "user"}
    /\ secure' \in {secure, "off", "user"}
    /\ left' = (Ours(web', secure') /\ (left \/ web' # secure'))
    /\ UNCHANGED <<state, step, ca, loaded, trusted, listener, probes>>

StartStep == EnsureCA \/ InstallTrust \/ StartProxy \/ SetWebProxy \/ SetSecureProxy

Next ==
    \/ StartMITM \/ EnsureCA \/ InstallTrust \/ StartProxy \/ SetWebProxy \/ SetSecureProxy
    \/ StopMITM \/ Restart \/ ListenerDies \/ UserSets
    \/ \E k \in Probes : CheckProxy(k) \/ ProbeStops(k)

(* A start goes on, a probe's ticker fires, and its stop gets the lock.    *)
Fairness ==
    /\ WF_vars(StartStep)
    /\ \A k \in Probes : WF_vars(CheckProxy(k)) /\ WF_vars(ProbeStops(k))

Spec == Init /\ [][Next]_vars /\ Fairness

-----------------------------------------------------------------------------
TypeOK ==
    /\ state \in {"stopped", "running", "error"}
    /\ step \in {"none", "ca", "trust", "proxy", "web", "secure"}
    /\ ca \in {"none", "certificate", "both"} /\ loaded \in BOOLEAN /\ trusted \in BOOLEAN
    /\ loaded => ca = "both"
    /\ listener \in {"none", "open", "dead"} /\ (listener = "none" => state # "running")
    /\ web \in Owner /\ secure \in Owner /\ left \in BOOLEAN
    /\ probe \in [Probes -> {"off", "tick", "unhealthy"}]
    /\ cancelled \in [Probes -> BOOLEAN]

(* The system's traffic does not stay pointed at a proxy that is not       *)
(* there: not after a failed start, a stop or the end of the listener,     *)
(* whatever probes of older runs still do. (A setting that a crash, a      *)
(* failed command or half a change by the user left stays until the next   *)
(* start.)                                                                 *)
Unserved == Ours(web, secure) /\ ~left /\ listener # "open"
TrafficServed == Unserved ~> ~Unserved
=============================================================================
