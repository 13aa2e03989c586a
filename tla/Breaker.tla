------------------------------- MODULE Breaker -------------------------------
(***************************************************************************)
(* The circuit breaker record of providers/retry.go and the four things    *)
(* the gateway does with it.  Time is relative: openFor is what is left,   *)
(* in ticks, of openUntil - time.Now(), so "now is before openUntil" is    *)
(* openFor > 0.  Below the threshold openUntil is never read, so openFor   *)
(* is 0 there.                                                             *)
(***************************************************************************)
EXTENDS Naturals

CONSTANTS
    MaxFailures,    \* failures in a row that trip the breaker (5 in the gateway)
    ResetTimeout    \* ticks an open breaker rejects for (30s in the gateway)

ASSUME BreakerAssumption ==
    /\ MaxFailures \in Nat \ {0}
    /\ ResetTimeout \in Nat \ {0}

BreakerState == [failures : Nat, openFor : 0 .. ResetTimeout]

NewBreaker == [failures |-> 0, openFor |-> 0]

Tripped(b) == b.failures >= MaxFailures

\* Mutant of IsOpen: the timeout is forgotten.
IsOpenForever(b) == Tripped(b)

IsOpen(b) == Tripped(b) /\ b.openFor > 0

\* Mutant of Allows: one failure too late.
AllowsOneMore(b) == ~(b.failures > MaxFailures /\ b.openFor > 0)

\* Allow answers no only while the breaker is open ...
Allows(b) == ~IsOpen(b)

\* ... and forgets every failure when it lets the first request through after
\* the timeout: the code has no half-open state in which one probe decides.
AfterAllow(b) == IF Tripped(b) THEN NewBreaker ELSE b

\* Every failure at or above the threshold restarts the timeout, also the
\* failure of a request that was sent before the breaker tripped.
AfterFailure(b) ==
    LET f == b.failures + 1
    IN  [failures |-> f, openFor |-> IF f >= MaxFailures THEN ResetTimeout ELSE 0]

AfterSuccess(b) == NewBreaker

AfterTick(b) == [b EXCEPT !.openFor = IF @ > 0 THEN @ - 1 ELSE 0]

=============================================================================
