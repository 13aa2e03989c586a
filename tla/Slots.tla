-------------------------------- MODULE Slots --------------------------------
(***************************************************************************)
(* What a channel's concurrency limit promises: at most limit requests are *)
(* in service at once, and any number when it is 0.  The promise is for as *)
(* long as the limit stays what it is; a request under way when it changes *)
(* was admitted by another rule.                                           *)
(***************************************************************************)
EXTENDS Naturals

VARIABLES
    inService,  \* how many requests are in service
    limit,
    steady      \* the limit has not been changed yet

vars == <<inService, limit, steady>>

Init == inService = 0 /\ limit \in Nat /\ steady = TRUE

Enter ==
    /\ steady /\ limit > 0 => inService < limit
    /\ inService' = inService + 1
    /\ UNCHANGED <<limit, steady>>

Leave ==
    /\ inService > 0
    /\ inService' = inService - 1
    /\ UNCHANGED <<limit, steady>>

ChangeLimit ==
    /\ limit' \in Nat
    /\ steady' = FALSE
    /\ UNCHANGED inService

Next == Enter \/ Leave \/ ChangeLimit

Spec == Init /\ [][Next]_vars

=============================================================================
