---------------------------- MODULE TokenBucket ----------------------------
(***************************************************************************)
(* What the relay's rate limiter promises: a bucket per key that is full   *)
(* at first, gains one part in every unit of time until it is full again,  *)
(* and pays Cost parts for each request. A request passes if and only if   *)
(* its key's bucket can pay.                                               *)
(***************************************************************************)
EXTENDS Naturals

CONSTANTS Keys, Burst, Cost

VARIABLES
    parts,      \* what each key's bucket holds
    answer      \* the last request's key and whether it passed

Min2(a, b) == IF a <= b THEN a ELSE b

Init ==
    /\ parts = [k \in Keys |-> Burst]
    /\ answer = <<>>

Pass(k) ==
    /\ parts[k] >= Cost
    /\ parts' = [parts EXCEPT ![k] = @ - Cost]
    /\ answer' = <<k, TRUE>>

Refuse(k) ==
    /\ parts[k] < Cost
    /\ answer' = <<k, FALSE>>
    /\ UNCHANGED parts

Refill ==
    /\ parts' = [k \in Keys |-> Min2(Burst, parts[k] + 1)]
    /\ UNCHANGED answer

Next == Refill \/ \E k \in Keys : Pass(k) \/ Refuse(k)

Spec == Init /\ [][Next]_<<parts, answer>>
=============================================================================
