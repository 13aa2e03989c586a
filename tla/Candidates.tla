----------------------------- MODULE Candidates -----------------------------
(***************************************************************************)
(* The order in which forwardRequest tries the candidates of a plan.  Each *)
(* operator is one pass over a sequence of steps; what a pass looks at     *)
(* (which steps are unhealthy, which are enterprise ones, what each one's  *)
(* penalty is) is a parameter.                                             *)
(***************************************************************************)
EXTENDS Naturals, Sequences, SequencesExt

\* ReorderBySession: the step that answered the session last goes first.
BySession(plan, pinned) ==
    LET i == SelectInSeq(plan, LAMBDA s : s = pinned)
    IN  IF i <= 1 THEN plan ELSE <<plan[i]>> \o RemoveAt(plan, i)

\* Channels marked unhealthy are left out, unless that leaves nothing.
Healthy(plan, unhealthy) ==
    LET healthy == SelectSeq(plan, LAMBDA s : s \notin unhealthy)
    IN  IF healthy = <<>> THEN plan ELSE healthy

\* Bring-your-own-key channels before the platform's own.
EnterpriseFirst(plan, enterprise) ==
    SelectSeq(plan, LAMBDA s : s \in enterprise)
        \o SelectSeq(plan, LAMBDA s : s \notin enterprise)

\* The pairs (i, j), i < j, in the order the two nested loops visit them.
ExchangePairs(n) ==
    SetToSortSeq({p \in (1 .. n) \X (1 .. n) : p[1] < p[2]},
                 LAMBDA p, q : p[1] < q[1] \/ (p[1] = q[1] /\ p[2] < q[2]))

\* The exchange sort of sortCandidatesByPenalty.  It is not stable: a swap
\* carries an element past others of the same penalty.
ByPenalty(plan, points) ==
    FoldLeft(LAMBDA s, p : IF points[s[p[2]]] < points[s[p[1]]]
                           THEN [s EXCEPT ![p[1]] = s[p[2]], ![p[2]] = s[p[1]]]
                           ELSE s,
             plan, ExchangePairs(Len(plan)))

=============================================================================
