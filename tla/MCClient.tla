------------------------------ MODULE MCClient ------------------------------
(***************************************************************************)
(* Instances of Client for TLC: two operators with an agent each.           *)
(***************************************************************************)
EXTENDS Client

CONSTANTS w1, w2, a1, a2, tA, tB

MCOperatorOf == [a \in {a1, a2} |-> IF a = a1 THEN w1 ELSE w2]

\* Each operator has a fund for its agent, and one has a fund for the other's too.
MCWithFund == {<<w1, a1>>, <<w2, a2>>, <<w1, a2>>}

\* Less than a page, two full pages, and two pages and a half.
MCRowsOf == [f \in {a1, a2, None} |-> IF f = a1 THEN 1 ELSE IF f = a2 THEN 4 ELSE 5]

=============================================================================
