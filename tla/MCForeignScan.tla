--------------------------- MODULE MCForeignScan ---------------------------
(***************************************************************************)
(* A table of two columns for TLC: two conditions, two values, and three of *)
(* the four possible rows.                                                 *)
(***************************************************************************)
EXTENDS ForeignScan, TLC

CONSTANTS q1, q2, v0, v1, r1, r2, r3

MCQuals == {q1, q2}
MCVals == {v0, v1}
MCRows == {r1, r2, r3}
MCCell == (r1 :> (q1 :> v0 @@ q2 :> v1)) @@ (r2 :> (q1 :> v1 @@ q2 :> v1))
            @@ (r3 :> (q1 :> v1 @@ q2 :> v0))
=============================================================================
