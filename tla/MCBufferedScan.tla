-------------------------- MODULE MCBufferedScan --------------------------
(***************************************************************************)
(* Four questions to a table of five rows: one that needs three rows of    *)
(* five (more than a page of two, less than two), one without LIMIT, one   *)
(* the remote side has no row for, and LIMIT 0.                            *)
(***************************************************************************)
EXTENDS BufferedScan, TLC

CONSTANTS a1, a2, a3, a4

MCAsks == {a1, a2, a3, a4}
MCRows == 1..5
MCRemote == a1 :> <<1, 2, 3, 4, 5>> @@ a2 :> <<4, 2>> @@ a3 :> <<>> @@ a4 :> <<1, 2>>
MCBound == a1 :> 3 @@ a2 :> All @@ a3 :> All @@ a4 :> 0
=============================================================================
