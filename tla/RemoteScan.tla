----------------------------- MODULE RemoteScan -----------------------------
(***************************************************************************)
(* What the framework relies on when it drives the instance of a wrapper   *)
(* through begin_scan, iter_scan, re_scan and end_scan (trait              *)
(* ForeignDataWrapper, supabase-wrappers/src/interface.rs): between two    *)
(* beginnings a scan returns each row at most once, and it returns None    *)
(* only when no row the query needs is missing; re_scan starts again from  *)
(* the first row.  Rows the query does not need may be returned too, since *)
(* Postgres evaluates the clause again.                                    *)
(***************************************************************************)
EXTENDS Sequences, Functions

CONSTANTS
  Asks,    \* what begin_scan may be asked: quals, columns, sorts, limit
  Rows,    \* the rows of the remote table
  Needed   \* Needed[a]: the rows the query needs of a scan begun with a

VARIABLES
  open,    \* begin_scan was called and end_scan was not
  asked,   \* what the scan was begun with
  given,   \* the rows returned since the scan began or was rewound, in order
  ended    \* iter_scan has returned None since then

vars == <<open, asked, given, ended>>

Init ==
  /\ open = FALSE
  /\ asked \in Asks
  /\ given = <<>>
  /\ ended = FALSE

\* begin_scan; the framework ends an open scan first when it restarts it.
Begin ==
  /\ asked' \in Asks
  /\ open' = TRUE
  /\ given' = <<>>
  /\ ended' = FALSE

\* iter_scan fills the row.
Give ==
  /\ open /\ ~ended
  /\ \E r \in Rows \ Range(given) : given' = Append(given, r)
  /\ UNCHANGED <<open, asked, ended>>

\* iter_scan returns None.
Finish ==
  /\ open
  /\ Needed[asked] \subseteq Range(given)
  /\ ended' = TRUE
  /\ UNCHANGED <<open, asked, given>>

\* re_scan.
Rewind ==
  /\ open
  /\ given' = <<>>
  /\ ended' = FALSE
  /\ UNCHANGED <<open, asked>>

\* end_scan, or an error that makes the framework drop the instance.
Close ==
  /\ open' = FALSE
  /\ given' = <<>>
  /\ ended' = FALSE
  /\ UNCHANGED asked

Next == Begin \/ Give \/ Finish \/ Rewind \/ Close

Spec == Init /\ [][Next]_vars
=============================================================================
