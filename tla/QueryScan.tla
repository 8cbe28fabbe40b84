----------------------------- MODULE QueryScan -----------------------------
(***************************************************************************)
(* What a query may assume of a scan of a foreign table, whatever the      *)
(* wrapper behind it does: every pass over the table delivers each row     *)
(* that satisfies the WHERE clause under the parameter values of that      *)
(* pass, once, and the scan says it is finished only when none is left.    *)
(*                                                                         *)
(* This is the promise of the executor callbacks of                        *)
(* supabase-wrappers/src/scan.rs taken together; ForeignScan, which models *)
(* them one by one, is checked and proved to implement it.                 *)
(***************************************************************************)
EXTENDS Integers

CONSTANTS
  Rows,     \* the rows of the foreign table
  Quals,    \* the conditions of the WHERE clause
  Vals,     \* the values a condition may compare a column with
  NULL,     \* SQL NULL
  Cell      \* Cell[r][q]: the value of the column of condition q in row r

VARIABLES
  cur,      \* the value each condition compares with in this pass
  got,      \* the rows delivered in this pass
  done,     \* the scan has reported the end of this pass
  running   \* an execution of the query is under way

vars == <<cur, got, done, running>>

\* A row satisfies the clause when every comparison is true; a comparison
\* with NULL never is.
Answer(c) == {r \in Rows : \A q \in Quals : c[q] # NULL /\ Cell[r][q] = c[q]}

Init ==
  /\ cur \in [Quals -> Vals \cup {NULL}]
  /\ got = {}
  /\ done = FALSE
  /\ running = FALSE

\* A new execution, or a new pass of the one under way, with its own values.
StartPass ==
  /\ cur' \in [Quals -> Vals \cup {NULL}]
  /\ got' = {}
  /\ done' = FALSE
  /\ running' \in BOOLEAN

\* One tuple reaches the query. The tuple of a plain scan stands for one row,
\* that of an aggregate scan for all the rows it was computed over.
Deliver ==
  /\ running
  /\ ~done
  /\ \E T \in SUBSET (Answer(cur) \ got) : T # {} /\ got' = got \cup T
  /\ UNCHANGED <<cur, done, running>>

\* The end of the pass is reported only when nothing is missing.
Finish ==
  /\ running
  /\ got = Answer(cur)
  /\ done' = TRUE
  /\ UNCHANGED <<cur, got, running>>

\* The query ends or is aborted.
Stop ==
  /\ running' = FALSE
  /\ got' = {}
  /\ done' = FALSE
  /\ UNCHANGED cur

Next == StartPass \/ Deliver \/ Finish \/ Stop

Spec == Init /\ [][Next]_vars
=============================================================================
