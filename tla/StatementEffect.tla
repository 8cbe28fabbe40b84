-------------------------- MODULE StatementEffect --------------------------
(***************************************************************************)
(* What an INSERT, UPDATE or DELETE promises, whatever the wrapper: it     *)
(* makes the changes of its statement and no other, each at once, and      *)
(* reports success only when all are made.  There is no remote             *)
(* transaction: changes made before an error stay.                         *)
(***************************************************************************)
EXTENDS Integers

VARIABLES
  table,     \* the remote rows, and how often each is there
  changes,   \* the changes of the statement: [old |-> {row} or {}, new |-> {row} or {}]
  todo,      \* those still to be made
  repeats,   \* a row may be created again, by a client that sends again
  outcome    \* "open", "done" or "failed"

vars == <<table, changes, todo, repeats, outcome>>

\* The table once the changes in S are made.
Made(S) ==
  LET old == UNION {c.old : c \in S}
      new == UNION {c.new : c \in S}
      copies(r) == (IF r \notin DOMAIN table THEN 0
                    ELSE IF r \in old THEN table[r] - 1 ELSE table[r])
                     + (IF r \in new THEN 1 ELSE 0)
  IN  [r \in {x \in DOMAIN table \cup new : copies(x) > 0} |-> copies(r)]

Init == outcome = "open" /\ todo = changes

Write ==
  /\ outcome = "open"
  /\ \E S \in SUBSET todo :
       /\ todo' = todo \ S
       /\ table' = Made(S)
  /\ outcome' \in {"open", "failed"} /\ UNCHANGED <<changes, repeats>>

\* The changes of the call that ends the statement.
WriteAndFinish ==
  /\ outcome = "open" /\ outcome' = "done"
  /\ table' = Made(todo)
  /\ todo' = {} /\ UNCHANGED <<changes, repeats>>

\* A row that was created already is created again.
Repeat ==
  /\ outcome = "open" /\ repeats
  /\ \E c \in changes \ todo : c.old = {} /\ table' = Made({c})
  /\ outcome' \in {"open", "failed"} /\ UNCHANGED <<changes, todo, repeats>>

\* Another client deletes a row: nothing is left to be done to it.
LosesRow ==
  /\ outcome = "open"
  /\ \E r \in DOMAIN table :
       /\ table' = [x \in DOMAIN table \ {r} |-> table[x]]
       /\ todo' = {c \in todo : r \notin c.old}
  /\ UNCHANGED <<changes, repeats, outcome>>

Next == Write \/ WriteAndFinish \/ Repeat \/ LosesRow

Spec == Init /\ [][Next]_vars
=============================================================================
