---------------------------- MODULE RemoteRequest ----------------------------
(***************************************************************************)
(* What a wrapper asks the remote side for, and what may be answered.  The *)
(* remote side is known from the texts the wrappers send it.               *)
(***************************************************************************)
EXTENDS QualExtract

CONSTANTS
  Refused,    \* an error of the wrapper or of the remote side instead of rows
  MaxInt,     \* the largest number of rows that can be written
  Unit,       \* the times between two whole seconds (or milliseconds)
  Hour,       \* the first time a log or metric query covers by default
  Now,        \* the time it is
  Latest      \* the key of the last row of a chain

ASSUME RequestAssumption == MaxInt \in Nat /\ Unit \in Nat \ {0} /\ Hour \in Nat /\ Now \in Nat

Atom(field, op, val) == [field |-> field, op |-> op, val |-> val]

\* groups: a disjunction of conjunctions of atoms.  order and max: as in ORDER BY
\* and LIMIT, All without one.  more: max is only where the wrapper stops asking
\* for pages.  echo: what the returned rows are made to say of a column.
Request(groups, order, max, more, echo) ==
  [groups |-> groups, order |-> order, max |-> max, more |-> more, echo |-> echo]

Everything == <<<<>>>>

\* What a condition says of a row.  full, contains and lacks are text searches;
\* other matches NULL as well; never is for what no row has.
Holds(a, r) ==
  LET x == r[a.field]
  IN  CASE a.op = "never"    -> FALSE
        [] a.op = "is"       -> IF a.val = Word THEN x = Null ELSE x = a.val
        [] a.op = "is not"   -> IF a.val = Word THEN x # Null ELSE x # a.val
        [] a.op = "full"     -> x # Null /\ x = a.val
        [] a.op = "notfull"  -> x # Null /\ x # a.val
        [] a.op = "contains" -> x # Null /\ Within(a.val, x)
        [] a.op = "lacks"    -> x = Null \/ ~Within(a.val, x)
        [] a.op = "in"       -> x \in Range(a.val)
        [] a.op = "not in"   -> a.val = <<>> \/ (x # Null /\ x \notin Range(a.val))
        [] a.op = "other"    -> x \notin Range(a.val)
        [] OTHER             -> Compare(a.op, x, a.val) = TRUE

Matching(req, rows) ==
  {r \in rows : \E i \in DOMAIN req.groups :
                  \A j \in DOMAIN req.groups[i] : Holds(req.groups[i][j], r)}

Echoed(echo, r) ==
  [c \in DOMAIN r |->
     IF \E e \in echo : e.field = c THEN (CHOOSE e \in echo : e.field = c).val ELSE r[c]]

\* The sets of rows the wrapper may come back with.
Answers(req, rows) ==
  LET matching == Matching(req, rows)
      firsts   == IF req.max = All THEN {matching} ELSE Firsts(matching, req.order, req.max)
      all      == IF req.more THEN {matching} ELSE {}
  IN  {{Echoed(req.echo, r) : r \in some} : some \in firsts \cup all}

-----------------------------------------------------------------------------
\* offset + count in 64 bits.
RealLimit(lim) ==
  IF lim.count = All THEN All
  ELSE LET sum == lim.offset + lim.count
       IN  IF sum > MaxInt THEN sum - 2 * (MaxInt + 1) ELSE sum

Negative(max) == max # All /\ max < 0

AtomOf(q) == Atom(q.field, q.op, q.val)

\* The quals of the fields with one of the operators and a single cell.
Cells(quals, fields, ops) ==
  {i \in DOMAIN quals : quals[i].field \in fields /\ quals[i].op \in ops /\ ~quals[i].arr}

\* The conjunction of what is made of every qual: no atom, or some.
Every(quals, Of(_)) == <<FlattenSeq([i \in DOMAIN quals |-> Of(quals[i])])>>

\* One object is asked for by the first of these.
ByKey(quals, is) == <<<<Atom("k", "=", quals[Min(is)].val)>>>>
=============================================================================
