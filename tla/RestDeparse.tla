----------------------------- MODULE RestDeparse -----------------------------
(***************************************************************************)
(* The wrappers of REST and GraphQL services: one object by its id, or a   *)
(* list with the filters the service has.                                  *)
(***************************************************************************)
EXTENDS ApiDeparse

\* Of the quals on the id, the fields of equality filters, the dates.
EqualCell(fields, q) ==
  IF q.field \in fields /\ q.op = "=" /\ ~q.arr THEN <<AtomOf(q)>> ELSE <<>>

\* A list counts as alternatives, even the list of "= ALL".
EqualOrIn(fields, q) ==
  IF q.field \in fields /\ q.op = "="
  THEN <<Atom(q.field, "in", IF q.arr THEN q.val ELSE <<q.val>>)>> ELSE <<>>

ById(quals, list) ==
  LET ids == Cells(quals, {"k"}, {"="})
  IN  IF ids = {} THEN list ELSE Filtered(ByKey(quals, ids))

Hubspot(quals, lim) == ById(quals, Paged(Everything, lim))

Clerk(quals)   == ById(quals, Filtered(Everything))
Shopify(quals) == ById(quals, Filtered(Everything))

\* A date is cut off at its second.
OrbQual(q) ==
  IF q.field = "t" /\ ~q.arr /\ q.op \in Comparisons \ {"<>"}
  THEN <<Atom("t", q.op, (q.val \div Unit) * Unit)>>
  ELSE EqualOrIn({"s"}, q)
Orb(quals, lim) == ById(quals, Paged(Every(quals, OrbQual), lim))

\* Dates become ranges of whole seconds that are never narrower.
PaddleQual(q) ==
  LET floor == (q.val \div Unit) * Unit
      from  == <<Atom("t", ">=", floor)>>
      until == <<Atom("t", "<", floor + Unit)>>
  IN  CASE q.field = "t" /\ ~q.arr /\ q.op \in {">", ">="} -> from
        [] q.field = "t" /\ ~q.arr /\ q.op \in {"<", "<="} -> until
        [] q.field = "t" /\ ~q.arr /\ q.op = "="           -> from \o until
        [] q.arr /\ (~q.useOr \/ q.val = <<>>)             -> <<>>
        [] OTHER -> EqualOrIn({"k", "s"}, q)
Paddle(quals) == ById(quals, Filtered(Every(quals, PaddleQual)))

\* The first qual on the id is taken for its value, whatever its operator.
Notion(quals) ==
  LET ids == {i \in DOMAIN quals : quals[i].field = "k"}
  IN  IF ids = {} \/ quals[Min(ids)].arr THEN Filtered(Everything)
      ELSE Filtered(ByKey(quals, ids))

\* The last qual on the number is taken for its value, whatever its operator; the
\* newest block without one.
Infura(quals) ==
  LET numbers == {i \in DOMAIN quals : quals[i].field = "k" /\ ~quals[i].arr /\ quals[i].val # Word}
  IN  Filtered(<<<<Atom("k", "=", IF numbers = {} THEN Latest ELSE quals[Max(numbers)].val)>>>>)

\* Only the bounds the service has: inclusive from, exclusive to.
LangfuseQual(q) ==
  IF q.field = "t" /\ ~q.arr /\ q.op \in {">=", "<"} THEN <<AtomOf(q)>>
  ELSE EqualCell({"s"}, q)
Langfuse(quals, lim) ==
  Request(Every(quals, LangfuseQual), <<>>, RealLimit(lim), FALSE, {})

\* By id only when the id is all that is asked.
Stripe(quals, lim) ==
  IF Len(quals) = 1 /\ Cells(quals, {"k"}, {"="}) # {} THEN Filtered(ByKey(quals, {1}))
  ELSE Paged(Every(quals, LAMBDA q : EqualCell({"s", "b"}, q)), lim)

Slack(quals) == Filtered(Every(quals, LAMBDA q : EqualCell({"s"}, q)))

\* Every equality is a query parameter, and the rows are made to say what it says.
\* A time is no parameter.
Openapi(quals, lim) ==
  LET ids    == Cells(quals, {"k"}, {"="})
      params == Cells(quals, {"v", "b", "s"}, {"="})
      Echo(is) == {[field |-> quals[i].field, val |-> quals[i].val] : i \in is}
  IN  IF ids # {} THEN [Filtered(ByKey(quals, ids)) EXCEPT !.echo = Echo({Min(ids)})]
      ELSE [Paged(Every(quals, LAMBDA q : EqualCell({"v", "b", "s"}, q)), lim)
              EXCEPT !.echo = Echo(params)]

\* airtable, firebase, cal, calendly, redis, auth0, cognito, snowflake's meta
\* tables: nothing is pushed down.
PushesNothing == Filtered(Everything)
=============================================================================
