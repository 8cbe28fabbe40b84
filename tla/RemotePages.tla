---------------------------- MODULE RemotePages ----------------------------
(***************************************************************************)
(* What the wrappers that fetch their rows page by page have in common:    *)
(* the state an instance keeps between two calls, and the remote side that *)
(* answers one request with one page and the place where the next begins.  *)
(***************************************************************************)
EXTENDS Integers, Sequences, FiniteSetsExt

CONSTANTS
  Wrappers,   \* the wrappers of this instance
  Sparse,     \* those whose remote side may answer with short or empty pages
  Asks,       \* what a scan may be begun with
  Rows,
  Remote,     \* Remote[a]: the rows the remote side has for a, in its order
  Limit,      \* Limit[a]: the LIMIT pushed down with a, or All
  Offset,     \* Offset[a]: the OFFSET pushed down with it
  All,        \* no LIMIT was pushed down
  PageSize,   \* the rows of a full page
  MaxPages,   \* the option max_pages of openapi
  MaxTries    \* MaxTries[w]: how often w asks again when told to slow down

ASSUME PageAssumption ==
  /\ Sparse \subseteq Wrappers
  /\ Remote \in [Asks -> Seq(Rows)]
  /\ All \notin Int
  /\ Limit \in [Asks -> Nat \cup {All}]
  /\ Offset \in [Asks -> Nat]
  /\ PageSize \in Nat \ {0} /\ MaxPages \in Nat \ {0}
  /\ MaxTries \in [Wrappers -> Nat \cup {All}]

\* Postgres takes LIMIT and OFFSET again, so it needs the rows of both.
Wanted(a) == IF Limit[a] = All THEN All ELSE Limit[a] + Offset[a]

\* The result the remote side computes when it is given the LIMIT itself.
Limited(a) ==
  IF Wanted(a) = All THEN Remote[a] ELSE SubSeq(Remote[a], 1, Min({Wanted(a), Len(Remote[a])}))

-----------------------------------------------------------------------------
(* An instance: page is the page it holds and idx how many rows of it were *)
(* consumed, next the place where the next page begins or NoPage, prev the *)
(* place before it, cnt a count of rows, no a count of pages, lim the      *)
(* limit it keeps, on whether its first request was made, tries the        *)
(* requests of this call that were turned away.                            *)

NoPage == -1

Fresh == [page |-> <<>>, idx |-> 0, next |-> NoPage, prev |-> NoPage,
          cnt |-> 0, no |-> 0, lim |-> All, on |-> FALSE, tries |-> 0]

Instances ==
  [page : Seq(Rows), idx : Nat, next : Nat \cup {NoPage}, prev : Nat \cup {NoPage},
   cnt : Nat, no : Nat, lim : Nat \cup {All}, on : BOOLEAN, tries : Nat]

-----------------------------------------------------------------------------
(* The remote side, asked for n rows of the result r from place p on.      *)

Full(r, p, n) == SubSeq(r, p + 1, Min({p + n, Len(r)}))

\* A full page, with a place to go on from if rows are left.
FullPage(r, p, n) ==
  [page |-> Full(r, p, n), next |-> IF p + n < Len(r) THEN p + n ELSE NoPage]

\* It may filter what it read, or not know yet that nothing is left.
ShortPages(r, p, n) ==
  {[page |-> Full(r, p, k), next |-> p + Len(Full(r, p, k))] : k \in 0..n}

Pages(w, r, p, n) ==
  {FullPage(r, p, n)} \cup (IF w \in Sparse THEN ShortPages(r, p, n) ELSE {})

\* Faulty: the index into the page before is kept.
HoldingOn(x, s) == [x EXCEPT !.page = s.page, !.next = s.next]

\* The instance that holds the answer s.
Holding(x, s) == [x EXCEPT !.page = s.page, !.idx = 0, !.next = s.next]
=============================================================================
