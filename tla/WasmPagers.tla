----------------------------- MODULE WasmPagers -----------------------------
(***************************************************************************)
(* The wrappers compiled to Wasm, under wasm-wrappers/fdw/.  Each keeps    *)
(* one instance for the life of the Wasm component; begin_scan and re_scan *)
(* make the first request, iter_scan the others.  x is the instance, a     *)
(* what the scan was begun with; ...Fetch is the set of instances one      *)
(* request may leave behind.                                               *)
(***************************************************************************)
EXTENDS RemotePages

Whole(r) == [page |-> r, next |-> NoPage]

\* cal, cfd1 and infura ask once; infura rewinds without asking again.
CalFetch(x, a)       == {Holding(x, Whole(Remote[a]))}
CalEnd(x)            == [x EXCEPT !.page = <<>>]

Cfd1Fetch(x, a)      == {Holding(x, Whole(Limited(a)))}
Cfd1End(x)           == [x EXCEPT !.page = <<>>, !.idx = 0]

InfuraBegin(x, a)    == [x EXCEPT !.page = <<>>, !.idx = 0]
InfuraFetch(x, a)    == {[x EXCEPT !.page = @ \o Remote[a]]}
InfuraReScan(x)      == [x EXCEPT !.idx = 0]
InfuraEnd(x)         == [x EXCEPT !.page = <<>>]

\* calendly and notion collect all pages before they return.
Collected(w, x, a) ==
  {[x EXCEPT !.page = @ \o s.page, !.next = s.next] :
     s \in Pages(w, Remote[a], IF x.next = NoPage THEN 0 ELSE x.next, PageSize)}

CalendlyReset(x)     == [x EXCEPT !.page = <<>>, !.idx = 0, !.next = NoPage]
CalendlyFetch(x, a)  == Collected("calendly", x, a)
CalendlyEnd(x)       == [x EXCEPT !.page = <<>>]

NotionReset(x)       == [x EXCEPT !.page = <<>>, !.idx = 0, !.next = NoPage]
NotionFetch(x, a)    == Collected("notion", x, a)
NotionEnd(x)         == [x EXCEPT !.page = <<>>]

\* The blocks of all pages are appended to the rows the instance has.
NotionBlocksReset(x) == [x EXCEPT !.idx = 0, !.next = NoPage]

\* A statement and its first partition, then one partition after the other.
SnowflakeInit(x)     == [x EXCEPT !.next = NoPage]
SnowflakeFetch(x, a) ==
  {Holding(x, s) :
     s \in Pages("snowflake", Limited(a), IF x.next = NoPage THEN 0 ELSE x.next, PageSize)}
SnowflakeEnd(x)      == [x EXCEPT !.page = <<>>]

\* hubspot and orb go on from the cursor they hold, whichever scan left it.
CursorFetch(w, x, a) ==
  {[Holding(x, s) EXCEPT !.lim = Wanted(a)] :
     s \in Pages(w, Remote[a], IF x.next = NoPage THEN 0 ELSE x.next, PageSize)}

HubspotBegin(x, a)   == x
HubspotFetch(x, a)   == CursorFetch("hubspot", x, a)
HubspotReScan(x)     == [x EXCEPT !.next = NoPage, !.cnt = 0]
HubspotEnd(x)        == [x EXCEPT !.page = <<>>]

OrbBegin(x, a)       == x
OrbFetch(x, a)       == CursorFetch("orb", x, a)
\* Faulty: the rows of the pass before count for the LIMIT of the next.
OrbReScanKeepsCount(x) == [x EXCEPT !.next = NoPage]

OrbReScan(x)         == [x EXCEPT !.next = NoPage, !.cnt = 0]
OrbEnd(x)            == [x EXCEPT !.page = <<>>]

\* shopify keeps its cursor over begin_scan and over re_scan.
ShopifyFetch(x, a)   ==
  {Holding(x, s) :
     s \in Pages("shopify", Remote[a], IF x.next = NoPage THEN 0 ELSE x.next, PageSize)}
ShopifyEnd(x)        == [x EXCEPT !.page = <<>>]

PaddleReset(x)       == [x EXCEPT !.next = NoPage]
PaddleFetch(x, a)    ==
  {Holding(x, s) :
     s \in Pages("paddle", Remote[a], IF x.next = NoPage THEN 0 ELSE x.next, PageSize)}
PaddleEnd(x)         == [x EXCEPT !.page = <<>>]

\* next is src_offset: iter_scan moves it past the page it has, then asks.
ClerkReset(x)        == [x EXCEPT !.page = <<>>, !.idx = 0, !.next = 0]
ClerkFetch(x, a)     ==
  LET offset == x.next + Len(x.page)
  IN  {Holding(x, [page |-> Full(Remote[a], offset, PageSize), next |-> offset])}
ClerkEnd(x)          == [x EXCEPT !.page = <<>>]

\* cnt counts the rows that `remaining` of langfuse was lowered by.
LangfuseLimit(x)     == IF x.lim = All THEN PageSize ELSE Min({PageSize, x.lim - x.cnt})
LangfuseBegin(x, a)  == [x EXCEPT !.lim = Wanted(a), !.cnt = 0, !.next = NoPage]

\* The endpoints with a cursor; an empty page is the last one.
LangfuseFetch(x, a)  ==
  {Holding(x, [s EXCEPT !.next = IF s.page = <<>> THEN NoPage ELSE @]) :
     s \in Pages("langfuse", Remote[a], IF x.next = NoPage THEN 0 ELSE x.next, LangfuseLimit(x))}

\* The endpoints with page numbers: no is next_page, which begin_scan leaves as
\* it is, and the size of a page is the limit of the request.
LangfuseNumbered(x, a) ==
  LET n     == LangfuseLimit(x)
      p     == IF x.no > 1 THEN x.no ELSE 1
      rows  == Full(Remote[a], (p - 1) * n, n)
      again == n > 0 /\ p * n < Len(Remote[a]) /\ rows # <<>>
  IN  {[Holding(x, [page |-> rows, next |-> IF again THEN 0 ELSE NoPage]) EXCEPT !.no = p + 1]}
LangfuseEnd(x)       == [x EXCEPT !.page = <<>>, !.idx = 0, !.next = NoPage]

-----------------------------------------------------------------------------
(* slack: LIMIT and OFFSET are applied to one page.                        *)

SlackSliced(rows, a) ==
  IF Limit[a] = All THEN rows
    ELSE SubSeq(rows, Offset[a] + 1, Min({Len(rows), Offset[a] + Limit[a]}))

SlackReset(x)        == [x EXCEPT !.next = NoPage, !.idx = 0]

\* The cursor of the answer is taken only if there was a cursor before.
SlackUsersFetch(x, a) ==
  LET n == IF Limit[a] # All /\ Limit[a] > 0 THEN Min({PageSize, Limit[a]}) ELSE PageSize
      p == IF x.next = NoPage THEN 0 ELSE x.next
      sliced(s) == SlackSliced(s.page, a)
      enough(s) == Limit[a] # All /\ Len(sliced(s)) >= Limit[a]
  IN  {Holding(x, [page |-> sliced(s),
                   next |-> IF x.next = NoPage \/ enough(s) THEN NoPage ELSE s.next]) :
         s \in Pages("slack_users", Remote[a], p, n)}

SlackGroupsFetch(x, a) == {Holding(x, Whole(SlackSliced(Remote[a], a)))}

\* The cursor of messages and channels is kept but never sent.
SlackMessagesFetch(x, a) ==
  {Holding(x, s) : s \in Pages("slack_messages", Remote[a], 0, PageSize)}

SlackFilesFetch(x, a) == {Holding(x, Whole(Full(Remote[a], 0, PageSize)))}
SlackEnd(x)          == [x EXCEPT !.page = <<>>]

-----------------------------------------------------------------------------
(* openapi: no is pages_fetched, next and prev the tokens.                 *)

OpenapiReset(x)      == [x EXCEPT !.next = NoPage, !.prev = NoPage, !.no = 0, !.cnt = 0]
OpenapiBegin(x, a)   == [OpenapiReset(x) EXCEPT !.lim = Wanted(a)]
OpenapiSize(x)       == IF x.lim = All \/ x.lim = 0 THEN PageSize ELSE Min({PageSize, x.lim})
OpenapiFetch(x, a)   ==
  {[Holding(x, s) EXCEPT !.prev = x.next, !.no = @ + 1] :
     s \in Pages("openapi", Remote[a], IF x.next = NoPage THEN 0 ELSE x.next, OpenapiSize(x))}
OpenapiEnd(x)        == [x EXCEPT !.page = <<>>, !.idx = 0]
OpenapiStops(x)      ==
  \/ x.next = NoPage
  \/ x.lim # All /\ x.cnt >= x.lim
  \/ x.no >= MaxPages
  \/ x.next = x.prev
=============================================================================
