------------------------------ MODULE LiveScan ------------------------------
(***************************************************************************)
(* Scans that read page by page from a source other clients change         *)
(* meanwhile: redis lists and sorted sets, which are read by index, redis  *)
(* streams, which are read on from the id of the last entry, clerk, which  *)
(* is read by offset, and auth0, which is read by page number.  The        *)
(* methods are those of NativePagers and WasmPagers, over a remote side    *)
(* that is a variable here.                                                *)
(***************************************************************************)
EXTENDS Integers, SequencesExt

CONSTANTS
  Sources,      \* redis_list, redis_stream, clerk, auth0
  Begun,        \* elements the source has at first
  MaxElements,  \* the elements there are ever
  PageSize,
  All           \* no LIMIT

ASSUME LiveAssumption ==
  /\ Sources \subseteq {"redis_list", "redis_stream", "clerk", "auth0"}
  /\ Begun \in Nat /\ MaxElements \in Nat /\ Begun <= MaxElements
  /\ PageSize \in Nat \ {0}

VARIABLES
  w,        \* the wrapper
  store,    \* the elements of the source in its order; a stream's are its ids
  last,     \* the newest element there was
  scan,     \* the instance
  open,     \* whether it scans
  given,    \* what this pass returned so far
  ended,    \* whether it returned None
  stays,    \* the elements that were there all the time since the pass began
  pulled,   \* elements others removed from the part that was read
  pushed    \* elements others put into it

vars == <<w, store, last, scan, open, given, ended, stays, pulled, pushed>>

Ask == "all"
Of(v) == [a \in {Ask} |-> v]

N == INSTANCE NativePagers WITH Wrappers <- Sources, Sparse <- {}, Asks <- {Ask}, Rows <- Nat,
       Remote <- Of(store), Limit <- Of(All), Offset <- Of(0),
       MaxPages <- 1, MaxTries <- [u \in Sources |-> 0]
P == INSTANCE WasmPagers WITH Wrappers <- Sources, Sparse <- {}, Asks <- {Ask}, Rows <- Nat,
       Remote <- Of(store), Limit <- Of(All), Offset <- Of(0),
       MaxPages <- 1, MaxTries <- [u \in Sources |-> 0]

Init ==
  /\ w \in Sources
  /\ store = [i \in 1..Begun |-> i] /\ last = Begun
  /\ scan = N!Fresh /\ open = FALSE
  /\ given = <<>> /\ ended = FALSE
  /\ stays = {} /\ pulled = 0 /\ pushed = 0

-----------------------------------------------------------------------------
(* The methods.                                                            *)

\* A page of the entries of a stream after the first k.
StreamPage(x, k) ==
  LET part == N!Full(store, k, PageSize)
  IN  [N!Holding(x, [page |-> part, next |-> x.next]) EXCEPT
         !.next = IF part = <<>> THEN @ ELSE Last(part)]

\* Faulty: the entry the cursor names is read again, as without the prefix "(".
StreamFetchInclusive(x) ==
  StreamPage(x, Cardinality({i \in DOMAIN store : store[i] < x.next}))

\* XRANGE from the id after that of the last entry, which may be gone by now.  The
\* ids of a stream ascend.
StreamFetch(x) ==
  StreamPage(x, Cardinality({i \in DOMAIN store : store[i] <= x.next}))

Fetch(x) ==
  CASE w = "redis_list"   -> N!RedisListFetch(x, Ask)
    [] w = "redis_stream" -> {StreamFetch(x)}
    [] w = "clerk"        -> P!ClerkFetch(x, Ask)
    [] w = "auth0"        -> N!Auth0Fetch(x, Ask)

\* clerk asks for its first page in begin_scan and re_scan, the others do not.
BeginScan(x) ==
  CASE w \in {"redis_list", "redis_stream"} -> {N!RedisBegin(x, Ask)}
    [] w = "clerk" -> P!ClerkFetch(P!ClerkReset(x), Ask)
    [] w = "auth0" -> {N!Auth0Begin(x, Ask)}

\* auth0 has no re_scan.
ReScan(x) ==
  CASE w \in {"redis_list", "redis_stream"} -> {N!RedisReScan(x)}
    [] w = "clerk" -> P!ClerkFetch(P!ClerkReset(x), Ask)
    [] OTHER -> {}

EndScan(x) ==
  CASE w \in {"redis_list", "redis_stream"} -> N!RedisEnd(x)
    [] w = "clerk" -> P!ClerkEnd(x)
    [] OTHER -> x

Drained(x) == x.idx >= Len(x.page)

\* clerk stops after a page that is not full, auth0 by the total it was told.
NoMorePages(x) ==
  \/ w = "clerk" /\ Len(x.page) < PageSize
  \/ w = "auth0" /\ x.next = N!NoPage

\* How many elements of the source, as it is now, count as read: the next page
\* begins after them.
Boundary(x) ==
  IF NoMorePages(x) THEN 0
  ELSE CASE w = "redis_list"   -> x.cnt + Len(x.page) - x.idx
         [] w = "clerk"        -> x.next + Len(x.page)
         [] w = "auth0"        -> x.next
         [] w = "redis_stream" -> 0

-----------------------------------------------------------------------------
(* The framework.                                                          *)

PassBegins ==
  /\ given' = <<>> /\ ended' = FALSE /\ open' = TRUE
  /\ stays' = ToSet(store) /\ pulled' = 0 /\ pushed' = 0
  /\ UNCHANGED <<w, store, last>>

Begin == ~open /\ scan' \in BeginScan(scan) /\ PassBegins

\* restart_scan: end_scan and begin_scan of the same instance.
Restart == open /\ scan' \in BeginScan(EndScan(scan)) /\ PassBegins

Rescan == open /\ scan' \in ReScan(scan) /\ PassBegins

Give(x) ==
  /\ given' = Append(given, x.page[x.idx + 1])
  /\ scan' = [x EXCEPT !.idx = @ + 1, !.cnt = IF w = "redis_list" THEN @ + 1 ELSE @]
  /\ UNCHANGED ended

\* iter_scan: a row of the page, or of the next page, or None.
IterScan ==
  /\ open /\ ~ended
  /\ \/ ~Drained(scan) /\ Give(scan)
     \/ /\ Drained(scan) /\ ~NoMorePages(scan)
        /\ \E x \in Fetch(scan) :
             IF Drained(x) THEN scan' = x /\ ended' = TRUE /\ UNCHANGED given ELSE Give(x)
     \/ /\ Drained(scan) /\ NoMorePages(scan)
        /\ ended' = TRUE /\ UNCHANGED <<scan, given>>
  /\ UNCHANGED <<w, store, last, open, stays, pulled, pushed>>

\* end_scan, after which the instance is dropped.
End ==
  /\ open
  /\ open' = FALSE /\ scan' = N!Fresh
  /\ given' = <<>> /\ ended' = FALSE /\ stays' = {} /\ pulled' = 0 /\ pushed' = 0
  /\ UNCHANGED <<w, store, last>>

-----------------------------------------------------------------------------
(* The other clients.                                                      *)

\* A stream grows at its end; elsewhere an element may be put anywhere.
InsertElement(i) ==
  /\ last < MaxElements
  /\ w = "redis_stream" => i = Len(store) + 1
  /\ store' = InsertAt(store, i, last + 1)
  /\ last' = last + 1
  /\ pushed' = IF i <= Boundary(scan) THEN pushed + 1 ELSE pushed
  /\ UNCHANGED <<w, scan, open, given, ended, stays, pulled>>

RemoveElement(i) ==
  /\ store' = RemoveAt(store, i)
  /\ stays' = stays \ {store[i]}
  /\ pulled' = IF i <= Boundary(scan) THEN pulled + 1 ELSE pulled
  /\ UNCHANGED <<w, last, scan, open, given, ended, pushed>>

Next ==
  \/ Begin \/ Restart \/ Rescan \/ IterScan \/ End
  \/ \E i \in 1..Len(store) + 1 : InsertElement(i)
  \/ \E i \in 1..Len(store) : RemoveElement(i)

Spec == Init /\ [][Next]_vars

-----------------------------------------------------------------------------
(* Properties.                                                             *)

\* Every field has its type, and the index of the instance stays inside its page.
TypeOK ==
  /\ w \in Sources
  /\ store \in Seq(1..last) /\ last \in Nat
  /\ scan \in N!Instances /\ scan.idx <= Len(scan.page)
  /\ open \in BOOLEAN /\ given \in Seq(1..last) /\ ended \in BOOLEAN
  /\ stays \subseteq ToSet(store) /\ pulled \in Nat /\ pushed \in Nat

\* A scan that is over has skipped at most one element for each that others took
\* from the part it had read already; a stream has skipped none.
MissesBounded ==
  ended => Cardinality(stays \ ToSet(given)) <= pulled

\* A scan has returned at most one element twice for each that others put into the
\* part it had read already; a stream has returned none twice.
RepeatsBounded ==
  Len(given) - Cardinality(ToSet(given)) <= pushed
=============================================================================
