---------------------------- MODULE IcebergWriter ----------------------------
(***************************************************************************)
(* How the iceberg wrapper writes: rows gather in input_rows, are handed   *)
(* out to one buffer per partition, and full buffers become data files,    *)
(* each with the partition value of its first row, added by one commit.    *)
(* A date is a number of days since 1970, a timestamp of half hours.       *)
(***************************************************************************)
EXTENDS TableWriters

CONSTANTS
  PartitionBufferSize,   \* the option partition_buffer_size
  RegularFlush           \* so many open partitions are all written: 8 in the code

ASSUME PartitionAssumption ==
  PartitionBufferSize \in Nat \ {0} /\ RegularFlush \in Nat \ {0}

PgEpoch == 10957 * 48   \* 2000-01-01: a Timestamp of Postgres counts from there

\* Division of Rust's i64: towards zero.
TruncDiv(a, b) == IF a >= 0 THEN a \div b ELSE -((-a) \div b)

secondsToYears(s)  == TruncDiv(s, 31557600)   \* 365.25 days
secondsToMonths(s) == TruncDiv(s, 2630016)    \* 30.44 days

\* The transforms, alike in compute_partition_key and compute_partition_info.
Transformed(t, v) ==
  LET seconds == IF t.col = "date" THEN v * 86400 ELSE v * 1800 IN
  CASE t.part = "identity" -> v
    [] t.part = "day"      -> IF t.col = "date" THEN v ELSE TruncDiv(v, 48)
    [] t.part = "hour"     -> IF t.col = "date" THEN v * 24 ELSE TruncDiv(v, 2)
    [] t.part = "month"    -> secondsToMonths(seconds)
    [] t.part = "year"     -> secondsToYears(seconds)

Partitioned(t, v) == t.part # "none" /\ v # Null

\* The key of a row's buffer is computed from the cell: timestamps from 2000.
computePartitionKey(t, r) ==
  IF ~Partitioned(t, r.val) THEN Null
  ELSE Transformed(t, IF t.col = "timestamp" THEN r.val - PgEpoch ELSE r.val)

\* The value of a file is computed from the Arrow array, so from 1970.
computePartitionInfo(t, r) ==
  IF Partitioned(t, r.val) THEN Transformed(t, r.val) ELSE Null

\* No error for a NULL cell, and the identity of a date only fails for a file.
KeyFails(t, rows) == t.part = "bucket" /\ \E r \in Range(rows) : r.val # Null
ValueFails(t) == t.part = "bucket" \/ (t.part = "identity" /\ t.col \notin {"int", "text"})

-----------------------------------------------------------------------------
(* The order of a data file.  A sort order is a sequence of fields, none   *)
(* for an unsorted table; buckets, truncated and nested values are left    *)
(* out.  The keys of the code are texts: sequences of numbers.             *)

SortFields ==
  [source : {"id", "val"}, desc : BOOLEAN, nulls : {"first", "last"},
   transform : {"identity", "day", "hour", "month", "year"}]

DigitsOf(n) ==
  LET digits[m \in 0..n] == IF m < 10 THEN <<m>> ELSE Append(digits[m \div 10], m % 10)
  IN  digits[n]

\* A whole number as it is printed: the sign comes before every digit.
NumericText(v) == IF v < 0 THEN <<-1>> \o DigitsOf(-v) ELSE DigitsOf(v)

\* NULL is the empty text and least.  Numbers, dates and the ranks of texts are
\* texts of one letter, a numeric is its digits.
cellToSortValue(t, source, v) ==
  CASE v = Null -> <<>>
    [] v # Null /\ source = "val" /\ t.col = "numeric"   -> NumericText(v)
    [] v # Null /\ source = "val" /\ t.col = "timestamp" -> <<v - PgEpoch>>
    [] OTHER -> <<v>>

\* The transform of the field is not looked at.
sortKey(t, field, r) == cellToSortValue(t, field.source, r[field.source])

\* The first letter that differs decides, and a text that ends before the other.
TextBelow(x, y) ==
  \E i \in DOMAIN y : /\ \A j \in 1..i - 1 : j \in DOMAIN x /\ x[j] = y[j]
                      /\ i \in DOMAIN x => x[i] < y[i]

\* A descending field turns everything round; its null order is not looked at.
compareWithDirection(field, x, y) == IF field.desc THEN TextBelow(y, x) ELSE TextBelow(x, y)

\* The first field whose keys differ decides.
compareSortKeys(t, a, b) ==
  \E i \in DOMAIN t.order :
    /\ \A j \in 1..i - 1 : sortKey(t, t.order[j], a) = sortKey(t, t.order[j], b)
    /\ compareWithDirection(t.order[i], sortKey(t, t.order[i], a), sortKey(t, t.order[i], b))

\* Faulty: the permutation that sorts s, taken the other way round.
ScatteredSort(s, less) ==
  LET place(j) == Cardinality({i \in DOMAIN s : <<i, j>> \in less \/ (i <= j /\ <<j, i>> \notin less)})
  IN  [j \in DOMAIN s |-> s[place(j)]]

\* s by the order of its indices in less.  Those not in order stay as they were;
\* sort_unstable_by may put them in any order, which no property tells apart.
StableSort(s, less) ==
  LET place(j) == Cardinality({i \in DOMAIN s : <<i, j>> \in less \/ (i <= j /\ <<j, i>> \notin less)})
  IN  [n \in DOMAIN s |-> s[CHOOSE j \in DOMAIN s : place(j) = n]]

sortPartitionRows(t, rows) ==
  StableSort(rows, {p \in (DOMAIN rows) \X (DOMAIN rows) : compareSortKeys(t, rows[p[1]], rows[p[2]])})

-----------------------------------------------------------------------------
\* Faulty: the key of the first staged row for all of them.
HandedOutByFirst(t, inst) ==
  LET keys == {computePartitionKey(t, inst.rows[i]) : i \in DOMAIN inst.rows \cap {1}} IN
  [k \in keys \cup DOMAIN inst.parts |->
     (IF k \in DOMAIN inst.parts THEN inst.parts[k] ELSE <<>>)
       \o (IF k \in keys THEN inst.rows ELSE <<>>)]

\* The buffers once the staged rows are handed out.
HandedOut(t, inst) ==
  LET keys == {computePartitionKey(t, r) : r \in Range(inst.rows)} IN
  [k \in keys \cup DOMAIN inst.parts |->
     (IF k \in DOMAIN inst.parts THEN inst.parts[k] ELSE <<>>)
       \o Only(inst.rows, {r \in Range(inst.rows) : computePartitionKey(t, r) = k})]

\* What process_partitions takes of a buffer, and what it leaves.
Taken(buf, flush) ==
  LET n == Len(buf) \div PartitionBufferSize IN
  IF flush THEN <<buf>>
  ELSE [i \in 1..n |-> SubSeq(buf, (i - 1) * PartitionBufferSize + 1, i * PartitionBufferSize)]

Left(buf, flush) ==
  IF flush THEN <<>>
  ELSE SubSeq(buf, (Len(buf) \div PartitionBufferSize) * PartitionBufferSize + 1, Len(buf))

DataFile(t, rows) ==
  LET sorted == sortPartitionRows(t, rows) IN
  [part |-> computePartitionInfo(t, Head(sorted)), rows |-> sorted]

writeRecordBatches(t, inst, chunks) ==
  Asks(inst, [Request("add", FlattenSeq(chunks), Null, <<>>)
                EXCEPT !.files = {DataFile(t, rows) : rows \in Range(chunks)}])

processPartitions(t, inst, flush) ==
  LET buffers == SetToSeq(DOMAIN inst.parts)
      chunks == FlattenSeq([i \in DOMAIN buffers |-> Taken(inst.parts[buffers[i]], flush)])
      open   == {k \in DOMAIN inst.parts : Left(inst.parts[k], flush) # <<>>}
      rest   == [inst EXCEPT !.parts = [k \in open |-> Left(inst.parts[k], flush)]]
  IN CASE chunks = <<>>                    -> Quiet(rest)
       [] chunks # <<>> /\ ValueFails(t)  -> Fails(rest)
       [] OTHER                            -> writeRecordBatches(t, rest, chunks)

NeverRegularly(parts) == FALSE   \* faulty
FlushesRegularly(parts) == Cardinality(DOMAIN parts) >= RegularFlush

processCurrentBatch(t, inst, flush) ==
  LET parts == HandedOut(t, inst) IN
  IF KeyFails(t, inst.rows) THEN Fails(inst)
  ELSE processPartitions(t, [rows |-> <<>>, parts |-> parts], flush \/ FlushesRegularly(parts))

IcebergInsert(t, inst, r) ==
  LET more == [inst EXCEPT !.rows = Append(@, r)] IN
  IF Len(more.rows) >= BatchSize THEN processCurrentBatch(t, more, FALSE) ELSE Quiet(more)

\* Faulty: rows that wait in a partition's buffer only are dropped.
IcebergEndOfStaged(t, inst) ==
  IF inst.rows # <<>> THEN processCurrentBatch(t, inst, TRUE) ELSE Quiet(inst)

IcebergEnd(t, inst) ==
  IF inst.rows # <<>> \/ DOMAIN inst.parts # {} THEN processCurrentBatch(t, inst, TRUE)
  ELSE Quiet(inst)

-----------------------------------------------------------------------------
(* What the Iceberg table format says: transforms, by the calendar, and    *)
(* the order of the rows.                                                  *)

\* Months since 1970 of a day since 1970, in the proleptic Gregorian calendar.
MonthOfDay(day) ==
  LET z   == day + 719468          \* days since 0000-03-01
      doe == z % 146097            \* day of the era of 400 years
      yoe == (doe - doe \div 1460 + doe \div 36524 - doe \div 146096) \div 365
      doy == doe - (365 * yoe + yoe \div 4 - yoe \div 100)
      mp  == (5 * doy + 2) \div 153   \* months since March
  IN ((z \div 146097) * 400 + yoe - 1970) * 12 + mp + 2

IcebergTransform(t, v) ==
  LET day == IF t.col = "date" THEN v ELSE v \div 48 IN
  CASE ~Partitioned(t, v)  -> Null
    [] Partitioned(t, v) /\ t.part = "identity" -> v
    [] Partitioned(t, v) /\ t.part = "day"   -> day
    [] Partitioned(t, v) /\ t.part = "hour"  -> IF t.col = "date" THEN v * 24 ELSE v \div 2
    [] Partitioned(t, v) /\ t.part = "month" -> MonthOfDay(day)
    [] Partitioned(t, v) /\ t.part = "year"  -> MonthOfDay(day) \div 12

\* The sort order of a table by the Iceberg format: fields by their transforms,
\* numbers as numbers, NULL where the field says.
SortValue(t, field, r) ==
  IF field.source = "id" THEN r.id
  ELSE IcebergTransform([part |-> field.transform, col |-> t.col], r.val)

ValueBelow(field, x, y) ==
  IF x # Null /\ y # Null THEN (IF field.desc THEN y < x ELSE x < y)
  ELSE IF field.nulls = "first" THEN x = Null /\ y # Null ELSE x # Null /\ y = Null

FormatBelow(t, a, b) ==
  \E i \in DOMAIN t.order :
    /\ \A j \in 1..i - 1 : SortValue(t, t.order[j], a) = SortValue(t, t.order[j], b)
    /\ ValueBelow(t.order[i], SortValue(t, t.order[i], a), SortValue(t, t.order[i], b))
=============================================================================
