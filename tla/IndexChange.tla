---------------------------- MODULE IndexChange ----------------------------
(***************************************************************************)
(* get_index_change of 008-public-query.sql on a primitive stream: two     *)
(* reads of the index, one of the window asked for and one of the window   *)
(* an interval earlier, and a pass over both with two pointers.            *)
(*                                                                         *)
(* An index value is the value of the record times a factor, 100 divided   *)
(* by the base value, that is not 0 and that both reads share; the factor  *)
(* cancels in a change and is left out.  A change is given as the pair of  *)
(* values it is the percentage of.  The records are those visible at       *)
(* $frozen_at, and the caller is one who may read them: a refused call, or *)
(* one without a base value, ends in an ERROR and returns nothing.         *)
(***************************************************************************)
EXTENDS Integers, Sequences

CONSTANTS
  Times,      \* the event times of records, and $from and $to
  Values,     \* the values of records
  Intervals,  \* $time_interval
  Series,     \* the records a stream may hold, one for each time, in ascending order
  NULL,       \* an absent $from or $to
  MaxInt8     \* $max_int8

ASSUME SeriesAssumption ==
  /\ Times \subseteq Int /\ Values \subseteq Int /\ Intervals \subseteq Int
  /\ MaxInt8 \in Int /\ NULL \notin Int
  /\ Series \subseteq Seq([event_time : Times, value : Values])
  /\ \A s \in Series : /\ \A m, n \in DOMAIN s : m < n => s[m].event_time < s[n].event_time
                       /\ \E n \in DOMAIN s : s[n].value # 0   \* else there is no base

VARIABLES
  series, from, to, interval,   \* the stream and the arguments of the call
  current, prev,                \* $current_dates and _values, $prev_dates and _values
  i, j,                         \* the two pointers
  found,                        \* the rows returned so far
  pc                            \* the part of the action that runs next

vars == <<series, from, to, interval, current, prev, i, j, found, pc>>

Record == [event_time : Times, value : Values]

coalesce(x, default) == IF x = NULL THEN default ELSE x

\* get_index_primitive over [lo, hi]: the records after lo, and before them the one
\* in force at lo.  Without bounds it is the last record.
index_rows(lo, hi) ==
  LET A == {n \in DOMAIN series : series[n].event_time <= coalesce(lo, 0)}
      I == {n \in DOMAIN series : /\ coalesce(lo, 0) < series[n].event_time
                                  /\ series[n].event_time <= coalesce(hi, MaxInt8)}
      anchor == {n \in A : \A m \in A : m <= n}
  IN IF lo = NULL /\ hi = NULL THEN {Len(series)} \ {0} ELSE anchor \cup I

\* Those rows in order: they are neighbours in the series.
get_index(lo, hi) ==
  LET R == index_rows(lo, hi)
  IN IF R = {} THEN <<>>
     ELSE SubSeq(series, CHOOSE n \in R : \A m \in R : n <= m,
                         CHOOSE n \in R : \A m \in R : m <= n)

gather_current ==
  /\ pc = "current"
  /\ current' = get_index(from, to)
  /\ pc' = IF current' = <<>> THEN "done" ELSE "prev"
  /\ UNCHANGED <<series, from, to, interval, prev, i, j, found>>

\* Mutant: the earlier window starts at the first date itself.
gather_prev_late ==
  /\ pc = "prev"
  /\ prev' = get_index(current[1].event_time,
                       current[Len(current)].event_time - interval)
  /\ pc' = IF prev' = <<>> THEN "done" ELSE "pass"
  /\ UNCHANGED <<series, from, to, interval, current, i, j, found>>

\* Mutant: no test that there is any earlier date.
gather_prev_untested ==
  /\ pc = "prev"
  /\ prev' = get_index(current[1].event_time - interval,
                       current[Len(current)].event_time - interval)
  /\ pc' = "pass"
  /\ UNCHANGED <<series, from, to, interval, current, i, j, found>>

gather_prev ==
  /\ pc = "prev"
  /\ prev' = get_index(current[1].event_time - interval,
                       current[Len(current)].event_time - interval)
  /\ pc' = IF prev' = <<>> THEN "done" ELSE "pass"
  /\ UNCHANGED <<series, from, to, interval, current, i, j, found>>

target == current[i].event_time - interval

next_fits == j < Len(prev) /\ prev[j + 1].event_time <= target

\* The inner loop: the second pointer moves while the next date still fits.
advance ==
  /\ pc = "pass" /\ i <= Len(current)
  /\ next_fits
  /\ j' = j + 1
  /\ UNCHANGED <<series, from, to, interval, current, prev, i, found, pc>>

\* Mutant: the date under the pointer is taken as it is.
match_any == prev[j].value # 0

\* There is a date at or before the target, and its value can be divided by.
match == prev[j].event_time <= target /\ prev[j].value # 0

compare ==
  /\ pc = "pass" /\ i <= Len(current)
  /\ ~ next_fits
  /\ found' = IF match
              THEN Append(found, [event_time |-> current[i].event_time,
                                  now |-> current[i].value, before |-> prev[j].value])
              ELSE found
  /\ i' = i + 1
  /\ UNCHANGED <<series, from, to, interval, current, prev, j, pc>>

return ==
  /\ pc = "pass" /\ i > Len(current)
  /\ pc' = "done"
  /\ UNCHANGED <<series, from, to, interval, current, prev, i, j, found>>

-----------------------------------------------------------------------------
(* Specification                                                           *)

Init ==
  /\ series \in Series /\ interval \in Intervals
  /\ from \in Times \cup {NULL} /\ to \in Times \cup {NULL}
  /\ current = <<>> /\ prev = <<>> /\ found = <<>>
  /\ i = 1 /\ j = 1 /\ pc = "current"

Next == gather_current \/ gather_prev \/ advance \/ compare \/ return

Spec == Init /\ [][Next]_vars

-----------------------------------------------------------------------------
(* Properties                                                              *)

Change == [event_time : Times, now : Values, before : Values]

\* The pass starts only with a date to compare and one to compare it with, and the
\* second pointer stays inside its array.
TypeOK ==
  /\ series \in Seq(Record) /\ interval \in Intervals
  /\ current \in Seq(Record) /\ prev \in Seq(Record) /\ found \in Seq(Change)
  /\ i \in 1 .. Len(current) + 1 /\ j \in Nat /\ 1 <= j
  /\ pc \in {"current", "prev", "pass", "done"}
  /\ pc = "prev" => current # <<>>
  /\ pc = "pass" => j \in 1 .. Len(prev)

\* The records at or before the date an interval earlier than current[n], and the
\* last of them.
before(n) == {m \in DOMAIN series : series[m].event_time <= current[n].event_time - interval}
closest(n) == series[CHOOSE m \in before(n) : \A p \in before(n) : p <= m]

counts(n) == before(n) # {} /\ closest(n).value # 0
row(n) == [event_time |-> current[n].event_time, now |-> current[n].value,
           before |-> closest(n).value]

\* QUERY03: a row is returned for each date of the window that has a record at or
\* before the date an interval earlier, unless the value of the last such record
\* is 0; it compares with that record, the one a query of the earlier date gives.
ChangesAreRight ==
  pc = "done" =>
    /\ \A n \in DOMAIN current : counts(n) => \E x \in DOMAIN found : found[x] = row(n)
    /\ \A x \in DOMAIN found : \E n \in DOMAIN current : counts(n) /\ found[x] = row(n)
    /\ \A x, y \in DOMAIN found : x < y => found[x].event_time < found[y].event_time

\* Whatever the arrays, a change is computed from the last of the earlier dates
\* that is not after its target, never by a division by 0.
ClosestMatch ==
  \A x \in DOMAIN found :
    \E m \in DOMAIN current, n \in DOMAIN prev :
      /\ found[x] = [event_time |-> current[m].event_time,
                     now |-> current[m].value, before |-> prev[n].value]
      /\ prev[n].value # 0
      /\ prev[n].event_time <= current[m].event_time - interval
      /\ n < Len(prev) => prev[n + 1].event_time > current[m].event_time - interval
=============================================================================
