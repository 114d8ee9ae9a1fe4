---------------------------- MODULE ComposedIndex ----------------------------
(***************************************************************************)
(* The index of composed streams: get_index_composed of                    *)
(* 007-composed-query-derivate.sql.  It repeats the chain of CTEs of       *)
(* get_record_composed on values divided by the base value of their        *)
(* stream: an average of indices, not an index of averages.  Without a     *)
(* window it divides the last record by a base value of the composed       *)
(* stream.                                                                 *)
(***************************************************************************)
EXTENDS ComposedRecords

\* numeric(36,18), of which the model has the integers: the quotients are whole.
ASSUME QuotientAssumption ==
  \A v, b \in ValueArgs : b # 0 => b > 0 /\ (v * 100) % b = 0

indexed(value, base) == IF base = 0 THEN 0 ELSE (value * 100) \div base

-----------------------------------------------------------------------------
(* In a window                                                             *)

\* Mutant: the value at or after the base time first.
later_base_value(s, base_time, h) ==
  LET E     == P!visible(s, h)
      later == {e \in E : e.event_time >= base_time}
  IN {e.value : e \in IF later # {} THEN P!earliest(later) ELSE P!latest(E)}

\* The value in force at the base time, or else the first one after it.
primitive_base_value(s, base_time, h) ==
  LET E    == P!visible(s, h)
      past == {e \in E : e.event_time <= base_time}
  IN {e.value : e \in IF past # {} THEN P!latest(past) ELSE P!earliest(E)}

\* primitive_event_changes: without a base value, or with 0 for one, no change counts.
index_changes(R, bases) ==
  {c \in {[event_time |-> v.event_time, delta |-> indexed(v.delta, b)] :
            v \in value_changes(R), b \in bases} : c.delta # 0}

index_rows(PW, from, to, h, base_time) ==
  LET changed(s) == LET R == primitive_points(PW, s, from, to, h)
                    IN [stream |-> s, points |-> R,
                        values |-> index_changes(R, primitive_base_value(s, base_time, h))]
      L == timelines(PW, {changed(s) : s \in leaves(PW)})
  IN {locf(D, cleaned_event_times(PW, from, to, h), from, to) : D \in final_deltas(L)}

-----------------------------------------------------------------------------
(* Without a window                                                        *)

\* The answers B where those of A have no row.
or_else(A, B) == UNION {IF a.outcome = "rows" /\ a.rows = {} THEN B ELSE {a} : a \in A}


\* Three attempts, each at the first row of a query, and an ERROR without any.
internal_get_base_value(k, wallet, base_time, h) ==
  or_else(first_row(k, wallet, base_time, h),
    or_else(get_last_record_composed(k, wallet, base_time, h),
      or_else(get_first_record_composed(k, wallet, base_time, h), {refused})))

\* A division by zero is an ERROR.
divided(a, base) ==
  IF a.outcome # "rows" \/ a.rows = {} THEN a
  ELSE IF base[1] = 0 THEN refused
  ELSE rows_answer({[r EXCEPT !.value = <<r.value[1] * base[2] * 100, r.value[2] * base[1]>>] :
                      r \in a.rows})

latest_index(k, wallet, h, base_time) ==
  UNION {IF b.outcome # "rows" THEN {b}
         ELSE {divided(a, r.value) : r \in b.rows,
                                     a \in get_last_record_composed(k, wallet, NULL, h)} :
           b \in internal_get_base_value(k, wallet, base_time, h)}

-----------------------------------------------------------------------------
(* The action                                                              *)

effective_base_times(k, base_time) ==
  IF base_time # NULL THEN {base_time}
  ELSE {coalesce(b, 0) : b \in get_latest_metadata_int(k, "default_base_time")}

\* get_index_composed with at least one bound, and with none.
window_index_composed(k, wallet, from, to, h, base_time) ==
  LET lo == coalesce(from, 0)
      hi == coalesce(to, MaxInt8)
      H  == hierarchy(k, lo, hi)
  IN IF from # NULL /\ to # NULL /\ from > to THEN {refused}
     ELSE UNION {IF ~ ok THEN {refused}
                 ELSE IF endless(H) THEN {no_end}
                 ELSE {rows_answer(R) : R \in index_rows(primitive_weights(H), lo, hi, h, b)} :
                   ok \in permitted(k, wallet, from, to),
                   b \in effective_base_times(k, base_time)}

latest_index_composed(k, wallet, h, base_time) ==
  UNION {IF ok THEN latest_index(k, wallet, h, b) ELSE {refused} :
           ok \in permitted(k, wallet, NULL, NULL),
           b \in effective_base_times(k, base_time)}

get_index_composed(k, wallet, from, to, h, base_time) ==
  IF from # NULL \/ to # NULL THEN window_index_composed(k, wallet, from, to, h, base_time)
  ELSE latest_index_composed(k, wallet, h, base_time)

-----------------------------------------------------------------------------
(* Properties                                                              *)

\* The reference: the base value of a stream is the last of the events up to the base
\* time, and the first one when there is none.
base_of(s, base_time) ==
  LET E    == {e \in events : e.stream = s}
      past == {e \in E : e.event_time <= base_time}
  IN (CHOOSE e \in (IF past # {} THEN P!latest(past) ELSE P!earliest(E)) : TRUE).value

\* The average of the indices of the streams below k at time t.
index_average(k, E, t, base_time) ==
  LET L == {w \in leaf_weights_at(k, t) :
              \E e \in E : e.stream = w.child /\ e.event_time <= t}
      index(s) == indexed(value_in_force(E, s, t), base_of(s, base_time))
  IN fraction(SumFunction([w \in L |-> w.weight * index(w.child)]),
              SumFunction([w \in L |-> w.weight]))

\* QUERY02, "the weights are applied on the index percentages themselves"
\* (complex_composed_test.md): whatever the window, with the base time at its start, the
\* rows carried forward give every time the weighted average of the indices of
\* the streams below, a stream whose base value is 0 counting with index 0.
IndexAtEveryTime ==
  \A k \in Composed, w \in RecordWindows :
    LET b  == w[1]
        lo == coalesce(w[1], 0)
        hi == coalesce(w[2], MaxInt8)
        C  == counted(k, lo)
        averages == [t \in times_within(lo, hi) |-> index_average(k, C, t, coalesce(b, 0))]
    IN \E a \in window_index_composed(k, "0xa", w[1], w[2], NULL, b) :
         a.outcome = "rows" => computes(a.rows, averages)

\* Without a window the index is the ratio of two averages: that at the last event of any
\* stream that ever was below, and that in force at the base time whenever there was
\* one.  complex_composed_test.md expects the average of the indices (967.5) here as well.
LatestIndexIsRatio ==
  \A k \in Composed, b \in WindowArgs :
    LET base  == coalesce(b, 0)
        since == IF average(k, events, base)[1] # 0 THEN {base} ELSE TimeArgs
        now   == average(k, events, Max(event_times_up_to(k, MaxInt8, NULL)))
        ratio(r, s) ==
          LET then == average(k, events, s)
          IN then[1] # 0 /\ equal(r.value, <<now[1] * then[2] * 100, now[2] * then[1]>>)
    IN \E a \in get_index_composed(k, "0xa", NULL, NULL, NULL, b) :
         a.outcome = "rows" => \A r \in a.rows : \E s \in since : ratio(r, s)

\* The streams below k at time t are one, s.
alone_at(s, k, t) == {w.child : w \in leaf_weights_at(k, t)} = {s}

=============================================================================
