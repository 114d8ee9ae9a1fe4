-------------------------- MODULE ComposedRecords --------------------------
(***************************************************************************)
(* The records of composed streams: get_record_composed of                 *)
(* 006-composed-query.sql, step by step as its chain of CTEs, and          *)
(* get_last_record_composed of 007-composed-query-derivate.sql, over       *)
(* taxonomies and events that change under them.                           *)
(*                                                                         *)
(* The value of a composed stream is a sum of weighted values over a sum   *)
(* of weights.  The query does not take it anew at every time: it adds up  *)
(* changes of the two sums, with window functions whose order leaves ties  *)
(* between a change of value and changes of weight at one time.  Which     *)
(* comes first is up to the engine, so the query has a set of answers.     *)
(***************************************************************************)
EXTENDS ComposeAccess, FiniteSetsExt

CONSTANTS
  TimeArgs,       \* the event times
  ValueArgs,      \* the values of events
  RecordBatches,  \* the batches of PrimitiveLedger
  MaxEvents       \* bound on the rows of primitive_events

ASSUME RecordAssumption ==
  /\ TimeArgs \subseteq Int /\ ValueArgs \subseteq Int
  /\ \A t \in TimeArgs : t < MaxInt8
  /\ MaxHeight < MaxInt8

VARIABLE events   \* table primitive_events

composedVars == <<height, streams, metadata, written, signer, taxonomies, events>>

P == INSTANCE PrimitiveLedger

-----------------------------------------------------------------------------
(* The leaves and their weights                                            *)

\* What a version in force gives its children.
weighted_links(k, from, to) ==
  {[child |-> r.child, weight |-> r.weight, first |-> r.start_time,
    last |-> last_time(r.start_time, starts(in_window(k, from, to)))] :
     r \in winning(k, from, to)}

\* The rows of the CTE hierarchy, to one more link than there are.  It is a UNION ALL:
\* two ways to one stream are two rows, which `path` tells apart.
hierarchy(k, from, to) ==
  LET row(p, c) == [path |-> Append(p.path, <<c.child, c.first>>), child |-> c.child,
                    weight |-> p.weight * c.weight,
                    first |-> larger(p.first, c.first), last |-> smaller(p.last, c.last)]
      root == [path |-> <<>>, child |-> k, weight |-> 1, first |-> 0, last |-> MaxInt8 - 1]
      below(p) == {row(p, c) : c \in {x \in weighted_links(p.child, from, to) : overlap(p, x)}}
      grow(H)  == H \cup UNION {below(p) : p \in H}
      level[n \in Nat] == IF n = 0 THEN below(root) ELSE grow(level[n - 1])
  IN level[Cardinality(taxonomies)]

\* A path longer than there are links goes round a cycle, for ever.
endless(H) == \E h \in H : Len(h.path) > Cardinality(taxonomies)

primitive_weights(H) ==
  {h \in H : stream_exists(h.child) /\ is_primitive_stream(h.child)}

within(t, w) == w.first <= t /\ t <= w.last

\* The weights among PW of a stream.
weights_of(PW, s) == {w \in PW : w.child = s}

leaves(PW) == {w.child : w \in PW}

-----------------------------------------------------------------------------
(* Changes of value and of weight                                          *)

\* all_primitive_points: the record in force at `from`, and the newest of each
\* later time at which the stream has a weight.
primitive_points(PW, s, from, to, h) ==
  {P!rec(e) : e \in P!anchor_record(s, from, h)
                \cup {x \in P!interval_records(s, from, to, h) :
                        \E w \in weights_of(PW, s) : within(x.event_time, w)}}

before(R, t) == {r \in R : r.event_time < t}
last_of(R) == {r \in R : r.event_time = Max({q.event_time : q \in R})}

\* LAG(value), nothing before the first.
value_before(R, t) ==
  IF before(R, t) = {} THEN 0 ELSE (CHOOSE r \in last_of(before(R, t)) : TRUE).value

\* primitive_event_changes
value_changes(R) ==
  LET change(r) == [event_time |-> r.event_time,
                    delta |-> r.value - value_before(R, r.event_time)]
  IN {c \in {change(r) : r \in R} : c.delta # 0}

\* Mutant: a weight counts from its own start, with a value or without.
weight_start_anyway(w, R) == w.first

\* A weight counts from the first value on.
weight_start(w, R) == larger(w.first, Min({r.event_time : r \in R}))

\* effective_weight_changes: a stream without points has none.
weight_changes(W, R) ==
  LET live == IF R = {} THEN {}
              ELSE {w \in W : weight_start(w, R) <= w.last /\ w.weight # 0}
  IN {[event_time |-> weight_start(w, R), delta |-> w.weight, path |-> w.path] : w \in live}
     \cup {[event_time |-> w.last + 1, delta |-> - w.weight, path |-> w.path] :
             w \in {x \in live : x.last < MaxInt8 - 1}}

total(C) == SumFunction([c \in C |-> c.delta])
up_to(C, t) == {c \in C : c.event_time <= t}
at(C, t) == {c \in C : c.event_time = t}

\* What primitive_state_timeline may give a stream at time t, from its changes of
\* value V and of weight W.  SUM ... OVER adds the peers of a row; LAG takes the row
\* before it, for all but the first of a time a peer: only the first row sees the
\* sums of an earlier time.  Without a row of its own a stream gives nothing.
contributions(V, W, t) ==
  LET v  == total(at(V, t))
      w  == total(at(W, t))
      v0 == total(before(V, t))
      w0 == total(before(W, t))
      v1 == v0 + v
      w1 == w0 + w
  IN IF at(V, t) \cup at(W, t) = {} THEN {0}
     ELSE (IF at(V, t) = {} THEN {} ELSE {v * w0 + w * v1})
          \cup {c.delta * v0 + v * w1 + (w - c.delta) * v1 : c \in at(W, t)}

\* unified_events of the streams X, each with its points and its changes of value.
timelines(PW, X) ==
  {[stream |-> x.stream, values |-> x.values,
    weights |-> weight_changes(weights_of(PW, x.stream), x.points)] : x \in X}

\* final_deltas of the timelines L, for each way to break the ties: at each time the
\* change of the sum of weighted values and that of the sum of weights, when one is
\* not zero.
final_deltas(L) ==
  LET T == UNION {{c.event_time : c \in x.values \cup x.weights} : x \in L}
      cells == {[stream |-> x.stream, event_time |-> t,
                 ws |-> contributions(x.values, x.weights, t),
                 sw |-> total(at(x.weights, t))] : x \in L, t \in T}
      tied == {c \in cells : Cardinality(c.ws) > 1}
      orders == {o \in [tied -> UNION {c.ws : c \in tied}] : \A c \in tied : o[c] \in c.ws}
      part(o, c) == IF c \in tied THEN o[c] ELSE CHOOSE x \in c.ws : TRUE
      row(o, t) == LET C == at(cells, t)
                   IN [event_time |-> t, ws |-> SumFunction([c \in C |-> part(o, c)]),
                       sw |-> SumFunction([c \in C |-> c.sw])]
  IN {{r \in {row(o, t) : t \in T} : r.ws # 0 \/ r.sw # 0} : o \in orders}

-----------------------------------------------------------------------------
(* Rows of the answer                                                      *)

\* The times that count besides those of the changes; in the window, and the last
\* one that is not after its start.
cleaned_event_times(PW, from, to, h) ==
  LET marks == {w.first : w \in PW} \cup
        UNION {{e.event_time : e \in {x \in P!visible(w.child, h) : within(x.event_time, w)}} :
                 w \in PW}
      early == {t \in marks : t <= from}
  IN {t \in marks : from < t /\ t <= to} \cup (IF early = {} THEN {} ELSE {Max(early)})

\* A weighted value as a fraction; without weight it is 0.
fraction(ws, sw) == IF sw = 0 THEN <<0, 1>> ELSE <<ws, sw>>

aggregated(D, t) ==
  fraction(SumFunction([d \in up_to(D, t) |-> d.ws]), SumFunction([d \in up_to(D, t) |-> d.sw]))

\* The anchor row is returned unless some row is at the start of the window.
wants_anchor(rows, from) == from \notin rows

\* The rows of one final_deltas.  A row at a time without change takes the time of
\* the last change: `row` keeps two rows of one time apart.
locf(D, times_cleaned, from, to) ==
  LET real == {d.event_time : d \in D}
      all  == real \cup times_cleaned
      rows == {t \in all : from <= t /\ t <= to}
      anchors == {t \in real : t < from}
      changed(t) == {x \in real : x <= t}
      out(t) == [row |-> t, event_time |-> Max(changed(t)), value |-> aggregated(D, t)]
  IN {out(t) : t \in {x \in rows : changed(x) # {}}}
     \cup (IF anchors # {} /\ wants_anchor(rows, from) THEN {out(Max(anchors))} ELSE {})

\* The answers of the query of get_record_composed.
record_rows(PW, from, to, h) ==
  LET changed(s) == LET R == primitive_points(PW, s, from, to, h)
                    IN [stream |-> s, points |-> R, values |-> value_changes(R)]
      L == timelines(PW, {changed(s) : s \in leaves(PW)})
  IN {locf(D, cleaned_event_times(PW, from, to, h), from, to) : D \in final_deltas(L)}

-----------------------------------------------------------------------------
(* The actions                                                             *)

\* An action answers rows, refuses with an ERROR or does not come back.
rows_answer(rows) == [outcome |-> "rows", rows |-> rows]
refused == [outcome |-> "refused", rows |-> {}]
no_end  == [outcome |-> "no end", rows |-> {}]

permitted(k, wallet, from, to) ==
  {r = "yes" /\ c = "yes" : r \in is_allowed_to_read_all(k, wallet, from, to),
                            c \in is_allowed_to_compose_all(k, from, to)}

\* get_record_composed with at least one bound.
window_record_composed(k, wallet, from, to, h) ==
  LET lo == coalesce(from, 0)
      hi == coalesce(to, MaxInt8)
      H  == hierarchy(k, lo, hi)
  IN IF from # NULL /\ to # NULL /\ from > to THEN {refused}
     ELSE UNION {IF ~ ok THEN {refused}
                 ELSE IF endless(H) THEN {no_end}
                 ELSE {rows_answer(R) : R \in record_rows(primitive_weights(H), lo, hi, h)} :
                   ok \in permitted(k, wallet, from, to)}

\* all_taxonomies: every stream that ever was below k.
ever_below(k) ==
  LET grow(S) == S \cup {r.child : r \in UNION {taxonomies_of(c) : c \in S}}
      level[n \in Nat] == IF n = 0 THEN {r.child : r \in taxonomies_of(k)}
                          ELSE grow(level[n - 1])
  IN level[Cardinality(taxonomies)]

\* The events of the primitives that ever were below k.
leaf_events(k, h) ==
  UNION {P!visible(s, h) : s \in {c \in ever_below(k) :
                                    stream_exists(c) /\ is_primitive_stream(c)}}

\* Mutant: without the upper bound.
all_event_times(k, upto, h) == {e.event_time : e \in leaf_events(k, h)}

\* latest_events, the last of which counts.
event_times_up_to(k, upto, h) ==
  {e.event_time : e \in {x \in leaf_events(k, h) : x.event_time <= upto}}

\* The rows of get_record_composed at one time, of which the first is returned.
first_row(k, wallet, t, h) ==
  {[a EXCEPT !.rows = {r \in a.rows : r.event_time = Min({q.event_time : q \in a.rows})}] :
     a \in window_record_composed(k, wallet, t, t, h)}

get_last_record_composed(k, wallet, upto, h) ==
  LET T == event_times_up_to(k, coalesce(upto, MaxInt8), h)
  IN UNION {IF ~ ok THEN {refused}
            ELSE IF T = {} THEN {rows_answer({})}
            ELSE first_row(k, wallet, Max(T), h) : ok \in permitted(k, wallet, NULL, upto)}

\* earliest_events, the first of which counts.
event_times_from(k, after, h) ==
  {e.event_time : e \in {x \in leaf_events(k, h) : x.event_time >= after}}

\* It asks for no permission to compose; the query at the time it found does.
get_first_record_composed(k, wallet, after, h) ==
  LET T == event_times_from(k, coalesce(after, 0), h)
  IN UNION {IF r # "yes" THEN {refused}
            ELSE IF T = {} THEN {rows_answer({})}
            ELSE first_row(k, wallet, Min(T), h) :
              r \in is_allowed_to_read_all(k, wallet, after, NULL)}

get_record_composed(k, wallet, from, to, h) ==
  IF from # NULL \/ to # NULL THEN window_record_composed(k, wallet, from, to, h)
  ELSE UNION {IF ok THEN get_last_record_composed(k, wallet, NULL, h) ELSE {refused} :
                ok \in permitted(k, wallet, NULL, NULL)}

-----------------------------------------------------------------------------
(* Specification                                                           *)

\* Owners link streams and insert records, in any order; nothing else changes.
InsertRecords == P!InsertOne /\ UNCHANGED taxonomies

ComposedNext ==
  \/ Taxonomise /\ UNCHANGED events
  \/ InsertRecords

ComposedSpec == DeployedInit /\ events = {} /\ [][ComposedNext]_composedVars

-----------------------------------------------------------------------------
(* Properties                                                              *)

\* The reference: the weights of the streams below k at time t, one for each path of
\* links in force then.
leaf_weights_at(k, t) ==
  LET row(p, r) == [path |-> Append(p.path, r.child), child |-> r.child,
                    weight |-> p.weight * r.weight]
      root == [path |-> <<>>, child |-> k, weight |-> 1]
      below(p) == {row(p, r) : r \in version_at(p.child, t)}
      grow(W)  == W \cup UNION {below(p) : p \in W}
      level[n \in Nat] == IF n = 0 THEN below(root) ELSE grow(level[n - 1])
  IN {w \in level[Cardinality(taxonomies)] :
        stream_exists(w.child) /\ is_primitive_stream(w.child)}

\* The events the query takes account of: up to the start of the window, and those
\* of later times at which their stream has a weight.
counted(k, from) ==
  {e \in events :
     e.event_time <= from \/ \E w \in leaf_weights_at(k, e.event_time) : w.child = e.stream}

value_in_force(E, s, t) ==
  (CHOOSE e \in P!latest({x \in E : x.stream = s /\ x.event_time <= t}) : TRUE).value

\* AGGR01, AGGR02, AGGR04: the average at time t of the last values of the streams
\* below k, by the events E; a stream without a value is not counted.
average(k, E, t) ==
  LET L == {w \in leaf_weights_at(k, t) :
              \E e \in E : e.stream = w.child /\ e.event_time <= t}
  IN fraction(SumFunction([w \in L |-> w.weight * value_in_force(E, w.child, t)]),
              SumFunction([w \in L |-> w.weight]))

equal(x, y) == x[1] * y[2] = y[1] * x[2]
zero == <<0, 1>>

\* The value the rows give time t: that of the last row not after it.
carried(rows, t) ==
  LET old == {r \in rows : r.event_time <= t}
  IN {r.value : r \in last_of(old)}

\* The times of a window that are looked at.
times_within(from, to) ==
  {x \in TimeArgs \cup (WindowArgs \ {NULL}) : from <= x /\ x <= to}

\* Carried forward, the rows give each time t the fraction expected[t].
computes(rows, expected) ==
  \A t \in DOMAIN expected :
    LET now == carried(rows, t)
    IN IF now = {} THEN equal(expected[t], zero)
       ELSE \A v \in now : equal(v, expected[t])

RecordWindows == {w \in WindowArgs \X WindowArgs :
                    /\ w # <<NULL, NULL>>
                    /\ w[1] # NULL /\ w[2] # NULL => w[1] <= w[2]}

Composed == {k \in DOMAIN streams : ~ is_primitive_stream(k)}

\* AGGR01, AGGR02, QUERY06: whatever the window and whenever the records and the
\* versions came, the rows carried forward give every time the weighted average of the
\* last values of the streams below, if ties of value and weight are broken well:
\* adding up changes comes to the same as taking the average anew.
AverageAtEveryTime ==
  \A k \in Composed, w \in RecordWindows :
    LET lo == coalesce(w[1], 0)
        hi == coalesce(w[2], MaxInt8)
        C  == counted(k, lo)
        averages == [t \in times_within(lo, hi) |-> average(k, C, t)]
    IN \E a \in window_record_composed(k, "0xa", w[1], w[2], NULL) :
         a.outcome = "rows" => computes(a.rows, averages)

\* QUERY06: the last record of a composed stream has the average in force at the last
\* event, up to the time asked for, of any stream that ever was below it; and is dated
\* no later.  (It is dated by the last change of the streams that are below it then, at
\* which the average may have been another.)
LastRecordIsRecord ==
  \A k \in Composed, u \in WindowArgs :
    LET last == Max(event_times_up_to(k, coalesce(u, MaxInt8), NULL))
    IN \E a \in get_last_record_composed(k, "0xa", u, NULL) :
         a.outcome = "rows" => \A r \in a.rows :
                                 /\ r.event_time <= last /\ last <= coalesce(u, MaxInt8)
                                 /\ equal(r.value, average(k, events, last))

\* AGGR04: "If a child stream doesn't have data for the given date (including last
\* available data), the composed stream will not count its weight for that date": the
\* average is that of the last available data of every stream below.
LastDataCounts ==
  \A k \in Composed, w \in RecordWindows :
    LET lo == coalesce(w[1], 0)
        hi == coalesce(w[2], MaxInt8)
        averages == [t \in times_within(lo, hi) |-> average(k, events, t)]
    IN \E a \in window_record_composed(k, "0xa", w[1], w[2], NULL) :
         a.outcome = "rows" => computes(a.rows, averages)
=============================================================================
