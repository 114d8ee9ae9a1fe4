--------------------------- MODULE PrimitiveLedger ---------------------------
(***************************************************************************)
(* The events of primitive streams: the table primitive_events, the        *)
(* actions of 003-primitive-insertion.sql and 009-truflation-query.sql     *)
(* that write it, the write permissions of 002-authorization.sql they ask  *)
(* for, and the queries of 005-primitive-query.sql and 008-public-query.sql*)
(* that read it.                                                           *)
(*                                                                         *)
(* A query is an operator over the tables: it runs inside one block and    *)
(* changes nothing.  Its rows are a set of [event_time, value]; they come  *)
(* back ordered by event_time.  frozen_at = h reads the table as block h   *)
(* left it; the permission of the wallet that asks, and default_base_time, *)
(* are read as they are now.  Where the permission or default_base_time is *)
(* a tie of rows of one block, a query is the set of the answers it may    *)
(* give.                                                                   *)
(***************************************************************************)
EXTENDS Registry

CONSTANTS
  TimeArgs,       \* the event times, $from, $to, $before, $after, $base_time
  ValueArgs,      \* the values of events
  RecordBatches,  \* the array tuples passed to insert_records
  MaxEvents,      \* bound on the rows of primitive_events
  MaxInt8         \* $max_int8, the stand-in of an absent upper limit

ASSUME EventAssumption ==
  /\ TimeArgs \subseteq Int /\ ValueArgs \subseteq Int
  /\ MaxEvents \in Nat
  /\ MaxInt8 \in Nat /\ MaxHeight < MaxInt8
  /\ \A t \in TimeArgs : t < MaxInt8
  /\ \A b \in RecordBatches :
       /\ b.data_provider \in Seq(Text) /\ b.stream_id \in Seq(Text)
       /\ b.event_time \in Seq(TimeArgs) /\ b.value \in Seq(ValueArgs)

VARIABLE events   \* table primitive_events: a set of rows

ledgerVars == <<height, streams, metadata, written, signer, events>>

\* truflation_created_at is stored and handed back; nothing else depends on it.
EventRow == [stream : Key, event_time : TimeArgs, value : ValueArgs, created_at : Nat]

-----------------------------------------------------------------------------
(* Batch permissions                                                       *)

\* These three end in a SELECT that no RETURN hands back: a loop over their rows
\* runs over none.
is_primitive_stream_batch(ks) == {}
is_stream_owner_batch(ks, wallet) == {}
has_write_permission_batch(ks, wallet) == {}

\* One row, with is_allowed = TRUE, for each stream both checks say yes to; none
\* for the others.
is_wallet_allowed_to_write_batch(ks, wallet) ==
  {[stream |-> k, is_allowed |-> TRUE] :
     k \in {x \in ks : /\ \E r \in is_stream_owner_batch(ks, wallet) : r.stream = x
                       /\ \E r \in has_write_permission_batch(ks, wallet) : r.stream = x}}

\* What the batch inserts refuse.
batch_allowed(ks, wallet) ==
  /\ ks \subseteq DOMAIN streams
  /\ \A r \in is_primitive_stream_batch(ks) : r.is_primitive
  /\ \A r \in is_wallet_allowed_to_write_batch(ks, wallet) : r.is_allowed

-----------------------------------------------------------------------------
(* Writers                                                                 *)

\* Mutant: the row carries the block of the stream, not the current one.
backdated(k, t, v) ==
  [stream |-> k, event_time |-> t, value |-> v, created_at |-> streams[k].created_at]

new_event(k, t, v) ==
  [stream |-> k, event_time |-> t, value |-> v, created_at |-> height]

\* The primary key: one row per stream, time and block.
same_key(e, f) ==
  e.stream = f.stream /\ e.event_time = f.event_time /\ e.created_at = f.created_at

\* Mutant: a row of the same time replaces the older one.
overwrite(new) ==
  {e \in events : \A f \in new : e.stream # f.stream \/ e.event_time # f.event_time}
    \cup new

append(new) == events \cup new

insert_record(caller, data_provider, stream_id, t, v) ==
  LET k == <<Lower[data_provider], stream_id>>
      new == new_event(k, t, v)
  IN /\ stream_exists(k)
     /\ is_wallet_allowed_to_write(k, Lower[caller])
     /\ is_primitive_stream(k)
     /\ \A e \in events : ~ same_key(e, new)
     /\ Cardinality(events) < MaxEvents
     /\ events' = append({new})
     /\ signer' = Lower[caller]
     /\ UNCHANGED <<height, streams, metadata, written>>

\* With no element the recursive CTE yields a row of NULLs, which NOT NULL rejects.
insert_records(caller, b) ==
  LET I == DOMAIN b.stream_id
      k(i) == <<Lower[b.data_provider[i]], b.stream_id[i]>>
      new(i) == new_event(k(i), b.event_time[i], b.value[i])
  IN /\ \A n \in {Len(b.data_provider), Len(b.event_time), Len(b.value)} : n = Len(b.stream_id)
     /\ I # {}
     /\ batch_allowed({k(i) : i \in I}, Lower[caller])
     /\ \A i, j \in I : i # j => ~ same_key(new(i), new(j))
     /\ \A i \in I, e \in events : ~ same_key(e, new(i))
     /\ Cardinality(events) + Len(b.stream_id) <= MaxEvents
     /\ events' = append({new(i) : i \in I})
     /\ signer' = Lower[caller]
     /\ UNCHANGED <<height, streams, metadata, written>>

\* With $truflation_created_at, which is not kept here, as long as the other arrays.
truflation_insert_records(caller, b) == insert_records(caller, b)

\* Mutant: the foreign key without its cascade.
keep_orphans(ks) == events

\* ON DELETE CASCADE, given the streams that remain.
cascade_events(ks) == {e \in events : e.stream \in ks}

-----------------------------------------------------------------------------
(* Queries                                                                 *)

coalesce(x, default) == IF x = NULL THEN default ELSE x

rec(e) == [event_time |-> e.event_time, value |-> e.value]

\* The rows a query with this frozen_at sees.
visible(k, frozen_at) ==
  {e \in events : e.stream = k /\ e.created_at <= coalesce(frozen_at, MaxInt8)}

\* ORDER BY event_time DESC, created_at DESC LIMIT 1
latest(E) ==
  {e \in E : \A f \in E : \/ f.event_time < e.event_time
                          \/ f.event_time = e.event_time /\ f.created_at <= e.created_at}

\* ORDER BY event_time ASC, created_at DESC LIMIT 1
earliest(E) ==
  {e \in E : \A f \in E : \/ f.event_time > e.event_time
                          \/ f.event_time = e.event_time /\ f.created_at <= e.created_at}

last_record(k, before, frozen_at) ==
  {rec(e) : e \in latest({f \in visible(k, frozen_at) :
                            f.event_time < coalesce(before, MaxInt8)})}

first_record(k, after, frozen_at) ==
  {rec(e) : e \in earliest({f \in visible(k, frozen_at) :
                              f.event_time >= coalesce(after, 0)})}

\* Mutant: every version of a time, not the newest.
all_versions(k, from, to, frozen_at) ==
  {e \in visible(k, frozen_at) : from < e.event_time /\ e.event_time <= to}

\* The newest version of each time in (from, to].
interval_records(k, from, to, frozen_at) ==
  LET E == {e \in visible(k, frozen_at) : from < e.event_time /\ e.event_time <= to}
  IN {e \in E : \A f \in E : f.event_time = e.event_time => f.created_at <= e.created_at}

\* Mutant: the anchor is looked for strictly before `from`.
anchor_before(k, from, frozen_at) ==
  latest({e \in visible(k, frozen_at) : e.event_time < from})

\* The value already in force at `from`.
anchor_record(k, from, frozen_at) ==
  latest({e \in visible(k, frozen_at) : e.event_time <= from})

records(k, from, to, frozen_at) ==
  IF from = NULL /\ to = NULL
  THEN last_record(k, NULL, frozen_at)
  ELSE LET lo == coalesce(from, 0)
       IN {rec(e) : e \in anchor_record(k, lo, frozen_at)
                            \cup interval_records(k, lo, coalesce(to, MaxInt8), frozen_at)}

\* The record get_base_value takes its value from: of base_time, before it or after it;
\* of all times the first.
base_record(k, base_time, frozen_at) ==
  LET exact  == records(k, base_time, base_time, frozen_at)
      before == last_record(k, base_time, frozen_at)
      after  == first_record(k, base_time, frozen_at)
  IN IF base_time = NULL THEN first_record(k, NULL, frozen_at)
     ELSE IF exact # {} THEN exact
     ELSE IF before # {} THEN before
     ELSE after

\* What a query comes to: rows, or an ERROR.
Error == [error |-> TRUE, rows |-> {}]
Rows(R) == [error |-> FALSE, rows |-> R]

\* The answers a query may give with these rows, when its permission check may give the
\* answers `allowed`.  The queries that call another one check twice; an ERROR of either
\* is an ERROR.
guarded(allowed, R) == {IF yes THEN Rows(R) ELSE Error : yes \in allowed}

get_last_record_primitive(k, wallet, before, frozen_at) ==
  guarded(is_allowed_to_read(k, wallet), last_record(k, before, frozen_at))

get_first_record_primitive(k, wallet, after, frozen_at) ==
  guarded(is_allowed_to_read(k, wallet), first_record(k, after, frozen_at))

get_record_primitive(k, wallet, from, to, frozen_at) ==
  guarded(is_allowed_to_read(k, wallet), records(k, from, to, frozen_at))

\* is_allowed_to_read_all of a stream with none below it: only visibility 1 is private.
is_allowed_to_read_all(k, wallet) ==
  {\/ is_stream_owner(k, wallet)
   \/ visibility # 1
   \/ get_metadata(k, "allow_read_wallet", wallet) # {} :
     visibility \in get_latest_metadata_int(k, "read_visibility")}

\* Both checks on the way to a base value.
may_read_base(k, wallet) ==
  {one /\ all : one \in is_allowed_to_read(k, wallet), all \in is_allowed_to_read_all(k, wallet)}

\* The base times a query may use: the caller's or else the stream's present
\* default_base_time, whatever frozen_at is; NULL when there is neither.
base_times(k, base_time) ==
  IF base_time # NULL THEN {base_time} ELSE get_latest_metadata_int(k, "default_base_time")

\* The row that holds the base value; an ERROR when there is no record to take it from.
get_base_value(k, wallet, base_time, frozen_at) ==
  {LET R == base_record(k, t, frozen_at) IN IF may /\ R # {} THEN Rows(R) ELSE Error :
     t \in base_times(k, base_time), may \in may_read_base(k, wallet)}

\* The quotient value * 100 / base is kept as its two terms.
get_index_primitive(k, wallet, from, to, frozen_at, base_time) ==
  {IF b.error \/ \E q \in b.rows : q.value = 0 THEN Error
   ELSE Rows({[event_time |-> r.event_time, value |-> r.value, base |-> q.value] :
                r \in records(k, from, to, frozen_at), q \in b.rows}) :
     b \in get_base_value(k, wallet, base_time, frozen_at)}

-----------------------------------------------------------------------------
(* Specification                                                           *)

LedgerInit == RegInit /\ events = {}

InsertOne ==
  \E c \in Callers, dp \in ProviderArgs, id \in StreamIdArgs, t \in TimeArgs, v \in ValueArgs :
    insert_record(c, dp, id, t, v)

InsertBatch ==
  \E c \in Callers, b \in RecordBatches :
    \/ insert_records(c, b)
    \/ truflation_insert_records(c, b)

\* A transaction of the registry, and the rows a deleted stream takes along.
RegistryStep == RegNext /\ events' = cascade_events(DOMAIN streams')

OneByOneNext == RegistryStep \/ InsertOne
LedgerNext == OneByOneNext \/ InsertBatch

\* Records inserted one at a time, and records inserted in batches as well.
OneByOneSpec == LedgerInit /\ [][OneByOneNext]_ledgerVars
LedgerSpec == LedgerInit /\ [][LedgerNext]_ledgerVars

-----------------------------------------------------------------------------
(* Properties                                                              *)

FrozenArgs == 0 .. MaxHeight \cup {NULL}

\* The answers of the two checks a query makes.
permission(k, w) == <<is_allowed_to_read(k, w), is_allowed_to_read_all(k, w)>>

\* The tables have the column types of 000-initial-data.sql.
LedgerTypeOK == TypeOK /\ events \subseteq EventRow

\* AUTH05: events belong to a living stream, no older than it and no newer than
\* the block, and the primary key holds: deleting a stream and creating it again
\* starts an empty series.
EventIntegrity ==
  /\ \A e \in events : /\ e.stream \in DOMAIN streams
                       /\ streams[e.stream].created_at <= e.created_at
                       /\ e.created_at <= height
  /\ \A e, f \in events :
       e.stream = f.stream /\ e.event_time = f.event_time /\ e.created_at = f.created_at
         => e = f

\* Data records are immutable: while the stream lives none is lost or changed,
\* and what a transaction adds carries the current block.
EventsImmutable ==
  [][/\ \A e \in events : e.stream \in DOMAIN streams' => e \in events'
     /\ \A e \in events' \ events : e.created_at = height]_ledgerVars

\* A step leaves every answer wallet w may get about k, frozen at block h.
FrozenAnswers(k, w, h) ==
  /\ \A from, to \in TimeArgs \cup {NULL} :
       get_record_primitive(k, w, from, to, h)' = get_record_primitive(k, w, from, to, h)
  /\ \A t \in TimeArgs \cup {NULL} :
       /\ get_last_record_primitive(k, w, t, h)' = get_last_record_primitive(k, w, t, h)
       /\ get_first_record_primitive(k, w, t, h)' = get_first_record_primitive(k, w, t, h)
       /\ base_times(k, t)' = base_times(k, t) =>
            /\ get_base_value(k, w, t, h)' = get_base_value(k, w, t, h)
            /\ \A from, to \in TimeArgs \cup {NULL} :
                 get_index_primitive(k, w, from, to, h, t)'
                   = get_index_primitive(k, w, from, to, h, t)

\* frozen_at makes queries repeatable, as far as the metadata they read lets it: with a
\* block that is over, what a wallet may be answered about a stream that lives on, an
\* ERROR included, changes only when its permission to read does, and a base value or
\* an index also when no base time is given and default_base_time changes.
FrozenStable ==
  [][\A k \in DOMAIN streams \cap DOMAIN streams', w \in Address, h \in 0 .. MaxHeight :
       h < height /\ permission(k, w)' = permission(k, w) => FrozenAnswers(k, w, h)]_ledgerVars

\* QUERY07: one record per event time, the one inserted last, in the
\* rows of a wallet that may read.
OneRecordPerTime ==
  \A k \in DOMAIN streams, from, to \in TimeArgs \cup {NULL}, h \in FrozenArgs :
    \A r \in records(k, from, to, h) :
      /\ \A q \in records(k, from, to, h) : q.event_time = r.event_time => q = r
      /\ \E e \in visible(k, h) :
           /\ rec(e) = r
           /\ \A f \in visible(k, h) : f.event_time = e.event_time => f.created_at <= e.created_at

\* The value in force at t according to the records R.
value_at(R, t) ==
  {r.value : r \in {q \in R : q.event_time <= t /\
                      \A p \in R : p.event_time <= t => p.event_time <= q.event_time}}

\* QUERY06: whatever window contains t, its records give the value that the query
\* of t alone gives, the closest in the past: get_record and get_last_record agree
\* for a wallet that may read.
WindowIndependent ==
  \A k \in DOMAIN streams, h \in FrozenArgs, t \in TimeArgs :
    LET now == {r.value : r \in last_record(k, t + 1, h)}
    IN /\ {r.value : r \in records(k, t, t, h)} = now
       /\ \A from, to \in TimeArgs \cup {NULL} :
            /\ from # NULL \/ to # NULL
            /\ coalesce(from, 0) <= t /\ t <= coalesce(to, MaxInt8)
            => value_at(records(k, from, to, h), t) = now

\* AUTH07: "Validates write permissions and stream existence for each record
\* before insertion."
WritersAuthorized ==
  [][\A e \in events' \ events :
       is_wallet_allowed_to_write(e.stream, signer')]_ledgerVars

\* "Adds multiple new data points to a primitive stream in batch.": events belong
\* to primitive streams, also when a stream comes back with another type.
PrimitiveOnly == \A e \in events : stream_exists(e.stream) => is_primitive_stream(e.stream)
=============================================================================
