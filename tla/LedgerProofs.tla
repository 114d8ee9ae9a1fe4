---------------------------- MODULE LedgerProofs ----------------------------
(***************************************************************************)
(* Proofs about the events of primitive streams, for all wallets, records, *)
(* batches and bounds.                                                     *)
(***************************************************************************)
EXTENDS PrimitiveLedger, RegistryProofs

\* What an insertion adds: rows of existing streams, of the current block, with
\* keys of their own.
FreshEvents(new) ==
  /\ new \subseteq EventRow
  /\ \A e \in new : e.stream \in DOMAIN streams /\ e.created_at = height
  /\ \A e, f \in new : same_key(e, f) => e = f
  /\ \A e \in new, f \in events : ~ same_key(e, f) /\ ~ same_key(f, e)

\* One row.
LEMMA OneEvent ==
  ASSUME TypeOK, InsertOne
  PROVE  /\ UNCHANGED <<height, streams, metadata, written>> /\ signer' \in Text
         /\ \E new : FreshEvents(new) /\ events' = events \cup new
<1>1. PICK c \in Callers, dp \in ProviderArgs, id \in StreamIdArgs,
           t \in TimeArgs, v \in ValueArgs : insert_record(c, dp, id, t, v)
  BY DEF InsertOne
<1>. DEFINE k == <<Lower[dp], id>>
            e == new_event(k, t, v)
<1>2. e \in EventRow /\ e.stream = k /\ k \in DOMAIN streams /\ e.created_at = height
  BY <1>1 DEF insert_record, new_event, EventRow, stream_exists, TypeOK
<1>3. \A f \in events : ~ same_key(f, e) /\ ~ same_key(e, f)
  BY <1>1 DEF insert_record, same_key
<1>4. events' = events \cup {e}
  BY <1>1 DEF insert_record, append
<1>5. UNCHANGED <<height, streams, metadata, written>> /\ signer' \in Text
  BY <1>1, LowerText, TextAssumption, InputAssumption DEF insert_record
<1>6. FreshEvents({e})
  <2>. HIDE DEF e
  <2>. QED
    BY <1>2, <1>3 DEF FreshEvents
<1>. QED
  BY <1>4, <1>5, <1>6

\* The rows of a batch.
LEMMA BatchEvents ==
  ASSUME TypeOK, InsertBatch
  PROVE  /\ UNCHANGED <<height, streams, metadata, written>> /\ signer' \in Text
         /\ \E new : FreshEvents(new) /\ events' = events \cup new
<1>1. PICK c \in Callers, b \in RecordBatches : insert_records(c, b)
  BY DEF InsertBatch, truflation_insert_records
<1>. DEFINE I == DOMAIN b.stream_id
            k(i) == <<Lower[b.data_provider[i]], b.stream_id[i]>>
            e(i) == new_event(k(i), b.event_time[i], b.value[i])
<1>2. \A i \in I : b.event_time[i] \in TimeArgs /\ b.value[i] \in ValueArgs
  <2>1. /\ b.stream_id \in Seq(Text)
        /\ b.event_time \in Seq(TimeArgs) /\ b.value \in Seq(ValueArgs)
    BY EventAssumption
  <2>2. Len(b.event_time) = Len(b.stream_id) /\ Len(b.value) = Len(b.stream_id)
    BY <1>1 DEF insert_records
  <2>. QED
    BY <2>1, <2>2
<1>3. \A i \in I : k(i) \in DOMAIN streams /\ k(i) \in Key
  <2>1. {k(i) : i \in I} \subseteq DOMAIN streams
    BY <1>1, Zenon DEF insert_records, batch_allowed
  <2>. QED
    BY <2>1 DEF TypeOK
<1>4. \A i \in I : e(i) \in EventRow /\ e(i).stream = k(i) /\ e(i).created_at = height
  <2>. TAKE i \in I
  <2>. HIDE DEF k
  <2>. QED
    BY <1>2, <1>3 DEF new_event, EventRow, TypeOK
<1>5. /\ \A i, j \in I : i # j => ~ same_key(e(i), e(j))
      /\ \A i \in I, f \in events : ~ same_key(f, e(i))
  BY <1>1, Zenon DEF insert_records
<1>6. events' = events \cup {e(i) : i \in I}
  BY <1>1, Zenon DEF insert_records, append
<1>7. UNCHANGED <<height, streams, metadata, written>> /\ signer' \in Text
  <2>1. UNCHANGED <<height, streams, metadata, written>> /\ signer' = Lower[c]
    BY <1>1, Zenon DEF insert_records
  <2>. QED
    BY <2>1, LowerText, TextAssumption, InputAssumption
<1>8. FreshEvents({e(i) : i \in I})
  <2>1. \A f, g : same_key(f, g) => same_key(g, f)
    BY DEF same_key
  <2>. HIDE DEF e, I, k
  <2>. QED
    BY <1>3, <1>4, <1>5, <2>1 DEF FreshEvents
<1>. QED
  BY <1>6, <1>7, <1>8

\* The inductive invariant of the ledger: a stream without events is no newer than
\* the block either.
LedgerInv ==
  /\ LedgerTypeOK /\ EventIntegrity
  /\ \A k \in DOMAIN streams : streams[k].created_at <= height

LEMMA LedgerStep == LedgerInv /\ [LedgerNext]_ledgerVars => LedgerInv'
<1>. SUFFICES ASSUME LedgerInv, [LedgerNext]_ledgerVars
              PROVE  LedgerInv'
  OBVIOUS
<1>. USE DEF LedgerInv, LedgerTypeOK
<1>1. CASE RegistryStep
  <2>1. TypeOK' /\ RegNext
    BY <1>1, TypeStep DEF RegistryStep
  <2>2. /\ height \in Nat /\ height' \in Nat /\ height <= height'
        /\ \A k \in DOMAIN streams \cap DOMAIN streams' : streams'[k] = streams[k]
        /\ \A k \in DOMAIN streams' \ DOMAIN streams : streams'[k].created_at = height
    BY <2>1, StreamsKept
  <2>3. events' = {e \in events : e.stream \in DOMAIN streams'}
    BY <1>1 DEF RegistryStep, cascade_events
  <2>4. \A e \in events : e.created_at \in Nat
    BY DEF EventRow
  <2>5. EventIntegrity'
    BY <2>2, <2>3, <2>4 DEF EventIntegrity
  <2>6. \A k \in DOMAIN streams' : streams'[k].created_at <= height'
    BY <2>2 DEF TypeOK, StreamRow
  <2>. QED
    BY <2>1, <2>3, <2>5, <2>6
<1>2. ASSUME NEW new, FreshEvents(new), events' = events \cup new,
             UNCHANGED <<height, streams, metadata, written>>, signer' \in Text
      PROVE  LedgerInv'
  <2>1. TypeOK'
    BY <1>2 DEF TypeOK
  <2>2. events' \subseteq EventRow
    BY <1>2 DEF FreshEvents
  <2>3. \A e \in new : /\ e.stream \in DOMAIN streams
                       /\ streams[e.stream].created_at <= e.created_at
    BY <1>2 DEF FreshEvents
  <2>4. EventIntegrity'
    BY <1>2, <2>3 DEF EventIntegrity, FreshEvents, same_key, TypeOK
  <2>. QED
    BY <1>2, <2>1, <2>2, <2>4
<1>3. CASE InsertOne
  BY <1>2, <1>3, OneEvent
<1>4. CASE InsertBatch
  BY <1>2, <1>4, BatchEvents
<1>5. CASE UNCHANGED ledgerVars
  BY <1>5 DEF ledgerVars, TypeOK, EventIntegrity
<1>. QED
  BY <1>1, <1>3, <1>4, <1>5 DEF LedgerNext, OneByOneNext

LEMMA LedgerStart == LedgerInit => LedgerInv
BY DEF LedgerInit, RegInit, LedgerInv, LedgerTypeOK, TypeOK, EventIntegrity

LEMMA LedgerInductive == LedgerSpec => []LedgerInv
BY LedgerStart, LedgerStep, PTL DEF LedgerSpec

\* The tables of the registry and of the ledger keep their column types, with
\* records inserted one at a time and in batches.
THEOREM LedgerTypeCorrect == LedgerSpec => []LedgerTypeOK
<1>1. LedgerInv => LedgerTypeOK
  BY DEF LedgerInv
<1>. QED
  BY <1>1, LedgerInductive, PTL

\* AUTH05: every event belongs to a living stream, is no older than it, and has a
\* key of its own.
THEOREM EventsOfLivingStreams == LedgerSpec => []EventIntegrity
<1>1. LedgerInv => EventIntegrity
  BY DEF LedgerInv
<1>. QED
  BY <1>1, LedgerInductive, PTL

-----------------------------------------------------------------------------
(* Immutability and frozen reads                                           *)

\* What any step does to the events of a stream that survives it.
LEMMA EventsStep ==
  ASSUME LedgerInv, [LedgerNext]_ledgerVars
  PROVE  /\ \A e \in events : e.stream \in DOMAIN streams' => e \in events'
         /\ \A e \in events' \ events : e.created_at = height
<1>1. CASE RegistryStep
  BY <1>1 DEF RegistryStep, cascade_events
<1>2. CASE InsertOne
  BY <1>2, OneEvent DEF FreshEvents, LedgerInv, LedgerTypeOK
<1>3. CASE InsertBatch
  BY <1>3, BatchEvents DEF FreshEvents, LedgerInv, LedgerTypeOK
<1>4. CASE UNCHANGED ledgerVars
  BY <1>4 DEF ledgerVars
<1>. QED
  BY <1>1, <1>2, <1>3, <1>4 DEF LedgerNext, OneByOneNext

\* Data records are immutable: only deleting the stream removes one.
THEOREM RecordsImmutable == LedgerSpec => EventsImmutable
<1>1. LedgerInv /\ [LedgerNext]_ledgerVars =>
        [/\ \A e \in events : e.stream \in DOMAIN streams' => e \in events'
         /\ \A e \in events' \ events : e.created_at = height]_ledgerVars
  BY EventsStep
<1>. QED
  BY <1>1, LedgerInductive, PTL DEF LedgerSpec, EventsImmutable

\* The rows a query sees with a block that is over stay the same.
LEMMA VisibleStable ==
  ASSUME LedgerInv, [LedgerNext]_ledgerVars,
         NEW k \in DOMAIN streams \cap DOMAIN streams',
         NEW h \in 0 .. MaxHeight, h < height
  PROVE  visible(k, h)' = visible(k, h)
<1>1. coalesce(h, MaxInt8) = h
  BY TextAssumption, EventAssumption, InputAssumption DEF coalesce
<1>2. \A e \in events : e.stream \in DOMAIN streams' => e \in events'
  BY EventsStep
<1>3. \A e \in events' : e \in events \/ e.created_at = height
  BY EventsStep
<1>4. h \in Nat /\ height \in Nat /\ ~ (height <= h)
  BY InputAssumption DEF LedgerInv, LedgerTypeOK, TypeOK
<1>. QED
  BY <1>1, <1>2, <1>3, <1>4 DEF visible

\* So do the rows a query that is not refused returns, and a base value is taken from.
LEMMA RowsStable ==
  ASSUME LedgerInv, [LedgerNext]_ledgerVars,
         NEW k \in DOMAIN streams \cap DOMAIN streams',
         NEW h \in 0 .. MaxHeight, h < height
  PROVE  /\ \A from, to : records(k, from, to, h)' = records(k, from, to, h)
         /\ \A t : /\ last_record(k, t, h)' = last_record(k, t, h)
                   /\ first_record(k, t, h)' = first_record(k, t, h)
                   /\ base_record(k, t, h)' = base_record(k, t, h)
<1>1. visible(k, h)' = visible(k, h)
  BY VisibleStable
<1>2. \A t : last_record(k, t, h)' = last_record(k, t, h)
  BY <1>1, Zenon DEF last_record
<1>3. \A t : first_record(k, t, h)' = first_record(k, t, h)
  BY <1>1, Zenon DEF first_record
<1>4. \A lo, hi : /\ anchor_record(k, lo, h)' = anchor_record(k, lo, h)
                  /\ interval_records(k, lo, hi, h)' = interval_records(k, lo, hi, h)
  BY <1>1, Zenon DEF anchor_record, interval_records
<1>5. \A from, to : records(k, from, to, h)' = records(k, from, to, h)
  BY <1>2, <1>4, Zenon DEF records
<1>6. \A t : base_record(k, t, h)' = base_record(k, t, h)
  BY <1>2, <1>3, <1>5 DEF base_record
<1>. QED
  BY <1>2, <1>3, <1>5, <1>6, Zenon

\* frozen_at makes queries repeatable: the answer of a block that is over does not
\* change as long as the stream lives, the permission to read it stays and, where no
\* base time is given, default_base_time stays: no insertion changes it.
THEOREM FrozenReads == LedgerSpec => FrozenStable
<1>1. ASSUME LedgerInv, [LedgerNext]_ledgerVars,
             NEW k \in DOMAIN streams \cap DOMAIN streams', NEW w,
             NEW h \in 0 .. MaxHeight, h < height,
             permission(k, w)' = permission(k, w)
      PROVE  FrozenAnswers(k, w, h)
  <2>0. /\ \A from, to : records(k, from, to, h)' = records(k, from, to, h)
        /\ \A t : /\ last_record(k, t, h)' = last_record(k, t, h)
                  /\ first_record(k, t, h)' = first_record(k, t, h)
                  /\ base_record(k, t, h)' = base_record(k, t, h)
    BY <1>1, RowsStable
  <2>1. /\ is_allowed_to_read(k, w)' = is_allowed_to_read(k, w)
        /\ is_allowed_to_read_all(k, w)' = is_allowed_to_read_all(k, w)
    BY <1>1 DEF permission
  <2>2. \A from, to : get_record_primitive(k, w, from, to, h)' = get_record_primitive(k, w, from, to, h)
    BY <2>0, <2>1 DEF get_record_primitive, guarded, Rows, Error
  <2>3. \A t : /\ get_last_record_primitive(k, w, t, h)' = get_last_record_primitive(k, w, t, h)
               /\ get_first_record_primitive(k, w, t, h)' = get_first_record_primitive(k, w, t, h)
    BY <2>0, <2>1
      DEF get_last_record_primitive, get_first_record_primitive, guarded, Rows, Error
  <2>4. may_read_base(k, w)' = may_read_base(k, w)
    BY <2>1 DEF may_read_base
  <2>5. ASSUME NEW t, base_times(k, t)' = base_times(k, t)
        PROVE  /\ get_base_value(k, w, t, h)' = get_base_value(k, w, t, h)
               /\ \A from, to : get_index_primitive(k, w, from, to, h, t)'
                                  = get_index_primitive(k, w, from, to, h, t)
    <3>1. get_base_value(k, w, t, h)' = get_base_value(k, w, t, h)
      BY <2>0, <2>4, <2>5 DEF get_base_value, Rows, Error
    <3>2. \A from, to : get_index_primitive(k, w, from, to, h, t)'
                          = get_index_primitive(k, w, from, to, h, t)
      BY <2>0, <3>1 DEF get_index_primitive, Rows, Error
    <3>. QED
      BY <3>1, <3>2, Zenon
  <2>. QED
    BY <2>2, <2>3, <2>5, Zenon DEF FrozenAnswers
<1>2. LedgerInv /\ [LedgerNext]_ledgerVars =>
        [\A k \in DOMAIN streams \cap DOMAIN streams', w \in Address, h \in 0 .. MaxHeight :
           h < height /\ permission(k, w)' = permission(k, w) => FrozenAnswers(k, w, h)]_ledgerVars
  BY <1>1
<1>. QED
  BY <1>2, LedgerInductive, PTL DEF LedgerSpec, FrozenStable

-----------------------------------------------------------------------------
(* Records and windows                                                     *)

\* Two events of a stream with one time and one block are the same; times and blocks
\* are numbers.
LEMMA VisibleEvents ==
  ASSUME LedgerInv, NEW k, NEW h
  PROVE  /\ \A e \in visible(k, h) : /\ e.event_time \in Int /\ e.event_time < MaxInt8
                                    /\ e.created_at \in Nat /\ e.created_at <= height
                                    /\ rec(e).event_time = e.event_time
                                    /\ rec(e).value = e.value
         /\ \A e, f \in visible(k, h) :
              e.event_time = f.event_time /\ e.created_at = f.created_at => e = f
<1>1. visible(k, h) \subseteq events /\ \A e \in visible(k, h) : e.stream = k
  BY DEF visible
<1>2. \A e \in events : /\ e.event_time \in TimeArgs
                        /\ e.created_at \in Nat /\ e.created_at <= height
  BY DEF LedgerInv, LedgerTypeOK, EventRow, EventIntegrity
<1>3. \A e, f \in events :
        e.stream = f.stream /\ e.event_time = f.event_time /\ e.created_at = f.created_at
          => e = f
  BY DEF LedgerInv, EventIntegrity
<1>4. \A e \in visible(k, h) : e.event_time \in Int /\ e.event_time < MaxInt8
  BY <1>1, <1>2, EventAssumption
<1>. QED
  BY <1>1, <1>2, <1>3, <1>4 DEF rec

\* The rows that answer records: the newest of their time, one a time.
NewestOfTimes(k, h, E) ==
  /\ E \subseteq visible(k, h)
  /\ \A e \in E, f \in visible(k, h) :
       f.event_time = e.event_time => f.created_at <= e.created_at
  /\ \A e, f \in E : e.event_time = f.event_time => e = f

LEMMA RecordsAreNewest ==
  ASSUME LedgerInv, NEW k, NEW h,
         NEW from \in TimeArgs \cup {NULL}, NEW to \in TimeArgs \cup {NULL}
  PROVE  \E E : NewestOfTimes(k, h, E) /\ records(k, from, to, h) = {rec(e) : e \in E}
<1>. DEFINE S == visible(k, h)
<1>0. /\ \A e \in S : /\ e.event_time \in Int /\ e.event_time < MaxInt8
                      /\ e.created_at \in Nat
      /\ \A e, f \in S : e.event_time = f.event_time /\ e.created_at = f.created_at => e = f
  BY VisibleEvents
<1>1. ASSUME NEW F \in SUBSET S,
             \A e \in F, f \in S : f.event_time = e.event_time => f \in F
      PROVE  NewestOfTimes(k, h, latest(F))
  <2>. HIDE DEF S
  <2>1. NewestOfTimes(k, h, latest(F)) <=>
          /\ latest(F) \subseteq S
          /\ \A e \in latest(F), f \in S : f.event_time = e.event_time => f.created_at <= e.created_at
          /\ \A e, f \in latest(F) : e.event_time = f.event_time => e = f
    BY DEF NewestOfTimes, S
  <2>. QED
    BY <1>0, <1>1, <2>1 DEF latest
<1>2. CASE from = NULL /\ to = NULL
  <2>. DEFINE F == {f \in S : f.event_time < coalesce(NULL, MaxInt8)}
  <2>1. records(k, from, to, h) = {rec(e) : e \in latest(F)}
    BY <1>2 DEF records, last_record
  <2>2. NewestOfTimes(k, h, latest(F))
    <3>1. F \in SUBSET S /\ \A e \in F, f \in S : f.event_time = e.event_time => f \in F
      OBVIOUS
    <3>. HIDE DEF F, S
    <3>. QED
      BY <1>1, <3>1
  <2>. QED
    BY <2>1, <2>2
<1>3. CASE ~ (from = NULL /\ to = NULL)
  <2>. DEFINE lo == coalesce(from, 0)
              hi == coalesce(to, MaxInt8)
              A == anchor_record(k, lo, h)
              B == interval_records(k, lo, hi, h)
  <2>1. records(k, from, to, h) = {rec(e) : e \in A \cup B}
    BY <1>3, Zenon DEF records
  <2>2. lo \in Int
    BY EventAssumption DEF coalesce
  <2>. HIDE DEF lo, hi
  <2>3. NewestOfTimes(k, h, A)
    <3>. DEFINE F == {e \in S : e.event_time <= lo}
    <3>1. A = latest(F)
      BY DEF anchor_record
    <3>2. F \in SUBSET S /\ \A e \in F, f \in S : f.event_time = e.event_time => f \in F
      OBVIOUS
    <3>. HIDE DEF F, S, A
    <3>. QED
      BY <1>1, <3>1, <3>2
  <2>4. \A e \in A : e \in S /\ e.event_time <= lo
    BY DEF anchor_record, latest
  <2>5. /\ \A e \in B : e \in S /\ lo < e.event_time
        /\ \A e \in B, f \in S : f.event_time = e.event_time => f.created_at <= e.created_at
    BY DEF interval_records
  <2>. HIDE DEF A, B
  <2>6. NewestOfTimes(k, h, A \cup B)
    <3>. HIDE DEF S
    <3>1. /\ A \subseteq S
          /\ \A e \in A, f \in S : f.event_time = e.event_time => f.created_at <= e.created_at
      BY <2>3 DEF NewestOfTimes, S
    <3>2. \A e, f \in A : e.event_time = f.event_time => e = f
      BY <2>3 DEF NewestOfTimes
    <3>3. /\ A \cup B \subseteq S
          /\ \A e \in A \cup B, f \in S : f.event_time = e.event_time => f.created_at <= e.created_at
      BY <2>5, <3>1
    <3>4. ASSUME NEW e \in A \cup B, NEW f \in A \cup B, e.event_time = f.event_time
          PROVE  e = f
      <4>1. e \in S /\ f \in S /\ e.created_at <= f.created_at /\ f.created_at <= e.created_at
        BY <3>3, <3>4
      <4>. QED
        BY <1>0, <3>4, <4>1
    <3>. QED
      BY <3>3, <3>4 DEF NewestOfTimes, S
  <2>. QED
    BY <2>1, <2>6
<1>. QED
  BY <1>2, <1>3

\* QUERY07: a query returns a time once, with the value inserted last: it takes the
\* newest block of each time, and the primary key lets a block have one.
THEOREM RecordsAreUnique == LedgerSpec => []OneRecordPerTime
<1>1. LedgerInv => OneRecordPerTime
  <2>. SUFFICES ASSUME LedgerInv, NEW k \in DOMAIN streams,
                       NEW from \in TimeArgs \cup {NULL}, NEW to \in TimeArgs \cup {NULL},
                       NEW h \in FrozenArgs, NEW r \in records(k, from, to, h)
                PROVE  /\ \A q \in records(k, from, to, h) :
                            q.event_time = r.event_time => q = r
                       /\ \E e \in visible(k, h) :
                            /\ rec(e) = r
                            /\ \A f \in visible(k, h) :
                                 f.event_time = e.event_time => f.created_at <= e.created_at
    BY DEF OneRecordPerTime
  <2>1. PICK E : /\ NewestOfTimes(k, h, E)
                 /\ records(k, from, to, h) = {rec(x) : x \in E}
    BY RecordsAreNewest
  <2>2. PICK e \in E : r = rec(e)
    BY <2>1
  <2>3. \A x \in E : rec(x).event_time = x.event_time
    BY <2>1, VisibleEvents DEF NewestOfTimes
  <2>4. ASSUME NEW q \in records(k, from, to, h), q.event_time = r.event_time
        PROVE  q = r
    <3>1. PICK f \in E : q = rec(f)
      BY <2>1
    <3>2. f.event_time = e.event_time
      BY <2>2, <2>3, <2>4, <3>1
    <3>. QED
      BY <2>1, <2>2, <3>1, <3>2 DEF NewestOfTimes
  <2>. QED
    BY <2>1, <2>2, <2>4 DEF NewestOfTimes
<1>. QED
  BY <1>1, LedgerInductive, PTL

\* Every time in a window at which there is an event has a newest one.
LEMMA TimeHasNewest ==
  ASSUME LedgerInv, NEW k, NEW h, NEW lo \in Int, NEW hi \in Int,
         NEW f \in visible(k, h), lo < f.event_time, f.event_time <= hi
  PROVE  \E g \in interval_records(k, lo, hi, h) : g.event_time = f.event_time
<1>. DEFINE F == {e \in visible(k, h) : e.event_time = f.event_time}
            N == {e.created_at : e \in F}
<1>1. N \in SUBSET Nat /\ N # {} /\ \A n \in N : n <= height
  BY VisibleEvents
<1>2. height \in Nat
  BY DEF LedgerInv, LedgerTypeOK, TypeOK
<1>3. PICK m \in N : \A n \in N : n <= m
  <2>. HIDE DEF N
  <2>. QED
    BY <1>1, <1>2, BoundedHasLargest
<1>4. PICK g \in F : g.created_at = m
  OBVIOUS
<1>5. g \in interval_records(k, lo, hi, h)
  BY <1>3, <1>4 DEF interval_records
<1>. QED
  BY <1>4, <1>5

\* Among the rows of a window around t, those up to t with the greatest time are the
\* ones a query of t alone finds.
LEMMA WindowCarries ==
  ASSUME LedgerInv, NEW k, NEW h, NEW lo \in Int, NEW hi \in Int, NEW t \in Int,
         lo <= t, t <= hi
  PROVE  LET E == anchor_record(k, lo, h) \cup interval_records(k, lo, hi, h)
         IN {e \in E : e.event_time <= t /\
               \A f \in E : f.event_time <= t => f.event_time <= e.event_time}
              = anchor_record(k, t, h)
<1>. DEFINE S == visible(k, h)
            A == anchor_record(k, lo, h)
            B == interval_records(k, lo, hi, h)
            E == A \cup B
            last(e) == e.event_time <= t /\
                         \A f \in E : f.event_time <= t => f.event_time <= e.event_time
<1>0. \A e \in S : e.event_time \in Int /\ e.created_at \in Nat
  BY VisibleEvents
<1>1. \A e : e \in A <=>
        /\ e \in S /\ e.event_time <= lo
        /\ \A f \in S : f.event_time <= lo =>
             \/ f.event_time < e.event_time
             \/ f.event_time = e.event_time /\ f.created_at <= e.created_at
  BY DEF anchor_record, latest
<1>2. \A e : e \in B <=>
        /\ e \in S /\ lo < e.event_time /\ e.event_time <= hi
        /\ \A f \in S : f.event_time = e.event_time => f.created_at <= e.created_at
  BY DEF interval_records
<1>3. \A e : e \in anchor_record(k, t, h) <=>
        /\ e \in S /\ e.event_time <= t
        /\ \A f \in S : f.event_time <= t =>
             \/ f.event_time < e.event_time
             \/ f.event_time = e.event_time /\ f.created_at <= e.created_at
  BY DEF anchor_record, latest
<1>4. \A f \in S : lo < f.event_time /\ f.event_time <= hi =>
        \E g \in B : g.event_time = f.event_time
  BY TimeHasNewest
<1>. HIDE DEF S, A, B
<1>5. ASSUME NEW e \in E, last(e)
      PROVE  e \in anchor_record(k, t, h)
  <2>1. e \in S /\ e.event_time <= t /\ e.event_time \in Int
    BY <1>0, <1>1, <1>2, <1>5
  <2>2. ASSUME NEW f \in S, f.event_time <= t
        PROVE  \/ f.event_time < e.event_time
               \/ f.event_time = e.event_time /\ f.created_at <= e.created_at
    <3>0. f.event_time \in Int
      BY <1>0
    <3>1. CASE f.event_time <= lo
      BY <3>0, <3>1, <2>1, <1>1, <1>2
    <3>2. CASE lo < f.event_time
      <4>1. PICK g \in B : g.event_time = f.event_time
        BY <1>4, <2>2, <3>0, <3>2
      <4>2. f.event_time <= e.event_time
        BY <4>1, <1>5, <2>2
      <4>3. e \in B
        BY <1>1, <2>1, <3>0, <3>2, <4>2
      <4>. QED
        BY <1>2, <2>1, <3>0, <4>2, <4>3
    <3>. QED
      BY <3>0, <3>1, <3>2
  <2>. QED
    BY <1>3, <2>1, <2>2
<1>6. ASSUME NEW e \in anchor_record(k, t, h)
      PROVE  e \in E /\ last(e)
  <2>1. /\ e \in S /\ e.event_time <= t /\ e.event_time \in Int
        /\ \A f \in S : f.event_time <= t =>
             \/ f.event_time < e.event_time
             \/ f.event_time = e.event_time /\ f.created_at <= e.created_at
    BY <1>0, <1>3
  <2>2. e.event_time <= lo => e \in A
    BY <1>0, <1>1, <2>1
  <2>3. lo < e.event_time => e \in B
    BY <1>0, <1>2, <2>1
  <2>4. \A f \in E : f \in S /\ f.event_time \in Int
    BY <1>0, <1>1, <1>2
  <2>5. \A f \in E : f.event_time <= t => f.event_time <= e.event_time
    BY <2>1, <2>4
  <2>. QED
    BY <2>1, <2>2, <2>3, <2>5
<1>. HIDE DEF E
<1>7. {e \in E : last(e)} = anchor_record(k, t, h)
  <2>. HIDE DEF last
  <2>. QED
    BY <1>5, <1>6
<1>. QED
  BY <1>7 DEF E, A, B

\* QUERY06: every window that holds a time gives it the value a query of that time
\* gives: the anchor stands in for what came before the window, and the newest block
\* of a time is in it whenever the time is.
THEOREM WindowsAgree == LedgerSpec => []WindowIndependent
<1>1. LedgerInv => WindowIndependent
  <2>. SUFFICES ASSUME LedgerInv, NEW k \in DOMAIN streams, NEW h \in FrozenArgs,
                       NEW t \in TimeArgs
                PROVE  LET now == {r.value : r \in last_record(k, t + 1, h)}
                       IN /\ {r.value : r \in records(k, t, t, h)} = now
                          /\ \A from, to \in TimeArgs \cup {NULL} :
                               /\ from # NULL \/ to # NULL
                               /\ coalesce(from, 0) <= t /\ t <= coalesce(to, MaxInt8)
                               => value_at(records(k, from, to, h), t) = now
    BY DEF WindowIndependent
  <2>. DEFINE N == anchor_record(k, t, h)
              now == {r.value : r \in last_record(k, t + 1, h)}
  <2>0. t \in Int /\ t # NULL /\ t + 1 # NULL
    BY EventAssumption, TextAssumption
  <2>1. last_record(k, t + 1, h) = {rec(e) : e \in N}
    <3>1. coalesce(t + 1, MaxInt8) = t + 1
      BY <2>0 DEF coalesce
    <3>2. {f \in visible(k, h) : f.event_time < t + 1} = {f \in visible(k, h) : f.event_time <= t}
      BY <2>0, VisibleEvents
    <3>. QED
      BY <3>1, <3>2 DEF last_record, anchor_record
  <2>2. \A e : rec(e).event_time = e.event_time
    BY DEF rec
  <2>. HIDE DEF N
  <2>3. ASSUME NEW from \in TimeArgs \cup {NULL}, NEW to \in TimeArgs \cup {NULL},
               from # NULL \/ to # NULL,
               coalesce(from, 0) <= t, t <= coalesce(to, MaxInt8)
        PROVE  value_at(records(k, from, to, h), t) = now
    <3>. DEFINE lo == coalesce(from, 0)
                hi == coalesce(to, MaxInt8)
                E == anchor_record(k, lo, h) \cup interval_records(k, lo, hi, h)
                R == records(k, from, to, h)
                Q == {e \in E : e.event_time <= t /\
                        \A f \in E : f.event_time <= t => f.event_time <= e.event_time}
    <3>1. lo \in Int /\ hi \in Int /\ lo <= t /\ t <= hi
      BY <2>3, EventAssumption DEF coalesce
    <3>2. R = {rec(e) : e \in E}
      BY <2>3, Zenon DEF records
    <3>. HIDE DEF lo, hi
    <3>3. Q = N
      BY <2>0, <3>1, WindowCarries DEF N
    <3>. HIDE DEF E, R
    <3>4. {q \in R : q.event_time <= t /\
             \A p \in R : p.event_time <= t => p.event_time <= q.event_time}
            = {rec(e) : e \in Q}
      BY <2>2, <3>2
    <3>. QED
      BY <2>1, <3>3, <3>4, Zenon DEF value_at, R
  <2>4. {r.value : r \in records(k, t, t, h)} = now
    <3>1. interval_records(k, t, t, h) = {}
      BY <2>0, VisibleEvents DEF interval_records
    <3>2. records(k, t, t, h) = {rec(e) : e \in N \cup {}}
      <4>1. coalesce(t, 0) = t /\ coalesce(t, MaxInt8) = t
        BY <2>0 DEF coalesce
      <4>. QED
        BY <2>0, <3>1, <4>1, Zenon DEF records, N
    <3>. QED
      BY <2>1, <3>2
  <2>. QED
    BY <2>3, <2>4
<1>. QED
  BY <1>1, LedgerInductive, PTL

-----------------------------------------------------------------------------
(* Records inserted one at a time                                          *)

\* Without batch insertions every event belongs to a primitive stream: insert_record
\* looks at the type, the type of a stream never changes, and a stream created
\* again under its name finds no event of the old one.
THEOREM OnlyPrimitiveStreams == OneByOneSpec => []PrimitiveOnly
<1>. DEFINE Inv == LedgerInv /\ PrimitiveOnly
<1>1. LedgerInit => Inv
  BY LedgerStart DEF LedgerInit, PrimitiveOnly
<1>2. Inv /\ [OneByOneNext]_ledgerVars => Inv'
  <2>. SUFFICES ASSUME Inv, [OneByOneNext]_ledgerVars
                PROVE  PrimitiveOnly'
    BY LedgerStep DEF LedgerNext
  <2>1. CASE RegistryStep
    <3>1. \A k \in DOMAIN streams \cap DOMAIN streams' : streams'[k] = streams[k]
      BY <2>1, StreamsKept DEF RegistryStep, LedgerInv, LedgerTypeOK
    <3>2. events' = {e \in events : e.stream \in DOMAIN streams'}
      BY <2>1 DEF RegistryStep, cascade_events
    <3>3. \A e \in events : e.stream \in DOMAIN streams
      BY DEF LedgerInv, EventIntegrity
    <3>. QED
      BY <3>1, <3>2, <3>3 DEF PrimitiveOnly, is_primitive_stream, stream_exists
  <2>2. CASE InsertOne
    <3>1. PICK c \in Callers, dp \in ProviderArgs, id \in StreamIdArgs,
               t \in TimeArgs, v \in ValueArgs : insert_record(c, dp, id, t, v)
      BY <2>2 DEF InsertOne
    <3>. QED
      BY <3>1 DEF insert_record, append, new_event, PrimitiveOnly, is_primitive_stream, stream_exists
  <2>3. CASE UNCHANGED ledgerVars
    BY <2>3 DEF ledgerVars, PrimitiveOnly, is_primitive_stream, stream_exists
  <2>. QED
    BY <2>1, <2>2, <2>3 DEF OneByOneNext
<1>3. Inv => PrimitiveOnly
  OBVIOUS
<1>. QED
  BY <1>1, <1>2, <1>3, PTL DEF OneByOneSpec
=============================================================================
