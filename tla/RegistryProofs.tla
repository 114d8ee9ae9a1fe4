--------------------------- MODULE RegistryProofs ---------------------------
(***************************************************************************)
(* Proofs about the registry, for all wallets, texts, batches and bounds:  *)
(* its tables stay well-formed, and who decides about a stream.            *)
(* OwnerAuthority holds however streams are created; that there is one     *)
(* owner, and that the registry implements Ownership, hold of streams      *)
(* created one at a time (create_streams leaves the stream_owner key       *)
(* writable).                                                              *)
(***************************************************************************)
EXTENDS RegistryRefinement, WellFoundedInduction, TLAPS

USE TextAssumption, InputAssumption

-----------------------------------------------------------------------------
(* The largest of bounded numbers                                          *)

\* A bounded set of numbers has a largest member: the newest version of a record,
\* the latest version of a taxonomy.
LEMMA BoundedHasLargest ==
  ASSUME NEW S \in SUBSET Nat, S # {}, NEW b \in Nat, \A s \in S : s <= b
  PROVE  \E m \in S : \A s \in S : s <= m
<1>. DEFINE T == {b - s : s \in S}
<1>1. T \subseteq Nat /\ T # {}
  <2>1. PICK s \in S : TRUE
    OBVIOUS
  <2>2. b - s \in T
    OBVIOUS
  <2>3. \A y \in S : b - y \in Nat
    OBVIOUS
  <2>. QED
    BY <2>2, <2>3
<1>2. IsWellFoundedOn(OpToRel(<, Nat), Nat)
  BY NatLessThanWellFounded
<1>3. PICK x \in T : \A y \in T : ~ (<<y, x>> \in OpToRel(<, Nat))
  <2>. HIDE DEF T
  <2>. QED
    BY <1>1, <1>2, WFMin, Zenon
<1>4. \A y \in T : ~ (y < x)
  <2>. HIDE DEF T
  <2>. QED
    BY <1>1, <1>3 DEF OpToRel
<1>5. PICK m \in S : x = b - m
  OBVIOUS
<1>6. ASSUME NEW s \in S PROVE s <= m
  <2>1. ~ (b - s < b - m)
    BY <1>4, <1>5
  <2>. QED
    BY <2>1
<1>. QED
  BY <1>6

\* LOWER yields a text.
LEMMA LowerText ==
  ASSUME NEW t \in Text
  PROVE  Lower[t] \in Text
BY DEF Keywords, StreamTypes

\* A row an action writes has the columns of the table.
LEMMA RowType ==
  ASSUME NEW n \in Nat, NEW k \in Key, NEW key \in Text,
         NEW i \in Int \cup {NULL}, NEW s \in Text \cup {NULL},
         NEW ref \in Text \cup {NULL}, height \in Nat
  PROVE  Row(n, k, key, i, s, ref) \in MetadataRow
BY DEF Row, MetadataRow

\* A disabled row has them too.
LEMMA DisabledType ==
  ASSUME NEW r \in MetadataRow, NEW h \in Nat
  PROVE  [r EXCEPT !.disabled_at = h] \in MetadataRow
BY DEF MetadataRow

\* The rows a new stream starts with are rows of the table.
LEMMA DefaultRowsType ==
  ASSUME NEW n \in Nat, NEW k \in Key, NEW t \in StreamTypes, height \in Nat
  PROVE  /\ DefaultRows(n, k, t) \subseteq MetadataRow
         /\ BatchDefaultRows(n, k, t) \subseteq MetadataRow
<1>1. /\ k[1] \in Text /\ Lower[k[1]] \in Text /\ t \in Text
      /\ {"type", "stream_owner", "read_visibility", "readonly_key",
          "readonly_key:stream_owner", "readonly_key:readonly_key"} \subseteq Text
  BY LowerText DEF Key, Keywords
<1>2. /\ n + 1 \in Nat /\ n + 2 \in Nat /\ n + 3 \in Nat
      /\ n + 4 \in Nat /\ n + 5 \in Nat
  OBVIOUS
<1>3. /\ Row(n + 1, k, "type", NULL, t, NULL) \in MetadataRow
      /\ Row(n + 2, k, "stream_owner", NULL, NULL, Lower[k[1]]) \in MetadataRow
      /\ Row(n + 3, k, "read_visibility", 0, NULL, NULL) \in MetadataRow
  BY <1>1, <1>2 DEF Row, MetadataRow
<1>4. /\ Row(n + 4, k, "readonly_key", NULL, "stream_owner", NULL) \in MetadataRow
      /\ Row(n + 5, k, "readonly_key", NULL, "readonly_key", NULL) \in MetadataRow
      /\ Row(n + 4, k, "readonly_key:stream_owner", NULL, "stream_owner", NULL)
           \in MetadataRow
      /\ Row(n + 5, k, "readonly_key:readonly_key", NULL, "readonly_key", NULL)
           \in MetadataRow
  BY <1>1, <1>2, RowType
<1>. QED
  BY <1>3, <1>4 DEF DefaultRows, BatchDefaultRows

\* Every action of the registry keeps the column types.
LEMMA TypeStep == TypeOK /\ [RegNext]_regVars => TypeOK'
<1>. SUFFICES ASSUME TypeOK, [RegNext]_regVars
              PROVE  TypeOK'
  OBVIOUS
<1>. USE DEF TypeOK
<1>1. ASSUME NEW c \in Callers, NEW id \in StreamIdArgs, NEW t \in TypeArgs,
             create_stream(c, id, t)
      PROVE  TypeOK'
  <2>. DEFINE k == <<Lower[c], id>>
  <2>1. k \in Key /\ t \in StreamTypes /\ Lower[c] \in Text
    BY <1>1 DEF create_stream, Key, is_stream_type
  <2>2. DefaultRows(written, k, t) \subseteq MetadataRow
    BY <2>1, DefaultRowsType
  <2>3. DOMAIN streams' = DOMAIN streams \cup {k} /\ streams' \in [DOMAIN streams' -> StreamRow]
    BY <1>1, <2>1 DEF create_stream, StreamRow
  <2>4. written' \in Nat /\ height' \in Nat
    BY <1>1 DEF create_stream
  <2>5. metadata' \subseteq MetadataRow /\ signer' \in Text \cup {NULL}
    BY <1>1, <2>1, <2>2 DEF create_stream
  <2>. HIDE DEF k
  <2>. QED
    BY <2>1, <2>3, <2>4, <2>5
<1>2. ASSUME NEW c \in Callers, NEW b \in StreamBatches, create_streams(c, b)
      PROVE  TypeOK'
  <2>. DEFINE I == DOMAIN b.stream_ids
              new == {<<Lower[c], b.stream_ids[i]>> : i \in I}
  <2>1. /\ Lower[c] \in Address /\ Lower[c] \in Text
        /\ I = 1 .. Len(b.stream_ids) /\ Len(b.stream_ids) \in Nat
        /\ \A i \in I : /\ b.stream_ids[i] \in WellFormedIds
                        /\ b.stream_types[i] \in StreamTypes
    BY <1>2, LowerText DEF create_streams, is_stream_type
  <2>2. new \subseteq Key
    BY <2>1 DEF Key
  <2>3. ASSUME NEW i \in I
        PROVE  BatchDefaultRows(written + 5 * (i - 1), <<Lower[c], b.stream_ids[i]>>,
                                b.stream_types[i]) \subseteq MetadataRow
    <3>1. written + 5 * (i - 1) \in Nat /\ <<Lower[c], b.stream_ids[i]>> \in Key
      BY <2>1 DEF Key
    <3>. QED
      BY <3>1, <2>1, DefaultRowsType
  <2>4. metadata' \subseteq MetadataRow
    <3>. DEFINE rows(i) == BatchDefaultRows(written + 5 * (i - 1),
                             <<Lower[c], b.stream_ids[i]>>, b.stream_types[i])
    <3>1. metadata' = metadata \cup UNION {rows(i) : i \in I}
      BY <1>2, Zenon DEF create_streams
    <3>2. \A i \in I : rows(i) \subseteq MetadataRow
      BY <2>3, Zenon
    <3>. HIDE DEF I, rows
    <3>. QED
      BY <3>1, <3>2
  <2>5. DOMAIN streams' = DOMAIN streams \cup new
    BY <1>2 DEF create_streams
  <2>6. ASSUME NEW x \in new
        PROVE  b.stream_types[CHOOSE i \in I : b.stream_ids[i] = x[2]] \in StreamTypes
    <3>1. \E i \in I : b.stream_ids[i] = x[2]
      OBVIOUS
    <3>. QED
      BY <3>1, <2>1
  <2>7. streams' \in [DOMAIN streams' -> StreamRow]
    <3>. DEFINE type(x) == b.stream_types[CHOOSE i \in I : b.stream_ids[i] = x[2]]
    <3>1. streams' = [x \in DOMAIN streams \cup new |->
                        IF x \in new
                        THEN [stream_type |-> type(x), created_at |-> height]
                        ELSE streams[x]]
      BY <1>2 DEF create_streams
    <3>2. \A x \in new : type(x) \in StreamTypes
      BY <2>6
    <3>. HIDE DEF type, new
    <3>. QED
      BY <3>1, <3>2, <2>5 DEF StreamRow
  <2>8. written' \in Nat /\ height' \in Nat /\ signer' \in Text \cup {NULL}
    BY <1>2, <2>1 DEF create_streams
  <2>. HIDE DEF new
  <2>. QED
    BY <2>2, <2>4, <2>5, <2>7, <2>8
<1>3. ASSUME NEW c \in Callers, NEW dp \in ProviderArgs, NEW id \in StreamIdArgs,
             NEW a \in MetadataArgs, insert_metadata(c, dp, id, a)
      PROVE  TypeOK'
  <2>1. <<Lower[dp], id>> \in Key /\ Lower[c] \in Text
    BY <1>3, LowerText DEF insert_metadata, may_manage, stream_exists
  <2>. DEFINE i == IF a.val_type = "int" THEN IntOf[a.value] ELSE NULL
              s == IF a.val_type = "string" THEN a.value ELSE NULL
              ref == IF a.val_type = "ref" THEN Lower[a.value] ELSE NULL
  <2>2. a.key \in Text /\ a.value \in Text /\ written + 1 \in Nat
    OBVIOUS
  <2>3. i \in Int \cup {NULL} /\ s \in Text \cup {NULL} /\ ref \in Text \cup {NULL}
    BY <2>2, LowerText
  <2>4. metadata' = metadata \cup {Row(written + 1, <<Lower[dp], id>>, a.key, i, s, ref)}
    BY <1>3, Zenon DEF insert_metadata
  <2>. HIDE DEF i, s, ref
  <2>5. Row(written + 1, <<Lower[dp], id>>, a.key, i, s, ref) \in MetadataRow
    BY <2>1, <2>2, <2>3, RowType
  <2>6. metadata' \subseteq MetadataRow
    BY <2>4, <2>5
  <2>7. /\ written' = written + 1 /\ signer' = Lower[c]
        /\ UNCHANGED <<height, streams>>
    BY <1>3 DEF insert_metadata
  <2>. QED
    BY <2>1, <2>2, <2>6, <2>7
<1>4. ASSUME NEW c \in Callers, NEW dp \in ProviderArgs, NEW id \in StreamIdArgs,
             NEW n \in 1 .. written, disable_metadata(c, dp, id, n)
      PROVE  TypeOK'
  <2>. DEFINE hit(r) == r.row_id = n /\ r.stream = <<Lower[dp], id>>
  <2>1. metadata' = {IF hit(r) THEN [r EXCEPT !.disabled_at = height] ELSE r : r \in metadata}
    BY <1>4 DEF disable_metadata
  <2>2. \A r \in metadata : [r EXCEPT !.disabled_at = height] \in MetadataRow
    BY DisabledType
  <2>. HIDE DEF hit
  <2>3. metadata' \subseteq MetadataRow
    BY <2>1, <2>2
  <2>. QED
    BY <1>4, <2>3, LowerText DEF disable_metadata
<1>5. ASSUME NEW c \in Callers, NEW dp \in ProviderArgs, NEW id \in StreamIdArgs,
             delete_stream(c, dp, id)
      PROVE  TypeOK'
  BY <1>5, LowerText DEF delete_stream, cascade
<1>6. ASSUME NEW c \in Callers, NEW dp \in ProviderArgs, NEW id \in StreamIdArgs,
             NEW new \in ProviderArgs, transfer_stream_ownership(c, dp, id, new)
      PROVE  TypeOK'
  BY <1>6, LowerText DEF transfer_stream_ownership, MetadataRow
<1>7. CASE NextBlock
  BY <1>7 DEF NextBlock
<1>8. CASE UNCHANGED regVars
  BY <1>8 DEF regVars
<1>. QED
  BY <1>1, <1>2, <1>3, <1>4, <1>5, <1>6, <1>7, <1>8 DEF RegNext, SingleNext, Manage

\* Type correctness: the tables keep the columns of 000-initial-data.sql under
\* every sequence of transactions and blocks.
THEOREM TypeCorrect == RegSpec => []TypeOK
<1>1. RegInit => TypeOK
  BY DEF RegInit, TypeOK
<1>. QED
  BY <1>1, TypeStep, PTL DEF RegSpec

-----------------------------------------------------------------------------
(* Integrity of the rows                                                   *)

\* What the rows of a new stream have in common; n numbers them.
FreshRows(R, n, k) ==
  /\ \A r \in R : /\ r.row_id \in (n + 1) .. (n + 5)
                  /\ r.stream = k
                  /\ r.created_at = height
                  /\ r.disabled_at = NULL
  /\ \A r, q \in R : r.row_id = q.row_id => r = q

LEMMA NewRows ==
  ASSUME NEW n \in Nat, NEW k, NEW t
  PROVE  /\ FreshRows(DefaultRows(n, k, t), n, k)
         /\ FreshRows(BatchDefaultRows(n, k, t), n, k)
<1>1. FreshRows(DefaultRows(n, k, t), n, k)
  BY DEF FreshRows, DefaultRows, Row
<1>2. FreshRows(BatchDefaultRows(n, k, t), n, k)
  BY DEF FreshRows, BatchDefaultRows, Row
<1>. QED
  BY <1>1, <1>2

\* The five row ids of the i-th stream of a batch of n, and those of another.
LEMMA Slot ==
  ASSUME NEW w \in Nat, NEW n \in Nat, NEW i \in 1 .. n,
         NEW x \in (w + 5 * (i - 1) + 1) .. (w + 5 * (i - 1) + 5)
  PROVE  x \in (w + 1) .. (w + 5 * n)
OBVIOUS

LEMMA SlotsDisjoint ==
  ASSUME NEW w \in Nat, NEW i \in Int, NEW j \in Int,
         NEW x \in (w + 5 * (i - 1) + 1) .. (w + 5 * (i - 1) + 5),
         x \in (w + 5 * (j - 1) + 1) .. (w + 5 * (j - 1) + 5)
  PROVE  i = j
OBVIOUS

\* Rows written in a transaction, numbered past `written`, for streams created
\* no later, keep Integrity.
LEMMA IntegrityOfInserts ==
  ASSUME TypeOK, Integrity, NEW R \in SUBSET MetadataRow,
         metadata' = metadata \cup R, height' = height,
         written' \in Nat, written <= written',
         DOMAIN streams \subseteq DOMAIN streams',
         \A k \in DOMAIN streams : streams'[k] = streams[k],
         \A r \in R : /\ r.row_id \in (written + 1) .. written'
                      /\ r.stream \in DOMAIN streams'
                      /\ r.created_at = height
                      /\ streams'[r.stream].created_at <= height
                      /\ r.disabled_at = NULL,
         \A r, q \in R : r.row_id = q.row_id => r = q
  PROVE  Integrity'
<1>1. \A r \in metadata : r.row_id \in 1 .. written /\ r.row_id \in 1 .. written'
  BY DEF Integrity, TypeOK, MetadataRow
<1>2. ASSUME NEW r \in metadata'
      PROVE  /\ r.row_id \in 1 .. written'
             /\ r.stream \in DOMAIN streams'
             /\ r.created_at <= height'
             /\ streams'[r.stream].created_at <= r.created_at
             /\ r.disabled_at # NULL =>
                  r.created_at <= r.disabled_at /\ r.disabled_at <= height'
  <2>1. CASE r \in metadata
    BY <2>1, <1>1 DEF Integrity
  <2>2. CASE r \in R
    BY <2>2 DEF TypeOK, MetadataRow
  <2>. QED
    BY <2>1, <2>2
<1>3. ASSUME NEW r \in metadata', NEW q \in metadata', r.row_id = q.row_id
      PROVE  r = q
  <2>1. \A x \in metadata, y \in R : x.row_id # y.row_id
    BY <1>1 DEF TypeOK
  <2>. QED
    BY <1>3, <2>1 DEF Integrity
<1>. QED
  BY <1>2, <1>3 DEF Integrity

\* The rows keep their ids, streams and ages under every action.
LEMMA IntegrityStep == TypeOK /\ Integrity /\ [RegNext]_regVars => Integrity'
<1>. SUFFICES ASSUME TypeOK, Integrity, [RegNext]_regVars
              PROVE  Integrity'
  OBVIOUS
<1>0. TypeOK'
  BY TypeStep
<1>1. ASSUME NEW c \in Callers, NEW id \in StreamIdArgs, NEW t \in TypeArgs,
             create_stream(c, id, t)
      PROVE  Integrity'
  <2>. DEFINE k == <<Lower[c], id>>
              R == DefaultRows(written, k, t)
  <2>1. /\ metadata' = metadata \cup R /\ written' = written + 5 /\ height' = height
        /\ DOMAIN streams' = DOMAIN streams \cup {k}
        /\ \A x \in DOMAIN streams : streams'[x] = streams[x]
        /\ streams'[k].created_at = height
    BY <1>1 DEF create_stream, stream_exists
  <2>2. FreshRows(R, written, k)
    BY NewRows DEF TypeOK
  <2>3. /\ R \subseteq MetadataRow /\ height <= height
        /\ written' \in Nat /\ written <= written'
    BY <1>0, <2>1 DEF TypeOK
  <2>. HIDE DEF R, k
  <2>4. \A r \in R : /\ r.row_id \in (written + 1) .. written'
                     /\ r.stream \in DOMAIN streams'
                     /\ r.created_at = height
                     /\ streams'[r.stream].created_at <= height
                     /\ r.disabled_at = NULL
    BY <2>1, <2>2, <2>3 DEF FreshRows
  <2>. QED
    BY <2>1, <2>2, <2>3, <2>4, IntegrityOfInserts DEF FreshRows
<1>2. ASSUME NEW c \in Callers, NEW b \in StreamBatches, create_streams(c, b)
      PROVE  Integrity'
  <2>. DEFINE I == DOMAIN b.stream_ids
              k(i) == <<Lower[c], b.stream_ids[i]>>
              rows(i) == BatchDefaultRows(written + 5 * (i - 1), k(i), b.stream_types[i])
              R == UNION {rows(i) : i \in I}
              m == 5 * Len(b.stream_ids)
  <2>0. I = 1 .. Len(b.stream_ids) /\ Len(b.stream_ids) \in Nat /\ m \in Nat /\ I \subseteq Int
    OBVIOUS
  <2>1. metadata' = metadata \cup R /\ written' = written + m /\ height' = height
    BY <1>2, Zenon DEF create_streams
  <2>2. /\ DOMAIN streams' = DOMAIN streams \cup {k(i) : i \in I}
        /\ \A x \in DOMAIN streams : streams'[x] = streams[x]
        /\ \A i \in I : streams'[k(i)].created_at = height
    BY <1>2 DEF create_streams
  <2>3. ASSUME NEW i \in I
        PROVE  FreshRows(rows(i), written + 5 * (i - 1), k(i))
    <3>1. written + 5 * (i - 1) \in Nat
      BY <2>0 DEF TypeOK
    <3>. QED
      BY <3>1, NewRows
  <2>4. R \in SUBSET MetadataRow /\ written' \in Nat /\ written <= written'
    <3>. HIDE DEF R, m, I
    <3>. QED
      BY <1>0, <2>0, <2>1 DEF TypeOK
  <2>. HIDE DEF k, rows
  <2>5. ASSUME NEW r \in R
        PROVE  /\ r.row_id \in (written + 1) .. written'
               /\ r.stream \in DOMAIN streams'
               /\ r.created_at = height
               /\ streams'[r.stream].created_at <= height
               /\ r.disabled_at = NULL
    <3>1. PICK i \in I : r \in rows(i)
      OBVIOUS
    <3>2. /\ r.row_id \in (written + 5 * (i - 1) + 1) .. (written + 5 * (i - 1) + 5)
          /\ r.stream = k(i) /\ r.created_at = height /\ r.disabled_at = NULL
      BY <3>1, <2>3 DEF FreshRows
    <3>3. r.row_id \in (written + 1) .. (written + m)
      BY <3>2, <2>0, Slot DEF TypeOK
    <3>4. r.stream \in DOMAIN streams' /\ streams'[r.stream].created_at = height
      BY <3>2, <2>2
    <3>. QED
      BY <3>2, <3>3, <3>4, <2>1 DEF TypeOK
  <2>6. ASSUME NEW r \in R, NEW q \in R, r.row_id = q.row_id
        PROVE  r = q
    <3>1. PICK i \in I : r \in rows(i)
      OBVIOUS
    <3>2. PICK j \in I : q \in rows(j)
      OBVIOUS
    <3>3. /\ r.row_id \in (written + 5 * (i - 1) + 1) .. (written + 5 * (i - 1) + 5)
          /\ q.row_id \in (written + 5 * (j - 1) + 1) .. (written + 5 * (j - 1) + 5)
          /\ i \in Int /\ j \in Int
      BY <3>1, <3>2, <2>3, <2>0 DEF FreshRows
    <3>4. i = j
      BY <3>3, <2>6, SlotsDisjoint DEF TypeOK
    <3>. QED
      BY <3>1, <3>2, <3>4, <2>3, <2>6 DEF FreshRows
  <2>7. DOMAIN streams \subseteq DOMAIN streams'
    BY <2>2
  <2>. HIDE DEF R, m, I
  <2>. QED
    BY <2>1, <2>2, <2>4, <2>5, <2>6, <2>7, IntegrityOfInserts
<1>3. ASSUME NEW c \in Callers, NEW dp \in ProviderArgs, NEW id \in StreamIdArgs,
             NEW a \in MetadataArgs, insert_metadata(c, dp, id, a)
      PROVE  Integrity'
  <2>. DEFINE r == Row(written + 1, <<Lower[dp], id>>, a.key,
                       IF a.val_type = "int" THEN IntOf[a.value] ELSE NULL,
                       IF a.val_type = "string" THEN a.value ELSE NULL,
                       IF a.val_type = "ref" THEN Lower[a.value] ELSE NULL)
  <2>0. metadata' = metadata \cup {r}
    BY <1>3, Zenon DEF insert_metadata
  <2>1. /\ r.row_id = written + 1
        /\ r.stream = <<Lower[dp], id>>
        /\ r.created_at = height
        /\ r.disabled_at = NULL
    BY DEF Row
  <2>2. /\ <<Lower[dp], id>> \in DOMAIN streams
        /\ written' = written + 1 /\ UNCHANGED <<height, streams>>
    BY <1>3 DEF insert_metadata, may_manage, stream_exists
  <2>. HIDE DEF r
  <2>3. /\ {r} \in SUBSET MetadataRow
        /\ written' \in Nat /\ written <= written' /\ height' = height
        /\ r.row_id \in (written + 1) .. written'
    BY <1>0, <2>0, <2>1, <2>2 DEF TypeOK
  <2>4. PICK q \in metadata : q.stream = <<Lower[dp], id>>
    BY <1>3 DEF insert_metadata, may_manage, is_stream_owner, get_metadata
  <2>5. streams[<<Lower[dp], id>>].created_at <= height
    <3>1. q.created_at \in Nat /\ height \in Nat
      BY DEF TypeOK, MetadataRow
    <3>2. streams[q.stream].created_at \in Nat
      BY <2>2, <2>4 DEF TypeOK, StreamRow
    <3>3. streams[q.stream].created_at <= q.created_at /\ q.created_at <= height
      BY DEF Integrity
    <3>. QED
      BY <2>4, <3>1, <3>2, <3>3
  <2>6. \A x, y \in {r} : x.row_id = y.row_id => x = y
    OBVIOUS
  <2>7. \A x \in {r} : /\ x.row_id \in (written + 1) .. written'
                       /\ x.stream \in DOMAIN streams'
                       /\ x.created_at = height
                       /\ streams'[x.stream].created_at <= height
                       /\ x.disabled_at = NULL
    BY <2>1, <2>2, <2>3, <2>5
  <2>8. DOMAIN streams \subseteq DOMAIN streams' /\ \A k \in DOMAIN streams : streams'[k] = streams[k]
    BY <2>2
  <2>. QED
    BY <2>0, <2>3, <2>6, <2>7, <2>8, IntegrityOfInserts
<1>4. ASSUME NEW c \in Callers, NEW dp \in ProviderArgs, NEW id \in StreamIdArgs,
             NEW n \in 1 .. written, disable_metadata(c, dp, id, n)
      PROVE  Integrity'
  <2>. DEFINE hit(r) == r.row_id = n /\ r.stream = <<Lower[dp], id>>
              new(r) == IF hit(r) THEN [r EXCEPT !.disabled_at = height] ELSE r
  <2>1. metadata' = {new(r) : r \in metadata} /\ UNCHANGED <<height, streams, written>>
    BY <1>4 DEF disable_metadata
  <2>2. ASSUME NEW r \in metadata
        PROVE  /\ new(r).row_id = r.row_id /\ new(r).stream = r.stream
               /\ new(r).created_at = r.created_at
               /\ new(r).disabled_at = r.disabled_at \/ new(r).disabled_at = height
    BY DEF TypeOK, MetadataRow
  <2>. HIDE DEF new
  <2>. QED
    BY <2>1, <2>2 DEF Integrity, TypeOK, MetadataRow
<1>5. ASSUME NEW c \in Callers, NEW dp \in ProviderArgs, NEW id \in StreamIdArgs,
             delete_stream(c, dp, id)
      PROVE  Integrity'
  BY <1>5 DEF delete_stream, cascade, Integrity
<1>6. ASSUME NEW c \in Callers, NEW dp \in ProviderArgs, NEW id \in StreamIdArgs,
             NEW to \in ProviderArgs, transfer_stream_ownership(c, dp, id, to)
      PROVE  Integrity'
  <2>. DEFINE hit(r) == r.stream = <<Lower[dp], id>> /\ r.metadata_key = "stream_owner"
              new(r) == IF hit(r) THEN [r EXCEPT !.value_ref = Lower[to]] ELSE r
  <2>1. metadata' = {new(r) : r \in metadata} /\ UNCHANGED <<height, streams, written>>
    BY <1>6 DEF transfer_stream_ownership
  <2>2. ASSUME NEW r \in metadata
        PROVE  /\ new(r).row_id = r.row_id /\ new(r).stream = r.stream
               /\ new(r).created_at = r.created_at
               /\ new(r).disabled_at = r.disabled_at
    BY DEF TypeOK, MetadataRow
  <2>. HIDE DEF new
  <2>. QED
    BY <2>1, <2>2 DEF Integrity
<1>7. CASE NextBlock
  BY <1>7 DEF NextBlock, Integrity, TypeOK, MetadataRow
<1>8. CASE UNCHANGED regVars
  BY <1>8 DEF regVars, Integrity
<1>. QED
  BY <1>1, <1>2, <1>3, <1>4, <1>5, <1>6, <1>7, <1>8 DEF RegNext, SingleNext, Manage

\* AUTH05: whatever is deleted and created again, every metadata row belongs to
\* a living stream no older than itself, and row ids stay unique.
THEOREM RowIntegrity == RegSpec => []Integrity
<1>1. RegInit => TypeOK /\ Integrity
  BY DEF RegInit, TypeOK, Integrity
<1>. QED
  BY <1>1, TypeStep, IntegrityStep, PTL DEF RegSpec

-----------------------------------------------------------------------------
(* Immutability of the rows                                                *)

\* What may become of a row in a step.
Successor(r, q) ==
  /\ q = [r EXCEPT !.disabled_at = q.disabled_at, !.value_ref = q.value_ref]
  /\ \/ q.disabled_at = r.disabled_at
     \/ r.disabled_at = NULL /\ q.disabled_at = height
  /\ \/ q.value_ref = r.value_ref
     \/ r.metadata_key = "stream_owner" /\ q.disabled_at = r.disabled_at

\* A row that stays as it is.
LEMMA SameRow ==
  ASSUME NEW r \in MetadataRow
  PROVE  Successor(r, r)
BY DEF Successor, MetadataRow

\* A row that is disabled now.
LEMMA StampedRow ==
  ASSUME NEW r \in MetadataRow, r.disabled_at = NULL, height \in Nat
  PROVE  Successor(r, [r EXCEPT !.disabled_at = height])
<1>. DEFINE q == [r EXCEPT !.disabled_at = height]
<1>1. q.disabled_at = height /\ q.value_ref = r.value_ref
  BY DEF MetadataRow
<1>2. q = [r EXCEPT !.disabled_at = height, !.value_ref = r.value_ref]
  BY DEF MetadataRow
<1>3. q = [r EXCEPT !.disabled_at = q.disabled_at, !.value_ref = q.value_ref]
  <2>. HIDE DEF q
  <2>. QED
    BY <1>1, <1>2
<1>. HIDE DEF q
<1>4. Successor(r, q)
  BY <1>1, <1>3, Zenon DEF Successor
<1>. QED
  BY <1>4 DEF q

\* COMMON03: while its stream lives a row is disabled once and keeps the rest: the
\* row disable_metadata finds enabled is, row ids being unique, the one it stamps.
THEOREM RowsAreImmutable == RegSpec => RowsImmutable
<1>. DEFINE Kept == \A r \in metadata :
                      r.stream \in DOMAIN streams' => \E q \in metadata' : Successor(r, q)
<1>1. TypeOK /\ Integrity /\ [RegNext]_regVars => [Kept]_regVars
  <2>. SUFFICES ASSUME TypeOK, Integrity, RegNext,
                       NEW r \in metadata, r.stream \in DOMAIN streams'
                PROVE  \E q \in metadata' : Successor(r, q)
    OBVIOUS
  <2>0. r \in MetadataRow /\ Successor(r, r)
    BY SameRow DEF TypeOK
  <2>1. CASE r \in metadata'
    BY <2>0, <2>1
  <2>2. ASSUME NEW c \in Callers, NEW dp \in ProviderArgs, NEW id \in StreamIdArgs,
               NEW n \in 1 .. written, disable_metadata(c, dp, id, n)
        PROVE  \E q \in metadata' : Successor(r, q)
    <3>. DEFINE hit(x) == x.row_id = n /\ x.stream = <<Lower[dp], id>>
                new(x) == IF hit(x) THEN [x EXCEPT !.disabled_at = height] ELSE x
    <3>1. metadata' = {new(x) : x \in metadata}
      BY <2>2 DEF disable_metadata
    <3>2. new(r) \in metadata'
      <4>. HIDE DEF new
      <4>. QED
        BY <3>1
    <3>3. PICK x \in metadata : hit(x) /\ x.disabled_at = NULL
      BY <2>2 DEF disable_metadata
    <3>4. hit(r) => r.disabled_at = NULL
      BY <3>3 DEF Integrity
    <3>5. hit(r) => Successor(r, [r EXCEPT !.disabled_at = height])
      BY <2>0, <3>4, StampedRow DEF TypeOK
    <3>6. Successor(r, new(r))
      BY <2>0, <3>5
    <3>. QED
      BY <3>2, <3>6
  <2>3. ASSUME NEW c \in Callers, NEW dp \in ProviderArgs, NEW id \in StreamIdArgs,
               NEW to \in ProviderArgs, transfer_stream_ownership(c, dp, id, to)
        PROVE  \E q \in metadata' : Successor(r, q)
    <3>. DEFINE hit(x) == x.stream = <<Lower[dp], id>> /\ x.metadata_key = "stream_owner"
                new(x) == IF hit(x) THEN [x EXCEPT !.value_ref = Lower[to]] ELSE x
    <3>1. metadata' = {new(x) : x \in metadata}
      BY <2>3 DEF transfer_stream_ownership
    <3>2. new(r) \in metadata'
      <4>. HIDE DEF new
      <4>. QED
        BY <3>1
    <3>3. hit(r) => Successor(r, [r EXCEPT !.value_ref = Lower[to]])
      BY <2>0 DEF Successor, MetadataRow
    <3>4. Successor(r, new(r))
      BY <2>0, <3>3
    <3>. QED
      BY <3>2, <3>4
  <2>4. ASSUME NEW c \in Callers, NEW dp \in ProviderArgs, NEW id \in StreamIdArgs,
               delete_stream(c, dp, id)
        PROVE  r \in metadata'
    <3>1. metadata' = {x \in metadata : x.stream # <<Lower[dp], id>>}
      BY <2>4 DEF delete_stream, cascade
    <3>2. <<Lower[dp], id>> \notin DOMAIN streams'
      BY <2>4 DEF delete_stream
    <3>. QED
      BY <3>1, <3>2
  <2>5. ASSUME \/ \E c \in Callers, id \in StreamIdArgs, t \in TypeArgs : create_stream(c, id, t)
               \/ \E c \in Callers, b \in StreamBatches : create_streams(c, b)
               \/ \E c \in Callers, dp \in ProviderArgs, id \in StreamIdArgs,
                      a \in MetadataArgs : insert_metadata(c, dp, id, a)
               \/ NextBlock
        PROVE  r \in metadata'
    BY <2>5, Zenon DEF create_stream, create_streams, insert_metadata, NextBlock
  <2>. QED
    BY <2>1, <2>2, <2>3, <2>4, <2>5 DEF RegNext, SingleNext, Manage
<1>2. RowsImmutable <=> [][Kept]_regVars
  BY DEF RowsImmutable, Successor
<1>. QED
  BY <1>1, <1>2, RowIntegrity, TypeCorrect, PTL DEF RegSpec

\* A transaction of the registry leaves the row of a surviving stream alone, a new
\* one carries the current block, and
\* blocks only follow each other.
LEMMA StreamsKept ==
  ASSUME TypeOK, [RegNext]_regVars
  PROVE  /\ height \in Nat /\ height' \in Nat /\ height <= height'
         /\ \A k \in DOMAIN streams \cap DOMAIN streams' : streams'[k] = streams[k]
         /\ \A k \in DOMAIN streams' \ DOMAIN streams : streams'[k].created_at = height
<1>. USE DEF TypeOK
<1>1. ASSUME NEW c \in Callers, NEW id \in StreamIdArgs, NEW t \in TypeArgs,
             create_stream(c, id, t)
      PROVE  /\ height' = height
             /\ \A k \in DOMAIN streams \cap DOMAIN streams' : streams'[k] = streams[k]
             /\ \A k \in DOMAIN streams' \ DOMAIN streams : streams'[k].created_at = height
  BY <1>1 DEF create_stream, stream_exists
<1>2. ASSUME NEW c \in Callers, NEW b \in StreamBatches, create_streams(c, b)
      PROVE  /\ height' = height
             /\ \A k \in DOMAIN streams \cap DOMAIN streams' : streams'[k] = streams[k]
             /\ \A k \in DOMAIN streams' \ DOMAIN streams : streams'[k].created_at = height
  <2>. DEFINE new == {<<Lower[c], b.stream_ids[i]>> : i \in DOMAIN b.stream_ids}
              row(x) == [stream_type |-> b.stream_types[
                           CHOOSE i \in DOMAIN b.stream_ids : b.stream_ids[i] = x[2]],
                         created_at |-> height]
  <2>1. /\ streams' = [x \in DOMAIN streams \cup new |->
                         IF x \in new THEN row(x) ELSE streams[x]]
        /\ new \cap DOMAIN streams = {}
        /\ height' = height
    BY <1>2, Zenon DEF create_streams
  <2>2. \A x : row(x).created_at = height
    OBVIOUS
  <2>. HIDE DEF new, row
  <2>. QED
    BY <2>1, <2>2
<1>3. ASSUME Manage
      PROVE  /\ height' = height
             /\ \A k \in DOMAIN streams \cap DOMAIN streams' : streams'[k] = streams[k]
             /\ \A k \in DOMAIN streams' \ DOMAIN streams : streams'[k].created_at = height
  BY <1>3 DEF Manage, insert_metadata, disable_metadata, delete_stream,
              transfer_stream_ownership
<1>4. CASE NextBlock
  BY <1>4 DEF NextBlock
<1>5. CASE UNCHANGED regVars
  BY <1>5 DEF regVars
<1>. QED
  BY <1>1, <1>2, <1>3, <1>4, <1>5 DEF RegNext, SingleNext

-----------------------------------------------------------------------------
(* Who decides about a stream                                              *)

RowsOf(k) == {r \in metadata : r.stream = k}

\* A transaction on stream k0 signed by its owner, or one that concerns no
\* existing stream, respects the authority of owners.
LEMMA OneStreamTouched ==
  ASSUME NEW k0, is_stream_owner(k0, signer'),
         \A k \in DOMAIN streams : k # k0 => k \in DOMAIN streams' /\ RowsOf(k)' = RowsOf(k),
         DOMAIN streams' \subseteq DOMAIN streams
  PROVE  /\ \A k \in DOMAIN streams :
              \/ k \in DOMAIN streams'
                 /\ {r \in metadata' : r.stream = k} = {r \in metadata : r.stream = k}
              \/ is_stream_owner(k, signer')
         /\ \A k \in DOMAIN streams' \ DOMAIN streams : k[1] = signer'
BY DEF RowsOf

\* What each action on an existing stream leaves alone: the other streams.
LEMMA ManageTouchesOne ==
  ASSUME TypeOK, Manage
  PROVE  \E k0 \in DOMAIN streams :
           /\ is_stream_owner(k0, signer')
           /\ \A k \in DOMAIN streams : k # k0 => k \in DOMAIN streams' /\ RowsOf(k)' = RowsOf(k)
           /\ DOMAIN streams' \subseteq DOMAIN streams
<1>1. PICK c \in Callers, dp \in ProviderArgs, id \in StreamIdArgs :
        \/ \E a \in MetadataArgs : insert_metadata(c, dp, id, a)
        \/ \E n \in 1 .. written : disable_metadata(c, dp, id, n)
        \/ delete_stream(c, dp, id)
        \/ \E to \in ProviderArgs : transfer_stream_ownership(c, dp, id, to)
  BY DEF Manage
<1>. DEFINE k0 == <<Lower[dp], id>>
<1>. SUFFICES /\ k0 \in DOMAIN streams
              /\ is_stream_owner(k0, signer')
              /\ \A k \in DOMAIN streams :
                   k # k0 => k \in DOMAIN streams' /\ RowsOf(k)' = RowsOf(k)
              /\ DOMAIN streams' \subseteq DOMAIN streams
  OBVIOUS
<1>2. ASSUME NEW a \in MetadataArgs, insert_metadata(c, dp, id, a)
      PROVE  /\ k0 \in DOMAIN streams /\ is_stream_owner(k0, signer')
             /\ \A k \in DOMAIN streams :
                  k # k0 => k \in DOMAIN streams' /\ RowsOf(k)' = RowsOf(k)
             /\ DOMAIN streams' \subseteq DOMAIN streams
  <2>. DEFINE r == Row(written + 1, k0, a.key,
                       IF a.val_type = "int" THEN IntOf[a.value] ELSE NULL,
                       IF a.val_type = "string" THEN a.value ELSE NULL,
                       IF a.val_type = "ref" THEN Lower[a.value] ELSE NULL)
  <2>1. metadata' = metadata \cup {r}
    BY <1>2, Zenon DEF insert_metadata
  <2>2. r.stream = k0
    BY DEF Row
  <2>3. may_manage(k0, c) /\ signer' = Lower[c] /\ streams' = streams
    BY <1>2 DEF insert_metadata
  <2>. HIDE DEF r, k0
  <2>. QED
    BY <2>1, <2>2, <2>3 DEF may_manage, stream_exists, RowsOf
<1>3. ASSUME NEW n \in 1 .. written, disable_metadata(c, dp, id, n)
      PROVE  /\ k0 \in DOMAIN streams /\ is_stream_owner(k0, signer')
             /\ \A k \in DOMAIN streams :
                  k # k0 => k \in DOMAIN streams' /\ RowsOf(k)' = RowsOf(k)
             /\ DOMAIN streams' \subseteq DOMAIN streams
  <2>. DEFINE hit(r) == r.row_id = n /\ r.stream = k0
              new(r) == IF hit(r) THEN [r EXCEPT !.disabled_at = height] ELSE r
  <2>1. metadata' = {new(r) : r \in metadata}
    BY <1>3 DEF disable_metadata
  <2>2. \A r \in metadata : new(r).stream = r.stream /\ (r.stream # k0 => new(r) = r)
    BY DEF TypeOK, MetadataRow
  <2>3. may_manage(k0, c) /\ signer' = Lower[c] /\ streams' = streams
    BY <1>3 DEF disable_metadata
  <2>. HIDE DEF new, k0
  <2>. QED
    BY <2>1, <2>2, <2>3 DEF may_manage, stream_exists, RowsOf
<1>4. ASSUME delete_stream(c, dp, id)
      PROVE  /\ k0 \in DOMAIN streams /\ is_stream_owner(k0, signer')
             /\ \A k \in DOMAIN streams :
                  k # k0 => k \in DOMAIN streams' /\ RowsOf(k)' = RowsOf(k)
             /\ DOMAIN streams' \subseteq DOMAIN streams
  BY <1>4 DEF delete_stream, cascade, may_manage, stream_exists, RowsOf
<1>5. ASSUME NEW to \in ProviderArgs, transfer_stream_ownership(c, dp, id, to)
      PROVE  /\ k0 \in DOMAIN streams /\ is_stream_owner(k0, signer')
             /\ \A k \in DOMAIN streams :
                  k # k0 => k \in DOMAIN streams' /\ RowsOf(k)' = RowsOf(k)
             /\ DOMAIN streams' \subseteq DOMAIN streams
  <2>. DEFINE hit(r) == r.stream = k0 /\ r.metadata_key = "stream_owner"
              new(r) == IF hit(r) THEN [r EXCEPT !.value_ref = Lower[to]] ELSE r
  <2>1. metadata' = {new(r) : r \in metadata}
    BY <1>5 DEF transfer_stream_ownership
  <2>2. \A r \in metadata : new(r).stream = r.stream /\ (r.stream # k0 => new(r) = r)
    BY DEF TypeOK, MetadataRow
  <2>3. may_manage(k0, c) /\ signer' = Lower[c] /\ streams' = streams
    BY <1>5 DEF transfer_stream_ownership
  <2>. HIDE DEF new, k0
  <2>. QED
    BY <2>1, <2>2, <2>3 DEF may_manage, stream_exists, RowsOf
<1>. QED
  BY <1>1, <1>2, <1>3, <1>4, <1>5

\* What the creation of a stream leaves alone: every existing stream.
LEMMA CreateTouchesNone ==
  ASSUME TypeOK,
         \/ \E c \in Callers, id \in StreamIdArgs, t \in TypeArgs : create_stream(c, id, t)
         \/ \E c \in Callers, b \in StreamBatches : create_streams(c, b)
  PROVE  /\ DOMAIN streams \subseteq DOMAIN streams'
         /\ \A k \in DOMAIN streams : RowsOf(k)' = RowsOf(k)
         /\ \A k \in DOMAIN streams' \ DOMAIN streams : k[1] = signer'
<1>1. ASSUME NEW c \in Callers, NEW id \in StreamIdArgs, NEW t \in TypeArgs,
             create_stream(c, id, t)
      PROVE  /\ DOMAIN streams \subseteq DOMAIN streams'
             /\ \A k \in DOMAIN streams : RowsOf(k)' = RowsOf(k)
             /\ \A k \in DOMAIN streams' \ DOMAIN streams : k[1] = signer'
  <2>. DEFINE new == <<Lower[c], id>>
  <2>1. /\ metadata' = metadata \cup DefaultRows(written, new, t)
        /\ DOMAIN streams' = DOMAIN streams \cup {new} /\ new \notin DOMAIN streams
        /\ signer' = Lower[c] /\ new[1] = Lower[c]
    BY <1>1 DEF create_stream, stream_exists
  <2>. HIDE DEF new
  <2>2. \A k \in DOMAIN streams : \A r \in DefaultRows(written, new, t) : r.stream # k
    <3>1. written \in Nat /\ \A k \in DOMAIN streams : k # new
      BY <2>1 DEF TypeOK
    <3>2. FreshRows(DefaultRows(written, new, t), written, new)
      BY <3>1, NewRows
    <3>. QED
      BY <3>1, <3>2 DEF FreshRows
  <2>. QED
    BY <2>1, <2>2 DEF RowsOf
<1>2. ASSUME NEW c \in Callers, NEW b \in StreamBatches, create_streams(c, b)
      PROVE  /\ DOMAIN streams \subseteq DOMAIN streams'
             /\ \A k \in DOMAIN streams : RowsOf(k)' = RowsOf(k)
             /\ \A k \in DOMAIN streams' \ DOMAIN streams : k[1] = signer'
  <2>. DEFINE I == DOMAIN b.stream_ids
              new(i) == <<Lower[c], b.stream_ids[i]>>
              rows(i) == BatchDefaultRows(written + 5 * (i - 1), new(i), b.stream_types[i])
  <2>0. \A i \in I : i \in Int /\ 1 <= i
    BY InputAssumption
  <2>1. metadata' = metadata \cup UNION {rows(i) : i \in I} /\ signer' = Lower[c]
    BY <1>2, Zenon DEF create_streams
  <2>2. /\ DOMAIN streams' = DOMAIN streams \cup {new(i) : i \in I}
        /\ \A i \in I : new(i) \notin DOMAIN streams
        /\ \A i \in I : new(i)[1] = Lower[c]
    BY <1>2 DEF create_streams
  <2>3. ASSUME NEW i \in I, NEW k \in DOMAIN streams
        PROVE  \A r \in rows(i) : r.stream # k
    <3>1. written + 5 * (i - 1) \in Nat /\ k # new(i)
      BY <2>0, <2>2 DEF TypeOK
    <3>. DEFINE n == written + 5 * (i - 1)
    <3>2. FreshRows(BatchDefaultRows(n, new(i), b.stream_types[i]), n, new(i))
      <4>. HIDE DEF n, new
      <4>. QED
        BY <3>1, NewRows DEF n
    <3>. HIDE DEF new
    <3>. QED
      BY <3>1, <3>2 DEF FreshRows
  <2>. HIDE DEF I, new, rows
  <2>. QED
    BY <2>1, <2>2, <2>3 DEF RowsOf
<1>. QED
  BY <1>1, <1>2

\* AUTH01, AUTH05, COMMON01: no transaction but the owner's changes or removes
\* a stream, and none creates one in another wallet's name.
THEOREM OwnersDecide == RegSpec => OwnerAuthority
<1>. DEFINE Authority ==
       /\ \A k \in DOMAIN streams :
            \/ k \in DOMAIN streams'
               /\ {r \in metadata' : r.stream = k} = {r \in metadata : r.stream = k}
            \/ is_stream_owner(k, signer')
       /\ \A k \in DOMAIN streams' \ DOMAIN streams : k[1] = signer'
<1>1. TypeOK /\ [RegNext]_regVars => [Authority]_regVars
  <2>. SUFFICES ASSUME TypeOK, RegNext
                PROVE  Authority
    OBVIOUS
  <2>1. CASE Manage
    <3>. HIDE DEF Authority
    <3>1. PICK k0 \in DOMAIN streams :
            /\ is_stream_owner(k0, signer')
            /\ \A k \in DOMAIN streams : k # k0 => k \in DOMAIN streams' /\ RowsOf(k)' = RowsOf(k)
            /\ DOMAIN streams' \subseteq DOMAIN streams
      BY <2>1, ManageTouchesOne
    <3>. QED
      BY <3>1, OneStreamTouched DEF Authority
  <2>2. CASE NextBlock
    BY <2>2 DEF NextBlock
  <2>3. CASE \/ \E c \in Callers, id \in StreamIdArgs, t \in TypeArgs : create_stream(c, id, t)
             \/ \E c \in Callers, b \in StreamBatches : create_streams(c, b)
    BY <2>3, CreateTouchesNone DEF RowsOf
  <2>. QED
    BY <2>1, <2>2, <2>3 DEF RegNext, SingleNext
<1>2. RegSpec => [][Authority]_regVars
  BY <1>1, TypeCorrect, PTL DEF RegSpec
<1>. QED
  BY <1>2, PTL DEF OwnerAuthority

\* Who may read and write a stream is read off its rows.
LEMMA AccessOfRows ==
  ASSUME NEW k, NEW w, RowsOf(k)' = RowsOf(k)
  PROVE  /\ is_allowed_to_read(k, w)' = is_allowed_to_read(k, w)
         /\ is_wallet_allowed_to_write(k, w)' = is_wallet_allowed_to_write(k, w)
<1>1. \A key, ref : get_metadata(k, key, ref)' = get_metadata(k, key, ref)
  <2>. TAKE key, ref
  <2>1. \A r : r \in metadata' /\ r.stream = k <=> r \in metadata /\ r.stream = k
    BY DEF RowsOf
  <2>. QED
    BY <2>1 DEF get_metadata
<1>2. \A key, ref : get_latest_metadata(k, key, ref)' = get_latest_metadata(k, key, ref)
  BY ONLY <1>1, Zenon DEF get_latest_metadata
<1>3. /\ is_stream_owner(k, w)' = is_stream_owner(k, w)
      /\ is_wallet_allowed_to_write(k, w)' = is_wallet_allowed_to_write(k, w)
  BY <1>1, Zenon DEF is_stream_owner, is_wallet_allowed_to_write
<1>4. \A key : get_latest_metadata_int(k, key)' = get_latest_metadata_int(k, key)
  BY <1>2, Zenon DEF get_latest_metadata_int
<1>5. \A key : get_latest_metadata_ref(k, key, w)' = get_latest_metadata_ref(k, key, w)
  BY <1>2, Zenon DEF get_latest_metadata_ref
<1>6. is_allowed_to_read(k, w)' = is_allowed_to_read(k, w)
  <2>. DEFINE owner == is_stream_owner(k, w)
              granted == get_latest_metadata_ref(k, "allow_read_wallet", w) # {NULL}
              V == get_latest_metadata_int(k, "read_visibility")
              answer(v) == \/ owner
                           \/ v \in {NULL, 0}
                           \/ granted
  <2>1. /\ is_allowed_to_read(k, w) = {answer(v) : v \in V}
        /\ is_allowed_to_read(k, w)' = {answer(v)' : v \in V'}
    BY Zenon DEF is_allowed_to_read
  <2>2. V' = V /\ \A v : answer(v)' = answer(v)
    BY <1>3, <1>4, <1>5, Zenon
  <2>. HIDE DEF V, answer
  <2>. QED
    BY <2>1, <2>2
<1>. QED
  BY <1>3, <1>6

\* AUTH02, AUTH03: access changes by the owner's transactions only, since it is read
\* off rows that nobody else changes.
THEOREM AccessIsTheOwners == RegSpec => AccessFollowsOwner
<1>. DEFINE Authority ==
       /\ \A k \in DOMAIN streams :
            \/ k \in DOMAIN streams'
               /\ {r \in metadata' : r.stream = k} = {r \in metadata : r.stream = k}
            \/ is_stream_owner(k, signer')
       /\ \A k \in DOMAIN streams' \ DOMAIN streams : k[1] = signer'
     Access ==
       \A k \in DOMAIN streams \cap DOMAIN streams' : \A w \in Address :
         \/ /\ is_allowed_to_read(k, w)' = is_allowed_to_read(k, w)
            /\ is_wallet_allowed_to_write(k, w)' = is_wallet_allowed_to_write(k, w)
         \/ is_stream_owner(k, signer')
<1>1. [Authority]_regVars => [Access]_regVars
  BY AccessOfRows, Zenon DEF RowsOf
<1>2. /\ OwnerAuthority <=> [][Authority]_regVars
      /\ AccessFollowsOwner <=> [][Access]_regVars
  BY Zenon DEF OwnerAuthority, AccessFollowsOwner
<1>. HIDE DEF Authority, Access
<1>. QED
  BY <1>1, <1>2, OwnersDecide, PTL

-----------------------------------------------------------------------------
(* One owner                                                               *)

\* The inductive invariant: the stream_owner key of every stream is read-only,
\* so that insert_metadata and disable_metadata never reach its one row.
OwnerInv ==
  /\ TypeOK
  /\ Integrity
  /\ \A k \in DOMAIN streams : is_readonly(k, "stream_owner")
  /\ SoleOwner

\* A stream whose rows a step leaves alone keeps its owner and its mark.
LEMMA SameRows ==
  ASSUME NEW k, RowsOf(k)' = RowsOf(k)
  PROVE  /\ one_owner(k) => one_owner(k)'
         /\ is_readonly(k, "stream_owner") => is_readonly(k, "stream_owner")'
<1>1. \A r : r \in metadata' /\ r.stream = k <=> r \in metadata /\ r.stream = k
  BY DEF RowsOf
<1>. QED
  BY <1>1 DEF one_owner, is_readonly

\* A new stream has one owner, its creator, and a read-only owner key.
LEMMA NewStreamOwner ==
  ASSUME NEW n \in Nat, NEW k, NEW t, Lower[k[1]] \in Address,
         \A r \in metadata : r.stream # k,
         metadata' = metadata \cup DefaultRows(n, k, t)
  PROVE  one_owner(k)' /\ is_readonly(k, "stream_owner")'
<1>. DEFINE o == Row(n + 2, k, "stream_owner", NULL, NULL, Lower[k[1]])
            m == Row(n + 4, k, "readonly_key", NULL, "stream_owner", NULL)
<1>1. /\ o.stream = k /\ o.metadata_key = "stream_owner"
      /\ o.disabled_at = NULL /\ o.value_ref \in Address
      /\ m.stream = k /\ m.metadata_key = "readonly_key" /\ m.value_s = "stream_owner"
  BY DEF Row
<1>2. o \in metadata' /\ m \in metadata'
  BY DEF DefaultRows
<1>3. \A q \in DefaultRows(n, k, t) : q.metadata_key = "stream_owner" => q = o
  BY DEF DefaultRows, Row
<1>. HIDE DEF o, m
<1>. QED
  BY <1>1, <1>2, <1>3 DEF one_owner, is_readonly

\* An UPDATE of metadata that keeps the key, stream and string of every row, and
\* of an owner row its disabled_at as well, and that puts only valid addresses in
\* it, keeps one owner and the mark.
LEMMA OwnerThroughUpdate ==
  ASSUME NEW k, NEW f, one_owner(k), is_readonly(k, "stream_owner"),
         metadata' = {f[r] : r \in metadata},
         \A r \in metadata : /\ f[r].stream = r.stream
                             /\ f[r].metadata_key = r.metadata_key
                             /\ f[r].value_s = r.value_s
                             /\ r.metadata_key = "stream_owner" =>
                                  /\ f[r].disabled_at = r.disabled_at
                                  /\ \/ f[r].value_ref = r.value_ref
                                     \/ f[r].value_ref \in Address
  PROVE  one_owner(k)' /\ is_readonly(k, "stream_owner")'
<1>1. PICK o \in metadata :
        /\ o.stream = k /\ o.metadata_key = "stream_owner"
        /\ o.disabled_at = NULL /\ o.value_ref \in Address
        /\ \A q \in metadata : q.stream = k /\ q.metadata_key = "stream_owner" => q = o
  BY DEF one_owner
<1>a. f[o] \in metadata'
  BY <1>1
<1>b. f[o].stream = k /\ f[o].metadata_key = "stream_owner"
  BY <1>1
<1>c. f[o].disabled_at = NULL /\ f[o].value_ref \in Address
  BY <1>1
<1>2. /\ f[o] \in metadata' /\ f[o].stream = k /\ f[o].metadata_key = "stream_owner"
      /\ f[o].disabled_at = NULL /\ f[o].value_ref \in Address
  BY <1>a, <1>b, <1>c
<1>3. ASSUME NEW q \in metadata', q.stream = k, q.metadata_key = "stream_owner"
      PROVE  q = f[o]
  <2>1. PICK r \in metadata : q = f[r]
    OBVIOUS
  <2>. QED
    BY <1>1, <1>3, <2>1
<1>4. one_owner(k)'
  BY <1>2, <1>3 DEF one_owner
<1>5. PICK m \in metadata : /\ m.stream = k /\ m.metadata_key = "readonly_key"
                            /\ m.value_s = "stream_owner"
  BY DEF is_readonly
<1>6. /\ f[m] \in metadata' /\ f[m].stream = k /\ f[m].metadata_key = "readonly_key"
      /\ f[m].value_s = "stream_owner"
  BY <1>5
<1>. QED
  BY <1>4, <1>6 DEF is_readonly

\* Streams created one at a time always have exactly one owner.
LEMMA OwnerStep == OwnerInv /\ [SingleNext]_regVars => OwnerInv'
<1>. SUFFICES ASSUME OwnerInv, [SingleNext]_regVars
              PROVE  OwnerInv'
  OBVIOUS
<1>0. TypeOK /\ Integrity /\ TypeOK' /\ Integrity'
  BY TypeStep, IntegrityStep DEF OwnerInv, RegNext
<1>. DEFINE Owned(k) == one_owner(k) /\ is_readonly(k, "stream_owner")
<1>1. \A k \in DOMAIN streams : Owned(k)
  BY DEF OwnerInv, SoleOwner
<1>. SUFFICES ASSUME NEW k \in DOMAIN streams'
              PROVE  Owned(k)'
  BY <1>0 DEF OwnerInv, SoleOwner
<1>2. CASE k \in DOMAIN streams /\ RowsOf(k)' = RowsOf(k)
  BY <1>1, <1>2, SameRows
<1>3. ASSUME NEW c \in Callers, NEW id \in StreamIdArgs, NEW t \in TypeArgs,
             create_stream(c, id, t)
      PROVE  Owned(k)'
  <2>. DEFINE new == <<Lower[c], id>>
  <2>1. /\ metadata' = metadata \cup DefaultRows(written, new, t)
        /\ DOMAIN streams' = DOMAIN streams \cup {new} /\ new \notin DOMAIN streams
        /\ Lower[c] \in Address /\ new[1] = Lower[c]
    BY <1>3 DEF create_stream, stream_exists
  <2>. HIDE DEF new
  <2>2. CASE k = new
    <3>1. Lower[k[1]] \in Address
      BY <2>1, <2>2, TextAssumption
    <3>2. \A r \in metadata : r.stream # k
      BY <1>0, <2>1, <2>2 DEF Integrity
    <3>. QED
      BY <1>0, <2>1, <2>2, <3>1, <3>2, NewStreamOwner DEF TypeOK
  <2>3. CASE k # new
    BY <2>1, <2>3, <1>0, <1>2, <1>3, CreateTouchesNone
  <2>. QED
    BY <2>2, <2>3
<1>4. CASE Manage /\ ~ (RowsOf(k)' = RowsOf(k))
  <2>1. PICK c \in Callers, dp \in ProviderArgs, id \in StreamIdArgs :
          \/ \E a \in MetadataArgs : insert_metadata(c, dp, id, a)
          \/ \E n \in 1 .. written : disable_metadata(c, dp, id, n)
          \/ delete_stream(c, dp, id)
          \/ \E to \in ProviderArgs : transfer_stream_ownership(c, dp, id, to)
    BY <1>4 DEF Manage
  <2>. DEFINE k0 == <<Lower[dp], id>>
  <2>2. ASSUME NEW a \in MetadataArgs, insert_metadata(c, dp, id, a)
        PROVE  Owned(k)'
    <3>. DEFINE r == Row(written + 1, k0, a.key,
                         IF a.val_type = "int" THEN IntOf[a.value] ELSE NULL,
                         IF a.val_type = "string" THEN a.value ELSE NULL,
                         IF a.val_type = "ref" THEN Lower[a.value] ELSE NULL)
    <3>1. metadata' = metadata \cup {r}
      BY <2>2, Zenon DEF insert_metadata
    <3>2. r.stream = k0 /\ r.metadata_key = a.key
      BY DEF Row
    <3>3. k0 \in DOMAIN streams /\ streams' = streams /\ ~ is_readonly(k0, a.key)
      BY <2>2 DEF insert_metadata, may_manage, stream_exists
    <3>4. a.key # "stream_owner"
      BY <3>3, <1>1
    <3>. HIDE DEF r, k0
    <3>5. Owned(k)
      BY <1>1, <3>3
    <3>6. one_owner(k)'
      BY <3>1, <3>2, <3>4, <3>5 DEF one_owner
    <3>7. is_readonly(k, "stream_owner")'
      BY <3>1, <3>5 DEF is_readonly
    <3>. QED
      BY <3>6, <3>7
  <2>3. ASSUME NEW n \in 1 .. written, disable_metadata(c, dp, id, n)
        PROVE  Owned(k)'
    <3>. DEFINE hit(r) == r.row_id = n /\ r.stream = k0
                new(r) == IF hit(r) THEN [r EXCEPT !.disabled_at = height] ELSE r
    <3>1. metadata' = {new(r) : r \in metadata} /\ streams' = streams
      BY <2>3 DEF disable_metadata
    <3>2. PICK x \in metadata : hit(x) /\ ~ is_readonly(k0, x.metadata_key)
      BY <2>3 DEF disable_metadata
    <3>3. k0 \in DOMAIN streams
      BY <2>3 DEF disable_metadata, may_manage, stream_exists
    <3>4. x.metadata_key # "stream_owner"
      BY <1>1, <3>2, <3>3
    <3>5. \A r \in metadata : hit(r) => r = x
      BY <1>0, <3>2 DEF Integrity
    <3>6. \A r \in metadata : /\ new(r).stream = r.stream
                              /\ new(r).metadata_key = r.metadata_key
                              /\ new(r).value_s = r.value_s
                              /\ r.metadata_key = "stream_owner" => new(r) = r
      BY <1>0, <3>4, <3>5 DEF TypeOK, MetadataRow
    <3>. HIDE DEF new, hit, k0
    <3>7. Owned(k)
      BY <1>1, <3>1
    <3>. DEFINE f == [r \in metadata |-> new(r)]
    <3>8. metadata' = {f[r] : r \in metadata}
      BY <3>1
    <3>9. \A r \in metadata : /\ f[r].stream = r.stream
                              /\ f[r].metadata_key = r.metadata_key
                              /\ f[r].value_s = r.value_s
                              /\ r.metadata_key = "stream_owner" => f[r] = r
      BY <3>6
    <3>. HIDE DEF f
    <3>. QED
      BY <3>7, <3>8, <3>9, <2>1, TextAssumption, OwnerThroughUpdate
  <2>4. ASSUME delete_stream(c, dp, id)
        PROVE  Owned(k)'
    BY <2>4, <1>2 DEF delete_stream, cascade, RowsOf
  <2>5. ASSUME NEW to \in ProviderArgs, transfer_stream_ownership(c, dp, id, to)
        PROVE  Owned(k)'
    <3>. DEFINE hit(r) == r.stream = k0 /\ r.metadata_key = "stream_owner"
                new(r) == IF hit(r) THEN [r EXCEPT !.value_ref = Lower[to]] ELSE r
    <3>1. /\ metadata' = {new(r) : r \in metadata} /\ streams' = streams
          /\ Lower[to] \in Address
      BY <2>5 DEF transfer_stream_ownership
    <3>2. \A r \in metadata : /\ new(r).stream = r.stream
                              /\ new(r).metadata_key = r.metadata_key
                              /\ new(r).value_s = r.value_s
                              /\ new(r).disabled_at = r.disabled_at
                              /\ new(r).value_ref = r.value_ref \/ new(r).value_ref = Lower[to]
      BY <1>0 DEF TypeOK, MetadataRow
    <3>. HIDE DEF new
    <3>3. Owned(k)
      BY <1>1, <3>1
    <3>. DEFINE f == [r \in metadata |-> new(r)]
    <3>4. metadata' = {f[r] : r \in metadata}
      BY <3>1
    <3>5. \A r \in metadata : /\ f[r].stream = r.stream
                              /\ f[r].metadata_key = r.metadata_key
                              /\ f[r].value_s = r.value_s
                              /\ f[r].disabled_at = r.disabled_at
                              /\ f[r].value_ref = r.value_ref \/ f[r].value_ref = Lower[to]
      BY <3>2
    <3>. HIDE DEF f
    <3>6. \A r \in metadata : /\ f[r].stream = r.stream
                              /\ f[r].metadata_key = r.metadata_key
                              /\ f[r].value_s = r.value_s
                              /\ r.metadata_key = "stream_owner" =>
                                   /\ f[r].disabled_at = r.disabled_at
                                   /\ \/ f[r].value_ref = r.value_ref
                                      \/ f[r].value_ref \in Address
      BY ONLY <3>1, <3>5
    <3>7. one_owner(k)' /\ is_readonly(k, "stream_owner")'
      BY ONLY <3>3, <3>4, <3>6, OwnerThroughUpdate, Zenon
    <3>. QED
      BY <3>7
  <2>. QED
    BY <2>1, <2>2, <2>3, <2>4, <2>5
<1>5. CASE NextBlock
  BY <1>5, <1>2 DEF NextBlock, RowsOf
<1>6. CASE UNCHANGED regVars
  BY <1>6, <1>2 DEF regVars, RowsOf
<1>7. CASE Manage /\ RowsOf(k)' = RowsOf(k)
  BY <1>0, <1>2, <1>7, ManageTouchesOne
<1>. QED
  BY <1>3, <1>4, <1>5, <1>6, <1>7 DEF SingleNext

\* AUTH01, OTHER01: streams created one at a time have exactly one owner, a
\* lower-case valid address.
THEOREM OneOwner == SingleSpec => []SoleOwner
<1>1. RegInit => OwnerInv
  BY DEF RegInit, OwnerInv, TypeOK, Integrity, SoleOwner
<1>2. OwnerInv => SoleOwner
  BY DEF OwnerInv
<1>. QED
  BY <1>1, <1>2, OwnerStep, PTL DEF SingleSpec

-----------------------------------------------------------------------------
(* Refinement of Ownership                                                 *)

\* The owner the mapping gives a stream is the address in its owner row.
LEMMA OwnerOfRow ==
  ASSUME NEW k \in DOMAIN streams, one_owner(k), NEW o \in metadata,
         o.stream = k, o.metadata_key = "stream_owner"
  PROVE  OwnerOf[k] = o.value_ref /\ o.value_ref \in Address
<1>1. \A q \in metadata : q.stream = k /\ q.metadata_key = "stream_owner" => q = o
  BY DEF one_owner
<1>2. (CHOOSE r \in metadata : r.stream = k /\ r.metadata_key = "stream_owner") = o
  BY <1>1
<1>3. o.value_ref \in Address
  BY <1>1 DEF one_owner
<1>. QED
  BY <1>2, <1>3 DEF OwnerOf

\* A step that keeps the owner row keeps the owner.
LEMMA OwnerKept ==
  ASSUME NEW k \in DOMAIN streams, k \in DOMAIN streams', one_owner(k), one_owner(k)',
         \A o \in metadata :
           o.stream = k /\ o.metadata_key = "stream_owner" => o \in metadata'
  PROVE  OwnerOf'[k] = OwnerOf[k]
<1>1. PICK o \in metadata : o.stream = k /\ o.metadata_key = "stream_owner"
  BY DEF one_owner
<1>2. OwnerOf[k] = o.value_ref
  BY <1>1, OwnerOfRow
<1>3. \A q \in metadata' : q.stream = k /\ q.metadata_key = "stream_owner" => q = o
  BY <1>1 DEF one_owner
<1>4. (CHOOSE r \in metadata' : r.stream = k /\ r.metadata_key = "stream_owner") = o
  BY <1>1, <1>3
<1>. QED
  BY <1>2, <1>4 DEF OwnerOf

\* may_manage admits the owner the mapping names, and nobody else.
LEMMA ManagerIsOwner ==
  ASSUME NEW k, one_owner(k), NEW c \in Callers, may_manage(k, c)
  PROVE  k \in DOMAIN streams /\ OwnerOf[k] = Lower[c] /\ Lower[c] \in Address
<1>1. k \in DOMAIN streams
  BY DEF may_manage, stream_exists
<1>2. PICK o \in metadata : /\ o.stream = k /\ o.metadata_key = "stream_owner"
                            /\ o.value_ref # NULL /\ Lower[o.value_ref] = Lower[c]
  BY TextAssumption, InputAssumption DEF may_manage, is_stream_owner, get_metadata
<1>3. OwnerOf[k] = o.value_ref /\ o.value_ref \in Address
  BY <1>1, <1>2, OwnerOfRow
<1>. QED
  BY <1>1, <1>2, <1>3, TextAssumption

\* Every step of the registry is a step of Ownership or leaves it unchanged.
LEMMA OwnershipStep ==
  OwnerInv /\ [SingleNext]_regVars => [Abstract!Next]_(Abstract!vars)
<1>. SUFFICES ASSUME OwnerInv, [SingleNext]_regVars
              PROVE  [Abstract!Next]_(Abstract!vars)
  OBVIOUS
<1>0. OwnerInv' /\ TypeOK /\ Integrity
  BY OwnerStep DEF OwnerInv
<1>1. /\ \A k \in DOMAIN streams : one_owner(k)
      /\ \A k \in DOMAIN streams' : one_owner(k)'
  BY <1>0 DEF OwnerInv, SoleOwner
<1>2. DOMAIN OwnerOf = DOMAIN streams /\ DOMAIN OwnerOf' = DOMAIN streams'
  BY DEF OwnerOf
<1>a. /\ OwnerOf = [k \in DOMAIN streams |-> OwnerOf[k]]
      /\ OwnerOf' = [k \in DOMAIN streams' |-> OwnerOf'[k]]
  BY DEF OwnerOf
<1>3. ASSUME NEW c \in Callers, NEW id \in StreamIdArgs, NEW t \in TypeArgs,
             create_stream(c, id, t)
      PROVE  Abstract!Next
  <2>. DEFINE new == <<Lower[c], id>>
  <2>1. /\ metadata' = metadata \cup DefaultRows(written, new, t)
        /\ DOMAIN streams' = DOMAIN streams \cup {new} /\ new \notin DOMAIN streams
        /\ Lower[c] \in Address /\ new[1] = Lower[c] /\ signer' = Lower[c]
        /\ new \in Key
    BY <1>3 DEF create_stream, stream_exists, Key
  <2>2. \A k \in DOMAIN streams : OwnerOf'[k] = OwnerOf[k]
    BY <1>1, <2>1, OwnerKept
  <2>3. OwnerOf'[new] = Lower[c]
    <3>. DEFINE o == Row(written + 2, new, "stream_owner", NULL, NULL, Lower[new[1]])
    <3>1. o \in metadata'
      BY <2>1 DEF DefaultRows
    <3>2. o.stream = new /\ o.metadata_key = "stream_owner" /\ o.value_ref = Lower[c]
      BY <2>1, TextAssumption DEF Row
    <3>. HIDE DEF o, new
    <3>3. \A q \in metadata' : q.stream = new /\ q.metadata_key = "stream_owner" => q = o
      BY <1>1, <2>1, <3>1, <3>2 DEF one_owner
    <3>4. (CHOOSE r \in metadata' : r.stream = new /\ r.metadata_key = "stream_owner") = o
      BY <3>1, <3>2, <3>3
    <3>. QED
      BY <2>1, <3>2, <3>4 DEF OwnerOf
  <2>. HIDE DEF new
  <2>4. OwnerOf' = [k \in DOMAIN OwnerOf \cup {new} |-> IF k = new THEN Lower[c] ELSE OwnerOf[k]]
    BY <1>2, <1>a, <2>1, <2>2, <2>3
  <2>5. Abstract!Create(Lower[c], new)
    BY <1>2, <2>1, <2>4 DEF Abstract!Create
  <2>. QED
    BY <2>1, <2>5 DEF Abstract!Next, Abstract!Step
<1>4. CASE Manage
  <2>1. PICK c \in Callers, dp \in ProviderArgs, id \in StreamIdArgs :
          \/ \E a \in MetadataArgs : insert_metadata(c, dp, id, a)
          \/ \E n \in 1 .. written : disable_metadata(c, dp, id, n)
          \/ delete_stream(c, dp, id)
          \/ \E to \in ProviderArgs : transfer_stream_ownership(c, dp, id, to)
    BY <1>4 DEF Manage
  <2>. DEFINE k0 == <<Lower[dp], id>>
  <2>2. may_manage(k0, c) /\ signer' = Lower[c]
    BY <2>1 DEF insert_metadata, disable_metadata, delete_stream, transfer_stream_ownership
  <2>3. k0 \in DOMAIN streams /\ OwnerOf[k0] = Lower[c] /\ Lower[c] \in Address /\ k0 \in Key
    BY <1>0, <1>1, <2>2, ManagerIsOwner DEF may_manage, stream_exists, TypeOK
  <2>4. ASSUME NEW a \in MetadataArgs, insert_metadata(c, dp, id, a)
        PROVE  OwnerOf' = OwnerOf
    <3>1. metadata \subseteq metadata' /\ streams' = streams
      BY <2>4 DEF insert_metadata
    <3>2. \A k \in DOMAIN streams : OwnerOf'[k] = OwnerOf[k]
      BY <1>1, <3>1, OwnerKept
    <3>. QED
      BY <1>a, <3>1, <3>2
  <2>5. ASSUME NEW n \in 1 .. written, disable_metadata(c, dp, id, n)
        PROVE  OwnerOf' = OwnerOf
    <3>. DEFINE hit(r) == r.row_id = n /\ r.stream = k0
                new(r) == IF hit(r) THEN [r EXCEPT !.disabled_at = height] ELSE r
    <3>1. metadata' = {new(r) : r \in metadata} /\ streams' = streams
      BY <2>5 DEF disable_metadata
    <3>2. PICK x \in metadata : hit(x) /\ ~ is_readonly(k0, x.metadata_key)
      BY <2>5 DEF disable_metadata
    <3>3. x.metadata_key # "stream_owner"
      BY <2>3, <3>2 DEF OwnerInv
    <3>4. \A r \in metadata : hit(r) => r = x
      BY <1>0, <3>2 DEF Integrity
    <3>5. \A r \in metadata : r.metadata_key = "stream_owner" => new(r) = r
      BY <3>3, <3>4
    <3>. HIDE DEF new, hit, k0
    <3>6. \A r \in metadata : r.metadata_key = "stream_owner" => r \in metadata'
      BY <3>1, <3>5
    <3>7. \A k \in DOMAIN streams : OwnerOf'[k] = OwnerOf[k]
      BY <1>1, <3>1, <3>6, OwnerKept
    <3>. QED
      BY <1>a, <3>1, <3>7
  <2>6. ASSUME delete_stream(c, dp, id)
        PROVE  OwnerOf' = [k \in DOMAIN OwnerOf \ {k0} |-> OwnerOf[k]]
    <3>1. DOMAIN streams' = DOMAIN streams \ {k0}
      BY <2>6 DEF delete_stream
    <3>2. metadata' = {r \in metadata : r.stream # k0}
      BY <2>6 DEF delete_stream, cascade
    <3>. HIDE DEF k0
    <3>3. ASSUME NEW k \in DOMAIN streams'
          PROVE  OwnerOf'[k] = OwnerOf[k]
      BY <1>1, <3>1, <3>2, OwnerKept
    <3>. QED
      BY <1>2, <1>a, <3>1, <3>3
  <2>7. ASSUME NEW to \in ProviderArgs, transfer_stream_ownership(c, dp, id, to)
        PROVE  Lower[to] \in Address /\ OwnerOf' = [OwnerOf EXCEPT ![k0] = Lower[to]]
    <3>. DEFINE hit(r) == r.stream = k0 /\ r.metadata_key = "stream_owner"
                new(r) == IF hit(r) THEN [r EXCEPT !.value_ref = Lower[to]] ELSE r
    <3>1. /\ metadata' = {new(r) : r \in metadata} /\ streams' = streams
          /\ Lower[to] \in Address
      BY <2>7 DEF transfer_stream_ownership
    <3>2. \A r \in metadata : /\ new(r).stream = r.stream
                              /\ new(r).metadata_key = r.metadata_key
                              /\ r.stream # k0 => new(r) = r
                              /\ hit(r) => new(r).value_ref = Lower[to]
      BY <1>0 DEF TypeOK, MetadataRow
    <3>. HIDE DEF new, k0
    <3>3. ASSUME NEW k \in DOMAIN streams, k # k0
          PROVE  OwnerOf'[k] = OwnerOf[k]
      <4>1. \A r \in metadata : r.stream = k => r \in metadata'
        BY <3>1, <3>2, <3>3
      <4>. QED
        BY <1>1, <3>1, <4>1, OwnerKept
    <3>4. OwnerOf'[k0] = Lower[to]
      <4>1. PICK o \in metadata : hit(o)
        BY <1>1, <2>3 DEF one_owner
      <4>2. /\ new(o) \in metadata' /\ new(o).stream = k0
            /\ new(o).metadata_key = "stream_owner" /\ new(o).value_ref = Lower[to]
        BY <3>1, <3>2, <4>1
      <4>3. \A q \in metadata' : q.stream = k0 /\ q.metadata_key = "stream_owner" => q = new(o)
        BY <1>1, <2>3, <3>1, <4>2 DEF one_owner
      <4>4. (CHOOSE r \in metadata' : r.stream = k0 /\ r.metadata_key = "stream_owner") = new(o)
        BY <4>2, <4>3
      <4>. QED
        BY <2>3, <3>1, <4>2, <4>4 DEF OwnerOf
    <3>. QED
      BY <1>2, <1>a, <2>3, <3>1, <3>3, <3>4
  <2>. HIDE DEF k0
  <2>8. \/ Abstract!Other(Lower[c], k0)
        \/ Abstract!Delete(Lower[c], k0)
        \/ \E to \in Address : Abstract!Transfer(Lower[c], k0, to)
    BY <1>2, <2>1, <2>3, <2>4, <2>5, <2>6, <2>7
       DEF Abstract!Other, Abstract!Delete, Abstract!Transfer
  <2>. QED
    BY <2>2, <2>3, <2>8 DEF Abstract!Next, Abstract!Step
<1>5. CASE NextBlock
  BY <1>5 DEF NextBlock, OwnerOf, Abstract!vars
<1>6. CASE UNCHANGED regVars
  BY <1>6 DEF regVars, OwnerOf, Abstract!vars
<1>. QED
  BY <1>3, <1>4, <1>5, <1>6 DEF SingleNext

\* AUTH01, AUTH05, OTHER03: the registry of streams created one at a time is an
\* implementation of Ownership.
THEOREM RegistryImplementsOwnership == SingleSpec => ImplementsOwnership
<1>1. RegInit => OwnerInv /\ Abstract!Init
  BY TextAssumption DEF RegInit, OwnerInv, TypeOK, Integrity, SoleOwner, OwnerOf, Abstract!Init
<1>. QED
  BY <1>1, OwnerStep, OwnershipStep, PTL DEF SingleSpec, ImplementsOwnership, Abstract!Spec
=============================================================================
