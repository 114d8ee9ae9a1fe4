------------------------------ MODULE Registry ------------------------------
(***************************************************************************)
(* The stream registry: the tables `streams` and `metadata` of             *)
(* 000-initial-data.sql and the actions of 001-common-actions.sql that     *)
(* write them.  An action runs inside one transaction of one block: it     *)
(* either reaches its end or ERRORs and leaves no trace, so an operation   *)
(* is one TLA+ action and every ERROR is a conjunct of its guard.          *)
(*                                                                         *)
(* Texts are compared and lower-cased, never taken apart: a text is a      *)
(* member of Text, and what the format checks and the casts make of it is  *)
(* given by constants.                                                     *)
(***************************************************************************)
EXTENDS Integers, Sequences, FiniteSets

CONSTANTS
  Text,           \* every text: addresses, stream ids, keys, values
  Lower,          \* LOWER, a function on Text
  IntOf,          \* what `::INT` makes of a text, NULL where the cast fails
  Address,        \* the lower-case texts check_ethereum_address accepts
  WellFormedIds,  \* the texts check_stream_id_format accepts
  Callers,        \* the wallets (@caller) that sign transactions
  ProviderArgs,   \* the texts passed as $data_provider and $new_owner
  StreamIdArgs,   \* the texts passed as $stream_id
  TypeArgs,       \* the texts passed as $stream_type
  StreamBatches,  \* the array pairs passed to create_streams
  MetadataArgs,   \* the ($key, $value, $val_type) passed to insert_metadata;
                  \* a value of type bool or float is one the cast accepts
  MaxHeight,      \* bound on the block height
  MaxRows,        \* bound on the metadata rows ever written
  NULL            \* the SQL NULL

ValTypes == {"int", "string", "bool", "ref", "float"}
StreamTypes == {"primitive", "composed"}

\* The texts the actions write or compare with, none of which LOWER changes.
Keywords == StreamTypes \cup {"type", "stream_owner", "read_visibility",
              "readonly_key", "readonly_key:stream_owner",
              "readonly_key:readonly_key", "allow_read_wallet",
              "allow_write_wallet"}

ASSUME TextAssumption ==
  /\ Lower \in [Text -> Text]
  /\ \A t \in Text : Lower[Lower[t]] = Lower[t]
  /\ IntOf \in [Text -> Int \cup {NULL}]
  /\ Keywords \subseteq Text
  /\ NULL \notin Text /\ NULL \notin Int
  /\ Address \subseteq Text /\ \A a \in Address : Lower[a] = a
  /\ WellFormedIds \subseteq Text

ASSUME InputAssumption ==
  /\ Callers \cup ProviderArgs \cup StreamIdArgs \cup TypeArgs \subseteq Text
  /\ \A b \in StreamBatches :
       /\ b.stream_ids \in Seq(Text)
       /\ b.stream_types \in Seq(Text)
  /\ \A a \in MetadataArgs :
       a.key \in Text /\ a.value \in Text /\ a.val_type \in Text \cup ValTypes
  /\ MaxHeight \in Nat /\ MaxRows \in Nat

VARIABLES
  height,    \* @height, the block being executed
  streams,   \* table streams: <<data_provider, stream_id>> -> the other columns
  metadata,  \* table metadata: a set of rows
  written,   \* rows of metadata ever written; numbers them in order of writing
  signer     \* LOWER(@caller) of the last transaction (history, for properties)

regVars == <<height, streams, metadata, written, signer>>

\* A stream locator: OTHER01, OTHER02.
Key == Address \X WellFormedIds
StreamRow == [stream_type : StreamTypes, created_at : Nat]
\* A float or a bool value is in none of the three value columns kept here.
MetadataRow == [row_id : Nat, stream : Key, metadata_key : Text,
                value_i : Int \cup {NULL}, value_s : Text \cup {NULL},
                value_ref : Text \cup {NULL},
                created_at : Nat, disabled_at : Nat \cup {NULL}]

-----------------------------------------------------------------------------
(* Views                                                                   *)

stream_exists(k) == k \in DOMAIN streams

is_primitive_stream(k) == streams[k].stream_type = "primitive"

\* The rows get_metadata selects, before ORDER BY and LIMIT; ref = NULL takes
\* every row.
get_metadata(k, key, ref) ==
  {r \in metadata : /\ r.stream = k
                    /\ r.metadata_key = key
                    /\ r.disabled_at = NULL
                    /\ ref = NULL \/ (r.value_ref # NULL /\ Lower[r.value_ref] = ref)}

\* ORDER BY created_at DESC LIMIT 1.  The order says nothing of rows written in
\* one block: any of them may come first.
get_latest_metadata(k, key, ref) ==
  LET M == get_metadata(k, key, ref)
  IN {r \in M : \A q \in M : q.created_at <= r.created_at}

\* The values get_latest_metadata_int may return; no row leaves $result NULL.
get_latest_metadata_int(k, key) ==
  LET L == get_latest_metadata(k, key, NULL)
  IN IF L = {} THEN {NULL} ELSE {r.value_i : r \in L}

get_latest_metadata_string(k, key) ==
  LET L == get_latest_metadata(k, key, NULL)
  IN IF L = {} THEN {NULL} ELSE {r.value_s : r \in L}

get_latest_metadata_ref(k, key, ref) ==
  LET L == get_latest_metadata(k, key, ref)
  IN IF L = {} THEN {NULL} ELSE {r.value_ref : r \in L}

is_stream_owner(k, wallet) == get_metadata(k, "stream_owner", wallet) # {}

is_wallet_allowed_to_write(k, wallet) ==
  \/ is_stream_owner(k, wallet)
  \/ get_metadata(k, "allow_write_wallet", wallet) # {}

\* The answers is_allowed_to_read may give: more than one when the latest
\* read_visibility is a tie.
is_allowed_to_read(k, wallet) ==
  {\/ is_stream_owner(k, wallet)
   \/ visibility \in {NULL, 0}
   \/ get_latest_metadata_ref(k, "allow_read_wallet", wallet) # {NULL} :
     visibility \in get_latest_metadata_int(k, "read_visibility")}

\* The test insert_metadata and disable_metadata share: it sees disabled rows
\* as well.
is_readonly(k, key) ==
  \E r \in metadata : /\ r.stream = k
                      /\ r.metadata_key = "readonly_key"
                      /\ r.value_s = key

-----------------------------------------------------------------------------
(* Writers                                                                 *)

\* Mutant: the type is only checked to be a text.
is_text(stream_type) == stream_type \in Text

is_stream_type(stream_type) == stream_type \in StreamTypes

\* Mutant: the permission to write is enough to manage a stream.
may_manage_as_writer(k, caller) ==
  stream_exists(k) /\ is_wallet_allowed_to_write(k, Lower[caller])

\* Mutant: the creator manages the stream, whoever owns it now.
may_manage_as_creator(k, caller) == stream_exists(k) /\ k[1] = Lower[caller]

\* The guard of every action on an existing stream; is_stream_owner itself
\* ERRORs when the stream does not exist.
may_manage(k, caller) == stream_exists(k) /\ is_stream_owner(k, Lower[caller])

Row(n, k, key, i, s, ref) ==
  [row_id |-> n, stream |-> k, metadata_key |-> key, value_i |-> i,
   value_s |-> s, value_ref |-> ref, created_at |-> height,
   disabled_at |-> NULL]

\* The rows create_streams writes for a stream: those of create_stream, under
\* other keys for the two read-only marks.
BatchDefaultRows(n, k, stream_type) ==
  {Row(n + 1, k, "type", NULL, stream_type, NULL),
   Row(n + 2, k, "stream_owner", NULL, NULL, Lower[k[1]]),
   Row(n + 3, k, "read_visibility", 0, NULL, NULL),
   Row(n + 4, k, "readonly_key:stream_owner", NULL, "stream_owner", NULL),
   Row(n + 5, k, "readonly_key:readonly_key", NULL, "readonly_key", NULL)}

DefaultRows(n, k, stream_type) ==
  {Row(n + 1, k, "type", NULL, stream_type, NULL),
   Row(n + 2, k, "stream_owner", NULL, NULL, Lower[k[1]]),
   Row(n + 3, k, "read_visibility", 0, NULL, NULL),
   Row(n + 4, k, "readonly_key", NULL, "stream_owner", NULL),
   Row(n + 5, k, "readonly_key", NULL, "readonly_key", NULL)}

create_stream(caller, stream_id, stream_type) ==
  LET k == <<Lower[caller], stream_id>>
  IN /\ Lower[caller] \in Address
     /\ is_stream_type(stream_type)
     /\ stream_id \in WellFormedIds
     /\ ~ stream_exists(k)
     /\ written + 5 <= MaxRows
     /\ streams' = [x \in DOMAIN streams \cup {k} |->
                      IF x = k
                      THEN [stream_type |-> stream_type, created_at |-> height]
                      ELSE streams[x]]
     /\ metadata' = metadata \cup DefaultRows(written, k, stream_type)
     /\ written' = written + 5
     /\ signer' = Lower[caller]
     /\ UNCHANGED height

\* The primary key of streams rejects a stream that exists and one named twice;
\* with no element the recursive CTE still yields idx = 1, a NULL stream_id,
\* which NOT NULL rejects.
create_streams(caller, b) ==
  LET dp  == Lower[caller]
      I   == DOMAIN b.stream_ids
      new == {<<dp, b.stream_ids[i]>> : i \in I}
  IN /\ dp \in Address
     /\ Len(b.stream_ids) = Len(b.stream_types)
     /\ \A i \in I : /\ b.stream_ids[i] \in WellFormedIds
                     /\ is_stream_type(b.stream_types[i])
     /\ b.stream_ids # <<>>
     /\ \A i, j \in I : i # j => b.stream_ids[i] # b.stream_ids[j]
     /\ new \cap DOMAIN streams = {}
     /\ written + 5 * Len(b.stream_ids) <= MaxRows
     /\ streams' = [x \in DOMAIN streams \cup new |->
                      IF x \in new
                      THEN [stream_type |-> b.stream_types[
                                CHOOSE i \in I : b.stream_ids[i] = x[2]],
                            created_at |-> height]
                      ELSE streams[x]]
     /\ metadata' = metadata \cup
          UNION {BatchDefaultRows(written + 5 * (i - 1), <<dp, b.stream_ids[i]>>,
                                  b.stream_types[i]) : i \in I}
     /\ written' = written + 5 * Len(b.stream_ids)
     /\ signer' = dp
     /\ UNCHANGED height

insert_metadata(caller, data_provider, stream_id, a) ==
  LET k == <<Lower[data_provider], stream_id>>
  IN /\ may_manage(k, caller)
     /\ a.val_type \in ValTypes
     /\ a.val_type = "int" => IntOf[a.value] # NULL
     /\ ~ is_readonly(k, a.key)
     /\ written + 1 <= MaxRows
     /\ metadata' = metadata \cup
          {Row(written + 1, k, a.key,
               IF a.val_type = "int" THEN IntOf[a.value] ELSE NULL,
               IF a.val_type = "string" THEN a.value ELSE NULL,
               IF a.val_type = "ref" THEN Lower[a.value] ELSE NULL)}
     /\ written' = written + 1
     /\ signer' = Lower[caller]
     /\ UNCHANGED <<height, streams>>

\* Mutant: a disabled row can be disabled again.
disable_metadata_again(caller, data_provider, stream_id, row_id) ==
  LET k == <<Lower[data_provider], stream_id>>
      hit(r) == r.row_id = row_id /\ r.stream = k
  IN /\ may_manage(k, caller)
     /\ \E r \in metadata : /\ hit(r)
                            /\ ~ is_readonly(k, r.metadata_key)
     /\ metadata' = {IF hit(r) THEN [r EXCEPT !.disabled_at = height] ELSE r :
                       r \in metadata}
     /\ signer' = Lower[caller]
     /\ UNCHANGED <<height, streams, written>>

disable_metadata(caller, data_provider, stream_id, row_id) ==
  LET k == <<Lower[data_provider], stream_id>>
      hit(r) == r.row_id = row_id /\ r.stream = k
  IN /\ may_manage(k, caller)
     /\ \E r \in metadata : /\ hit(r)
                            /\ r.disabled_at = NULL
                            /\ ~ is_readonly(k, r.metadata_key)
     /\ metadata' = {IF hit(r) THEN [r EXCEPT !.disabled_at = height] ELSE r :
                       r \in metadata}
     /\ signer' = Lower[caller]
     /\ UNCHANGED <<height, streams, written>>

\* Mutant: the foreign key without its cascade.
no_cascade(k) == metadata

\* ON DELETE CASCADE takes the stream's rows along.
cascade(k) == {r \in metadata : r.stream # k}

delete_stream(caller, data_provider, stream_id) ==
  LET k == <<Lower[data_provider], stream_id>>
  IN /\ may_manage(k, caller)
     /\ streams' = [x \in DOMAIN streams \ {k} |-> streams[x]]
     /\ metadata' = cascade(k)
     /\ signer' = Lower[caller]
     /\ UNCHANGED <<height, written>>

\* The UPDATE has no `disabled_at IS NULL`: it rewrites every owner row.
transfer_stream_ownership(caller, data_provider, stream_id, new_owner) ==
  LET k == <<Lower[data_provider], stream_id>>
  IN /\ may_manage(k, caller)
     /\ Lower[new_owner] \in Address
     /\ metadata' = {IF r.stream = k /\ r.metadata_key = "stream_owner"
                     THEN [r EXCEPT !.value_ref = Lower[new_owner]] ELSE r :
                       r \in metadata}
     /\ signer' = Lower[caller]
     /\ UNCHANGED <<height, streams, written>>

NextBlock ==
  /\ height < MaxHeight
  /\ height' = height + 1
  /\ UNCHANGED <<streams, metadata, written, signer>>

-----------------------------------------------------------------------------
(* Specification                                                           *)

RegInit ==
  /\ height = 0
  /\ streams = [x \in {} |-> NULL]
  /\ metadata = {}
  /\ written = 0
  /\ signer = NULL

\* Transactions of an existing stream.
Manage ==
  \E c \in Callers, dp \in ProviderArgs, id \in StreamIdArgs :
    \/ \E a \in MetadataArgs : insert_metadata(c, dp, id, a)
    \/ \E n \in 1 .. written : disable_metadata(c, dp, id, n)
    \/ delete_stream(c, dp, id)
    \/ \E new \in ProviderArgs : transfer_stream_ownership(c, dp, id, new)

SingleNext ==
  \/ \E c \in Callers, id \in StreamIdArgs, t \in TypeArgs : create_stream(c, id, t)
  \/ Manage
  \/ NextBlock

RegNext ==
  \/ SingleNext
  \/ \E c \in Callers, b \in StreamBatches : create_streams(c, b)

\* Streams deployed one at a time, and streams deployed in batches as well.
SingleSpec == RegInit /\ [][SingleNext]_regVars
RegSpec == RegInit /\ [][RegNext]_regVars

-----------------------------------------------------------------------------
(* Properties                                                              *)

\* Every table row has the column types of 000-initial-data.sql.
TypeOK ==
  /\ height \in Nat
  /\ DOMAIN streams \subseteq Key
  /\ streams \in [DOMAIN streams -> StreamRow]
  /\ metadata \subseteq MetadataRow
  /\ written \in Nat
  /\ signer \in Text \cup {NULL}

\* Rows have distinct ids, belong to a stream that exists, and are no older than
\* it: a stream deleted and created again inherits nothing of its first life
\* (the cascade of delete_stream, AUTH05).
Integrity ==
  /\ \A r \in metadata :
       /\ r.row_id \in 1 .. written
       /\ r.stream \in DOMAIN streams
       /\ r.created_at <= height
       /\ streams[r.stream].created_at <= r.created_at
       /\ r.disabled_at # NULL =>
            r.created_at <= r.disabled_at /\ r.disabled_at <= height
  /\ \A r, q \in metadata : r.row_id = q.row_id => r = q

\* AUTH01, OTHER01: a stream has exactly one owner, its one stream_owner row is
\* never disabled, and it holds a lower-case valid address, whatever the owners
\* insert, disable and transfer.
one_owner(k) ==
  \E r \in metadata :
    /\ r.stream = k
    /\ r.metadata_key = "stream_owner"
    /\ r.disabled_at = NULL
    /\ r.value_ref \in Address
    /\ \A q \in metadata : q.stream = k /\ q.metadata_key = "stream_owner" => q = r

SoleOwner == \A k \in DOMAIN streams : one_owner(k)

\* AUTH01, AUTH05, COMMON01: what a transaction changes of a stream's rows, and
\* whether the stream still exists, is decided by a wallet that owned it when
\* the transaction began; a stream appears under its creator's address only.
OwnerAuthority ==
  [][/\ \A k \in DOMAIN streams :
          \/ k \in DOMAIN streams'
             /\ {r \in metadata' : r.stream = k} = {r \in metadata : r.stream = k}
          \/ is_stream_owner(k, signer')
     /\ \A k \in DOMAIN streams' \ DOMAIN streams : k[1] = signer']_regVars

\* COMMON03: while its stream lives, a metadata row keeps every column, except
\* that it is disabled once, at the current height, and that the address of a
\* stream_owner row follows transfers.
RowsImmutable ==
  [][\A r \in metadata :
       r.stream \in DOMAIN streams' =>
         \E q \in metadata' :
           /\ q = [r EXCEPT !.disabled_at = q.disabled_at, !.value_ref = q.value_ref]
           /\ \/ q.disabled_at = r.disabled_at
              \/ r.disabled_at = NULL /\ q.disabled_at = height
           /\ \/ q.value_ref = r.value_ref
              \/ r.metadata_key = "stream_owner" /\ q.disabled_at = r.disabled_at]_regVars

\* AUTH02, AUTH03: a wallet other than the owner never gains or loses access by
\* its own transaction: who may read and who may write a surviving stream
\* changes only by a transaction of its owner.
AccessFollowsOwner ==
  [][\A k \in DOMAIN streams \cap DOMAIN streams' : \A w \in Address :
       \/ /\ is_allowed_to_read(k, w)' = is_allowed_to_read(k, w)
          /\ is_wallet_allowed_to_write(k, w)' = is_wallet_allowed_to_write(k, w)
       \/ is_stream_owner(k, signer')]_regVars
=============================================================================
