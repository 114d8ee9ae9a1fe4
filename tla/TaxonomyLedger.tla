--------------------------- MODULE TaxonomyLedger ---------------------------
(***************************************************************************)
(* The taxonomies of composed streams: the table taxonomies and the        *)
(* actions of 004-composed-taxonomy.sql.  A version of a stream's taxonomy *)
(* is the rows of one group_sequence; versions are added and disabled,     *)
(* never edited.                                                           *)
(***************************************************************************)
EXTENDS Registry

CONSTANTS
  TaxonomyArgs,   \* the children, weights and start date passed to insert_taxonomy
  GroupArgs,      \* the $group_sequence passed to disable_taxonomy
  MaxTaxonomies   \* bound on the rows of taxonomies

ASSUME TaxonomyAssumption ==
  /\ GroupArgs \subseteq Int
  /\ MaxTaxonomies \in Nat
  /\ \A a \in TaxonomyArgs :
       /\ a.child_data_providers \in Seq(Text) /\ a.child_stream_ids \in Seq(Text)
       /\ a.weights \in Seq(Int)
       /\ a.start_date \in Int \cup {NULL}

VARIABLE taxonomies   \* table taxonomies: a set of rows

taxVars == <<height, streams, metadata, written, signer, taxonomies>>

\* A child is any locator: it need not exist, nor be well formed.
TaxRow == [stream : Key, child : Text \X Text, weight : Nat, created_at : Nat,
           disabled_at : Nat \cup {NULL}, group_sequence : Nat, start_time : Nat]

-----------------------------------------------------------------------------
(* Views                                                                   *)

taxonomies_of(k) == {r \in taxonomies : r.stream = k}

active(k) == {r \in taxonomies_of(k) : r.disabled_at = NULL}

\* The largest group_sequence among the rows R, 0 without rows.
top_group(R) ==
  IF R = {} THEN 0
  ELSE CHOOSE n \in {r.group_sequence : r \in R} : \A r \in R : r.group_sequence <= n

\* Mutant: the disabled versions are not counted.
top_active_group(k, show_disabled) == top_group(active(k))

get_current_group_sequence(k, show_disabled) ==
  top_group(IF show_disabled THEN taxonomies_of(k) ELSE active(k))

\* Mutant: the latest version, disabled or not.
describe_last_version(k, latest_group_sequence) ==
  {r \in active(k) : r.group_sequence = get_current_group_sequence(k, TRUE)}

describe_taxonomies(k, latest_group_sequence) ==
  {r \in active(k) : latest_group_sequence =>
                       r.group_sequence = get_current_group_sequence(k, FALSE)}

-----------------------------------------------------------------------------
(* Writers                                                                 *)

child_of(a, i) == <<Lower[a.child_data_providers[i]], a.child_stream_ids[i]>>

insert_taxonomy(caller, data_provider, stream_id, a) ==
  LET k     == <<Lower[data_provider], stream_id>>
      I     == DOMAIN a.child_stream_ids
      start == IF a.start_date = NULL THEN 0 ELSE a.start_date
      group == get_current_group_sequence(k, TRUE) + 1
      row(i) == [stream |-> k, child |-> child_of(a, i), weight |-> a.weights[i],
                 created_at |-> height, disabled_at |-> NULL,
                 group_sequence |-> group, start_time |-> start]
  IN /\ stream_exists(k)
     /\ ~ is_primitive_stream(k)
     /\ is_wallet_allowed_to_write(k, Lower[caller])
     /\ Len(a.child_stream_ids) # 0
     /\ Len(a.child_stream_ids) = Len(a.child_data_providers)
     /\ Len(a.child_stream_ids) = Len(a.weights)
     /\ start >= 0 /\ \A i \in I : a.weights[i] >= 0
     \* tax_child_uniq_idx
     /\ \A i, j \in I : i # j => row(i).child # row(j).child
     /\ \A i \in I, r \in taxonomies_of(k) :
          ~ (/\ r.start_time = start /\ r.group_sequence = group
             /\ r.child = row(i).child)
     /\ Cardinality(taxonomies) + Len(a.child_stream_ids) <= MaxTaxonomies
     /\ taxonomies' = taxonomies \cup {row(i) : i \in I}
     /\ signer' = Lower[caller]
     /\ UNCHANGED <<height, streams, metadata, written>>

rows_of(k, group) == {r \in taxonomies_of(k) : r.group_sequence = group}

\* The UPDATE stamps a version that is disabled again, and finds no row for a
\* number that was never given; neither is an ERROR.
disable_taxonomy(caller, data_provider, stream_id, group) ==
  LET k == <<Lower[data_provider], stream_id>>
  IN /\ stream_exists(k)
     /\ is_wallet_allowed_to_write(k, Lower[caller])
     /\ taxonomies' = {IF r \in rows_of(k, group)
                       THEN [r EXCEPT !.disabled_at = height] ELSE r : r \in taxonomies}
     /\ signer' = Lower[caller]
     /\ UNCHANGED <<height, streams, metadata, written>>

\* Mutant: the foreign key without its cascade.
keep_taxonomies(ks) == taxonomies

\* ON DELETE CASCADE, given the streams that remain; the rows that name a deleted
\* stream as a child stay.
cascade_taxonomies(ks) == {r \in taxonomies : r.stream \in ks}

-----------------------------------------------------------------------------
(* Specification                                                           *)

TaxonomyInit == RegInit /\ taxonomies = {}

Taxonomise ==
  \E c \in Callers, dp \in ProviderArgs, id \in StreamIdArgs :
    \/ \E a \in TaxonomyArgs : insert_taxonomy(c, dp, id, a)
    \/ \E group \in GroupArgs : disable_taxonomy(c, dp, id, group)

RegistryStep == RegNext /\ taxonomies' = cascade_taxonomies(DOMAIN streams')

TaxonomyNext == RegistryStep \/ Taxonomise

TaxonomySpec == TaxonomyInit /\ [][TaxonomyNext]_taxVars

-----------------------------------------------------------------------------
(* Properties                                                              *)

\* The tables have the column types of 000-initial-data.sql.
TaxonomyTypeOK == TypeOK /\ taxonomies \subseteq TaxRow

\* COMPOSED04, AGGR05: a version is a unit: its rows have one start, one block and
\* one disabled_at, each child once, and belong to a living composed stream;
\* versions are numbered in the order of their blocks.
VersionsWhole ==
  /\ \A r \in taxonomies : /\ r.stream \in DOMAIN streams
                           /\ ~ is_primitive_stream(r.stream)
                           /\ r.group_sequence >= 1
                           /\ r.created_at <= height
                           /\ Lower[r.child[1]] = r.child[1]
  /\ \A r, q \in taxonomies :
       r.stream = q.stream =>
         /\ r.group_sequence = q.group_sequence =>
              /\ r.start_time = q.start_time /\ r.created_at = q.created_at
              /\ r.disabled_at = q.disabled_at
              /\ r.child = q.child => r = q
         /\ r.group_sequence < q.group_sequence => r.created_at <= q.created_at

\* COMPOSED04: while the stream lives no row of a version is lost, changed or
\* enabled again, and no row joins a version that exists: what is added is a
\* version with a number the stream never used.
DefinitionsImmutable ==
  [][/\ \A r \in taxonomies :
          r.stream \in DOMAIN streams' =>
            \E q \in taxonomies' :
              /\ q = [r EXCEPT !.disabled_at = q.disabled_at]
              /\ r.disabled_at # NULL => q.disabled_at # NULL
     /\ \A q \in taxonomies' :
          \/ \E r \in taxonomies : q = [r EXCEPT !.disabled_at = q.disabled_at]
          \/ \A r \in taxonomies : r.stream = q.stream =>
                                     r.group_sequence < q.group_sequence]_taxVars

\* What describe_taxonomies calls the latest version is a version as it was
\* inserted, all its children, and it is missing only when every version is
\* disabled.
LatestIsWhole ==
  \A k \in DOMAIN streams :
    LET D == describe_taxonomies(k, TRUE)
    IN /\ D = {} <=> \A r \in taxonomies_of(k) : r.disabled_at # NULL
       /\ \A r \in D, q \in taxonomies_of(k) : r.group_sequence = q.group_sequence => q \in D
       /\ \A r, q \in D : r.group_sequence = q.group_sequence
=============================================================================
