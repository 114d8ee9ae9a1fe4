--------------------------- MODULE TaxonomyProofs ---------------------------
(***************************************************************************)
(* Proofs about the versions of taxonomies, for all wallets, children,     *)
(* batches and bounds.                                                     *)
(***************************************************************************)
EXTENDS TaxonomyLedger, RegistryProofs

\* One of the rows of a stream bears the largest number: top_group finds it.
Numbered(k) ==
  \/ taxonomies_of(k) = {}
  \/ \E r \in taxonomies_of(k) : \A q \in taxonomies_of(k) : q.group_sequence <= r.group_sequence

\* The inductive invariant of the taxonomies.
TaxonomyInv == TaxonomyTypeOK /\ VersionsWhole /\ \A k \in Key : Numbered(k)

\* The number a new version gets is larger than every number of the stream.
LEMMA NextGroup ==
  ASSUME TaxonomyInv, NEW k \in Key
  PROVE  /\ get_current_group_sequence(k, TRUE) \in Nat
         /\ \A r \in taxonomies_of(k) :
              r.group_sequence <= get_current_group_sequence(k, TRUE)
<1>. DEFINE R == taxonomies_of(k)
<1>1. \A r \in R : r.group_sequence \in Nat
  BY DEF TaxonomyInv, TaxonomyTypeOK, taxonomies_of, TaxRow
<1>2. R # {} => \E n \in {r.group_sequence : r \in R} : \A r \in R : r.group_sequence <= n
  BY DEF TaxonomyInv, Numbered
<1>. HIDE DEF R
<1>3. top_group(R) \in Nat /\ \A r \in R : r.group_sequence <= top_group(R)
  BY <1>1, <1>2 DEF top_group
<1>. QED
  BY <1>3 DEF R, get_current_group_sequence

\* What insert_taxonomy adds: the rows of one new version.
NewVersion(k, new) ==
  /\ k \in DOMAIN streams /\ k \in Key /\ ~ is_primitive_stream(k)
  /\ new # {} /\ new \subseteq TaxRow
  /\ \A r \in new : /\ r.stream = k /\ r.created_at = height /\ r.disabled_at = NULL
                    /\ r.group_sequence = get_current_group_sequence(k, TRUE) + 1
                    /\ Lower[r.child[1]] = r.child[1]
  /\ \A r, q \in new : r.start_time = q.start_time /\ (r.child = q.child => r = q)

LEMMA InsertAddsVersion ==
  ASSUME TaxonomyInv,
         NEW c \in Callers, NEW dp \in ProviderArgs, NEW id \in StreamIdArgs,
         NEW a \in TaxonomyArgs, insert_taxonomy(c, dp, id, a)
  PROVE  /\ UNCHANGED <<height, streams, metadata, written>> /\ signer' \in Text
         /\ \E k, new : NewVersion(k, new) /\ taxonomies' = taxonomies \cup new
<1>. DEFINE k == <<Lower[dp], id>>
            I == DOMAIN a.child_stream_ids
            start == IF a.start_date = NULL THEN 0 ELSE a.start_date
            group == get_current_group_sequence(k, TRUE) + 1
            row(i) == [stream |-> k, child |-> child_of(a, i), weight |-> a.weights[i],
                       created_at |-> height, disabled_at |-> NULL,
                       group_sequence |-> group, start_time |-> start]
<1>1. k \in DOMAIN streams /\ ~ is_primitive_stream(k)
  BY DEF insert_taxonomy, stream_exists
<1>2. k \in Key /\ group \in Nat
  <2>1. k \in Key
    BY <1>1 DEF TaxonomyInv, TaxonomyTypeOK, TypeOK
  <2>. DEFINE g == get_current_group_sequence(k, TRUE)
  <2>2. g \in Nat
    BY <2>1, NextGroup, Zenon
  <2>3. group = g + 1
    OBVIOUS
  <2>. HIDE DEF g, group
  <2>. QED
    BY <2>1, <2>2, <2>3
<1>3. start \in Nat
  BY TaxonomyAssumption DEF insert_taxonomy
<1>4. /\ I = 1 .. Len(a.child_stream_ids) /\ I # {}
      /\ \A i \in I : a.weights[i] \in Nat /\ child_of(a, i) \in Text \X Text
                      /\ Lower[child_of(a, i)[1]] = child_of(a, i)[1]
  <2>1. /\ a.child_data_providers \in Seq(Text) /\ a.child_stream_ids \in Seq(Text)
        /\ a.weights \in Seq(Int)
    BY TaxonomyAssumption
  <2>2. /\ Len(a.child_stream_ids) # 0
        /\ Len(a.child_stream_ids) = Len(a.child_data_providers)
        /\ Len(a.child_stream_ids) = Len(a.weights)
        /\ \A i \in I : a.weights[i] >= 0
    BY DEF insert_taxonomy
  <2>3. I = 1 .. Len(a.child_stream_ids) /\ I # {}
    BY <2>1, <2>2
  <2>4. \A i \in I : /\ a.weights[i] \in Int
                     /\ a.child_data_providers[i] \in Text /\ a.child_stream_ids[i] \in Text
    <3>1. /\ \A i \in 1 .. Len(a.weights) : a.weights[i] \in Int
          /\ \A i \in 1 .. Len(a.child_data_providers) : a.child_data_providers[i] \in Text
          /\ \A i \in 1 .. Len(a.child_stream_ids) : a.child_stream_ids[i] \in Text
      BY <2>1
    <3>. QED
      BY <2>2, <2>3, <3>1
  <2>5. \A t \in Text : Lower[t] \in Text /\ Lower[Lower[t]] = Lower[t]
    BY LowerText, TextAssumption
  <2>. QED
    BY <2>2, <2>3, <2>4, <2>5 DEF child_of
<1>5. \A i \in I : row(i) \in TaxRow
  <2>. TAKE i \in I
  <2>. HIDE DEF k, start, group
  <2>. QED
    BY <1>2, <1>3, <1>4 DEF TaxRow, TaxonomyInv, TaxonomyTypeOK, TypeOK
<1>6. \A i, j \in I : row(i).child = row(j).child => i = j
  BY Zenon DEF insert_taxonomy
<1>7. taxonomies' = taxonomies \cup {row(i) : i \in I}
  BY Zenon DEF insert_taxonomy
<1>8. UNCHANGED <<height, streams, metadata, written>> /\ signer' \in Text
  <2>1. UNCHANGED <<height, streams, metadata, written>> /\ signer' = Lower[c]
    BY Zenon DEF insert_taxonomy
  <2>. QED
    BY <2>1, LowerText, TextAssumption, InputAssumption
<1>9. NewVersion(k, {row(i) : i \in I})
  <2>1. \A i \in I : /\ row(i).stream = k /\ row(i).created_at = height
                     /\ row(i).disabled_at = NULL /\ row(i).start_time = start
                     /\ row(i).group_sequence = get_current_group_sequence(k, TRUE) + 1
                     /\ row(i).child = child_of(a, i)
    OBVIOUS
  <2>. DEFINE new == {row(i) : i \in I}
  <2>2. \A i \in I : Lower[row(i).child[1]] = row(i).child[1]
    BY <1>4
  <2>. HIDE DEF row, k, I, start
  <2>3. new # {} /\ new \subseteq TaxRow
    BY <1>4, <1>5
  <2>4. \A r \in new : /\ r.stream = k /\ r.created_at = height /\ r.disabled_at = NULL
                       /\ r.group_sequence = get_current_group_sequence(k, TRUE) + 1
                       /\ Lower[r.child[1]] = r.child[1]
    BY <2>1, <2>2
  <2>5. \A r, q \in new : r.start_time = q.start_time /\ (r.child = q.child => r = q)
    BY <1>6, <2>1
  <2>. QED
    BY <1>1, <1>2, <2>3, <2>4, <2>5 DEF NewVersion
<1>. QED
  BY <1>7, <1>8, <1>9

\* A new version leaves the others whole and outnumbers them.
LEMMA VersionAdded ==
  ASSUME TaxonomyInv, NEW k, NEW new, NewVersion(k, new),
         taxonomies' = taxonomies \cup new,
         UNCHANGED <<height, streams, metadata, written>>, signer' \in Text
  PROVE  /\ TaxonomyInv'
         /\ \A r \in new, q \in taxonomies :
              q.stream = r.stream => q.group_sequence < r.group_sequence
<1>. DEFINE group == get_current_group_sequence(k, TRUE)
<1>1. group \in Nat /\ \A r \in taxonomies_of(k) : r.group_sequence <= group
  <2>1. k \in Key
    BY DEF NewVersion
  <2>. QED
    BY <2>1, NextGroup, Zenon
<1>2. \A r \in new : r.stream = k /\ r.group_sequence = group + 1
  BY DEF NewVersion
<1>. HIDE DEF group
<1>3. \A q \in taxonomies : q.stream = k => q.group_sequence <= group
  BY <1>1 DEF taxonomies_of
<1>4. \A q \in taxonomies : q.group_sequence \in Nat /\ q.created_at \in Nat
  BY DEF TaxonomyInv, TaxonomyTypeOK, TaxRow
<1>5. \A r \in new, q \in taxonomies :
        q.stream = r.stream => q.group_sequence < r.group_sequence
  BY <1>1, <1>2, <1>3, <1>4
<1>6. TaxonomyTypeOK'
  BY DEF TaxonomyInv, TaxonomyTypeOK, TypeOK, NewVersion
<1>7. height \in Nat
  BY DEF TaxonomyInv, TaxonomyTypeOK, TypeOK
<1>8. \A r \in new : /\ r.stream \in DOMAIN streams /\ ~ is_primitive_stream(r.stream)
                     /\ r.created_at = height /\ r.disabled_at = NULL
                     /\ r.group_sequence >= 1 /\ Lower[r.child[1]] = r.child[1]
  <2>1. \A r \in new : r.group_sequence >= 1
    BY <1>1, <1>2
  <2>. QED
    BY <1>2, <2>1, Zenon DEF NewVersion
<1>9. \A r, q \in new : /\ r.start_time = q.start_time /\ (r.child = q.child => r = q)
                        /\ r.group_sequence = q.group_sequence
  BY <1>2 DEF NewVersion
<1>10. VersionsWhole'
  <2>1. /\ \A r \in taxonomies : /\ r.stream \in DOMAIN streams
                                 /\ ~ is_primitive_stream(r.stream)
                                 /\ r.group_sequence >= 1 /\ r.created_at <= height
                                 /\ Lower[r.child[1]] = r.child[1]
        /\ \A r, q \in taxonomies :
             r.stream = q.stream =>
               /\ r.group_sequence = q.group_sequence =>
                    /\ r.start_time = q.start_time /\ r.created_at = q.created_at
                    /\ r.disabled_at = q.disabled_at
                    /\ r.child = q.child => r = q
               /\ r.group_sequence < q.group_sequence => r.created_at <= q.created_at
    BY DEF TaxonomyInv, VersionsWhole
  <2>2. \A r \in taxonomies' :
          /\ r.stream \in DOMAIN streams' /\ ~ is_primitive_stream(r.stream)'
          /\ r.group_sequence >= 1 /\ r.created_at <= height'
          /\ Lower[r.child[1]] = r.child[1]
    BY <1>7, <1>8, <2>1 DEF is_primitive_stream
  <2>3. ASSUME NEW r \in taxonomies', NEW q \in taxonomies', r.stream = q.stream
        PROVE  /\ r.group_sequence = q.group_sequence =>
                    /\ r.start_time = q.start_time /\ r.created_at = q.created_at
                    /\ r.disabled_at = q.disabled_at
                    /\ r.child = q.child => r = q
               /\ r.group_sequence < q.group_sequence => r.created_at <= q.created_at
    <3>1. CASE r \in new /\ q \in new
      BY <3>1, <1>2, <1>1, <1>8, <1>9
    <3>2. CASE r \in taxonomies /\ q \in taxonomies
      BY <3>2, <2>1, <2>3
    <3>3. CASE r \in taxonomies /\ q \in new
      BY <3>3, <2>1, <2>3, <1>4, <1>5, <1>8, <1>2, <1>1
    <3>4. CASE r \in new /\ q \in taxonomies
      BY <3>4, <2>3, <1>4, <1>5, <1>2, <1>1
    <3>. QED
      BY <3>1, <3>2, <3>3, <3>4
  <2>. QED
    BY <2>2, <2>3 DEF VersionsWhole
<1>11. \A x \in Key : Numbered(x)'
  <2>. TAKE x \in Key
  <2>1. CASE x = k
    <3>1. PICK r \in new : TRUE
      BY DEF NewVersion
    <3>2. r \in taxonomies_of(x)'
      BY <2>1, <1>2 DEF taxonomies_of
    <3>3. \A q \in taxonomies_of(x)' : q.group_sequence <= r.group_sequence
      BY <2>1, <1>1, <1>2, <1>3, <1>4 DEF taxonomies_of
    <3>. QED
      BY <3>2, <3>3 DEF Numbered
  <2>2. CASE x # k
    <3>1. taxonomies_of(x)' = taxonomies_of(x)
      BY <2>2, <1>2 DEF taxonomies_of
    <3>. QED
      BY <3>1 DEF Numbered, TaxonomyInv
  <2>. QED
    BY <2>1, <2>2
<1>. QED
  BY <1>5, <1>6, <1>10, <1>11 DEF TaxonomyInv

\* Disabling a version stamps each of its rows and leaves every other column of
\* every row.
LEMMA VersionDisabled ==
  ASSUME TaxonomyInv,
         NEW c \in Callers, NEW dp \in ProviderArgs, NEW id \in StreamIdArgs,
         NEW group \in GroupArgs, disable_taxonomy(c, dp, id, group)
  PROVE  /\ TaxonomyInv'
         /\ \E f \in [taxonomies -> TaxRow] :
              /\ taxonomies' = {f[r] : r \in taxonomies}
              /\ \A r \in taxonomies :
                   /\ f[r] = [r EXCEPT !.disabled_at = f[r].disabled_at]
                   /\ r.disabled_at # NULL => f[r].disabled_at # NULL
<1>. DEFINE k == <<Lower[dp], id>>
            f == [r \in taxonomies |-> IF r \in rows_of(k, group)
                                       THEN [r EXCEPT !.disabled_at = height] ELSE r]
<1>1. height \in Nat /\ taxonomies \subseteq TaxRow /\ NULL \notin Nat
  BY TextAssumption DEF TaxonomyInv, TaxonomyTypeOK, TypeOK
<1>2. \A r \in taxonomies : r \in rows_of(k, group) <=>
                              r.stream = k /\ r.group_sequence = group
  BY DEF rows_of, taxonomies_of
<1>3. UNCHANGED <<height, streams, metadata, written>> /\ signer' \in Text
  <2>1. UNCHANGED <<height, streams, metadata, written>> /\ signer' = Lower[c]
    BY Zenon DEF disable_taxonomy
  <2>. QED
    BY <2>1, LowerText, TextAssumption, InputAssumption
<1>4. taxonomies' = {f[r] : r \in taxonomies}
  <2>1. taxonomies' = {IF r \in rows_of(k, group)
                       THEN [r EXCEPT !.disabled_at = height] ELSE r : r \in taxonomies}
    BY Zenon DEF disable_taxonomy
  <2>. HIDE DEF k
  <2>. QED
    BY <2>1
<1>5. \A r \in taxonomies :
        /\ f[r] \in TaxRow
        /\ f[r].stream = r.stream /\ f[r].child = r.child
        /\ f[r].group_sequence = r.group_sequence /\ f[r].start_time = r.start_time
        /\ f[r].created_at = r.created_at
        /\ f[r].disabled_at = IF r.stream = k /\ r.group_sequence = group
                              THEN height ELSE r.disabled_at
  <2>. HIDE DEF k
  <2>. QED
    BY <1>1, <1>2 DEF TaxRow
<1>12. \A r \in taxonomies : f[r] = [r EXCEPT !.disabled_at = f[r].disabled_at]
  <2>. HIDE DEF k
  <2>. QED
    BY <1>1, <1>2 DEF TaxRow
<1>. HIDE DEF f, k
<1>6. \A x \in taxonomies' : \E r \in taxonomies : x = f[r]
  BY <1>4
<1>7. TaxonomyTypeOK'
  <2>1. TypeOK'
    BY <1>3 DEF TaxonomyInv, TaxonomyTypeOK, TypeOK
  <2>. QED
    BY <2>1, <1>4, <1>5 DEF TaxonomyTypeOK
<1>8. VersionsWhole'
  <2>1. ASSUME NEW x \in taxonomies'
        PROVE  /\ x.stream \in DOMAIN streams' /\ ~ is_primitive_stream(x.stream)'
               /\ x.group_sequence >= 1 /\ x.created_at <= height'
               /\ Lower[x.child[1]] = x.child[1]
    <3>1. PICK r \in taxonomies : x = f[r]
      BY <1>6
    <3>2. /\ r.stream \in DOMAIN streams /\ streams[r.stream].stream_type # "primitive"
          /\ r.group_sequence >= 1 /\ r.created_at <= height
          /\ Lower[r.child[1]] = r.child[1]
      BY DEF TaxonomyInv, VersionsWhole, is_primitive_stream
    <3>3. /\ x.stream = r.stream /\ x.child = r.child /\ x.created_at = r.created_at
          /\ x.group_sequence = r.group_sequence
      BY <3>1, <1>5
    <3>. QED
      BY <3>2, <3>3, <1>3 DEF is_primitive_stream
  <2>2. ASSUME NEW x \in taxonomies', NEW y \in taxonomies', x.stream = y.stream
        PROVE  /\ x.group_sequence = y.group_sequence =>
                    /\ x.start_time = y.start_time /\ x.created_at = y.created_at
                    /\ x.disabled_at = y.disabled_at
                    /\ x.child = y.child => x = y
               /\ x.group_sequence < y.group_sequence => x.created_at <= y.created_at
    <3>1. PICK r \in taxonomies, q \in taxonomies : x = f[r] /\ y = f[q]
      BY <1>6
    <3>2. /\ r.group_sequence = q.group_sequence =>
               /\ r.start_time = q.start_time /\ r.created_at = q.created_at
               /\ r.disabled_at = q.disabled_at
               /\ r.child = q.child => r = q
          /\ r.group_sequence < q.group_sequence => r.created_at <= q.created_at
      BY <2>2, <3>1, <1>5 DEF TaxonomyInv, VersionsWhole
    <3>3. /\ x.stream = r.stream /\ x.child = r.child /\ x.created_at = r.created_at
          /\ x.group_sequence = r.group_sequence /\ x.start_time = r.start_time
          /\ x.disabled_at = IF r.stream = k /\ r.group_sequence = group
                             THEN height ELSE r.disabled_at
      BY <3>1, <1>5
    <3>4. /\ y.stream = q.stream /\ y.child = q.child /\ y.created_at = q.created_at
          /\ y.group_sequence = q.group_sequence /\ y.start_time = q.start_time
          /\ y.disabled_at = IF q.stream = k /\ q.group_sequence = group
                             THEN height ELSE q.disabled_at
      BY <3>1, <1>5
    <3>. QED
      BY <2>2, <3>1, <3>2, <3>3, <3>4
  <2>. QED
    BY <2>1, <2>2 DEF VersionsWhole
<1>9. \A x \in Key : Numbered(x)'
  <2>. TAKE x \in Key
  <2>1. \A r \in taxonomies : f[r].stream = r.stream /\ f[r].group_sequence = r.group_sequence
    BY <1>5
  <2>2. \A r \in taxonomies_of(x) : r \in taxonomies /\ f[r] \in taxonomies_of(x)'
    BY <1>4, <2>1 DEF taxonomies_of
  <2>3. \A y \in taxonomies_of(x)' : \E r \in taxonomies_of(x) : y = f[r]
    BY <1>6, <2>1 DEF taxonomies_of
  <2>4. CASE taxonomies_of(x) = {}
    BY <2>3, <2>4 DEF Numbered
  <2>5. CASE \E r \in taxonomies_of(x) :
               \A q \in taxonomies_of(x) : q.group_sequence <= r.group_sequence
    <3>1. PICK r \in taxonomies_of(x) :
            \A q \in taxonomies_of(x) : q.group_sequence <= r.group_sequence
      BY <2>5
    <3>2. \A y \in taxonomies_of(x)' : y.group_sequence <= f[r].group_sequence
      BY <2>1, <2>2, <2>3, <3>1
    <3>. QED
      BY <2>2, <3>2 DEF Numbered
  <2>. QED
    BY <2>4, <2>5 DEF TaxonomyInv, Numbered
<1>10. f \in [taxonomies -> TaxRow]
  BY <1>5 DEF f
<1>11. \A r \in taxonomies : r.disabled_at # NULL => f[r].disabled_at # NULL
  BY <1>1, <1>5
<1>. QED
  BY <1>4, <1>7, <1>8, <1>9, <1>10, <1>11, <1>12 DEF TaxonomyInv

\* A transaction of the registry keeps the versions of the streams that survive it.
LEMMA VersionsOfSurvivors ==
  ASSUME TaxonomyInv, RegistryStep
  PROVE  TaxonomyInv'
<1>1. TypeOK' /\ TypeOK /\ RegNext
  BY TypeStep DEF TaxonomyInv, TaxonomyTypeOK, RegistryStep
<1>2. /\ height \in Nat /\ height' \in Nat /\ height <= height'
      /\ \A k \in DOMAIN streams \cap DOMAIN streams' : streams'[k] = streams[k]
  BY <1>1, StreamsKept
<1>3. taxonomies' = {r \in taxonomies : r.stream \in DOMAIN streams'}
  BY DEF RegistryStep, cascade_taxonomies
<1>4. \A r \in taxonomies : r.created_at \in Nat
  BY DEF TaxonomyInv, TaxonomyTypeOK, TaxRow
<1>5. TaxonomyTypeOK'
  BY <1>1, <1>3 DEF TaxonomyInv, TaxonomyTypeOK
<1>6. VersionsWhole'
  <2>1. \A r \in taxonomies' :
          /\ r.stream \in DOMAIN streams' /\ ~ is_primitive_stream(r.stream)'
          /\ r.group_sequence >= 1 /\ r.created_at <= height'
          /\ Lower[r.child[1]] = r.child[1]
    BY <1>2, <1>3, <1>4 DEF TaxonomyInv, VersionsWhole, is_primitive_stream
  <2>. QED
    BY <1>3, <2>1 DEF TaxonomyInv, VersionsWhole
<1>7. \A k \in Key : Numbered(k)'
  <2>. TAKE k \in Key
  <2>1. taxonomies_of(k)' = {} \/ taxonomies_of(k)' = taxonomies_of(k)
    BY <1>3 DEF taxonomies_of
  <2>. QED
    BY <2>1 DEF TaxonomyInv, Numbered
<1>. QED
  BY <1>5, <1>6, <1>7 DEF TaxonomyInv

LEMMA TaxonomyStep == TaxonomyInv /\ [TaxonomyNext]_taxVars => TaxonomyInv'
<1>. SUFFICES ASSUME TaxonomyInv, [TaxonomyNext]_taxVars
              PROVE  TaxonomyInv'
  OBVIOUS
<1>1. CASE RegistryStep
  BY <1>1, VersionsOfSurvivors
<1>2. ASSUME NEW c \in Callers, NEW dp \in ProviderArgs, NEW id \in StreamIdArgs,
             NEW a \in TaxonomyArgs, insert_taxonomy(c, dp, id, a)
      PROVE  TaxonomyInv'
  BY <1>2, InsertAddsVersion, VersionAdded
<1>3. ASSUME NEW c \in Callers, NEW dp \in ProviderArgs, NEW id \in StreamIdArgs,
             NEW group \in GroupArgs, disable_taxonomy(c, dp, id, group)
      PROVE  TaxonomyInv'
  BY <1>3, VersionDisabled
<1>4. CASE UNCHANGED taxVars
  BY <1>4 DEF taxVars, TaxonomyInv, TaxonomyTypeOK, TypeOK, VersionsWhole,
              is_primitive_stream, Numbered, taxonomies_of
<1>. QED
  BY <1>1, <1>2, <1>3, <1>4 DEF TaxonomyNext, Taxonomise

LEMMA TaxonomyInductive == TaxonomySpec => []TaxonomyInv
<1>1. TaxonomyInit => TaxonomyInv
  BY DEF TaxonomyInit, RegInit, TaxonomyInv, TaxonomyTypeOK, TypeOK, VersionsWhole,
         Numbered, taxonomies_of
<1>. QED
  BY <1>1, TaxonomyStep, PTL DEF TaxonomySpec

\* The tables of the registry and of the taxonomies keep their column types.
THEOREM TaxonomyTypeCorrect == TaxonomySpec => []TaxonomyTypeOK
<1>1. TaxonomyInv => TaxonomyTypeOK
  BY DEF TaxonomyInv
<1>. QED
  BY <1>1, TaxonomyInductive, PTL

\* COMPOSED04, AGGR05: a version stays a unit, and versions are numbered in the
\* order of their blocks.
THEOREM VersionsStayWhole == TaxonomySpec => []VersionsWhole
<1>1. TaxonomyInv => VersionsWhole
  BY DEF TaxonomyInv
<1>. QED
  BY <1>1, TaxonomyInductive, PTL

\* COMPOSED04: versions can be disabled and nothing else, and a number is never
\* given twice while the stream lives.
THEOREM VersionsImmutable == TaxonomySpec => DefinitionsImmutable
<1>. DEFINE kept ==
       /\ \A r \in taxonomies :
            r.stream \in DOMAIN streams' =>
              \E q \in taxonomies' :
                /\ q = [r EXCEPT !.disabled_at = q.disabled_at]
                /\ r.disabled_at # NULL => q.disabled_at # NULL
       /\ \A q \in taxonomies' :
            \/ \E r \in taxonomies : q = [r EXCEPT !.disabled_at = q.disabled_at]
            \/ \A r \in taxonomies : r.stream = q.stream =>
                                       r.group_sequence < q.group_sequence
<1>1. ASSUME TaxonomyInv, TaxonomyNext
      PROVE  kept
  <2>1. \A r \in taxonomies : r = [r EXCEPT !.disabled_at = r.disabled_at]
    BY <1>1 DEF TaxonomyInv, TaxonomyTypeOK, TaxRow
  <2>2. CASE RegistryStep
    BY <2>1, <2>2 DEF RegistryStep, cascade_taxonomies
  <2>3. ASSUME NEW c \in Callers, NEW dp \in ProviderArgs, NEW id \in StreamIdArgs,
               NEW a \in TaxonomyArgs, insert_taxonomy(c, dp, id, a)
        PROVE  kept
    <3>1. PICK k, new : NewVersion(k, new) /\ taxonomies' = taxonomies \cup new
      BY <1>1, <2>3, InsertAddsVersion
    <3>2. \A r \in new, q \in taxonomies :
            q.stream = r.stream => q.group_sequence < r.group_sequence
      BY <1>1, <2>3, <3>1, InsertAddsVersion, VersionAdded
    <3>. QED
      BY <2>1, <3>1, <3>2
  <2>4. ASSUME NEW c \in Callers, NEW dp \in ProviderArgs, NEW id \in StreamIdArgs,
               NEW group \in GroupArgs, disable_taxonomy(c, dp, id, group)
        PROVE  kept
    <3>1. PICK f \in [taxonomies -> TaxRow] :
            /\ taxonomies' = {f[r] : r \in taxonomies}
            /\ \A r \in taxonomies :
                 /\ f[r] = [r EXCEPT !.disabled_at = f[r].disabled_at]
                 /\ r.disabled_at # NULL => f[r].disabled_at # NULL
      BY <1>1, <2>4, VersionDisabled
    <3>. QED
      BY <3>1
  <2>. QED
    BY <1>1, <2>2, <2>3, <2>4 DEF TaxonomyNext, Taxonomise
<1>2. TaxonomyInv /\ [TaxonomyNext]_taxVars => [kept]_taxVars
  BY <1>1
<1>. QED
  BY <1>2, TaxonomyInductive, PTL DEF TaxonomySpec, DefinitionsImmutable

-----------------------------------------------------------------------------
(* The latest version                                                      *)

\* The number of the latest version is that of an enabled row, and no enabled row
\* has a larger one.
LEMMA TopOfActive ==
  ASSUME TaxonomyInv, NEW k \in Key, active(k) # {}
  PROVE  \E r \in active(k) :
           /\ r.group_sequence = get_current_group_sequence(k, FALSE)
           /\ \A q \in active(k) : q.group_sequence <= r.group_sequence
<1>. DEFINE R == active(k)
            N == {r.group_sequence : r \in R}
<1>1. R \subseteq taxonomies_of(k) /\ \A r \in R : r.group_sequence \in Nat
  BY DEF TaxonomyInv, TaxonomyTypeOK, TaxRow, active, taxonomies_of
<1>2. PICK b \in Nat : \A r \in R : r.group_sequence <= b
  BY <1>1, NextGroup, Zenon
<1>. HIDE DEF R
<1>3. N \in SUBSET Nat /\ N # {} /\ \A n \in N : n <= b
  BY <1>1, <1>2 DEF R
<1>4. PICK m \in N : \A n \in N : n <= m
  <2>. HIDE DEF N
  <2>. QED
    BY <1>3, BoundedHasLargest
<1>5. top_group(R) \in N /\ \A r \in R : r.group_sequence <= top_group(R)
  <2>1. top_group(R) = CHOOSE n \in N : \A r \in R : r.group_sequence <= n
    BY <1>3 DEF top_group
  <2>2. \A r \in R : r.group_sequence <= m
    BY <1>4
  <2>. QED
    BY <1>4, <2>1, <2>2, Zenon
<1>6. top_group(R) = get_current_group_sequence(k, FALSE)
  BY DEF get_current_group_sequence, R
<1>. QED
  BY <1>5, <1>6 DEF R

\* COMPOSED04: the latest version is described with all its children, and only a
\* stream whose versions are all disabled has none: rows of one version are disabled
\* together.
THEOREM LatestVersionIsWhole == TaxonomySpec => []LatestIsWhole
<1>1. TaxonomyInv => LatestIsWhole
  <2>. SUFFICES ASSUME TaxonomyInv, NEW k \in DOMAIN streams
                PROVE  LET D == describe_taxonomies(k, TRUE)
                       IN /\ D = {} <=> \A r \in taxonomies_of(k) : r.disabled_at # NULL
                          /\ \A r \in D, q \in taxonomies_of(k) :
                               r.group_sequence = q.group_sequence => q \in D
                          /\ \A r, q \in D : r.group_sequence = q.group_sequence
    BY DEF LatestIsWhole
  <2>. DEFINE D == describe_taxonomies(k, TRUE)
              g == get_current_group_sequence(k, FALSE)
  <2>1. k \in Key
    BY DEF TaxonomyInv, TaxonomyTypeOK, TypeOK
  <2>2. D = {r \in taxonomies : r.stream = k /\ r.disabled_at = NULL /\ r.group_sequence = g}
    BY DEF describe_taxonomies, active, taxonomies_of
  <2>3. D = {} <=> active(k) = {}
    <3>1. active(k) # {} => D # {}
      BY <2>1, TopOfActive, Zenon DEF describe_taxonomies
    <3>. QED
      BY <3>1 DEF describe_taxonomies
  <2>4. active(k) = {} <=> \A r \in taxonomies_of(k) : r.disabled_at # NULL
    BY DEF active
  <2>. HIDE DEF D, g
  <2>5. \A r \in D, q \in taxonomies_of(k) : r.group_sequence = q.group_sequence => q \in D
    BY <2>2 DEF TaxonomyInv, VersionsWhole, taxonomies_of
  <2>6. \A r, q \in D : r.group_sequence = q.group_sequence
    BY <2>2
  <2>. QED
    BY <2>3, <2>4, <2>5, <2>6, Zenon DEF D
<1>. QED
  BY <1>1, TaxonomyInductive, PTL
=============================================================================
