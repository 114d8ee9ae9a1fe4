--------------------------- MODULE HierarchyProofs ---------------------------
(***************************************************************************)
(* Proofs about hierarchies, for all taxonomies, windows and bounds.       *)
(*                                                                         *)
(* Links: the windows get_category_streams and get_record_composed compute *)
(* for the versions of one stream (anchor, LEAD, the last version of a     *)
(* start) are those of the version in force at each time.  Categories: the *)
(* rows of the recursion, level by level, are the streams reached by links *)
(* in force at one time.  Access: what the recursive checks answer for a   *)
(* hierarchy follows from its streams and its links, one by one.           *)
(***************************************************************************)
EXTENDS ComposedRecords, ComposeAccess, TaxonomyProofs, FiniteSetTheorems

-----------------------------------------------------------------------------
(* Numbers                                                                 *)

\* The least of some numbers: the next version after a start.
LEMMA HasLeast ==
  ASSUME NEW S \in SUBSET Nat, S # {}
  PROVE  \E m \in S : \A s \in S : m <= s
<1>1. IsWellFoundedOn(OpToRel(<, Nat), Nat)
  BY NatLessThanWellFounded
<1>2. PICK m \in S : \A s \in S : ~ (<<s, m>> \in OpToRel(<, Nat))
  BY <1>1, WFMin, Zenon
<1>3. \A s \in S : ~ (s < m)
  BY <1>2 DEF OpToRel
<1>. QED
  BY <1>3

\* Induction, over a set of numbers.
LEMMA Induction ==
  ASSUME NEW Q \in SUBSET Nat, 0 \in Q, \A n \in Q : n + 1 \in Q
  PROVE  Q = Nat
<1>. SUFFICES ASSUME Nat \ Q # {} PROVE FALSE
  OBVIOUS
<1>1. PICK m \in Nat \ Q : \A n \in Nat \ Q : m <= n
  <2>1. Nat \ Q \in SUBSET Nat
    OBVIOUS
  <2>. QED
    BY <2>1, HasLeast
<1>2. m # 0 /\ m - 1 \in Nat /\ m - 1 \in Q
  BY <1>1
<1>3. (m - 1) + 1 \in Q
  BY <1>2
<1>. QED
  BY <1>1, <1>2, <1>3

\* A set that grows step by step: the CTE below a stream, level by level.
Levels(U, base, G, f) ==
  /\ f \in [Nat -> SUBSET U]
  /\ f[0] = base /\ \A n \in Nat : f[n + 1] = G[f[n]]

LEMMA HasLevels ==
  ASSUME NEW U, NEW base, base \in SUBSET U, NEW G, G \in [SUBSET U -> SUBSET U]
  PROVE  \E f : Levels(U, base, G, f)
<1>. DEFINE Upto(n, g) == /\ g \in [0 .. n -> SUBSET U] /\ g[0] = base
                          /\ \A i \in 1 .. n : g[i] = G[g[i - 1]]
<1>1. \A n \in Nat : \E g : Upto(n, g)
  <2>. DEFINE Q == {n \in Nat : \E g : Upto(n, g)}
  <2>1. 0 \in Q
    <3>. DEFINE g == [i \in 0 .. 0 |-> base]
    <3>1. Upto(0, g)
      OBVIOUS
    <3>. QED
      BY <3>1
  <2>2. ASSUME NEW n \in Q PROVE n + 1 \in Q
    <3>1. PICK g : Upto(n, g)
      OBVIOUS
    <3>. DEFINE h == [i \in 0 .. n + 1 |-> IF i = n + 1 THEN G[g[n]] ELSE g[i]]
    <3>2. n \in Nat /\ n \in 0 .. n /\ g[n] \in SUBSET U /\ G[g[n]] \in SUBSET U
      BY <3>1
    <3>3. h \in [0 .. n + 1 -> SUBSET U]
      BY <3>1, <3>2
    <3>4. h[0] = base
      BY <3>1, <3>2
    <3>5. ASSUME NEW i \in 1 .. n + 1 PROVE h[i] = G[h[i - 1]]
      <4>1. CASE i = n + 1
        BY <3>2, <4>1
      <4>2. CASE i # n + 1
        <5>1. i \in 1 .. n /\ i - 1 \in 0 .. n /\ i \in 0 .. n + 1 /\ i - 1 # n + 1
          BY <3>2, <4>2
        <5>2. h[i] = g[i] /\ h[i - 1] = g[i - 1]
          BY <5>1
        <5>. HIDE DEF h
        <5>. QED
          BY <3>1, <5>1, <5>2
      <4>. QED
        BY <4>1, <4>2
    <3>6. Upto(n + 1, h)
      BY <3>3, <3>4, <3>5
    <3>. HIDE DEF h
    <3>. QED
      BY <3>2, <3>6
  <2>3. Q \in SUBSET Nat
    OBVIOUS
  <2>. HIDE DEF Upto
  <2>. QED
    <3>1. Q = Nat
      <4>. HIDE DEF Q
      <4>. QED
        BY <2>1, <2>2, <2>3, Induction
    <3>. QED
      BY <3>1
<1>2. ASSUME NEW m \in Nat, NEW n \in Nat, NEW g, NEW h, Upto(m, g), Upto(n, h)
      PROVE  \A i \in Nat : i <= m /\ i <= n => g[i] = h[i]
  <2>. DEFINE Q == {i \in Nat : i <= m /\ i <= n => g[i] = h[i]}
  <2>1. 0 \in Q
    BY <1>2
  <2>2. ASSUME NEW i \in Q PROVE i + 1 \in Q
    <3>. SUFFICES ASSUME i + 1 <= m, i + 1 <= n PROVE g[i + 1] = h[i + 1]
      OBVIOUS
    <3>1. i + 1 \in 1 .. m /\ i + 1 \in 1 .. n /\ (i + 1) - 1 = i /\ g[i] = h[i]
      OBVIOUS
    <3>. QED
      BY <1>2, <3>1
  <2>3. Q \in SUBSET Nat
    OBVIOUS
  <2>4. Q = Nat
    <3>. HIDE DEF Q
    <3>. QED
      BY <2>1, <2>2, <2>3, Induction
  <2>. QED
    BY <2>4
<1>. DEFINE upto == [n \in Nat |-> CHOOSE g : Upto(n, g)]
            f == [n \in Nat |-> upto[n][n]]
<1>3. \A n \in Nat : Upto(n, upto[n])
  <2>. HIDE DEF Upto
  <2>. QED
    BY <1>1
<1>4. f \in [Nat -> SUBSET U]
  <2>1. \A n \in Nat : upto[n][n] \in SUBSET U
    <3>. TAKE n \in Nat
    <3>1. n \in 0 .. n
      OBVIOUS
    <3>. HIDE DEF upto
    <3>. QED
      BY <1>3, <3>1
  <2>. HIDE DEF upto
  <2>. QED
    BY <2>1
<1>5. f[0] = base
  <2>. HIDE DEF upto
  <2>. QED
    BY <1>3
<1>6. ASSUME NEW n \in Nat PROVE f[n + 1] = G[f[n]]
  <2>. HIDE DEF upto
  <2>1. n + 1 \in Nat /\ n + 1 \in 1 .. n + 1 /\ (n + 1) - 1 = n /\ n <= n + 1 /\ n <= n
    OBVIOUS
  <2>2. upto[n + 1][n + 1] = G[upto[n + 1][n]]
    BY <1>3, <2>1
  <2>3. upto[n + 1][n] = upto[n][n]
    <3>. HIDE DEF Upto
    <3>. QED
      BY <1>2, <1>3, <2>1
  <2>. QED
    BY <2>1, <2>2, <2>3
<1>. HIDE DEF f
<1>. QED
  BY <1>4, <1>5, <1>6 DEF Levels

-----------------------------------------------------------------------------
(* The invariant: the versions are whole, start before $max_int8, and are  *)
(* finitely many                                                           *)

\* What is read from the rows of a table is no more than the rows.
LEMMA ImageFinite ==
  ASSUME NEW S, IsFiniteSet(S), NEW f, DOMAIN f = S
  PROVE  /\ IsFiniteSet({f[x] : x \in S})
         /\ Cardinality({f[x] : x \in S}) <= Cardinality(S)
<1>. DEFINE T == {f[x] : x \in S}
            g == [x \in S |-> f[x]]
<1>1. g \in Surjection(S, T)
  BY DEF Surjection
<1>. QED
  BY <1>1, FS_Surjection, Zenon

StartsBounded == \A r \in taxonomies : r.start_time < MaxInt8

HierarchyInv == TaxonomyInv /\ StartsBounded /\ IsFiniteSet(taxonomies)

\* The streams of Deployed are numbered apart.
LEMMA Numbering ==
  ASSUME DeployedInit
  PROVE  \E f \in [DOMAIN Deployed -> 0 .. Cardinality(DOMAIN Deployed) - 1] :
           /\ \A x, y \in DOMAIN Deployed : x # y => f[x] # f[y]
           /\ metadata = UNION {DefaultRows(5 * f[k], k, Deployed[k]) : k \in DOMAIN Deployed}
<1>. DEFINE D == DOMAIN Deployed
            F == [D -> 0 .. Cardinality(D) - 1]
            f == CHOOSE g \in F : \A x, y \in D : x # y => g[x] # g[y]
<1>1. D \subseteq Key /\ IsFiniteSet(D) /\ \A k \in D : Deployed[k] \in StreamTypes
  BY HierarchyAssumption
<1>2. Cardinality(D) \in Nat /\ ExistsBijection(1 .. Cardinality(D), D)
  BY <1>1, FS_CardinalityType
<1>3. PICK b \in Bijection(1 .. Cardinality(D), D) : TRUE
  BY <1>2 DEF ExistsBijection
<1>4. /\ \A x \in D : \E n \in 1 .. Cardinality(D) : b[n] = x
      /\ b \in [1 .. Cardinality(D) -> D]
  BY <1>3 DEF Bijection, Injection, Surjection
<1>5. \E g \in F : \A x, y \in D : x # y => g[x] # g[y]
  <2>. DEFINE pos(x) == CHOOSE n \in 1 .. Cardinality(D) : b[n] = x
              g == [x \in D |-> pos(x) - 1]
  <2>1. \A x \in D : pos(x) \in 1 .. Cardinality(D) /\ b[pos(x)] = x
    BY <1>4
  <2>. HIDE DEF pos, D
  <2>2. g \in F
    BY <1>2, <2>1
  <2>3. \A x, y \in D : x # y => g[x] # g[y]
    BY <1>2, <2>1
  <2>. QED
    BY <2>2, <2>3
<1>6. f \in F /\ \A x, y \in D : x # y => f[x] # f[y]
  <2>. HIDE DEF F, D
  <2>. QED
    BY <1>5
<1>7. metadata = UNION {DefaultRows(5 * f[k], k, Deployed[k]) : k \in D}
  BY DEF DeployedInit
<1>. HIDE DEF f
<1>. QED
  BY <1>6, <1>7

\* So their first rows have the types of the columns.
LEMMA DeployedTyped == DeployedInit => HierarchyInv
<1>. SUFFICES ASSUME DeployedInit PROVE HierarchyInv
  OBVIOUS
<1>. DEFINE D == DOMAIN Deployed
<1>1. D \subseteq Key /\ IsFiniteSet(D) /\ \A k \in D : Deployed[k] \in StreamTypes
  BY HierarchyAssumption
<1>2. Cardinality(D) \in Nat
  BY <1>1, FS_CardinalityType
<1>3. PICK f \in [D -> 0 .. Cardinality(D) - 1] :
        metadata = UNION {DefaultRows(5 * f[k], k, Deployed[k]) : k \in D}
  BY Numbering
<1>4. metadata \subseteq MetadataRow
  <2>1. height \in Nat
    BY DEF DeployedInit
  <2>2. \A k \in D : 5 * f[k] \in Nat
    BY <1>2, <1>3
  <2>. HIDE DEF D
  <2>. QED
    BY <1>1, <1>3, <2>1, <2>2, DefaultRowsType
<1>5. /\ height = 0 /\ written = 5 * Cardinality(D) /\ signer = NULL /\ taxonomies = {}
      /\ streams = [k \in D |-> [stream_type |-> Deployed[k], created_at |-> 0]]
  BY DEF DeployedInit
<1>6. TypeOK
  <2>. HIDE DEF D
  <2>. QED
    BY <1>1, <1>2, <1>4, <1>5 DEF TypeOK, StreamRow
<1>. QED
  BY <1>5, <1>6, FS_EmptySet
     DEF HierarchyInv, StartsBounded, TaxonomyInv, TaxonomyTypeOK, VersionsWhole, Numbered,
         taxonomies_of

\* A transaction adds the rows of one array, changes rows or removes them.
LEMMA FiniteStep == HierarchyInv /\ [TaxonomyNext]_taxVars => IsFiniteSet(taxonomies)'
<1>. SUFFICES ASSUME HierarchyInv, [TaxonomyNext]_taxVars
              PROVE  IsFiniteSet(taxonomies')
  OBVIOUS
<1>. USE DEF HierarchyInv
<1>1. CASE RegistryStep
  <2>1. taxonomies' \in SUBSET taxonomies
    BY <1>1 DEF RegistryStep, cascade_taxonomies
  <2>. QED
    BY <2>1, FS_Subset
<1>2. ASSUME NEW c \in Callers, NEW dp \in ProviderArgs, NEW id \in StreamIdArgs,
             NEW a \in TaxonomyArgs, insert_taxonomy(c, dp, id, a)
      PROVE  IsFiniteSet(taxonomies')
  <2>. DEFINE k == <<Lower[dp], id>>
              row(i) == [stream |-> k, child |-> child_of(a, i), weight |-> a.weights[i],
                         created_at |-> height, disabled_at |-> NULL,
                         group_sequence |-> get_current_group_sequence(k, TRUE) + 1,
                         start_time |-> IF a.start_date = NULL THEN 0 ELSE a.start_date]
              I == DOMAIN a.child_stream_ids
              f == [i \in I |-> row(i)]
  <2>1. taxonomies' = taxonomies \cup {row(i) : i \in I}
    BY <1>2, Zenon DEF insert_taxonomy
  <2>2. IsFiniteSet(I)
    <3>1. a.child_stream_ids \in Seq(Text)
      BY TaxonomyAssumption
    <3>2. I = 1 .. Len(a.child_stream_ids) /\ Len(a.child_stream_ids) \in Nat
      BY <3>1
    <3>. QED
      BY <3>2, FS_Interval
  <2>3. IsFiniteSet({f[i] : i \in I})
    <3>1. DOMAIN f = I
      OBVIOUS
    <3>. HIDE DEF f
    <3>. QED
      BY <2>2, <3>1, ImageFinite
  <2>4. {f[i] : i \in I} = {row(i) : i \in I}
    <3>. HIDE DEF row
    <3>. QED
      OBVIOUS
  <2>. HIDE DEF f, row, I
  <2>. QED
    BY <2>1, <2>3, <2>4, FS_Union
<1>3. ASSUME NEW c \in Callers, NEW dp \in ProviderArgs, NEW id \in StreamIdArgs,
             NEW group \in GroupArgs, disable_taxonomy(c, dp, id, group)
      PROVE  IsFiniteSet(taxonomies')
  <2>. DEFINE R == rows_of(<<Lower[dp], id>>, group)
              f == [r \in taxonomies |-> IF r \in R THEN [r EXCEPT !.disabled_at = height]
                                                    ELSE r]
  <2>1. taxonomies' = {f[r] : r \in taxonomies}
    <3>1. taxonomies' = {IF r \in R THEN [r EXCEPT !.disabled_at = height] ELSE r :
                           r \in taxonomies}
      BY <1>3, Zenon DEF disable_taxonomy
    <3>. HIDE DEF R
    <3>. QED
      BY <3>1
  <2>2. DOMAIN f = taxonomies
    OBVIOUS
  <2>. HIDE DEF f
  <2>. QED
    BY <2>1, <2>2, ImageFinite
<1>4. CASE UNCHANGED taxVars
  BY <1>4 DEF taxVars
<1>. QED
  BY <1>1, <1>2, <1>3, <1>4 DEF TaxonomyNext, Taxonomise

\* A version starts before $max_int8 when it is inserted, and its start stays.
LEMMA BoundedStep == HierarchyInv /\ [TaxonomyNext]_taxVars => HierarchyInv'
<1>. SUFFICES ASSUME HierarchyInv, [TaxonomyNext]_taxVars
              PROVE  StartsBounded'
  BY TaxonomyStep, FiniteStep DEF HierarchyInv
<1>. USE DEF HierarchyInv, StartsBounded
<1>1. CASE RegistryStep
  BY <1>1 DEF RegistryStep, cascade_taxonomies
<1>2. ASSUME NEW c \in Callers, NEW dp \in ProviderArgs, NEW id \in StreamIdArgs,
             NEW a \in TaxonomyArgs, insert_taxonomy(c, dp, id, a)
      PROVE  StartsBounded'
  <2>. DEFINE start == IF a.start_date = NULL THEN 0 ELSE a.start_date
  <2>1. start < MaxInt8
    BY HierarchyAssumption
  <2>. DEFINE k == <<Lower[dp], id>>
              row(i) == [stream |-> k, child |-> child_of(a, i), weight |-> a.weights[i],
                         created_at |-> height, disabled_at |-> NULL,
                         group_sequence |-> get_current_group_sequence(k, TRUE) + 1,
                         start_time |-> start]
  <2>2. \A r \in taxonomies' \ taxonomies : r.start_time = start
    <3>1. taxonomies' = taxonomies \cup {row(i) : i \in DOMAIN a.child_stream_ids}
      BY <1>2, Zenon DEF insert_taxonomy
    <3>2. \A i : row(i).start_time = start
      OBVIOUS
    <3>. HIDE DEF row, start
    <3>. QED
      BY <3>1, <3>2
  <2>. QED
    BY <2>1, <2>2
<1>3. ASSUME NEW c \in Callers, NEW dp \in ProviderArgs, NEW id \in StreamIdArgs,
             NEW group \in GroupArgs, disable_taxonomy(c, dp, id, group)
      PROVE  StartsBounded'
  <2>1. \A r \in taxonomies : [r EXCEPT !.disabled_at = height].start_time = r.start_time
    BY DEF TaxonomyInv, TaxonomyTypeOK, TaxRow
  <2>. QED
    BY <1>3, <2>1 DEF disable_taxonomy
<1>4. CASE UNCHANGED taxVars
  BY <1>4 DEF taxVars
<1>. QED
  BY <1>1, <1>2, <1>3, <1>4 DEF TaxonomyNext, Taxonomise

\* Records change nothing but the signer.
LEMMA RecordStep == HierarchyInv /\ [ComposedNext]_composedVars => HierarchyInv'
<1>. SUFFICES ASSUME HierarchyInv, [ComposedNext]_composedVars
              PROVE  HierarchyInv'
  OBVIOUS
<1>1. CASE Taxonomise
  BY <1>1, BoundedStep DEF TaxonomyNext
<1>2. CASE InsertRecords
  <2>1. /\ UNCHANGED <<height, streams, metadata, written, taxonomies>>
        /\ \E c \in Callers : signer' = Lower[c]
    BY <1>2 DEF InsertRecords, P!InsertOne, P!insert_record
  <2>2. signer' \in Text
    BY <2>1, LowerText, TextAssumption, InputAssumption
  <2>. QED
    BY <2>1, <2>2 DEF HierarchyInv, StartsBounded, TaxonomyInv, TaxonomyTypeOK, TypeOK,
                      VersionsWhole, is_primitive_stream, Numbered, taxonomies_of
<1>3. CASE UNCHANGED composedVars
  <2>1. UNCHANGED taxVars
    BY <1>3 DEF composedVars, taxVars
  <2>. QED
    BY <2>1, BoundedStep
<1>. QED
  BY <1>1, <1>2, <1>3 DEF ComposedNext

-----------------------------------------------------------------------------
(* One version in force                                                    *)

\* What the columns say of the rows in force, and of the bounds of a window.
LEMMA ActiveRows ==
  ASSUME HierarchyInv, NEW k
  PROVE  /\ \A r \in active(k) : /\ r.start_time \in Nat /\ r.start_time < MaxInt8
                                 /\ r.group_sequence \in Nat
         /\ starts(active(k)) \subseteq Nat /\ starts(taxonomies) \subseteq Nat
BY DEF HierarchyInv, StartsBounded, TaxonomyInv, TaxonomyTypeOK, TaxRow, active, taxonomies_of,
       starts

\* The anchor is the start of a version in force at `from`, if there is one.
LEMMA Anchor ==
  ASSUME HierarchyInv, NEW k, NEW from \in Int
  PROVE  \/ /\ \A r \in active(k) : r.start_time > from
            /\ anchor_start(k, from) = 0
         \/ \E r \in active(k) : /\ r.start_time <= from
                                 /\ anchor_start(k, from) = r.start_time
<1>. DEFINE S == {s \in starts(active(k)) : s <= from}
<1>1. S \subseteq Nat /\ \A s \in S : \E r \in active(k) : s = r.start_time /\ s <= from
  BY ActiveRows DEF starts
<1>2. CASE S = {}
  BY <1>2, ActiveRows DEF anchor_start, starts
<1>3. CASE S # {}
  <2>1. from \in Nat /\ \A s \in S : s <= from
    BY <1>1, <1>3
  <2>2. \E s \in S : \A x \in S : x <= s
    <3>. HIDE DEF S
    <3>. QED
      BY <1>1, <1>3, <2>1, BoundedHasLargest
  <2>3. anchor_start(k, from) \in S
    BY <1>3, <2>2 DEF anchor_start
  <2>. QED
    BY <1>1, <2>3
<1>. QED
  BY <1>2, <1>3

\* A version lasts until just before the next start of the window, or to $max_int8.
LEMMA LastTime ==
  ASSUME NEW S \in SUBSET Nat, NEW s \in Nat, NEW t \in Int, t < MaxInt8
  PROVE  t <= last_time(s, S) <=> \A x \in S : x > s => x > t
<1>. DEFINE later == {x \in S : x > s}
<1>1. MaxInt8 \in Nat
  BY HierarchyAssumption
<1>2. CASE later = {}
  <2>1. last_time(s, S) = MaxInt8 - 1
    BY <1>2 DEF last_time
  <2>. QED
    BY <1>1, <1>2, <2>1
<1>3. CASE later # {}
  <2>. DEFINE m == CHOOSE x \in later : \A y \in later : x <= y
  <2>1. \E x \in later : \A y \in later : x <= y
    <3>1. later \in SUBSET Nat
      OBVIOUS
    <3>. HIDE DEF later
    <3>. QED
      BY <1>3, <3>1, HasLeast
  <2>2. m \in later /\ \A y \in later : m <= y
    <3>. HIDE DEF later
    <3>. QED
      BY <2>1
  <2>3. last_time(s, S) = m - 1
    BY <1>3 DEF last_time
  <2>. HIDE DEF m
  <2>. QED
    BY <2>2, <2>3
<1>. QED
  BY <1>2, <1>3

\* Within a window, the rows the query keeps for a time are those of the version in
\* force then.
LEMMA InForce ==
  ASSUME HierarchyInv, NEW k, NEW from \in Int, NEW to \in Int, NEW t \in Int,
         from <= t, t <= to, t < MaxInt8
  PROVE  {r \in winning(k, from, to) :
            /\ r.start_time <= t
            /\ t <= last_time(r.start_time, starts(in_window(k, from, to)))}
           = version_at(k, t)
<1>. DEFINE W == in_window(k, from, to)
            anchor == anchor_start(k, from)
            ends(r) == last_time(r.start_time, starts(W))
<1>1. \A r \in active(k) : r.start_time \in Nat /\ r.group_sequence \in Nat
  BY ActiveRows
<1>2. /\ W = {r \in active(k) : r.start_time <= to /\ r.start_time >= anchor}
      /\ starts(W) \subseteq Nat
  BY <1>1 DEF in_window, starts
<1>3. anchor \in Nat
  BY <1>1, Anchor
<1>4. \A r \in active(k) : t <= ends(r) <=> \A q \in W : q.start_time > r.start_time
                                                         => q.start_time > t
  <2>. TAKE r \in active(k)
  <2>1. t <= ends(r) <=> \A x \in starts(W) : x > r.start_time => x > t
    BY <1>1, <1>2, LastTime
  <2>. HIDE DEF W, ends
  <2>. QED
    BY <2>1 DEF starts
<1>5. \A r : r \in winning(k, from, to) <=>
               /\ r \in W
               /\ \A q \in W : q.start_time = r.start_time => q.group_sequence <= r.group_sequence
  BY DEF winning
<1>6. \A r : r \in version_at(k, t) <=>
               /\ r \in active(k) /\ r.start_time <= t
               /\ \A q \in active(k) : q.start_time <= t =>
                    \/ q.start_time < r.start_time
                    \/ q.start_time = r.start_time /\ q.group_sequence <= r.group_sequence
  BY DEF version_at
<1>. HIDE DEF W, ends, anchor
<1>7. ASSUME NEW r \in winning(k, from, to), r.start_time <= t, t <= ends(r)
      PROVE  r \in version_at(k, t)
  <2>1. r \in active(k) /\ r.start_time >= anchor
    BY <1>2, <1>5
  <2>2. ASSUME NEW q \in active(k), q.start_time <= t
        PROVE  \/ q.start_time < r.start_time
               \/ q.start_time = r.start_time /\ q.group_sequence <= r.group_sequence
    <3>1. CASE q.start_time < anchor
      BY <1>1, <1>3, <2>1, <3>1
    <3>2. CASE q.start_time >= anchor
      <4>1. q \in W
        BY <1>1, <1>2, <2>2, <3>2
      <4>2. ~ q.start_time > r.start_time
        BY <1>1, <1>4, <1>7, <2>1, <2>2, <4>1
      <4>. QED
        BY <1>1, <1>5, <2>1, <4>1, <4>2
    <3>. QED
      BY <1>1, <1>3, <3>1, <3>2
  <2>. QED
    BY <1>6, <1>7, <2>1, <2>2
<1>8. ASSUME NEW r \in version_at(k, t)
      PROVE  r \in winning(k, from, to) /\ r.start_time <= t /\ t <= ends(r)
  <2>1. r \in active(k) /\ r.start_time <= t
    BY <1>6
  <2>2. r.start_time >= anchor
    <3>1. CASE anchor = 0
      BY <1>1, <2>1, <3>1
    <3>2. CASE \E q \in active(k) : q.start_time <= from /\ anchor = q.start_time
      BY <1>1, <1>6, <2>1, <3>2
    <3>. QED
      BY <3>1, <3>2, Anchor DEF anchor
  <2>3. r \in W
    BY <1>1, <1>2, <2>1, <2>2
  <2>4. r \in winning(k, from, to)
    BY <1>1, <1>2, <1>5, <1>6, <2>1, <2>3
  <2>5. t <= ends(r)
    BY <1>1, <1>2, <1>4, <1>6, <2>1
  <2>. QED
    BY <2>1, <2>4, <2>5
<1>. QED
  BY <1>7, <1>8 DEF ends, W

\* The times of a window lie between its bounds and before $max_int8.
LEMMA WindowTimes ==
  ASSUME HierarchyInv, NEW w \in Windows, NEW t \in times(w[1], w[2])
  PROVE  /\ coalesce(w[1], 0) \in Int /\ coalesce(w[2], MaxInt8) \in Int /\ t \in Int
         /\ coalesce(w[1], 0) <= t /\ t <= coalesce(w[2], MaxInt8) /\ t < MaxInt8
<1>. DEFINE from == coalesce(w[1], 0)
            ends == starts(taxonomies) \cup {from}
            horizon == CHOOSE x \in ends : \A y \in ends : y <= x
<1>1. /\ w[1] \in Int \cup {NULL} /\ w[2] \in Int \cup {NULL}
      /\ w[1] # NULL => w[1] < MaxInt8
      /\ w[2] # NULL => w[2] < MaxInt8
      /\ MaxInt8 \in Nat \ {0}
  BY HierarchyAssumption DEF Windows
<1>2. from \in Int /\ from < MaxInt8 /\ coalesce(w[2], MaxInt8) \in Int
  BY <1>1 DEF coalesce
<1>3. t \in from .. (IF w[2] = NULL THEN horizon ELSE w[2])
  BY DEF times
<1>4. horizon \in Int /\ horizon < MaxInt8
  <2>1. /\ starts(taxonomies) \subseteq Nat
        /\ \A s \in starts(taxonomies) : s < MaxInt8
    BY ActiveRows DEF HierarchyInv, StartsBounded, starts
  <2>2. \E x \in ends : \A y \in ends : y <= x
    <3>. DEFINE T == {s \in starts(taxonomies) : s >= from}
    <3>1. CASE T = {}
      <4>1. \A y \in ends : y <= from
        BY <1>2, <2>1, <3>1
      <4>. QED
        BY <4>1
    <3>2. CASE T # {}
      <4>1. T \in SUBSET Nat /\ \A s \in T : s <= MaxInt8
        BY <1>1, <2>1
      <4>2. PICK m \in T : \A s \in T : s <= m
        <5>. HIDE DEF T
        <5>. QED
          BY <1>1, <3>2, <4>1, BoundedHasLargest
      <4>3. \A y \in ends : y <= m
        BY <1>2, <2>1, <4>2
      <4>. QED
        BY <4>2, <4>3
    <3>. QED
      BY <3>1, <3>2
  <2>3. horizon \in ends
    <3>. HIDE DEF ends
    <3>. QED
      BY <2>2
  <2>. HIDE DEF horizon
  <2>. QED
    BY <1>2, <2>1, <2>3
<1>. HIDE DEF horizon, from
<1>5. CASE w[2] = NULL
  <2>1. coalesce(w[2], MaxInt8) = MaxInt8
    BY <1>5 DEF coalesce
  <2>. QED
    BY <1>1, <1>2, <1>3, <1>4, <1>5, <2>1 DEF from
<1>6. CASE w[2] # NULL
  <2>1. coalesce(w[2], MaxInt8) = w[2]
    BY <1>6 DEF coalesce
  <2>. QED
    BY <1>1, <1>2, <1>3, <1>6, <2>1 DEF from
<1>. QED
  BY <1>5, <1>6

\* The links of a stream at a time of a window.
LEMMA LinksAtTime ==
  ASSUME HierarchyInv, NEW k, NEW w \in Windows, NEW t \in times(w[1], w[2])
  PROVE  {e.child : e \in {x \in effective(k, coalesce(w[1], 0), coalesce(w[2], MaxInt8)) :
                              x.first <= t /\ t <= x.last}} = children_at(k, t)
<1>. DEFINE from == coalesce(w[1], 0)
            to == coalesce(w[2], MaxInt8)
            ends(r) == last_time(r.start_time, starts(in_window(k, from, to)))
            link(r) == [parent |-> k, child |-> r.child, first |-> r.start_time, last |-> ends(r)]
<1>1. {r \in winning(k, from, to) : r.start_time <= t /\ t <= ends(r)} = version_at(k, t)
  BY WindowTimes, InForce
<1>2. effective(k, from, to) = {link(r) : r \in winning(k, from, to)}
  BY DEF effective
<1>3. \A r : link(r).child = r.child /\ link(r).first = r.start_time /\ link(r).last = ends(r)
  OBVIOUS
<1>4. children_at(k, t) = {r.child : r \in version_at(k, t)}
  BY DEF children_at
<1>. HIDE DEF link, ends, from, to
<1>. QED
  BY <1>1, <1>2, <1>3, <1>4 DEF from, to

LEMMA VersionInForce == HierarchyInv => OneVersionInForce
BY LinksAtTime DEF OneVersionInForce

\* AGGR06: whatever the window of a query, the links it gives a time are those of the
\* one version in force then; under every sequence of transactions of the registry and
\* of the taxonomies.
THEOREM LinksAreTheVersions == HierarchySpec => []OneVersionInForce
<1>1. HierarchySpec => []HierarchyInv
  BY DeployedTyped, BoundedStep, PTL DEF HierarchySpec
<1>. QED
  BY <1>1, VersionInForce, PTL

\* AGGR06: the same while records are inserted between the versions.
THEOREM LinksOfComposed == ComposedSpec => []OneVersionInForce
<1>1. ComposedSpec => []HierarchyInv
  BY DeployedTyped, RecordStep, PTL DEF ComposedSpec
<1>. QED
  BY <1>1, VersionInForce, PTL
-----------------------------------------------------------------------------
(* What is below a stream                                                  *)

\* The rows the CTE may hold for a window: in force at some time of it, from the
\* start of a version on.
WindowRow(from, to) ==
  {r \in [parent : Text \X Text, child : Text \X Text, first : Nat, last : Int] :
     /\ r.first \in starts(taxonomies)
     /\ r.first <= r.last /\ r.first <= to /\ from <= r.last}

joined(p, c) == [parent |-> p.child, child |-> c.child,
                 first |-> larger(p.first, c.first), last |-> smaller(p.last, c.last)]

\* One step of the CTE, and one step of the reference at a time.
extend(L, from, to) ==
  L \cup UNION {{joined(p, c) : c \in {x \in effective(p.child, from, to) : overlap(p, x)}} :
                  p \in L}

grow_at(S, t) == S \cup UNION {children_at(c, t) : c \in S}

\* A version lasts from its start to the next in the window, and none ends before the
\* window opens.
LEMMA LinkRows ==
  ASSUME HierarchyInv, NEW k, NEW from \in Int, NEW to \in Int, from < MaxInt8,
         NEW e \in effective(k, from, to)
  PROVE  e \in WindowRow(from, to) /\ e.parent = k
<1>. DEFINE W == in_window(k, from, to)
            anchor == anchor_start(k, from)
<1>1. PICK r \in winning(k, from, to) :
        e = [parent |-> k, child |-> r.child, first |-> r.start_time,
             last |-> last_time(r.start_time, starts(W))]
  BY DEF effective
<1>2. /\ r \in active(k) /\ r \in W /\ r \in taxonomies /\ r.stream = k
      /\ r.start_time <= to /\ r.start_time >= anchor
  BY DEF winning, in_window, active, taxonomies_of
<1>3. /\ r.start_time \in Nat /\ r.start_time < MaxInt8 /\ starts(W) \subseteq Nat
      /\ r.start_time \in starts(taxonomies) /\ MaxInt8 \in Nat
      /\ \A q \in W : q \in active(k) /\ q.start_time >= anchor /\ q.start_time \in Nat
  BY <1>2, ActiveRows, HierarchyAssumption DEF starts, in_window
<1>4. r.stream \in Text \X Text /\ r.child \in Text \X Text
  BY <1>2, TextAssumption DEF HierarchyInv, TaxonomyInv, TaxonomyTypeOK, TaxRow, Key
<1>. HIDE DEF W, anchor
<1>5. e.last \in Int
  <2>1. CASE {x \in starts(W) : x > r.start_time} = {}
    BY <1>1, <1>3, <2>1 DEF last_time
  <2>2. CASE {x \in starts(W) : x > r.start_time} # {}
    <3>. DEFINE later == {x \in starts(W) : x > r.start_time}
    <3>1. later \in SUBSET Nat /\ later # {}
      BY <1>3, <2>2
    <3>2. \E x \in later : \A y \in later : x <= y
      <4>. HIDE DEF later
      <4>. QED
        BY <3>1, HasLeast
    <3>3. (CHOOSE x \in later : \A y \in later : x <= y) \in Nat
      <4>. HIDE DEF later
      <4>. QED
        BY <3>1, <3>2
    <3>4. e.last = (CHOOSE x \in later : \A y \in later : x <= y) - 1
      BY <1>1, <2>2 DEF last_time
    <3>. HIDE DEF later
    <3>. QED
      BY <3>3, <3>4
  <2>. QED
    BY <2>1, <2>2
<1>6. \A t \in Int : t < MaxInt8 =>
        (t <= e.last <=> \A x \in starts(W) : x > r.start_time => x > t)
  BY <1>1, <1>3, LastTime
<1>7. e.first <= e.last
  BY <1>1, <1>3, <1>6
<1>8. from <= e.last
  <2>1. ASSUME NEW q \in W, q.start_time > r.start_time
        PROVE  q.start_time > from
    <3>1. q \in active(k) /\ q.start_time > anchor
      <4>1. anchor \in Nat
        BY ActiveRows, Anchor DEF anchor
      <4>. QED
        BY <1>2, <1>3, <2>1, <4>1
    <3>2. CASE \A x \in active(k) : x.start_time > from
      BY <3>1, <3>2
    <3>3. CASE \E x \in active(k) : x.start_time <= from /\ anchor = x.start_time
      <4>. SUFFICES ASSUME q.start_time <= from PROVE FALSE
        BY <1>3
      <4>. DEFINE S == {s \in starts(active(k)) : s <= from}
      <4>1. q.start_time \in S /\ S \subseteq Nat
        BY <3>1, ActiveRows DEF starts
      <4>2. \E s \in S : \A x \in S : x <= s
        <5>1. from \in Nat /\ \A s \in S : s <= from
          BY <4>1
        <5>. HIDE DEF S
        <5>. QED
          BY <4>1, <5>1, BoundedHasLargest
      <4>3. \A x \in S : x <= anchor
        <5>1. anchor = CHOOSE s \in S : \A x \in S : x <= s
          BY <4>1 DEF anchor, anchor_start
        <5>. HIDE DEF S
        <5>. QED
          BY <4>2, <5>1
      <4>. HIDE DEF S
      <4>. QED
        BY <3>1, <3>3, <4>1, <4>3, ActiveRows
    <3>. QED
      BY <3>2, <3>3, Anchor DEF anchor
  <2>. QED
    BY <1>6, <2>1 DEF starts
<1>. QED
  BY <1>1, <1>2, <1>3, <1>4, <1>5, <1>7, <1>8 DEF WindowRow

\* A step of the CTE stays among those rows.
LEMMA JoinedRows ==
  ASSUME HierarchyInv, NEW from \in Int, NEW to \in Int, from < MaxInt8,
         NEW L \in SUBSET WindowRow(from, to)
  PROVE  extend(L, from, to) \in SUBSET WindowRow(from, to)
<1>. SUFFICES ASSUME NEW p \in L, NEW c \in effective(p.child, from, to), overlap(p, c)
              PROVE  joined(p, c) \in WindowRow(from, to)
  BY DEF extend
<1>1. c \in WindowRow(from, to) /\ p \in WindowRow(from, to)
  BY LinkRows
<1>. QED
  BY <1>1 DEF WindowRow, joined, overlap, larger, smaller

\* The levels of the CTE, and those of the reference at a time.
RowLevels(k, from, to, S) ==
  /\ S \in [Nat -> SUBSET WindowRow(from, to)]
  /\ S[0] = effective(k, from, to)
  /\ \A n \in Nat : S[n + 1] = extend(S[n], from, to)

ChildLevels(k, t, B) ==
  /\ B \in [Nat -> SUBSET {r.child : r \in taxonomies}]
  /\ B[0] = children_at(k, t)
  /\ \A n \in Nat : B[n + 1] = grow_at(B[n], t)

\* The CTE, level by level.
LEMMA SubstreamLevels ==
  ASSUME HierarchyInv, NEW k, NEW from \in Int, NEW to \in Int, from < MaxInt8
  PROVE  \E S : /\ RowLevels(k, from, to, S)
                /\ substreams(k, from, to) = S[Cardinality(taxonomies)]
<1>. DEFINE U == WindowRow(from, to)
            G == [L \in SUBSET U |-> extend(L, from, to)]
            Level(f) == f = [n \in Nat |-> IF n = 0 THEN effective(k, from, to)
                                          ELSE extend(f[n - 1], from, to)]
            S == CHOOSE f : Level(f)
<1>1. effective(k, from, to) \in SUBSET U
  BY LinkRows
<1>2. G \in [SUBSET U -> SUBSET U]
  <2>1. \A L \in SUBSET U : extend(L, from, to) \in SUBSET U
    BY JoinedRows
  <2>. HIDE DEF U
  <2>. QED
    BY <2>1
<1>3. PICK f : Levels(U, effective(k, from, to), G, f)
  <2>. HIDE DEF U, G
  <2>. QED
    BY <1>1, <1>2, HasLevels, Zenon
<1>4. Level(f)
  <2>1. \A n \in Nat : f[n] = IF n = 0 THEN effective(k, from, to)
                              ELSE extend(f[n - 1], from, to)
    <3>. TAKE n \in Nat
    <3>1. CASE n = 0
      BY <1>3, <3>1 DEF Levels
    <3>2. CASE n # 0
      <4>1. n - 1 \in Nat /\ (n - 1) + 1 = n
        BY <3>2
      <4>2. f[n] = G[f[n - 1]]
        <5>. HIDE DEF G
        <5>. QED
          BY <1>3, <4>1 DEF Levels
      <4>3. f[n - 1] \in SUBSET U
        BY <1>3, <4>1 DEF Levels
      <4>. HIDE DEF U
      <4>. QED
        BY <3>2, <4>2, <4>3
    <3>. QED
      BY <3>1, <3>2
  <2>2. f = [n \in Nat |-> f[n]]
    BY <1>3 DEF Levels
  <2>. QED
    BY <2>1, <2>2, Zenon
<1>5. Level(S)
  <2>. HIDE DEF Level
  <2>. QED
    BY <1>4
<1>6. substreams(k, from, to) = S[Cardinality(taxonomies)]
  BY Zenon DEF substreams, extend, joined
<1>. HIDE DEF S
<1>7. S[0] = effective(k, from, to)
  BY <1>5
<1>8. \A n \in Nat : S[n + 1] = extend(S[n], from, to)
  BY <1>5
<1>9. \A n \in Nat : S[n] \in SUBSET U
  <2>. DEFINE Q == {n \in Nat : S[n] \in SUBSET U}
  <2>1. 0 \in Q
    BY <1>1, <1>7
  <2>2. \A n \in Q : n + 1 \in Q
    <3>. HIDE DEF U
    <3>. QED
      BY <1>8, JoinedRows DEF U
  <2>3. Q = Nat
    <3>1. Q \in SUBSET Nat
      OBVIOUS
    <3>. HIDE DEF Q
    <3>. QED
      BY <2>1, <2>2, <3>1, Induction
  <2>. QED
    BY <2>3
<1>10. S \in [Nat -> SUBSET U]
  <2>1. S = [n \in Nat |-> S[n]]
    BY <1>5
  <2>. HIDE DEF U
  <2>. QED
    BY <1>9, <2>1
<1>. QED
  BY <1>6, <1>7, <1>8, <1>10 DEF RowLevels

\* The children of a stream at a time are locators.
LEMMA ChildrenAreLocators ==
  ASSUME HierarchyInv, NEW k, NEW t
  PROVE  children_at(k, t) \in SUBSET {r.child : r \in taxonomies}
BY DEF children_at, version_at, active, taxonomies_of

\* The reference, level by level.
LEMMA BelowLevels ==
  ASSUME HierarchyInv, NEW k, NEW t
  PROVE  \E B : ChildLevels(k, t, B) /\ below_at(k, t) = B[Cardinality(taxonomies)]
<1>. DEFINE U == {r.child : r \in taxonomies}
            G == [L \in SUBSET U |-> grow_at(L, t)]
            Level(f) == f = [n \in Nat |-> IF n = 0 THEN children_at(k, t)
                                          ELSE grow_at(f[n - 1], t)]
            B == CHOOSE f : Level(f)
<1>1. children_at(k, t) \in SUBSET U
  BY ChildrenAreLocators
<1>2. \A L \in SUBSET U : grow_at(L, t) \in SUBSET U
  <2>1. \A c : children_at(c, t) \in SUBSET U
    BY ChildrenAreLocators
  <2>. HIDE DEF U
  <2>. QED
    BY <2>1 DEF grow_at
<1>3. G \in [SUBSET U -> SUBSET U]
  <2>. HIDE DEF U
  <2>. QED
    BY <1>2
<1>4. PICK f : Levels(U, children_at(k, t), G, f)
  <2>. HIDE DEF U, G
  <2>. QED
    BY <1>1, <1>3, HasLevels, Zenon
<1>5. Level(f)
  <2>1. \A n \in Nat : f[n] = IF n = 0 THEN children_at(k, t) ELSE grow_at(f[n - 1], t)
    <3>. TAKE n \in Nat
    <3>1. CASE n = 0
      BY <1>4, <3>1 DEF Levels
    <3>2. CASE n # 0
      <4>1. n - 1 \in Nat /\ (n - 1) + 1 = n
        BY <3>2
      <4>2. f[n] = G[f[n - 1]]
        <5>. HIDE DEF G
        <5>. QED
          BY <1>4, <4>1 DEF Levels
      <4>3. f[n - 1] \in SUBSET U
        BY <1>4, <4>1 DEF Levels
      <4>. HIDE DEF U
      <4>. QED
        BY <3>2, <4>2, <4>3
    <3>. QED
      BY <3>1, <3>2
  <2>2. f = [n \in Nat |-> f[n]]
    BY <1>4 DEF Levels
  <2>. QED
    BY <2>1, <2>2, Zenon
<1>6. Level(B)
  <2>. HIDE DEF Level
  <2>. QED
    BY <1>5
<1>7. below_at(k, t) = B[Cardinality(taxonomies)]
  BY Zenon DEF below_at, grow_at
<1>. HIDE DEF B
<1>8. B[0] = children_at(k, t)
  BY <1>6
<1>9. \A n \in Nat : B[n + 1] = grow_at(B[n], t)
  BY <1>6
<1>10. \A n \in Nat : B[n] \in SUBSET U
  <2>. DEFINE Q == {n \in Nat : B[n] \in SUBSET U}
  <2>1. 0 \in Q
    BY <1>1, <1>8
  <2>2. \A n \in Q : n + 1 \in Q
    <3>. HIDE DEF U
    <3>. QED
      BY <1>2, <1>9
  <2>3. Q = Nat
    <3>1. Q \in SUBSET Nat
      OBVIOUS
    <3>. HIDE DEF Q
    <3>. QED
      BY <2>1, <2>2, <3>1, Induction
  <2>. QED
    BY <2>3
<1>11. B \in [Nat -> SUBSET U]
  <2>1. B = [n \in Nat |-> B[n]]
    BY <1>6
  <2>. HIDE DEF U
  <2>. QED
    BY <1>10, <2>1
<1>. QED
  BY <1>7, <1>8, <1>9, <1>11 DEF ChildLevels

in_force(r, t) == r.first <= t /\ t <= r.last

\* The bounds of a window.
LEMMA WindowBounds ==
  ASSUME NEW w \in Windows
  PROVE  /\ coalesce(w[1], 0) \in Int /\ coalesce(w[1], 0) < MaxInt8
         /\ coalesce(w[2], MaxInt8) \in Int
<1>1. /\ w[1] \in Int \cup {NULL} /\ w[2] \in Int \cup {NULL}
      /\ w[1] # NULL => w[1] < MaxInt8
      /\ MaxInt8 \in Nat \ {0}
  BY HierarchyAssumption DEF Windows
<1>. QED
  BY <1>1 DEF coalesce

\* A row of the CTE is in force at some time of the window.
LEMMA RowHasTime ==
  ASSUME HierarchyInv, NEW w \in Windows,
         NEW r \in WindowRow(coalesce(w[1], 0), coalesce(w[2], MaxInt8))
  PROVE  \E t \in times(w[1], w[2]) : in_force(r, t)
<1>. DEFINE from == coalesce(w[1], 0)
            to == coalesce(w[2], MaxInt8)
            t == larger(from, r.first)
            ends == starts(taxonomies) \cup {from}
            horizon == CHOOSE x \in ends : \A y \in ends : y <= x
<1>1. /\ r.first \in Nat /\ r.last \in Int /\ r.first \in starts(taxonomies)
      /\ r.first <= r.last /\ r.first <= to /\ from <= r.last
  BY DEF WindowRow
<1>2. from \in Int /\ to \in Int /\ from < MaxInt8
  BY WindowBounds
<1>3. /\ w[1] # NULL /\ w[2] # NULL => w[1] <= w[2]
      /\ w[2] # NULL => w[2] = to
      /\ w[1] # NULL => w[1] = from
      /\ w[1] = NULL => from = 0
  BY DEF Windows, coalesce
<1>4. horizon \in Int /\ \A y \in ends : y <= horizon
  <2>1. ends \subseteq Int /\ r.first \in ends /\ from \in ends
    BY <1>1, <1>2, ActiveRows
  <2>2. \E x \in ends : \A y \in ends : y <= x
    <3>1. \A y \in starts(taxonomies) : y \in Nat /\ y <= MaxInt8
      BY HierarchyAssumption DEF HierarchyInv, StartsBounded, TaxonomyInv, TaxonomyTypeOK,
                                 TaxRow, starts
    <3>2. PICK m \in starts(taxonomies) : \A y \in starts(taxonomies) : y <= m
      <4>1. starts(taxonomies) \in SUBSET Nat /\ starts(taxonomies) # {}
        BY <1>1, <3>1
      <4>. QED
        BY <3>1, <4>1, BoundedHasLargest, HierarchyAssumption
    <3>3. larger(from, m) \in ends /\ \A y \in ends : y <= larger(from, m)
      BY <1>2, <2>1, <3>1, <3>2 DEF larger
    <3>. QED
      BY <3>3
  <2>. HIDE DEF ends
  <2>. QED
    BY <2>1, <2>2
<1>5. t \in Int /\ from <= t /\ in_force(r, t)
  BY <1>1, <1>2 DEF larger, in_force
<1>6. t <= (IF w[2] = NULL THEN horizon ELSE w[2])
  <2>1. CASE w[2] = NULL
    BY <1>1, <1>2, <1>4, <2>1 DEF larger
  <2>2. CASE w[2] # NULL
    <3>. HIDE DEF from, to
    <3>. QED
      BY <1>1, <1>2, <1>3, <2>2 DEF larger
  <2>. QED
    BY <2>1, <2>2
<1>7. t \in times(w[1], w[2])
  <2>1. times(w[1], w[2]) = from .. (IF w[2] = NULL THEN horizon ELSE w[2])
    BY DEF times
  <2>2. (IF w[2] = NULL THEN horizon ELSE w[2]) \in Int
    <3>. HIDE DEF horizon, from, to
    <3>. QED
      BY <1>2, <1>3, <1>4
  <2>. HIDE DEF horizon, from, t
  <2>. QED
    BY <1>2, <1>5, <1>6, <2>1, <2>2
<1>. HIDE DEF t
<1>. QED
  BY <1>5, <1>7

\* At a time of the window, the links of the rows in force are links of the reference.
LEMMA RowIsBelow ==
  ASSUME HierarchyInv, NEW k, NEW w \in Windows, NEW t \in times(w[1], w[2]),
         NEW S, RowLevels(k, coalesce(w[1], 0), coalesce(w[2], MaxInt8), S),
         NEW B, ChildLevels(k, t, B)
  PROVE  \A n \in Nat : \A r \in S[n] :
           in_force(r, t) => /\ r.parent \in {k} \cup B[n] /\ r.child \in B[n]
                             /\ r.child \in children_at(r.parent, t)
<1>. DEFINE from == coalesce(w[1], 0)
            to == coalesce(w[2], MaxInt8)
            Link(r, n) == /\ r.parent \in {k} \cup B[n] /\ r.child \in B[n]
                          /\ r.child \in children_at(r.parent, t)
            Q == {n \in Nat : \A r \in S[n] : in_force(r, t) => Link(r, n)}
<1>1. /\ S \in [Nat -> SUBSET WindowRow(from, to)]
      /\ S[0] = effective(k, from, to)
      /\ \A n \in Nat : S[n + 1] = extend(S[n], from, to)
  BY DEF RowLevels
<1>2. /\ B \in [Nat -> SUBSET {r.child : r \in taxonomies}]
      /\ B[0] = children_at(k, t)
      /\ \A n \in Nat : B[n + 1] = grow_at(B[n], t)
  BY DEF ChildLevels
<1>3. from \in Int /\ to \in Int /\ from < MaxInt8 /\ t \in Int
  BY WindowBounds, WindowTimes
<1>4. ASSUME NEW p, NEW e \in effective(p, from, to), in_force(e, t)
      PROVE  e.parent = p /\ e.child \in children_at(p, t)
  <2>1. e.parent = p
    BY <1>3, LinkRows
  <2>2. {x.child : x \in {y \in effective(p, from, to) : y.first <= t /\ t <= y.last}}
          = children_at(p, t)
    BY LinksAtTime
  <2>. HIDE DEF from, to
  <2>. QED
    BY <1>4, <2>1, <2>2 DEF in_force
<1>. HIDE DEF from, to
<1>5. 0 \in Q
  BY <1>1, <1>2, <1>4
<1>6. ASSUME NEW n \in Q PROVE n + 1 \in Q
  <2>. SUFFICES ASSUME NEW r \in S[n + 1], in_force(r, t) PROVE Link(r, n + 1)
    OBVIOUS
  <2>1. B[n] \subseteq B[n + 1] /\ \A b \in B[n] : children_at(b, t) \subseteq B[n + 1]
    BY <1>2 DEF grow_at
  <2>2. CASE r \in S[n]
    BY <2>1, <2>2
  <2>3. CASE r \notin S[n]
    <3>0. PICK p \in S[n] : \E c \in effective(p.child, from, to) :
                             overlap(p, c) /\ r = joined(p, c)
      BY <1>1, <2>3 DEF extend
    <3>1. PICK c \in effective(p.child, from, to) : overlap(p, c) /\ r = joined(p, c)
      BY <3>0
    <3>2. /\ p \in WindowRow(from, to) /\ c \in WindowRow(from, to)
          /\ n \in Nat
      BY <1>1, <1>3, LinkRows
    <3>3. in_force(p, t) /\ in_force(c, t)
      BY <1>3, <3>1, <3>2 DEF in_force, joined, larger, smaller, WindowRow
    <3>4. p.child \in B[n]
      BY <3>3
    <3>5. c.child \in children_at(p.child, t)
      BY <1>4, <3>3
    <3>6. r.parent = p.child /\ r.child = c.child
      BY <3>1 DEF joined
    <3>. QED
      BY <2>1, <3>4, <3>5, <3>6
  <2>. QED
    BY <2>2, <2>3
<1>7. Q = Nat
  <2>1. Q \in SUBSET Nat
    OBVIOUS
  <2>. HIDE DEF Q
  <2>. QED
    BY <1>5, <1>6, <2>1, Induction
<1>. QED
  BY <1>7

\* Each stream of the reference is the child of a row in force, and each link below
\* it is a row of the next level.
Covers(S, B, t) ==
  \A n \in Nat :
    /\ \A c \in B[n] : \E r \in S[n] : r.child = c /\ in_force(r, t)
    /\ \A b \in B[n] : \A c \in children_at(b, t) :
         \E r \in S[n + 1] : r.parent = b /\ r.child = c /\ in_force(r, t)

\* At a time of the window, the rows in force cover the reference.
LEMMA BelowIsRow ==
  ASSUME HierarchyInv, NEW k, NEW w \in Windows, NEW t \in times(w[1], w[2]),
         NEW S, RowLevels(k, coalesce(w[1], 0), coalesce(w[2], MaxInt8), S),
         NEW B, ChildLevels(k, t, B)
  PROVE  Covers(S, B, t)
<1>. DEFINE from == coalesce(w[1], 0)
            to == coalesce(w[2], MaxInt8)
            Q == {n \in Nat : \A c \in B[n] : \E r \in S[n] : r.child = c /\ in_force(r, t)}
<1>1. /\ S \in [Nat -> SUBSET WindowRow(from, to)]
      /\ S[0] = effective(k, from, to)
      /\ \A n \in Nat : S[n + 1] = extend(S[n], from, to)
  BY DEF RowLevels
<1>2. /\ B \in [Nat -> SUBSET {r.child : r \in taxonomies}]
      /\ B[0] = children_at(k, t)
      /\ \A n \in Nat : B[n + 1] = grow_at(B[n], t)
  BY DEF ChildLevels
<1>3. from \in Int /\ to \in Int /\ from < MaxInt8 /\ t \in Int
  BY WindowBounds, WindowTimes
<1>4. ASSUME NEW p, NEW c \in children_at(p, t)
      PROVE  \E e \in effective(p, from, to) : e.child = c /\ in_force(e, t)
  <2>1. {x.child : x \in {y \in effective(p, from, to) : y.first <= t /\ t <= y.last}}
          = children_at(p, t)
    BY LinksAtTime
  <2>. HIDE DEF from, to
  <2>. QED
    BY <2>1 DEF in_force
<1>. HIDE DEF from, to
<1>5. ASSUME NEW n \in Q, NEW b \in B[n], NEW c \in children_at(b, t)
      PROVE  \E r \in S[n + 1] : r.parent = b /\ r.child = c /\ in_force(r, t)
  <2>1. PICK p \in S[n] : p.child = b /\ in_force(p, t)
    OBVIOUS
  <2>2. PICK e \in effective(b, from, to) : e.child = c /\ in_force(e, t)
    BY <1>4
  <2>3. p \in WindowRow(from, to) /\ e \in WindowRow(from, to)
    BY <1>1, <1>3, <2>1, LinkRows
  <2>4. overlap(p, e) /\ in_force(joined(p, e), t)
    BY <1>3, <2>1, <2>2, <2>3 DEF overlap, in_force, joined, larger, smaller, WindowRow
  <2>5. joined(p, e) \in S[n + 1]
    BY <1>1, <2>1, <2>2, <2>4 DEF extend
  <2>6. joined(p, e).parent = b /\ joined(p, e).child = c
    BY <2>1, <2>2 DEF joined
  <2>. QED
    BY <2>4, <2>5, <2>6
<1>6. 0 \in Q
  BY <1>1, <1>2, <1>4
<1>7. ASSUME NEW n \in Q PROVE n + 1 \in Q
  <2>. SUFFICES ASSUME NEW c \in B[n + 1]
                PROVE  \E r \in S[n + 1] : r.child = c /\ in_force(r, t)
    OBVIOUS
  <2>1. CASE c \in B[n]
    BY <1>1, <2>1 DEF extend
  <2>2. CASE c \notin B[n]
    <3>1. PICK b \in B[n] : c \in children_at(b, t)
      BY <1>2, <2>2 DEF grow_at
    <3>. QED
      BY <1>5, <3>1
  <2>. QED
    BY <2>1, <2>2
<1>8. Q = Nat
  <2>1. Q \in SUBSET Nat
    OBVIOUS
  <2>. HIDE DEF Q
  <2>. QED
    BY <1>6, <1>7, <2>1, Induction
<1>. QED
  BY <1>5, <1>8 DEF Covers

\* The streams of a category, and those of the reference over the times of the window.
LEMMA BelowInWindow ==
  ASSUME HierarchyInv, NEW k, NEW w \in Windows
  PROVE  {s.child : s \in substreams(k, coalesce(w[1], 0), coalesce(w[2], MaxInt8))}
           = UNION {below_at(k, t) : t \in times(w[1], w[2])}
<1>. DEFINE from == coalesce(w[1], 0)
            to == coalesce(w[2], MaxInt8)
            N == Cardinality(taxonomies)
<1>1. from \in Int /\ to \in Int /\ from < MaxInt8
  BY WindowBounds
<1>2. N \in Nat
  BY FS_CardinalityType DEF HierarchyInv
<1>3. PICK S : RowLevels(k, from, to, S) /\ substreams(k, from, to) = S[N]
  BY <1>1, SubstreamLevels
<1>4. ASSUME NEW s \in S[N] PROVE \E t \in times(w[1], w[2]) : s.child \in below_at(k, t)
  <2>1. s \in WindowRow(from, to)
    BY <1>2, <1>3 DEF RowLevels
  <2>2. PICK t \in times(w[1], w[2]) : in_force(s, t)
    BY <2>1, RowHasTime
  <2>3. PICK B : ChildLevels(k, t, B) /\ below_at(k, t) = B[N]
    BY BelowLevels
  <2>4. \A n \in Nat : \A r \in S[n] : in_force(r, t) => r.child \in B[n]
    BY <1>3, <2>3, RowIsBelow
  <2>. QED
    BY <1>2, <2>2, <2>3, <2>4
<1>5. ASSUME NEW t \in times(w[1], w[2]), NEW c \in below_at(k, t)
      PROVE  \E s \in S[N] : s.child = c
  <2>1. PICK B : ChildLevels(k, t, B) /\ below_at(k, t) = B[N]
    BY BelowLevels
  <2>2. Covers(S, B, t)
    BY <1>3, <2>1, BelowIsRow
  <2>3. \A x \in B[N] : \E r \in S[N] : r.child = x
    BY <1>2, <2>2 DEF Covers
  <2>. QED
    BY <1>3, <2>1, <2>3
<1>. QED
  BY <1>3, <1>4, <1>5

-----------------------------------------------------------------------------
(* Categories and read access                                              *)

LEMMA CategoriesInWindow == HierarchyInv => CategoryIsReachable
<1>. SUFFICES ASSUME HierarchyInv, NEW k \in {x \in DOMAIN streams : ~ is_primitive_stream(x)},
                     NEW w \in Windows
              PROVE  get_category_streams(k, w[1], w[2])
                       = {k} \cup UNION {below_at(k, t) : t \in times(w[1], w[2])}
  BY DEF CategoryIsReachable
<1>. QED
  BY BelowInWindow DEF get_category_streams

\* AGGR01, AGGR03: the streams of a category are those below it at some time of the
\* window, by links all in force then; whatever versions were inserted and disabled,
\* cycles included.
THEOREM CategoriesAreReachable == HierarchySpec => []CategoryIsReachable
<1>1. HierarchySpec => []HierarchyInv
  BY DeployedTyped, BoundedStep, PTL DEF HierarchySpec
<1>. QED
  BY <1>1, CategoriesInWindow, PTL

\* AGGR01, AGGR03: the same while records are inserted between the versions.
THEOREM CategoriesOfComposed == ComposedSpec => []CategoryIsReachable
<1>1. ComposedSpec => []HierarchyInv
  BY DeployedTyped, RecordStep, PTL DEF ComposedSpec
<1>. QED
  BY <1>1, CategoriesInWindow, PTL

\* The rows of the deployed streams are numbered apart, five for each.
LEMMA DeployedWhole == DeployedInit => Integrity
<1>. SUFFICES ASSUME DeployedInit PROVE Integrity
  OBVIOUS
<1>. DEFINE D == DOMAIN Deployed
<1>1. PICK f \in [D -> 0 .. Cardinality(D) - 1] :
        /\ \A x, y \in D : x # y => f[x] # f[y]
        /\ metadata = UNION {DefaultRows(5 * f[k], k, Deployed[k]) : k \in D}
  BY Numbering
<1>2. /\ height = 0 /\ written = 5 * Cardinality(D)
      /\ streams = [k \in D |-> [stream_type |-> Deployed[k], created_at |-> 0]]
  BY DEF DeployedInit
<1>3. Cardinality(D) \in Nat
  BY HierarchyAssumption, FS_CardinalityType
<1>. DEFINE rows(k) == DefaultRows(5 * f[k], k, Deployed[k])
<1>4. ASSUME NEW k \in D
      PROVE  FreshRows(rows(k), 5 * f[k], k) /\ f[k] \in 0 .. Cardinality(D) - 1
  BY <1>1, <1>3, NewRows
<1>5. metadata = UNION {rows(k) : k \in D}
  BY <1>1
<1>6. ASSUME NEW r \in metadata
      PROVE  \E k \in D : r \in rows(k)
  BY <1>5
<1>. HIDE DEF rows, D
<1>7. ASSUME NEW k \in D, NEW r \in rows(k)
      PROVE  /\ r.row_id \in (5 * f[k] + 1) .. (5 * f[k] + 5)
             /\ r.row_id \in 1 .. written
             /\ r.stream = k /\ r.created_at = 0 /\ r.disabled_at = NULL
  BY <1>2, <1>3, <1>4 DEF FreshRows
<1>8. ASSUME NEW r \in metadata
      PROVE  /\ r.row_id \in 1 .. written /\ r.stream \in DOMAIN streams
             /\ r.created_at <= height /\ streams[r.stream].created_at <= r.created_at
             /\ r.disabled_at = NULL
  BY <1>2, <1>6, <1>7
<1>9. ASSUME NEW r \in metadata, NEW q \in metadata, r.row_id = q.row_id
      PROVE  r = q
  <2>1. PICK k \in D, m \in D : r \in rows(k) /\ q \in rows(m)
    BY <1>6
  <2>2. f[k] = f[m]
    <3>1. f[k] \in Int /\ f[m] \in Int
      BY <1>3, <1>4
    <3>2. /\ r.row_id \in (5 * f[k] + 1) .. (5 * f[k] + 5)
          /\ r.row_id \in (5 * f[m] + 1) .. (5 * f[m] + 5)
      BY <1>7, <1>9, <2>1
    <3>. QED
      BY <3>1, <3>2
  <2>3. k = m
    BY <1>1, <2>2
  <2>. QED
    BY <1>4, <1>9, <2>1, <2>3 DEF FreshRows
<1>. QED
  BY <1>8, <1>9 DEF Integrity

\* The rows of metadata are whole as well: the newest of some rows exists.
AccessInv == HierarchyInv /\ Integrity

LEMMA AccessStep == AccessInv /\ [TaxonomyNext]_taxVars => AccessInv'
<1>. SUFFICES ASSUME AccessInv, [TaxonomyNext]_taxVars PROVE Integrity'
  BY BoundedStep DEF AccessInv
<1>1. TypeOK /\ Integrity
  BY DEF AccessInv, HierarchyInv, TaxonomyInv, TaxonomyTypeOK
<1>2. CASE RegistryStep
  BY <1>1, <1>2, IntegrityStep DEF RegistryStep
<1>3. CASE Taxonomise \/ UNCHANGED taxVars
  <2>1. ASSUME NEW c, NEW dp, NEW id, NEW a, insert_taxonomy(c, dp, id, a)
        PROVE  UNCHANGED <<height, streams, metadata, written>>
    BY <2>1, Zenon DEF insert_taxonomy
  <2>2. ASSUME NEW c, NEW dp, NEW id, NEW group, disable_taxonomy(c, dp, id, group)
        PROVE  UNCHANGED <<height, streams, metadata, written>>
    BY <2>2, Zenon DEF disable_taxonomy
  <2>3. UNCHANGED <<height, streams, metadata, written>>
    BY <1>3, <2>1, <2>2, Zenon DEF Taxonomise, taxVars
  <2>. QED
    BY <1>1, <2>3 DEF Integrity
<1>. QED
  BY <1>2, <1>3 DEF TaxonomyNext

\* There is a newest row as soon as there is a row.
LEMMA NewestRow ==
  ASSUME TypeOK, Integrity, NEW k, NEW key, NEW ref, get_metadata(k, key, ref) # {}
  PROVE  get_latest_metadata(k, key, ref) # {}
<1>. DEFINE M == get_metadata(k, key, ref)
            S == {r.created_at : r \in M}
<1>1. \A r \in M : r \in metadata
  BY DEF get_metadata
<1>2. S \in SUBSET Nat /\ S # {} /\ height \in Nat /\ \A s \in S : s <= height
  BY <1>1 DEF Integrity, TypeOK, MetadataRow
<1>3. PICK m \in S : \A s \in S : s <= m
  <2>. HIDE DEF S
  <2>. QED
    BY <1>2, BoundedHasLargest
<1>4. PICK r \in M : r.created_at = m
  OBVIOUS
<1>5. r \in get_latest_metadata(k, key, ref)
  BY <1>3, <1>4 DEF get_latest_metadata
<1>. QED
  BY <1>5

\* is_allowed_to_read and its counterpart of the hierarchy put one stream's answer
\* in two ways, which agree while the visibility is 0 or 1.
LEMMA ReadOfOne ==
  ASSUME TypeOK, Integrity, NEW s, NEW wallet \in Address
  PROVE  LET passes  == private_values(s) # {1} \/ ~ without_permission(s, wallet)
             refuses == 1 \in private_values(s) /\ without_permission(s, wallet)
         IN /\ TRUE \in is_allowed_to_read(s, wallet) => passes
            /\ refuses => FALSE \in is_allowed_to_read(s, wallet)
            /\ private_values(s) \subseteq {NULL, 0, 1} =>
                 /\ passes => TRUE \in is_allowed_to_read(s, wallet)
                 /\ FALSE \in is_allowed_to_read(s, wallet) => refuses
<1>. DEFINE V == private_values(s)
            owner == is_stream_owner(s, wallet)
            granted == get_latest_metadata_ref(s, "allow_read_wallet", wallet) # {NULL}
            answer(v) == \/ owner
                         \/ v \in {NULL, 0}
                         \/ granted
<1>1. is_allowed_to_read(s, wallet) = {answer(v) : v \in V}
  BY Zenon DEF is_allowed_to_read, private_values
<1>2. V # {}
  BY DEF private_values, get_latest_metadata_int
<1>3. granted <=> get_metadata(s, "allow_read_wallet", wallet) # {}
  <2>. DEFINE M == get_metadata(s, "allow_read_wallet", wallet)
              L == get_latest_metadata(s, "allow_read_wallet", wallet)
  <2>1. CASE M = {}
    BY <2>1 DEF get_latest_metadata_ref, get_latest_metadata
  <2>2. CASE M # {}
    <3>1. PICK r \in L : TRUE
      BY <2>2, NewestRow
    <3>2. r.value_ref # NULL
      BY <3>1, TextAssumption DEF get_latest_metadata, get_metadata
    <3>. HIDE DEF L
    <3>3. r.value_ref \in get_latest_metadata_ref(s, "allow_read_wallet", wallet)
      BY <3>1 DEF get_latest_metadata_ref, L
    <3>. QED
      BY <2>2, <3>2, <3>3
  <2>. QED
    BY <2>1, <2>2
<1>4. without_permission(s, wallet) <=> ~ granted /\ ~ owner
  BY <1>3 DEF without_permission
<1>5. TRUE \in is_allowed_to_read(s, wallet) <=> \E v \in V : answer(v)
  <2>. HIDE DEF V
  <2>1. \A v : answer(v) \in BOOLEAN
    OBVIOUS
  <2>. HIDE DEF answer
  <2>. QED
    BY <1>1, <2>1
<1>6. FALSE \in is_allowed_to_read(s, wallet) <=> \E v \in V : ~ answer(v)
  <2>. HIDE DEF V
  <2>1. \A v : answer(v) \in BOOLEAN
    OBVIOUS
  <2>. HIDE DEF answer
  <2>. QED
    BY <1>1, <2>1
<1>7. NULL # 1 /\ NULL # 0
  BY TextAssumption
<1>8. V # {1} <=> \E v \in V : v # 1
  <2>. HIDE DEF V
  <2>. QED
    BY <1>2
<1>9. V \subseteq {NULL, 0, 1} => \A v \in V : v # 1 <=> v \in {NULL, 0}
  BY <1>7
<1>10. \A v : v \in {NULL, 0} => v # 1
  BY <1>7
<1>. DEFINE yes == TRUE \in is_allowed_to_read(s, wallet)
            no == FALSE \in is_allowed_to_read(s, wallet)
            private == without_permission(s, wallet)
            open(v) == v \in {NULL, 0}
<1>11. /\ yes => V # {1} \/ ~ private
       /\ 1 \in V /\ private => no
       /\ V \subseteq {NULL, 0, 1} => /\ V # {1} \/ ~ private => yes
                                      /\ no => 1 \in V /\ private
  <2>1. /\ yes <=> \E v \in V : owner \/ open(v) \/ granted
        /\ no <=> \E v \in V : ~ (owner \/ open(v) \/ granted)
        /\ ~ open(1) /\ \A v : open(v) => v # 1
        /\ V \subseteq {NULL, 0, 1} => \A v \in V : v # 1 <=> open(v)
    BY <1>5, <1>6, <1>7, <1>9, <1>10
  <2>. HIDE DEF V, granted, owner, yes, no, private, open
  <2>. QED
    BY <1>2, <1>4, <1>8, <2>1 DEF private
<1>. QED
  BY <1>11

LEMMA ReadAll == AccessInv => ReadAllIsReadEach
<1>. SUFFICES ASSUME AccessInv, NEW k \in DOMAIN streams, NEW wallet \in Address,
                     NEW w \in Windows
              PROVE  read_agrees(k, wallet, w)
  BY DEF ReadAllIsReadEach
<1>. DEFINE all == {k} \cup UNION {below_at(k, t) : t \in times(w[1], w[2])}
            answers == is_allowed_to_read_all(k, wallet, w[1], w[2])
            passes(s) == private_values(s) # {1} \/ ~ without_permission(s, wallet)
            refuses(s) == 1 \in private_values(s) /\ without_permission(s, wallet)
            may(s) == TRUE \in is_allowed_to_read(s, wallet)
            maynot(s) == FALSE \in is_allowed_to_read(s, wallet)
            binary(s) == private_values(s) \subseteq {NULL, 0, 1}
<1>1. TypeOK /\ Integrity /\ HierarchyInv
  BY DEF AccessInv, HierarchyInv, TaxonomyInv, TaxonomyTypeOK
<1>2. {k} \cup {s.child : s \in substreams(k, coalesce(w[1], 0), coalesce(w[2], MaxInt8))} = all
  BY <1>1, BelowInWindow
<1>3. answers = IF ~ all \subseteq DOMAIN streams THEN {"missing"}
                ELSE (IF \A s \in all : passes(s) THEN {"yes"} ELSE {})
                     \cup (IF \E s \in all : refuses(s) THEN {"no"} ELSE {})
  <2>. HIDE DEF all
  <2>. QED
    BY <1>2, Zenon DEF is_allowed_to_read_all
<1>4. \A s : /\ may(s) => passes(s)
             /\ refuses(s) => maynot(s)
             /\ binary(s) => (passes(s) => may(s)) /\ (maynot(s) => refuses(s))
  BY <1>1, ReadOfOne
<1>5. read_each(all, wallet) = (IF \A s \in all : may(s) THEN {"yes"} ELSE {})
                               \cup (IF \E s \in all : maynot(s) THEN {"no"} ELSE {})
  BY DEF read_each
<1>. HIDE DEF all, answers, passes, refuses, may, maynot, binary
<1>6. IF ~ all \subseteq DOMAIN streams THEN answers = {"missing"}
      ELSE /\ read_each(all, wallet) \cap {"yes"} \subseteq answers
           /\ answers \subseteq read_each(all, wallet) \cup {"yes"}
           /\ (\A s \in all : binary(s)) => answers = read_each(all, wallet)
  BY <1>3, <1>4, <1>5
<1>. QED
  BY <1>6, Zenon DEF all, answers, binary, read_agrees

\* AUTH02: for all windows, wallets and hierarchies the answer for a hierarchy is that
\* of its streams, one by one, where read_visibility is 0 or 1; and where it is not, it
\* never refuses what each of them allows.
THEOREM HierarchyReadIsEachRead == HierarchySpec => []ReadAllIsReadEach
<1>1. DeployedInit => AccessInv
  BY DeployedTyped, DeployedWhole DEF AccessInv
<1>. QED
  BY <1>1, AccessStep, ReadAll, PTL DEF HierarchySpec

-----------------------------------------------------------------------------
(* Who decides on composing                                                *)

\* A transaction leaves the rows of a surviving stream alone, or its owner signed it.
LEMMA RowsFollowOwner ==
  ASSUME TypeOK, TaxonomyNext, NEW k \in DOMAIN streams, k \in DOMAIN streams'
  PROVE  RowsOf(k)' = RowsOf(k) \/ is_stream_owner(k, signer')
<1>1. CASE Manage
  BY <1>1, ManageTouchesOne
<1>2. CASE NextBlock
  BY <1>2 DEF NextBlock, RowsOf
<1>3. CASE \/ \E c \in Callers, id \in StreamIdArgs, t \in TypeArgs : create_stream(c, id, t)
           \/ \E c \in Callers, b \in StreamBatches : create_streams(c, b)
  BY <1>3, CreateTouchesNone
<1>4. CASE Taxonomise
  <2>1. ASSUME NEW c, NEW dp, NEW id, NEW a, insert_taxonomy(c, dp, id, a)
        PROVE  UNCHANGED metadata
    BY <2>1, Zenon DEF insert_taxonomy
  <2>2. ASSUME NEW c, NEW dp, NEW id, NEW group, disable_taxonomy(c, dp, id, group)
        PROVE  UNCHANGED metadata
    BY <2>2, Zenon DEF disable_taxonomy
  <2>3. UNCHANGED metadata
    BY <1>4, <2>1, <2>2, Zenon DEF Taxonomise
  <2>. QED
    BY <2>3 DEF RowsOf
<1>. QED
  BY <1>1, <1>2, <1>3, <1>4, Zenon DEF TaxonomyNext, RegistryStep, RegNext, SingleNext

\* Whether a stream may be composed by another is read off the rows of the two.
LEMMA ComposeOfRows ==
  ASSUME NEW c, NEW p, {c, p} \subseteq DOMAIN streams, {c, p} \subseteq DOMAIN streams',
         RowsOf(c)' = RowsOf(c), RowsOf(p)' = RowsOf(p)
  PROVE  is_allowed_to_compose(c, p)' = is_allowed_to_compose(c, p)
<1>1. ASSUME NEW k, RowsOf(k)' = RowsOf(k)
      PROVE  \A key, ref : get_latest_metadata(k, key, ref)' = get_latest_metadata(k, key, ref)
  <2>1. \A key, ref : get_metadata(k, key, ref)' = get_metadata(k, key, ref)
    <3>. TAKE key, ref
    <3>1. \A r : r \in metadata' /\ r.stream = k <=> r \in metadata /\ r.stream = k
      BY <1>1 DEF RowsOf
    <3>. QED
      BY <3>1 DEF get_metadata
  <2>. QED
    BY <2>1, Zenon DEF get_latest_metadata
<1>2. \A k : RowsOf(k)' = RowsOf(k) =>
        /\ owner_values(k)' = owner_values(k)
        /\ \A key : get_latest_metadata_int(k, key)' = get_latest_metadata_int(k, key)
        /\ \A key, ref : get_latest_metadata_ref(k, key, ref)'
                           = get_latest_metadata_ref(k, key, ref)
  BY <1>1, Zenon DEF owner_values, get_latest_metadata_int, get_latest_metadata_ref
<1>3. /\ owner_values(c)' = owner_values(c) /\ owner_values(p)' = owner_values(p)
      /\ get_latest_metadata_int(c, "compose_visibility")'
           = get_latest_metadata_int(c, "compose_visibility")
      /\ get_latest_metadata_ref(c, "allow_compose_stream", Lower[p[2]])'
           = get_latest_metadata_ref(c, "allow_compose_stream", Lower[p[2]])
  BY <1>2, Zenon
<1>. DEFINE answer(o, q, v, l) ==
              IF NULL \notin {o, q} /\ o # q THEN "other_owner"
              ELSE IF v \in {NULL, 0} \/ l # NULL THEN "yes" ELSE "no"
            V == get_latest_metadata_int(c, "compose_visibility")
            L == get_latest_metadata_ref(c, "allow_compose_stream", Lower[p[2]])
            O == owner_values(c)
            R == owner_values(p)
<1>4. O' = O /\ R' = R /\ V' = V /\ L' = L
  BY <1>3
<1>5. {answer(o, q, v, l) : o \in O, q \in R, v \in V, l \in L}'
        = {answer(o, q, v, l) : o \in O, q \in R, v \in V, l \in L}
  <2>. HIDE DEF answer, O, R, V, L
  <2>. QED
    BY <1>4, SMT
<1>. QED
  BY <1>5, SMT DEF is_allowed_to_compose

\* AUTH04: whether a stream may be composed by another changes by a transaction of an
\* owner of one of them only.
THEOREM ComposingIsTheOwners == HierarchySpec => ComposeFollowsOwner
<1>. DEFINE Compose ==
       \A p, c \in DOMAIN streams \cap DOMAIN streams' :
         \/ is_stream_owner(p, signer') \/ is_stream_owner(c, signer')
         \/ is_allowed_to_compose(c, p)' = is_allowed_to_compose(c, p)
<1>1. TypeOK /\ [TaxonomyNext]_taxVars => [Compose]_taxVars
  <2>. SUFFICES ASSUME TypeOK, TaxonomyNext,
                       NEW p \in DOMAIN streams \cap DOMAIN streams',
                       NEW c \in DOMAIN streams \cap DOMAIN streams',
                       ~ is_stream_owner(p, signer'), ~ is_stream_owner(c, signer')
                PROVE  is_allowed_to_compose(c, p)' = is_allowed_to_compose(c, p)
    BY Zenon
  <2>1. RowsOf(p)' = RowsOf(p) /\ RowsOf(c)' = RowsOf(c)
    BY RowsFollowOwner
  <2>. QED
    BY <2>1, ComposeOfRows
<1>2. HierarchySpec => []TypeOK
  <2>1. HierarchyInv => TypeOK
    BY DEF HierarchyInv, TaxonomyInv, TaxonomyTypeOK
  <2>. QED
    BY <2>1, DeployedTyped, BoundedStep, PTL DEF HierarchySpec
<1>3. ComposeFollowsOwner <=> [][Compose]_taxVars
  BY Zenon DEF ComposeFollowsOwner
<1>. HIDE DEF Compose
<1>. QED
  BY <1>1, <1>2, <1>3, PTL DEF HierarchySpec

-----------------------------------------------------------------------------
(* Composing a hierarchy, link by link                                     *)

\* The reference at a time has come to an end after as many steps as there are
\* taxonomies: each step before that adds a child of one.
LEMMA BelowIsStable ==
  ASSUME HierarchyInv, NEW k, NEW t, NEW B, ChildLevels(k, t, B), Cardinality(taxonomies) # 0
  PROVE  /\ Cardinality(taxonomies) - 1 \in Nat
         /\ B[Cardinality(taxonomies)] = B[Cardinality(taxonomies) - 1]
<1>. DEFINE U == {r.child : r \in taxonomies}
            N == Cardinality(taxonomies)
            Ends(n) == B[n + 1] = B[n] \/ Cardinality(B[n + 1]) >= n + 2
            Q == {n \in Nat : Ends(n)}
<1>1. N \in Nat /\ N - 1 \in Nat
  BY FS_CardinalityType DEF HierarchyInv
<1>2. IsFiniteSet(U) /\ Cardinality(U) <= N
  <2>. DEFINE f == [r \in taxonomies |-> r.child]
  <2>1. DOMAIN f = taxonomies /\ {f[r] : r \in taxonomies} = U
    OBVIOUS
  <2>. HIDE DEF f, U
  <2>. QED
    BY <2>1, ImageFinite DEF HierarchyInv
<1>3. /\ \A n \in Nat : B[n] \in SUBSET U
      /\ \A n \in Nat : B[n + 1] = grow_at(B[n], t)
  BY DEF ChildLevels
<1>. HIDE DEF U
<1>4. \A n \in Nat : IsFiniteSet(B[n]) /\ Cardinality(B[n]) \in Nat /\ Cardinality(B[n]) <= N
  <2>. TAKE n \in Nat
  <2>1. B[n] \in SUBSET U /\ IsFiniteSet(B[n]) /\ Cardinality(B[n]) <= Cardinality(U)
    BY <1>2, <1>3, FS_Subset
  <2>2. Cardinality(B[n]) \in Nat /\ Cardinality(U) \in Nat
    BY <1>2, <2>1, FS_CardinalityType
  <2>. QED
    BY <1>1, <1>2, <2>1, <2>2
<1>5. ASSUME NEW n \in Nat, B[n + 1] # B[n]
      PROVE  Cardinality(B[n + 1]) >= Cardinality(B[n]) + 1
  <2>1. B[n] \in SUBSET B[n + 1] /\ n + 1 \in Nat
    BY <1>3 DEF grow_at
  <2>2. /\ IsFiniteSet(B[n + 1]) /\ Cardinality(B[n + 1]) \in Nat
        /\ Cardinality(B[n]) \in Nat
    BY <1>4, <2>1
  <2>3. Cardinality(B[n]) <= Cardinality(B[n + 1]) /\ Cardinality(B[n + 1]) # Cardinality(B[n])
    BY <1>5, <2>1, <2>2, FS_Subset
  <2>. QED
    BY <2>2, <2>3
<1>6. 0 \in Q
  <2>1. CASE B[0] = {}
    <3>1. B[0 + 1] = B[0]
      BY <1>3, <2>1 DEF grow_at
    <3>. QED
      BY <3>1
  <2>2. CASE B[0] # {}
    <3>1. Cardinality(B[0]) # 0 /\ Cardinality(B[0]) \in Nat
      BY <1>4, <2>2, FS_EmptySet
    <3>2. B[0 + 1] # B[0] => Cardinality(B[0 + 1]) >= Cardinality(B[0]) + 1
      BY <1>5
    <3>3. Cardinality(B[0 + 1]) \in Nat
      BY <1>4
    <3>. QED
      BY <3>1, <3>2, <3>3
  <2>. QED
    BY <2>1, <2>2
<1>7. ASSUME NEW n \in Q PROVE n + 1 \in Q
  <2>1. n \in Nat /\ n + 1 \in Nat /\ (n + 1) + 1 \in Nat
    OBVIOUS
  <2>2. CASE B[n + 1] = B[n]
    <3>1. B[(n + 1) + 1] = B[n + 1]
      BY <1>3, <2>1, <2>2
    <3>. QED
      BY <2>1, <3>1
  <2>3. CASE Cardinality(B[n + 1]) >= n + 2
    <3>1. \/ B[(n + 1) + 1] = B[n + 1]
          \/ Cardinality(B[(n + 1) + 1]) >= Cardinality(B[n + 1]) + 1
      BY <1>5, <2>1
    <3>2. Cardinality(B[n + 1]) \in Nat /\ Cardinality(B[(n + 1) + 1]) \in Nat
      BY <1>4, <2>1
    <3>. HIDE DEF Q
    <3>3. Ends(n + 1)
      BY <2>1, <2>3, <3>1, <3>2
    <3>. HIDE DEF Ends
    <3>. QED
      BY <2>1, <3>3 DEF Q
  <2>. QED
    BY <2>2, <2>3
<1>8. Q = Nat
  <2>1. Q \in SUBSET Nat
    OBVIOUS
  <2>. HIDE DEF Q
  <2>. QED
    BY <1>6, <1>7, <2>1, Induction
<1>9. Ends(N - 1)
  <2>. HIDE DEF Ends
  <2>. QED
    BY <1>1, <1>8
<1>10. (N - 1) + 1 = N /\ Cardinality(B[N]) <= N /\ Cardinality(B[N]) \in Nat
  BY <1>1, <1>4
<1>. QED
  BY <1>1, <1>9, <1>10

\* The links the CTE finds are those of the versions in force, at some time of the
\* window, for the stream and what is below it then.
LEMMA EdgesAreLinks ==
  ASSUME HierarchyInv, NEW k, NEW w \in Windows
  PROVE  edges(k, w[1], w[2]) = links(k, w[1], w[2])
<1>. DEFINE from == coalesce(w[1], 0)
            to == coalesce(w[2], MaxInt8)
            N == Cardinality(taxonomies)
<1>1. from \in Int /\ to \in Int /\ from < MaxInt8
  BY WindowBounds
<1>2. N \in Nat
  BY FS_CardinalityType DEF HierarchyInv
<1>3. PICK S : RowLevels(k, from, to, S) /\ substreams(k, from, to) = S[N]
  BY <1>1, SubstreamLevels
<1>4. \A n \in Nat : S[n] \subseteq S[n + 1]
  BY <1>3 DEF RowLevels, extend
<1>5. S[0] \subseteq S[N]
  <2>. DEFINE Q == {n \in Nat : S[0] \subseteq S[n]}
  <2>1. 0 \in Q /\ \A n \in Q : n + 1 \in Q
    BY <1>4
  <2>2. Q = Nat
    <3>1. Q \in SUBSET Nat
      OBVIOUS
    <3>. HIDE DEF Q
    <3>. QED
      BY <2>1, <3>1, Induction
  <2>. QED
    BY <1>2, <2>2
<1>6. ASSUME NEW s \in S[N]
      PROVE  \E t \in times(w[1], w[2]) : /\ s.parent \in {k} \cup below_at(k, t)
                                          /\ s.child \in children_at(s.parent, t)
  <2>1. s \in WindowRow(from, to)
    BY <1>2, <1>3 DEF RowLevels
  <2>2. PICK t \in times(w[1], w[2]) : in_force(s, t)
    BY <2>1, RowHasTime
  <2>3. PICK B : ChildLevels(k, t, B) /\ below_at(k, t) = B[N]
    BY BelowLevels
  <2>4. \A n \in Nat : \A r \in S[n] :
          in_force(r, t) => /\ r.parent \in {k} \cup B[n] /\ r.child \in B[n]
                            /\ r.child \in children_at(r.parent, t)
    BY <1>3, <2>3, RowIsBelow
  <2>. QED
    BY <1>2, <2>2, <2>3, <2>4
<1>7. ASSUME NEW t \in times(w[1], w[2]), NEW p \in {k} \cup below_at(k, t),
             NEW c \in children_at(p, t)
      PROVE  \E s \in S[N] : s.parent = p /\ s.child = c
  <2>1. PICK B : ChildLevels(k, t, B) /\ below_at(k, t) = B[N]
    BY BelowLevels
  <2>2. CASE p = k
    <3>1. {x.child : x \in {y \in effective(k, from, to) : y.first <= t /\ t <= y.last}}
            = children_at(k, t)
      BY LinksAtTime
    <3>2. PICK e \in effective(k, from, to) : e.child = c
      <4>. HIDE DEF from, to
      <4>. QED
        BY <2>2, <3>1
    <3>3. e.parent = k
      BY <1>1, LinkRows
    <3>4. e \in S[N]
      BY <1>3, <1>5 DEF RowLevels
    <3>. QED
      BY <2>2, <3>2, <3>3, <3>4
  <2>3. CASE p \in B[N]
    <3>1. N # 0
      <4>1. taxonomies # {}
        BY DEF children_at, version_at, active, taxonomies_of
      <4>. QED
        BY <4>1, FS_EmptySet DEF HierarchyInv
    <3>2. N - 1 \in Nat /\ B[N] = B[N - 1] /\ (N - 1) + 1 = N
      BY <1>2, <2>1, <3>1, BelowIsStable
    <3>3. Covers(S, B, t)
      BY <1>3, <2>1, BelowIsRow
    <3>4. p \in B[N - 1]
      BY <2>3, <3>2
    <3>5. \E s \in S[(N - 1) + 1] : s.parent = p /\ s.child = c /\ in_force(s, t)
      <4>. HIDE DEF N
      <4>. QED
        BY <3>2, <3>3, <3>4 DEF Covers
    <3>. QED
      BY <3>2, <3>5
  <2>. QED
    BY <2>1, <2>2, <2>3
<1>8. edges(k, w[1], w[2]) = {<<s.parent, s.child>> : s \in S[N]}
  BY <1>3 DEF edges
<1>9. ASSUME NEW e \in edges(k, w[1], w[2]) PROVE e \in links(k, w[1], w[2])
  <2>1. PICK s \in S[N] : e = <<s.parent, s.child>>
    BY <1>8
  <2>2. PICK t \in times(w[1], w[2]) : /\ s.parent \in {k} \cup below_at(k, t)
                                       /\ s.child \in children_at(s.parent, t)
    BY <1>6
  <2>. QED
    BY <2>1, <2>2 DEF links
<1>10. ASSUME NEW e \in links(k, w[1], w[2]) PROVE e \in edges(k, w[1], w[2])
  <2>1. PICK t \in times(w[1], w[2]) :
          e \in UNION {{p} \X children_at(p, t) : p \in {k} \cup below_at(k, t)}
    BY DEF links
  <2>2. PICK p \in {k} \cup below_at(k, t) : e \in {p} \X children_at(p, t)
    BY <2>1
  <2>3. PICK c \in children_at(p, t) : e = <<p, c>>
    BY <2>2
  <2>4. PICK s \in S[N] : s.parent = p /\ s.child = c
    BY <1>7
  <2>. QED
    BY <1>8, <2>3, <2>4
<1>. QED
  BY <1>9, <1>10

\* The references in rows are lower-case, so that the lists of streams a stream admits
\* are compared as they are written.
RefsLower == \A r \in metadata : r.value_ref # NULL => Lower[r.value_ref] = r.value_ref

\* Streams created one at a time have one owner besides.
ComposeInv == AccessInv /\ OwnerInv /\ RefsLower

LEMMA DeployedOwned == DeployedInit => ComposeInv
<1>. SUFFICES ASSUME DeployedInit PROVE ComposeInv
  OBVIOUS
<1>. DEFINE D == DOMAIN Deployed
<1>1. AccessInv /\ TypeOK /\ Integrity
  BY DeployedTyped, DeployedWhole DEF AccessInv, HierarchyInv, TaxonomyInv, TaxonomyTypeOK
<1>2. PICK f \in [D -> 0 .. Cardinality(D) - 1] :
        metadata = UNION {DefaultRows(5 * f[k], k, Deployed[k]) : k \in D}
  BY Numbering
<1>. DEFINE rows(k) == DefaultRows(5 * f[k], k, Deployed[k])
            owner(k) == Row(5 * f[k] + 2, k, "stream_owner", NULL, NULL, Lower[k[1]])
            mark(k) == Row(5 * f[k] + 4, k, "readonly_key", NULL, "stream_owner", NULL)
<1>3. metadata = UNION {rows(k) : k \in D} /\ DOMAIN streams = D /\ D \subseteq Key
  BY <1>2, HierarchyAssumption DEF DeployedInit
<1>4. ASSUME NEW k \in D
      PROVE  /\ owner(k) \in rows(k) /\ mark(k) \in rows(k)
             /\ \A r \in rows(k) : /\ r.stream = k
                                   /\ r.metadata_key = "stream_owner" => r = owner(k)
                                   /\ r.value_ref \in {NULL, Lower[k[1]]}
  BY DEF DefaultRows, Row
<1>5. ASSUME NEW k \in D
      PROVE  /\ owner(k).stream = k /\ owner(k).metadata_key = "stream_owner"
             /\ owner(k).disabled_at = NULL /\ owner(k).value_ref = Lower[k[1]]
             /\ mark(k).stream = k /\ mark(k).metadata_key = "readonly_key"
             /\ mark(k).value_s = "stream_owner"
  BY DEF Row
<1>6. ASSUME NEW k \in D PROVE Lower[k[1]] \in Address /\ Lower[Lower[k[1]]] = Lower[k[1]]
  BY <1>3, TextAssumption DEF Key
<1>. HIDE DEF rows, owner, mark, D
<1>7. ASSUME NEW k \in D PROVE one_owner(k) /\ is_readonly(k, "stream_owner")
  <2>1. owner(k) \in metadata /\ mark(k) \in metadata
    BY <1>3, <1>4
  <2>2. \A q \in metadata : q.stream = k /\ q.metadata_key = "stream_owner" => q = owner(k)
    BY <1>3, <1>4
  <2>. QED
    BY <1>5, <1>6, <2>1, <2>2 DEF one_owner, is_readonly
<1>8. RefsLower
  BY <1>3, <1>4, <1>6 DEF RefsLower
<1>. QED
  BY <1>1, <1>3, <1>7, <1>8 DEF ComposeInv, OwnerInv, SoleOwner

\* The actions write references in lower case.
LEMMA RefsStep == TypeOK /\ RefsLower /\ RegNext => RefsLower'
<1>. SUFFICES ASSUME TypeOK, RefsLower, RegNext PROVE RefsLower'
  OBVIOUS
<1>. DEFINE low(r) == r.value_ref # NULL => Lower[r.value_ref] = r.value_ref
<1>1. \A r \in metadata : low(r)
  BY DEF RefsLower
<1>. SUFFICES ASSUME NEW r \in metadata' PROVE low(r)
  BY DEF RefsLower
<1>2. ASSUME NEW c \in Callers, NEW id \in StreamIdArgs, NEW t \in TypeArgs,
             create_stream(c, id, t)
      PROVE  low(r)
  <2>. DEFINE k == <<Lower[c], id>>
  <2>1. metadata' = metadata \cup DefaultRows(written, k, t)
    BY <1>2, Zenon DEF create_stream
  <2>2. \A q \in DefaultRows(written, k, t) : q.value_ref \in {NULL, Lower[Lower[c]]}
    BY DEF DefaultRows, Row
  <2>. QED
    BY <1>1, <2>1, <2>2, TextAssumption, InputAssumption
<1>3. ASSUME NEW c \in Callers, NEW b \in StreamBatches, create_streams(c, b)
      PROVE  low(r)
  <2>. DEFINE rows(i) == BatchDefaultRows(written + 5 * (i - 1), <<Lower[c], b.stream_ids[i]>>,
                                          b.stream_types[i])
  <2>1. metadata' = metadata \cup UNION {rows(i) : i \in DOMAIN b.stream_ids}
    BY <1>3, Zenon DEF create_streams
  <2>2. \A i : \A q \in rows(i) : q.value_ref \in {NULL, Lower[Lower[c]]}
    BY DEF BatchDefaultRows, Row
  <2>. HIDE DEF rows
  <2>. QED
    BY <1>1, <2>1, <2>2, TextAssumption, InputAssumption
<1>4. ASSUME NEW c \in Callers, NEW dp \in ProviderArgs, NEW id \in StreamIdArgs,
             NEW a \in MetadataArgs, insert_metadata(c, dp, id, a)
      PROVE  low(r)
  <2>. DEFINE q == Row(written + 1, <<Lower[dp], id>>, a.key,
                       IF a.val_type = "int" THEN IntOf[a.value] ELSE NULL,
                       IF a.val_type = "string" THEN a.value ELSE NULL,
                       IF a.val_type = "ref" THEN Lower[a.value] ELSE NULL)
  <2>1. metadata' = metadata \cup {q}
    BY <1>4, Zenon DEF insert_metadata
  <2>2. q.value_ref \in {NULL, Lower[a.value]}
    BY DEF Row
  <2>. HIDE DEF q
  <2>. QED
    BY <1>1, <2>1, <2>2, TextAssumption, InputAssumption
<1>5. ASSUME NEW c \in Callers, NEW dp \in ProviderArgs, NEW id \in StreamIdArgs,
             NEW n \in 1 .. written, disable_metadata(c, dp, id, n)
      PROVE  low(r)
  <2>. DEFINE new(q) == IF q.row_id = n /\ q.stream = <<Lower[dp], id>>
                        THEN [q EXCEPT !.disabled_at = height] ELSE q
  <2>1. metadata' = {new(q) : q \in metadata}
    BY <1>5, Zenon DEF disable_metadata
  <2>2. \A q \in metadata : new(q).value_ref = q.value_ref
    BY DEF TypeOK, MetadataRow
  <2>. HIDE DEF new
  <2>. QED
    BY <1>1, <2>1, <2>2
<1>6. ASSUME NEW c \in Callers, NEW dp \in ProviderArgs, NEW id \in StreamIdArgs,
             delete_stream(c, dp, id)
      PROVE  low(r)
  BY <1>1, <1>6 DEF delete_stream, cascade
<1>7. ASSUME NEW c \in Callers, NEW dp \in ProviderArgs, NEW id \in StreamIdArgs,
             NEW to \in ProviderArgs, transfer_stream_ownership(c, dp, id, to)
      PROVE  low(r)
  <2>. DEFINE new(q) == IF q.stream = <<Lower[dp], id>> /\ q.metadata_key = "stream_owner"
                        THEN [q EXCEPT !.value_ref = Lower[to]] ELSE q
  <2>1. metadata' = {new(q) : q \in metadata}
    BY <1>7, Zenon DEF transfer_stream_ownership
  <2>2. \A q \in metadata : new(q).value_ref \in {q.value_ref, Lower[to]}
    BY DEF TypeOK, MetadataRow
  <2>. HIDE DEF new
  <2>. QED
    BY <1>1, <2>1, <2>2, TextAssumption, InputAssumption
<1>8. CASE NextBlock
  BY <1>1, <1>8 DEF NextBlock
<1>. HIDE DEF low
<1>. QED
  BY <1>2, <1>3, <1>4, <1>5, <1>6, <1>7, <1>8 DEF RegNext, SingleNext, Manage

LEMMA ComposeStep ==
  ASSUME StreamBatches = {}
  PROVE  ComposeInv /\ [TaxonomyNext]_taxVars => ComposeInv'
<1>. SUFFICES ASSUME ComposeInv, [TaxonomyNext]_taxVars PROVE ComposeInv'
  OBVIOUS
<1>1. AccessInv /\ TypeOK /\ AccessInv'
  BY AccessStep DEF ComposeInv, OwnerInv
<1>2. CASE RegistryStep
  <2>1. SingleNext /\ RegNext
    BY <1>2 DEF RegistryStep, RegNext
  <2>. QED
    BY <1>1, <2>1, OwnerStep, RefsStep DEF ComposeInv
<1>3. CASE Taxonomise \/ UNCHANGED taxVars
  <2>1. ASSUME NEW c, NEW dp, NEW id, NEW a, insert_taxonomy(c, dp, id, a)
        PROVE  UNCHANGED <<height, streams, metadata, written>>
    BY <2>1, Zenon DEF insert_taxonomy
  <2>2. ASSUME NEW c, NEW dp, NEW id, NEW group, disable_taxonomy(c, dp, id, group)
        PROVE  UNCHANGED <<height, streams, metadata, written>>
    BY <2>2, Zenon DEF disable_taxonomy
  <2>3. UNCHANGED <<height, streams, metadata, written>>
    BY <1>3, <2>1, <2>2, Zenon DEF Taxonomise, taxVars
  <2>4. TypeOK' /\ Integrity'
    BY <1>1 DEF AccessInv, HierarchyInv, TaxonomyInv, TaxonomyTypeOK
  <2>. QED
    BY <1>1, <2>3, <2>4
       DEF ComposeInv, OwnerInv, SoleOwner, one_owner, is_readonly, RefsLower
<1>. QED
  BY <1>2, <1>3 DEF TaxonomyNext

\* The one owner is what both queries read.
LEMMA OwnerRead ==
  ASSUME ComposeInv, NEW k \in DOMAIN streams
  PROVE  \E o \in Address : /\ owner_values(k) = {o}
                            /\ \A a \in Address : is_stream_owner(k, a) <=> a = o
<1>1. PICK r \in metadata :
        /\ r.stream = k /\ r.metadata_key = "stream_owner"
        /\ r.disabled_at = NULL /\ r.value_ref \in Address
        /\ \A q \in metadata : q.stream = k /\ q.metadata_key = "stream_owner" => q = r
  BY DEF ComposeInv, OwnerInv, SoleOwner, one_owner
<1>2. r.value_ref # NULL /\ Lower[r.value_ref] = r.value_ref
  BY <1>1, TextAssumption
<1>3. get_metadata(k, "stream_owner", NULL) = {r}
  BY <1>1 DEF get_metadata
<1>4. r.created_at <= r.created_at
  BY <1>1 DEF ComposeInv, OwnerInv, TypeOK, MetadataRow
<1>5. owner_values(k) = {r.value_ref}
  BY <1>3, <1>4 DEF owner_values, get_latest_metadata_ref, get_latest_metadata
<1>6. \A a \in Address : get_metadata(k, "stream_owner", a) = {q \in {r} : r.value_ref = a}
  BY <1>1, <1>2, TextAssumption DEF get_metadata
<1>7. \A a \in Address : is_stream_owner(k, a) <=> a = r.value_ref
  BY <1>6 DEF is_stream_owner
<1>. QED
  BY <1>1, <1>5, <1>7

\* A stream lists another by its id.
LEMMA ListRead ==
  ASSUME ComposeInv, NEW p \in Key, NEW c
  PROVE  lists(p, c) <=> get_metadata(c, "allow_compose_stream", Lower[p[2]]) # {}
<1>1. Lower[p[2]] = p[2] /\ p[2] \in Text /\ p[2] # NULL
  BY IdAssumption, TextAssumption DEF Key
<1>2. \A r \in metadata : r.value_ref # NULL => Lower[r.value_ref] = r.value_ref
  BY DEF ComposeInv, RefsLower
<1>. QED
  BY <1>1, <1>2 DEF lists, get_metadata

LEMMA ComposeAll == ComposeInv => ComposeAllIsEachLink
<1>. SUFFICES ASSUME ComposeInv, NEW k \in DOMAIN streams, NEW w \in Windows
              PROVE  is_allowed_to_compose_all(k, w[1], w[2])
                       = IF \E l \in links(k, w[1], w[2]) : l[2] \notin DOMAIN streams
                         THEN {"missing"} ELSE compose_each(links(k, w[1], w[2]))
  BY DEF ComposeAllIsEachLink
<1>. DEFINE L == links(k, w[1], w[2])
            private(c) == get_latest_metadata_int(c, "compose_visibility")
            may_block(e) == /\ 1 \in private(e[2])
                            /\ ~ lists(e[1], e[2])
                            /\ may_be_distinct(e[1], e[2])
            must_block(e) == /\ private(e[2]) = {1}
                             /\ ~ lists(e[1], e[2])
                             /\ owner_values(e[1]) \cap owner_values(e[2]) = {}
<1>1. HierarchyInv /\ TypeOK
  BY DEF ComposeInv, AccessInv, OwnerInv
<1>2. edges(k, w[1], w[2]) = L
  BY <1>1, EdgesAreLinks
<1>3. is_allowed_to_compose_all(k, w[1], w[2])
        = IF \E e \in L : e[2] \notin DOMAIN streams THEN {"missing"}
          ELSE (IF \A e \in L : ~ must_block(e) THEN {"yes"} ELSE {})
               \cup (IF \E e \in L : may_block(e) THEN {"no"} ELSE {})
  <2>. HIDE DEF L
  <2>. QED
    BY <1>2, Zenon DEF is_allowed_to_compose_all
<1>4. compose_each(L) = (IF \A l \in L : link_permitted(l) \/ private(l[2]) # {1} THEN {"yes"} ELSE {})
                        \cup (IF \E l \in L : ~ link_permitted(l) /\ 1 \in private(l[2])
                              THEN {"no"} ELSE {})
  BY DEF compose_each
<1>5. ASSUME NEW l \in L, l[2] \in DOMAIN streams
      PROVE  /\ ~ must_block(l) <=> link_permitted(l) \/ private(l[2]) # {1}
             /\ may_block(l) <=> ~ link_permitted(l) /\ 1 \in private(l[2])
  <2>1. l[1] \in DOMAIN streams /\ l[1] \in Key
    <3>1. PICK t \in times(w[1], w[2]) :
            l \in UNION {{p} \X children_at(p, t) : p \in {k} \cup below_at(k, t)}
      BY DEF links
    <3>2. PICK p \in {k} \cup below_at(k, t) : l \in {p} \X children_at(p, t)
      BY <3>1
    <3>3. l[1] = p /\ children_at(p, t) # {}
      BY <3>2
    <3>4. PICK r \in taxonomies : r.stream = p
      BY <3>3 DEF children_at, version_at, active, taxonomies_of
    <3>. QED
      BY <1>1, <3>3, <3>4 DEF HierarchyInv, TaxonomyInv, VersionsWhole, TypeOK
  <2>2. PICK o \in Address : /\ owner_values(l[1]) = {o}
                             /\ \A a \in Address : is_stream_owner(l[1], a) <=> a = o
    BY <2>1, OwnerRead
  <2>3. PICK q \in Address : /\ owner_values(l[2]) = {q}
                             /\ \A a \in Address : is_stream_owner(l[2], a) <=> a = q
    BY <1>5, OwnerRead
  <2>4. /\ may_be_distinct(l[1], l[2]) <=> o # q
        /\ owner_values(l[1]) \cap owner_values(l[2]) = {} <=> o # q
    BY <2>2, <2>3 DEF may_be_distinct
  <2>5. link_permitted(l) <=> o = q \/ lists(l[1], l[2])
    BY <2>1, <2>2, <2>3, ListRead DEF link_permitted
  <2>. HIDE DEF private
  <2>. QED
    BY <2>4, <2>5
<1>. HIDE DEF L, private, may_block, must_block
<1>6. CASE \E l \in L : l[2] \notin DOMAIN streams
  BY <1>3, <1>6 DEF L
<1>7. CASE \A l \in L : l[2] \in DOMAIN streams
  <2>1. is_allowed_to_compose_all(k, w[1], w[2]) = compose_each(L)
    BY <1>3, <1>4, <1>5, <1>7
  <2>. QED
    BY <1>7, <2>1 DEF L
<1>. QED
  BY <1>6, <1>7

\* AUTH04: where streams are created one at a time, a hierarchy may be composed when
\* each of its links is permitted or open, for every window.  (create_streams leaves
\* the owner's row writable, and an owner may then write several.)
THEOREM HierarchyComposeIsEachLink ==
  ASSUME StreamBatches = {}
  PROVE  HierarchySpec => []ComposeAllIsEachLink
BY DeployedOwned, ComposeStep, ComposeAll, PTL DEF HierarchySpec
=============================================================================
