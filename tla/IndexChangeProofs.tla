-------------------------- MODULE IndexChangeProofs --------------------------
(***************************************************************************)
(* get_index_change returns the changes it should, for every series, every *)
(* window and every interval: the two-pointer pass finds, for each date,   *)
(* the last record at or before the date an interval earlier.              *)
(***************************************************************************)
EXTENDS IndexChange, WellFoundedInduction, TLAPS

-----------------------------------------------------------------------------
(* Least and greatest members                                              *)

\* A relation that is well-founded on the naturals and holds of smaller numbers has
\* a minimum in every set.
LEMMA MinimumOf ==
  ASSUME NEW S \in SUBSET Nat, S # {}, NEW R, IsWellFoundedOn(R, Nat),
         \A x, y \in Nat : y < x => <<y, x>> \in R
  PROVE  \E m \in S : \A k \in S : m <= k
<1>1. PICK m \in S : \A k \in S : ~ (<<k, m>> \in R)
  BY WFMin, Zenon
<1>2. \A k \in S : ~ (k < m)
  BY <1>1
<1>. QED
  BY <1>2

\* A set of naturals has a least member.
LEMMA Least ==
  ASSUME NEW S \in SUBSET Nat, S # {}
  PROVE  \E m \in S : \A k \in S : m <= k
<1>1. IsWellFoundedOn(OpToRel(<, Nat), Nat)
  BY NatLessThanWellFounded, Zenon
<1>2. \A x, y \in Nat : y < x => <<y, x>> \in OpToRel(<, Nat)
  BY DEF OpToRel
<1>. QED
  BY <1>1, <1>2, MinimumOf

\* A bounded set of naturals has a greatest member.
LEMMA Greatest ==
  ASSUME NEW N \in Nat, NEW S \in SUBSET (1 .. N), S # {}
  PROVE  \E m \in S : \A k \in S : k <= m
<1>. DEFINE D == {N - k : k \in S}
<1>1. D \in SUBSET Nat
  <2>1. \A k \in S : k \in 1 .. N /\ N - k \in Nat
    OBVIOUS
  <2>. QED
    BY <2>1
<1>a. D # {}
  OBVIOUS
<1>2. PICK d \in D : \A e \in D : d <= e
  BY <1>1, <1>a, Least
<1>3. PICK m \in S : d = N - m
  OBVIOUS
<1>4. \A k \in S : N - m <= N - k
  BY <1>2, <1>3
<1>. QED
  BY <1>4

-----------------------------------------------------------------------------
(* Series and their slices                                                 *)

\* The times of a series ascend.
LEMMA SeriesFacts ==
  ASSUME series \in Series
  PROVE  /\ series \in Seq(Record) /\ Len(series) \in Nat
         /\ DOMAIN series = 1 .. Len(series)
         /\ \A n \in DOMAIN series : series[n] \in Record /\ series[n].event_time \in Int
         /\ \A m, n \in DOMAIN series :
              m <= n => series[m].event_time <= series[n].event_time
         /\ \A m, n \in DOMAIN series :
              m < n => series[m].event_time < series[n].event_time
<1>1. series \in Seq(Record)
  BY SeriesAssumption DEF Record
<1>2. \A m, n \in DOMAIN series : m < n => series[m].event_time < series[n].event_time
  BY SeriesAssumption, Zenon
<1>3. \A n \in DOMAIN series : series[n] \in Record
  BY <1>1
<1>4. \A r \in Record : r.event_time \in Int
  <2>1. Times \subseteq Int
    BY SeriesAssumption
  <2>. QED
    BY <2>1 DEF Record
<1>5. \A m, n \in DOMAIN series : m <= n => series[m].event_time <= series[n].event_time
  BY <1>1, <1>2, <1>3, <1>4
<1>. QED
  BY <1>1, <1>2, <1>3, <1>4, <1>5

\* q is the part of the series from a to b.
slice(q, a, b) ==
  /\ a \in DOMAIN series /\ b \in DOMAIN series /\ a <= b
  /\ q \in Seq(Record) /\ Len(q) = b - a + 1
  /\ \A n \in 1 .. Len(q) : q[n] = series[n + a - 1]

\* What get_index returns is empty or a slice, bounded by the rows it asked for.
LEMMA IndexIsSlice ==
  ASSUME series \in Series, NEW lo, NEW hi
  PROVE  \/ index_rows(lo, hi) = {} /\ get_index(lo, hi) = <<>>
         \/ \E a, b \in index_rows(lo, hi) :
              /\ slice(get_index(lo, hi), a, b)
              /\ \A n \in index_rows(lo, hi) : a <= n /\ n <= b
<1>. DEFINE R == index_rows(lo, hi)
<1>1. R \subseteq DOMAIN series
  BY SeriesFacts DEF index_rows
<1>2. CASE R = {}
  BY <1>2 DEF get_index
<1>3. CASE R # {}
  <2>. DEFINE a == CHOOSE n \in R : \A m \in R : n <= m
              b == CHOOSE n \in R : \A m \in R : m <= n
  <2>1. R \in SUBSET (1 .. Len(series)) /\ Len(series) \in Nat
    BY <1>1, SeriesFacts
  <2>2. a \in R /\ \A m \in R : a <= m
    <3>1. \E n \in R : \A m \in R : n <= m
      BY <2>1, <1>3, Least
    <3>. QED
      BY <3>1
  <2>3. b \in R /\ \A m \in R : m <= b
    <3>1. \E n \in R : \A m \in R : m <= n
      BY <2>1, <1>3, Greatest
    <3>. QED
      BY <3>1
  <2>4. get_index(lo, hi) = SubSeq(series, a, b)
    BY <1>3 DEF get_index
  <2>. HIDE DEF a, b, R
  <2>5. a \in 1 .. Len(series) /\ b \in 1 .. Len(series) /\ a <= b
    BY <2>1, <2>2, <2>3
  <2>6. slice(SubSeq(series, a, b), a, b)
    <3>1. /\ SubSeq(series, a, b) \in Seq(Record)
          /\ Len(SubSeq(series, a, b)) = b - a + 1
          /\ \A n \in 1 .. b - a + 1 : SubSeq(series, a, b)[n] = series[n + a - 1]
      BY <2>5, <2>1, SeriesFacts
    <3>. QED
      BY <3>1, <2>5, SeriesFacts DEF slice
  <2>. QED
    BY <2>2, <2>3, <2>4, <2>6 DEF R
<1>. QED
  BY <1>2, <1>3

\* The window read for the earlier dates leaves out no record that matters: none is
\* at or before hi past its end, and it begins with the first record of the series
\* or with one at or before lo.
LEMMA EarlierSlice ==
  ASSUME series \in Series, NEW lo \in Int, NEW hi \in Int
  PROVE  \/ /\ get_index(lo, hi) = <<>>
            /\ \A n \in DOMAIN series : series[n].event_time > hi
         \/ \E a, b \in DOMAIN series :
              /\ slice(get_index(lo, hi), a, b)
              /\ a = 1 \/ series[a].event_time <= lo
              /\ \A n \in DOMAIN series : n > b => series[n].event_time > hi
<1>. DEFINE A == {n \in DOMAIN series : series[n].event_time <= lo}
            I == {n \in DOMAIN series : lo < series[n].event_time /\ series[n].event_time <= hi}
            R == index_rows(lo, hi)
<1>1. lo # NULL /\ hi # NULL
  BY SeriesAssumption
<1>2. R = {n \in A : \A m \in A : m <= n} \cup I
  BY <1>1 DEF index_rows, coalesce
<1>3. \A n \in A : \E k \in R : k \in A /\ n <= k
  <2>1. SUFFICES ASSUME A # {}
                 PROVE  \E k \in A : \A m \in A : m <= k
    BY <1>2
  <2>2. A \in SUBSET (1 .. Len(series)) /\ Len(series) \in Nat
    BY SeriesFacts
  <2>. QED
    BY <2>1, <2>2, Greatest
<1>4. \A n \in DOMAIN series : n \in A \/ n \in I \/ series[n].event_time > hi
  BY SeriesFacts
<1>5. I \subseteq R /\ R \subseteq A \cup I
  BY <1>2
<1>. HIDE DEF R
<1>6. CASE R = {} /\ get_index(lo, hi) = <<>>
  BY <1>6, <1>3, <1>4, <1>5
<1>7. ASSUME NEW a \in R, NEW b \in R, slice(get_index(lo, hi), a, b),
             \A n \in R : a <= n /\ n <= b
      PROVE  \E c, d \in DOMAIN series :
               /\ slice(get_index(lo, hi), c, d)
               /\ c = 1 \/ series[c].event_time <= lo
               /\ \A n \in DOMAIN series : n > d => series[n].event_time > hi
  <2>1. a \in DOMAIN series /\ b \in DOMAIN series
    BY <1>7 DEF slice
  <2>2. a = 1 \/ series[a].event_time <= lo
    <3>1. SUFFICES ASSUME a # 1, ~ (series[a].event_time <= lo)
                   PROVE  FALSE
      OBVIOUS
    <3>a. a \in I
      BY <3>1, <1>5
    <3>b. 1 \in DOMAIN series /\ 1 < a
      BY <3>1, <2>1, SeriesFacts
    <3>2. a \in I /\ 1 \in DOMAIN series /\ 1 < a
      BY <3>a, <3>b
    <3>3. 1 \notin I
      <4>1. 1 \in R => a <= 1
        BY <1>7
      <4>. QED
        BY <4>1, <3>b, <2>1, <1>5, SeriesFacts
    <3>4. series[1].event_time <= series[a].event_time
      BY <3>2, <2>1, SeriesFacts
    <3>5. 1 \in A
      BY <3>2, <3>3, <3>4, <2>1, SeriesFacts
    <3>6. PICK k \in R : k \in A
      BY <3>5, <1>3
    <3>7. a <= k /\ series[a].event_time <= series[k].event_time
      BY <3>6, <1>7, <2>1, SeriesFacts
    <3>. QED
      BY <3>1, <3>6, <3>7, <2>1, SeriesFacts
  <2>3. ASSUME NEW n \in DOMAIN series, n > b
        PROVE  series[n].event_time > hi
    <3>1. n \notin I
      BY <2>3, <2>1, <1>5, <1>7, SeriesFacts
    <3>2. n \notin A
      <4>1. SUFFICES ASSUME NEW k \in R, n <= k, k \in A
                     PROVE  FALSE
        BY <1>3
      <4>2. k <= b
        BY <1>7
      <4>. QED
        BY <4>1, <4>2, <2>3, <2>1, SeriesFacts
    <3>. QED
      BY <3>1, <3>2, <1>4
  <2>. QED
    BY <2>1, <2>2, <2>3, <1>7
<1>. QED
  BY <1>6, <1>7, IndexIsSlice DEF R

-----------------------------------------------------------------------------
(* What the pass compares                                                  *)

\* The dates read first are a part of the series.
a_slice == \E a, b \in DOMAIN series : slice(current, a, b)

\* The earlier dates are a part of the series that leaves out nothing the pass needs.
earlier ==
  \E c, d \in DOMAIN series :
    /\ slice(prev, c, d)
    /\ c = 1 \/ series[c].event_time <= current[1].event_time - interval
    /\ \A n \in DOMAIN series :
         n > d => series[n].event_time > current[Len(current)].event_time - interval

\* The dates of a slice ascend.
LEMMA SliceFacts ==
  ASSUME series \in Series, NEW q, NEW a, NEW b, slice(q, a, b)
  PROVE  /\ q \in Seq(Record) /\ Len(q) \in Nat \ {0} /\ DOMAIN q = 1 .. Len(q)
         /\ \A n \in DOMAIN q : q[n] \in Record /\ q[n].event_time \in Int
         /\ \A m, n \in DOMAIN q : m <= n => q[m].event_time <= q[n].event_time
         /\ \A m, n \in DOMAIN q : m < n => q[m].event_time < q[n].event_time
<1>1. /\ a \in 1 .. Len(series) /\ b \in 1 .. Len(series) /\ a <= b /\ Len(series) \in Nat
      /\ q \in Seq(Record) /\ Len(q) = b - a + 1 /\ DOMAIN q = 1 .. Len(q)
  BY SeriesFacts DEF slice
<1>2. \A n \in DOMAIN q : n + a - 1 \in DOMAIN series /\ q[n] = series[n + a - 1]
  BY <1>1, SeriesFacts DEF slice
<1>3. \A m, n \in DOMAIN q :
        (m < n => m + a - 1 < n + a - 1) /\ (m <= n => m + a - 1 <= n + a - 1)
  BY <1>1
<1>4. \A n \in DOMAIN q : q[n] \in Record /\ q[n].event_time \in Int
  BY <1>2, SeriesFacts
<1>5. \A m, n \in DOMAIN q : m <= n => q[m].event_time <= q[n].event_time
  BY <1>2, <1>3, SeriesFacts
<1>6. \A m, n \in DOMAIN q : m < n => q[m].event_time < q[n].event_time
  BY <1>2, <1>3, SeriesFacts
<1>. QED
  BY <1>1, <1>4, <1>5, <1>6

\* The earlier date under the pointer, when it is at or before the target and the
\* next one is not, is the last record of the series at or before the target.
LEMMA UnderThePointer ==
  ASSUME series \in Series, interval \in Int, a_slice, earlier,
         NEW n \in DOMAIN current, NEW k \in DOMAIN prev,
         prev[k].event_time <= current[n].event_time - interval,
         ~ (k < Len(prev) /\ prev[k + 1].event_time <= current[n].event_time - interval)
  PROVE  before(n) # {} /\ closest(n) = prev[k]
<1>. DEFINE T == current[n].event_time - interval
<1>1. PICK c \in DOMAIN series, d \in DOMAIN series :
        /\ slice(prev, c, d)
        /\ \A m \in DOMAIN series :
             m > d => series[m].event_time > current[Len(current)].event_time - interval
  BY DEF earlier
<1>2. /\ DOMAIN current = 1 .. Len(current) /\ Len(current) \in Nat \ {0}
      /\ \A m \in DOMAIN current : current[m].event_time \in Int
      /\ current[n].event_time <= current[Len(current)].event_time
  BY SliceFacts DEF a_slice
<1>3. /\ DOMAIN prev = 1 .. Len(prev) /\ Len(prev) = d - c + 1
      /\ \A m \in DOMAIN prev : prev[m] = series[m + c - 1]
  BY <1>1, SliceFacts DEF slice
<1>a. Len(prev) \in Nat
  BY <1>1, SliceFacts
<1>. DEFINE m == k + c - 1
<1>4. m \in DOMAIN series /\ series[m] = prev[k]
  BY <1>1, <1>3, SeriesFacts
<1>5. m \in before(n)
  BY <1>4 DEF before
<1>6. ASSUME NEW p \in before(n)
      PROVE  p <= m
  <2>1. p \in DOMAIN series /\ series[p].event_time <= T
    BY DEF before
  <2>2. p <= d
    <3>1. p > d => series[p].event_time > current[Len(current)].event_time - interval
      BY <2>1, <1>1
    <3>2. series[p].event_time \in Int /\ p \in Int /\ d \in Int /\ Len(current) \in DOMAIN current
      BY <2>1, <1>1, <1>2, SeriesFacts
    <3>. QED
      BY <2>1, <3>1, <3>2, <1>2
  <2>3. SUFFICES ASSUME m + 1 <= p
                 PROVE  FALSE
    BY <2>1, <1>4, SeriesFacts
  <2>a. /\ c \in Nat /\ d \in Nat /\ k \in Nat /\ p \in Nat /\ m \in Nat
        /\ Len(prev) = d - c + 1 /\ k + c = m + 1
    <3>1. DOMAIN series = 1 .. Len(series) /\ Len(series) \in Nat
      BY SeriesFacts
    <3>2. c \in Nat /\ d \in Nat /\ p \in Nat /\ m \in Nat
      BY <3>1, <2>1, <1>4
    <3>3. k \in Nat /\ Len(prev) \in Nat
      BY <1>a, <1>3
    <3>. QED
      BY <3>2, <3>3, <1>3
  <2>4. k + 1 \in DOMAIN prev /\ k < Len(prev) /\ k + 1 + c - 1 = m + 1
    <3>1. k + c <= d
      BY <2>2, <2>3, <2>a
    <3>. QED
      BY <3>1, <2>a, <1>3
  <2>5. m + 1 \in DOMAIN series /\ prev[k + 1] = series[m + 1]
    <3>1. prev[k + 1] = series[k + 1 + c - 1]
      BY <2>4, <1>3
    <3>2. p \in 1 .. Len(series) /\ Len(series) \in Nat /\ DOMAIN series = 1 .. Len(series)
      BY <2>1, SeriesFacts
    <3>3. m + 1 \in DOMAIN series
      BY <3>2, <2>3, <2>a
    <3>. QED
      BY <3>1, <3>3, <2>4
  <2>6. series[m + 1].event_time <= series[p].event_time
    BY <2>1, <2>3, <2>5, SeriesFacts
  <2>7. series[m + 1].event_time \in Int /\ series[p].event_time \in Int /\ T \in Int
    BY <2>1, <2>5, <1>2, SeriesFacts
  <2>8. ~ (series[m + 1].event_time <= T)
    BY <2>4, <2>5
  <2>. QED
    BY <2>1, <2>6, <2>7, <2>8
<1>. HIDE DEF m
<1>7. \A p \in before(n) : (\A r \in before(n) : r <= p) => p = m
  <2>1. before(n) \subseteq Int
    BY SeriesFacts DEF before
  <2>. QED
    BY <2>1, <1>5, <1>6
<1>8. (CHOOSE p \in before(n) : \A r \in before(n) : r <= p) = m
  BY <1>5, <1>6, <1>7
<1>. QED
  BY <1>4, <1>5, <1>8 DEF closest

\* When even the first earlier date is after the target, so is every record.
LEMMA NoneUnderThePointer ==
  ASSUME series \in Series, interval \in Int, a_slice, earlier,
         NEW n \in DOMAIN current,
         ~ (prev[1].event_time <= current[n].event_time - interval)
  PROVE  before(n) = {}
<1>1. PICK c \in DOMAIN series, d \in DOMAIN series :
        /\ slice(prev, c, d)
        /\ c = 1 \/ series[c].event_time <= current[1].event_time - interval
  BY DEF earlier
<1>2. /\ DOMAIN current = 1 .. Len(current) /\ Len(current) \in Nat \ {0}
      /\ \A m \in DOMAIN current : current[m].event_time \in Int
      /\ current[1].event_time <= current[n].event_time
  BY SliceFacts DEF a_slice
<1>3. 1 \in 1 .. Len(prev) /\ prev[1] = series[c]
  <2>1. Len(prev) \in Nat \ {0} /\ prev[1] = series[1 + c - 1]
    BY <1>1, SliceFacts DEF slice
  <2>. QED
    BY <2>1, SeriesFacts
<1>4. c = 1
  <2>1. series[c].event_time \in Int /\ current[1].event_time \in Int /\ current[n].event_time \in Int
    BY <1>2, SeriesFacts
  <2>2. ~ (series[c].event_time <= current[1].event_time - interval)
    BY <2>1, <1>2, <1>3
  <2>. QED
    BY <2>2, <1>1
<1>5. \A p \in DOMAIN series : ~ (series[p].event_time <= current[n].event_time - interval)
  BY <1>2, <1>3, <1>4, SeriesFacts
<1>. QED
  BY <1>5 DEF before

-----------------------------------------------------------------------------
(* The inductive invariant                                                 *)

\* The rows returned are those of the dates before the k-th, in order.
so_far(k) ==
  /\ \A n \in DOMAIN current : n < k /\ counts(n) => \E x \in DOMAIN found : found[x] = row(n)
  /\ \A x \in DOMAIN found :
       \E n \in DOMAIN current : n < k /\ counts(n) /\ found[x] = row(n)
  /\ \A x, y \in DOMAIN found : x < y => found[x].event_time < found[y].event_time

\* A pointer that has moved is at or before the targets still to come.
fits == \A n \in DOMAIN current :
          i <= n /\ j > 1 => prev[j].event_time <= current[n].event_time - interval

Inv ==
  /\ TypeOK
  /\ series \in Series
  /\ pc \in {"current", "prev"} => found = <<>> /\ i = 1 /\ j = 1
  /\ pc \in {"prev", "pass"} => a_slice
  /\ pc = "pass" => earlier /\ so_far(i) /\ fits
  /\ ChangesAreRight
  /\ ClosestMatch

LEMMA InitInv == Init => Inv
<1>. SUFFICES ASSUME Init
              PROVE  Inv
  OBVIOUS
<1>1. series \in Seq(Record)
  BY SeriesFacts DEF Init
<1>2. current = <<>> /\ prev = <<>> /\ found = <<>> /\ i = 1 /\ j = 1 /\ pc = "current"
  BY DEF Init
<1>3. TypeOK
  BY <1>1, <1>2 DEF Init, TypeOK
<1>4. ClosestMatch
  BY <1>2 DEF ClosestMatch
<1>. QED
  BY <1>2, <1>3, <1>4 DEF Init, Inv, ChangesAreRight

LEMMA StepCurrent == Inv /\ gather_current => Inv'
<1>. SUFFICES ASSUME Inv, gather_current
              PROVE  Inv'
  OBVIOUS
<1>1. /\ pc = "current" /\ found = <<>> /\ i = 1 /\ j = 1
      /\ TypeOK /\ series \in Series
  BY DEF gather_current, Inv
<1>2. /\ series' = series /\ interval' = interval /\ prev' = prev
      /\ found' = <<>> /\ i' = 1 /\ j' = 1
      /\ current' = get_index(from, to)
  BY <1>1 DEF gather_current
<1>3. current' = <<>> \/ \E a, b \in DOMAIN series : slice(current', a, b)
  <2>1. \/ get_index(from, to) = <<>>
        \/ \E a, b \in index_rows(from, to) : slice(get_index(from, to), a, b)
    BY <1>1, IndexIsSlice
  <2>2. \A a, b : slice(get_index(from, to), a, b) => a \in DOMAIN series /\ b \in DOMAIN series
    BY DEF slice
  <2>. QED
    BY <2>1, <2>2, <1>2
<1>4. current' \in Seq(Record)
  <2>1. \A a, b : slice(current', a, b) => current' \in Seq(Record)
    BY DEF slice
  <2>2. <<>> \in Seq(Record)
    OBVIOUS
  <2>. QED
    BY <1>3, <2>1, <2>2
<1>5. CASE current' = <<>> /\ pc' = "done"
  <2>1. TypeOK'
    BY <1>1, <1>2, <1>4, <1>5 DEF TypeOK
  <2>2. ChangesAreRight' /\ ClosestMatch'
    BY <1>2, <1>5 DEF ChangesAreRight, ClosestMatch
  <2>. QED
    BY <2>1, <2>2, <1>1, <1>2, <1>5 DEF Inv
<1>6. CASE current' # <<>> /\ pc' = "prev"
  <2>1. TypeOK'
    BY <1>1, <1>2, <1>4, <1>6 DEF TypeOK
  <2>2. ChangesAreRight' /\ ClosestMatch'
    BY <1>2, <1>6 DEF ChangesAreRight, ClosestMatch
  <2>3. a_slice'
    BY <1>2, <1>3, <1>6 DEF a_slice, slice
  <2>. QED
    BY <2>1, <2>2, <2>3, <1>1, <1>2, <1>6 DEF Inv
<1>. QED
  BY <1>5, <1>6 DEF gather_current

LEMMA StepPrev == Inv /\ gather_prev => Inv'
<1>. SUFFICES ASSUME Inv, gather_prev
              PROVE  Inv'
  OBVIOUS
<1>. DEFINE lo == current[1].event_time - interval
            hi == current[Len(current)].event_time - interval
<1>1. /\ pc = "prev" /\ found = <<>> /\ i = 1 /\ j = 1
      /\ TypeOK /\ series \in Series /\ a_slice
  BY DEF gather_prev, Inv
<1>2. /\ series' = series /\ interval' = interval /\ current' = current
      /\ found' = <<>> /\ i' = 1 /\ j' = 1
      /\ prev' = get_index(lo, hi)
  BY <1>1 DEF gather_prev
<1>3. /\ DOMAIN current = 1 .. Len(current) /\ Len(current) \in Nat \ {0}
      /\ \A n \in DOMAIN current :
           /\ current[n].event_time \in Int
           /\ current[n].event_time <= current[Len(current)].event_time
  BY <1>1, SliceFacts DEF a_slice
<1>4. interval \in Int
  BY <1>1, SeriesAssumption DEF TypeOK
<1>5. lo \in Int /\ hi \in Int
  BY <1>3, <1>4
<1>. HIDE DEF lo, hi
<1>6. \/ prev' = <<>> /\ \A n \in DOMAIN series : series[n].event_time > hi
      \/ \E c, d \in DOMAIN series :
           /\ slice(prev', c, d)
           /\ c = 1 \/ series[c].event_time <= lo
           /\ \A n \in DOMAIN series : n > d => series[n].event_time > hi
  <2>1. \/ /\ get_index(lo, hi) = <<>>
           /\ \A n \in DOMAIN series : series[n].event_time > hi
        \/ \E c, d \in DOMAIN series :
             /\ slice(get_index(lo, hi), c, d)
             /\ c = 1 \/ series[c].event_time <= lo
             /\ \A n \in DOMAIN series : n > d => series[n].event_time > hi
    BY <1>1, <1>5, EarlierSlice, Zenon
  <2>2. prev' = get_index(lo, hi)
    BY <1>2
  <2>. QED
    BY <2>1, <2>2, Zenon
<1>7. prev' \in Seq(Record)
  <2>1. \A c, d : slice(prev', c, d) => prev' \in Seq(Record)
    BY DEF slice
  <2>2. <<>> \in Seq(Record)
    OBVIOUS
  <2>. QED
    BY <1>6, <2>1, <2>2, Zenon
<1>8. a_slice'
  BY <1>1, <1>2 DEF a_slice, slice
<1>9. CASE prev' = <<>> /\ pc' = "done"
  <2>1. TypeOK'
    BY <1>1, <1>2, <1>7, <1>9 DEF TypeOK
  <2>2. ASSUME NEW n \in DOMAIN current, NEW m \in DOMAIN series
        PROVE  ~ (series[m].event_time <= current[n].event_time - interval)
    <3>1. ~ (\E c, d \in DOMAIN series : slice(prev', c, d))
      <4>1. \A c, d \in DOMAIN series : slice(prev', c, d) => Len(prev') # 0
        BY <1>1, SliceFacts
      <4>. QED
        BY <4>1, <1>9
    <3>2. series[m].event_time > hi
      BY <3>1, <1>6
    <3>. QED
      BY <3>2, <1>1, <1>3, <1>4, SeriesFacts DEF hi
  <2>3. \A n \in DOMAIN current : (counts(n))' = FALSE
    BY <2>2, <1>2 DEF counts, before
  <2>4. ChangesAreRight' /\ ClosestMatch'
    BY <1>2, <2>3 DEF ChangesAreRight, ClosestMatch
  <2>. QED
    BY <2>1, <2>4, <1>1, <1>2, <1>9 DEF Inv
<1>10. CASE prev' # <<>> /\ pc' = "pass"
  <2>1. TypeOK'
    <3>1. Len(prev') \in Nat /\ Len(prev') # 0
      BY <1>7, <1>10
    <3>. QED
      BY <3>1, <1>1, <1>2, <1>7, <1>10 DEF TypeOK
  <2>2. ChangesAreRight' /\ ClosestMatch'
    BY <1>2, <1>10 DEF ChangesAreRight, ClosestMatch
  <2>3. earlier'
    BY <1>2, <1>6, <1>10 DEF earlier, slice, lo, hi
  <2>4. (so_far(i))' /\ fits'
    BY <1>2, <1>3 DEF so_far, fits
  <2>. QED
    BY <2>1, <2>2, <2>3, <2>4, <1>1, <1>2, <1>8, <1>10 DEF Inv
<1>. QED
  BY <1>9, <1>10 DEF gather_prev

LEMMA StepAdvance == Inv /\ advance => Inv'
<1>. SUFFICES ASSUME Inv, advance
              PROVE  Inv'
  OBVIOUS
<1>1. /\ pc = "pass" /\ TypeOK /\ series \in Series
      /\ a_slice /\ earlier /\ so_far(i) /\ fits
  BY DEF advance, Inv
<1>2. /\ series' = series /\ interval' = interval /\ current' = current /\ prev' = prev
      /\ i' = i /\ found' = found /\ pc' = pc
      /\ j' = j + 1
      /\ i \in 1 .. Len(current) /\ j < Len(prev)
      /\ prev[j + 1].event_time <= current[i].event_time - interval
  BY <1>1 DEF advance, next_fits, target, TypeOK
<1>3. /\ DOMAIN current = 1 .. Len(current) /\ Len(current) \in Nat
      /\ \A n \in DOMAIN current : current[n].event_time \in Int
      /\ \A n \in DOMAIN current : i <= n => current[i].event_time <= current[n].event_time
  BY <1>1, <1>2, SliceFacts DEF a_slice
<1>4. /\ DOMAIN prev = 1 .. Len(prev) /\ Len(prev) \in Nat
      /\ \A n \in DOMAIN prev : prev[n].event_time \in Int
  BY <1>1, SliceFacts DEF earlier
<1>5. interval \in Int
  BY <1>1, SeriesAssumption DEF TypeOK
<1>6. TypeOK'
  BY <1>1, <1>2, <1>4 DEF TypeOK
<1>7. fits'
  <2>1. j + 1 \in DOMAIN prev
    BY <1>1, <1>2, <1>4 DEF TypeOK
  <2>2. \A n \in DOMAIN current :
          i <= n => prev[j + 1].event_time <= current[n].event_time - interval
    BY <2>1, <1>2, <1>3, <1>4, <1>5
  <2>. QED
    BY <2>2, <1>2 DEF fits
<1>8. (so_far(i))' /\ a_slice' /\ earlier'
  <2>1. (so_far(i))'
    <3>1. \A n : (counts(n))' = counts(n) /\ (row(n))' = row(n)
      BY <1>2 DEF counts, row, closest, before
    <3>. QED
      BY <3>1, <1>1, <1>2 DEF so_far
  <2>2. a_slice'
    BY <1>1, <1>2 DEF a_slice, slice
  <2>3. earlier'
    BY <1>1, <1>2 DEF earlier, slice
  <2>. QED
    BY <2>1, <2>2, <2>3
<1>9. ChangesAreRight'
  BY <1>1, <1>2 DEF ChangesAreRight
<1>10. ClosestMatch'
  BY <1>2 DEF Inv, ClosestMatch
<1>. QED
  BY <1>1, <1>2, <1>6, <1>7, <1>8, <1>9, <1>10 DEF Inv

LEMMA StepReturn == Inv /\ return => Inv'
<1>. SUFFICES ASSUME Inv, return
              PROVE  Inv'
  OBVIOUS
<1>1. /\ pc = "pass" /\ TypeOK /\ series \in Series /\ so_far(i) /\ ClosestMatch
      /\ i > Len(current) /\ a_slice
  BY DEF return, Inv
<1>2. UNCHANGED <<series, from, to, interval, current, prev, i, j, found>> /\ pc' = "done"
  BY DEF return
<1>3. TypeOK'
  BY <1>1, <1>2 DEF TypeOK
<1>4. \A n \in DOMAIN current : n < i
  BY <1>1, SliceFacts DEF TypeOK, a_slice
<1>5. ChangesAreRight'
  <2>1. /\ \A n \in DOMAIN current : counts(n) => \E x \in DOMAIN found : found[x] = row(n)
        /\ \A x \in DOMAIN found : \E n \in DOMAIN current : counts(n) /\ found[x] = row(n)
        /\ \A x, y \in DOMAIN found : x < y => found[x].event_time < found[y].event_time
    BY <1>1, <1>4 DEF so_far
  <2>. QED
    BY <2>1, <1>2 DEF ChangesAreRight, counts, row, closest, before
<1>6. ClosestMatch'
  BY <1>1, <1>2 DEF ClosestMatch
<1>. QED
  BY <1>1, <1>2, <1>3, <1>5, <1>6 DEF Inv

\* The pointer is where it should be when a date is compared: the date counts exactly
\* when the earlier date under the pointer matches, and that one is its closest.
LEMMA CountsIsMatch ==
  ASSUME Inv, pc = "pass", i \in DOMAIN current, ~ next_fits
  PROVE  /\ counts(i) <=> match
         /\ match => row(i) = [event_time |-> current[i].event_time,
                               now |-> current[i].value, before |-> prev[j].value]
<1>1. /\ series \in Series /\ a_slice /\ earlier /\ fits /\ TypeOK
  BY DEF Inv
<1>2. j \in DOMAIN prev /\ j \in 1 .. Len(prev) /\ interval \in Int
  BY <1>1, SliceFacts, SeriesAssumption DEF TypeOK, earlier
<1>3. CASE prev[j].event_time <= current[i].event_time - interval
  <2>1. before(i) # {} /\ closest(i) = prev[j]
    BY <1>1, <1>2, <1>3, UnderThePointer DEF next_fits, target
  <2>. QED
    BY <2>1, <1>3 DEF counts, row, match, target
<1>4. CASE ~ (prev[j].event_time <= current[i].event_time - interval)
  <2>1. j = 1
    <3>1. i <= i
      BY <1>1 DEF TypeOK
    <3>2. ~ (j > 1)
      BY <3>1, <1>1, <1>4 DEF fits
    <3>. QED
      BY <3>2, <1>2
  <2>2. before(i) = {}
    BY <2>1, <1>1, <1>2, <1>4, NoneUnderThePointer
  <2>. QED
    BY <2>2, <1>4 DEF counts, match, target
<1>. QED
  BY <1>3, <1>4

LEMMA StepCompare == Inv /\ compare => Inv'
<1>. SUFFICES ASSUME Inv, compare
              PROVE  Inv'
  OBVIOUS
<1>1. /\ pc = "pass" /\ TypeOK /\ series \in Series
      /\ a_slice /\ earlier /\ so_far(i) /\ fits /\ ClosestMatch
  BY DEF compare, Inv
<1>2. /\ series' = series /\ interval' = interval /\ current' = current /\ prev' = prev
      /\ j' = j /\ pc' = pc /\ i' = i + 1
  BY DEF compare
<1>3. /\ DOMAIN current = 1 .. Len(current) /\ Len(current) \in Nat
      /\ \A n \in DOMAIN current : current[n] \in Record /\ current[n].event_time \in Int
      /\ \A m, n \in DOMAIN current : m < n => current[m].event_time < current[n].event_time
  BY <1>1, SliceFacts DEF a_slice
<1>4. DOMAIN prev = 1 .. Len(prev) /\ \A n \in DOMAIN prev : prev[n] \in Record
  BY <1>1, SliceFacts DEF earlier
<1>5. i \in DOMAIN current /\ i \in Nat /\ j \in DOMAIN prev /\ ~ next_fits
  BY <1>1, <1>3, <1>4 DEF compare, TypeOK
<1>6. found \in Seq(Change) /\ DOMAIN found = 1 .. Len(found) /\ Len(found) \in Nat
  BY <1>1 DEF TypeOK
<1>. DEFINE new == [event_time |-> current[i].event_time,
                    now |-> current[i].value, before |-> prev[j].value]
<1>7. /\ counts(i) <=> match
      /\ match => row(i) = new
  BY <1>1, <1>5, CountsIsMatch
<1>8. new \in Change
  BY <1>3, <1>4, <1>5 DEF Record, Change
<1>9. /\ a_slice' /\ earlier' /\ fits'
      /\ \A n : (counts(n))' = counts(n) /\ (row(n))' = row(n)
  <2>1. a_slice' /\ earlier'
    BY <1>1, <1>2 DEF a_slice, earlier, slice
  <2>2. fits'
    BY <1>1, <1>2, <1>3, <1>5 DEF fits
  <2>3. \A n : (counts(n))' = counts(n) /\ (row(n))' = row(n)
    BY <1>2 DEF counts, row, closest, before
  <2>. QED
    BY <2>1, <2>2, <2>3
<1>10. \A n \in DOMAIN current : n < i + 1 <=> n < i \/ n = i
  BY <1>3, <1>5
<1>. HIDE DEF new
<1>11. CASE match
  <2>1. found' = Append(found, new)
    BY <1>11 DEF compare, new
  <2>2. /\ found' \in Seq(Change) /\ Len(found') = Len(found) + 1
        /\ DOMAIN found' = 1 .. Len(found) + 1
        /\ \A x \in DOMAIN found : found'[x] = found[x]
        /\ found'[Len(found) + 1] = new
    BY <2>1, <1>6, <1>8
  <2>3. \A x \in DOMAIN found' : x \in DOMAIN found \/ x = Len(found) + 1
    BY <2>2, <1>6
  <2>a. Len(found) + 1 \in DOMAIN found' /\ DOMAIN found \subseteq DOMAIN found'
    BY <2>2, <1>6
  <2>4. TypeOK'
    BY <2>2, <1>1, <1>2, <1>3, <1>5 DEF TypeOK
  <2>5. (so_far(i))'
    <3>1. \A n \in DOMAIN current :
            n < i + 1 /\ counts(n) => \E x \in DOMAIN found' : found'[x] = row(n)
      BY <1>1, <1>7, <1>10, <1>11, <2>2, <2>a DEF so_far
    <3>2. \A x \in DOMAIN found' :
            \E n \in DOMAIN current : n < i + 1 /\ counts(n) /\ found'[x] = row(n)
      BY <1>1, <1>5, <1>7, <1>10, <1>11, <2>2, <2>3 DEF so_far
    <3>3. \A x \in DOMAIN found : found[x].event_time < new.event_time
      <4>1. TAKE x \in DOMAIN found
      <4>2. PICK n \in DOMAIN current : n < i /\ found[x] = row(n)
        BY <1>1 DEF so_far
      <4>3. found[x].event_time = current[n].event_time
        BY <4>2 DEF row
      <4>. QED
        BY <4>2, <4>3, <1>3, <1>5 DEF new
    <3>4. \A x, y \in DOMAIN found' : x < y => found'[x].event_time < found'[y].event_time
      <4>1. SUFFICES ASSUME NEW x \in DOMAIN found', NEW y \in DOMAIN found', x < y
                     PROVE  found'[x].event_time < found'[y].event_time
        OBVIOUS
      <4>2. x \in DOMAIN found
        BY <4>1, <2>2, <1>6
      <4>3. CASE y \in DOMAIN found
        BY <4>1, <4>2, <4>3, <1>1, <2>2 DEF so_far
      <4>4. CASE y = Len(found) + 1
        BY <4>2, <4>4, <3>3, <2>2
      <4>. QED
        BY <4>3, <4>4, <2>3
    <3>. QED
      BY <3>1, <3>2, <3>4, <1>2, <1>9 DEF so_far
  <2>6. ClosestMatch'
    <3>1. \A x \in DOMAIN found' :
            \E m \in DOMAIN current, n \in DOMAIN prev :
              /\ found'[x] = [event_time |-> current[m].event_time,
                              now |-> current[m].value, before |-> prev[n].value]
              /\ prev[n].value # 0
              /\ prev[n].event_time <= current[m].event_time - interval
              /\ n < Len(prev) => prev[n + 1].event_time > current[m].event_time - interval
      <4>1. TAKE x \in DOMAIN found'
      <4>2. CASE x \in DOMAIN found
        BY <4>2, <1>1, <2>2 DEF ClosestMatch
      <4>3. CASE x = Len(found) + 1
        <5>1. /\ prev[j].value # 0
              /\ prev[j].event_time <= current[i].event_time - interval
          BY <1>11 DEF match, target
        <5>2. j < Len(prev) => prev[j + 1].event_time > current[i].event_time - interval
          <6>1. interval \in Int /\ current[i].event_time \in Int
            BY <1>1, <1>3, <1>5, SeriesAssumption DEF TypeOK
          <6>2. j < Len(prev) => j + 1 \in DOMAIN prev /\ prev[j + 1].event_time \in Int
            BY <1>1, <1>4, <1>5, SliceFacts DEF earlier
          <6>. QED
            BY <6>1, <6>2, <1>5 DEF next_fits, target
        <5>. QED
          BY <5>1, <5>2, <4>3, <2>2, <1>5 DEF new
      <4>. QED
        BY <4>2, <4>3, <2>3
    <3>. QED
      BY <3>1, <1>2 DEF ClosestMatch
  <2>. QED
    BY <2>4, <2>5, <2>6, <1>1, <1>2, <1>9 DEF Inv, ChangesAreRight
<1>12. CASE ~ match
  <2>1. found' = found
    BY <1>12 DEF compare
  <2>2. TypeOK'
    BY <2>1, <1>1, <1>2, <1>3, <1>5 DEF TypeOK
  <2>3. (so_far(i))'
    <3>1. \A n \in DOMAIN current : n < i + 1 /\ counts(n) <=> n < i /\ counts(n)
      BY <1>7, <1>10, <1>12
    <3>. QED
      BY <3>1, <2>1, <1>1, <1>2, <1>9 DEF so_far
  <2>4. ClosestMatch'
    BY <2>1, <1>1, <1>2 DEF ClosestMatch
  <2>. QED
    BY <2>2, <2>3, <2>4, <1>1, <1>2, <1>9 DEF Inv, ChangesAreRight
<1>. QED
  BY <1>11, <1>12

-----------------------------------------------------------------------------
(* Theorems                                                                *)

LEMMA StepStutter == Inv /\ UNCHANGED vars => Inv'
<1>. SUFFICES ASSUME Inv, UNCHANGED vars
              PROVE  Inv'
  OBVIOUS
<1>1. UNCHANGED <<series, from, to, interval, current, prev, i, j, found, pc>>
  BY DEF vars
<1>2. \A n : (counts(n))' = counts(n) /\ (row(n))' = row(n)
  BY <1>1 DEF counts, row, closest, before
<1>3. TypeOK'
  BY <1>1 DEF Inv, TypeOK
<1>4. /\ pc = "pass" => earlier' /\ (so_far(i))' /\ fits'
      /\ pc \in {"prev", "pass"} => a_slice'
  <2>1. a_slice => a_slice'
    BY <1>1 DEF a_slice, slice
  <2>2. earlier => earlier'
    BY <1>1 DEF earlier, slice
  <2>3. so_far(i) => (so_far(i))'
    BY <1>1, <1>2 DEF so_far
  <2>4. fits => fits'
    BY <1>1 DEF fits
  <2>. QED
    BY <2>1, <2>2, <2>3, <2>4 DEF Inv
<1>5. ChangesAreRight' /\ ClosestMatch'
  BY <1>1, <1>2 DEF Inv, ChangesAreRight, ClosestMatch
<1>. QED
  BY <1>1, <1>3, <1>4, <1>5 DEF Inv

LEMMA Invariant == Spec => []Inv
<1>1. Inv /\ [Next]_vars => Inv'
  BY StepCurrent, StepPrev, StepAdvance, StepCompare, StepReturn, StepStutter DEF Next
<1>. QED
  BY InitInv, <1>1, PTL DEF Spec

\* The pass starts only when both windows hold a date, and the second pointer never
\* leaves its array (the prev_len and current_len tests of get_index_change).
THEOREM PointersStayInside == Spec => []TypeOK
<1>1. Inv => TypeOK
  BY DEF Inv
<1>. QED
  BY Invariant, <1>1, PTL

\* For every series, window and interval get_index_change returns one row for each
\* date that has a record at or before the date an interval earlier, unless that
\* record's value is 0, and compares with the last such record: the second pointer,
\* which never goes back, misses none.
THEOREM ReturnsTheChanges == Spec => []ChangesAreRight
<1>1. Inv => ChangesAreRight
  BY DEF Inv
<1>. QED
  BY Invariant, <1>1, PTL

\* Each row compares with the last of the earlier dates at or before its target, at
\* every moment of the pass and never by a division by 0.
THEOREM ComparesWithTheClosest == Spec => []ClosestMatch
<1>1. Inv => ClosestMatch
  BY DEF Inv
<1>. QED
  BY Invariant, <1>1, PTL
=============================================================================
