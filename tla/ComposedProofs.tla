--------------------------- MODULE ComposedProofs ---------------------------
(***************************************************************************)
(* Proofs about the records and indices of composed streams: adding up changes*)
(* of two sums, tie by tie, comes to the weighted average, for all streams,*)
(* taxonomies, values, times and windows.                                  *)
(*                                                                         *)
(* The argument in order: sums over finite sets; changes along time, of which*)
(* some order of the ties adds up to the two sums (BestAdds); rows carried *)
(* forward (CarriedSums); the changes of value and of weight of a stream   *)
(* (ValueSum, WeightSum); the paths of the query are the paths of links in *)
(* force (PathsAtTime); the points of a stream give the value in force     *)
(* (ValueNow); so the two sums are those of the reference (SumsNow).  The last*)
(* record and the base value of an index are answers at one time (FirstRow).*)
(* The index in a window is the same sum over changes divided by a base value*)
(* (DividedSum), which is one row's (BaseValue).                           *)
(***************************************************************************)
EXTENDS HierarchyProofs, ComposedIndex, SequenceTheorems

-----------------------------------------------------------------------------
(* Sums over finite sets                                                   *)

\* Induction over the subsets of a finite set: a family of subsets that holds {} and
\* with each set the set with one more element holds the whole set.
LEMMA SetInduction ==
  ASSUME NEW S, IsFiniteSet(S), NEW Q \in SUBSET (SUBSET S), {} \in Q,
         \A T \in Q : \A x \in S \ T : T \cup {x} \in Q
  PROVE  S \in Q
<1>. DEFINE N == {n \in Nat : \A T \in SUBSET S : Cardinality(T) = n => T \in Q}
<1>1. \A T \in SUBSET S : IsFiniteSet(T) /\ Cardinality(T) \in Nat
  BY FS_Subset, FS_CardinalityType
<1>2. 0 \in N
  BY <1>1, FS_EmptySet
<1>3. ASSUME NEW n \in N PROVE n + 1 \in N
  <2>1. ASSUME NEW T \in SUBSET S, Cardinality(T) = n + 1 PROVE T \in Q
    <3>1. T # {}
      BY <2>1, FS_EmptySet
    <3>2. PICK x \in T : TRUE
      BY <3>1
    <3>3. Cardinality(T \ {x}) = n
      BY <1>1, <2>1, <3>2, FS_RemoveElement, SMTT(30)
    <3>4. T \ {x} \in Q
      BY <3>3
    <3>5. (T \ {x}) \cup {x} = T
      BY <3>2
    <3>. QED
      BY <3>2, <3>4, <3>5
  <2>. QED
    BY <2>1
<1>4. N = Nat
  <2>1. N \in SUBSET Nat
    OBVIOUS
  <2>. QED
    BY <1>2, <1>3, <2>1, Induction
<1>. QED
  BY <1>1, <1>4

\* A function that has a sum.
Summable(f) == IsFiniteSet(DOMAIN f) /\ \A x \in DOMAIN f : f[x] \in Int

\* The recursive function a sum is taken from.
Partial(f, F) ==
  F = [s \in SUBSET DOMAIN f |->
         IF s = {} THEN 0
         ELSE f[CHOOSE x \in s : TRUE] + F[s \ {CHOOSE x \in s : TRUE}]]

LEMMA SumUnfolds ==
  ASSUME NEW f
  PROVE  SumFunction(f) = (CHOOSE F : Partial(f, F))[DOMAIN f]
BY DEF SumFunction, SumFunctionOnSet, FoldFunctionOnSet, MapThenFoldSet, Partial

LEMMA HasPartial ==
  ASSUME NEW f, Summable(f)
  PROVE  \E F : Partial(f, F)
<1>. USE DEF Summable
<1>. DEFINE D == DOMAIN f
            pick(s) == CHOOSE x \in s : TRUE
            Small(n) == {s \in SUBSET D : Cardinality(s) <= n}
            Upto(n, G) == /\ G \in [Small(n) -> Int]
                          /\ \A s \in Small(n) :
                               G[s] = IF s = {} THEN 0 ELSE f[pick(s)] + G[s \ {pick(s)}]
            Q == {n \in Nat : \E G : Upto(n, G)}
<1>1. \A s \in SUBSET D : /\ IsFiniteSet(s) /\ Cardinality(s) \in Nat
                          /\ Cardinality(s) <= Cardinality(D)
  BY FS_Subset, FS_CardinalityType
<1>2. \A s \in SUBSET D : s # {} => /\ pick(s) \in s
                                    /\ Cardinality(s \ {pick(s)}) = Cardinality(s) - 1
  BY <1>1, FS_RemoveElement
<1>3. 0 \in Q
  <2>. DEFINE G == [s \in Small(0) |-> 0]
  <2>1. \A s \in Small(0) : s = {}
    BY <1>1, FS_EmptySet
  <2>2. Upto(0, G)
    BY <2>1
  <2>. QED
    BY <2>2
<1>4. ASSUME NEW n \in Nat, n \in Q PROVE n + 1 \in Q
  <2>1. PICK G : Upto(n, G)
    BY <1>4
  <2>. DEFINE H == [s \in Small(n + 1) |->
                      IF s \in Small(n) THEN G[s] ELSE f[pick(s)] + G[s \ {pick(s)}]]
  <2>2. ASSUME NEW s \in Small(n + 1), s # {} PROVE s \ {pick(s)} \in Small(n)
    <3>1. Cardinality(s \ {pick(s)}) = Cardinality(s) - 1 /\ Cardinality(s) \in Nat
      BY <1>1, <1>2, <2>2
    <3>. QED
      BY <3>1
  <2>3. \A s \in Small(n) : s \in Small(n + 1) /\ H[s] = G[s]
    <3>1. \A s \in Small(n) : Cardinality(s) \in Nat /\ Cardinality(s) <= n
      BY <1>1
    <3>2. \A s \in Small(n) : s \in Small(n + 1)
      BY <3>1
    <3>. QED
      BY <3>2
  <2>4. {} \in Small(n)
    BY FS_EmptySet
  <2>5. ASSUME NEW s \in Small(n + 1)
        PROVE  H[s] \in Int /\ H[s] = IF s = {} THEN 0 ELSE f[pick(s)] + H[s \ {pick(s)}]
    <3>1. CASE s = {}
      BY <2>1, <2>3, <2>4, <3>1
    <3>2. CASE s # {}
      <4>1. s \ {pick(s)} \in Small(n) /\ pick(s) \in D
        BY <1>2, <2>2, <3>2
      <4>2. H[s] = f[pick(s)] + G[s \ {pick(s)}]
        BY <2>1, <2>3, <3>2
      <4>3. G[s \ {pick(s)}] \in Int /\ H[s \ {pick(s)}] = G[s \ {pick(s)}]
        BY <2>1, <2>3, <4>1
      <4>4. f[pick(s)] \in Int
        BY <4>1
      <4>. QED
        BY <3>2, <4>2, <4>3, <4>4
    <3>. QED
      BY <3>1, <3>2
  <2>6. Upto(n + 1, H)
    BY <2>5
  <2>. HIDE DEF H, Upto
  <2>. QED
    BY <2>6
<1>5. Cardinality(D) \in Q
  <2>1. Q \in SUBSET Nat
    OBVIOUS
  <2>2. Q = Nat
    BY <1>3, <1>4, <2>1, Induction
  <2>. QED
    BY <1>1, <2>2
<1>6. PICK G : Upto(Cardinality(D), G)
  BY <1>5
<1>7. Small(Cardinality(D)) = SUBSET D
  BY <1>1
<1>8. G = [s \in SUBSET D |-> IF s = {} THEN 0 ELSE f[pick(s)] + G[s \ {pick(s)}]]
  BY <1>6, <1>7
<1>. QED
  BY <1>8 DEF Partial

\* Whatever element is taken first.
TakesAny(f, F) ==
  /\ F[{}] = 0
  /\ \A s \in SUBSET DOMAIN f : F[s] \in Int
  /\ \A s \in SUBSET DOMAIN f : \A x \in s : F[s] = f[x] + F[s \ {x}]

LEMMA AnyFirst ==
  ASSUME NEW f, Summable(f), NEW F, Partial(f, F)
  PROVE  TakesAny(f, F)
<1>. USE DEF Summable
<1>. DEFINE D == DOMAIN f
            pick(s) == CHOOSE x \in s : TRUE
            Good(s) == F[s] \in Int /\ \A x \in s : F[s] = f[x] + F[s \ {x}]
            N == {n \in Nat : \A s \in SUBSET D : Cardinality(s) <= n => Good(s)}
<1>1. \A s \in SUBSET D : /\ IsFiniteSet(s) /\ Cardinality(s) \in Nat
                          /\ \A x \in s : Cardinality(s \ {x}) = Cardinality(s) - 1
  BY FS_Subset, FS_CardinalityType, FS_RemoveElement
<1>2. F[{}] = 0
  BY DEF Partial
<1>3. \A s \in SUBSET D : s # {} => pick(s) \in s /\ F[s] = f[pick(s)] + F[s \ {pick(s)}]
  BY DEF Partial
<1>. HIDE DEF pick
<1>4. 0 \in N
  <2>1. \A s \in SUBSET D : Cardinality(s) <= 0 => s = {}
    BY <1>1, FS_EmptySet
  <2>. QED
    BY <1>2, <2>1
<1>5. ASSUME NEW n \in Nat, \A s \in SUBSET D : Cardinality(s) <= n => Good(s),
             NEW s \in SUBSET D, Cardinality(s) = n + 1
      PROVE  Good(s)
  <2>. DEFINE p == pick(s)
  <2>1. s # {}
    BY <1>5, FS_EmptySet
  <2>2. p \in s /\ F[s] = f[p] + F[s \ {p}]
    BY <1>3, <2>1
  <2>. HIDE DEF p
  <2>3. \A x \in s : Cardinality(s \ {x}) <= n /\ s \ {x} \in SUBSET D
    BY <1>1, <1>5
  <2>4. \A x \in s : Good(s \ {x})
    BY <1>5, <2>3
  <2>5. f[p] \in Int /\ F[s \ {p}] \in Int
    BY <2>2, <2>4
  <2>6. ASSUME NEW x \in s, x # p PROVE F[s] = f[x] + F[s \ {x}]
    <3>. DEFINE r == (s \ {x}) \ {p}
    <3>1. (s \ {p}) \ {x} = r
      OBVIOUS
    <3>2. x \in s \ {p} /\ p \in s \ {x}
      BY <2>2, <2>6
    <3>3. F[s \ {p}] = f[x] + F[r] /\ F[s \ {x}] = f[p] + F[r]
      BY <2>2, <2>4, <3>1, <3>2
    <3>4. Cardinality(r) <= n
      <4>1. Cardinality(s \ {x}) \in Nat /\ Cardinality(r) = Cardinality(s \ {x}) - 1
        BY <1>1, <3>2
      <4>. QED
        BY <2>3, <4>1
    <3>5. F[r] \in Int /\ f[x] \in Int
      BY <1>5, <3>4
    <3>. QED
      BY ONLY <2>2, <2>5, <3>3, <3>5
  <2>7. F[s] \in Int
    BY ONLY <2>2, <2>5
  <2>8. \A x \in s : x = p \/ x # p
    OBVIOUS
  <2>. QED
    BY <2>2, <2>6, <2>7, <2>8, Zenon
<1>. HIDE DEF Good
<1>6. \A n \in N : n + 1 \in N
  <2>1. ASSUME NEW n \in Nat, n \in N, NEW s \in SUBSET D, Cardinality(s) <= n + 1
        PROVE  Good(s)
    <3>1. Cardinality(s) \in Nat
      BY <1>1
    <3>2. CASE Cardinality(s) <= n
      BY <2>1, <3>2
    <3>3. CASE Cardinality(s) = n + 1
      BY <1>5, <2>1, <3>3
    <3>. QED
      BY <2>1, <3>1, <3>2, <3>3
  <2>2. \A n \in Nat : n \in N => \A s \in SUBSET D : Cardinality(s) <= n + 1 => Good(s)
    BY <2>1
  <2>. QED
    BY <2>2
<1>7. N = Nat
  <2>1. N \in SUBSET Nat
    OBVIOUS
  <2>. QED
    BY <1>4, <1>6, <2>1, Induction
<1>8. \A s \in SUBSET D : Good(s)
  BY <1>1, <1>7
<1>. QED
  BY <1>2, <1>8 DEF Good, TakesAny

LEMMA SumEmpty ==
  ASSUME NEW f, DOMAIN f = {}
  PROVE  SumFunction(f) = 0
<1>1. Summable(f)
  BY FS_EmptySet DEF Summable
<1>2. Partial(f, CHOOSE F : Partial(f, F))
  BY <1>1, HasPartial
<1>. QED
  BY <1>1, <1>2, AnyFirst, SumUnfolds DEF TakesAny

\* What a sum over part of the domain takes is what the whole sum takes.
LEMMA SumOfPart ==
  ASSUME NEW f, Summable(f), NEW F, Partial(f, F), NEW s \in SUBSET DOMAIN f
  PROVE  SumFunction([y \in s |-> f[y]]) = F[s]
<1>. DEFINE g == [y \in s |-> f[y]]
            G == CHOOSE H : Partial(g, H)
            Q == {r \in SUBSET s : G[r] = F[r]}
<1>1. IsFiniteSet(s) /\ DOMAIN g = s /\ Summable(g) /\ \A x \in s : g[x] = f[x]
  BY FS_Subset DEF Summable
<1>. HIDE DEF g
<1>2. Partial(g, G)
  BY <1>1, HasPartial
<1>. HIDE DEF G
<1>3. /\ G[{}] = 0
      /\ \A r \in SUBSET s : \A x \in r : G[r] = g[x] + G[r \ {x}]
  <2>1. TakesAny(g, G)
    BY <1>1, <1>2, AnyFirst
  <2>. QED
    BY <1>1, <2>1 DEF TakesAny
<1>4. /\ F[{}] = 0
      /\ \A r \in SUBSET DOMAIN f : \A x \in r : F[r] = f[x] + F[r \ {x}]
  BY AnyFirst DEF TakesAny
<1>5. {} \in Q
  BY <1>3, <1>4
<1>6. ASSUME NEW r \in Q, NEW x \in s \ r PROVE r \cup {x} \in Q
  <2>1. (r \cup {x}) \ {x} = r /\ r \cup {x} \in SUBSET s
    OBVIOUS
  <2>2. G[r \cup {x}] = g[x] + G[r]
    BY <1>3, <2>1
  <2>3. F[r \cup {x}] = f[x] + F[r]
    BY <1>4, <2>1
  <2>. QED
    BY <1>1, <2>1, <2>2, <2>3
<1>7. s \in Q
  <2>1. Q \in SUBSET (SUBSET s)
    OBVIOUS
  <2>. HIDE DEF Q
  <2>. QED
    BY <1>1, <1>5, <1>6, <2>1, SetInduction
<1>. QED
  BY <1>1, <1>7, SumUnfolds DEF G, g

LEMMA SumRemove ==
  ASSUME NEW f, Summable(f)
  PROVE  /\ SumFunction(f) \in Int
         /\ \A x \in DOMAIN f :
              SumFunction(f) = f[x] + SumFunction([y \in DOMAIN f \ {x} |-> f[y]])
<1>1. PICK F : Partial(f, F) /\ F = CHOOSE G : Partial(f, G)
  BY HasPartial
<1>2. /\ F[DOMAIN f] \in Int
      /\ \A x \in DOMAIN f : F[DOMAIN f] = f[x] + F[DOMAIN f \ {x}]
  BY <1>1, AnyFirst DEF TakesAny
<1>3. SumFunction(f) = F[DOMAIN f]
  BY <1>1, SumUnfolds
<1>4. \A x \in DOMAIN f : SumFunction([y \in DOMAIN f \ {x} |-> f[y]]) = F[DOMAIN f \ {x}]
  BY <1>1, SumOfPart
<1>. QED
  BY <1>2, <1>3, <1>4

\* The sum over part of the domain of a function.
Part(f, s) == SumFunction([y \in s |-> f[y]])

LEMMA PartStep ==
  ASSUME NEW f, Summable(f), NEW s \in SUBSET DOMAIN f
  PROVE  /\ Part(f, {}) = 0
         /\ Part(f, s) \in Int
         /\ \A x \in DOMAIN f \ s : Part(f, s \cup {x}) = f[x] + Part(f, s)
<1>1. PICK F : Partial(f, F)
  BY HasPartial
<1>2. \A r \in SUBSET DOMAIN f : Part(f, r) = F[r]
  BY <1>1, SumOfPart DEF Part
<1>3. /\ F[{}] = 0 /\ \A r \in SUBSET DOMAIN f : F[r] \in Int
      /\ \A r \in SUBSET DOMAIN f : \A x \in r : F[r] = f[x] + F[r \ {x}]
  BY <1>1, AnyFirst DEF TakesAny
<1>4. ASSUME NEW x \in DOMAIN f \ s
      PROVE  Part(f, s \cup {x}) = f[x] + Part(f, s)
  <2>1. (s \cup {x}) \ {x} = s /\ s \cup {x} \in SUBSET DOMAIN f /\ x \in s \cup {x}
    OBVIOUS
  <2>. QED
    BY <1>2, <1>3, <2>1
<1>. QED
  BY <1>2, <1>3, <1>4

LEMMA PartWhole ==
  ASSUME NEW f, f = [x \in DOMAIN f |-> f[x]]
  PROVE  SumFunction(f) = Part(f, DOMAIN f)
BY DEF Part

LEMMA PartUnion ==
  ASSUME NEW f, Summable(f), NEW s \in SUBSET DOMAIN f, NEW r \in SUBSET DOMAIN f,
         s \cap r = {}
  PROVE  Part(f, s \cup r) = Part(f, s) + Part(f, r)
<1>. DEFINE Q == {q \in SUBSET r : Part(f, s \cup q) = Part(f, s) + Part(f, q)}
<1>1. \A q \in SUBSET DOMAIN f :
        /\ Part(f, {}) = 0 /\ Part(f, q) \in Int
        /\ \A x \in DOMAIN f \ q : f[x] \in Int /\ Part(f, q \cup {x}) = f[x] + Part(f, q)
  BY PartStep DEF Summable
<1>2. {} \in Q
  <2>1. s \cup {} = s
    OBVIOUS
  <2>. QED
    BY <1>1, <2>1
<1>3. ASSUME NEW q, q \in Q, NEW x \in r \ q PROVE q \cup {x} \in Q
  <2>. q \in SUBSET r
    BY <1>3
  <2>0. s \cup (q \cup {x}) = (s \cup q) \cup {x}
    OBVIOUS
  <2>1. /\ s \cup q \in SUBSET DOMAIN f /\ q \in SUBSET DOMAIN f /\ q \cup {x} \in SUBSET r
        /\ x \in DOMAIN f \ (s \cup q) /\ x \in DOMAIN f \ q
    OBVIOUS
  <2>2. Part(f, (s \cup q) \cup {x}) = f[x] + Part(f, s \cup q)
    BY <1>1, <2>1
  <2>3. Part(f, q \cup {x}) = f[x] + Part(f, q)
    BY <1>1, <2>1
  <2>4. Part(f, s \cup q) = Part(f, s) + Part(f, q)
    BY <1>3
  <2>5. f[x] \in Int /\ Part(f, s) \in Int /\ Part(f, q) \in Int
    BY <1>1, <2>1
  <2>6. Part(f, s \cup (q \cup {x})) = f[x] + Part(f, s \cup q)
    BY <2>0, <2>2, Zenon
  <2>7. Part(f, s \cup (q \cup {x})) = Part(f, s) + Part(f, q \cup {x})
    BY ONLY <2>3, <2>4, <2>5, <2>6
  <2>. QED
    BY <2>1, <2>7
<1>4. r \in Q
  <2>1. IsFiniteSet(r) /\ Q \in SUBSET (SUBSET r)
    BY FS_Subset DEF Summable
  <2>. HIDE DEF Q
  <2>. QED
    BY <1>2, <1>3, <2>1, SetInduction
<1>. QED
  BY <1>4

\* Sums of sums, of multiples and over another index.
LEMMA PartZero ==
  ASSUME NEW f, Summable(f), NEW s \in SUBSET DOMAIN f, \A x \in s : f[x] = 0
  PROVE  Part(f, s) = 0
<1>. DEFINE Q == {q \in SUBSET s : Part(f, q) = 0}
<1>1. {} \in Q
  BY PartStep
<1>2. ASSUME NEW q, q \in Q, NEW x \in s \ q PROVE q \cup {x} \in Q
  <2>1. q \in SUBSET DOMAIN f /\ x \in DOMAIN f \ q /\ Part(f, q) = 0 /\ f[x] = 0
    BY <1>2
  <2>2. Part(f, q \cup {x}) = f[x] + Part(f, q)
    BY <2>1, PartStep
  <2>3. Part(f, q \cup {x}) = 0
    BY <2>1, <2>2
  <2>. QED
    BY <1>2, <2>3
<1>3. s \in Q
  <2>1. IsFiniteSet(s) /\ Q \in SUBSET (SUBSET s)
    BY FS_Subset DEF Summable
  <2>. HIDE DEF Q
  <2>. QED
    BY <1>1, <1>2, <2>1, SetInduction
<1>. QED
  BY <1>3

LEMMA PartPlus ==
  ASSUME NEW f, Summable(f), NEW g, Summable(g), NEW h, Summable(h), NEW s,
         s \in SUBSET DOMAIN f, s \in SUBSET DOMAIN g, s \in SUBSET DOMAIN h,
         \A x \in s : h[x] = f[x] + g[x]
  PROVE  Part(h, s) = Part(f, s) + Part(g, s)
<1>. DEFINE Q == {q \in SUBSET s : Part(h, q) = Part(f, q) + Part(g, q)}
<1>1. {} \in Q
  <2>1. Part(f, {}) = 0 /\ Part(g, {}) = 0 /\ Part(h, {}) = 0
    BY PartStep
  <2>. QED
    BY <2>1
<1>2. ASSUME NEW q, q \in Q, NEW x \in s \ q PROVE q \cup {x} \in Q
  <2>1. /\ q \in SUBSET DOMAIN f /\ x \in DOMAIN f \ q
        /\ q \in SUBSET DOMAIN g /\ x \in DOMAIN g \ q
        /\ q \in SUBSET DOMAIN h /\ x \in DOMAIN h \ q
    BY <1>2
  <2>2. /\ Part(f, q \cup {x}) = f[x] + Part(f, q)
        /\ Part(g, q \cup {x}) = g[x] + Part(g, q)
        /\ Part(h, q \cup {x}) = h[x] + Part(h, q)
    BY <2>1, PartStep
  <2>3. /\ f[x] \in Int /\ g[x] \in Int /\ Part(f, q) \in Int /\ Part(g, q) \in Int
    BY <2>1, PartStep DEF Summable
  <2>4. h[x] = f[x] + g[x] /\ Part(h, q) = Part(f, q) + Part(g, q)
    BY <1>2
  <2>5. Part(h, q \cup {x}) = Part(f, q \cup {x}) + Part(g, q \cup {x})
    BY <2>2, <2>3, <2>4
  <2>. QED
    BY <1>2, <2>5
<1>3. s \in Q
  <2>1. IsFiniteSet(s) /\ Q \in SUBSET (SUBSET s)
    BY FS_Subset DEF Summable
  <2>. HIDE DEF Q
  <2>. QED
    BY <1>1, <1>2, <2>1, SetInduction
<1>. QED
  BY <1>3

LEMMA PartTimes ==
  ASSUME NEW f, Summable(f), NEW h, Summable(h), NEW s, NEW a \in Int,
         s \in SUBSET DOMAIN f, s \in SUBSET DOMAIN h,
         \A x \in s : h[x] = f[x] * a
  PROVE  Part(h, s) = Part(f, s) * a
<1>. DEFINE Q == {q \in SUBSET s : Part(h, q) = Part(f, q) * a}
<1>1. {} \in Q
  <2>1. Part(f, {}) = 0 /\ Part(h, {}) = 0
    BY PartStep
  <2>. QED
    BY <2>1
<1>2. ASSUME NEW q, q \in Q, NEW x \in s \ q PROVE q \cup {x} \in Q
  <2>1. /\ q \in SUBSET DOMAIN f /\ x \in DOMAIN f \ q
        /\ q \in SUBSET DOMAIN h /\ x \in DOMAIN h \ q
    BY <1>2
  <2>2. /\ Part(f, q \cup {x}) = f[x] + Part(f, q)
        /\ Part(h, q \cup {x}) = h[x] + Part(h, q)
    BY <2>1, PartStep
  <2>3. f[x] \in Int /\ Part(f, q) \in Int
    BY <2>1, PartStep DEF Summable
  <2>4. h[x] = f[x] * a /\ Part(h, q) = Part(f, q) * a
    BY <1>2
  <2>5. Part(h, q \cup {x}) = Part(f, q \cup {x}) * a
    BY <2>2, <2>3, <2>4
  <2>. QED
    BY <1>2, <2>5
<1>3. s \in Q
  <2>1. IsFiniteSet(s) /\ Q \in SUBSET (SUBSET s)
    BY FS_Subset DEF Summable
  <2>. HIDE DEF Q
  <2>. QED
    BY <1>1, <1>2, <2>1, SetInduction
<1>. QED
  BY <1>3

\* The same numbers under other names.
LEMMA PartRenamed ==
  ASSUME NEW f, Summable(f), NEW g, Summable(g), NEW s \in SUBSET DOMAIN f,
         NEW b, \A x \in s : b[x] \in DOMAIN g /\ g[b[x]] = f[x],
         \A x, y \in s : b[x] = b[y] => x = y
  PROVE  Part(f, s) = Part(g, {b[x] : x \in s})
<1>. DEFINE image(q) == {b[x] : x \in q}
            Q == {q \in SUBSET s : Part(f, q) = Part(g, image(q))}
<1>1. {} \in Q
  <2>1. image({}) = {}
    OBVIOUS
  <2>2. Part(f, {}) = 0 /\ Part(g, {}) = 0
    BY PartStep
  <2>. QED
    BY <2>1, <2>2
<1>2. ASSUME NEW q, q \in Q, NEW x \in s \ q PROVE q \cup {x} \in Q
  <2>1. /\ q \in SUBSET DOMAIN f /\ x \in DOMAIN f \ q /\ q \in SUBSET s
        /\ image(q) \in SUBSET DOMAIN g /\ b[x] \in DOMAIN g \ image(q)
    BY <1>2
  <2>2. image(q \cup {x}) = image(q) \cup {b[x]}
    OBVIOUS
  <2>. HIDE DEF image
  <2>3. Part(f, q \cup {x}) = f[x] + Part(f, q)
    BY <2>1, PartStep
  <2>4. Part(g, image(q) \cup {b[x]}) = g[b[x]] + Part(g, image(q))
    BY <2>1, PartStep
  <2>5. Part(g, image(q \cup {x})) = g[b[x]] + Part(g, image(q))
    BY <2>2, <2>4, Zenon
  <2>6. g[b[x]] = f[x] /\ Part(f, q) = Part(g, image(q))
    BY <1>2
  <2>7. Part(f, q \cup {x}) = Part(g, image(q \cup {x}))
    BY <2>3, <2>5, <2>6
  <2>. QED
    BY <2>1, <2>7
<1>3. s \in Q
  <2>1. IsFiniteSet(s) /\ Q \in SUBSET (SUBSET s)
    BY FS_Subset DEF Summable
  <2>. HIDE DEF Q
  <2>. QED
    BY <1>1, <1>2, <2>1, SetInduction
<1>. QED
  BY <1>3

\* A sum taken group by group.
LEMMA PartGrouped ==
  ASSUME NEW f, Summable(f), NEW h, Summable(h), NEW key,
         \A x \in DOMAIN f : key[x] \in DOMAIN h,
         \A y \in DOMAIN h : h[y] = Part(f, {x \in DOMAIN f : key[x] = y})
  PROVE  Part(f, DOMAIN f) = Part(h, DOMAIN h)
<1>. DEFINE keyed(q) == {x \in DOMAIN f : key[x] \in q}
            Q == {q \in SUBSET DOMAIN h : Part(f, keyed(q)) = Part(h, q)}
<1>1. {} \in Q
  <2>1. keyed({}) = {}
    OBVIOUS
  <2>2. Part(f, {}) = 0 /\ Part(h, {}) = 0
    BY PartStep
  <2>. QED
    BY <2>1, <2>2
<1>2. ASSUME NEW q, q \in Q, NEW y \in DOMAIN h \ q PROVE q \cup {y} \in Q
  <2>. DEFINE one == {x \in DOMAIN f : key[x] = y}
  <2>1. q \in SUBSET DOMAIN h
    BY <1>2
  <2>2. /\ keyed(q) \in SUBSET DOMAIN f /\ one \in SUBSET DOMAIN f
        /\ keyed(q) \cap one = {}
    OBVIOUS
  <2>3. keyed(q \cup {y}) = keyed(q) \cup one
    OBVIOUS
  <2>4. h[y] = Part(f, one) /\ Part(f, keyed(q)) = Part(h, q)
    BY <1>2
  <2>. HIDE DEF keyed, one
  <2>5. Part(f, keyed(q) \cup one) = Part(f, keyed(q)) + Part(f, one)
    BY <2>2, PartUnion
  <2>6. Part(f, keyed(q \cup {y})) = Part(f, keyed(q)) + Part(f, one)
    BY <2>3, <2>5, Zenon
  <2>7. Part(h, q \cup {y}) = h[y] + Part(h, q)
    BY <2>1, PartStep
  <2>8. Part(h, q) \in Int /\ h[y] \in Int
    BY <2>1, PartStep DEF Summable
  <2>9. Part(f, keyed(q \cup {y})) = Part(h, q \cup {y})
    BY <2>4, <2>6, <2>7, <2>8
  <2>. QED
    BY <2>1, <2>9
<1>3. DOMAIN h \in Q
  <2>1. IsFiniteSet(DOMAIN h) /\ Q \in SUBSET (SUBSET DOMAIN h)
    BY DEF Summable
  <2>. HIDE DEF Q
  <2>. QED
    BY <1>1, <1>2, <2>1, SetInduction
<1>4. keyed(DOMAIN h) = DOMAIN f
  OBVIOUS
<1>. QED
  BY <1>3, <1>4

-----------------------------------------------------------------------------
(* Changes along time                                                      *)

\* Changes of value or of weight: numbers at times.
Changes(V) == IsFiniteSet(V) /\ \A c \in V : c.event_time \in Int /\ c.delta \in Int

\* The sum of the changes grows by those of each time.
LEMMA TotalStep ==
  ASSUME NEW V, Changes(V), NEW n \in Int
  PROVE  /\ total(before(V, n)) \in Int /\ total(at(V, n)) \in Int
         /\ total(before(V, n + 1)) = total(before(V, n)) + total(at(V, n))
<1>. DEFINE f == [c \in V |-> c.delta]
<1>1. Summable(f) /\ DOMAIN f = V
  BY DEF Summable, Changes
<1>2. \A C \in SUBSET V : total(C) = Part(f, C)
  <2>1. ASSUME NEW C \in SUBSET V PROVE [c \in C |-> c.delta] = [c \in C |-> f[c]]
    OBVIOUS
  <2>. QED
    BY <2>1, Zenon DEF total, Part
<1>. HIDE DEF f
<1>3. /\ before(V, n) \in SUBSET V /\ at(V, n) \in SUBSET V /\ before(V, n + 1) \in SUBSET V
      /\ before(V, n) \cap at(V, n) = {}
  BY DEF before, at
<1>4. before(V, n + 1) = before(V, n) \cup at(V, n)
  BY DEF before, at, Changes
<1>5. Part(f, before(V, n) \cup at(V, n)) = Part(f, before(V, n)) + Part(f, at(V, n))
  BY <1>1, <1>3, PartUnion
<1>6. Part(f, before(V, n)) \in Int /\ Part(f, at(V, n)) \in Int
  BY <1>1, <1>3, PartStep
<1>7. total(before(V, n + 1)) = Part(f, before(V, n) \cup at(V, n))
  BY <1>2, <1>3, <1>4, Zenon
<1>. QED
  BY <1>2, <1>3, <1>5, <1>6, <1>7

LEMMA TotalOfNone == total({}) = 0
BY SumEmpty DEF total

\* The weighted value of a stream before time n, by its changes.
weighted(V, W, n) == total(before(V, n)) * total(before(W, n))

\* Of the ways to break a tie one is right: it gives the change of the weighted value.
RightOne(V, W, t) == weighted(V, W, t + 1) - weighted(V, W, t)

LEMMA Products ==
  ASSUME NEW v \in Int, NEW w \in Int, NEW v0 \in Int, NEW w0 \in Int
  PROVE  /\ (v0 + v) * (w0 + w) - v0 * w0 = v * w0 + w * (v0 + v)
         /\ v = 0 => \A d \in Int : (v0 + v) * (w0 + w) - v0 * w0
                       = d * v0 + v * (w0 + w) + (w - d) * (v0 + v)
<1>1. (v0 + v) * (w0 + w) - v0 * w0 = v * w0 + w * (v0 + v)
  OBVIOUS
<1>2. ASSUME v = 0, NEW d \in Int
      PROVE  (v0 + v) * (w0 + w) - v0 * w0 = d * v0 + v * (w0 + w) + (w - d) * (v0 + v)
  <2>1. v0 + v = v0 /\ v * (w0 + w) = 0
    BY <1>2
  <2>2. v0 * (w0 + w) - v0 * w0 = d * v0 + 0 + (w - d) * v0
    OBVIOUS
  <2>. QED
    BY <2>1, <2>2
<1>. QED
  BY <1>1, <1>2

LEMMA RightIsPossible ==
  ASSUME NEW V, NEW W, Changes(V), Changes(W), NEW t \in Int
  PROVE  /\ RightOne(V, W, t) \in contributions(V, W, t)
         /\ RightOne(V, W, t) \in Int
         /\ IsFiniteSet(contributions(V, W, t))
         /\ at(V, t) \cup at(W, t) = {} => RightOne(V, W, t) = 0
<1>. DEFINE v  == total(at(V, t))
            w  == total(at(W, t))
            v0 == total(before(V, t))
            w0 == total(before(W, t))
            gives(c) == c.delta * v0 + v * (w0 + w) + (w - c.delta) * (v0 + v)
            early == v * w0 + w * (v0 + v)
            late == {gives(c) : c \in at(W, t)}
<1>1. /\ v \in Int /\ w \in Int /\ v0 \in Int /\ w0 \in Int
      /\ total(before(V, t + 1)) = v0 + v /\ total(before(W, t + 1)) = w0 + w
  BY TotalStep
<1>2. contributions(V, W, t) = IF at(V, t) \cup at(W, t) = {} THEN {0}
                               ELSE (IF at(V, t) = {} THEN {} ELSE {early}) \cup late
  BY DEF contributions
<1>3. IsFiniteSet(at(W, t)) /\ \A c \in at(W, t) : c.delta \in Int
  BY FS_Subset DEF at, Changes
<1>4. RightOne(V, W, t) = (v0 + v) * (w0 + w) - v0 * w0
  BY <1>1 DEF RightOne, weighted
<1>5. at(V, t) = {} => v = 0
  BY TotalOfNone
<1>6. at(W, t) = {} => w = 0
  BY TotalOfNone
<1>. HIDE DEF v, w, v0, w0
<1>7. RightOne(V, W, t) = early
  BY <1>1, <1>4, Products
<1>8. at(V, t) = {} => \A c \in at(W, t) : RightOne(V, W, t) = gives(c)
  BY <1>1, <1>3, <1>4, <1>5, Products
<1>9. IsFiniteSet(late)
  <2>. DEFINE g == [c \in at(W, t) |-> gives(c)]
  <2>1. late = {g[c] : c \in at(W, t)}
    OBVIOUS
  <2>. HIDE DEF g, late
  <2>2. DOMAIN g = at(W, t)
    BY DEF g
  <2>. QED
    BY <1>3, <2>1, <2>2, ImageFinite
<1>10. RightOne(V, W, t) \in Int
  BY <1>1, <1>7
<1>11. at(V, t) \cup at(W, t) = {} => RightOne(V, W, t) = 0
  BY <1>1, <1>5, <1>6, <1>7
<1>12. IsFiniteSet({0}) /\ IsFiniteSet({early} \cup late) /\ IsFiniteSet({} \cup late)
  BY <1>9, FS_Singleton, FS_Union, FS_EmptySet
<1>. HIDE DEF gives, early
<1>13. CASE at(V, t) \cup at(W, t) = {}
  BY <1>2, <1>10, <1>11, <1>12, <1>13
<1>14. CASE at(V, t) # {}
  <2>1. contributions(V, W, t) = {early} \cup late
    BY <1>2, <1>14
  <2>. QED
    BY <1>7, <1>10, <1>12, <1>14, <2>1
<1>15. CASE at(V, t) = {} /\ at(W, t) # {}
  <2>1. contributions(V, W, t) = {} \cup late
    BY <1>2, <1>15
  <2>2. PICK c \in at(W, t) : TRUE
    BY <1>15
  <2>3. RightOne(V, W, t) = gives(c) /\ gives(c) \in late
    BY <1>8, <1>15
  <2>. QED
    BY <1>10, <1>12, <1>15, <2>1, <2>3
<1>. QED
  BY <1>13, <1>14, <1>15

-----------------------------------------------------------------------------
(* The changes of the two sums                                             *)

\* The events of some streams, a line for each.
Lines(L) ==
  /\ IsFiniteSet(L)
  /\ \A x \in L : Changes(x.values) /\ Changes(x.weights)
  /\ \A x, y \in L : x.stream = y.stream => x = y

change_times(L) == UNION {{c.event_time : c \in x.values \cup x.weights} : x \in L}

cell(x, t) == [stream |-> x.stream, event_time |-> t,
               ws |-> contributions(x.values, x.weights, t), sw |-> total(at(x.weights, t))]
cells_of(L) == {cell(x, t) : x \in L, t \in change_times(L)}
tied_of(L) == {c \in cells_of(L) : Cardinality(c.ws) > 1}
orders_of(L) == {o \in [tied_of(L) -> UNION {c.ws : c \in tied_of(L)}] :
                   \A c \in tied_of(L) : o[c] \in c.ws}
part_of(L, o, c) == IF c \in tied_of(L) THEN o[c] ELSE CHOOSE x \in c.ws : TRUE
row_of(L, o, t) == [event_time |-> t,
                    ws |-> SumFunction([c \in at(cells_of(L), t) |-> part_of(L, o, c)]),
                    sw |-> SumFunction([c \in at(cells_of(L), t) |-> c.sw])]
rows_by(L, o) == {r \in {row_of(L, o, t) : t \in change_times(L)} : r.ws # 0 \/ r.sw # 0}

LEMMA FinalDeltas ==
  ASSUME NEW L
  PROVE  final_deltas(L) = {rows_by(L, o) : o \in orders_of(L)}
BY DEF final_deltas, rows_by, orders_of, row_of, part_of, tied_of, cells_of, cell, change_times

line_of(L, c) == CHOOSE x \in L : x.stream = c.stream
right(x, t) == RightOne(x.values, x.weights, t)
best(L) == [c \in tied_of(L) |-> right(line_of(L, c), c.event_time)]

LEMMA ChangeTimes ==
  ASSUME NEW L, Lines(L)
  PROVE  /\ IsFiniteSet(change_times(L)) /\ change_times(L) \subseteq Int
         /\ \A x \in L : \A t \in Int \ change_times(L) : at(x.values, t) \cup at(x.weights, t) = {}
<1>. DEFINE T(x) == {c.event_time : c \in x.values \cup x.weights}
            TT == {T(x) : x \in L}
<1>1. ASSUME NEW x \in L PROVE IsFiniteSet(T(x)) /\ T(x) \subseteq Int
  <2>. DEFINE C == x.values \cup x.weights
              g == [c \in C |-> c.event_time]
  <2>1. IsFiniteSet(C) /\ \A c \in C : c.event_time \in Int
    BY FS_Union DEF Lines, Changes
  <2>2. T(x) = {g[c] : c \in C} /\ DOMAIN g = C
    OBVIOUS
  <2>3. T(x) \subseteq Int
    BY <2>1
  <2>. HIDE DEF g, C, T
  <2>. QED
    BY <2>1, <2>2, <2>3, ImageFinite
<1>2. IsFiniteSet(TT)
  <2>. DEFINE g == [x \in L |-> T(x)]
  <2>1. TT = {g[x] : x \in L} /\ DOMAIN g = L
    OBVIOUS
  <2>2. IsFiniteSet(L)
    BY DEF Lines
  <2>. HIDE DEF g, T, TT
  <2>. QED
    BY <2>1, <2>2, ImageFinite
<1>3. change_times(L) = UNION TT
  BY DEF change_times
<1>4. \A x \in L : \A t \in Int \ change_times(L) : at(x.values, t) \cup at(x.weights, t) = {}
  BY DEF change_times, at
<1>. HIDE DEF T
<1>5. \A U \in TT : IsFiniteSet(U) /\ U \subseteq Int
  BY <1>1
<1>. HIDE DEF TT
<1>. QED
  BY <1>2, <1>3, <1>4, <1>5, FS_UNION

LEMMA BestOrder ==
  ASSUME NEW L, Lines(L)
  PROVE  /\ best(L) \in orders_of(L)
         /\ \A x \in L : \A t \in change_times(L) :
              part_of(L, best(L), cell(x, t)) = right(x, t)
<1>1. ASSUME NEW x \in L, NEW t \in change_times(L)
      PROVE  /\ line_of(L, cell(x, t)) = x /\ cell(x, t).event_time = t
             /\ cell(x, t) \in cells_of(L)
             /\ right(x, t) \in cell(x, t).ws /\ IsFiniteSet(cell(x, t).ws)
  <2>1. cell(x, t).stream = x.stream /\ cell(x, t).event_time = t
        /\ cell(x, t).ws = contributions(x.values, x.weights, t)
    BY DEF cell
  <2>2. line_of(L, cell(x, t)) = x
    <3>1. \A y \in L : y.stream = x.stream => y = x
      BY DEF Lines
    <3>2. \A y : y \in L /\ y.stream = cell(x, t).stream <=> y = x
      BY <2>1, <3>1, Zenon
    <3>. QED
      BY <2>1, <3>1, Zenon DEF line_of
  <2>3. t \in Int /\ Changes(x.values) /\ Changes(x.weights)
    BY ChangeTimes DEF Lines
  <2>4. cell(x, t) \in cells_of(L)
    BY DEF cells_of
  <2>. QED
    BY <2>1, <2>2, <2>3, <2>4, RightIsPossible DEF right
<1>2. \A c \in cells_of(L) : right(line_of(L, c), c.event_time) \in c.ws /\ IsFiniteSet(c.ws)
  <2>1. ASSUME NEW c \in cells_of(L)
        PROVE  right(line_of(L, c), c.event_time) \in c.ws /\ IsFiniteSet(c.ws)
    <3>1. PICK x \in L, t \in change_times(L) : c = cell(x, t)
      BY DEF cells_of
    <3>. QED
      BY <1>1, <3>1, Zenon
  <2>. QED
    BY <2>1
<1>3. tied_of(L) \subseteq cells_of(L)
  BY DEF tied_of
<1>4. best(L) \in orders_of(L)
  BY <1>2, <1>3 DEF orders_of, best
<1>5. ASSUME NEW c \in cells_of(L)
      PROVE  part_of(L, best(L), c) = right(line_of(L, c), c.event_time)
  <2>. DEFINE g == right(line_of(L, c), c.event_time)
  <2>1. CASE c \in tied_of(L)
    BY <2>1 DEF part_of, best
  <2>2. CASE c \notin tied_of(L)
    <3>1. g \in c.ws /\ IsFiniteSet(c.ws)
      BY <1>2
    <3>2. Cardinality(c.ws) <= 1 /\ Cardinality(c.ws) \in Nat /\ Cardinality(c.ws) # 0
      BY <2>2, <3>1, FS_CardinalityType, FS_EmptySet DEF tied_of
    <3>3. \E y : c.ws = {y}
      BY <3>1, <3>2, FS_Singleton
    <3>4. (CHOOSE y \in c.ws : TRUE) = g
      BY <3>1, <3>3
    <3>. QED
      BY <2>2, <3>4 DEF part_of
  <2>. QED
    BY <2>1, <2>2
<1>6. ASSUME NEW x \in L, NEW t \in change_times(L)
      PROVE  part_of(L, best(L), cell(x, t)) = right(x, t)
  BY <1>1, <1>5, Zenon
<1>. QED
  BY <1>4, <1>6

\* The sums over the lines before time n, of the weighted values and of the weights.
weighted_sum(L, n) == SumFunction([x \in L |-> weighted(x.values, x.weights, n)])
weight_sum(L, n) == SumFunction([x \in L |-> total(before(x.weights, n))])

LEMMA LineNumbers ==
  ASSUME NEW L, Lines(L), NEW x \in L, NEW n \in Int
  PROVE  /\ total(before(x.weights, n)) \in Int /\ total(at(x.weights, n)) \in Int
         /\ weighted(x.values, x.weights, n) \in Int
         /\ total(before(x.weights, n + 1)) = total(before(x.weights, n)) + total(at(x.weights, n))
         /\ right(x, n) \in Int
         /\ weighted(x.values, x.weights, n + 1) = weighted(x.values, x.weights, n) + right(x, n)
<1>1. Changes(x.values) /\ Changes(x.weights)
  BY DEF Lines
<1>2. \A m \in Int : total(before(x.weights, m)) \in Int /\ total(before(x.values, m)) \in Int
  BY <1>1, TotalStep
<1>3. \A m \in Int : weighted(x.values, x.weights, m) \in Int
  BY <1>2 DEF weighted
<1>4. n + 1 \in Int
  OBVIOUS
<1>. QED
  BY <1>1, <1>2, <1>3, <1>4, TotalStep DEF right, RightOne

\* The sums grow by what the streams give at each time.
LEMMA SumsStep ==
  ASSUME NEW L, Lines(L), NEW n \in Int
  PROVE  /\ weighted_sum(L, n) \in Int /\ weight_sum(L, n) \in Int
         /\ SumFunction([x \in L |-> right(x, n)]) \in Int
         /\ SumFunction([x \in L |-> total(at(x.weights, n))]) \in Int
         /\ weighted_sum(L, n + 1) = weighted_sum(L, n) + SumFunction([x \in L |-> right(x, n)])
         /\ weight_sum(L, n + 1) = weight_sum(L, n)
                                     + SumFunction([x \in L |-> total(at(x.weights, n))])
<1>. DEFINE a(m) == [x \in L |-> weighted(x.values, x.weights, m)]
            b(m) == [x \in L |-> total(before(x.weights, m))]
            r == [x \in L |-> right(x, n)]
            w == [x \in L |-> total(at(x.weights, n))]
<1>0. IsFiniteSet(L) /\ n + 1 \in Int
  BY DEF Lines
<1>1. /\ \A m \in Int : Summable(a(m)) /\ DOMAIN a(m) = L
      /\ \A m \in Int : Summable(b(m)) /\ DOMAIN b(m) = L
      /\ Summable(r) /\ DOMAIN r = L /\ Summable(w) /\ DOMAIN w = L
  BY <1>0, LineNumbers DEF Summable
<1>2. /\ \A x \in L : a(n + 1)[x] = a(n)[x] + r[x]
      /\ \A x \in L : b(n + 1)[x] = b(n)[x] + w[x]
  BY LineNumbers
<1>3. /\ \A m \in Int : weighted_sum(L, m) = Part(a(m), L)
      /\ \A m \in Int : weight_sum(L, m) = Part(b(m), L)
      /\ SumFunction([x \in L |-> right(x, n)]) = Part(r, L)
      /\ SumFunction([x \in L |-> total(at(x.weights, n))]) = Part(w, L)
  <2>1. ASSUME NEW f, f = [x \in L |-> f[x]] PROVE SumFunction(f) = Part(f, L)
    BY <2>1, Zenon DEF Part
  <2>2. /\ \A m \in Int : a(m) = [x \in L |-> a(m)[x]] /\ b(m) = [x \in L |-> b(m)[x]]
        /\ r = [x \in L |-> r[x]] /\ w = [x \in L |-> w[x]]
    OBVIOUS
  <2>3. /\ \A m : weighted_sum(L, m) = SumFunction(a(m))
        /\ \A m : weight_sum(L, m) = SumFunction(b(m))
    BY DEF weighted_sum, weight_sum
  <2>. HIDE DEF a, b
  <2>4. \A m \in Int : weighted_sum(L, m) = Part(a(m), L)
    BY <2>1, <2>2, <2>3
  <2>5. \A m \in Int : weight_sum(L, m) = Part(b(m), L)
    BY <2>1, <2>2, <2>3
  <2>6. SumFunction(r) = Part(r, L) /\ SumFunction(w) = Part(w, L)
    BY <2>1, <2>2, Zenon
  <2>. QED
    BY <2>4, <2>5, <2>6
<1>. HIDE DEF a, b, r, w
<1>4. Part(a(n + 1), L) = Part(a(n), L) + Part(r, L)
  BY <1>0, <1>1, <1>2, PartPlus
<1>5. Part(b(n + 1), L) = Part(b(n), L) + Part(w, L)
  BY <1>0, <1>1, <1>2, PartPlus
<1>6. Part(a(n), L) \in Int /\ Part(b(n), L) \in Int /\ Part(r, L) \in Int /\ Part(w, L) \in Int
  BY <1>1, PartStep
<1>. QED
  BY <1>0, <1>3, <1>4, <1>5, <1>6

\* The row of a time takes those, if the ties are broken well.
LEMMA RowSums ==
  ASSUME NEW L, Lines(L), NEW t \in change_times(L)
  PROVE  /\ row_of(L, best(L), t).event_time = t
         /\ row_of(L, best(L), t).ws = SumFunction([x \in L |-> right(x, t)])
         /\ row_of(L, best(L), t).sw = SumFunction([x \in L |-> total(at(x.weights, t))])
<1>. DEFINE C == at(cells_of(L), t)
            p == [c \in C |-> part_of(L, best(L), c)]
            s == [c \in C |-> c.sw]
            r == [x \in L |-> right(x, t)]
            w == [x \in L |-> total(at(x.weights, t))]
            b == [x \in L |-> cell(x, t)]
<1>1. t \in Int /\ IsFiniteSet(L)
  BY ChangeTimes DEF Lines
<1>2. C = {b[x] : x \in L}
  <2>1. C = {cell(x, t) : x \in L}
    <3>1. \A x, u : cell(x, u).event_time = u
      BY DEF cell
    <3>. QED
      BY <3>1 DEF at, cells_of
  <2>. QED
    BY <2>1
<1>3. \A x \in L : b[x] \in C /\ p[b[x]] = r[x] /\ s[b[x]] = w[x]
  <2>1. \A x \in L : b[x] \in C /\ b[x] = cell(x, t)
    BY <1>2
  <2>2. \A x \in L : cell(x, t).sw = total(at(x.weights, t))
    BY DEF cell
  <2>. QED
    BY <2>1, <2>2, BestOrder
<1>4. \A x, y \in L : b[x] = b[y] => x = y
  <2>1. \A x, y \in L : cell(x, t) = cell(y, t) => x.stream = y.stream
    BY DEF cell
  <2>. QED
    BY <2>1 DEF Lines
<1>5. \A x \in L : r[x] \in Int /\ w[x] \in Int
  BY <1>1, LineNumbers
<1>6. Summable(r) /\ Summable(w) /\ DOMAIN r = L /\ DOMAIN w = L
  BY <1>1, <1>5 DEF Summable
<1>7. IsFiniteSet(C)
  <2>1. DOMAIN b = L
    OBVIOUS
  <2>. HIDE DEF b, C
  <2>. QED
    BY <1>1, <1>2, <2>1, ImageFinite
<1>8. Summable(p) /\ Summable(s) /\ DOMAIN p = C /\ DOMAIN s = C
  <2>1. \A c \in C : p[c] \in Int /\ s[c] \in Int
    <3>. HIDE DEF p, s, r, w, b, C
    <3>. QED
      BY <1>2, <1>3, <1>5
  <2>2. DOMAIN p = C /\ DOMAIN s = C
    OBVIOUS
  <2>. HIDE DEF p, s, C
  <2>. QED
    BY <1>7, <2>1, <2>2 DEF Summable
<1>9. Part(p, C) = SumFunction([c \in C |-> part_of(L, best(L), c)])
      /\ Part(s, C) = SumFunction([c \in C |-> c.sw])
      /\ Part(r, L) = SumFunction(r) /\ Part(w, L) = SumFunction(w)
  <2>1. [c \in C |-> p[c]] = p /\ [c \in C |-> s[c]] = s
    OBVIOUS
  <2>2. [x \in L |-> r[x]] = r /\ [x \in L |-> w[x]] = w
    OBVIOUS
  <2>. QED
    BY <2>1, <2>2, Zenon DEF Part
<1>10. row_of(L, best(L), t) = [event_time |-> t, ws |-> Part(p, C), sw |-> Part(s, C)]
  BY <1>9, Zenon DEF row_of
<1>. HIDE DEF p, s, r, w, b, C
<1>11. Part(r, L) = Part(p, C)
  BY <1>2, <1>3, <1>4, <1>6, <1>8, PartRenamed
<1>12. Part(w, L) = Part(s, C)
  BY <1>2, <1>3, <1>4, <1>6, <1>8, PartRenamed
<1>13. Part(r, L) = SumFunction([x \in L |-> right(x, t)])
       /\ Part(w, L) = SumFunction([x \in L |-> total(at(x.weights, t))])
  BY <1>9 DEF r, w
<1>. QED
  BY <1>10, <1>11, <1>12, <1>13

-----------------------------------------------------------------------------
(* The sums up to a time                                                   *)

\* A finite set of numbers has a number below all of them.
LEMMA HasFloor ==
  ASSUME NEW T, IsFiniteSet(T), T \subseteq Int
  PROVE  \E m \in Int : \A t \in T : m < t
<1>. DEFINE Q == {S \in SUBSET T : \E m \in Int : \A t \in S : m < t}
<1>1. {} \in Q
  OBVIOUS
<1>2. ASSUME NEW S, S \in Q, NEW x \in T \ S PROVE S \cup {x} \in Q
  <2>1. PICK m \in Int : \A t \in S : m < t
    BY <1>2
  <2>2. x \in Int
    OBVIOUS
  <2>. DEFINE l == IF m < x THEN m ELSE x - 1
  <2>3. l \in Int /\ \A t \in S \cup {x} : l < t
    BY <1>2, <2>1, <2>2
  <2>. QED
    BY <1>2, <2>3
<1>3. T \in Q
  <2>1. Q \in SUBSET (SUBSET T)
    OBVIOUS
  <2>. HIDE DEF Q
  <2>. QED
    BY <1>1, <1>2, <2>1, SetInduction
<1>. QED
  BY <1>3

\* Induction over the times from one at which nothing has happened yet.
LEMMA TimeInduction ==
  ASSUME NEW m \in Int, NEW Q \in SUBSET Int, \A n \in Int : n <= m => n \in Q,
         \A n \in Q : n + 1 \in Q
  PROVE  Q = Int
<1>. DEFINE N == {i \in Nat : m + i \in Q}
<1>1. 0 \in N
  OBVIOUS
<1>2. ASSUME NEW i \in N PROVE i + 1 \in N
  <2>1. (m + i) + 1 = m + (i + 1)
    OBVIOUS
  <2>. QED
    BY <2>1
<1>3. N = Nat
  <2>1. N \in SUBSET Nat
    OBVIOUS
  <2>. HIDE DEF N
  <2>. QED
    BY <1>1, <1>2, <2>1, Induction
<1>4. ASSUME NEW n \in Int, n > m PROVE n \in Q
  <2>1. n - m \in Nat /\ m + (n - m) = n
    BY <1>4
  <2>. QED
    BY <1>3, <2>1
<1>5. \A n \in Int : n <= m \/ n > m
  OBVIOUS
<1>6. \A n \in Int : n \in Q
  BY <1>4, <1>5
<1>. QED
  BY <1>6

\* One row for a time, of whole sums.
Dated(D) ==
  /\ IsFiniteSet(D)
  /\ \A d \in D : d.event_time \in Int /\ d.ws \in Int /\ d.sw \in Int
  /\ \A d, e \in D : d.event_time = e.event_time => d = e

\* Numbers S that grow at each time by what f gives the row of that time are the sums
\* of f.
LEMMA Accumulates ==
  ASSUME NEW D, Dated(D), NEW f, Summable(f), DOMAIN f = D,
         NEW S \in [Int -> Int], NEW m \in Int,
         \A n \in Int : n <= m => S[n] = 0,
         \A d \in D : m <= d.event_time,
         \A n \in Int : S[n + 1] # S[n] => \E d \in D : d.event_time = n,
         \A d \in D : S[d.event_time + 1] = S[d.event_time] + f[d]
  PROVE  \A n \in Int : Part(f, before(D, n)) = S[n]
<1>. DEFINE Q == {n \in Int : Part(f, before(D, n)) = S[n]}
<1>1. ASSUME NEW n \in Int, n <= m PROVE n \in Q
  <2>1. before(D, n) = {}
    BY <1>1 DEF before, Dated
  <2>2. Part(f, {}) = 0
    BY PartStep
  <2>3. Part(f, before(D, n)) = 0
    BY <2>1, <2>2, Zenon
  <2>. QED
    BY <1>1, <2>3
<1>2. ASSUME NEW n \in Int, n \in Q PROVE n + 1 \in Q
  <2>1. before(D, n + 1) = before(D, n) \cup at(D, n) /\ before(D, n) \in SUBSET D
    BY DEF before, at, Dated
  <2>2. CASE at(D, n) = {}
    <3>1. before(D, n + 1) = before(D, n)
      BY <2>1, <2>2
    <3>2. S[n + 1] = S[n]
      BY <2>2 DEF at
    <3>3. Part(f, before(D, n + 1)) = S[n]
      BY <1>2, <3>1, Zenon
    <3>. QED
      BY <3>2, <3>3
  <2>3. ASSUME NEW d \in at(D, n) PROVE n + 1 \in Q
    <3>1. d \in D /\ d.event_time = n /\ at(D, n) = {d}
      BY DEF at, Dated
    <3>2. before(D, n + 1) = before(D, n) \cup {d} /\ d \in D \ before(D, n)
      BY <2>1, <3>1 DEF before
    <3>3. Part(f, before(D, n) \cup {d}) = f[d] + Part(f, before(D, n))
      BY <2>1, <3>2, PartStep
    <3>4. Part(f, before(D, n + 1)) = f[d] + Part(f, before(D, n))
      BY <3>2, <3>3, Zenon
    <3>5. S[n + 1] = S[n] + f[d] /\ f[d] \in Int /\ S[n] \in Int
      BY <3>1 DEF Summable
    <3>6. Part(f, before(D, n)) = S[n]
      BY <1>2
    <3>7. Part(f, before(D, n + 1)) = S[n + 1]
      BY <3>4, <3>5, <3>6
    <3>. QED
      BY <3>7
  <2>. QED
    BY <2>2, <2>3
<1>3. Q = Int
  <2>1. Q \in SUBSET Int
    OBVIOUS
  <2>2. \A n \in Q : n + 1 \in Q
    BY <1>2
  <2>. HIDE DEF Q
  <2>. QED
    BY <1>1, <2>1, <2>2, TimeInduction
<1>. QED
  BY <1>3

\* Some answer of final_deltas adds up to the sums over the lines.
Adds(D, L) ==
  \A n \in Int : /\ SumFunction([d \in before(D, n) |-> d.ws]) = weighted_sum(L, n)
                 /\ SumFunction([d \in before(D, n) |-> d.sw]) = weight_sum(L, n)

LEMMA BestAdds ==
  ASSUME NEW L, Lines(L)
  PROVE  \E D \in final_deltas(L) : Dated(D) /\ Adds(D, L) /\ {d.event_time : d \in D} \subseteq change_times(L)
<1>. DEFINE T == change_times(L)
            row(t) == row_of(L, best(L), t)
            D == rows_by(L, best(L))
            ws == [d \in D |-> d.ws]
            sw == [d \in D |-> d.sw]
            Sws == [n \in Int |-> weighted_sum(L, n)]
            Ssw == [n \in Int |-> weight_sum(L, n)]
<1>1. D \in final_deltas(L)
  BY BestOrder, FinalDeltas
<1>2. IsFiniteSet(T) /\ T \subseteq Int
  BY ChangeTimes
<1>3. \A t \in T : /\ row(t).event_time = t
                   /\ row(t).ws \in Int /\ row(t).sw \in Int
                   /\ weighted_sum(L, t + 1) = weighted_sum(L, t) + row(t).ws
                   /\ weight_sum(L, t + 1) = weight_sum(L, t) + row(t).sw
  <2>1. ASSUME NEW t \in T
        PROVE  /\ row(t).event_time = t
               /\ row(t).ws \in Int /\ row(t).sw \in Int
               /\ weighted_sum(L, t + 1) = weighted_sum(L, t) + row(t).ws
               /\ weight_sum(L, t + 1) = weight_sum(L, t) + row(t).sw
    <3>1. t \in Int
      BY <1>2
    <3>2. /\ row(t).event_time = t
          /\ row(t).ws = SumFunction([x \in L |-> right(x, t)])
          /\ row(t).sw = SumFunction([x \in L |-> total(at(x.weights, t))])
      BY RowSums
    <3>3. /\ SumFunction([x \in L |-> right(x, t)]) \in Int
          /\ SumFunction([x \in L |-> total(at(x.weights, t))]) \in Int
          /\ weighted_sum(L, t + 1) = weighted_sum(L, t) + SumFunction([x \in L |-> right(x, t)])
          /\ weight_sum(L, t + 1) = weight_sum(L, t)
                                      + SumFunction([x \in L |-> total(at(x.weights, t))])
      BY <3>1, SumsStep, Zenon
    <3>. HIDE DEF row
    <3>. QED
      BY <3>2, <3>3, Zenon
  <2>. HIDE DEF T, row
  <2>. QED
    BY <2>1
<1>4. \A n \in Int \ T : weighted_sum(L, n + 1) = weighted_sum(L, n)
                         /\ weight_sum(L, n + 1) = weight_sum(L, n)
  <2>1. ASSUME NEW n \in Int \ T
        PROVE  weighted_sum(L, n + 1) = weighted_sum(L, n) /\ weight_sum(L, n + 1) = weight_sum(L, n)
    <3>. DEFINE r == [x \in L |-> right(x, n)]
                w == [x \in L |-> total(at(x.weights, n))]
    <3>1. \A x \in L : r[x] = 0 /\ w[x] = 0
      <4>1. ASSUME NEW x \in L PROVE right(x, n) = 0 /\ total(at(x.weights, n)) = 0
        <5>1. at(x.values, n) \cup at(x.weights, n) = {} /\ at(x.weights, n) = {}
          BY ChangeTimes
        <5>2. Changes(x.values) /\ Changes(x.weights)
          BY DEF Lines
        <5>3. right(x, n) = 0
          BY <5>1, <5>2, RightIsPossible DEF right
        <5>. QED
          BY <5>1, <5>3, TotalOfNone
      <4>. QED
        BY <4>1
    <3>2. Summable(r) /\ Summable(w) /\ DOMAIN r = L /\ DOMAIN w = L
      <4>1. DOMAIN r = L /\ DOMAIN w = L /\ IsFiniteSet(L)
        BY DEF Lines
      <4>. HIDE DEF r, w
      <4>. QED
        BY <3>1, <4>1 DEF Summable
    <3>3. Part(r, L) = SumFunction(r) /\ Part(w, L) = SumFunction(w)
      <4>1. [x \in L |-> r[x]] = r /\ [x \in L |-> w[x]] = w
        OBVIOUS
      <4>. QED
        BY <4>1, Zenon DEF Part
    <3>. HIDE DEF r, w
    <3>4. SumFunction(r) = 0 /\ SumFunction(w) = 0
      BY <3>1, <3>2, <3>3, PartZero
    <3>5. SumFunction([x \in L |-> right(x, n)]) = 0
          /\ SumFunction([x \in L |-> total(at(x.weights, n))]) = 0
      BY <3>4 DEF r, w
    <3>6. n \in Int
      OBVIOUS
    <3>. QED
      BY <3>5, <3>6, SumsStep
  <2>. QED
    BY <2>1
<1>5. PICK m \in Int : \A t \in T : m < t
  BY <1>2, HasFloor
<1>6. ASSUME NEW n \in Int, n <= m PROVE weighted_sum(L, n) = 0 /\ weight_sum(L, n) = 0
  <2>. DEFINE a == [x \in L |-> weighted(x.values, x.weights, n)]
              b == [x \in L |-> total(before(x.weights, n))]
  <2>1. ASSUME NEW x \in L PROVE a[x] = 0 /\ b[x] = 0
    <3>1. \A c \in x.values \cup x.weights : c.event_time \in T
      BY DEF change_times
    <3>2. before(x.values, n) = {} /\ before(x.weights, n) = {}
      BY <1>2, <1>5, <1>6, <3>1 DEF before
    <3>3. total(before(x.values, n)) = 0 /\ total(before(x.weights, n)) = 0
      BY <3>2, TotalOfNone, Zenon
    <3>. QED
      BY <3>3 DEF weighted
  <2>2. Summable(a) /\ Summable(b) /\ DOMAIN a = L /\ DOMAIN b = L
    <3>1. DOMAIN a = L /\ DOMAIN b = L /\ IsFiniteSet(L)
      BY DEF Lines
    <3>. HIDE DEF a, b
    <3>. QED
      BY <2>1, <3>1 DEF Summable
  <2>3. Part(a, L) = weighted_sum(L, n) /\ Part(b, L) = weight_sum(L, n)
    <3>1. [x \in L |-> a[x]] = a /\ [x \in L |-> b[x]] = b
      OBVIOUS
    <3>. QED
      BY <3>1, Zenon DEF Part, weighted_sum, weight_sum
  <2>. HIDE DEF a, b
  <2>. QED
    BY <2>1, <2>2, <2>3, PartZero
<1>7. D = {r \in {row(t) : t \in T} : r.ws # 0 \/ r.sw # 0}
  BY DEF rows_by
<1>8. \A d \in D : \E t \in T : d = row(t)
  BY <1>7
<1>9. \A t \in T : row(t).ws # 0 \/ row(t).sw # 0 => row(t) \in D
  BY <1>7
<1>10. \A d \in D : d.event_time \in T /\ d = row(d.event_time)
  BY <1>3, <1>8
<1>11. Dated(D)
  <2>1. IsFiniteSet(D)
    <3>. DEFINE g == [t \in T |-> row(t)]
    <3>1. D \in SUBSET {g[t] : t \in T} /\ DOMAIN g = T
      BY <1>7
    <3>. HIDE DEF g, D, T
    <3>2. IsFiniteSet({g[t] : t \in T})
      BY <1>2, <3>1, ImageFinite, ZenonT(30)
    <3>. QED
      BY <3>1, <3>2, FS_Subset, Zenon
  <2>. HIDE DEF row, D, T
  <2>2. \A d \in D : d.event_time \in Int /\ d.ws \in Int /\ d.sw \in Int
    BY <1>2, <1>3, <1>10
  <2>3. \A d, e \in D : d.event_time = e.event_time => d = e
    BY <1>10, Zenon
  <2>. QED
    BY <2>1, <2>2, <2>3 DEF Dated
<1>12. /\ Sws \in [Int -> Int] /\ Ssw \in [Int -> Int]
       /\ \A n \in Int : Sws[n] = weighted_sum(L, n) /\ Ssw[n] = weight_sum(L, n)
       /\ DOMAIN ws = D /\ DOMAIN sw = D /\ \A d \in D : ws[d] = d.ws /\ sw[d] = d.sw
  BY SumsStep
<1>13. \A C \in SUBSET D : /\ Part(ws, C) = SumFunction([d \in C |-> d.ws])
                           /\ Part(sw, C) = SumFunction([d \in C |-> d.sw])
  <2>1. ASSUME NEW C \in SUBSET D
        PROVE  [d \in C |-> ws[d]] = [d \in C |-> d.ws] /\ [d \in C |-> sw[d]] = [d \in C |-> d.sw]
    OBVIOUS
  <2>. QED
    BY <2>1, Zenon DEF Part
<1>. HIDE DEF T, row, D, ws, sw, Sws, Ssw
<1>14. Summable(ws) /\ Summable(sw)
  BY <1>11, <1>12 DEF Summable, Dated
<1>15. \A n \in Int : n + 1 \in Int
  OBVIOUS
<1>16. \A d \in D : m <= d.event_time
  <2>1. \A t \in T : m <= t
    BY <1>2, <1>5
  <2>2. \A d \in D : d.event_time \in T
    BY <1>10
  <2>. QED
    BY <2>1, <2>2
<1>17. \A n \in Int : n \notin T \/ (row(n).ws = 0 /\ row(n).sw = 0) \/ row(n) \in D
  BY <1>9
<1>18. \A n \in Int : Part(ws, before(D, n)) = Sws[n]
  <2>1. ASSUME NEW d \in D PROVE Sws[d.event_time + 1] = Sws[d.event_time] + ws[d]
    <3>. DEFINE t == d.event_time
    <3>0. t \in T
      BY <1>10
    <3>1. d = row(t)
      BY <1>10
    <3>2. t \in Int /\ t + 1 \in Int
      <4>. HIDE DEF t
      <4>1. t \in Int
        BY <1>2, <3>0, Zenon
      <4>. QED
        BY <4>1
    <3>3. weighted_sum(L, t + 1) = weighted_sum(L, t) + row(t).ws
      BY <1>3, <3>0
    <3>4. ws[d] = d.ws /\ Sws[t] = weighted_sum(L, t) /\ Sws[t + 1] = weighted_sum(L, t + 1)
      BY <1>12, <3>2
    <3>. HIDE DEF t
    <3>5. Sws[t + 1] = Sws[t] + ws[d]
      BY <3>1, <3>3, <3>4, Zenon
    <3>. QED
      BY <3>5 DEF t
  <2>2. ASSUME NEW n \in Int, Sws[n + 1] # Sws[n] PROVE \E d \in D : d.event_time = n
    <3>1. weighted_sum(L, n + 1) # weighted_sum(L, n)
      BY <1>12, <1>15, <2>2
    <3>2. n \in T
      BY <1>4, <3>1
    <3>3. weighted_sum(L, n + 1) = weighted_sum(L, n) + row(n).ws /\ weighted_sum(L, n) \in Int
      <4>1. weighted_sum(L, n) \in Int
        BY SumsStep
      <4>. QED
        BY <1>3, <3>2, <4>1
    <3>4. row(n).ws # 0
      BY ONLY <3>1, <3>3
    <3>. QED
      BY <1>3, <1>9, <3>2, <3>4
  <2>3. \A n \in Int : n <= m => Sws[n] = 0
    BY <1>6, <1>12
  <2>4. \A n \in Int : Sws[n + 1] # Sws[n] => \E d \in D : d.event_time = n
    BY <2>2
  <2>5. Sws \in [Int -> Int] /\ DOMAIN ws = D /\ Summable(ws)
    BY <1>12, <1>14
  <2>. QED
    BY <1>11, <1>16, <2>1, <2>3, <2>4, <2>5, Accumulates
<1>19. \A n \in Int : Part(sw, before(D, n)) = Ssw[n]
  <2>1. ASSUME NEW d \in D PROVE Ssw[d.event_time + 1] = Ssw[d.event_time] + sw[d]
    <3>. DEFINE t == d.event_time
    <3>0. t \in T
      BY <1>10
    <3>1. d = row(t)
      BY <1>10
    <3>2. t \in Int /\ t + 1 \in Int
      <4>. HIDE DEF t
      <4>1. t \in Int
        BY <1>2, <3>0, Zenon
      <4>. QED
        BY <4>1
    <3>3. weight_sum(L, t + 1) = weight_sum(L, t) + row(t).sw
      BY <1>3, <3>0
    <3>4. sw[d] = d.sw /\ Ssw[t] = weight_sum(L, t) /\ Ssw[t + 1] = weight_sum(L, t + 1)
      BY <1>12, <3>2
    <3>. HIDE DEF t
    <3>5. Ssw[t + 1] = Ssw[t] + sw[d]
      BY <3>1, <3>3, <3>4, Zenon
    <3>. QED
      BY <3>5 DEF t
  <2>2. ASSUME NEW n \in Int, Ssw[n + 1] # Ssw[n] PROVE \E d \in D : d.event_time = n
    <3>1. weight_sum(L, n + 1) # weight_sum(L, n)
      BY <1>12, <1>15, <2>2
    <3>2. n \in T
      BY <1>4, <3>1
    <3>3. weight_sum(L, n + 1) = weight_sum(L, n) + row(n).sw /\ weight_sum(L, n) \in Int
      <4>1. weight_sum(L, n) \in Int
        BY SumsStep
      <4>. QED
        BY <1>3, <3>2, <4>1
    <3>4. row(n).sw # 0
      BY ONLY <3>1, <3>3
    <3>. QED
      BY <1>3, <1>9, <3>2, <3>4
  <2>3. \A n \in Int : n <= m => Ssw[n] = 0
    BY <1>6, <1>12
  <2>4. \A n \in Int : Ssw[n + 1] # Ssw[n] => \E d \in D : d.event_time = n
    BY <2>2
  <2>5. Ssw \in [Int -> Int] /\ DOMAIN sw = D /\ Summable(sw)
    BY <1>12, <1>14
  <2>. QED
    BY <1>11, <1>16, <2>1, <2>3, <2>4, <2>5, Accumulates
<1>20. \A n \in Int : before(D, n) \in SUBSET D
  BY DEF before
<1>21. Adds(D, L)
  <2>1. ASSUME NEW n \in Int
        PROVE  /\ SumFunction([d \in before(D, n) |-> d.ws]) = weighted_sum(L, n)
               /\ SumFunction([d \in before(D, n) |-> d.sw]) = weight_sum(L, n)
    <3>1. /\ Part(ws, before(D, n)) = SumFunction([d \in before(D, n) |-> d.ws])
          /\ Part(sw, before(D, n)) = SumFunction([d \in before(D, n) |-> d.sw])
      BY <1>13, <1>20
    <3>. QED
      BY <1>12, <1>18, <1>19, <3>1
  <2>. QED
    BY <2>1 DEF Adds
<1>22. {d.event_time : d \in D} \subseteq T
  BY <1>10
<1>. QED
  BY <1>1, <1>11, <1>21, <1>22 DEF T

-----------------------------------------------------------------------------
(* The rows carried forward                                                *)

LEMMA MaxOf ==
  ASSUME NEW S, IsFiniteSet(S), S # {}, S \subseteq Int
  PROVE  Max(S) \in S /\ \A y \in S : y <= Max(S)
<1>. DEFINE Q == {R \in SUBSET S : R = {} \/ \E x \in R : \A y \in R : y <= x}
<1>1. ASSUME NEW R, R \in Q, NEW z \in S \ R PROVE R \cup {z} \in Q
  <2>1. CASE R = {}
    BY <1>1, <2>1
  <2>2. CASE R # {}
    <3>1. PICK x \in R : \A y \in R : y <= x
      BY <1>1, <2>2
    <3>. DEFINE u == IF x < z THEN z ELSE x
    <3>2. x \in Int /\ z \in Int /\ R \subseteq Int
      BY <1>1
    <3>3. u \in R \cup {z} /\ \A y \in R \cup {z} : y <= u
      BY <3>1, <3>2
    <3>. QED
      BY <1>1, <3>3
  <2>. QED
    BY <2>1, <2>2
<1>2. S \in Q
  <2>1. Q \in SUBSET (SUBSET S) /\ {} \in Q
    OBVIOUS
  <2>. HIDE DEF Q
  <2>. QED
    BY <1>1, <2>1, SetInduction
<1>3. \E x \in S : \A y \in S : y <= x
  BY <1>2
<1>4. \E x \in S : \A y \in S : x >= y
  BY <1>3
<1>5. Max(S) \in S /\ \A y \in S : Max(S) >= y
  BY <1>4 DEF Max
<1>. QED
  BY <1>5

\* The largest of some numbers, when there is one.
LEMMA MaxIs ==
  ASSUME NEW S, S \subseteq Int, NEW m \in S, \A y \in S : y <= m
  PROVE  Max(S) = m
<1>1. \A y \in S : m >= y
  OBVIOUS
<1>2. Max(S) \in S /\ \A y \in S : Max(S) >= y
  BY <1>1 DEF Max
<1>3. Max(S) >= m /\ Max(S) <= m /\ Max(S) \in Int /\ m \in Int
  BY <1>2
<1>. QED
  BY <1>3

changed_by(D, t) == {x \in {d.event_time : d \in D} : x <= t}

LEMMA LastChange ==
  ASSUME NEW D, Dated(D), NEW t \in Int, changed_by(D, t) # {}
  PROVE  /\ Max(changed_by(D, t)) \in Int /\ Max(changed_by(D, t)) <= t
         /\ \E d \in D : d.event_time = Max(changed_by(D, t))
         /\ \A d \in D : d.event_time <= t => d.event_time <= Max(changed_by(D, t))
         /\ aggregated(D, t) = aggregated(D, Max(changed_by(D, t)))
<1>. DEFINE C == changed_by(D, t)
            m == Max(C)
<1>1. C \subseteq Int /\ \A x \in C : x <= t /\ \E d \in D : d.event_time = x
  BY DEF changed_by, Dated
<1>2. IsFiniteSet(C)
  <2>. DEFINE g == [d \in D |-> d.event_time]
  <2>1. C \in SUBSET {g[d] : d \in D} /\ DOMAIN g = D
    BY DEF changed_by
  <2>2. IsFiniteSet(D)
    BY DEF Dated
  <2>. HIDE DEF g, C
  <2>3. IsFiniteSet({g[d] : d \in D})
    BY <2>1, <2>2, ImageFinite, ZenonT(30)
  <2>. QED
    BY <2>1, <2>3, FS_Subset, Zenon
<1>3. m \in C /\ \A x \in C : x <= m
  <2>1. C \subseteq Int /\ C # {}
    BY <1>1
  <2>. HIDE DEF C
  <2>. QED
    BY <1>2, <2>1, MaxOf
<1>4. \A d \in D : d.event_time <= t => d.event_time <= m
  BY <1>3 DEF changed_by
<1>5. m \in Int /\ m <= t /\ \E d \in D : d.event_time = m
  BY <1>1, <1>3
<1>. HIDE DEF m, C
<1>6. up_to(D, t) = up_to(D, m)
  BY <1>4, <1>5 DEF up_to, Dated
<1>7. aggregated(D, t) = aggregated(D, m)
  BY <1>6, Zenon DEF aggregated
<1>. QED
  BY <1>4, <1>5, <1>7 DEF m, C

\* Carried forward, the rows of locf give each time of the window the quotient of the
\* two sums up to it, once there is a change.
CarriedIs(D, C, from, to, t) ==
  carried(locf(D, C, from, to), t)
    = IF changed_by(D, t) = {} THEN {} ELSE {aggregated(D, t)}

LEMMA CarriedForward ==
  ASSUME NEW D, Dated(D), NEW C, C \subseteq Int, NEW from \in Int, NEW to \in Int,
         NEW t \in Int, from <= t, t <= to
  PROVE  CarriedIs(D, C, from, to, t)
<1>. DEFINE real == {d.event_time : d \in D}
            rows == {x \in real \cup C : from <= x /\ x <= to}
            anchors == {x \in real : x < from}
            out(x) == [row |-> x, event_time |-> Max(changed_by(D, x)),
                       value |-> aggregated(D, x)]
            R == locf(D, C, from, to)
            A == IF anchors # {} /\ wants_anchor(rows, from) THEN {out(Max(anchors))} ELSE {}
            m == Max(changed_by(D, t))
            old == {r \in R : r.event_time <= t}
<1>1. R = {out(x) : x \in {y \in rows : changed_by(D, y) # {}}} \cup A
  BY DEF locf, changed_by
<1>2. real \subseteq Int /\ rows \subseteq Int
  BY DEF Dated
<1>3. anchors # {} => /\ Max(anchors) \in anchors /\ \A x \in anchors : x <= Max(anchors)
                      /\ changed_by(D, Max(anchors)) # {}
  <2>1. IsFiniteSet(anchors)
    <3>. DEFINE g == [d \in D |-> d.event_time]
    <3>1. anchors \in SUBSET {g[d] : d \in D} /\ DOMAIN g = D
      OBVIOUS
    <3>2. IsFiniteSet(D)
      BY DEF Dated
    <3>. HIDE DEF g, anchors
    <3>3. IsFiniteSet({g[d] : d \in D})
      BY <3>1, <3>2, ImageFinite, ZenonT(30)
    <3>. QED
      BY <3>1, <3>3, FS_Subset, Zenon
  <2>2. anchors \subseteq Int
    BY <1>2
  <2>3. anchors # {} => Max(anchors) \in anchors /\ \A x \in anchors : x <= Max(anchors)
    BY <2>1, <2>2, MaxOf
  <2>4. ASSUME NEW x \in anchors PROVE x \in changed_by(D, x)
    <3>1. x \in Int /\ x \in real
      BY <2>2
    <3>. QED
      BY <3>1 DEF changed_by
  <2>. QED
    BY <2>3, <2>4
<1>4. \A r \in R : \E x \in Int : r = out(x) /\ changed_by(D, x) # {}
  <2>1. \A r \in A : \E x \in Int : r = out(x) /\ changed_by(D, x) # {}
    <3>. HIDE DEF out
    <3>. QED
      BY <1>2, <1>3
  <2>. HIDE DEF out, A, R, rows
  <2>. QED
    BY <1>1, <1>2, <2>1
<1>5. \A r \in R : /\ r.event_time \in Int /\ r.event_time \in real
                   /\ r.value = aggregated(D, r.event_time)
  <2>1. ASSUME NEW x \in Int, changed_by(D, x) # {}
        PROVE  /\ out(x).event_time \in Int /\ out(x).event_time \in real
               /\ out(x).value = aggregated(D, out(x).event_time)
    <3>1. /\ Max(changed_by(D, x)) \in Int /\ \E d \in D : d.event_time = Max(changed_by(D, x))
          /\ aggregated(D, x) = aggregated(D, Max(changed_by(D, x)))
      BY <2>1, LastChange
    <3>. QED
      BY <3>1
  <2>. HIDE DEF out, R, real
  <2>. QED
    BY <1>4, <2>1
<1>. HIDE DEF R
<1>6. CASE changed_by(D, t) = {}
  <2>1. old = {}
    BY <1>5, <1>6 DEF changed_by
  <2>2. last_of({}) = {}
    BY DEF last_of
  <2>3. last_of(old) = {}
    BY <2>1, <2>2, Zenon
  <2>. QED
    BY <1>6, <2>3 DEF carried, R, CarriedIs
<1>7. CASE changed_by(D, t) # {}
  <2>1. /\ m \in Int /\ m <= t /\ m \in real
        /\ \A x \in real : x <= t => x <= m
        /\ aggregated(D, t) = aggregated(D, m)
    BY <1>7, LastChange
  <2>. HIDE DEF m
  <2>2. \A x \in Int : m <= x /\ x <= t => changed_by(D, x) # {} /\ Max(changed_by(D, x)) = m
    <3>1. ASSUME NEW x \in Int, m <= x, x <= t
          PROVE  changed_by(D, x) # {} /\ Max(changed_by(D, x)) = m
      <4>1. m \in changed_by(D, x) /\ changed_by(D, x) \subseteq Int
        BY <1>2, <2>1, <3>1 DEF changed_by
      <4>2. \A y \in changed_by(D, x) : y <= m
        BY <1>2, <2>1, <3>1 DEF changed_by
      <4>. QED
        BY <4>1, <4>2, MaxIs
    <3>. QED
      BY <3>1
  <2>3. \E r \in R : r.event_time = m
    <3>1. ASSUME NEW x \in rows, m <= x, x <= t PROVE \E r \in R : r.event_time = m
      <4>1. changed_by(D, x) # {} /\ Max(changed_by(D, x)) = m
        BY <1>2, <2>2, <3>1
      <4>2. out(x) \in R /\ out(x).event_time = m
        BY <1>1, <4>1
      <4>. QED
        BY <4>2
    <3>2. CASE from <= m
      <4>1. m \in rows
        BY <2>1, <3>2
      <4>. QED
        BY <2>1, <3>1, <4>1
    <3>3. CASE m < from /\ from \in rows
      <4>1. m <= from
        BY <2>1, <3>3
      <4>. QED
        BY <3>1, <3>3, <4>1
    <3>4. CASE m < from /\ from \notin rows
      <4>1. m \in anchors
        BY <2>1, <3>4
      <4>2. Max(anchors) <= m
        <5>1. Max(anchors) \in real /\ Max(anchors) < from /\ Max(anchors) \in Int
          BY <1>2, <1>3, <4>1
        <5>. QED
          BY <2>1, <5>1
      <4>3. Max(anchors) = m
        <5>1. m <= Max(anchors) /\ Max(anchors) \in Int
          BY <1>2, <1>3, <4>1
        <5>. QED
          BY <2>1, <4>2, <5>1
      <4>4. A = {out(m)}
        BY <3>4, <4>1, <4>3 DEF wants_anchor
      <4>5. out(m) \in R /\ out(m).event_time = m
        BY <1>1, <2>1, <2>2, <4>4
      <4>. QED
        BY <4>5
    <3>. QED
      BY <2>1, <3>2, <3>3, <3>4
  <2>4. Max({q.event_time : q \in old}) = m
    <3>. DEFINE S == {q.event_time : q \in old}
    <3>1. S \subseteq Int /\ m \in S
      BY <1>5, <2>1, <2>3
    <3>2. \A y \in S : y <= m
      BY <1>5, <2>1
    <3>. HIDE DEF S
    <3>3. Max(S) = m
      BY <3>1, <3>2, MaxIs
    <3>. QED
      BY <3>3 DEF S
  <2>5. last_of(old) = {r \in R : r.event_time = m}
    BY <2>1, <2>4 DEF last_of
  <2>6. {r.value : r \in {q \in R : q.event_time = m}} = {aggregated(D, m)}
    BY <1>5, <2>3
  <2>7. carried(R, t) = {r.value : r \in last_of(old)}
    BY DEF carried
  <2>. QED
    BY <1>7, <2>1, <2>5, <2>6, <2>7 DEF R, CarriedIs
<1>. QED
  BY <1>6, <1>7

\* The rows give time t the fraction x; without a row it is 0.
Carries(rows, t, x) == IF carried(rows, t) = {} THEN x = zero ELSE carried(rows, t) = {x}

\* So the rows carried forward are the quotients of the sums over the lines.
LEMMA CarriedSums ==
  ASSUME NEW D, Dated(D), NEW L, Adds(D, L), NEW C, C \subseteq Int,
         NEW from \in Int, NEW to \in Int, NEW t \in Int, from <= t, t <= to
  PROVE  Carries(locf(D, C, from, to), t, fraction(weighted_sum(L, t + 1), weight_sum(L, t + 1)))
<1>1. up_to(D, t) = before(D, t + 1) /\ t + 1 \in Int
  BY DEF up_to, before, Dated
<1>2. aggregated(D, t) = fraction(weighted_sum(L, t + 1), weight_sum(L, t + 1))
  <2>1. aggregated(D, t) = fraction(SumFunction([d \in before(D, t + 1) |-> d.ws]),
                                    SumFunction([d \in before(D, t + 1) |-> d.sw]))
    BY <1>1, Zenon DEF aggregated
  <2>. QED
    BY <1>1, <2>1, Zenon DEF Adds
<1>3. carried(locf(D, C, from, to), t)
        = IF changed_by(D, t) = {} THEN {} ELSE {aggregated(D, t)}
  <2>1. CarriedIs(D, C, from, to, t)
    BY CarriedForward
  <2>. QED
    BY <2>1 DEF CarriedIs
<1>4. CASE changed_by(D, t) = {}
  <2>1. up_to(D, t) = {}
    BY <1>4 DEF changed_by, up_to
  <2>2. aggregated(D, t) = fraction(SumFunction([d \in {} |-> d.ws]), SumFunction([d \in {} |-> d.sw]))
    BY <2>1, Zenon DEF aggregated
  <2>3. SumFunction([d \in {} |-> d.ws]) = 0 /\ SumFunction([d \in {} |-> d.sw]) = 0
    BY SumEmpty
  <2>4. aggregated(D, t) = zero
    BY <2>2, <2>3 DEF fraction, zero
  <2>5. carried(locf(D, C, from, to), t) = {}
    BY <1>3, <1>4
  <2>. QED
    BY <1>2, <2>4, <2>5, Zenon DEF Carries
<1>5. CASE changed_by(D, t) # {}
  <2>1. carried(locf(D, C, from, to), t) = {aggregated(D, t)}
    BY <1>3, <1>5
  <2>. QED
    BY <1>2, <2>1 DEF Carries
<1>. QED
  BY <1>4, <1>5

-----------------------------------------------------------------------------
(* The changes of value of a stream                                        *)

\* The points of a stream: a number at each of some times.
Points(R) ==
  /\ IsFiniteSet(R)
  /\ \A r \in R : r.event_time \in Int /\ r.value \in Int
  /\ \A r, q \in R : r.event_time = q.event_time => r = q

\* The value in force before a time is that of the last point, once there is one.
LEMMA ValueSteps ==
  ASSUME NEW R, Points(R), NEW n \in Int
  PROVE  /\ \A r \in R : r.event_time = n => value_before(R, n + 1) = r.value
         /\ (\A r \in R : r.event_time # n) => value_before(R, n + 1) = value_before(R, n)
         /\ (\A r \in R : r.event_time >= n) => value_before(R, n) = 0
         /\ value_before(R, n) \in Int
<1>1. ASSUME NEW r \in R, r.event_time = n PROVE value_before(R, n + 1) = r.value
  <2>. DEFINE B == before(R, n + 1)
              S == {q.event_time : q \in B}
  <2>1. S \subseteq Int /\ n \in S /\ \A y \in S : y <= n
    BY <1>1 DEF before, Points
  <2>. HIDE DEF S
  <2>2. Max(S) = n
    BY <2>1, MaxIs
  <2>3. r \in B
    BY <1>1 DEF before, Points
  <2>4. last_of(B) = {q \in B : q.event_time = n}
    BY <2>2 DEF last_of, S
  <2>5. {q \in B : q.event_time = n} = {r}
    BY <1>1, <2>3 DEF before, Points
  <2>6. last_of(B) = {r}
    BY <2>4, <2>5, Zenon
  <2>7. B # {}
    BY <2>3
  <2>8. (CHOOSE q \in {r} : TRUE) = r
    OBVIOUS
  <2>9. (CHOOSE q \in last_of(B) : TRUE) = r
    BY <2>6, <2>8, Zenon
  <2>. QED
    BY <2>7, <2>9 DEF value_before
<1>2. ASSUME \A r \in R : r.event_time # n PROVE value_before(R, n + 1) = value_before(R, n)
  <2>. DEFINE val(B) == IF B = {} THEN 0 ELSE (CHOOSE q \in last_of(B) : TRUE).value
  <2>1. before(R, n + 1) = before(R, n)
    BY <1>2 DEF before, Points
  <2>2. value_before(R, n + 1) = val(before(R, n + 1)) /\ value_before(R, n) = val(before(R, n))
    BY Zenon DEF value_before
  <2>. HIDE DEF val
  <2>. QED
    BY <2>1, <2>2, Zenon
<1>3. ASSUME \A r \in R : r.event_time >= n PROVE value_before(R, n) = 0
  <2>1. before(R, n) = {}
    BY <1>3 DEF before, Points
  <2>. QED
    BY <2>1 DEF value_before
<1>4. value_before(R, n) \in Int
  <2>. DEFINE B == before(R, n)
              S == {q.event_time : q \in B}
              g == [q \in R |-> q.event_time]
  <2>1. CASE B = {}
    BY <2>1 DEF value_before
  <2>2. CASE B # {}
    <3>1. B \subseteq R
      BY DEF before
    <3>2. S \in SUBSET {g[q] : q \in R} /\ S \subseteq Int /\ S # {}
      BY <2>2, <3>1 DEF Points
    <3>3. IsFiniteSet(R) /\ DOMAIN g = R
      BY DEF Points
    <3>. HIDE DEF S, g
    <3>4. IsFiniteSet({g[q] : q \in R})
      BY <3>3, ImageFinite, Zenon
    <3>5. IsFiniteSet(S)
      BY <3>2, <3>4, FS_Subset, Zenon
    <3>6. Max(S) \in S
      BY <3>2, <3>5, MaxOf
    <3>7. \E q \in B : q.event_time = Max(S)
      BY <3>6 DEF S
    <3>8. last_of(B) = {q \in B : q.event_time = Max(S)}
      BY DEF last_of, S
    <3>9. last_of(B) # {} /\ last_of(B) \subseteq R
      BY <3>1, <3>7, <3>8
    <3>10. (CHOOSE q \in last_of(B) : TRUE) \in R
      BY <3>9
    <3>11. value_before(R, n) = (CHOOSE q \in last_of(B) : TRUE).value
      BY <2>2 DEF value_before
    <3>. QED
      BY <3>10, <3>11 DEF Points
  <2>. QED
    BY <2>1, <2>2
<1>. QED
  BY <1>1, <1>2, <1>3, <1>4

\* A sum of one change.
LEMMA TotalOfOne ==
  ASSUME NEW c, c.delta \in Int
  PROVE  total({c}) = c.delta
<1>. DEFINE f == [x \in {c} |-> x.delta]
<1>1. Summable(f) /\ DOMAIN f = {c} /\ f[c] = c.delta /\ f = [x \in DOMAIN f |-> f[x]]
  BY FS_Singleton DEF Summable
<1>2. total({c}) = SumFunction(f)
  BY DEF total
<1>. HIDE DEF f
<1>3. SumFunction(f) = Part(f, DOMAIN f)
  BY <1>1, PartWhole
<1>4. Part(f, {} \cup {c}) = f[c] + Part(f, {}) /\ Part(f, {}) = 0
  <2>1. {} \in SUBSET DOMAIN f /\ c \in DOMAIN f \ {}
    BY <1>1
  <2>. QED
    BY <1>1, <2>1, PartStep
<1>5. {} \cup {c} = DOMAIN f
  BY <1>1
<1>6. Part(f, DOMAIN f) = f[c] + Part(f, {})
  BY <1>4, <1>5, Zenon
<1>. QED
  BY <1>1, <1>2, <1>3, <1>4, <1>6

\* primitive_event_changes: before any time the changes of value add up to the value
\* in force.
LEMMA ValueSum ==
  ASSUME NEW R, Points(R)
  PROVE  /\ Changes(value_changes(R))
         /\ \A n \in Int : /\ value_before(R, n) \in Int
                           /\ total(before(value_changes(R), n)) = value_before(R, n)
<1>. DEFINE change(r) == [event_time |-> r.event_time,
                          delta |-> r.value - value_before(R, r.event_time)]
            V == value_changes(R)
            Q == {n \in Int : total(before(V, n)) = value_before(R, n)}
            g == [r \in R |-> change(r)]
<1>1. V = {c \in {change(r) : r \in R} : c.delta # 0}
  BY DEF value_changes
<1>2. IsFiniteSet(V)
  <2>1. V \in SUBSET {g[r] : r \in R} /\ DOMAIN g = R
    BY <1>1
  <2>2. IsFiniteSet(R)
    BY DEF Points
  <2>. HIDE DEF V, g
  <2>3. IsFiniteSet({g[r] : r \in R})
    BY <2>1, <2>2, ImageFinite, ZenonT(30)
  <2>. QED
    BY <2>1, <2>3, FS_Subset, Zenon
<1>. HIDE DEF V
<1>0. \A n \in Int : value_before(R, n) \in Int
  BY ValueSteps
<1>6. Changes(V)
  <2>1. \A r \in R : change(r).event_time \in Int /\ change(r).delta \in Int
    BY <1>0 DEF Points
  <2>. HIDE DEF change
  <2>. QED
    BY <1>1, <1>2, <2>1 DEF Changes
<1>3. PICK m \in Int : \A r \in R : m < r.event_time
  <2>. DEFINE k == [r \in R |-> r.event_time]
  <2>1. IsFiniteSet(R) /\ DOMAIN k = R
    BY DEF Points
  <2>2. {k[r] : r \in R} \subseteq Int
    BY DEF Points
  <2>. HIDE DEF k
  <2>3. IsFiniteSet({k[r] : r \in R})
    BY <2>1, ImageFinite, Zenon
  <2>4. \E m \in Int : \A t \in {k[r] : r \in R} : m < t
    BY <2>2, <2>3, HasFloor
  <2>. QED
    BY <2>4 DEF k
<1>4. \A n \in Int : n <= m => n \in Q
  <2>1. ASSUME NEW n \in Int, n <= m PROVE n \in Q
    <3>1. \A r \in R : r.event_time >= n
      BY <1>3, <2>1 DEF Points
    <3>2. value_before(R, n) = 0
      BY <3>1, ValueSteps
    <3>3. before(V, n) = {}
      BY <1>1, <1>3, <2>1 DEF before, Points
    <3>4. total(before(V, n)) = 0
      BY <3>3, TotalOfNone, Zenon
    <3>. QED
      BY <3>2, <3>4
  <2>. QED
    BY <2>1
<1>5. ASSUME NEW n, n \in Q PROVE n + 1 \in Q
  <2>1. n \in Int /\ n + 1 \in Int
    BY <1>5
  <2>4. /\ total(before(V, n + 1)) = total(before(V, n)) + total(at(V, n))
        /\ total(before(V, n)) = value_before(R, n)
    BY <1>5, <1>6, <2>1, TotalStep
  <2>2. CASE \E r \in R : r.event_time = n
    <3>1. PICK r \in R : r.event_time = n
      BY <2>2
    <3>2. value_before(R, n + 1) = r.value /\ r.value \in Int
      BY <2>1, <3>1, ValueSteps DEF Points
    <3>3. at(V, n) = {c \in {change(r)} : c.delta # 0}
      BY <1>1, <3>1 DEF at, Points
    <3>4. change(r).delta = value_before(R, n + 1) - value_before(R, n)
      BY <3>1, <3>2
    <3>5. change(r).delta \in Int
      BY <1>0, <2>1, <3>4
    <3>. HIDE DEF change
    <3>6. total(at(V, n)) = change(r).delta
      <4>1. CASE change(r).delta = 0
        <5>1. at(V, n) = {}
          BY <3>3, <4>1
        <5>. QED
          BY <4>1, <5>1, TotalOfNone, Zenon
      <4>2. CASE change(r).delta # 0
        <5>1. at(V, n) = {change(r)}
          BY <3>3, <4>2
        <5>2. total({change(r)}) = change(r).delta
          BY <3>5, TotalOfOne
        <5>. QED
          BY <5>1, <5>2, Zenon
      <4>. QED
        BY <4>1, <4>2
    <3>. QED
      BY <1>0, <2>1, <2>4, <3>4, <3>6
  <2>3. CASE \A r \in R : r.event_time # n
    <3>1. at(V, n) = {}
      BY <1>1, <2>3 DEF at
    <3>2. total(at(V, n)) = 0
      BY <3>1, TotalOfNone, Zenon
    <3>3. value_before(R, n + 1) = value_before(R, n)
      BY <2>1, <2>3, ValueSteps
    <3>. QED
      BY <1>0, <2>1, <2>4, <3>2, <3>3
  <2>. QED
    BY <2>2, <2>3
<1>7. Q = Int
  <2>1. Q \in SUBSET Int
    OBVIOUS
  <2>. HIDE DEF Q
  <2>. QED
    BY <1>4, <1>5, <2>1, TimeInduction
<1>. QED
  BY <1>0, <1>6, <1>7 DEF V

-----------------------------------------------------------------------------
(* The changes of weight of a stream                                       *)

\* Some integers have a least one.
LEMMA MinOf ==
  ASSUME NEW S, IsFiniteSet(S), S # {}, S \subseteq Int
  PROVE  Min(S) \in S /\ \A y \in S : Min(S) <= y
<1>. DEFINE g == [x \in S |-> 0 - x]
            T == {g[x] : x \in S}
<1>1. T \subseteq Int /\ T # {}
  <2>1. \A x \in S : g[x] \in Int
    OBVIOUS
  <2>. HIDE DEF g
  <2>. QED
    BY <2>1
<1>2. IsFiniteSet(T)
  <2>1. DOMAIN g = S
    OBVIOUS
  <2>. HIDE DEF g
  <2>. QED
    BY <2>1, ImageFinite, Zenon
<1>3. Max(T) \in T /\ \A y \in T : y <= Max(T)
  <2>. HIDE DEF T
  <2>. QED
    BY <1>1, <1>2, MaxOf
<1>4. PICK x \in S : Max(T) = 0 - x
  BY <1>3
<1>5. \A y \in S : 0 - y <= 0 - x
  BY <1>3, <1>4
<1>6. \A y \in S : x <= y
  BY <1>5
<1>7. Min(S) \in S /\ \A y \in S : Min(S) <= y
  BY <1>6 DEF Min
<1>. QED
  BY <1>7

\* The weights of a stream: numbers that count for a while, one for each path.
Weights(W) ==
  /\ IsFiniteSet(W)
  /\ \A w \in W : /\ w.first \in Int /\ w.last \in Int /\ w.last <= MaxInt8 - 1
                  /\ w.weight \in Nat
  /\ \A v, w \in W : v.path = w.path => v = w

\* The weights with changes, and those changes.
live_of(W, R) ==
  IF R = {} THEN {} ELSE {w \in W : weight_start(w, R) <= w.last /\ w.weight # 0}
start_of(w, R) == [event_time |-> weight_start(w, R), delta |-> w.weight, path |-> w.path]
end_of(w) == [event_time |-> w.last + 1, delta |-> - w.weight, path |-> w.path]
starts_of(W, R) == {start_of(w, R) : w \in live_of(W, R)}
ends_of(W, R) == {end_of(w) : w \in {x \in live_of(W, R) : x.last < MaxInt8 - 1}}

LEMMA WeightChanges ==
  ASSUME NEW W, Weights(W), NEW R, Points(R)
  PROVE  /\ weight_changes(W, R) = starts_of(W, R) \cup ends_of(W, R)
         /\ starts_of(W, R) \cap ends_of(W, R) = {}
         /\ Changes(weight_changes(W, R))
         /\ \A w \in live_of(W, R) : /\ w \in W /\ weight_start(w, R) \in Int
                                     /\ weight_start(w, R) <= w.last
         /\ \A t \in Int : IF \E r \in R : r.event_time <= t
                           THEN \A w \in W : weight_start(w, R) <= t <=> w.first <= t
                           ELSE \A w \in live_of(W, R) : weight_start(w, R) > t
<1>. DEFINE live == live_of(W, R)
            C == weight_changes(W, R)
            T == {r.event_time : r \in R}
            a == [w \in W |-> start_of(w, R)]
            b == [w \in W |-> end_of(w)]
<1>1. C = starts_of(W, R) \cup ends_of(W, R)
  BY DEF weight_changes, starts_of, ends_of, live_of, start_of, end_of
<1>2. R # {} => Min(T) \in T /\ \A x \in T : Min(T) <= x
  <2>. DEFINE k == [r \in R |-> r.event_time]
  <2>1. T = {k[r] : r \in R}
    OBVIOUS
  <2>2. IsFiniteSet(R) /\ DOMAIN k = R
    BY DEF Points
  <2>3. T \subseteq Int /\ (R # {} => T # {})
    BY DEF Points
  <2>. HIDE DEF k, T
  <2>4. IsFiniteSet(T)
    BY <2>1, <2>2, ImageFinite, Zenon
  <2>. QED
    BY <2>3, <2>4, MinOf
<1>3. \A w \in W : weight_start(w, R) = larger(w.first, Min(T))
  BY DEF weight_start
<1>4. R # {} => Min(T) \in Int
  BY <1>2 DEF Points
<1>. HIDE DEF T
<1>5. \A w \in live : /\ R # {} /\ w \in W /\ weight_start(w, R) \in Int
                      /\ weight_start(w, R) <= w.last /\ w.weight # 0
  <2>1. \A w \in live : R # {} /\ w \in W /\ weight_start(w, R) <= w.last /\ w.weight # 0
    BY DEF live_of
  <2>. HIDE DEF live
  <2>. QED
    BY <1>3, <1>4, <2>1 DEF Weights, larger
<1>. HIDE DEF live
<1>6. starts_of(W, R) \cap ends_of(W, R) = {}
  <2>1. \A c \in starts_of(W, R) : c.delta \in Int /\ c.delta > 0
    BY <1>5 DEF starts_of, start_of, Weights, live
  <2>2. \A c \in ends_of(W, R) : c.delta < 0
    BY <1>5 DEF ends_of, end_of, Weights, live
  <2>. QED
    BY <2>1, <2>2
<1>7. Changes(C)
  <2>1. \A c \in starts_of(W, R) : c.event_time \in Int /\ c.delta \in Int
    BY <1>5 DEF starts_of, start_of, Weights, live
  <2>2. \A c \in ends_of(W, R) : c.event_time \in Int /\ c.delta \in Int
    BY <1>5 DEF ends_of, end_of, Weights, live
  <2>3. starts_of(W, R) \in SUBSET {a[w] : w \in W} /\ ends_of(W, R) \in SUBSET {b[w] : w \in W}
    BY <1>5 DEF starts_of, ends_of, live
  <2>4. IsFiniteSet(W) /\ DOMAIN a = W /\ DOMAIN b = W
    BY DEF Weights
  <2>. HIDE DEF a, b
  <2>5. IsFiniteSet({a[w] : w \in W}) /\ IsFiniteSet({b[w] : w \in W})
    BY <2>4, ImageFinite, Zenon
  <2>6. IsFiniteSet(starts_of(W, R)) /\ IsFiniteSet(ends_of(W, R))
    BY <2>3, <2>5, FS_Subset, Zenon
  <2>7. IsFiniteSet(C)
    BY <1>1, <2>6, FS_Union, Zenon
  <2>. QED
    BY <1>1, <2>1, <2>2, <2>7 DEF Changes
<1>8. ASSUME NEW t \in Int
      PROVE  IF \E r \in R : r.event_time <= t
             THEN \A w \in W : weight_start(w, R) <= t <=> w.first <= t
             ELSE \A w \in live : weight_start(w, R) > t
  <2>1. CASE \E r \in R : r.event_time <= t
    <3>1. R # {} /\ Min(T) <= t
      <4>1. PICK r \in R : r.event_time <= t
        BY <2>1
      <4>2. r.event_time \in T /\ r.event_time \in Int
        BY DEF T, Points
      <4>. QED
        BY <1>2, <1>4, <4>1, <4>2
    <3>2. \A w \in W : weight_start(w, R) <= t <=> w.first <= t
      BY <1>3, <1>4, <3>1 DEF Weights, larger
    <3>. QED
      BY <2>1, <3>2
  <2>2. CASE ~ \E r \in R : r.event_time <= t
    <3>1. R # {} => Min(T) > t
      BY <1>2, <2>2 DEF T, Points
    <3>2. \A w \in live : weight_start(w, R) > t
      BY <1>3, <1>4, <1>5, <3>1 DEF Weights, larger
    <3>. QED
      BY <2>2, <3>2
  <2>. QED
    BY <2>1, <2>2
<1>. QED
  BY <1>1, <1>5, <1>6, <1>7, <1>8 DEF live

in_time(W, t) == {w \in W : within(t, w)}
weight_of(W) == [w \in W |-> w.weight]

\* effective_weight_changes: up to a time the changes of weight add up to the weights
\* in force then, once the stream has a value; and to none before.
LEMMA WeightSum ==
  ASSUME NEW W, Weights(W), NEW R, Points(R), NEW t \in Int, t < MaxInt8
  PROVE  /\ Part(weight_of(W), in_time(W, t)) \in Int
         /\ total(before(weight_changes(W, R), t + 1))
              = IF \E r \in R : r.event_time <= t
                THEN Part(weight_of(W), in_time(W, t)) ELSE 0
<1>. DEFINE C == weight_changes(W, R)
            live == live_of(W, R)
            f == [c \in C |-> c.delta]
            g == weight_of(W)
            h == [w \in W |-> - w.weight]
            a == [w \in W |-> start_of(w, R)]
            b == [w \in W |-> end_of(w)]
            A == {w \in live : weight_start(w, R) <= t}
            B == {w \in live : w.last + 1 <= t}
            SA == {a[w] : w \in A}
            EB == {b[w] : w \in B}
            now == in_time(W, t)
<1>0. MaxInt8 \in Int
  BY HierarchyAssumption
<1>1. /\ C = starts_of(W, R) \cup ends_of(W, R)
      /\ starts_of(W, R) \cap ends_of(W, R) = {}
      /\ Changes(C)
      /\ \A w \in live : /\ w \in W /\ weight_start(w, R) \in Int
                         /\ weight_start(w, R) <= w.last
  BY WeightChanges
<1>2. IF \E r \in R : r.event_time <= t
      THEN \A w \in W : weight_start(w, R) <= t <=> w.first <= t
      ELSE \A w \in live : weight_start(w, R) > t
  BY WeightChanges
<1>3. /\ \A w \in W : /\ w.first \in Int /\ w.last \in Int /\ w.last <= MaxInt8 - 1
                      /\ w.weight \in Nat
      /\ \A v, w \in W : v.path = w.path => v = w
      /\ IsFiniteSet(W)
  BY DEF Weights
<1>4. /\ Summable(f) /\ DOMAIN f = C
      /\ Summable(g) /\ DOMAIN g = W
      /\ Summable(h) /\ DOMAIN h = W
  BY <1>1, <1>3 DEF Summable, Changes, weight_of
<1>. HIDE DEF C
<1>17. /\ starts_of(W, R) = {a[w] : w \in live}
       /\ ends_of(W, R) = {b[w] : w \in {x \in live : x.last < MaxInt8 - 1}}
       /\ \A w \in W : /\ a[w].event_time = weight_start(w, R)
                       /\ b[w].event_time = w.last + 1
  <2>1. \A w \in live : w \in W
    BY <1>1
  <2>2. \A w \in W : a[w] = start_of(w, R) /\ b[w] = end_of(w)
    OBVIOUS
  <2>3. \A w \in W : start_of(w, R).event_time = weight_start(w, R) /\ end_of(w).event_time = w.last + 1
    BY DEF start_of, end_of
  <2>. HIDE DEF a, b, live
  <2>. QED
    BY <2>1, <2>2, <2>3 DEF starts_of, ends_of, live
<1>5. before(C, t + 1) = SA \cup EB
  <2>1. \A w \in live : w \in W /\ weight_start(w, R) \in Int /\ w.last \in Int
    BY <1>1, <1>3
  <2>. HIDE DEF a, b, live
  <2>2. \A c \in SA : c \in starts_of(W, R) /\ c.event_time < t + 1
    BY <1>17, <2>1
  <2>3. \A c \in EB : c \in ends_of(W, R) /\ c.event_time < t + 1
    <3>1. ASSUME NEW w \in B PROVE b[w] \in ends_of(W, R) /\ b[w].event_time < t + 1
      <4>1. w \in live /\ w.last \in Int /\ w.last + 1 <= t /\ w \in W
        BY <2>1
      <4>2. w.last < MaxInt8 - 1 /\ w.last + 1 < t + 1
        BY <1>0, <4>1
      <4>. QED
        BY <1>17, <4>1, <4>2
    <3>. QED
      BY <3>1
  <2>4. \A c \in starts_of(W, R) : c.event_time < t + 1 => c \in SA
    BY <1>17, <2>1
  <2>5. \A c \in ends_of(W, R) : c.event_time < t + 1 => c \in EB
    BY <1>17, <2>1
  <2>. HIDE DEF SA, EB
  <2>. QED
    BY <1>1, <2>2, <2>3, <2>4, <2>5 DEF before
<1>6. SA \in SUBSET C /\ EB \in SUBSET C /\ SA \cap EB = {}
  <2>. HIDE DEF a, b, live
  <2>1. SA \subseteq starts_of(W, R)
    BY <1>17
  <2>2. EB \subseteq ends_of(W, R)
    <3>1. \A w \in B : w \in live /\ w.last < MaxInt8 - 1
      BY <1>0, <1>1, <1>3
    <3>. HIDE DEF B
    <3>. QED
      BY <1>17, <3>1
  <2>. HIDE DEF SA, EB
  <2>. QED
    BY <1>1, <2>1, <2>2
<1>7. total(before(C, t + 1)) = Part(f, SA) + Part(f, EB)
  <2>1. [c \in before(C, t + 1) |-> c.delta] = [c \in before(C, t + 1) |-> f[c]]
    BY DEF before
  <2>2. total(before(C, t + 1)) = Part(f, before(C, t + 1))
    BY <2>1, Zenon DEF total, Part
  <2>. HIDE DEF f, SA, EB
  <2>3. total(before(C, t + 1)) = Part(f, SA \cup EB)
    BY <1>5, <2>2, Zenon
  <2>4. Part(f, SA \cup EB) = Part(f, SA) + Part(f, EB)
    BY <1>4, <1>6, PartUnion
  <2>. QED
    BY <2>3, <2>4
<1>8. Part(g, A) = Part(f, SA)
  <2>1. A \in SUBSET DOMAIN g
    BY <1>1, <1>4
  <2>2. \A w \in A : a[w] \in DOMAIN f /\ f[a[w]] = g[w]
    <3>1. \A w \in A : a[w] \in C
      BY <1>6
    <3>. QED
      BY <1>1, <3>1 DEF start_of, weight_of
  <2>3. \A v, w \in A : a[v] = a[w] => v = w
    BY <1>1, <1>3 DEF start_of
  <2>. HIDE DEF f, g, a, A
  <2>. QED
    BY <1>4, <2>1, <2>2, <2>3, PartRenamed
<1>9. Part(h, B) = Part(f, EB)
  <2>1. B \in SUBSET DOMAIN h
    BY <1>1, <1>4
  <2>2. \A w \in B : b[w] \in DOMAIN f /\ f[b[w]] = h[w]
    <3>1. \A w \in B : b[w] \in C
      BY <1>6
    <3>. QED
      BY <1>1, <3>1 DEF end_of
  <2>3. \A v, w \in B : b[v] = b[w] => v = w
    BY <1>1, <1>3 DEF end_of
  <2>. HIDE DEF f, h, b, B
  <2>. QED
    BY <1>4, <2>1, <2>2, <2>3, PartRenamed
<1>10. /\ A \in SUBSET W /\ B \in SUBSET A /\ A \ B \in SUBSET W /\ now \in SUBSET W
  <2>1. \A w \in live : w \in W /\ weight_start(w, R) \in Int /\ w.last \in Int
                        /\ weight_start(w, R) <= w.last
    BY <1>1, <1>3
  <2>. QED
    BY <2>1 DEF in_time
<1>11. Part(h, B) = Part(g, B) * (-1)
  <2>1. \A w \in B : h[w] = g[w] * (-1)
    BY <1>3, <1>10 DEF weight_of
  <2>2. B \in SUBSET DOMAIN g /\ B \in SUBSET DOMAIN h
    BY <1>4, <1>10
  <2>. HIDE DEF g, h, B
  <2>. QED
    BY <1>4, <2>1, <2>2, PartTimes
<1>12. Part(g, A) = Part(g, B) + Part(g, A \ B)
  <2>1. A = B \cup (A \ B) /\ B \cap (A \ B) = {}
    BY <1>10
  <2>. HIDE DEF g, A, B
  <2>2. Part(g, B \cup (A \ B)) = Part(g, B) + Part(g, A \ B)
    <3>1. B \in SUBSET DOMAIN g /\ A \ B \in SUBSET DOMAIN g
      BY <1>4, <1>10
    <3>. QED
      BY <1>4, <2>1, <3>1, PartUnion
  <2>. QED
    BY <2>1, <2>2, Zenon
<1>13. /\ Part(g, A) \in Int /\ Part(g, B) \in Int /\ Part(g, A \ B) \in Int
       /\ Part(g, now) \in Int
  <2>. HIDE DEF g, A, B, now
  <2>1. B \in SUBSET DOMAIN g /\ A \ B \in SUBSET DOMAIN g /\ A \in SUBSET DOMAIN g
        /\ now \in SUBSET DOMAIN g
    BY <1>4, <1>10
  <2>. QED
    BY <1>4, <2>1, PartStep
<1>14. total(before(C, t + 1)) = Part(g, A \ B)
  <2>. HIDE DEF f, g, h, A, B, SA, EB
  <2>1. /\ total(before(C, t + 1)) = Part(g, A) + Part(h, B)
        /\ Part(h, B) = Part(g, B) * (-1)
    BY <1>7, <1>8, <1>9, <1>11
  <2>. QED
    BY <1>12, <1>13, <2>1
<1>15. CASE \E r \in R : r.event_time <= t
  <2>. DEFINE Z == {w \in now : w.weight = 0}
  <2>0. \A w \in W : weight_start(w, R) <= t <=> w.first <= t
    BY <1>2, <1>15
  <2>3. R # {}
    BY <1>15
  <2>1. now = (A \ B) \cup Z
    <3>1. \A w \in now : w.weight # 0 => w \in A /\ w \notin B
      <4>1. ASSUME NEW w \in now, w.weight # 0 PROVE w \in A /\ w \notin B
        <5>1. w \in W /\ w.first <= t /\ t <= w.last /\ w.last \in Int
          BY <1>3 DEF in_time, within
        <5>2. weight_start(w, R) <= t
          BY <2>0, <5>1
        <5>3. weight_start(w, R) <= w.last
          <6>1. weight_start(w, R) \in Int
            <7>1. \A r \in R : r.event_time \in Int
              BY DEF Points
            <7>2. Min({r.event_time : r \in R}) \in Int
              <8>. DEFINE k == [r \in R |-> r.event_time]
                          T == {r.event_time : r \in R}
              <8>1. T = {k[r] : r \in R} /\ T # {} /\ T \subseteq Int
                BY <2>3, <7>1
              <8>2. IsFiniteSet(R) /\ DOMAIN k = R
                BY DEF Points
              <8>. HIDE DEF k
              <8>3. IsFiniteSet({k[r] : r \in R})
                BY <8>2, ImageFinite, Zenon
              <8>4. IsFiniteSet(T)
                BY <8>1, <8>3, Zenon
              <8>. HIDE DEF T
              <8>5. Min(T) \in Int
                BY <8>1, <8>4, MinOf
              <8>. QED
                BY <8>5 DEF T
            <7>. QED
              BY <1>3, <5>1, <7>2 DEF weight_start, larger
          <6>. QED
            BY <5>1, <5>2, <6>1
        <5>. QED
          BY <2>3, <4>1, <5>1, <5>2, <5>3 DEF live_of
      <4>. QED
        BY <4>1
    <3>2. \A w \in A : w \notin B => w \in now
      <4>1. ASSUME NEW w \in A, w \notin B PROVE w \in now
        <5>1. w \in W /\ w.last \in Int /\ ~ w.last + 1 <= t /\ weight_start(w, R) <= t
          BY <1>1, <1>3, <4>1
        <5>2. w.first <= t /\ t <= w.last
          BY <2>0, <5>1
        <5>. QED
          BY <5>1, <5>2 DEF in_time, within
      <4>. QED
        BY <4>1
    <3>. HIDE DEF A, B, now
    <3>. QED
      BY <3>1, <3>2
  <2>2. (A \ B) \cap Z = {}
    <3>1. \A w \in A : w.weight # 0
      BY DEF live_of
    <3>. QED
      BY <3>1
  <2>4. \A w \in Z : g[w] = 0
    BY <1>10 DEF weight_of
  <2>5. Z \in SUBSET W
    BY <1>10
  <2>. HIDE DEF A, B, g, now, Z
  <2>6. Part(g, Z) = 0
    BY <1>4, <2>4, <2>5, PartZero
  <2>7. Part(g, (A \ B) \cup Z) = Part(g, A \ B) + Part(g, Z)
    BY <1>4, <1>10, <2>2, <2>5, PartUnion
  <2>8. Part(g, now) = Part(g, A \ B) + Part(g, Z)
    BY <2>1, <2>7, Zenon
  <2>9. Part(g, now) = total(before(C, t + 1))
    BY <1>13, <1>14, <2>6, <2>8
  <2>. QED
    BY <1>13, <1>15, <2>9 DEF C, g, now
<1>16. CASE ~ \E r \in R : r.event_time <= t
  <2>1. A \ B = {}
    BY <1>1, <1>2, <1>16
  <2>2. Part(g, {}) = 0
    <3>. HIDE DEF g
    <3>. QED
      BY <1>4, PartStep
  <2>3. total(before(C, t + 1)) = 0
    BY <1>14, <2>1, <2>2, Zenon
  <2>. QED
    BY <1>13, <1>16, <2>3 DEF C, g, now
<1>. QED
  BY <1>15, <1>16

-----------------------------------------------------------------------------
(* The links in force at a time                                            *)

\* The link a row of a taxonomy gives in a window.
link_of(k, from, to, r) ==
  [child |-> r.child, weight |-> r.weight, first |-> r.start_time,
   last |-> last_time(r.start_time, starts(in_window(k, from, to)))]

\* A window, and a time in it.
InWindow(from, to, t) ==
  /\ from \in Int /\ to \in Int /\ t \in Int
  /\ from <= t /\ t <= to /\ t < MaxInt8 /\ from < MaxInt8

LEMMA LinkTypes ==
  ASSUME HierarchyInv, NEW k, NEW from \in Int, NEW to \in Int, from < MaxInt8,
         NEW c \in weighted_links(k, from, to)
  PROVE  /\ c.child \in Text \X Text /\ c.weight \in Nat
         /\ c.first \in Nat /\ c.last \in Int
         /\ \E r \in winning(k, from, to) : c = link_of(k, from, to, r)
<1>1. PICK r \in winning(k, from, to) : c = link_of(k, from, to, r)
  BY DEF weighted_links, link_of
<1>2. r \in taxonomies
  BY DEF winning, in_window, active, taxonomies_of
<1>3. r.weight \in Nat
  BY <1>2 DEF HierarchyInv, TaxonomyInv, TaxonomyTypeOK, TaxRow
<1>. DEFINE e == [parent |-> k, child |-> r.child, first |-> r.start_time,
                  last |-> last_time(r.start_time, starts(in_window(k, from, to)))]
<1>4. e \in effective(k, from, to)
  BY DEF effective
<1>5. e \in WindowRow(from, to)
  <2>. HIDE DEF e
  <2>. QED
    BY <1>4, LinkRows
<1>6. e.child \in Text \X Text /\ e.first \in Nat /\ e.last \in Int
  <2>. HIDE DEF e
  <2>. QED
    BY <1>5 DEF WindowRow
<1>7. c.child = e.child /\ c.first = e.first /\ c.last = e.last /\ c.weight = r.weight
  BY <1>1 DEF link_of
<1>. QED
  BY <1>1, <1>3, <1>6, <1>7

\* The links of a stream in force at a time are its rows in the version in force, one
\* for each child.
LEMMA LinksNow ==
  ASSUME HierarchyInv, NEW k, NEW from, NEW to, NEW t, InWindow(from, to, t)
  PROVE  /\ \A c \in weighted_links(k, from, to) :
              within(t, c) => \E r \in version_at(k, t) : c = link_of(k, from, to, r)
         /\ \A r \in version_at(k, t) : /\ link_of(k, from, to, r) \in weighted_links(k, from, to)
                                        /\ within(t, link_of(k, from, to, r))
                                        /\ r.start_time \in Nat /\ r.start_time <= t
                                        /\ r.child \in Text \X Text /\ r.weight \in Nat
         /\ \A r, q \in version_at(k, t) : r.child = q.child => r = q
<1>0. /\ from \in Int /\ to \in Int /\ t \in Int
      /\ from <= t /\ t <= to /\ t < MaxInt8
  BY DEF InWindow
<1>. DEFINE now == {r \in winning(k, from, to) :
                      /\ r.start_time <= t
                      /\ t <= last_time(r.start_time, starts(in_window(k, from, to)))}
<1>1. \A r : r \in now <=> r \in version_at(k, t)
  BY <1>0, InForce
<1>2. \A r \in winning(k, from, to) :
        link_of(k, from, to, r) \in weighted_links(k, from, to)
  BY DEF weighted_links, link_of
<1>3. \A r : within(t, link_of(k, from, to, r)) <=>
               /\ r.start_time <= t
               /\ t <= last_time(r.start_time, starts(in_window(k, from, to)))
  BY DEF within, link_of
<1>4. \A c \in weighted_links(k, from, to) :
        \E r \in winning(k, from, to) : c = link_of(k, from, to, r)
  BY DEF weighted_links, link_of
<1>5. \A r \in version_at(k, t) : r \in taxonomies /\ r.stream = k
  BY DEF version_at, active, taxonomies_of
<1>6. \A r \in version_at(k, t) : /\ r.start_time \in Nat /\ r.group_sequence \in Nat
                                  /\ r.child \in Text \X Text /\ r.weight \in Nat
  BY <1>5 DEF HierarchyInv, TaxonomyInv, TaxonomyTypeOK, TaxRow
<1>7. ASSUME NEW r \in version_at(k, t), NEW q \in version_at(k, t), r.child = q.child
      PROVE  r = q
  <2>1. /\ \/ q.start_time < r.start_time
           \/ q.start_time = r.start_time /\ q.group_sequence <= r.group_sequence
        /\ \/ r.start_time < q.start_time
           \/ r.start_time = q.start_time /\ r.group_sequence <= q.group_sequence
    BY DEF version_at
  <2>2. r.group_sequence = q.group_sequence
    BY <1>6, <2>1
  <2>. QED
    BY <1>5, <1>7, <2>2 DEF HierarchyInv, TaxonomyInv, VersionsWhole
<1>. HIDE DEF link_of
<1>8. \A c \in weighted_links(k, from, to) :
        within(t, c) => \E r \in version_at(k, t) : c = link_of(k, from, to, r)
  BY <1>1, <1>3, <1>4
<1>9. \A r \in version_at(k, t) : /\ link_of(k, from, to, r) \in weighted_links(k, from, to)
                                  /\ within(t, link_of(k, from, to, r))
                                  /\ r.start_time <= t
  BY <1>1, <1>2, <1>3
<1>. QED
  BY <1>6, <1>7, <1>8, <1>9

-----------------------------------------------------------------------------
(* The rows of the CTE hierarchy, level by level                           *)

path_row(p, c) == [path |-> Append(p.path, <<c.child, c.first>>), child |-> c.child,
                   weight |-> p.weight * c.weight,
                   first |-> larger(p.first, c.first), last |-> smaller(p.last, c.last)]
path_root(k) == [path |-> <<>>, child |-> k, weight |-> 1, first |-> 0, last |-> MaxInt8 - 1]
paths_below(p, from, to) ==
  {path_row(p, c) : c \in {x \in weighted_links(p.child, from, to) : overlap(p, x)}}
more_paths(H, from, to) == H \cup UNION {paths_below(p, from, to) : p \in H}

PathRow == [path : Seq((Text \X Text) \X Nat), child : Text \X Text, weight : Nat, first : Nat,
            last : {n \in Int : n <= MaxInt8 - 1}]

\* The numbers and the path of the top of a hierarchy are those of a row.
PathTyped(p) == /\ p.path \in Seq((Text \X Text) \X Nat) /\ p.weight \in Nat
                /\ p.first \in Nat /\ p.last \in Int /\ p.last <= MaxInt8 - 1

LEMMA PathsBelow ==
  ASSUME HierarchyInv, NEW from \in Int, NEW to \in Int, from < MaxInt8,
         NEW p, PathTyped(p)
  PROVE  paths_below(p, from, to) \in SUBSET PathRow /\ IsFiniteSet(paths_below(p, from, to))
<1>0. MaxInt8 \in Nat
  BY HierarchyAssumption
<1>. DEFINE C == weighted_links(p.child, from, to)
            g == [c \in C |-> path_row(p, c)]
            W == winning(p.child, from, to)
            l == [r \in W |-> link_of(p.child, from, to, r)]
<1>1. ASSUME NEW c \in C PROVE path_row(p, c) \in PathRow
  <2>1. c.child \in Text \X Text /\ c.weight \in Nat /\ c.first \in Nat /\ c.last \in Int
    BY LinkTypes
  <2>2. Append(p.path, <<c.child, c.first>>) \in Seq((Text \X Text) \X Nat)
    <3>1. <<c.child, c.first>> \in (Text \X Text) \X Nat /\ p.path \in Seq((Text \X Text) \X Nat)
      BY <2>1 DEF PathTyped
    <3>. HIDE DEF C
    <3>. QED
      BY <3>1
  <2>3. p.weight * c.weight \in Nat
    BY <2>1 DEF PathTyped
  <2>4. larger(p.first, c.first) \in Nat
    BY <2>1 DEF PathTyped, larger
  <2>5. smaller(p.last, c.last) \in Int /\ smaller(p.last, c.last) <= MaxInt8 - 1
    BY <1>0, <2>1 DEF PathTyped, smaller
  <2>. HIDE DEF C
  <2>. QED
    BY <2>1, <2>2, <2>3, <2>4, <2>5 DEF path_row, PathRow
<1>2. paths_below(p, from, to) \in SUBSET PathRow
  BY <1>1 DEF paths_below
<1>3. IsFiniteSet(W)
  <2>1. W \in SUBSET taxonomies
    BY DEF winning, in_window, active, taxonomies_of
  <2>2. IsFiniteSet(taxonomies)
    BY DEF HierarchyInv
  <2>. HIDE DEF W
  <2>. QED
    BY <2>1, <2>2, FS_Subset, Zenon
<1>4. IsFiniteSet(C)
  <2>1. C \in SUBSET {l[r] : r \in W}
    BY DEF weighted_links, link_of
  <2>2. DOMAIN l = W
    OBVIOUS
  <2>. HIDE DEF l, C, W
  <2>3. IsFiniteSet({l[r] : r \in W})
    BY <1>3, <2>2, ImageFinite, Zenon
  <2>. QED
    BY <2>1, <2>3, FS_Subset, Zenon
<1>5. paths_below(p, from, to) \in SUBSET {g[c] : c \in C} /\ DOMAIN g = C
  BY DEF paths_below
<1>6. IsFiniteSet(paths_below(p, from, to))
  <2>1. DOMAIN g = C
    OBVIOUS
  <2>. HIDE DEF g, C
  <2>2. IsFiniteSet({g[c] : c \in C})
    BY <1>4, <2>1, ImageFinite, Zenon
  <2>. QED
    BY <1>5, <2>2, FS_Subset, Zenon
<1>. QED
  BY <1>2, <1>6

PathLevels(k, from, to, S) ==
  /\ S[0] = paths_below(path_root(k), from, to)
  /\ \A n \in Nat : S[n + 1] = more_paths(S[n], from, to)
  /\ \A n \in Nat : S[n] \in SUBSET PathRow /\ IsFiniteSet(S[n])

LEMMA MorePaths ==
  ASSUME HierarchyInv, NEW from \in Int, NEW to \in Int, from < MaxInt8,
         NEW H \in SUBSET PathRow
  PROVE  /\ more_paths(H, from, to) \in SUBSET PathRow
         /\ IsFiniteSet(H) => IsFiniteSet(more_paths(H, from, to))
<1>. DEFINE b == [p \in H |-> paths_below(p, from, to)]
<1>1. \A p \in H : paths_below(p, from, to) \in SUBSET PathRow /\ IsFiniteSet(paths_below(p, from, to))
  <2>1. \A p \in H : PathTyped(p)
    BY DEF PathRow, PathTyped
  <2>. QED
    BY <2>1, PathsBelow
<1>2. more_paths(H, from, to) \in SUBSET PathRow
  BY <1>1 DEF more_paths
<1>3. ASSUME IsFiniteSet(H) PROVE IsFiniteSet(more_paths(H, from, to))
  <2>0. DOMAIN b = H
    OBVIOUS
  <2>1. more_paths(H, from, to) = H \cup UNION {b[p] : p \in H}
    BY DEF more_paths
  <2>2. \A T \in {b[p] : p \in H} : IsFiniteSet(T)
    BY <1>1
  <2>. HIDE DEF b
  <2>3. IsFiniteSet({b[p] : p \in H})
    BY <1>3, <2>0, ImageFinite, Zenon
  <2>4. IsFiniteSet(UNION {b[p] : p \in H})
    BY <2>2, <2>3, FS_UNION
  <2>5. IsFiniteSet(H \cup UNION {b[p] : p \in H})
    BY <1>3, <2>4, FS_Union, Zenon
  <2>. QED
    BY <2>1, <2>5, Zenon
<1>. QED
  BY <1>2, <1>3

LEMMA HierarchyLevels ==
  ASSUME HierarchyInv, NEW k, NEW from \in Int, NEW to \in Int, from < MaxInt8
  PROVE  \E S : /\ PathLevels(k, from, to, S)
                /\ hierarchy(k, from, to) = S[Cardinality(taxonomies)]
<1>. DEFINE U == PathRow
            first == paths_below(path_root(k), from, to)
            G == [H \in SUBSET U |-> more_paths(H, from, to)]
            Level(f) == f = [n \in Nat |-> IF n = 0 THEN first
                                          ELSE more_paths(f[n - 1], from, to)]
            S == CHOOSE f : Level(f)
<1>1. first \in SUBSET U /\ IsFiniteSet(first)
  <2>1. PathTyped(path_root(k))
    BY HierarchyAssumption DEF PathTyped, path_root
  <2>. QED
    BY <2>1, PathsBelow
<1>2. G \in [SUBSET U -> SUBSET U]
  <2>1. \A H \in SUBSET U : more_paths(H, from, to) \in SUBSET U
    BY MorePaths
  <2>. HIDE DEF U
  <2>. QED
    BY <2>1
<1>6. hierarchy(k, from, to) = S[Cardinality(taxonomies)]
  BY Zenon DEF hierarchy, more_paths, paths_below, path_row, path_root
<1>. HIDE DEF first
<1>3. PICK f : Levels(U, first, G, f)
  <2>. HIDE DEF U, G
  <2>. QED
    BY <1>1, <1>2, HasLevels, Zenon
<1>4. Level(f)
  <2>1. \A n \in Nat : f[n] = IF n = 0 THEN first ELSE more_paths(f[n - 1], from, to)
    <3>. TAKE n \in Nat
    <3>1. CASE n = 0
      BY <1>3, <3>1 DEF Levels
    <3>2. CASE n # 0
      <4>1. n - 1 \in Nat /\ (n - 1) + 1 = n
        BY <3>2
      <4>2. f[n] = G[f[n - 1]]
        <5>. HIDE DEF G
        <5>. QED
          BY <1>3, <4>1 DEF Levels
      <4>3. f[n - 1] \in SUBSET U
        BY <1>3, <4>1 DEF Levels
      <4>. HIDE DEF U
      <4>. QED
        BY <3>2, <4>2, <4>3
    <3>. QED
      BY <3>1, <3>2
  <2>2. f = [n \in Nat |-> f[n]]
    BY <1>3 DEF Levels
  <2>. QED
    BY <2>1, <2>2, Zenon
<1>5. Level(S)
  <2>. HIDE DEF Level
  <2>. QED
    BY <1>4
<1>. HIDE DEF S
<1>7. S[0] = first
  BY <1>5
<1>8. \A n \in Nat : S[n + 1] = more_paths(S[n], from, to)
  BY <1>5
<1>9. \A n \in Nat : S[n] \in SUBSET U /\ IsFiniteSet(S[n])
  <2>. DEFINE Q == {n \in Nat : S[n] \in SUBSET U /\ IsFiniteSet(S[n])}
  <2>1. 0 \in Q
    BY <1>1, <1>7
  <2>2. \A n \in Q : n + 1 \in Q
    <3>. HIDE DEF U
    <3>. QED
      BY <1>8, MorePaths DEF U
  <2>3. Q = Nat
    <3>1. Q \in SUBSET Nat
      OBVIOUS
    <3>. HIDE DEF Q
    <3>. QED
      BY <2>1, <2>2, <3>1, Induction
  <2>. QED
    BY <2>3
<1>. QED
  BY <1>6, <1>7, <1>8, <1>9 DEF PathLevels, first

-----------------------------------------------------------------------------
(* The reference at a time, level by level                                 *)

tree_row(p, r) == [path |-> Append(p.path, r.child), child |-> r.child,
                   weight |-> p.weight * r.weight]
tree_root(k) == [path |-> <<>>, child |-> k, weight |-> 1]
tree_below(p, t) == {tree_row(p, r) : r \in version_at(p.child, t)}
more_tree(W, t) == W \cup UNION {tree_below(p, t) : p \in W}

TreeRow == [path : Seq(Text \X Text), child : Text \X Text, weight : Nat]

TreeLevels(k, t, B) ==
  /\ B[0] = tree_below(tree_root(k), t)
  /\ \A n \in Nat : B[n + 1] = more_tree(B[n], t)
  /\ \A n \in Nat : B[n] \in SUBSET TreeRow

LEMMA TreeBelow ==
  ASSUME HierarchyInv, NEW t, NEW p, p.path \in Seq(Text \X Text), p.weight \in Nat
  PROVE  tree_below(p, t) \in SUBSET TreeRow
<1>1. ASSUME NEW r \in version_at(p.child, t) PROVE tree_row(p, r) \in TreeRow
  <2>1. r \in taxonomies
    BY DEF version_at, active, taxonomies_of
  <2>2. r.child \in Text \X Text /\ r.weight \in Nat
    BY <2>1 DEF HierarchyInv, TaxonomyInv, TaxonomyTypeOK, TaxRow
  <2>3. p.weight * r.weight \in Nat
    BY <2>2
  <2>4. Append(p.path, r.child) \in Seq(Text \X Text)
    BY <2>2
  <2>. QED
    BY <2>2, <2>3, <2>4 DEF tree_row, TreeRow
<1>. QED
  BY <1>1 DEF tree_below

LEMMA MoreTree ==
  ASSUME HierarchyInv, NEW t, NEW W \in SUBSET TreeRow
  PROVE  more_tree(W, t) \in SUBSET TreeRow
<1>1. \A p \in W : p.path \in Seq(Text \X Text) /\ p.weight \in Nat
  BY DEF TreeRow
<1>2. \A p \in W : tree_below(p, t) \in SUBSET TreeRow
  BY <1>1, TreeBelow
<1>. QED
  BY <1>2 DEF more_tree

LEMMA ReferenceLevels ==
  ASSUME HierarchyInv, NEW k, NEW t
  PROVE  \E B : /\ TreeLevels(k, t, B)
                /\ leaf_weights_at(k, t)
                     = {w \in B[Cardinality(taxonomies)] :
                          stream_exists(w.child) /\ is_primitive_stream(w.child)}
<1>. DEFINE U == TreeRow
            first == tree_below(tree_root(k), t)
            G == [H \in SUBSET U |-> more_tree(H, t)]
            Level(f) == f = [n \in Nat |-> IF n = 0 THEN first ELSE more_tree(f[n - 1], t)]
            B == CHOOSE f : Level(f)
<1>1. first \in SUBSET U
  <2>1. tree_root(k).path \in Seq(Text \X Text) /\ tree_root(k).weight \in Nat
    BY DEF tree_root
  <2>. QED
    BY <2>1, TreeBelow
<1>2. G \in [SUBSET U -> SUBSET U]
  <2>1. \A H \in SUBSET U : more_tree(H, t) \in SUBSET U
    BY MoreTree
  <2>. HIDE DEF U
  <2>. QED
    BY <2>1
<1>6. leaf_weights_at(k, t) = {w \in B[Cardinality(taxonomies)] :
                                 stream_exists(w.child) /\ is_primitive_stream(w.child)}
  BY Zenon DEF leaf_weights_at, more_tree, tree_below, tree_row, tree_root
<1>. HIDE DEF first
<1>3. PICK f : Levels(U, first, G, f)
  <2>. HIDE DEF U, G
  <2>. QED
    BY <1>1, <1>2, HasLevels, Zenon
<1>4. Level(f)
  <2>1. \A n \in Nat : f[n] = IF n = 0 THEN first ELSE more_tree(f[n - 1], t)
    <3>. TAKE n \in Nat
    <3>1. CASE n = 0
      BY <1>3, <3>1 DEF Levels
    <3>2. CASE n # 0
      <4>1. n - 1 \in Nat /\ (n - 1) + 1 = n
        BY <3>2
      <4>2. f[n] = G[f[n - 1]]
        <5>. HIDE DEF G
        <5>. QED
          BY <1>3, <4>1 DEF Levels
      <4>3. f[n - 1] \in SUBSET U
        BY <1>3, <4>1 DEF Levels
      <4>. HIDE DEF U
      <4>. QED
        BY <3>2, <4>2, <4>3
    <3>. QED
      BY <3>1, <3>2
  <2>2. f = [n \in Nat |-> f[n]]
    BY <1>3 DEF Levels
  <2>. QED
    BY <2>1, <2>2, Zenon
<1>5. Level(B)
  <2>. HIDE DEF Level
  <2>. QED
    BY <1>4
<1>. HIDE DEF B
<1>7. B[0] = first
  BY <1>5
<1>8. \A n \in Nat : B[n + 1] = more_tree(B[n], t)
  BY <1>5
<1>9. \A n \in Nat : B[n] \in SUBSET U
  <2>. DEFINE Q == {n \in Nat : B[n] \in SUBSET U}
  <2>1. 0 \in Q
    BY <1>1, <1>7
  <2>2. \A n \in Q : n + 1 \in Q
    <3>. HIDE DEF U
    <3>. QED
      BY <1>8, MoreTree DEF U
  <2>3. Q = Nat
    <3>1. Q \in SUBSET Nat
      OBVIOUS
    <3>. HIDE DEF Q
    <3>. QED
      BY <2>1, <2>2, <3>1, Induction
  <2>. QED
    BY <2>3
<1>. QED
  BY <1>6, <1>7, <1>8, <1>9 DEF TreeLevels, first

-----------------------------------------------------------------------------
(* The rows in force are the reference                                     *)

Hop == (Text \X Text) \X Nat

\* A path without the times its links start at.
streams_on(path) == [i \in 1 .. Len(path) |-> path[i][1]]
tree_of(h) == [path |-> streams_on(h.path), child |-> h.child, weight |-> h.weight]

LEMMA StreamsOnPath ==
  ASSUME NEW s \in Seq(Hop), NEW x \in Hop
  PROVE  /\ streams_on(s) \in Seq(Text \X Text)
         /\ streams_on(Append(s, x)) = Append(streams_on(s), x[1])
<1>1. /\ Append(s, x) \in Seq(Hop) /\ Len(Append(s, x)) = Len(s) + 1
      /\ \A i \in 1 .. Len(s) : Append(s, x)[i] = s[i]
      /\ Append(s, x)[Len(s) + 1] = x
      /\ Len(s) \in Nat
  BY AppendProperties
<1>2. \A q \in Seq(Hop) : streams_on(q) \in Seq(Text \X Text) /\ Len(streams_on(q)) = Len(q)
  <2>1. ASSUME NEW q \in Seq(Hop)
        PROVE  streams_on(q) \in Seq(Text \X Text) /\ Len(streams_on(q)) = Len(q)
    <3>1. Len(q) \in Nat /\ \A i \in 1 .. Len(q) : q[i] \in Hop
      OBVIOUS
    <3>2. \A i \in 1 .. Len(q) : q[i][1] \in Text \X Text
      BY <3>1 DEF Hop
    <3>. QED
      BY <3>1, <3>2 DEF streams_on
  <2>. QED
    BY <2>1
<1>3. x[1] \in Text \X Text
  BY DEF Hop
<1>. DEFINE a == streams_on(Append(s, x))
            b == Append(streams_on(s), x[1])
<1>4. /\ b \in Seq(Text \X Text) /\ Len(b) = Len(s) + 1
      /\ \A i \in 1 .. Len(s) : b[i] = streams_on(s)[i]
      /\ b[Len(s) + 1] = x[1]
  BY <1>2, <1>3, AppendProperties
<1>5. a \in Seq(Text \X Text) /\ Len(a) = Len(s) + 1
  BY <1>1, <1>2
<1>6. \A i \in 1 .. Len(s) + 1 : a[i] = b[i]
  <2>1. \A i \in 1 .. Len(s) + 1 : a[i] = Append(s, x)[i][1]
    BY <1>1 DEF streams_on
  <2>2. \A i \in 1 .. Len(s) : streams_on(s)[i] = s[i][1]
    BY DEF streams_on
  <2>3. b[Len(s) + 1] = x[1] /\ Append(s, x)[Len(s) + 1] = x /\ Len(s) \in Nat
    BY <1>1, <1>4
  <2>4. \A i \in 1 .. Len(s) : b[i] = s[i][1] /\ Append(s, x)[i] = s[i]
    BY <1>1, <1>4, <2>2
  <2>. HIDE DEF a, b
  <2>5. ASSUME NEW i \in 1 .. Len(s) + 1
        PROVE  a[i] = b[i]
    <3>1. a[i] = Append(s, x)[i][1]
      BY <2>1
    <3>2. CASE i \in 1 .. Len(s)
      <4>1. b[i] = s[i][1] /\ Append(s, x)[i] = s[i]
        BY <2>4, <3>2
      <4>. QED
        BY <3>1, <4>1, Zenon
    <3>3. CASE i = Len(s) + 1
      BY <2>3, <3>1, <3>3, Zenon
    <3>4. i \in 1 .. Len(s) \/ i = Len(s) + 1
      BY <2>3
    <3>. QED
      BY <3>2, <3>3, <3>4
  <2>. QED
    BY <2>5
<1>7. a = b
  <2>. HIDE DEF a, b
  <2>. QED
    BY <1>4, <1>5, <1>6, SeqEqual
<1>. QED
  BY <1>2, <1>7

\* A row below p is in force when p and its link are.
LEMMA RowNow ==
  ASSUME NEW p, PathTyped(p), NEW t \in Int,
         NEW c, c.child \in Text \X Text, c.weight \in Nat, c.first \in Nat, c.last \in Int
  PROVE  /\ within(t, path_row(p, c)) <=> within(t, p) /\ within(t, c)
         /\ within(t, p) /\ within(t, c) => overlap(p, c)
         /\ \A r : r.child = c.child /\ r.weight = c.weight
                     => tree_of(path_row(p, c)) = tree_row(tree_of(p), r)
<1>0. p.first \in Nat /\ p.last \in Int
  BY DEF PathTyped
<1>1. within(t, path_row(p, c)) <=> within(t, p) /\ within(t, c)
  <2>1. path_row(p, c).first = larger(p.first, c.first) /\ path_row(p, c).last = smaller(p.last, c.last)
    BY DEF path_row
  <2>2. larger(p.first, c.first) <= t <=> p.first <= t /\ c.first <= t
    BY <1>0 DEF larger
  <2>3. t <= smaller(p.last, c.last) <=> t <= p.last /\ t <= c.last
    BY <1>0 DEF smaller
  <2>. QED
    BY <2>1, <2>2, <2>3 DEF within
<1>2. within(t, p) /\ within(t, c) => overlap(p, c)
  BY <1>0 DEF within, overlap
<1>3. ASSUME NEW r, r.child = c.child, r.weight = c.weight
      PROVE  tree_of(path_row(p, c)) = tree_row(tree_of(p), r)
  <2>1. p.path \in Seq(Hop) /\ <<c.child, c.first>> \in Hop
    BY DEF PathTyped, Hop
  <2>2. streams_on(Append(p.path, <<c.child, c.first>>)) = Append(streams_on(p.path), c.child)
    BY <2>1, StreamsOnPath
  <2>3. /\ path_row(p, c).path = Append(p.path, <<c.child, c.first>>)
        /\ path_row(p, c).child = c.child /\ path_row(p, c).weight = p.weight * c.weight
    BY DEF path_row
  <2>4. tree_of(path_row(p, c)) = [path |-> Append(streams_on(p.path), c.child),
                                   child |-> c.child, weight |-> p.weight * c.weight]
    BY <2>2, <2>3, Zenon DEF tree_of
  <2>5. tree_of(p).path = streams_on(p.path) /\ tree_of(p).weight = p.weight
    BY DEF tree_of
  <2>6. tree_row(tree_of(p), r) = [path |-> Append(streams_on(p.path), c.child),
                                   child |-> c.child, weight |-> p.weight * c.weight]
    BY <1>3, <2>5, Zenon DEF tree_row
  <2>. QED
    BY <2>4, <2>6, Zenon
<1>. QED
  BY <1>1, <1>2, <1>3

\* One step: the rows in force below p are those of the reference.
LEMMA StepNow ==
  ASSUME HierarchyInv, NEW from, NEW to, NEW t, InWindow(from, to, t),
         NEW p, PathTyped(p)
  PROVE  /\ \A h \in paths_below(p, from, to) :
              within(t, h) => within(t, p) /\ tree_of(h) \in tree_below(tree_of(p), t)
         /\ within(t, p) => \A w \in tree_below(tree_of(p), t) :
              \E h \in paths_below(p, from, to) : within(t, h) /\ tree_of(h) = w
         /\ tree_below(tree_of(p), t) # {} => 0 <= t
<1>. DEFINE C == weighted_links(p.child, from, to)
            V == version_at(p.child, t)
            l(r) == link_of(p.child, from, to, r)
<1>0. from \in Int /\ to \in Int /\ t \in Int /\ from < MaxInt8 /\ tree_of(p).child = p.child
  BY DEF InWindow, tree_of
<1>1. \A c \in C : /\ c.child \in Text \X Text /\ c.weight \in Nat
                   /\ c.first \in Nat /\ c.last \in Int
  BY <1>0, LinkTypes
<1>2. /\ \A c \in C : within(t, c) => \E r \in V : c = l(r)
      /\ \A r \in V : l(r) \in C /\ within(t, l(r)) /\ r.start_time \in Nat /\ r.start_time <= t
  BY LinksNow
<1>3. \A r \in V : l(r).child = r.child /\ l(r).weight = r.weight
  BY DEF link_of
<1>4. /\ paths_below(p, from, to) = {path_row(p, c) : c \in {x \in C : overlap(p, x)}}
      /\ tree_below(tree_of(p), t) = {tree_row(tree_of(p), r) : r \in V}
  BY <1>0 DEF paths_below, tree_below
<1>. HIDE DEF C, V, l
<1>5. ASSUME NEW c \in C
      PROVE  /\ within(t, path_row(p, c)) <=> within(t, p) /\ within(t, c)
             /\ within(t, p) /\ within(t, c) => overlap(p, c)
             /\ \A r : r.child = c.child /\ r.weight = c.weight
                         => tree_of(path_row(p, c)) = tree_row(tree_of(p), r)
  BY <1>0, <1>1, RowNow
<1>6. ASSUME NEW h \in paths_below(p, from, to), within(t, h)
      PROVE  within(t, p) /\ tree_of(h) \in tree_below(tree_of(p), t)
  <2>1. PICK c \in C : h = path_row(p, c)
    BY <1>4
  <2>2. within(t, p) /\ within(t, c)
    BY <1>5, <1>6, <2>1
  <2>3. PICK r \in V : c = l(r)
    BY <1>2, <2>2
  <2>4. tree_of(path_row(p, c)) = tree_row(tree_of(p), r)
    BY <1>3, <1>5, <2>3
  <2>. QED
    BY <1>4, <2>1, <2>2, <2>4
<1>7. ASSUME within(t, p), NEW w \in tree_below(tree_of(p), t)
      PROVE  \E h \in paths_below(p, from, to) : within(t, h) /\ tree_of(h) = w
  <2>1. PICK r \in V : w = tree_row(tree_of(p), r)
    BY <1>4
  <2>2. l(r) \in C /\ within(t, l(r))
    BY <1>2
  <2>3. /\ within(t, path_row(p, l(r))) /\ overlap(p, l(r))
        /\ tree_of(path_row(p, l(r))) = tree_row(tree_of(p), r)
    BY <1>3, <1>5, <1>7, <2>2
  <2>4. path_row(p, l(r)) \in paths_below(p, from, to)
    BY <1>4, <2>2, <2>3
  <2>. QED
    BY <2>1, <2>3, <2>4
<1>8. ASSUME tree_below(tree_of(p), t) # {} PROVE 0 <= t
  <2>1. PICK r \in V : TRUE
    BY <1>4, <1>8
  <2>2. r.start_time \in Nat /\ r.start_time <= t
    BY <1>2
  <2>. QED
    BY <1>0, <2>2
<1>. QED
  BY <1>6, <1>7, <1>8

\* Of two rows in force at a time, the streams on their paths tell which is which.
ApartAt(H, t) ==
  \A g, h \in H : within(t, g) /\ within(t, h) /\ tree_of(g).path = tree_of(h).path => g = h

LEMMA StepApart ==
  ASSUME HierarchyInv, NEW from, NEW to, NEW t, InWindow(from, to, t),
         NEW H, \A p \in H : PathTyped(p), ApartAt(H, t),
         NEW g, NEW h, within(t, g), within(t, h), tree_of(g).path = tree_of(h).path,
         NEW p \in H, g \in paths_below(p, from, to),
         NEW q \in H, h \in paths_below(q, from, to)
  PROVE  g = h
<1>0. from \in Int /\ to \in Int /\ t \in Int /\ from < MaxInt8
  BY DEF InWindow
<1>1. PathTyped(p) /\ PathTyped(q)
  OBVIOUS
<1>2. PICK c \in weighted_links(p.child, from, to) : g = path_row(p, c)
  BY DEF paths_below
<1>3. PICK d \in weighted_links(q.child, from, to) : h = path_row(q, d)
  BY DEF paths_below
<1>4. /\ c.child \in Text \X Text /\ c.weight \in Nat /\ c.first \in Nat /\ c.last \in Int
      /\ d.child \in Text \X Text /\ d.weight \in Nat /\ d.first \in Nat /\ d.last \in Int
  BY <1>0, LinkTypes
<1>5. within(t, p) /\ within(t, c) /\ within(t, q) /\ within(t, d)
  BY <1>0, <1>1, <1>2, <1>3, <1>4, RowNow
<1>6. /\ p.path \in Seq(Hop) /\ <<c.child, c.first>> \in Hop
      /\ q.path \in Seq(Hop) /\ <<d.child, d.first>> \in Hop
  BY <1>1, <1>4 DEF PathTyped, Hop
<1>7. /\ streams_on(p.path) \in Seq(Text \X Text) /\ streams_on(q.path) \in Seq(Text \X Text)
      /\ streams_on(Append(p.path, <<c.child, c.first>>)) = Append(streams_on(p.path), c.child)
      /\ streams_on(Append(q.path, <<d.child, d.first>>)) = Append(streams_on(q.path), d.child)
  BY <1>6, StreamsOnPath
<1>8. Append(streams_on(p.path), c.child) = Append(streams_on(q.path), d.child)
  <2>1. /\ tree_of(g).path = streams_on(Append(p.path, <<c.child, c.first>>))
        /\ tree_of(h).path = streams_on(Append(q.path, <<d.child, d.first>>))
    BY <1>2, <1>3 DEF tree_of, path_row
  <2>. QED
    BY <1>7, <2>1, Zenon
<1>9. streams_on(p.path) = streams_on(q.path) /\ c.child = d.child
  BY <1>4, <1>7, <1>8, AppendInjective
<1>10. p = q
  <2>1. tree_of(p).path = tree_of(q).path
    BY <1>9 DEF tree_of
  <2>. QED
    BY <1>5, <2>1 DEF ApartAt
<1>11. c = d
  <2>1. PICK r \in version_at(p.child, t) : c = link_of(p.child, from, to, r)
    BY <1>5, LinksNow
  <2>2. PICK s \in version_at(p.child, t) : d = link_of(p.child, from, to, s)
    BY <1>5, <1>10, LinksNow
  <2>3. r.child = s.child
    BY <1>9, <2>1, <2>2 DEF link_of
  <2>4. r = s
    BY <2>3, LinksNow
  <2>. QED
    BY <2>1, <2>2, <2>4
<1>. QED
  BY <1>2, <1>3, <1>10, <1>11

\* Every row below the top is below another one, or the top.
LEMMA HaveParents ==
  ASSUME NEW k, NEW from, NEW to, NEW S, PathLevels(k, from, to, S)
  PROVE  \A n \in Nat : /\ \A h \in S[n] : \E p \in S[n] \cup {path_root(k)} :
                              h \in paths_below(p, from, to)
                        /\ \A h \in S[n + 1] : \E p \in S[n] \cup {path_root(k)} :
                              h \in paths_below(p, from, to)
<1>. DEFINE Q == {n \in Nat : \A h \in S[n] : \E p \in S[n] \cup {path_root(k)} :
                                h \in paths_below(p, from, to)}
<1>1. /\ S[0] = paths_below(path_root(k), from, to)
      /\ \A n \in Nat : S[n + 1] = S[n] \cup UNION {paths_below(p, from, to) : p \in S[n]}
  BY DEF PathLevels, more_paths
<1>2. \A n \in Nat : n \in Q => \A h \in S[n + 1] : \E p \in S[n] \cup {path_root(k)} :
                                  h \in paths_below(p, from, to)
  BY <1>1
<1>3. 0 \in Q
  BY <1>1
<1>4. \A n \in Q : n + 1 \in Q
  <2>1. \A n \in Nat : S[n] \subseteq S[n + 1]
    BY <1>1
  <2>. QED
    BY <1>2, <2>1
<1>5. Q = Nat
  <2>1. Q \in SUBSET Nat
    OBVIOUS
  <2>. HIDE DEF Q
  <2>. QED
    BY <1>3, <1>4, <2>1, Induction
<1>. QED
  BY <1>2, <1>5

\* Level by level the rows in force at a time are those of the reference.
Mirrors(H, W, t) ==
  /\ \A h \in H : within(t, h) => tree_of(h) \in W
  /\ \A w \in W : \E h \in H : within(t, h) /\ tree_of(h) = w

LEMMA LevelsMirror ==
  ASSUME HierarchyInv, NEW k, NEW from, NEW to, NEW t, InWindow(from, to, t),
         NEW S, PathLevels(k, from, to, S), NEW B, TreeLevels(k, t, B)
  PROVE  \A n \in Nat : Mirrors(S[n], B[n], t)
<1>. DEFINE Q == {n \in Nat : Mirrors(S[n], B[n], t)}
            top == path_root(k)
<1>0. from \in Int /\ to \in Int /\ t \in Int /\ t < MaxInt8 /\ MaxInt8 \in Nat
  BY HierarchyAssumption DEF InWindow
<1>1. /\ S[0] = paths_below(top, from, to)
      /\ \A n \in Nat : S[n + 1] = S[n] \cup UNION {paths_below(p, from, to) : p \in S[n]}
      /\ \A n \in Nat : \A p \in S[n] : PathTyped(p)
  BY DEF PathLevels, more_paths, PathRow, PathTyped
<1>2. /\ B[0] = tree_below(tree_root(k), t)
      /\ \A n \in Nat : B[n + 1] = B[n] \cup UNION {tree_below(w, t) : w \in B[n]}
  BY DEF TreeLevels, more_tree
<1>3. PathTyped(top) /\ tree_of(top) = tree_root(k) /\ (0 <= t => within(t, top))
  <2>1. top.path = <<>> /\ top.child = k /\ top.weight = 1 /\ top.first = 0 /\ top.last = MaxInt8 - 1
    BY DEF path_root
  <2>2. PathTyped(top)
    BY <1>0, <2>1 DEF PathTyped
  <2>3. streams_on(<<>>) = <<>>
    BY DEF streams_on
  <2>4. tree_of(top) = tree_root(k)
    BY <2>1, <2>3 DEF tree_of, tree_root
  <2>5. 0 <= t => within(t, top)
    BY <1>0, <2>1 DEF within
  <2>. QED
    BY <2>2, <2>4, <2>5
<1>. HIDE DEF top
<1>4. 0 \in Q
  <2>1. ASSUME NEW h \in S[0], within(t, h) PROVE tree_of(h) \in B[0]
    <3>1. tree_of(h) \in tree_below(tree_of(top), t)
      BY <1>1, <1>3, <2>1, StepNow
    <3>. QED
      BY <1>2, <1>3, <3>1
  <2>2. ASSUME NEW w \in B[0] PROVE \E h \in S[0] : within(t, h) /\ tree_of(h) = w
    <3>1. w \in tree_below(tree_of(top), t)
      BY <1>2, <1>3
    <3>2. tree_below(tree_of(top), t) # {}
      BY <3>1
    <3>3. within(t, top)
      BY <1>3, <3>2, StepNow
    <3>. QED
      BY <1>1, <1>3, <3>1, <3>3, StepNow
  <2>. QED
    BY <2>1, <2>2 DEF Mirrors
<1>5. ASSUME NEW n \in Nat, n \in Q PROVE n + 1 \in Q
  <2>0. Mirrors(S[n], B[n], t)
    BY <1>5
  <2>1. ASSUME NEW h \in S[n + 1], within(t, h) PROVE tree_of(h) \in B[n + 1]
    <3>1. CASE h \in S[n]
      BY <1>2, <2>0, <2>1, <3>1 DEF Mirrors
    <3>2. CASE \E p \in S[n] : h \in paths_below(p, from, to)
      <4>1. PICK p \in S[n] : h \in paths_below(p, from, to)
        BY <3>2
      <4>2. within(t, p) /\ tree_of(h) \in tree_below(tree_of(p), t)
        BY <1>1, <2>1, <4>1, StepNow
      <4>3. tree_of(p) \in B[n]
        BY <2>0, <4>2 DEF Mirrors
      <4>. QED
        BY <1>2, <4>2, <4>3
    <3>. QED
      BY <1>1, <3>1, <3>2
  <2>2. ASSUME NEW w \in B[n + 1] PROVE \E h \in S[n + 1] : within(t, h) /\ tree_of(h) = w
    <3>1. CASE w \in B[n]
      BY <1>1, <2>0, <3>1 DEF Mirrors
    <3>2. CASE \E v \in B[n] : w \in tree_below(v, t)
      <4>1. PICK v \in B[n] : w \in tree_below(v, t)
        BY <3>2
      <4>2. PICK p \in S[n] : within(t, p) /\ tree_of(p) = v
        BY <2>0 DEF Mirrors
      <4>3. \E h \in paths_below(p, from, to) : within(t, h) /\ tree_of(h) = w
        BY <1>1, <4>1, <4>2, StepNow
      <4>. QED
        BY <1>1, <4>3
    <3>. QED
      BY <1>2, <3>1, <3>2
  <2>. QED
    BY <2>1, <2>2 DEF Mirrors
<1>6. Q = Nat
  <2>1. Q \in SUBSET Nat /\ \A n \in Q : n + 1 \in Q
    BY <1>5
  <2>. HIDE DEF Q
  <2>. QED
    BY <1>4, <2>1, Induction
<1>. QED
  BY <1>6

LEMMA LevelsApart ==
  ASSUME HierarchyInv, NEW k, NEW from, NEW to, NEW t, InWindow(from, to, t),
         NEW S, PathLevels(k, from, to, S)
  PROVE  \A n \in Nat : ApartAt(S[n] \cup {path_root(k)}, t)
<1>. DEFINE top == path_root(k)
            Q == {n \in Nat : ApartAt(S[n] \cup {top}, t)}
<1>0. from \in Int /\ to \in Int /\ t \in Int /\ t < MaxInt8 /\ MaxInt8 \in Nat /\ from < MaxInt8
  BY HierarchyAssumption DEF InWindow
<1>1. PathTyped(top) /\ top.path = <<>>
  BY <1>0 DEF path_root, PathTyped
<1>2. \A n \in Nat : \A p \in S[n] \cup {top} : PathTyped(p)
  BY <1>1 DEF PathLevels, PathRow, PathTyped
<1>. HIDE DEF top
<1>3. ASSUME NEW p, PathTyped(p), NEW h \in paths_below(p, from, to)
      PROVE  tree_of(h).path # tree_of(top).path
  <2>1. PICK c \in weighted_links(p.child, from, to) : h = path_row(p, c)
    BY DEF paths_below
  <2>2. p.path \in Seq(Hop) /\ <<c.child, c.first>> \in Hop
    <3>1. c.child \in Text \X Text /\ c.first \in Nat
      BY <1>0, LinkTypes
    <3>. QED
      BY <1>3, <3>1 DEF PathTyped, Hop
  <2>3. /\ streams_on(Append(p.path, <<c.child, c.first>>)) = Append(streams_on(p.path), c.child)
        /\ streams_on(p.path) \in Seq(Text \X Text)
    BY <2>2, StreamsOnPath
  <2>4. c.child \in Text \X Text
    BY <2>2 DEF Hop
  <2>5. Append(streams_on(p.path), c.child) # <<>>
    BY <2>3, <2>4, AppendProperties
  <2>6. streams_on(<<>>) = <<>>
    BY DEF streams_on
  <2>7. tree_of(h).path = Append(streams_on(p.path), c.child) /\ tree_of(top).path = <<>>
    BY <1>1, <2>1, <2>3, <2>6 DEF tree_of, path_row
  <2>. QED
    BY <2>5, <2>7
<1>4. ASSUME NEW H, \A p \in H : PathTyped(p), ApartAt(H, t),
             NEW G, \A g \in G : \E p \in H : g \in paths_below(p, from, to)
      PROVE  ApartAt(G \cup {top}, t)
  <2>1. ASSUME NEW g \in G, NEW h \in G, within(t, g), within(t, h),
               tree_of(g).path = tree_of(h).path
        PROVE  g = h
    <3>1. PICK p \in H : g \in paths_below(p, from, to)
      BY <1>4
    <3>2. PICK q \in H : h \in paths_below(q, from, to)
      BY <1>4
    <3>. QED
      BY <1>4, <2>1, <3>1, <3>2, StepApart
  <2>2. \A g \in G : tree_of(g).path # tree_of(top).path
    BY <1>3, <1>4
  <2>. QED
    BY <2>1, <2>2 DEF ApartAt
<1>5. 0 \in Q
  <2>1. ApartAt({top}, t)
    BY DEF ApartAt
  <2>2. \A g \in S[0] : \E p \in {top} : g \in paths_below(p, from, to)
    BY DEF PathLevels, top
  <2>3. \A p \in {top} : PathTyped(p)
    BY <1>1
  <2>4. ApartAt(S[0] \cup {top}, t)
    BY <1>4, <2>1, <2>2, <2>3
  <2>. QED
    BY <2>4
<1>6. ASSUME NEW n \in Nat, n \in Q PROVE n + 1 \in Q
  <2>1. \A h \in S[n + 1] : \E p \in S[n] \cup {top} : h \in paths_below(p, from, to)
    BY HaveParents DEF top
  <2>2. ApartAt(S[n] \cup {top}, t)
    BY <1>6
  <2>3. \A p \in S[n] \cup {top} : PathTyped(p)
    BY <1>2
  <2>4. ApartAt(S[n + 1] \cup {top}, t)
    BY <1>4, <2>1, <2>2, <2>3
  <2>. QED
    BY <2>4
<1>7. Q = Nat
  <2>1. Q \in SUBSET Nat /\ \A n \in Q : n + 1 \in Q
    BY <1>6
  <2>. HIDE DEF Q
  <2>. QED
    BY <1>5, <2>1, Induction
<1>. QED
  BY <1>7 DEF top

\* A path tells which row it is of.
Unique(H) == \A g, h \in H : g.path = h.path => g = h

LEMMA StepUnique ==
  ASSUME HierarchyInv, NEW from \in Int, NEW to \in Int, from < MaxInt8,
         NEW H, \A p \in H : PathTyped(p), Unique(H),
         NEW g, NEW h, g.path = h.path,
         NEW p \in H, g \in paths_below(p, from, to),
         NEW q \in H, h \in paths_below(q, from, to)
  PROVE  g = h
<1>1. PathTyped(p) /\ PathTyped(q)
  OBVIOUS
<1>2. PICK c \in weighted_links(p.child, from, to) : g = path_row(p, c)
  BY DEF paths_below
<1>3. PICK d \in weighted_links(q.child, from, to) : h = path_row(q, d)
  BY DEF paths_below
<1>4. /\ c.child \in Text \X Text /\ c.first \in Nat
      /\ d.child \in Text \X Text /\ d.first \in Nat
  BY LinkTypes
<1>5. /\ p.path \in Seq(Hop) /\ <<c.child, c.first>> \in Hop
      /\ q.path \in Seq(Hop) /\ <<d.child, d.first>> \in Hop
  BY <1>1, <1>4 DEF PathTyped, Hop
<1>6. Append(p.path, <<c.child, c.first>>) = Append(q.path, <<d.child, d.first>>)
  BY <1>2, <1>3 DEF path_row
<1>7. p.path = q.path /\ <<c.child, c.first>> = <<d.child, d.first>>
  <2>1. ASSUME NEW x \in Hop, NEW y \in Hop, NEW s \in Seq(Hop), NEW t \in Seq(Hop),
               Append(s, x) = Append(t, y)
        PROVE  s = t /\ x = y
    BY <2>1, AppendInjective
  <2>. QED
    BY <1>5, <1>6, <2>1
<1>8. p = q /\ c.child = d.child /\ c.first = d.first
  BY <1>7 DEF Unique
<1>9. PICK r \in winning(p.child, from, to) : c = link_of(p.child, from, to, r)
  BY LinkTypes
<1>10. PICK s \in winning(p.child, from, to) : d = link_of(p.child, from, to, s)
  BY <1>8, LinkTypes
<1>11. /\ r \in taxonomies /\ s \in taxonomies /\ r.stream = s.stream
       /\ r \in in_window(p.child, from, to) /\ s \in in_window(p.child, from, to)
  BY DEF winning, in_window, active, taxonomies_of
<1>12. r.child = s.child /\ r.start_time = s.start_time
  BY <1>8, <1>9, <1>10 DEF link_of
<1>13. r.group_sequence \in Nat /\ s.group_sequence \in Nat
  BY <1>11 DEF HierarchyInv, TaxonomyInv, TaxonomyTypeOK, TaxRow
<1>14. r.group_sequence <= s.group_sequence /\ s.group_sequence <= r.group_sequence
  BY <1>11, <1>12 DEF winning
<1>15. r.group_sequence = s.group_sequence
  BY <1>13, <1>14
<1>16. r = s
  BY <1>11, <1>12, <1>15 DEF HierarchyInv, TaxonomyInv, VersionsWhole
<1>. QED
  BY <1>2, <1>3, <1>8, <1>9, <1>10, <1>16

LEMMA LevelsUnique ==
  ASSUME HierarchyInv, NEW k, NEW from \in Int, NEW to \in Int, from < MaxInt8,
         NEW S, PathLevels(k, from, to, S)
  PROVE  \A n \in Nat : Unique(S[n] \cup {path_root(k)})
<1>. DEFINE top == path_root(k)
            Q == {n \in Nat : Unique(S[n] \cup {top})}
<1>0. MaxInt8 \in Nat
  BY HierarchyAssumption
<1>1. PathTyped(top) /\ top.path = <<>>
  BY <1>0, HierarchyAssumption DEF path_root, PathTyped
<1>2. \A n \in Nat : \A p \in S[n] \cup {top} : PathTyped(p)
  BY <1>1 DEF PathLevels, PathRow, PathTyped
<1>. HIDE DEF top
<1>3. ASSUME NEW p, PathTyped(p), NEW h \in paths_below(p, from, to)
      PROVE  h.path # top.path
  <2>1. PICK c \in weighted_links(p.child, from, to) : h = path_row(p, c)
    BY DEF paths_below
  <2>2. p.path \in Seq(Hop) /\ <<c.child, c.first>> \in Hop
    <3>1. c.child \in Text \X Text /\ c.first \in Nat
      BY LinkTypes
    <3>. QED
      BY <1>3, <3>1 DEF PathTyped, Hop
  <2>3. Append(p.path, <<c.child, c.first>>) # <<>>
    BY <2>2, AppendProperties
  <2>. QED
    BY <1>1, <2>1, <2>3 DEF path_row
<1>4. ASSUME NEW H, \A p \in H : PathTyped(p), Unique(H),
             NEW G, \A g \in G : \E p \in H : g \in paths_below(p, from, to)
      PROVE  Unique(G \cup {top})
  <2>1. ASSUME NEW g \in G, NEW h \in G, g.path = h.path PROVE g = h
    <3>1. PICK p \in H : g \in paths_below(p, from, to)
      BY <1>4
    <3>2. PICK q \in H : h \in paths_below(q, from, to)
      BY <1>4
    <3>. QED
      BY <1>4, <2>1, <3>1, <3>2, StepUnique
  <2>2. \A g \in G : g.path # top.path
    BY <1>3, <1>4
  <2>. QED
    BY <2>1, <2>2 DEF Unique
<1>5. 0 \in Q
  <2>1. Unique({top})
    BY DEF Unique
  <2>2. \A g \in S[0] : \E p \in {top} : g \in paths_below(p, from, to)
    BY DEF PathLevels, top
  <2>3. \A p \in {top} : PathTyped(p)
    BY <1>1
  <2>4. Unique(S[0] \cup {top})
    BY <1>4, <2>1, <2>2, <2>3
  <2>. QED
    BY <2>4
<1>6. ASSUME NEW n \in Nat, n \in Q PROVE n + 1 \in Q
  <2>1. \A h \in S[n + 1] : \E p \in S[n] \cup {top} : h \in paths_below(p, from, to)
    BY HaveParents DEF top
  <2>2. Unique(S[n] \cup {top})
    BY <1>6
  <2>3. \A p \in S[n] \cup {top} : PathTyped(p)
    BY <1>2
  <2>4. Unique(S[n + 1] \cup {top})
    BY <1>4, <2>1, <2>2, <2>3
  <2>. QED
    BY <2>4
<1>7. Q = Nat
  <2>1. Q \in SUBSET Nat /\ \A n \in Q : n + 1 \in Q
    BY <1>6
  <2>. HIDE DEF Q
  <2>. QED
    BY <1>5, <2>1, Induction
<1>. QED
  BY <1>7 DEF top

\* The weights the query takes: finitely many, one for each path, those in force at a
\* time being those of the reference.
LEMMA PathsAtTime ==
  ASSUME HierarchyInv, NEW k, NEW from \in Int, NEW to \in Int, from < MaxInt8, NEW PW,
         PW = primitive_weights(hierarchy(k, from, to))
  PROVE  /\ Weights(PW) /\ PW \subseteq PathRow
         /\ \A t : InWindow(from, to, t) => Mirrors(PW, leaf_weights_at(k, t), t) /\ ApartAt(PW, t)
<1>. DEFINE N == Cardinality(taxonomies)
            leaf(w) == stream_exists(w.child) /\ is_primitive_stream(w.child)
<1>1. PICK S : PathLevels(k, from, to, S) /\ hierarchy(k, from, to) = S[N]
  BY HierarchyLevels
<1>2. N \in Nat
  BY FS_CardinalityType DEF HierarchyInv
<1>. HIDE DEF N
<1>3. PW = {h \in S[N] : leaf(h)}
  BY <1>1 DEF primitive_weights
<1>4. S[N] \in SUBSET PathRow /\ IsFiniteSet(S[N])
  BY <1>1, <1>2 DEF PathLevels
<1>5. PW \in SUBSET S[N]
  BY <1>3
<1>6. IsFiniteSet(PW)
  BY <1>4, <1>5, FS_Subset, Zenon
<1>7. Unique(S[N] \cup {path_root(k)})
  BY <1>1, <1>2, LevelsUnique
<1>8. Weights(PW)
  BY <1>4, <1>5, <1>6, <1>7 DEF Weights, Unique, PathRow
<1>9. ASSUME NEW t, InWindow(from, to, t)
      PROVE  Mirrors(PW, leaf_weights_at(k, t), t) /\ ApartAt(PW, t)
  <2>1. PICK B : /\ TreeLevels(k, t, B)
                 /\ leaf_weights_at(k, t) = {w \in B[N] : leaf(w)}
    BY ReferenceLevels DEF N
  <2>2. Mirrors(S[N], B[N], t)
    BY <1>1, <1>2, <1>9, <2>1, LevelsMirror
  <2>3. \A h : tree_of(h).child = h.child
    BY DEF tree_of
  <2>4. Mirrors(PW, leaf_weights_at(k, t), t)
    <3>1. \A h : leaf(tree_of(h)) <=> leaf(h)
      BY <2>3
    <3>. HIDE DEF leaf
    <3>. QED
      BY <1>3, <2>1, <2>2, <3>1 DEF Mirrors
  <2>5. ApartAt(S[N] \cup {path_root(k)}, t)
    BY <1>1, <1>2, <1>9, LevelsApart
  <2>. QED
    BY <1>5, <2>4, <2>5 DEF ApartAt
<1>. QED
  BY <1>4, <1>5, <1>8, <1>9

-----------------------------------------------------------------------------
(* The events                                                              *)

\* The rows of primitive_events: one for each stream, time and block.
EventsWhole ==
  /\ IsFiniteSet(events)
  /\ height \in Nat /\ height <= MaxHeight
  /\ \A e \in events : /\ e.event_time \in TimeArgs /\ e.value \in ValueArgs
                       /\ e.created_at \in Nat /\ e.created_at <= height
  /\ \A e, f \in events :
       e.stream = f.stream /\ e.event_time = f.event_time /\ e.created_at = f.created_at
         => e = f

RecordsInv == HierarchyInv /\ EventsWhole

LEMMA RecordsStart == DeployedInit /\ events = {} => RecordsInv
<1>. SUFFICES ASSUME DeployedInit, events = {} PROVE RecordsInv
  OBVIOUS
<1>1. HierarchyInv
  BY DeployedTyped
<1>2. height = 0 /\ MaxHeight \in Nat
  BY InputAssumption DEF DeployedInit
<1>3. IsFiniteSet(events)
  BY FS_EmptySet
<1>. QED
  BY <1>1, <1>2, <1>3 DEF RecordsInv, EventsWhole

LEMMA EventsStay == EventsWhole /\ UNCHANGED <<height, events>> => EventsWhole'
BY DEF EventsWhole

LEMMA RecordsStep == RecordsInv /\ [ComposedNext]_composedVars => RecordsInv'
<1>. SUFFICES ASSUME RecordsInv, [ComposedNext]_composedVars
              PROVE  EventsWhole'
  BY RecordStep DEF RecordsInv
<1>1. CASE Taxonomise /\ UNCHANGED events
  <2>1. UNCHANGED height
    <3>1. PICK c \in Callers, dp \in ProviderArgs, id \in StreamIdArgs :
            \/ \E a \in TaxonomyArgs : insert_taxonomy(c, dp, id, a)
            \/ \E group \in GroupArgs : disable_taxonomy(c, dp, id, group)
      BY <1>1 DEF Taxonomise
    <3>2. ASSUME NEW a, insert_taxonomy(c, dp, id, a) PROVE UNCHANGED height
      BY <3>2, Zenon DEF insert_taxonomy
    <3>3. ASSUME NEW group, disable_taxonomy(c, dp, id, group) PROVE UNCHANGED height
      BY <3>3, Zenon DEF disable_taxonomy
    <3>. QED
      BY <3>1, <3>2, <3>3
  <2>. QED
    BY <1>1, <2>1, EventsStay DEF RecordsInv
<1>2. CASE InsertRecords
  <2>1. PICK c \in Callers, dp \in ProviderArgs, id \in StreamIdArgs, t \in TimeArgs,
             v \in ValueArgs : P!insert_record(c, dp, id, t, v)
    BY <1>2 DEF InsertRecords, P!InsertOne
  <2>. DEFINE new == P!new_event(<<Lower[dp], id>>, t, v)
  <2>2. /\ \A e \in events : ~ P!same_key(e, new)
        /\ events' = events \cup {new}
        /\ UNCHANGED height
    BY <2>1 DEF P!insert_record, P!append
  <2>3. /\ new.stream = <<Lower[dp], id>> /\ new.event_time = t /\ new.value = v
        /\ new.created_at = height
    BY DEF P!new_event
  <2>4. height \in Nat
    BY DEF RecordsInv, EventsWhole
  <2>. HIDE DEF new
  <2>5. IsFiniteSet(events')
    <3>1. IsFiniteSet(events)
      BY DEF RecordsInv, EventsWhole
    <3>2. IsFiniteSet(events \cup {new})
      BY <3>1, FS_Singleton, FS_Union, Zenon
    <3>. QED
      BY <2>2, <3>2, Zenon
  <2>6. \A e \in events' : /\ e.event_time \in TimeArgs /\ e.value \in ValueArgs
                           /\ e.created_at \in Nat /\ e.created_at <= height
    BY <2>2, <2>3, <2>4 DEF RecordsInv, EventsWhole
  <2>7. \A e, f \in events' :
          e.stream = f.stream /\ e.event_time = f.event_time /\ e.created_at = f.created_at
            => e = f
    <3>1. \A e \in events : ~ (/\ e.stream = new.stream /\ e.event_time = new.event_time
                               /\ e.created_at = new.created_at)
      BY <2>2 DEF P!same_key
    <3>. QED
      BY <2>2, <3>1 DEF RecordsInv, EventsWhole
  <2>8. height' = height /\ height \in Nat /\ height <= MaxHeight
    BY <2>2 DEF RecordsInv, EventsWhole
  <2>. QED
    BY <2>5, <2>6, <2>7, <2>8 DEF EventsWhole
<1>3. CASE UNCHANGED composedVars
  BY <1>3, EventsStay DEF composedVars, RecordsInv
<1>. QED
  BY <1>1, <1>2, <1>3 DEF ComposedNext

LEMMA RecordsInductive == ComposedSpec => []RecordsInv
BY RecordsStart, RecordsStep, PTL DEF ComposedSpec

\* The columns of the events, and what a query without frozen_at sees of them.
LEMMA EventRows ==
  ASSUME RecordsInv
  PROVE  /\ \A e \in events : /\ e.event_time \in Int /\ e.event_time < MaxInt8
                              /\ e.value \in Int /\ e.created_at \in Nat
                              /\ e.event_time \in TimeArgs /\ e.value \in ValueArgs
         /\ \A s : P!visible(s, NULL) = {e \in events : e.stream = s}
         /\ IsFiniteSet(events)
<1>1. \A e \in events : /\ e.event_time \in Int /\ e.event_time < MaxInt8
                        /\ e.value \in Int /\ e.created_at \in Nat /\ e.created_at <= MaxInt8
                        /\ e.event_time \in TimeArgs /\ e.value \in ValueArgs
  <2>1. /\ MaxInt8 \in Int /\ MaxHeight \in Int /\ MaxHeight < MaxInt8
        /\ TimeArgs \subseteq Int /\ \A t \in TimeArgs : t < MaxInt8
        /\ ValueArgs \subseteq Int
    BY RecordAssumption, HierarchyAssumption, InputAssumption
  <2>2. /\ height \in Nat /\ height <= MaxHeight
        /\ \A e \in events : /\ e.event_time \in TimeArgs /\ e.value \in ValueArgs
                             /\ e.created_at \in Nat /\ e.created_at <= height
    BY DEF RecordsInv, EventsWhole
  <2>3. ASSUME NEW e \in events PROVE e.created_at <= MaxInt8
    <3>1. e.created_at \in Nat /\ e.created_at <= height
      BY <2>2
    <3>. QED
      BY <2>1, <2>2, <3>1
  <2>. QED
    BY <2>1, <2>2, <2>3
<1>2. P!coalesce(NULL, MaxInt8) = MaxInt8
  BY DEF P!coalesce
<1>3. \A s : P!visible(s, NULL) = {e \in events : e.stream = s}
  BY <1>1, <1>2 DEF P!visible
<1>. QED
  BY <1>1, <1>3 DEF RecordsInv, EventsWhole

\* Of some events one is the latest.
LEMMA LatestRow ==
  ASSUME NEW E, IsFiniteSet(E), E # {}, \A e \in E : e.event_time \in Int /\ e.created_at \in Int
  PROVE  P!latest(E) # {}
<1>. DEFINE a == [e \in E |-> e.event_time]
            S == {a[e] : e \in E}
            m == Max(S)
            F == {e \in E : e.event_time = m}
            b == [e \in F |-> e.created_at]
            T == {b[e] : e \in F}
<1>1. m \in S /\ \A x \in S : x <= m
  <2>1. S \subseteq Int
    OBVIOUS
  <2>2. S # {}
    OBVIOUS
  <2>3. DOMAIN a = E
    OBVIOUS
  <2>. HIDE DEF a
  <2>4. IsFiniteSet(S)
    BY <2>3, ImageFinite, Zenon
  <2>. HIDE DEF S
  <2>. QED
    BY <2>1, <2>2, <2>4, MaxOf
<1>2. F # {} /\ \A e \in E : e.event_time <= m
  <2>. HIDE DEF m
  <2>. QED
    BY <1>1
<1>. HIDE DEF m
<1>3. \E n \in T : \A x \in T : x <= n
  <2>1. T \subseteq Int
    OBVIOUS
  <2>2. T # {}
    <3>. HIDE DEF F
    <3>. QED
      BY <1>2
  <2>3. DOMAIN b = F
    OBVIOUS
  <2>4. IsFiniteSet(F)
    <3>1. F \in SUBSET E
      OBVIOUS
    <3>. HIDE DEF F
    <3>. QED
      BY <3>1, FS_Subset, Zenon
  <2>. HIDE DEF b
  <2>5. IsFiniteSet(T)
    <3>. HIDE DEF F
    <3>. QED
      BY <2>3, <2>4, ImageFinite, Zenon
  <2>. HIDE DEF T
  <2>. QED
    BY <2>1, <2>2, <2>5, MaxOf
<1>4. PICK e \in F : \A f \in F : f.created_at <= e.created_at
  BY <1>3
<1>5. \A f \in E : \/ f.event_time < e.event_time
                   \/ f.event_time = e.event_time /\ f.created_at <= e.created_at
  <2>1. e \in E /\ e.event_time = m /\ m \in Int
    OBVIOUS
  <2>2. ASSUME NEW f \in E, f.event_time # m PROVE f.event_time < m
    BY <1>2, <2>1, <2>2
  <2>. QED
    BY <1>4, <2>1, <2>2
<1>. QED
  BY <1>5 DEF P!latest

-----------------------------------------------------------------------------
(* The points of a stream, and the value in force                          *)

\* The weights a query of a window takes.
PathsOf(PW, k, from, to) ==
  /\ from \in Int /\ to \in Int /\ from < MaxInt8
  /\ PW = primitive_weights(hierarchy(k, from, to))

\* The rows of primitive_events the points come from.
later_records(PW, s, from, to) ==
  {x \in P!interval_records(s, from, to, NULL) :
     \E w \in weights_of(PW, s) : within(x.event_time, w)}
point_rows(PW, s, from, to) ==
  P!anchor_record(s, from, NULL) \cup later_records(PW, s, from, to)

has_weight(PW, s, t) == \E w \in PW : w.child = s /\ within(t, w)

LEMMA PointRows ==
  ASSUME RecordsInv, NEW PW, NEW s, NEW from \in Int, NEW to \in Int
  PROVE  /\ primitive_points(PW, s, from, to, NULL)
              = {P!rec(e) : e \in point_rows(PW, s, from, to)}
         /\ \A e \in P!anchor_record(s, from, NULL) :
              /\ e \in events /\ e.stream = s /\ e.event_time <= from
              /\ \A f \in events : f.stream = s /\ f.event_time <= from =>
                   \/ f.event_time < e.event_time
                   \/ f.event_time = e.event_time /\ f.created_at <= e.created_at
         /\ \A e \in later_records(PW, s, from, to) :
              /\ e \in events /\ e.stream = s /\ from < e.event_time /\ e.event_time <= to
              /\ has_weight(PW, s, e.event_time)
              /\ \A f \in events : f.stream = s /\ f.event_time = e.event_time =>
                   f.created_at <= e.created_at
         /\ \A e \in events :
              /\ e.stream = s /\ e.event_time <= from
              /\ \A f \in events : f.stream = s /\ f.event_time <= from =>
                   \/ f.event_time < e.event_time
                   \/ f.event_time = e.event_time /\ f.created_at <= e.created_at
              => e \in P!anchor_record(s, from, NULL)
         /\ \A e \in events :
              /\ e.stream = s /\ from < e.event_time /\ e.event_time <= to
              /\ has_weight(PW, s, e.event_time)
              /\ \A f \in events : f.stream = s /\ f.event_time = e.event_time =>
                   f.created_at <= e.created_at
              => e \in later_records(PW, s, from, to)
<1>1. P!visible(s, NULL) = {e \in events : e.stream = s}
  BY EventRows
<1>2. primitive_points(PW, s, from, to, NULL) = {P!rec(e) : e \in point_rows(PW, s, from, to)}
  BY DEF primitive_points, point_rows, later_records
<1>3. \A e : e \in P!anchor_record(s, from, NULL) <=>
               /\ e \in events /\ e.stream = s /\ e.event_time <= from
               /\ \A f \in events : f.stream = s /\ f.event_time <= from =>
                    \/ f.event_time < e.event_time
                    \/ f.event_time = e.event_time /\ f.created_at <= e.created_at
  BY <1>1 DEF P!anchor_record, P!latest
<1>4. \A e : e \in P!interval_records(s, from, to, NULL) <=>
               /\ e \in events /\ e.stream = s /\ from < e.event_time /\ e.event_time <= to
               /\ \A f \in events : f.stream = s /\ from < f.event_time /\ f.event_time <= to
                                    /\ f.event_time = e.event_time =>
                    f.created_at <= e.created_at
  BY <1>1 DEF P!interval_records
<1>5. \A e : e \in later_records(PW, s, from, to) <=>
               /\ e \in P!interval_records(s, from, to, NULL)
               /\ has_weight(PW, s, e.event_time)
  BY DEF later_records, has_weight, weights_of
<1>. QED
  BY <1>2, <1>3, <1>4, <1>5

LEMMA PointsOf ==
  ASSUME RecordsInv, NEW PW, NEW s, NEW from \in Int, NEW to \in Int
  PROVE  Points(primitive_points(PW, s, from, to, NULL))
<1>. DEFINE X == point_rows(PW, s, from, to)
            A == P!anchor_record(s, from, NULL)
            I == later_records(PW, s, from, to)
            g == [e \in X |-> P!rec(e)]
            R == primitive_points(PW, s, from, to, NULL)
<1>1. /\ R = {P!rec(e) : e \in X} /\ X = A \cup I
  BY PointRows DEF point_rows
<1>2. /\ \A e \in A : /\ e \in events /\ e.stream = s /\ e.event_time <= from
                      /\ \A f \in events : f.stream = s /\ f.event_time <= from =>
                           \/ f.event_time < e.event_time
                           \/ f.event_time = e.event_time /\ f.created_at <= e.created_at
      /\ \A e \in I : /\ e \in events /\ e.stream = s /\ from < e.event_time
                      /\ \A f \in events : f.stream = s /\ f.event_time = e.event_time =>
                           f.created_at <= e.created_at
  <2>1. \A e \in A :
          /\ e \in events /\ e.stream = s /\ e.event_time <= from
          /\ \A f \in events : f.stream = s /\ f.event_time <= from =>
               \/ f.event_time < e.event_time
               \/ f.event_time = e.event_time /\ f.created_at <= e.created_at
    BY PointRows, Zenon
  <2>2. \A e \in I :
          /\ e \in events /\ e.stream = s /\ from < e.event_time /\ e.event_time <= to
          /\ has_weight(PW, s, e.event_time)
          /\ \A f \in events : f.stream = s /\ f.event_time = e.event_time =>
               f.created_at <= e.created_at
    BY PointRows, Zenon
  <2>. HIDE DEF A, I
  <2>. QED
    BY <2>1, <2>2
<1>. HIDE DEF A, I, R, X
<1>3. /\ \A e \in events : e.event_time \in Int /\ e.value \in Int /\ e.created_at \in Nat
      /\ IsFiniteSet(events)
  BY EventRows
<1>4. X \in SUBSET events
  BY <1>1, <1>2
<1>5. IsFiniteSet(R)
  <2>1. IsFiniteSet(X)
    BY <1>3, <1>4, FS_Subset
  <2>2. DOMAIN g = X
    OBVIOUS
  <2>3. R = {g[e] : e \in X}
    BY <1>1
  <2>. HIDE DEF g
  <2>4. IsFiniteSet({g[e] : e \in X})
    BY <2>1, <2>2, ImageFinite, Zenon
  <2>. QED
    BY <2>3, <2>4, Zenon
<1>6. ASSUME NEW e \in X, NEW f \in X, e.event_time = f.event_time PROVE e = f
  <2>1. e.created_at <= f.created_at /\ f.created_at <= e.created_at
    BY <1>1, <1>2, <1>3, <1>4, <1>6
  <2>2. e.created_at = f.created_at
    BY <1>3, <1>4, <2>1
  <2>3. e.stream = f.stream /\ e \in events /\ f \in events
    BY <1>1, <1>2
  <2>. QED
    BY <1>6, <2>2, <2>3 DEF RecordsInv, EventsWhole
<1>7. \A e : P!rec(e).event_time = e.event_time /\ P!rec(e).value = e.value
  BY DEF P!rec
<1>8. \A r \in R : r.event_time \in Int /\ r.value \in Int
  BY <1>1, <1>3, <1>4, <1>7
<1>9. \A r, q \in R : r.event_time = q.event_time => r = q
  BY <1>1, <1>6, <1>7
<1>. QED
  BY <1>5, <1>8, <1>9 DEF Points, R

\* The value before a time, by the last point.
LEMMA LastValue ==
  ASSUME NEW R, Points(R), NEW r \in R, NEW n \in Int, r.event_time < n,
         \A q \in R : q.event_time < n => q.event_time <= r.event_time
  PROVE  value_before(R, n) = r.value
<1>. DEFINE m == r.event_time + 1
<1>1. r.event_time \in Int
  BY DEF Points
<1>2. value_before(R, m) = r.value
  BY <1>1, ValueSteps
<1>3. before(R, n) = before(R, m)
  <2>1. \A q \in R : q.event_time < n <=> q.event_time < m
    <3>1. ASSUME NEW q \in R PROVE q.event_time < n <=> q.event_time < m
      <4>1. q.event_time \in Int
        BY DEF Points
      <4>2. q.event_time < n => q.event_time <= r.event_time
        OBVIOUS
      <4>. QED
        BY <1>1, <4>1, <4>2
    <3>. QED
      BY <3>1
  <2>. HIDE DEF m
  <2>. QED
    BY <2>1 DEF before
<1>. DEFINE val(B) == IF B = {} THEN 0 ELSE (CHOOSE q \in last_of(B) : TRUE).value
<1>4. value_before(R, n) = val(before(R, n)) /\ value_before(R, m) = val(before(R, m))
  BY Zenon DEF value_before
<1>. HIDE DEF val, m
<1>. QED
  BY <1>2, <1>3, <1>4, Zenon

\* At a time of the window the points give the value in force by the events that are
\* taken account of.
LEMMA ValueNow ==
  ASSUME RecordsInv, NEW k, NEW from, NEW to, NEW PW, PathsOf(PW, k, from, to), NEW s,
         NEW t, InWindow(from, to, t), NEW E, E = counted(k, from), NEW R,
         R = primitive_points(PW, s, from, to, NULL)
  PROVE  /\ (\E r \in R : r.event_time <= t) <=> (\E e \in E : e.stream = s /\ e.event_time <= t)
         /\ (\E r \in R : r.event_time <= t) =>
              value_before(R, t + 1) = value_in_force(E, s, t)
<1>. DEFINE A == P!anchor_record(s, from, NULL)
            I == later_records(PW, s, from, to)
            D == {x \in E : x.stream = s /\ x.event_time <= t}
<1>0. from \in Int /\ to \in Int /\ t \in Int /\ from <= t /\ t <= to /\ t < MaxInt8
  BY DEF InWindow
<1>1. /\ R = {P!rec(e) : e \in A \cup I}
      /\ \A e \in A : e \in events /\ e.stream = s /\ e.event_time <= from
      /\ \A e \in I : /\ e \in events /\ e.stream = s /\ from < e.event_time /\ e.event_time <= to
                      /\ has_weight(PW, s, e.event_time)
  BY <1>0, PointRows DEF point_rows
<1>2. /\ \A e \in events :
              /\ e.stream = s /\ e.event_time <= from
              /\ \A f \in events : f.stream = s /\ f.event_time <= from =>
                   \/ f.event_time < e.event_time
                   \/ f.event_time = e.event_time /\ f.created_at <= e.created_at
              => e \in A
      /\ \A e \in events :
              /\ e.stream = s /\ from < e.event_time /\ e.event_time <= to
              /\ has_weight(PW, s, e.event_time)
              /\ \A f \in events : f.stream = s /\ f.event_time = e.event_time =>
                   f.created_at <= e.created_at
              => e \in I
  BY <1>0, PointRows
<1>. HIDE DEF A, I
<1>3. \A e \in events : /\ e.event_time \in Int /\ e.event_time < MaxInt8
                        /\ e.value \in Int /\ e.created_at \in Nat
  BY EventRows
<1>4. \A e : e \in E <=> /\ e \in events
                         /\ \/ e.event_time <= from
                            \/ \E w \in leaf_weights_at(k, e.event_time) : w.child = e.stream
  BY DEF counted
<1>5. ASSUME NEW e \in events, e.stream = s, from < e.event_time, e.event_time <= to
      PROVE  has_weight(PW, s, e.event_time) <=>
               \E w \in leaf_weights_at(k, e.event_time) : w.child = e.stream
  <2>1. InWindow(from, to, e.event_time)
    BY <1>0, <1>3, <1>5 DEF InWindow
  <2>2. HierarchyInv /\ from < MaxInt8 /\ PW = primitive_weights(hierarchy(k, from, to))
    BY DEF RecordsInv, PathsOf
  <2>3. Mirrors(PW, leaf_weights_at(k, e.event_time), e.event_time)
    BY <1>0, <2>1, <2>2, PathsAtTime
  <2>4. \A h : tree_of(h).child = h.child
    BY DEF tree_of
  <2>. QED
    BY <1>5, <2>3, <2>4 DEF Mirrors, has_weight
<1>6. \A e : P!rec(e).event_time = e.event_time /\ P!rec(e).value = e.value
  BY DEF P!rec
<1>7. \A r \in R : r.event_time <= t => \E e \in D : r = P!rec(e)
  <2>1. ASSUME NEW e \in A PROVE e \in E
    BY <1>1, <1>4
  <2>2. ASSUME NEW e \in I PROVE e \in E
    BY <1>1, <1>4, <1>5
  <2>. QED
    BY <1>1, <1>6, <2>1, <2>2
<1>8. ASSUME NEW e \in P!latest(D)
      PROVE  P!rec(e) \in R
  <2>1. /\ e \in D
        /\ \A f \in D : \/ f.event_time < e.event_time
                        \/ f.event_time = e.event_time /\ f.created_at <= e.created_at
    BY DEF P!latest
  <2>2. e \in events /\ e.stream = s /\ e.event_time <= t /\ e.event_time <= to
    BY <1>0, <1>3, <1>4, <2>1
  <2>3. CASE e.event_time <= from
    <3>1. \A f \in events : f.stream = s /\ f.event_time <= from => f \in D
      BY <1>0, <1>3, <1>4
    <3>2. e \in A
      BY <1>2, <2>1, <2>2, <2>3, <3>1
    <3>. QED
      BY <1>1, <3>2
  <2>4. CASE from < e.event_time
    <3>1. \E w \in leaf_weights_at(k, e.event_time) : w.child = e.stream
      BY <1>0, <1>3, <1>4, <2>1, <2>2, <2>4
    <3>2. has_weight(PW, s, e.event_time)
      BY <1>5, <2>2, <2>4, <3>1
    <3>3. \A f \in events : f.stream = s /\ f.event_time = e.event_time => f \in D
      BY <1>4, <2>2, <3>1
    <3>4. \A f \in events : f.stream = s /\ f.event_time = e.event_time =>
                              f.created_at <= e.created_at
      BY <1>3, <2>1, <2>2, <3>3
    <3>5. e \in I
      BY <1>2, <2>2, <2>4, <3>2, <3>4
    <3>. QED
      BY <1>1, <3>5
  <2>. QED
    BY <1>0, <1>3, <2>2, <2>3, <2>4
<1>9. D # {} => P!latest(D) # {}
  <2>1. IsFiniteSet(events)
    BY EventRows
  <2>2. D \in SUBSET events
    BY <1>4
  <2>3. \A e \in D : e.event_time \in Int /\ e.created_at \in Int
    BY <1>3, <2>2
  <2>. HIDE DEF D
  <2>4. IsFiniteSet(D)
    BY <2>1, <2>2, FS_Subset, Zenon
  <2>. QED
    BY <2>3, <2>4, LatestRow
<1>10. (\E r \in R : r.event_time <= t) <=> D # {}
  <2>1. ASSUME D # {} PROVE \E r \in R : r.event_time <= t
    <3>1. PICK e \in P!latest(D) : TRUE
      BY <1>9, <2>1
    <3>2. e.event_time <= t
      BY DEF P!latest
    <3>. QED
      BY <1>6, <1>8, <3>1, <3>2
  <2>. QED
    BY <1>7, <2>1
<1>11. ASSUME D # {} PROVE value_before(R, t + 1) = value_in_force(E, s, t)
  <2>. DEFINE e == CHOOSE x \in P!latest(D) : TRUE
  <2>1. e \in P!latest(D)
    BY <1>9, <1>11
  <2>2. value_in_force(E, s, t) = e.value
    BY DEF value_in_force
  <2>. HIDE DEF e
  <2>3. P!rec(e) \in R /\ P!rec(e).event_time = e.event_time /\ P!rec(e).value = e.value
    BY <1>6, <1>8, <2>1
  <2>4. /\ e \in D /\ e.event_time \in Int /\ e.event_time < t + 1
        /\ \A f \in D : f.event_time <= e.event_time
    <3>1. /\ e \in D
          /\ \A f \in D : \/ f.event_time < e.event_time
                          \/ f.event_time = e.event_time /\ f.created_at <= e.created_at
      BY <2>1 DEF P!latest
    <3>2. \A f \in D : f.event_time \in Int /\ f.event_time <= t
      BY <1>3, <1>4
    <3>. HIDE DEF D
    <3>. QED
      BY <1>0, <3>1, <3>2
  <2>5. Points(R)
    BY <1>0, PointsOf
  <2>6. \A q \in R : q.event_time < t + 1 => q.event_time <= P!rec(e).event_time
    <3>1. \A q \in R : q.event_time \in Int
      BY <2>5 DEF Points
    <3>2. \A q \in R : q.event_time < t + 1 => q.event_time <= t
      BY <1>0, <3>1
    <3>3. \A q \in R : q.event_time <= t => \E f \in D : q.event_time = f.event_time
      BY <1>6, <1>7
    <3>. HIDE DEF D
    <3>. QED
      BY <2>3, <2>4, <3>2, <3>3
  <2>7. value_before(R, t + 1) = P!rec(e).value
    <3>1. t + 1 \in Int /\ P!rec(e).event_time < t + 1
      BY <1>0, <2>3, <2>4
    <3>. QED
      BY <2>3, <2>5, <2>6, <3>1, LastValue
  <2>. QED
    BY <2>2, <2>3, <2>7
<1>. QED
  BY <1>10, <1>11

-----------------------------------------------------------------------------
(* The sums over the timelines are sums over the weights in force          *)

\* The timeline of a stream with points R[s] and changes of value V[s].
timeline(PW, R, V, s) ==
  [stream |-> s, values |-> V[s], weights |-> weight_changes(weights_of(PW, s), R[s])]
timelines_of(PW, R, V) == {timeline(PW, R, V, s) : s \in leaves(PW)}

StreamsOf(PW, R, V) ==
  /\ Weights(PW)
  /\ \A s \in leaves(PW) : Points(R[s]) /\ Changes(V[s])

has_value(R, s, t) == \E r \in R[s] : r.event_time <= t

\* The weights in force that count: those of streams with a value.
counting(PW, R, t) == {w \in PW : within(t, w) /\ has_value(R, w.child, t)}

LEMMA SomeWeights ==
  ASSUME NEW PW, Weights(PW), NEW s
  PROVE  Weights(weights_of(PW, s)) /\ weights_of(PW, s) \in SUBSET PW
<1>1. weights_of(PW, s) \in SUBSET PW
  BY DEF weights_of
<1>2. IsFiniteSet(weights_of(PW, s))
  BY <1>1, FS_Subset DEF Weights
<1>. QED
  BY <1>1, <1>2 DEF Weights

LEMMA LeavesFinite ==
  ASSUME NEW PW, Weights(PW)
  PROVE  IsFiniteSet(leaves(PW))
<1>. DEFINE g == [w \in PW |-> w.child]
<1>1. leaves(PW) = {g[w] : w \in PW}
  BY DEF leaves
<1>2. DOMAIN g = PW /\ IsFiniteSet(PW)
  BY DEF Weights
<1>. HIDE DEF g
<1>3. IsFiniteSet({g[w] : w \in PW})
  BY <1>2, ImageFinite, Zenon
<1>. QED
  BY <1>1, <1>3, Zenon

LEMMA LinesOfStreams ==
  ASSUME NEW PW, NEW R, NEW V, StreamsOf(PW, R, V)
  PROVE  Lines(timelines_of(PW, R, V))
<1>. DEFINE g == [s \in leaves(PW) |-> timeline(PW, R, V, s)]
            L == timelines_of(PW, R, V)
<1>1. IsFiniteSet(L)
  <2>1. L = {g[s] : s \in leaves(PW)}
    BY DEF timelines_of
  <2>2. DOMAIN g = leaves(PW)
    OBVIOUS
  <2>3. IsFiniteSet(leaves(PW))
    BY LeavesFinite DEF StreamsOf
  <2>. HIDE DEF g
  <2>4. IsFiniteSet({g[s] : s \in leaves(PW)})
    BY <2>2, <2>3, ImageFinite, Zenon
  <2>. QED
    BY <2>1, <2>4, Zenon
<1>2. ASSUME NEW s \in leaves(PW)
      PROVE  /\ Changes(timeline(PW, R, V, s).values)
             /\ Changes(timeline(PW, R, V, s).weights)
             /\ timeline(PW, R, V, s).stream = s
  <2>1. Changes(weight_changes(weights_of(PW, s), R[s]))
    BY SomeWeights, WeightChanges DEF StreamsOf
  <2>. QED
    BY <2>1 DEF StreamsOf, timeline
<1>3. \A x \in L : \E s \in leaves(PW) : x = timeline(PW, R, V, s)
  BY DEF timelines_of
<1>4. \A x \in L : Changes(x.values) /\ Changes(x.weights)
  BY <1>2, <1>3
<1>5. \A x, y \in L : x.stream = y.stream => x = y
  BY <1>2, <1>3
<1>. QED
  BY <1>1, <1>4, <1>5 DEF Lines

LEMMA PartSame ==
  ASSUME NEW f, NEW g, NEW s, \A x \in s : f[x] = g[x]
  PROVE  Part(f, s) = Part(g, s)
<1>1. [x \in s |-> f[x]] = [x \in s |-> g[x]]
  OBVIOUS
<1>. QED
  BY <1>1, Zenon DEF Part

\* Of one stream.
LEMMA StreamSums ==
  ASSUME NEW PW, NEW R, NEW V, StreamsOf(PW, R, V), NEW t \in Int, t < MaxInt8,
         NEW s \in leaves(PW),
         NEW f, DOMAIN f = PW,
         \A w \in PW : f[w] = IF within(t, w) /\ has_value(R, w.child, t) THEN w.weight ELSE 0,
         NEW h, DOMAIN h = PW,
         \A w \in PW : h[w] = f[w] * total(before(V[w.child], t + 1))
  PROVE  /\ total(before(timeline(PW, R, V, s).weights, t + 1)) = Part(f, weights_of(PW, s))
         /\ weighted(timeline(PW, R, V, s).values, timeline(PW, R, V, s).weights, t + 1)
              = Part(h, weights_of(PW, s))
<1>. DEFINE W == weights_of(PW, s)
            C == weight_changes(W, R[s])
            v == total(before(V[s], t + 1))
            now == in_time(W, t)
<1>1. /\ Weights(PW) /\ Weights(W) /\ W \in SUBSET PW
      /\ Points(R[s]) /\ Changes(V[s])
  BY SomeWeights DEF StreamsOf
<1>2. \A x \in leaves(PW) : total(before(V[x], t + 1)) \in Int
  BY TotalStep DEF StreamsOf
<1>3. /\ Part(weight_of(W), now) \in Int
      /\ total(before(C, t + 1)) = IF \E r \in R[s] : r.event_time <= t
                                   THEN Part(weight_of(W), now) ELSE 0
  BY <1>1, WeightSum
<1>4. \A w \in W : w.child = s /\ w \in PW
  BY DEF weights_of
<1>5. Summable(f) /\ Summable(h)
  <2>1. IsFiniteSet(PW) /\ \A w \in PW : w.weight \in Int
    BY <1>1 DEF Weights
  <2>2. \A w \in PW : f[w] \in Int
    BY <2>1
  <2>3. \A w \in PW : total(before(V[w.child], t + 1)) \in Int
    BY <1>2 DEF leaves
  <2>4. \A w \in PW : h[w] \in Int
    BY <2>2, <2>3
  <2>. QED
    BY <2>1, <2>2, <2>4 DEF Summable
<1>. HIDE DEF W, C, v, now
<1>6. total(before(C, t + 1)) = Part(f, W)
  <2>1. CASE has_value(R, s, t)
    <3>1. total(before(C, t + 1)) = Part(weight_of(W), now)
      BY <1>3, <2>1 DEF has_value
    <3>2. now \in SUBSET W /\ W \ now \in SUBSET W /\ W = now \cup (W \ now)
          /\ now \cap (W \ now) = {}
      BY DEF now, in_time
    <3>3. \A x \in now : weight_of(W)[x] = f[x]
      BY <1>4, <2>1 DEF now, in_time, weight_of
    <3>4. Part(weight_of(W), now) = Part(f, now)
      BY <3>3, PartSame
    <3>5. \A x \in W \ now : f[x] = 0
      BY <1>4 DEF now, in_time
    <3>6. Part(f, W \ now) = 0
      BY <1>1, <1>5, <3>2, <3>5, PartZero
    <3>7. Part(f, now \cup (W \ now)) = Part(f, now) + Part(f, W \ now)
      BY <1>1, <1>5, <3>2, PartUnion
    <3>8. Part(f, W) = Part(f, now) + Part(f, W \ now)
      BY <3>2, <3>7, Zenon
    <3>. QED
      BY <1>3, <3>1, <3>4, <3>6, <3>8
  <2>2. CASE ~ has_value(R, s, t)
    <3>1. total(before(C, t + 1)) = 0
      BY <1>3, <2>2 DEF has_value
    <3>2. \A x \in W : f[x] = 0
      BY <1>4, <2>2
    <3>3. Part(f, W) = 0
      BY <1>1, <1>5, <3>2, PartZero
    <3>. QED
      BY <3>1, <3>3
  <2>. QED
    BY <2>1, <2>2
<1>7. Part(h, W) = Part(f, W) * v
  <2>1. \A x \in W : h[x] = f[x] * v
    BY <1>4 DEF v
  <2>2. v \in Int
    BY <1>2 DEF v
  <2>. QED
    BY <1>1, <1>5, <2>1, <2>2, PartTimes
<1>8. /\ timeline(PW, R, V, s).weights = C
      /\ timeline(PW, R, V, s).values = V[s]
  BY DEF timeline, C, W
<1>9. weighted(V[s], C, t + 1) = v * total(before(C, t + 1))
  BY DEF weighted, v
<1>10. v * Part(f, W) = Part(f, W) * v
  <2>1. v \in Int /\ Part(f, W) \in Int
    BY <1>1, <1>2, <1>5, PartStep DEF v
  <2>. QED
    BY <2>1
<1>. QED
  BY <1>6, <1>7, <1>8, <1>9, <1>10 DEF W

\* A sum over the lines is one over the weights that count.
LEMMA LineSum ==
  ASSUME NEW PW, NEW R, NEW V, StreamsOf(PW, R, V), NEW L, L = timelines_of(PW, R, V),
         NEW f, Summable(f), DOMAIN f = PW,
         NEW q, Summable(q), DOMAIN q = L,
         \A s \in leaves(PW) : q[timeline(PW, R, V, s)] = Part(f, weights_of(PW, s)),
         NEW C \in SUBSET PW, \A w \in PW \ C : f[w] = 0
  PROVE  Part(q, L) = Part(f, C)
<1>. DEFINE h == [s \in leaves(PW) |-> Part(f, weights_of(PW, s))]
            key == [w \in PW |-> w.child]
            b == [s \in leaves(PW) |-> timeline(PW, R, V, s)]
<1>1. \A s : weights_of(PW, s) \in SUBSET PW
  BY DEF weights_of
<1>2. DOMAIN h = leaves(PW) /\ \A s \in leaves(PW) : h[s] = Part(f, weights_of(PW, s))
  OBVIOUS
<1>3. \A w \in PW : key[w] = w.child /\ key[w] \in leaves(PW)
  BY DEF leaves
<1>4. \A s \in leaves(PW) : b[s] = timeline(PW, R, V, s) /\ b[s].stream = s
  BY DEF timeline
<1>5. L = {b[s] : s \in leaves(PW)}
  BY DEF timelines_of
<1>. HIDE DEF h, key, b
<1>6. Summable(h)
  <2>1. IsFiniteSet(leaves(PW))
    BY LeavesFinite DEF StreamsOf
  <2>2. \A s \in SUBSET PW : Part(f, s) \in Int
    BY PartStep
  <2>. QED
    BY <1>1, <1>2, <2>1, <2>2 DEF Summable
<1>7. Part(f, PW) = Part(h, leaves(PW))
  <2>1. \A s \in leaves(PW) : h[s] = Part(f, {w \in PW : key[w] = s})
    <3>1. ASSUME NEW s \in leaves(PW) PROVE weights_of(PW, s) = {w \in PW : key[w] = s}
      BY <1>3 DEF weights_of
    <3>. QED
      BY <1>2, <3>1
  <2>. QED
    BY <1>2, <1>3, <1>6, <2>1, PartGrouped
<1>8. Part(h, leaves(PW)) = Part(q, {b[s] : s \in leaves(PW)})
  <2>1. \A s \in leaves(PW) : b[s] \in DOMAIN q /\ q[b[s]] = h[s]
    BY <1>2, <1>4, <1>5
  <2>2. \A s, r \in leaves(PW) : b[s] = b[r] => s = r
    BY <1>4
  <2>. QED
    BY <1>2, <1>6, <2>1, <2>2, PartRenamed
<1>9. Part(f, PW) = Part(f, C)
  <2>1. PW \ C \in SUBSET DOMAIN f /\ C \in SUBSET DOMAIN f /\ C \cap (PW \ C) = {}
        /\ PW = C \cup (PW \ C)
    OBVIOUS
  <2>2. Part(f, PW \ C) = 0
    BY <2>1, PartZero
  <2>3. Part(f, C \cup (PW \ C)) = Part(f, C) + Part(f, PW \ C)
    BY <2>1, PartUnion
  <2>4. Part(f, C) \in Int
    BY <2>1, PartStep
  <2>5. Part(f, PW) = Part(f, C) + Part(f, PW \ C)
    BY <2>1, <2>3, Zenon
  <2>. QED
    BY <2>2, <2>4, <2>5
<1>. QED
  BY <1>5, <1>7, <1>8, <1>9, Zenon

LEMMA LeafSums ==
  ASSUME NEW PW, NEW R, NEW V, StreamsOf(PW, R, V), NEW t \in Int, t < MaxInt8,
         NEW L, L = timelines_of(PW, R, V), NEW C, C = counting(PW, R, t)
  PROVE  /\ weight_sum(L, t + 1) = SumFunction([w \in C |-> w.weight])
         /\ weighted_sum(L, t + 1)
              = SumFunction([w \in C |-> w.weight * total(before(V[w.child], t + 1))])
<1>. DEFINE f == [w \in PW |-> IF within(t, w) /\ has_value(R, w.child, t) THEN w.weight ELSE 0]
            h == [w \in PW |-> f[w] * total(before(V[w.child], t + 1))]
            qw == [x \in L |-> total(before(x.weights, t + 1))]
            qv == [x \in L |-> weighted(x.values, x.weights, t + 1)]
<1>1. /\ DOMAIN f = PW /\ DOMAIN h = PW
      /\ \A w \in PW : f[w] = IF within(t, w) /\ has_value(R, w.child, t) THEN w.weight ELSE 0
      /\ \A w \in PW : h[w] = f[w] * total(before(V[w.child], t + 1))
  OBVIOUS
<1>2. /\ DOMAIN qw = L /\ DOMAIN qv = L
      /\ weight_sum(L, t + 1) = Part(qw, L) /\ weighted_sum(L, t + 1) = Part(qv, L)
      /\ \A x \in L : /\ qw[x] = total(before(x.weights, t + 1))
                      /\ qv[x] = weighted(x.values, x.weights, t + 1)
  <2>1. [x \in L |-> qw[x]] = qw /\ [x \in L |-> qv[x]] = qv
    OBVIOUS
  <2>2. SumFunction(qw) = Part(qw, L) /\ SumFunction(qv) = Part(qv, L)
    BY <2>1, Zenon DEF Part
  <2>3. weight_sum(L, t + 1) = SumFunction(qw) /\ weighted_sum(L, t + 1) = SumFunction(qv)
    BY DEF weight_sum, weighted_sum
  <2>4. \A x \in L : /\ qw[x] = total(before(x.weights, t + 1))
                     /\ qv[x] = weighted(x.values, x.weights, t + 1)
    OBVIOUS
  <2>. QED
    BY <2>2, <2>3, <2>4
<1>3. /\ C \in SUBSET PW
      /\ \A w \in C : f[w] = w.weight /\ h[w] = w.weight * total(before(V[w.child], t + 1))
      /\ \A w \in PW \ C : f[w] = 0
  BY DEF counting
<1>. HIDE DEF f, h, qw, qv
<1>4. \A s \in leaves(PW) : total(before(V[s], t + 1)) \in Int
  BY TotalStep DEF StreamsOf
<1>5. Summable(f) /\ Summable(h) /\ \A w \in PW \ C : h[w] = 0
  <2>1. IsFiniteSet(PW) /\ \A w \in PW : w.weight \in Int
    BY DEF Weights, StreamsOf
  <2>2. \A w \in PW : f[w] \in Int
    BY <1>1, <2>1
  <2>3. \A w \in PW : total(before(V[w.child], t + 1)) \in Int
    BY <1>4 DEF leaves
  <2>4. \A w \in PW : h[w] \in Int
    BY <1>1, <2>2, <2>3
  <2>5. \A w \in PW \ C : h[w] = 0
    BY <1>1, <1>3, <2>3
  <2>. QED
    BY <1>1, <2>1, <2>2, <2>4, <2>5 DEF Summable
<1>6. Lines(L)
  BY LinesOfStreams
<1>7. Summable(qw) /\ Summable(qv)
  <2>1. t + 1 \in Int /\ IsFiniteSet(L)
    BY <1>6 DEF Lines
  <2>2. \A x \in L : qw[x] \in Int /\ qv[x] \in Int
    BY <1>2, <1>6, <2>1, LineNumbers
  <2>. QED
    BY <1>2, <2>1, <2>2 DEF Summable
<1>8. \A s \in leaves(PW) :
        /\ qw[timeline(PW, R, V, s)] = Part(f, weights_of(PW, s))
        /\ qv[timeline(PW, R, V, s)] = Part(h, weights_of(PW, s))
  <2>1. ASSUME NEW s \in leaves(PW)
        PROVE  /\ qw[timeline(PW, R, V, s)] = Part(f, weights_of(PW, s))
               /\ qv[timeline(PW, R, V, s)] = Part(h, weights_of(PW, s))
    <3>1. timeline(PW, R, V, s) \in L
      BY DEF timelines_of
    <3>2. /\ total(before(timeline(PW, R, V, s).weights, t + 1)) = Part(f, weights_of(PW, s))
          /\ weighted(timeline(PW, R, V, s).values, timeline(PW, R, V, s).weights, t + 1)
               = Part(h, weights_of(PW, s))
      BY <1>1, StreamSums
    <3>. QED
      BY <1>2, <3>1, <3>2
  <2>. QED
    BY <2>1
<1>9. Part(qw, L) = Part(f, C)
  BY <1>1, <1>2, <1>3, <1>5, <1>7, <1>8, LineSum
<1>10. Part(qv, L) = Part(h, C)
  BY <1>1, <1>2, <1>3, <1>5, <1>7, <1>8, LineSum
<1>11. Part(f, C) = SumFunction([w \in C |-> w.weight])
  <2>1. [w \in C |-> f[w]] = [w \in C |-> w.weight]
    BY <1>3
  <2>. QED
    BY <2>1, Zenon DEF Part
<1>12. Part(h, C) = SumFunction([w \in C |-> w.weight * total(before(V[w.child], t + 1))])
  <2>1. [w \in C |-> h[w]] = [w \in C |-> w.weight * total(before(V[w.child], t + 1))]
    BY <1>3
  <2>. QED
    BY <2>1, Zenon DEF Part
<1>. QED
  BY <1>2, <1>9, <1>10, <1>11, <1>12, Zenon

-----------------------------------------------------------------------------
(* The sums over the weights in force are those of the reference           *)

\* The weights at time t of the streams below k that have a value by the events E.
reference(k, E, t) ==
  {w \in leaf_weights_at(k, t) : \E e \in E : e.stream = w.child /\ e.event_time <= t}

LEMMA CountingMirrors ==
  ASSUME RecordsInv, NEW k, NEW from, NEW to, NEW PW, PathsOf(PW, k, from, to),
         NEW t, InWindow(from, to, t), NEW R, NEW E,
         \A s \in leaves(PW) :
           has_value(R, s, t) <=> \E e \in E : e.stream = s /\ e.event_time <= t,
         NEW C, C = counting(PW, R, t), NEW K, K = reference(k, E, t)
  PROVE  /\ \A w \in C : tree_of(w) \in K
         /\ \A x \in K : \E w \in C : x = tree_of(w)
         /\ \A w, x \in C : tree_of(w) = tree_of(x) => w = x
         /\ C \in SUBSET PW
<1>1. HierarchyInv /\ from \in Int /\ to \in Int /\ from < MaxInt8
      /\ PW = primitive_weights(hierarchy(k, from, to))
  BY DEF RecordsInv, PathsOf
<1>2. Mirrors(PW, leaf_weights_at(k, t), t) /\ ApartAt(PW, t)
  BY <1>1, PathsAtTime
<1>3. \A h : tree_of(h).child = h.child
  BY DEF tree_of
<1>4. \A w \in PW : w.child \in leaves(PW)
  BY DEF leaves
<1>5. \A w : w \in C <=> w \in PW /\ within(t, w) /\ has_value(R, w.child, t)
  BY DEF counting
<1>6. \A x : x \in K <=> /\ x \in leaf_weights_at(k, t)
                         /\ \E e \in E : e.stream = x.child /\ e.event_time <= t
  BY DEF reference
<1>7. \A w \in C : tree_of(w) \in K
  BY <1>2, <1>3, <1>4, <1>5, <1>6 DEF Mirrors
<1>8. \A x \in K : \E w \in C : x = tree_of(w)
  <2>1. ASSUME NEW x \in K PROVE \E w \in C : x = tree_of(w)
    <3>1. PICK w \in PW : within(t, w) /\ tree_of(w) = x
      BY <1>2, <1>6 DEF Mirrors
    <3>2. x.child = w.child
      BY <1>3, <3>1
    <3>3. has_value(R, w.child, t)
      BY <1>4, <1>6, <3>2
    <3>. QED
      BY <1>5, <3>1, <3>3
  <2>. QED
    BY <2>1
<1>9. \A w, x \in C : tree_of(w) = tree_of(x) => w = x
  BY <1>2, <1>5 DEF ApartAt
<1>10. C \in SUBSET PW
  BY <1>5
<1>. QED
  BY <1>7, <1>8, <1>9, <1>10

LEMMA SumsNow ==
  ASSUME RecordsInv, NEW k, NEW from, NEW to, NEW PW, PathsOf(PW, k, from, to),
         NEW t, InWindow(from, to, t), NEW R, NEW V, StreamsOf(PW, R, V),
         NEW L, L = timelines_of(PW, R, V), NEW E,
         \A s \in leaves(PW) :
           has_value(R, s, t) <=> \E e \in E : e.stream = s /\ e.event_time <= t,
         NEW v,
         \A s \in leaves(PW) : has_value(R, s, t) => v[s] = total(before(V[s], t + 1)),
         NEW K, K = reference(k, E, t)
  PROVE  /\ weight_sum(L, t + 1) = SumFunction([x \in K |-> x.weight])
         /\ weighted_sum(L, t + 1) = SumFunction([x \in K |-> x.weight * v[x.child]])
<1>. DEFINE C == counting(PW, R, t)
            f == [w \in C |-> w.weight]
            h == [w \in C |-> w.weight * total(before(V[w.child], t + 1))]
            g == [x \in K |-> x.weight]
            q == [x \in K |-> x.weight * v[x.child]]
            b == [w \in C |-> tree_of(w)]
<1>1. /\ weight_sum(L, t + 1) = SumFunction(f)
      /\ weighted_sum(L, t + 1) = SumFunction(h)
  BY LeafSums DEF InWindow
<1>2. /\ \A w \in C : tree_of(w) \in K
      /\ \A x \in K : \E w \in C : x = tree_of(w)
      /\ \A w, x \in C : tree_of(w) = tree_of(x) => w = x
      /\ C \in SUBSET PW
  BY CountingMirrors
<1>3. \A w \in C : /\ tree_of(w).child = w.child /\ tree_of(w).weight = w.weight
                   /\ w.child \in leaves(PW) /\ w.weight \in Int
                   /\ has_value(R, w.child, t)
  <2>1. \A w \in PW : w.weight \in Int
    BY DEF StreamsOf, Weights
  <2>. QED
    BY <2>1 DEF counting, tree_of, leaves
<1>4. \A w \in C : total(before(V[w.child], t + 1)) \in Int
  BY <1>3, TotalStep DEF InWindow, StreamsOf
<1>5. /\ DOMAIN f = C /\ DOMAIN h = C /\ DOMAIN g = K /\ DOMAIN q = K /\ DOMAIN b = C
      /\ \A w \in C : /\ f[w] = w.weight /\ h[w] = w.weight * total(before(V[w.child], t + 1))
                      /\ b[w] = tree_of(w)
      /\ \A x \in K : g[x] = x.weight /\ q[x] = x.weight * v[x.child]
  OBVIOUS
<1>6. /\ f = [x \in DOMAIN f |-> f[x]] /\ h = [x \in DOMAIN h |-> h[x]]
      /\ g = [x \in DOMAIN g |-> g[x]] /\ q = [x \in DOMAIN q |-> q[x]]
  OBVIOUS
<1>. HIDE DEF C, f, h, g, q, b
<1>7. IsFiniteSet(C)
  BY <1>2, FS_Subset DEF StreamsOf, Weights
<1>8. K = {b[w] : w \in C}
  BY <1>2, <1>5
<1>9. IsFiniteSet(K)
  <2>0. DOMAIN b = C
    BY <1>5
  <2>1. IsFiniteSet({b[w] : w \in C})
    BY ONLY <1>7, <2>0, ImageFinite, Zenon
  <2>. QED
    BY <1>8, <2>1, Zenon
<1>10. \A w \in C : /\ f[w] \in Int /\ h[w] \in Int /\ b[w] \in K
                    /\ g[b[w]] = f[w] /\ q[b[w]] = h[w]
  <2>1. ASSUME NEW w \in C PROVE v[w.child] = total(before(V[w.child], t + 1))
    BY <1>3
  <2>2. ASSUME NEW w \in C PROVE q[b[w]] = h[w]
    <3>1. q[b[w]] = tree_of(w).weight * v[tree_of(w).child]
      BY <1>2, <1>5
    <3>. QED
      BY <1>3, <1>5, <2>1, <3>1
  <2>. QED
    BY <1>2, <1>3, <1>4, <1>5, <2>2
<1>11. \A x \in K : g[x] \in Int /\ q[x] \in Int
  BY <1>2, <1>5, <1>10
<1>12. Summable(f) /\ Summable(h) /\ Summable(g) /\ Summable(q)
  BY <1>5, <1>7, <1>9, <1>10, <1>11 DEF Summable
<1>13. Part(f, C) = Part(g, {b[w] : w \in C}) /\ Part(h, C) = Part(q, {b[w] : w \in C})
  <2>1. \A w, x \in C : b[w] = b[x] => w = x
    BY <1>2, <1>5
  <2>2. Part(f, C) = Part(g, {b[w] : w \in C})
    BY <1>5, <1>10, <1>12, <2>1, PartRenamed
  <2>3. Part(h, C) = Part(q, {b[w] : w \in C})
    BY <1>5, <1>10, <1>12, <2>1, PartRenamed
  <2>. QED
    BY <2>2, <2>3
<1>14. /\ SumFunction(f) = Part(f, C) /\ SumFunction(h) = Part(h, C)
       /\ SumFunction(g) = Part(g, K) /\ SumFunction(q) = Part(q, K)
  BY <1>5, <1>6, PartWhole, Zenon
<1>15. weight_sum(L, t + 1) = SumFunction(g) /\ weighted_sum(L, t + 1) = SumFunction(q)
  BY <1>1, <1>8, <1>13, <1>14, Zenon
<1>. QED
  BY <1>15 DEF g, q

\* The points of the streams of a query of records, and their changes.
points_of(PW, from, to) == [s \in leaves(PW) |-> primitive_points(PW, s, from, to, NULL)]
changes_of(PW, from, to) ==
  [s \in leaves(PW) |-> value_changes(primitive_points(PW, s, from, to, NULL))]

\* What ValueNow says of the points R[s] of a stream.
ValueAgrees(R, E, s, t) ==
  /\ has_value(R, s, t) <=> \E e \in E : e.stream = s /\ e.event_time <= t
  /\ has_value(R, s, t) => value_before(R[s], t + 1) = value_in_force(E, s, t)

LEMMA ValuesNow ==
  ASSUME RecordsInv, NEW k, NEW from, NEW to, NEW PW, PathsOf(PW, k, from, to),
         NEW t, InWindow(from, to, t), NEW R, R = points_of(PW, from, to),
         NEW E, E = counted(k, from), NEW s \in leaves(PW)
  PROVE  ValueAgrees(R, E, s, t)
<1>. DEFINE X == primitive_points(PW, s, from, to, NULL)
<1>1. R[s] = X
  BY DEF points_of
<1>2. /\ (\E r \in X : r.event_time <= t) <=> (\E e \in E : e.stream = s /\ e.event_time <= t)
      /\ (\E r \in X : r.event_time <= t) => value_before(X, t + 1) = value_in_force(E, s, t)
  BY ValueNow
<1>. HIDE DEF X
<1>. QED
  BY <1>1, <1>2 DEF ValueAgrees, has_value

LEMMA RecordSums ==
  ASSUME RecordsInv, NEW k, NEW from, NEW to, NEW PW, PathsOf(PW, k, from, to),
         NEW R, R = points_of(PW, from, to), NEW V, V = changes_of(PW, from, to),
         NEW L, L = timelines_of(PW, R, V), NEW E, E = counted(k, from)
  PROVE  /\ StreamsOf(PW, R, V)
         /\ \A t : InWindow(from, to, t) =>
              fraction(weighted_sum(L, t + 1), weight_sum(L, t + 1)) = average(k, E, t)
<1>1. HierarchyInv /\ from \in Int /\ to \in Int /\ from < MaxInt8
      /\ PW = primitive_weights(hierarchy(k, from, to))
  BY DEF RecordsInv, PathsOf
<1>2. \A s \in leaves(PW) : R[s] = primitive_points(PW, s, from, to, NULL) /\ V[s] = value_changes(R[s])
  BY DEF points_of, changes_of
<1>3. \A s \in leaves(PW) : Points(R[s])
  BY <1>1, <1>2, PointsOf
<1>4. \A s \in leaves(PW) : Changes(V[s])
  BY <1>2, <1>3, ValueSum
<1>5. StreamsOf(PW, R, V)
  <2>1. Weights(PW)
    BY <1>1, PathsAtTime
  <2>. QED
    BY <1>3, <1>4, <2>1 DEF StreamsOf
<1>6. ASSUME NEW t, InWindow(from, to, t)
      PROVE  fraction(weighted_sum(L, t + 1), weight_sum(L, t + 1)) = average(k, E, t)
  <2>. DEFINE v == [s \in leaves(PW) |-> value_in_force(E, s, t)]
              K == reference(k, E, t)
  <2>1. ASSUME NEW s \in leaves(PW)
        PROVE  ValueAgrees(R, E, s, t)
    BY <1>6, ValuesNow
  <2>2. ASSUME NEW s \in leaves(PW)
        PROVE  total(before(V[s], t + 1)) = value_before(R[s], t + 1)
    <3>1. t + 1 \in Int
      BY <1>6 DEF InWindow
    <3>2. total(before(value_changes(R[s]), t + 1)) = value_before(R[s], t + 1)
      BY <1>3, <3>1, ValueSum
    <3>. QED
      BY <1>2, <3>2
  <2>3. \A s \in leaves(PW) : has_value(R, s, t) => v[s] = total(before(V[s], t + 1))
    <3>1. \A s \in leaves(PW) : v[s] = value_in_force(E, s, t)
      OBVIOUS
    <3>. HIDE DEF v
    <3>. QED
      BY <2>1, <2>2, <3>1 DEF ValueAgrees
  <2>4. \A s \in leaves(PW) :
          has_value(R, s, t) <=> \E e \in E : e.stream = s /\ e.event_time <= t
    BY <2>1 DEF ValueAgrees
  <2>5. \A x \in K : v[x.child] = value_in_force(E, x.child, t)
    <3>. DEFINE C == counting(PW, R, t)
    <3>1. \A x \in K : \E w \in C : x = tree_of(w)
      <4>. HIDE DEF C, K, v
      <4>. QED
        BY <1>6, <2>4, CountingMirrors DEF C, K
    <3>2. \A w \in C : tree_of(w).child \in leaves(PW)
      BY DEF counting, tree_of, leaves
    <3>3. \A s \in leaves(PW) : v[s] = value_in_force(E, s, t)
      OBVIOUS
    <3>. HIDE DEF C, K, v
    <3>. QED
      BY <3>1, <3>2, <3>3
  <2>. HIDE DEF v
  <2>6. /\ weight_sum(L, t + 1) = SumFunction([x \in K |-> x.weight])
        /\ weighted_sum(L, t + 1) = SumFunction([x \in K |-> x.weight * v[x.child]])
    <3>. HIDE DEF K
    <3>. QED
      BY <1>5, <1>6, <2>3, <2>4, SumsNow DEF K
  <2>7. [x \in K |-> x.weight * v[x.child]]
          = [x \in K |-> x.weight * value_in_force(E, x.child, t)]
    <3>. HIDE DEF K
    <3>. QED
      BY <2>5
  <2>8. average(k, E, t)
          = fraction(SumFunction([x \in K |-> x.weight * value_in_force(E, x.child, t)]),
                     SumFunction([x \in K |-> x.weight]))
    BY DEF average, reference
  <2>. HIDE DEF K
  <2>. QED
    BY <2>6, <2>7, <2>8, Zenon
<1>. QED
  BY <1>5, <1>6

\* record_rows, by its timelines.
LEMMA RecordRows ==
  ASSUME NEW PW, NEW from, NEW to
  PROVE  record_rows(PW, from, to, NULL)
           = {locf(D, cleaned_event_times(PW, from, to, NULL), from, to) :
                D \in final_deltas(timelines_of(PW, points_of(PW, from, to), changes_of(PW, from, to)))}
<1>. DEFINE pts(s) == primitive_points(PW, s, from, to, NULL)
            changed(s) == [stream |-> s, points |-> pts(s), values |-> value_changes(pts(s))]
            R == points_of(PW, from, to)
            V == changes_of(PW, from, to)
            L == timelines(PW, {changed(s) : s \in leaves(PW)})
<1>1. L = timelines_of(PW, R, V)
  <2>1. L = {[stream |-> changed(s).stream, values |-> changed(s).values,
              weights |-> weight_changes(weights_of(PW, changed(s).stream), changed(s).points)] :
               s \in leaves(PW)}
    BY DEF timelines
  <2>2. \A s \in leaves(PW) :
          [stream |-> changed(s).stream, values |-> changed(s).values,
           weights |-> weight_changes(weights_of(PW, changed(s).stream), changed(s).points)]
            = timeline(PW, R, V, s)
    BY DEF timeline, points_of, changes_of
  <2>. QED
    BY <2>1, <2>2 DEF timelines_of
<1>2. record_rows(PW, from, to, NULL)
        = {locf(D, cleaned_event_times(PW, from, to, NULL), from, to) : D \in final_deltas(L)}
  BY DEF record_rows
<1>. HIDE DEF L
<1>. QED
  BY <1>1, <1>2, Zenon

\* The times that count besides are times.
LEMMA CleanedTimes ==
  ASSUME RecordsInv, NEW PW, Weights(PW), NEW from \in Int, NEW to \in Int
  PROVE  cleaned_event_times(PW, from, to, NULL) \subseteq Int
<1>. DEFINE g == [w \in PW |-> w.first]
            h == [e \in events |-> e.event_time]
            marks == {w.first : w \in PW} \cup
                       UNION {{e.event_time :
                                 e \in {x \in P!visible(w.child, NULL) : within(x.event_time, w)}} :
                                w \in PW}
            early == {t \in marks : t <= from}
            A == {g[w] : w \in PW}
            B == {h[e] : e \in events}
<1>1. /\ \A e \in events : e.event_time \in Int
      /\ \A s : P!visible(s, NULL) = {e \in events : e.stream = s}
      /\ IsFiniteSet(events)
  BY EventRows
<1>2. marks \subseteq A \cup B
  BY <1>1
<1>3. A \subseteq Int /\ B \subseteq Int
  BY <1>1 DEF Weights
<1>4. IsFiniteSet(A) /\ IsFiniteSet(B)
  <2>1. DOMAIN g = PW
    OBVIOUS
  <2>2. DOMAIN h = events
    OBVIOUS
  <2>3. IsFiniteSet(PW) /\ IsFiniteSet(events)
    BY <1>1 DEF Weights
  <2>. HIDE DEF g, h
  <2>4. IsFiniteSet({g[w] : w \in PW})
    BY ONLY <2>1, <2>3, ImageFinite, Zenon
  <2>5. IsFiniteSet({h[e] : e \in events})
    BY ONLY <2>2, <2>3, ImageFinite, Zenon
  <2>. QED
    BY <2>4, <2>5
<1>5. cleaned_event_times(PW, from, to, NULL)
        = {t \in marks : from < t /\ t <= to} \cup (IF early = {} THEN {} ELSE {Max(early)})
  BY DEF cleaned_event_times
<1>6. early \in SUBSET (A \cup B) /\ early \subseteq Int
  BY <1>2, <1>3
<1>7. {t \in marks : from < t /\ t <= to} \subseteq Int
  BY <1>2, <1>3
<1>. HIDE DEF marks, early, A, B
<1>8. IsFiniteSet(early)
  BY <1>4, <1>6, FS_Union, FS_Subset
<1>9. early # {} => Max(early) \in early
  BY <1>6, <1>8, MaxOf
<1>. QED
  BY <1>5, <1>6, <1>7, <1>9

\* Rows of locf.
Located(rows, from, to) ==
  \E D, C : Dated(D) /\ C \subseteq Int /\ rows = locf(D, C, from, to)

\* The rows of some answer, carried forward, are the averages.
LEMMA RowsCompute ==
  ASSUME RecordsInv, NEW k, NEW from, NEW to, NEW PW, PathsOf(PW, k, from, to)
  PROVE  \E rows \in record_rows(PW, from, to, NULL) :
           /\ Located(rows, from, to)
           /\ \A t : InWindow(from, to, t) =>
                Carries(rows, t, average(k, counted(k, from), t))
<1>. DEFINE R == points_of(PW, from, to)
            V == changes_of(PW, from, to)
            L == timelines_of(PW, R, V)
            E == counted(k, from)
            C == cleaned_event_times(PW, from, to, NULL)
<1>1. record_rows(PW, from, to, NULL) = {locf(D, C, from, to) : D \in final_deltas(L)}
  BY RecordRows
<1>. HIDE DEF R, V, L, E, C
<1>2. /\ StreamsOf(PW, R, V)
      /\ \A t : InWindow(from, to, t) =>
           fraction(weighted_sum(L, t + 1), weight_sum(L, t + 1)) = average(k, E, t)
  BY RecordSums DEF R, V, L, E
<1>3. Lines(L)
  BY <1>2, LinesOfStreams DEF L
<1>4. PICK D \in final_deltas(L) : Dated(D) /\ Adds(D, L)
  BY <1>3, BestAdds
<1>5. from \in Int /\ to \in Int
  BY DEF PathsOf
<1>6. C \subseteq Int
  BY <1>2, <1>5, CleanedTimes DEF C, StreamsOf
<1>. DEFINE rows == locf(D, C, from, to)
<1>7. rows \in record_rows(PW, from, to, NULL) /\ Located(rows, from, to)
  BY <1>1, <1>4, <1>6 DEF Located
<1>. HIDE DEF rows
<1>8. ASSUME NEW t, InWindow(from, to, t)
      PROVE  Carries(rows, t, average(k, E, t))
  <2>. DEFINE sums == fraction(weighted_sum(L, t + 1), weight_sum(L, t + 1))
  <2>1. t \in Int /\ from <= t /\ t <= to
    BY <1>8 DEF InWindow
  <2>2. Carries(rows, t, sums)
    <3>1. Dated(D) /\ Adds(D, L) /\ C \subseteq Int /\ from \in Int /\ to \in Int
      BY <1>4, <1>5, <1>6
    <3>2. Carries(locf(D, C, from, to), t, sums)
      BY ONLY <2>1, <3>1, CarriedSums, Zenon
    <3>. QED
      BY <3>2 DEF rows
  <2>3. sums = average(k, E, t)
    BY <1>2, <1>8
  <2>. HIDE DEF sums
  <2>. QED
    BY <2>2, <2>3
<1>. QED
  BY <1>7, <1>8 DEF E

-----------------------------------------------------------------------------
(* The record in a window                                                  *)

\* The checks have an answer, whatever the rows of metadata.
LEMMA SomeReader ==
  ASSUME NEW k, NEW wallet, NEW from, NEW to
  PROVE  is_allowed_to_read_all(k, wallet, from, to) # {}
<1>. DEFINE all == {k} \cup {s.child : s \in substreams(k, coalesce(from, 0), coalesce(to, MaxInt8))}
            may_block(s) == 1 \in private_values(s) /\ without_permission(s, wallet)
            may_pass(s)  == private_values(s) # {1} \/ ~ without_permission(s, wallet)
<1>1. is_allowed_to_read_all(k, wallet, from, to)
        = IF ~ all \subseteq DOMAIN streams THEN {"missing"}
          ELSE (IF \A s \in all : may_pass(s) THEN {"yes"} ELSE {})
               \cup (IF \E s \in all : may_block(s) THEN {"no"} ELSE {})
  BY Zenon DEF is_allowed_to_read_all
<1>2. \A s : ~ may_pass(s) => may_block(s)
  OBVIOUS
<1>. HIDE DEF all, may_block, may_pass
<1>. QED
  BY <1>1, <1>2

LEMMA SomePermission ==
  ASSUME NEW k, NEW wallet, NEW from, NEW to
  PROVE  permitted(k, wallet, from, to) # {}
<1>1. is_allowed_to_read_all(k, wallet, from, to) # {}
  BY SomeReader
<1>2. is_allowed_to_compose_all(k, from, to) # {}
  <2>. DEFINE X == edges(k, from, to)
              private(c) == get_latest_metadata_int(c, "compose_visibility")
              may_block(e) == /\ 1 \in private(e[2])
                              /\ ~ lists(e[1], e[2])
                              /\ may_be_distinct(e[1], e[2])
              must_block(e) == /\ private(e[2]) = {1}
                               /\ ~ lists(e[1], e[2])
                               /\ owner_values(e[1]) \cap owner_values(e[2]) = {}
  <2>1. is_allowed_to_compose_all(k, from, to)
          = IF k \notin DOMAIN streams \/ \E e \in X : e[2] \notin DOMAIN streams THEN {"missing"}
            ELSE (IF \A e \in X : ~ must_block(e) THEN {"yes"} ELSE {})
                 \cup (IF \E e \in X : may_block(e) THEN {"no"} ELSE {})
    BY Zenon DEF is_allowed_to_compose_all
  <2>2. \A c : owner_values(c) # {}
    BY DEF owner_values, get_latest_metadata_ref
  <2>3. \A e : must_block(e) => may_block(e)
    <3>1. ASSUME NEW e, must_block(e) PROVE may_block(e)
      <4>1. PICK o \in owner_values(e[2]), p \in owner_values(e[1]) : TRUE
        BY <2>2
      <4>2. o # p
        BY <3>1, <4>1
      <4>3. may_be_distinct(e[1], e[2])
        BY <4>1, <4>2 DEF may_be_distinct
      <4>. QED
        BY <3>1, <4>3
    <3>. QED
      BY <3>1
  <2>. HIDE DEF X, may_block, must_block
  <2>. QED
    BY <2>1, <2>3
<1>. QED
  BY <1>1, <1>2 DEF permitted

\* Some answer of get_record_composed in a window refuses, does not end or gives the
\* averages.
LEMMA SomeAnswer ==
  ASSUME RecordsInv, NEW k, NEW wallet, NEW from, NEW to,
         ~ (from # NULL /\ to # NULL /\ from > to),
         NEW lo \in Int, lo = coalesce(from, 0), lo < MaxInt8,
         NEW hi \in Int, hi = coalesce(to, MaxInt8)
  PROVE  \E a \in window_record_composed(k, wallet, from, to, NULL) :
           \/ a = refused
           \/ a = no_end
           \/ \E rows : /\ a = rows_answer(rows) /\ Located(rows, lo, hi)
                        /\ \A t : InWindow(lo, hi, t) =>
                             Carries(rows, t, average(k, counted(k, lo), t))
<1>. DEFINE H == hierarchy(k, lo, hi)
            PW == primitive_weights(H)
            answers(ok) == IF ~ ok THEN {refused}
                           ELSE IF endless(H) THEN {no_end}
                           ELSE {rows_answer(X) : X \in record_rows(PW, lo, hi, NULL)}
            A == window_record_composed(k, wallet, from, to, NULL)
            good(rows) == /\ Located(rows, lo, hi)
                          /\ \A t : InWindow(lo, hi, t) =>
                               Carries(rows, t, average(k, counted(k, lo), t))
<1>1. A = UNION {answers(ok) : ok \in permitted(k, wallet, from, to)}
  <2>. DEFINE at_bounds(x, y, ok) ==
                IF ~ ok THEN {refused}
                ELSE IF endless(hierarchy(k, x, y)) THEN {no_end}
                ELSE {rows_answer(X) :
                        X \in record_rows(primitive_weights(hierarchy(k, x, y)), x, y, NULL)}
  <2>1. A = IF from # NULL /\ to # NULL /\ from > to THEN {refused}
            ELSE UNION {at_bounds(coalesce(from, 0), coalesce(to, MaxInt8), ok) :
                          ok \in permitted(k, wallet, from, to)}
    BY Zenon DEF window_record_composed
  <2>2. \A ok : answers(ok) = at_bounds(lo, hi, ok)
    OBVIOUS
  <2>. HIDE DEF A, answers, at_bounds
  <2>3. A = UNION {at_bounds(lo, hi, ok) : ok \in permitted(k, wallet, from, to)}
    BY <2>1, Zenon
  <2>. QED
    BY <2>2, <2>3
<1>2. PICK ok \in permitted(k, wallet, from, to) : TRUE
  BY SomePermission
<1>3. PathsOf(PW, k, lo, hi)
  BY DEF PathsOf
<1>. HIDE DEF PW
<1>4. PICK rows \in record_rows(PW, lo, hi, NULL) : good(rows)
  BY <1>3, RowsCompute
<1>5. \A a \in answers(ok) : a \in A
  BY <1>1, <1>2
<1>6. refused \in answers(ok) \/ no_end \in answers(ok) \/ rows_answer(rows) \in answers(ok)
  BY <1>4
<1>. HIDE DEF A, answers, good
<1>7. \E a \in A : \/ a = refused
                   \/ a = no_end
                   \/ \E X : a = rows_answer(X) /\ good(X)
  BY <1>4, <1>5, <1>6
<1>. QED
  BY <1>7 DEF A, good

\* The windows asked for.
LEMMA WindowArg ==
  ASSUME NEW w \in RecordWindows
  PROVE  /\ coalesce(w[1], 0) \in Int /\ coalesce(w[1], 0) < MaxInt8
         /\ coalesce(w[2], MaxInt8) \in Int
         /\ ~ (w[1] # NULL /\ w[2] # NULL /\ w[1] > w[2])
         /\ \A t \in times_within(coalesce(w[1], 0), coalesce(w[2], MaxInt8)) :
              InWindow(coalesce(w[1], 0), coalesce(w[2], MaxInt8), t)
<1>1. /\ MaxInt8 \in Int /\ 0 < MaxInt8
      /\ \A x \in WindowArgs : x # NULL => x \in Int /\ x < MaxInt8
      /\ \A t \in TimeArgs : t \in Int /\ t < MaxInt8
  BY HierarchyAssumption, RecordAssumption
<1>2. /\ w[1] \in WindowArgs /\ w[2] \in WindowArgs
      /\ w[1] # NULL /\ w[2] # NULL => w[1] <= w[2]
  BY DEF RecordWindows
<1>3. /\ coalesce(w[1], 0) \in Int /\ coalesce(w[1], 0) < MaxInt8
      /\ coalesce(w[2], MaxInt8) \in Int
  BY <1>1, <1>2 DEF coalesce
<1>4. ASSUME w[1] # NULL, w[2] # NULL PROVE ~ (w[1] > w[2])
  <2>1. w[1] \in Int /\ w[2] \in Int /\ w[1] <= w[2]
    BY <1>1, <1>2, <1>4
  <2>. QED
    BY <2>1
<1>5. \A t \in times_within(coalesce(w[1], 0), coalesce(w[2], MaxInt8)) :
        InWindow(coalesce(w[1], 0), coalesce(w[2], MaxInt8), t)
  BY <1>1, <1>3 DEF times_within, InWindow
<1>. QED
  BY <1>3, <1>4, <1>5

LEMMA AveragesNow == RecordsInv => AverageAtEveryTime
<1>. SUFFICES ASSUME RecordsInv, NEW k \in Composed, NEW w \in RecordWindows
              PROVE  \E a \in window_record_composed(k, "0xa", w[1], w[2], NULL) :
                       a.outcome = "rows" =>
                         computes(a.rows,
                           [t \in times_within(coalesce(w[1], 0), coalesce(w[2], MaxInt8)) |->
                              average(k, counted(k, coalesce(w[1], 0)), t)])
  BY Zenon DEF AverageAtEveryTime
<1>. DEFINE lo == coalesce(w[1], 0)
            hi == coalesce(w[2], MaxInt8)
            T  == times_within(lo, hi)
            averages == [t \in T |-> average(k, counted(k, lo), t)]
<1>1. /\ lo \in Int /\ lo < MaxInt8 /\ hi \in Int
      /\ ~ (w[1] # NULL /\ w[2] # NULL /\ w[1] > w[2])
      /\ \A t \in T : InWindow(lo, hi, t)
  BY WindowArg
<1>2. DOMAIN averages = T /\ \A t \in T : averages[t] = average(k, counted(k, lo), t)
  OBVIOUS
<1>. HIDE DEF T
<1>3. PICK a \in window_record_composed(k, "0xa", w[1], w[2], NULL) :
           \/ a = refused
           \/ a = no_end
           \/ \E rows : /\ a = rows_answer(rows) /\ Located(rows, lo, hi)
                        /\ \A t : InWindow(lo, hi, t) =>
                             Carries(rows, t, average(k, counted(k, lo), t))
  BY <1>1, SomeAnswer
<1>. HIDE DEF averages, lo, hi
<1>4. ASSUME a.outcome = "rows" PROVE computes(a.rows, averages)
  <2>1. a # refused /\ a # no_end
    <3>1. refused.outcome = "refused" /\ no_end.outcome = "no end"
      BY DEF refused, no_end
    <3>. QED
      BY <1>4, <3>1
  <2>2. PICK rows : /\ a = rows_answer(rows)
                    /\ \A t : InWindow(lo, hi, t) =>
                         Carries(rows, t, average(k, counted(k, lo), t))
    BY <1>3, <2>1
  <2>3. a.rows = rows
    BY <2>2 DEF rows_answer
  <2>4. ASSUME NEW t \in DOMAIN averages
        PROVE  IF carried(rows, t) = {} THEN equal(averages[t], zero)
               ELSE \A v \in carried(rows, t) : equal(v, averages[t])
    <3>1. Carries(rows, t, averages[t])
      BY <1>1, <1>2, <2>2
    <3>2. \A x : equal(x, x)
      BY DEF equal
    <3>. QED
      BY <3>1, <3>2 DEF Carries
  <2>. QED
    BY <2>3, <2>4 DEF computes
<1>. QED
  BY <1>4 DEF averages, T, lo, hi

\* The rows carried forward give every time of every window the weighted average of the
\* last values below, for all sets of streams, taxonomies, values and times.
THEOREM AverageOfComposed == ComposedSpec => []AverageAtEveryTime
BY RecordsInductive, AveragesNow, PTL

-----------------------------------------------------------------------------
(* The last record                                                         *)

\* A window of one time gives one row at most, dated no later.
LEMMA OneRow ==
  ASSUME NEW rows, NEW t \in Int, Located(rows, t, t)
  PROVE  /\ \A r, q \in rows : r = q
         /\ \A r \in rows : /\ r.event_time \in Int /\ r.event_time <= t
                            /\ "value" \in DOMAIN r
<1>1. PICK D, C : Dated(D) /\ C \subseteq Int /\ rows = locf(D, C, t, t)
  BY DEF Located
<1>. DEFINE real == {d.event_time : d \in D}
            all == {x \in real \cup C : t <= x /\ x <= t}
            anchors == {x \in real : x < t}
            out(x) == [row |-> x, event_time |-> Max(changed_by(D, x)),
                       value |-> aggregated(D, x)]
<1>2. rows = {out(x) : x \in {y \in all : changed_by(D, y) # {}}}
               \cup (IF anchors # {} /\ wants_anchor(all, t) THEN {out(Max(anchors))} ELSE {})
  BY <1>1 DEF locf, changed_by
<1>3. real \subseteq Int /\ IsFiniteSet(real)
  <2>. DEFINE g == [d \in D |-> d.event_time]
  <2>1. real \subseteq Int
    BY <1>1 DEF Dated
  <2>2. real = {g[d] : d \in D}
    OBVIOUS
  <2>3. DOMAIN g = D
    OBVIOUS
  <2>4. IsFiniteSet(D)
    BY <1>1 DEF Dated
  <2>. HIDE DEF g, real
  <2>5. IsFiniteSet({g[d] : d \in D})
    BY ONLY <2>3, <2>4, ImageFinite, Zenon
  <2>. QED
    BY <2>1, <2>2, <2>5
<1>4. all \subseteq {t}
  <2>1. \A x \in all : x \in Int /\ t <= x /\ x <= t
    BY <1>1, <1>3
  <2>. HIDE DEF all
  <2>2. \A x \in all : x = t
    BY <2>1
  <2>. QED
    BY <2>2
<1>5. anchors # {} => Max(anchors) \in anchors
  <2>1. anchors \in SUBSET real /\ anchors \subseteq Int
    BY <1>3
  <2>. HIDE DEF real, anchors
  <2>2. IsFiniteSet(anchors)
    BY <1>3, <2>1, FS_Subset, Zenon
  <2>. QED
    BY <2>1, <2>2, MaxOf
<1>6. \A x \in real : changed_by(D, x) # {}
  <2>1. ASSUME NEW x \in real PROVE x \in changed_by(D, x)
    <3>1. x <= x
      BY <1>3
    <3>. QED
      BY <3>1 DEF changed_by
  <2>. QED
    BY <2>1
<1>7. ASSUME NEW x \in Int, changed_by(D, x) # {}
      PROVE  /\ out(x).event_time \in Int /\ out(x).event_time <= x
             /\ "value" \in DOMAIN out(x)
  BY <1>1, <1>7, LastChange
<1>8. \A y \in anchors : y \in real /\ y \in Int /\ y <= t
  BY <1>3
<1>. HIDE DEF real, all, anchors, out
<1>9. CASE t \in all
  <2>1. rows \subseteq {out(t)}
    BY <1>2, <1>4, <1>9 DEF wants_anchor
  <2>2. \A r \in rows : r = out(t) /\ changed_by(D, t) # {}
    BY <1>2, <1>4, <1>9, <2>1 DEF wants_anchor
  <2>. QED
    BY <1>7, <2>1, <2>2
<1>10. CASE t \notin all
  <2>1. rows = IF anchors # {} /\ wants_anchor(all, t) THEN {out(Max(anchors))} ELSE {}
    BY <1>2, <1>4, <1>10
  <2>2. CASE anchors # {}
    <3>1. Max(anchors) \in Int /\ Max(anchors) <= t /\ changed_by(D, Max(anchors)) # {}
      BY <1>5, <1>6, <1>8, <2>2
    <3>. DEFINE m == Max(anchors)
    <3>2. /\ out(m).event_time \in Int /\ out(m).event_time <= m
          /\ "value" \in DOMAIN out(m)
      BY <1>7, <3>1
    <3>3. \A r \in rows : r = out(m)
      BY <2>1
    <3>. HIDE DEF m
    <3>4. m \in Int /\ m <= t
      BY <3>1 DEF m
    <3>. QED
      BY <3>2, <3>3, <3>4
  <2>. QED
    BY <2>1, <2>2
<1>. QED
  BY <1>9, <1>10

\* That row carries the value.
LEMMA OneRowCarries ==
  ASSUME NEW rows, NEW t \in Int, Located(rows, t, t), NEW x, Carries(rows, t, x),
         NEW r \in rows
  PROVE  r.value = x
<1>1. rows = {r} /\ r.event_time \in Int /\ r.event_time <= t
  BY OneRow
<1>2. {q \in rows : q.event_time <= t} = rows
  BY <1>1
<1>3. {q.event_time : q \in rows} = {r.event_time}
  BY <1>1
<1>4. Max({r.event_time}) = r.event_time
  <2>. DEFINE S == {r.event_time}
  <2>1. S \subseteq Int /\ r.event_time \in S /\ \A y \in S : y <= r.event_time
    BY <1>1
  <2>. HIDE DEF S
  <2>2. Max(S) = r.event_time
    BY <2>1, MaxIs
  <2>. QED
    BY <2>2 DEF S
<1>5. last_of(rows) = rows
  <2>1. last_of(rows) = {q \in rows : q.event_time = Max({p.event_time : p \in rows})}
    BY DEF last_of
  <2>2. last_of(rows) = {q \in rows : q.event_time = r.event_time}
    BY <1>3, <1>4, <2>1
  <2>. QED
    BY <1>1, <2>2
<1>6. carried(rows, t) = {q.value : q \in rows}
  BY <1>2, <1>5, Zenon DEF carried
<1>. QED
  BY <1>1, <1>6 DEF Carries

\* Of the events, those up to a time decide its average.
LEMMA AverageByThen ==
  ASSUME RecordsInv, NEW k, NEW t \in Int
  PROVE  average(k, counted(k, t), t) = average(k, events, t)
<1>. DEFINE E == counted(k, t)
            L(F) == {w \in leaf_weights_at(k, t) :
                       \E e \in F : e.stream = w.child /\ e.event_time <= t}
<1>1. \A e : e \in E /\ e.event_time <= t <=> e \in events /\ e.event_time <= t
  BY DEF counted
<1>. HIDE DEF E
<1>2. L(E) = L(events)
  BY <1>1
<1>3. \A s : {x \in E : x.stream = s /\ x.event_time <= t}
               = {x \in events : x.stream = s /\ x.event_time <= t}
  BY <1>1
<1>4. \A s : value_in_force(E, s, t) = value_in_force(events, s, t)
  BY <1>3, Zenon DEF value_in_force
<1>. DEFINE sums(K, F) == fraction(SumFunction([w \in K |-> w.weight * value_in_force(F, w.child, t)]),
                                   SumFunction([w \in K |-> w.weight]))
<1>5. average(k, E, t) = sums(L(E), E) /\ average(k, events, t) = sums(L(events), events)
  BY DEF average
<1>6. \A K : sums(K, E) = sums(K, events)
  <2>1. \A K : [w \in K |-> w.weight * value_in_force(E, w.child, t)]
                 = [w \in K |-> w.weight * value_in_force(events, w.child, t)]
    BY <1>4
  <2>. QED
    BY <2>1, Zenon
<1>. HIDE DEF sums, L
<1>. QED
  BY <1>2, <1>5, <1>6, Zenon DEF E

\* The times of events are few, and times of records.
LEMMA EventTimes ==
  ASSUME RecordsInv, NEW k, NEW T, T # {},
         \A t \in T : \E e \in leaf_events(k, NULL) : t = e.event_time
  PROVE  /\ T \subseteq TimeArgs /\ T \subseteq Int /\ \A t \in T : t < MaxInt8
         /\ Max(T) \in T /\ Min(T) \in T
<1>. DEFINE g == [e \in events |-> e.event_time]
            B == {g[e] : e \in events}
<1>1. /\ \A e \in events : /\ e.event_time \in Int /\ e.event_time < MaxInt8
                           /\ e.event_time \in TimeArgs
      /\ \A s : P!visible(s, NULL) = {e \in events : e.stream = s}
      /\ IsFiniteSet(events)
  BY EventRows
<1>2. \A e \in leaf_events(k, NULL) : e \in events
  BY <1>1 DEF leaf_events
<1>3. \A t \in T : t \in B /\ t \in Int /\ t < MaxInt8 /\ t \in TimeArgs
  BY <1>1, <1>2
<1>4. DOMAIN g = events
  OBVIOUS
<1>. HIDE DEF g
<1>5. IsFiniteSet(B)
  <2>1. IsFiniteSet(events)
    BY <1>1
  <2>. QED
    BY ONLY <1>4, <2>1, ImageFinite, Zenon
<1>6. IsFiniteSet(T)
  <2>1. T \in SUBSET B
    BY <1>3
  <2>. HIDE DEF B
  <2>. QED
    BY <1>5, <2>1, FS_Subset
<1>7. T \subseteq Int
  BY <1>3
<1>8. Max(T) \in T /\ Min(T) \in T
  BY <1>6, <1>7, MaxOf, MinOf
<1>. QED
  BY <1>3, <1>7, <1>8

\* An answer of rows, all with the average at time t and none dated later.
RecordAt(a, k, t) ==
  a.outcome = "rows" =>
    \A r \in a.rows : /\ "value" \in DOMAIN r
                      /\ r.event_time <= t /\ r.value = average(k, events, t)

\* The query at one time has such an answer, with a row when the average is not 0.
LEMMA FirstRow ==
  ASSUME RecordsInv, NEW k, NEW wallet, NEW t \in Int, t < MaxInt8
  PROVE  \E a \in first_row(k, wallet, t, NULL) :
           /\ RecordAt(a, k, t)
           /\ a.outcome = "rows" /\ a.rows = {} => average(k, events, t) = zero
<1>1. coalesce(t, 0) = t /\ coalesce(t, MaxInt8) = t /\ ~ (t > t)
  <2>1. t # NULL
    BY TextAssumption
  <2>. QED
    BY <2>1 DEF coalesce
<1>2. PICK a \in window_record_composed(k, wallet, t, t, NULL) :
         \/ a = refused
         \/ a = no_end
         \/ \E rows : /\ a = rows_answer(rows) /\ Located(rows, t, t)
                      /\ \A x : InWindow(t, t, x) =>
                           Carries(rows, x, average(k, counted(k, t), x))
  BY <1>1, SomeAnswer
<1>. DEFINE firsts(X) == {r \in X : r.event_time = Min({q.event_time : q \in X})}
            b == [a EXCEPT !.rows = firsts(a.rows)]
<1>3. b \in first_row(k, wallet, t, NULL)
  BY <1>2 DEF first_row
<1>4. refused.outcome = "refused" /\ no_end.outcome = "no end"
  BY DEF refused, no_end
<1>5. ASSUME b.outcome = "rows"
      PROVE  /\ \A r \in b.rows : /\ "value" \in DOMAIN r
                                  /\ r.event_time <= t /\ r.value = average(k, events, t)
             /\ b.rows = {} => average(k, events, t) = zero
  <2>1. a # refused /\ a # no_end
    BY <1>4, <1>5 DEF refused, no_end
  <2>2. PICK rows : /\ a = rows_answer(rows) /\ Located(rows, t, t)
                    /\ \A x : InWindow(t, t, x) =>
                         Carries(rows, x, average(k, counted(k, t), x))
    BY <1>2, <2>1
  <2>3. b.rows = firsts(rows) /\ b.rows \subseteq rows
    BY <2>2 DEF rows_answer
  <2>4. InWindow(t, t, t)
    BY DEF InWindow
  <2>5. Carries(rows, t, average(k, events, t))
    BY <2>2, <2>4, AverageByThen
  <2>6. \A r \in rows : /\ r.event_time \in Int /\ "value" \in DOMAIN r
                        /\ r.event_time <= t /\ r.value = average(k, events, t)
    BY <2>2, <2>5, OneRow, OneRowCarries
  <2>7. ASSUME b.rows = {} PROVE average(k, events, t) = zero
    <3>1. rows = {}
      <4>1. SUFFICES ASSUME NEW r \in rows PROVE FALSE
        OBVIOUS
      <4>2. \A q \in rows : q = r
        BY <2>2, OneRow
      <4>3. {q.event_time : q \in rows} = {r.event_time}
        BY <4>2
      <4>4. r.event_time \in Int
        BY <2>6
      <4>5. Min({r.event_time}) = r.event_time
        <5>. DEFINE S == {r.event_time}
        <5>1. S # {} /\ S \subseteq Int /\ \A x \in S : x = r.event_time
          BY <4>4
        <5>2. IsFiniteSet(S)
          BY FS_Singleton
        <5>. HIDE DEF S
        <5>3. Min(S) \in S
          BY <5>1, <5>2, MinOf
        <5>. QED
          BY <5>1, <5>3 DEF S
      <4>6. r \in firsts(rows)
        BY <4>3, <4>5
      <4>. QED
        BY <2>3, <2>7, <4>6
    <3>2. carried(rows, t) = {}
      BY <3>1 DEF carried, last_of
    <3>. QED
      BY <2>5, <3>2 DEF Carries
  <2>. HIDE DEF b
  <2>. QED
    BY <2>3, <2>6, <2>7
<1>. HIDE DEF b
<1>. QED
  BY <1>3, <1>5 DEF RecordAt

\* get_last_record_composed has one for the last event up to the time asked for.
LEMMA LastRow ==
  ASSUME RecordsInv, NEW k, NEW wallet, NEW u, NEW upto \in Int, upto = coalesce(u, MaxInt8),
         NEW T, T = event_times_up_to(k, upto, NULL)
  PROVE  \E a \in get_last_record_composed(k, wallet, u, NULL) :
           a.outcome = "rows" /\ a.rows # {} =>
             RecordAt(a, k, Max(T)) /\ Max(T) \in TimeArgs /\ Max(T) <= upto
<1>. DEFINE A == get_last_record_composed(k, wallet, u, NULL)
            answers(X, ok) == IF ~ ok THEN {refused}
                              ELSE IF X = {} THEN {rows_answer({})}
                              ELSE first_row(k, wallet, Max(X), NULL)
<1>1. A = UNION {answers(T, ok) : ok \in permitted(k, wallet, NULL, u)}
  <2>1. A = UNION {answers(event_times_up_to(k, coalesce(u, MaxInt8), NULL), ok) :
                     ok \in permitted(k, wallet, NULL, u)}
    BY Zenon DEF get_last_record_composed
  <2>. HIDE DEF A, answers
  <2>. QED
    BY <2>1, Zenon
<1>2. PICK ok \in permitted(k, wallet, NULL, u) : TRUE
  BY SomePermission
<1>3. \A a \in answers(T, ok) : a \in A
  BY <1>1, <1>2
<1>4. refused.outcome = "refused" /\ rows_answer({}).rows = {}
  BY DEF refused, rows_answer
<1>. HIDE DEF A
<1>5. CASE ~ ok
  <2>1. refused \in A
    BY <1>3, <1>5
  <2>. QED
    BY <1>4, <2>1 DEF A
<1>6. CASE ok /\ T = {}
  <2>1. rows_answer({}) \in A
    BY <1>3, <1>6
  <2>. QED
    BY <1>4, <2>1 DEF A
<1>7. CASE ok /\ T # {}
  <2>1. \A t \in T : t <= upto /\ \E e \in leaf_events(k, NULL) : t = e.event_time
    BY DEF event_times_up_to
  <2>2. /\ Max(T) \in T /\ T \subseteq TimeArgs /\ T \subseteq Int
        /\ \A t \in T : t < MaxInt8
    BY <1>7, <2>1, EventTimes
  <2>3. PICK a \in first_row(k, wallet, Max(T), NULL) : RecordAt(a, k, Max(T))
    BY <2>2, FirstRow
  <2>4. a \in A
    BY <1>3, <1>7, <2>3
  <2>5. Max(T) \in TimeArgs /\ Max(T) <= upto
    BY <2>1, <2>2
  <2>. QED
    BY <2>3, <2>4, <2>5 DEF A
<1>. QED
  BY <1>5, <1>6, <1>7

LEMMA LastNow == RecordsInv => LastRecordIsRecord
<1>. SUFFICES ASSUME RecordsInv, NEW k \in Composed, NEW u \in WindowArgs
              PROVE  \E a \in get_last_record_composed(k, "0xa", u, NULL) :
                       a.outcome = "rows" => \A r \in a.rows :
                         /\ r.event_time <= Max(event_times_up_to(k, coalesce(u, MaxInt8), NULL))
                         /\ Max(event_times_up_to(k, coalesce(u, MaxInt8), NULL))
                              <= coalesce(u, MaxInt8)
                         /\ equal(r.value, average(k, events,
                                    Max(event_times_up_to(k, coalesce(u, MaxInt8), NULL))))
  BY Zenon DEF LastRecordIsRecord
<1>. DEFINE upto == coalesce(u, MaxInt8)
            T    == event_times_up_to(k, upto, NULL)
<1>1. upto \in Int
  BY HierarchyAssumption DEF coalesce
<1>. HIDE DEF upto, T
<1>2. PICK a \in get_last_record_composed(k, "0xa", u, NULL) :
        a.outcome = "rows" /\ a.rows # {} =>
          RecordAt(a, k, Max(T)) /\ Max(T) \in TimeArgs /\ Max(T) <= upto
  BY <1>1, LastRow DEF T, upto
<1>3. \A x : equal(x, x)
  BY DEF equal
<1>4. ASSUME a.outcome = "rows", NEW r \in a.rows
      PROVE  r.event_time <= Max(T) /\ Max(T) <= upto /\ equal(r.value, average(k, events, Max(T)))
  <2>1. RecordAt(a, k, Max(T)) /\ Max(T) <= upto
    BY <1>2, <1>4
  <2>. QED
    BY <1>3, <1>4, <2>1 DEF RecordAt
<1>. QED
  BY <1>2, <1>4 DEF T, upto

\* The last record of a composed stream is its average at the last event below, up to
\* the time asked for, for all sets of streams, taxonomies, values and times.
THEOREM LastRecordOfComposed == ComposedSpec => []LastRecordIsRecord
BY RecordsInductive, LastNow, PTL

-----------------------------------------------------------------------------
(* The index in a window                                                   *)

\* The values are multiples of a base value.
ExactQuotients ==
  \A v, b \in ValueArgs : b # 0 => b > 0 /\ \E q \in Int : v * 100 = q * b

LEMMA QuotientsExact == ExactQuotients
<1>. SUFFICES ASSUME NEW v \in ValueArgs, NEW b \in ValueArgs, b # 0
              PROVE  b > 0 /\ \E q \in Int : v * 100 = q * b
  BY DEF ExactQuotients
<1>1. v \in Int /\ b \in Int /\ b > 0 /\ (v * 100) % b = 0
  BY RecordAssumption, QuotientAssumption
<1>2. (v * 100) \div b \in Int /\ v * 100 = b * ((v * 100) \div b) + ((v * 100) % b)
  BY <1>1
<1>. DEFINE q == (v * 100) \div b
<1>3. q \in Int /\ v * 100 = b * q + 0
  BY <1>1, <1>2
<1>. HIDE DEF q
<1>4. v * 100 = q * b
  BY <1>1, <1>3
<1>. QED
  BY <1>1, <1>3, <1>4

LEMMA IndexedIs ==
  ASSUME NEW q \in Int, NEW b \in Int, b > 0, NEW x \in Int, x * 100 = q * b
  PROVE  indexed(x, b) = q
<1>1. (q * b) \div b = q
  OBVIOUS
<1>. QED
  BY <1>1 DEF indexed

\* Changes divided by a base value.
divided_by(U, b) ==
  {d \in {[event_time |-> c.event_time, delta |-> indexed(c.delta, b)] : c \in U} : d.delta # 0}

\* They add up to the quotient of the sum.
LEMMA DividedSum ==
  ASSUME NEW U, Changes(U), \A c \in U : c.delta # 0,
         \A c, d \in U : c.event_time = d.event_time => c = d,
         NEW b \in Int, b # 0 => b > 0 /\ \A c \in U : \E q \in Int : c.delta * 100 = q * b,
         NEW V, V = divided_by(U, b)
  PROVE  /\ Changes(V)
         /\ \A n \in Int : total(before(V, n)) = indexed(total(before(U, n)), b)
<1>1. CASE b = 0
  <2>1. \A x : indexed(x, b) = 0
    BY <1>1 DEF indexed
  <2>2. V = {}
    BY <2>1 DEF divided_by
  <2>3. IsFiniteSet({}) /\ \A n : before({}, n) = {}
    BY FS_EmptySet DEF before
  <2>. QED
    BY <2>1, <2>2, <2>3, TotalOfNone DEF Changes
<1>2. CASE b # 0
  <2>. DEFINE g == [c \in U |-> [event_time |-> c.event_time, delta |-> indexed(c.delta, b)]]
              f == [c \in U |-> indexed(c.delta, b)]
              h == [c \in U |-> c.delta * 100]
              d == [c \in U |-> c.delta]
              fv == [c \in V |-> c.delta]
  <2>1. b > 0
    BY <1>2
  <2>2. \A c \in U : /\ indexed(c.delta, b) \in Int /\ indexed(c.delta, b) # 0
                     /\ c.delta * 100 = indexed(c.delta, b) * b
    <3>1. ASSUME NEW c \in U
          PROVE  /\ indexed(c.delta, b) \in Int /\ indexed(c.delta, b) # 0
                 /\ c.delta * 100 = indexed(c.delta, b) * b
      <4>1. PICK q \in Int : c.delta * 100 = q * b
        BY <1>2
      <4>2. c.delta \in Int /\ c.delta # 0
        BY DEF Changes
      <4>3. indexed(c.delta, b) = q
        BY <2>1, <4>1, <4>2, IndexedIs
      <4>4. q # 0
        BY <4>1, <4>2
      <4>. QED
        BY <4>1, <4>3, <4>4
    <3>. QED
      BY <3>1
  <2>3. /\ \A c \in U : /\ g[c].event_time = c.event_time /\ g[c].delta = indexed(c.delta, b)
                        /\ f[c] = indexed(c.delta, b) /\ h[c] = c.delta * 100 /\ d[c] = c.delta
        /\ \A c \in V : fv[c] = c.delta
    OBVIOUS
  <2>4. DOMAIN g = U
    OBVIOUS
  <2>5. DOMAIN f = U /\ DOMAIN h = U /\ DOMAIN d = U /\ DOMAIN fv = V
    OBVIOUS
  <2>6. V = {g[c] : c \in U}
    BY <2>2 DEF divided_by
  <2>. HIDE DEF g
  <2>7. IsFiniteSet(U)
    BY DEF Changes
  <2>8. IsFiniteSet({g[c] : c \in U})
    BY ONLY <2>4, <2>7, ImageFinite, Zenon
  <2>9. IsFiniteSet(V)
    BY <2>6, <2>8, Zenon
  <2>10. Changes(V)
    BY <2>2, <2>3, <2>6, <2>9 DEF Changes
  <2>11. ASSUME NEW n \in Int PROVE total(before(V, n)) = indexed(total(before(U, n)), b)
    <3>. DEFINE B == before(U, n)
    <3>1. B \in SUBSET U /\ before(V, n) \in SUBSET V
      BY DEF before
    <3>2. before(V, n) = {g[c] : c \in B}
      BY <2>3, <2>6 DEF before
    <3>3. total(before(V, n)) = Part(fv, before(V, n)) /\ total(B) = Part(d, B)
      <4>1. /\ \A C \in SUBSET V : [c \in C |-> c.delta] = [c \in C |-> fv[c]]
            /\ \A C \in SUBSET U : [c \in C |-> c.delta] = [c \in C |-> d[c]]
        OBVIOUS
      <4>. HIDE DEF fv, d, B
      <4>. QED
        BY <3>1, <4>1, Zenon DEF total, Part
    <3>. HIDE DEF f, h, d, fv, B
    <3>4. Summable(f) /\ Summable(h) /\ Summable(d) /\ Summable(fv)
      <4>1. \A c \in U : f[c] \in Int /\ h[c] \in Int /\ d[c] \in Int
        BY <2>2, <2>3 DEF Changes
      <4>2. \A c \in V : fv[c] \in Int
        BY <2>3, <2>10 DEF Changes
      <4>. QED
        BY <2>5, <2>7, <2>9, <4>1, <4>2 DEF Summable
    <3>5. Part(f, B) = Part(fv, {g[c] : c \in B})
      <4>1. \A c \in B : g[c] \in DOMAIN fv /\ fv[g[c]] = f[c]
        BY <2>3, <2>5, <2>6, <3>1
      <4>2. \A x, y \in B : g[x] = g[y] => x = y
        <5>1. ASSUME NEW x \in B, NEW y \in B, g[x] = g[y] PROVE x = y
          <6>1. x \in U /\ y \in U /\ x.event_time = y.event_time
            BY <2>3, <3>1, <5>1
          <6>. QED
            BY <6>1
        <5>. QED
          BY <5>1
      <4>3. B \in SUBSET DOMAIN f
        BY <2>5, <3>1
      <4>. QED
        BY <3>4, <4>1, <4>2, <4>3, PartRenamed
    <3>6. Part(h, B) = Part(f, B) * b
      <4>1. B \in SUBSET DOMAIN f /\ B \in SUBSET DOMAIN h /\ \A c \in B : h[c] = f[c] * b
        BY <2>2, <2>3, <2>5, <3>1
      <4>. QED
        BY <3>4, <4>1, PartTimes
    <3>7. Part(h, B) = Part(d, B) * 100
      <4>1. B \in SUBSET DOMAIN d /\ B \in SUBSET DOMAIN h /\ \A c \in B : h[c] = d[c] * 100
        BY <2>3, <2>5, <3>1
      <4>2. 100 \in Int
        OBVIOUS
      <4>. QED
        BY <3>4, <4>1, <4>2, PartTimes
    <3>8. Part(f, B) \in Int /\ Part(d, B) \in Int
      BY <2>5, <3>1, <3>4, PartStep
    <3>9. indexed(Part(d, B), b) = Part(f, B)
      BY <2>1, <3>6, <3>7, <3>8, IndexedIs
    <3>10. Part(fv, before(V, n)) = Part(f, B)
      BY <3>2, <3>5, Zenon
    <3>. QED
      BY <3>3, <3>9, <3>10, Zenon DEF B
  <2>. QED
    BY <2>10, <2>11
<1>. QED
  BY <1>1, <1>2

\* The value before a time is 0 or that of a point.
LEMMA ValueIsOfPoint ==
  ASSUME NEW R, Points(R), NEW n
  PROVE  value_before(R, n) = 0 \/ \E r \in R : value_before(R, n) = r.value
<1>. DEFINE B == before(R, n)
            g == [r \in B |-> r.event_time]
            S == {g[r] : r \in B}
<1>1. B \in SUBSET R
  BY DEF before
<1>2. CASE B = {}
  BY <1>2 DEF value_before
<1>3. CASE B # {}
  <2>1. S # {} /\ S \subseteq Int /\ S = {q.event_time : q \in B}
    BY <1>1, <1>3 DEF Points
  <2>2. DOMAIN g = B
    OBVIOUS
  <2>3. \A r \in B : g[r] = r.event_time
    OBVIOUS
  <2>. HIDE DEF g, B
  <2>4. IsFiniteSet(B)
    BY <1>1, FS_Subset DEF Points
  <2>5. IsFiniteSet(S)
    BY ONLY <2>2, <2>4, ImageFinite, Zenon
  <2>6. Max(S) \in S
    <3>. HIDE DEF S
    <3>. QED
      BY <2>1, <2>5, MaxOf
  <2>7. \E r \in B : r.event_time = Max(S)
    BY <2>3, <2>6
  <2>8. last_of(B) = {r \in B : r.event_time = Max(S)}
    BY <2>1, Zenon DEF last_of
  <2>9. (CHOOSE r \in last_of(B) : TRUE) \in B
    BY <2>7, <2>8
  <2>10. value_before(R, n) = (CHOOSE r \in last_of(B) : TRUE).value
    BY <1>3 DEF value_before, B
  <2>. QED
    BY <1>1, <2>9, <2>10
<1>. QED
  BY <1>2, <1>3

\* So the changes of value are multiples of a base value too.
LEMMA ExactChanges ==
  ASSUME ExactQuotients, NEW R, Points(R), \A r \in R : r.value \in ValueArgs, NEW b \in ValueArgs
  PROVE  /\ \A c \in value_changes(R) : c.delta # 0
         /\ \A c, d \in value_changes(R) : c.event_time = d.event_time => c = d
         /\ b \in Int
         /\ b # 0 => b > 0 /\ \A c \in value_changes(R) : \E q \in Int : c.delta * 100 = q * b
<1>. DEFINE change(r) == [event_time |-> r.event_time,
                          delta |-> r.value - value_before(R, r.event_time)]
            U == value_changes(R)
<1>1. U = {c \in {change(r) : r \in R} : c.delta # 0}
  BY DEF value_changes
<1>2. \A c \in U : /\ c.delta # 0
                   /\ \E r \in R : /\ c = change(r)
                                   /\ c.event_time = r.event_time
                                   /\ c.delta = r.value - value_before(R, r.event_time)
  BY <1>1
<1>3. \A c, d \in U : c.event_time = d.event_time => c = d
  <2>1. \A r, q \in R : r.event_time = q.event_time => r = q
    BY DEF Points
  <2>. HIDE DEF U, change
  <2>. QED
    BY <1>2, <2>1
<1>. HIDE DEF U, change
<1>4. ValueArgs \subseteq Int
  BY RecordAssumption
<1>5. ASSUME b # 0, NEW c \in U PROVE \E q \in Int : c.delta * 100 = q * b
  <2>1. PICK r \in R : c.delta = r.value - value_before(R, r.event_time)
    BY <1>2
  <2>. DEFINE v == value_before(R, r.event_time)
  <2>2. v = 0 \/ \E p \in R : v = p.value
    BY ValueIsOfPoint
  <2>. HIDE DEF v
  <2>3. \E q \in Int : v * 100 = q * b
    <3>1. CASE v = 0
      <4>1. v * 100 = 0 * b /\ 0 \in Int
        BY <1>4, <3>1
      <4>. QED
        BY <4>1
    <3>2. CASE v # 0
      BY <1>5, <2>2, <3>2 DEF ExactQuotients
    <3>. QED
      BY <3>1, <3>2
  <2>4. PICK q \in Int : v * 100 = q * b
    BY <2>3
  <2>5. PICK p \in Int : r.value * 100 = p * b
    BY <1>5 DEF ExactQuotients
  <2>6. b \in Int /\ r.value \in Int /\ v \in Int
    <3>1. \A x \in R : x.value \in Int
      BY DEF Points
    <3>. QED
      BY <1>4, <2>2, <3>1
  <2>7. (r.value - v) * 100 = r.value * 100 - v * 100 /\ (p - q) * b = p * b - q * b
    BY <2>6
  <2>8. c.delta * 100 = (p - q) * b /\ p - q \in Int
    BY <2>1, <2>4, <2>5, <2>7 DEF v
  <2>. QED
    BY <2>8
<1>. QED
  BY <1>2, <1>3, <1>4, <1>5 DEF ExactQuotients, U

LEMMA EarliestRow ==
  ASSUME NEW E, IsFiniteSet(E), E # {}, \A e \in E : e.event_time \in Int /\ e.created_at \in Int
  PROVE  P!earliest(E) # {}
<1>. DEFINE g == [e \in E |-> e.event_time]
            S == {g[e] : e \in E}
            m == Min(S)
            F == {e \in E : e.event_time = m}
<1>1. S # {} /\ S \subseteq Int
  OBVIOUS
<1>2. DOMAIN g = E
  OBVIOUS
<1>3. \A e \in E : g[e] = e.event_time /\ e.event_time \in S
  OBVIOUS
<1>. HIDE DEF g
<1>4. IsFiniteSet(S)
  BY ONLY <1>2, IsFiniteSet(E), ImageFinite, Zenon
<1>5. m \in S /\ \A y \in S : m <= y
  <2>. HIDE DEF S
  <2>. QED
    BY <1>1, <1>4, MinOf
<1>6. F # {}
  BY <1>3, <1>5
<1>7. IsFiniteSet(F)
  <2>1. F \in SUBSET E
    OBVIOUS
  <2>. HIDE DEF F
  <2>. QED
    BY <2>1, FS_Subset
<1>8. P!latest(F) # {}
  <2>1. \A e \in F : e.event_time \in Int /\ e.created_at \in Int
    OBVIOUS
  <2>. HIDE DEF F
  <2>. QED
    BY <1>6, <1>7, <2>1, LatestRow
<1>9. PICK e \in P!latest(F) : TRUE
  BY <1>8
<1>10. e \in F /\ \A f \in F : f.created_at <= e.created_at
  <2>1. \A f \in F : f.event_time = m
    OBVIOUS
  <2>2. m \in Int
    BY <1>1, <1>5
  <2>. HIDE DEF m
  <2>3. ~ (m < m)
    BY <2>2
  <2>4. e \in F /\ \A f \in F : \/ f.event_time < e.event_time
                                \/ f.event_time = e.event_time /\ f.created_at <= e.created_at
    BY <1>9 DEF P!latest
  <2>. HIDE DEF F
  <2>. QED
    BY <2>1, <2>3, <2>4
<1>11. \A f \in E : \/ f.event_time > e.event_time
                    \/ f.event_time = e.event_time /\ f.created_at <= e.created_at
  <2>1. \A f \in E : m <= f.event_time /\ f.event_time \in Int
    BY <1>3, <1>5
  <2>2. e.event_time = m /\ m \in Int
    BY <1>1, <1>5, <1>10
  <2>. HIDE DEF m
  <2>3. \A f \in E : f.event_time = m => f \in F
    BY DEF F, m
  <2>. HIDE DEF F
  <2>. QED
    BY <1>10, <2>1, <2>2, <2>3
<1>. QED
  BY <1>10, <1>11 DEF P!earliest

\* The base value of a stream is that of one row, once there is a row.
LEMMA BaseValue ==
  ASSUME RecordsInv, NEW s, NEW t \in Int
  PROVE  IF \E e \in events : e.stream = s
         THEN primitive_base_value(s, t, NULL) = {base_of(s, t)} /\ base_of(s, t) \in ValueArgs
         ELSE primitive_base_value(s, t, NULL) = {}
<1>. DEFINE E == {e \in events : e.stream = s}
            past == {e \in E : e.event_time <= t}
            rows == IF past # {} THEN P!latest(past) ELSE P!earliest(E)
<1>1. /\ \A e \in events : e.event_time \in Int /\ e.created_at \in Nat /\ e.value \in ValueArgs
      /\ P!visible(s, NULL) = E
      /\ IsFiniteSet(events)
  BY EventRows
<1>2. primitive_base_value(s, t, NULL) = {e.value : e \in rows}
  BY <1>1, Zenon DEF primitive_base_value
<1>3. base_of(s, t) = (CHOOSE e \in rows : TRUE).value
  BY Zenon DEF base_of
<1>4. \A e, f \in E : e.event_time = f.event_time /\ e.created_at = f.created_at => e = f
  BY DEF RecordsInv, EventsWhole
<1>5. IsFiniteSet(E) /\ IsFiniteSet(past) /\ past \in SUBSET E /\ E \in SUBSET events
  <2>1. E \in SUBSET events /\ past \in SUBSET E
    OBVIOUS
  <2>. HIDE DEF E, past
  <2>. QED
    BY <1>1, <2>1, FS_Subset
<1>6. \A e \in E : e.event_time \in Int /\ e.created_at \in Int /\ e.value \in ValueArgs
  BY <1>1
<1>7. E # {} => rows # {}
  <2>. HIDE DEF E, past
  <2>. QED
    BY <1>5, <1>6, LatestRow, EarliestRow
<1>8. rows \in SUBSET E
  BY DEF P!latest, P!earliest
<1>9. \A e, f \in rows : e = f
  <2>. HIDE DEF E, past
  <2>1. ASSUME NEW e \in P!latest(past), NEW f \in P!latest(past) PROVE e = f
    <3>1. e \in E /\ f \in E
      BY <1>5 DEF P!latest
    <3>2. /\ \/ f.event_time < e.event_time
             \/ f.event_time = e.event_time /\ f.created_at <= e.created_at
          /\ \/ e.event_time < f.event_time
             \/ e.event_time = f.event_time /\ e.created_at <= f.created_at
      BY DEF P!latest
    <3>3. e.event_time = f.event_time /\ e.created_at = f.created_at
      BY <1>6, <3>1, <3>2
    <3>. QED
      BY <1>4, <3>1, <3>3
  <2>2. ASSUME NEW e \in P!earliest(E), NEW f \in P!earliest(E) PROVE e = f
    <3>1. e \in E /\ f \in E
      BY DEF P!earliest
    <3>2. /\ \/ f.event_time > e.event_time
             \/ f.event_time = e.event_time /\ f.created_at <= e.created_at
          /\ \/ e.event_time > f.event_time
             \/ e.event_time = f.event_time /\ e.created_at <= f.created_at
      BY DEF P!earliest
    <3>3. e.event_time = f.event_time /\ e.created_at = f.created_at
      BY <1>6, <3>1, <3>2
    <3>. QED
      BY <1>4, <3>1, <3>3
  <2>. QED
    BY <2>1, <2>2
<1>. HIDE DEF rows
<1>10. CASE E # {}
  <2>1. PICK e \in rows : TRUE
    BY <1>7, <1>10
  <2>2. rows = {e}
    BY <1>9, <2>1
  <2>3. primitive_base_value(s, t, NULL) = {e.value} /\ base_of(s, t) = e.value
    BY <1>2, <1>3, <2>2
  <2>. QED
    BY <1>6, <1>8, <1>10, <2>1, <2>3
<1>11. CASE E = {}
  BY <1>2, <1>8, <1>11
<1>. QED
  BY <1>10, <1>11

\* The changes of index of the streams of a query.
index_changes_of(PW, from, to, t) ==
  [s \in leaves(PW) |-> index_changes(primitive_points(PW, s, from, to, NULL),
                                      primitive_base_value(s, t, NULL))]

\* Before any time they add up to the index of the value in force.
LEMMA IndexSum ==
  ASSUME RecordsInv, ExactQuotients, NEW PW, NEW s, NEW from \in Int, NEW to \in Int,
         NEW base \in Int, NEW R, R = primitive_points(PW, s, from, to, NULL),
         NEW V, V = index_changes(R, primitive_base_value(s, base, NULL))
  PROVE  /\ Changes(V)
         /\ \A n \in Int : R # {} =>
              total(before(V, n)) = indexed(value_before(R, n), base_of(s, base))
<1>. DEFINE U == value_changes(R)
            B == primitive_base_value(s, base, NULL)
            b == base_of(s, base)
<1>1. Points(R)
  BY PointsOf
<1>2. \A r \in R : r.value \in ValueArgs /\ \E e \in events : e.stream = s
  <2>1. /\ R = {P!rec(e) : e \in point_rows(PW, s, from, to)}
        /\ \A e \in P!anchor_record(s, from, NULL) : e \in events /\ e.stream = s
        /\ \A e \in later_records(PW, s, from, to) : e \in events /\ e.stream = s
    BY PointRows
  <2>2. \A e \in point_rows(PW, s, from, to) : e \in events /\ e.stream = s
    BY <2>1 DEF point_rows
  <2>3. \A e \in events : e.value \in ValueArgs
    BY EventRows
  <2>4. \A e : P!rec(e).value = e.value
    BY DEF P!rec
  <2>. QED
    BY <2>1, <2>2, <2>3, <2>4
<1>3. V = {c \in {[event_time |-> v.event_time, delta |-> indexed(v.delta, x)] : v \in U, x \in B} :
             c.delta # 0}
  BY DEF index_changes
<1>4. IF \E e \in events : e.stream = s THEN B = {b} /\ b \in ValueArgs ELSE B = {}
  BY BaseValue
<1>5. Changes(U) /\ \A n \in Int : total(before(U, n)) = value_before(R, n)
  BY <1>1, ValueSum
<1>. HIDE DEF U, B, b
<1>6. CASE \E e \in events : e.stream = s
  <2>1. V = divided_by(U, b)
    BY <1>3, <1>4, <1>6 DEF divided_by
  <2>2. /\ \A c \in U : c.delta # 0
        /\ \A c, d \in U : c.event_time = d.event_time => c = d
        /\ b \in Int
        /\ b # 0 => b > 0 /\ \A c \in U : \E q \in Int : c.delta * 100 = q * b
    <3>1. b \in ValueArgs /\ \A r \in R : r.value \in ValueArgs
      BY <1>2, <1>4, <1>6
    <3>. QED
      BY <1>1, <3>1, ExactChanges DEF U
  <2>3. Changes(V) /\ \A n \in Int : total(before(V, n)) = indexed(total(before(U, n)), b)
    BY <1>5, <2>1, <2>2, DividedSum, Zenon
  <2>. QED
    BY <1>5, <2>3 DEF b
<1>7. CASE ~ \E e \in events : e.stream = s
  <2>1. V = {} /\ R = {}
    BY <1>2, <1>3, <1>4, <1>7
  <2>. QED
    BY <2>1, FS_EmptySet DEF Changes
<1>. QED
  BY <1>6, <1>7

LEMMA IndexSums ==
  ASSUME RecordsInv, ExactQuotients, NEW k, NEW from, NEW to, NEW PW, PathsOf(PW, k, from, to),
         NEW base \in Int,
         NEW R, R = points_of(PW, from, to), NEW V, V = index_changes_of(PW, from, to, base),
         NEW L, L = timelines_of(PW, R, V), NEW E, E = counted(k, from)
  PROVE  /\ StreamsOf(PW, R, V)
         /\ \A t : InWindow(from, to, t) =>
              fraction(weighted_sum(L, t + 1), weight_sum(L, t + 1)) = index_average(k, E, t, base)
<1>1. HierarchyInv /\ from \in Int /\ to \in Int /\ from < MaxInt8
      /\ PW = primitive_weights(hierarchy(k, from, to))
  BY DEF RecordsInv, PathsOf
<1>2. \A s \in leaves(PW) : /\ R[s] = primitive_points(PW, s, from, to, NULL)
                            /\ V[s] = index_changes(R[s], primitive_base_value(s, base, NULL))
  BY DEF points_of, index_changes_of
<1>3. \A s \in leaves(PW) : Points(R[s])
  BY <1>1, <1>2, PointsOf
<1>4. \A s \in leaves(PW) :
        /\ Changes(V[s])
        /\ \A n \in Int : R[s] # {} =>
             total(before(V[s], n)) = indexed(value_before(R[s], n), base_of(s, base))
  <2>1. ASSUME NEW s \in leaves(PW)
        PROVE  /\ Changes(V[s])
               /\ \A n \in Int : R[s] # {} =>
                    total(before(V[s], n)) = indexed(value_before(R[s], n), base_of(s, base))
    BY <1>1, <1>2, IndexSum
  <2>. QED
    BY <2>1
<1>5. StreamsOf(PW, R, V)
  <2>1. Weights(PW)
    BY <1>1, PathsAtTime
  <2>. QED
    BY <1>3, <1>4, <2>1 DEF StreamsOf
<1>6. ASSUME NEW t, InWindow(from, to, t)
      PROVE  fraction(weighted_sum(L, t + 1), weight_sum(L, t + 1)) = index_average(k, E, t, base)
  <2>. DEFINE index(s) == indexed(value_in_force(E, s, t), base_of(s, base))
              v == [s \in leaves(PW) |-> index(s)]
              K == reference(k, E, t)
  <2>1. ASSUME NEW s \in leaves(PW)
        PROVE  ValueAgrees(R, E, s, t)
    BY <1>6, ValuesNow
  <2>2. ASSUME NEW s \in leaves(PW), has_value(R, s, t)
        PROVE  index(s) = total(before(V[s], t + 1))
    <3>1. t + 1 \in Int
      BY <1>6 DEF InWindow
    <3>2. R[s] # {}
      BY <2>2 DEF has_value
    <3>3. total(before(V[s], t + 1)) = indexed(value_before(R[s], t + 1), base_of(s, base))
      BY <1>4, <3>1, <3>2
    <3>4. value_before(R[s], t + 1) = value_in_force(E, s, t)
      BY <2>1, <2>2 DEF ValueAgrees
    <3>. QED
      BY <3>3, <3>4, Zenon
  <2>. HIDE DEF index
  <2>3. \A s \in leaves(PW) : has_value(R, s, t) => v[s] = total(before(V[s], t + 1))
    <3>1. \A s \in leaves(PW) : v[s] = index(s)
      OBVIOUS
    <3>. HIDE DEF v
    <3>. QED
      BY <2>2, <3>1
  <2>4. \A s \in leaves(PW) :
          has_value(R, s, t) <=> \E e \in E : e.stream = s /\ e.event_time <= t
    BY <2>1 DEF ValueAgrees
  <2>5. \A x \in K : v[x.child] = index(x.child)
    <3>. DEFINE C == counting(PW, R, t)
    <3>1. \A x \in K : \E w \in C : x = tree_of(w)
      <4>. HIDE DEF C, K, v
      <4>. QED
        BY <1>6, <2>4, CountingMirrors DEF C, K
    <3>2. \A w \in C : tree_of(w).child \in leaves(PW)
      BY DEF counting, tree_of, leaves
    <3>3. \A s \in leaves(PW) : v[s] = index(s)
      OBVIOUS
    <3>. HIDE DEF C, K, v
    <3>. QED
      BY <3>1, <3>2, <3>3
  <2>. HIDE DEF v
  <2>6. /\ weight_sum(L, t + 1) = SumFunction([x \in K |-> x.weight])
        /\ weighted_sum(L, t + 1) = SumFunction([x \in K |-> x.weight * v[x.child]])
    <3>. HIDE DEF K
    <3>. QED
      BY <1>5, <1>6, <2>3, <2>4, SumsNow DEF K
  <2>7. [x \in K |-> x.weight * v[x.child]] = [x \in K |-> x.weight * index(x.child)]
    <3>. HIDE DEF K
    <3>. QED
      BY <2>5
  <2>8. index_average(k, E, t, base)
          = fraction(SumFunction([x \in K |-> x.weight * index(x.child)]),
                     SumFunction([x \in K |-> x.weight]))
    BY DEF index_average, reference, index
  <2>. HIDE DEF K
  <2>. QED
    BY <2>6, <2>7, <2>8, Zenon
<1>. QED
  BY <1>5, <1>6
\* index_rows, by its timelines.
LEMMA IndexRows ==
  ASSUME NEW PW, NEW from, NEW to, NEW base
  PROVE  index_rows(PW, from, to, NULL, base)
           = {locf(D, cleaned_event_times(PW, from, to, NULL), from, to) :
                D \in final_deltas(timelines_of(PW, points_of(PW, from, to),
                                                index_changes_of(PW, from, to, base)))}
<1>. DEFINE pts(s) == primitive_points(PW, s, from, to, NULL)
            changed(s) == [stream |-> s, points |-> pts(s),
                          values |-> index_changes(pts(s), primitive_base_value(s, base, NULL))]
            R == points_of(PW, from, to)
            V == index_changes_of(PW, from, to, base)
            L == timelines(PW, {changed(s) : s \in leaves(PW)})
<1>1. L = timelines_of(PW, R, V)
  <2>1. L = {[stream |-> changed(s).stream, values |-> changed(s).values,
              weights |-> weight_changes(weights_of(PW, changed(s).stream), changed(s).points)] :
               s \in leaves(PW)}
    BY DEF timelines
  <2>2. \A s \in leaves(PW) :
          [stream |-> changed(s).stream, values |-> changed(s).values,
           weights |-> weight_changes(weights_of(PW, changed(s).stream), changed(s).points)]
            = timeline(PW, R, V, s)
    BY DEF timeline, points_of, index_changes_of
  <2>. QED
    BY <2>1, <2>2 DEF timelines_of
<1>2. index_rows(PW, from, to, NULL, base)
        = {locf(D, cleaned_event_times(PW, from, to, NULL), from, to) : D \in final_deltas(L)}
  BY DEF index_rows
<1>. HIDE DEF L
<1>. QED
  BY <1>1, <1>2, Zenon

LEMMA IndexRowsCompute ==
  ASSUME RecordsInv, NEW k, NEW from, NEW to, NEW PW, PathsOf(PW, k, from, to),
         NEW base \in Int
  PROVE  \E rows \in index_rows(PW, from, to, NULL, base) :
           /\ Located(rows, from, to)
           /\ \A t : InWindow(from, to, t) =>
                Carries(rows, t, index_average(k, counted(k, from), t, base))
<1>. DEFINE R == points_of(PW, from, to)
            V == index_changes_of(PW, from, to, base)
            L == timelines_of(PW, R, V)
            E == counted(k, from)
            C == cleaned_event_times(PW, from, to, NULL)
<1>1. index_rows(PW, from, to, NULL, base) = {locf(D, C, from, to) : D \in final_deltas(L)}
  BY IndexRows
<1>. HIDE DEF R, V, L, E, C
<1>2. /\ StreamsOf(PW, R, V)
      /\ \A t : InWindow(from, to, t) =>
           fraction(weighted_sum(L, t + 1), weight_sum(L, t + 1)) = index_average(k, E, t, base)
  BY IndexSums, QuotientsExact DEF R, V, L, E
<1>3. Lines(L)
  BY <1>2, LinesOfStreams DEF L
<1>4. PICK D \in final_deltas(L) : Dated(D) /\ Adds(D, L)
  BY <1>3, BestAdds
<1>5. from \in Int /\ to \in Int
  BY DEF PathsOf
<1>6. C \subseteq Int
  BY <1>2, <1>5, CleanedTimes DEF C, StreamsOf
<1>. DEFINE rows == locf(D, C, from, to)
<1>7. rows \in index_rows(PW, from, to, NULL, base) /\ Located(rows, from, to)
  BY <1>1, <1>4, <1>6 DEF Located
<1>. HIDE DEF rows
<1>8. ASSUME NEW t, InWindow(from, to, t)
      PROVE  Carries(rows, t, index_average(k, E, t, base))
  <2>. DEFINE sums == fraction(weighted_sum(L, t + 1), weight_sum(L, t + 1))
  <2>1. t \in Int /\ from <= t /\ t <= to
    BY <1>8 DEF InWindow
  <2>2. Carries(rows, t, sums)
    <3>1. Dated(D) /\ Adds(D, L) /\ C \subseteq Int /\ from \in Int /\ to \in Int
      BY <1>4, <1>5, <1>6
    <3>2. Carries(locf(D, C, from, to), t, sums)
      BY ONLY <2>1, <3>1, CarriedSums, Zenon
    <3>. QED
      BY <3>2 DEF rows
  <2>3. sums = index_average(k, E, t, base)
    BY <1>2, <1>8
  <2>. HIDE DEF sums
  <2>. QED
    BY <2>2, <2>3
<1>. QED
  BY <1>7, <1>8 DEF E

\* No stream of the instance has a row of default_base_time.
NoDefaultBase == \A r \in metadata : r.metadata_key # "default_base_time"

LEMMA NoDefaultAtStart == DeployedInit => NoDefaultBase
<1>. SUFFICES ASSUME DeployedInit PROVE NoDefaultBase
  OBVIOUS
<1>. DEFINE D == DOMAIN Deployed
<1>1. PICK f \in [D -> 0 .. Cardinality(D) - 1] :
        metadata = UNION {DefaultRows(5 * f[k], k, Deployed[k]) : k \in D}
  BY Numbering
<1>2. ASSUME NEW n, NEW k, NEW type, NEW r \in DefaultRows(n, k, type)
      PROVE  r.metadata_key # "default_base_time"
  BY <1>2 DEF DefaultRows, Row
<1>3. \A r \in metadata : \E k \in D : r \in DefaultRows(5 * f[k], k, Deployed[k])
  BY <1>1, Zenon
<1>. QED
  BY <1>2, <1>3 DEF NoDefaultBase

LEMMA NoDefaultStays == NoDefaultBase /\ [ComposedNext]_composedVars => NoDefaultBase'
<1>. SUFFICES ASSUME NoDefaultBase, [ComposedNext]_composedVars PROVE UNCHANGED metadata
  BY Zenon DEF NoDefaultBase
<1>1. CASE Taxonomise
  <2>1. PICK c \in Callers, dp \in ProviderArgs, id \in StreamIdArgs :
          \/ \E a \in TaxonomyArgs : insert_taxonomy(c, dp, id, a)
          \/ \E group \in GroupArgs : disable_taxonomy(c, dp, id, group)
    BY <1>1 DEF Taxonomise
  <2>2. ASSUME NEW a, insert_taxonomy(c, dp, id, a) PROVE UNCHANGED metadata
    BY <2>2, Zenon DEF insert_taxonomy
  <2>3. ASSUME NEW group, disable_taxonomy(c, dp, id, group) PROVE UNCHANGED metadata
    BY <2>3, Zenon DEF disable_taxonomy
  <2>. QED
    BY <2>1, <2>2, <2>3
<1>2. CASE InsertRecords
  <2>1. PICK c \in Callers, dp \in ProviderArgs, id \in StreamIdArgs, t \in TimeArgs,
             v \in ValueArgs : P!insert_record(c, dp, id, t, v)
    BY <1>2 DEF InsertRecords, P!InsertOne
  <2>. QED
    BY <2>1, Zenon DEF P!insert_record
<1>3. CASE UNCHANGED composedVars
  BY <1>3 DEF composedVars
<1>. QED
  BY <1>1, <1>2, <1>3 DEF ComposedNext

\* So an index without a base time has base time 0.
LEMMA BaseTimes ==
  ASSUME NoDefaultBase, NEW k, NEW b
  PROVE  effective_base_times(k, b) = {coalesce(b, 0)}
<1>1. get_metadata(k, "default_base_time", NULL) = {}
  BY DEF NoDefaultBase, get_metadata
<1>2. get_latest_metadata(k, "default_base_time", NULL) = {}
  BY <1>1, Zenon DEF get_latest_metadata
<1>3. get_latest_metadata_int(k, "default_base_time") = {NULL}
  BY <1>2, Zenon DEF get_latest_metadata_int
<1>. QED
  BY <1>3 DEF effective_base_times, coalesce

\* Some answer of get_index_composed in a window refuses, does not end or gives the
\* averages.
LEMMA SomeIndexAnswer ==
  ASSUME RecordsInv, NEW k, NEW wallet, NEW from, NEW to,
         ~ (from # NULL /\ to # NULL /\ from > to),
         NEW lo \in Int, lo = coalesce(from, 0), lo < MaxInt8,
         NEW hi \in Int, hi = coalesce(to, MaxInt8),
         NoDefaultBase, NEW b, NEW base \in Int, base = coalesce(b, 0)
  PROVE  \E a \in window_index_composed(k, wallet, from, to, NULL, b) :
           \/ a = refused
           \/ a = no_end
           \/ \E rows : /\ a = rows_answer(rows) /\ Located(rows, lo, hi)
                        /\ \A t : InWindow(lo, hi, t) =>
                             Carries(rows, t, index_average(k, counted(k, lo), t, base))
<1>. DEFINE H == hierarchy(k, lo, hi)
            PW == primitive_weights(H)
            answers(ok) == IF ~ ok THEN {refused}
                           ELSE IF endless(H) THEN {no_end}
                           ELSE {rows_answer(X) : X \in index_rows(PW, lo, hi, NULL, base)}
            A == window_index_composed(k, wallet, from, to, NULL, b)
            good(rows) == /\ Located(rows, lo, hi)
                          /\ \A t : InWindow(lo, hi, t) =>
                               Carries(rows, t, index_average(k, counted(k, lo), t, base))
<1>1. \A ok \in permitted(k, wallet, from, to) : answers(ok) \subseteq A
  <2>. DEFINE at_bounds(x, y, c, ok) ==
                IF ~ ok THEN {refused}
                ELSE IF endless(hierarchy(k, x, y)) THEN {no_end}
                ELSE {rows_answer(X) :
                        X \in index_rows(primitive_weights(hierarchy(k, x, y)), x, y, NULL, c)}
  <2>1. A = IF from # NULL /\ to # NULL /\ from > to THEN {refused}
            ELSE UNION {at_bounds(coalesce(from, 0), coalesce(to, MaxInt8), c, ok) :
                          ok \in permitted(k, wallet, from, to),
                          c \in effective_base_times(k, b)}
    BY DEF window_index_composed
  <2>2. \A ok : answers(ok) = at_bounds(lo, hi, base, ok)
    OBVIOUS
  <2>. HIDE DEF A, answers, at_bounds
  <2>3. effective_base_times(k, b) = {base}
    BY BaseTimes
  <2>4. A = UNION {at_bounds(lo, hi, c, ok) : ok \in permitted(k, wallet, from, to), c \in {base}}
    BY <2>1, <2>3
  <2>. QED
    BY <2>2, <2>4
<1>2. PICK ok \in permitted(k, wallet, from, to) : TRUE
  BY SomePermission
<1>3. PathsOf(PW, k, lo, hi)
  BY DEF PathsOf
<1>. HIDE DEF PW
<1>4. PICK rows \in index_rows(PW, lo, hi, NULL, base) : good(rows)
  BY <1>3, IndexRowsCompute
<1>5. \A a \in answers(ok) : a \in A
  BY <1>1, <1>2
<1>6. refused \in answers(ok) \/ no_end \in answers(ok) \/ rows_answer(rows) \in answers(ok)
  BY <1>4
<1>. HIDE DEF A, answers, good
<1>7. \E a \in A : \/ a = refused
                   \/ a = no_end
                   \/ \E X : a = rows_answer(X) /\ good(X)
  BY <1>4, <1>5, <1>6
<1>. QED
  BY <1>7 DEF A, good

LEMMA IndexNow == RecordsInv /\ NoDefaultBase => IndexAtEveryTime
<1>. SUFFICES ASSUME RecordsInv, NoDefaultBase, NEW k \in Composed, NEW w \in RecordWindows
              PROVE  \E a \in window_index_composed(k, "0xa", w[1], w[2], NULL, w[1]) :
                       a.outcome = "rows" =>
                         computes(a.rows,
                           [t \in times_within(coalesce(w[1], 0), coalesce(w[2], MaxInt8)) |->
                              index_average(k, counted(k, coalesce(w[1], 0)), t, coalesce(w[1], 0))])
  BY Zenon DEF IndexAtEveryTime
<1>. DEFINE lo == coalesce(w[1], 0)
            hi == coalesce(w[2], MaxInt8)
            T  == times_within(lo, hi)
            averages == [t \in T |-> index_average(k, counted(k, lo), t, lo)]
<1>1. /\ lo \in Int /\ lo < MaxInt8 /\ hi \in Int
      /\ ~ (w[1] # NULL /\ w[2] # NULL /\ w[1] > w[2])
      /\ \A t \in T : InWindow(lo, hi, t)
  BY WindowArg
<1>2. DOMAIN averages = T /\ \A t \in T : averages[t] = index_average(k, counted(k, lo), t, lo)
  OBVIOUS
<1>. HIDE DEF T
<1>3. PICK a \in window_index_composed(k, "0xa", w[1], w[2], NULL, w[1]) :
           \/ a = refused
           \/ a = no_end
           \/ \E rows : /\ a = rows_answer(rows) /\ Located(rows, lo, hi)
                        /\ \A t : InWindow(lo, hi, t) =>
                             Carries(rows, t, index_average(k, counted(k, lo), t, lo))
  BY <1>1, SomeIndexAnswer
<1>. HIDE DEF averages, lo, hi
<1>4. ASSUME a.outcome = "rows" PROVE computes(a.rows, averages)
  <2>1. a # refused /\ a # no_end
    <3>1. refused.outcome = "refused" /\ no_end.outcome = "no end"
      BY DEF refused, no_end
    <3>. QED
      BY <1>4, <3>1
  <2>2. PICK rows : /\ a = rows_answer(rows)
                    /\ \A t : InWindow(lo, hi, t) =>
                         Carries(rows, t, index_average(k, counted(k, lo), t, lo))
    BY <1>3, <2>1
  <2>3. a.rows = rows
    BY <2>2 DEF rows_answer
  <2>4. ASSUME NEW t \in DOMAIN averages
        PROVE  IF carried(rows, t) = {} THEN equal(averages[t], zero)
               ELSE \A v \in carried(rows, t) : equal(v, averages[t])
    <3>1. Carries(rows, t, averages[t])
      BY <1>1, <1>2, <2>2
    <3>2. \A x : equal(x, x)
      BY DEF equal
    <3>. QED
      BY <3>1, <3>2 DEF Carries
  <2>. QED
    BY <2>3, <2>4 DEF computes
<1>. QED
  BY <1>4 DEF averages, T, lo, hi

\* The rows of the index carried forward give every time of every window the weighted
\* average of the indices below, for all streams, taxonomies, values and times.
THEOREM IndexOfComposed == ComposedSpec => []IndexAtEveryTime
<1>1. ComposedSpec => []NoDefaultBase
  BY NoDefaultAtStart, NoDefaultStays, PTL DEF ComposedSpec
<1>. QED
  BY <1>1, RecordsInductive, IndexNow, PTL

-----------------------------------------------------------------------------
(* The index without a window                                              *)

\* get_first_record_composed has an answer with the average at the first event from the
\* time asked for.
LEMMA EarlyRow ==
  ASSUME RecordsInv, NEW k, NEW wallet, NEW u, NEW after \in Int, after = coalesce(u, 0),
         NEW T, T = event_times_from(k, after, NULL)
  PROVE  \E a \in get_first_record_composed(k, wallet, u, NULL) :
           a.outcome = "rows" /\ a.rows # {} => RecordAt(a, k, Min(T)) /\ Min(T) \in TimeArgs
<1>. DEFINE A == get_first_record_composed(k, wallet, u, NULL)
            answers(X, r) == IF r # "yes" THEN {refused}
                             ELSE IF X = {} THEN {rows_answer({})}
                             ELSE first_row(k, wallet, Min(X), NULL)
<1>1. A = UNION {answers(T, r) : r \in is_allowed_to_read_all(k, wallet, u, NULL)}
  <2>1. A = UNION {answers(event_times_from(k, coalesce(u, 0), NULL), r) :
                     r \in is_allowed_to_read_all(k, wallet, u, NULL)}
    BY Zenon DEF get_first_record_composed
  <2>. HIDE DEF A, answers
  <2>. QED
    BY <2>1, Zenon
<1>2. PICK r \in is_allowed_to_read_all(k, wallet, u, NULL) : TRUE
  BY SomeReader
<1>3. \A a \in answers(T, r) : a \in A
  BY <1>1, <1>2
<1>4. refused.outcome = "refused" /\ rows_answer({}).rows = {}
  BY DEF refused, rows_answer
<1>. HIDE DEF A
<1>5. CASE r # "yes"
  <2>1. refused \in A
    BY <1>3, <1>5
  <2>. QED
    BY <1>4, <2>1 DEF A
<1>6. CASE r = "yes" /\ T = {}
  <2>1. rows_answer({}) \in A
    BY <1>3, <1>6
  <2>. QED
    BY <1>4, <2>1 DEF A
<1>7. CASE r = "yes" /\ T # {}
  <2>1. \A t \in T : \E e \in leaf_events(k, NULL) : t = e.event_time
    BY DEF event_times_from
  <2>2. /\ Min(T) \in T /\ T \subseteq TimeArgs /\ T \subseteq Int
        /\ \A t \in T : t < MaxInt8
    BY <1>7, <2>1, EventTimes
  <2>3. PICK a \in first_row(k, wallet, Min(T), NULL) : RecordAt(a, k, Min(T))
    BY <2>2, FirstRow
  <2>4. a \in A
    BY <1>3, <1>7, <2>3
  <2>. QED
    BY <2>2, <2>3, <2>4 DEF A
<1>. QED
  BY <1>5, <1>6, <1>7

LEMMA OrElse ==
  ASSUME NEW A, NEW B, NEW a \in A
  PROVE  IF a.outcome = "rows" /\ a.rows = {} THEN B \subseteq or_else(A, B)
         ELSE a \in or_else(A, B)
BY DEF or_else

\* The time s of a record that may be the base value at time t: t itself, or, when
\* there is no average at t, that of an event.
BaseAt(k, t, s) == \/ s = t
                   \/ average(k, events, t) = zero /\ s \in TimeArgs

\* Some base value is the average of such a time, or there is none.
LEMMA BaseRecord ==
  ASSUME RecordsInv, NEW k, NEW wallet, NEW t \in Int, t < MaxInt8
  PROVE  \E a \in internal_get_base_value(k, wallet, t, NULL) :
           a.outcome = "rows" => a.rows # {} /\ \E s : BaseAt(k, t, s) /\ RecordAt(a, k, s)
<1>. DEFINE A1 == first_row(k, wallet, t, NULL)
            A2 == get_last_record_composed(k, wallet, t, NULL)
            A3 == get_first_record_composed(k, wallet, t, NULL)
            C3 == or_else(A3, {refused})
            C2 == or_else(A2, C3)
            C1 == or_else(A1, C2)
            good(a) == a.outcome = "rows" =>
                         a.rows # {} /\ \E s : BaseAt(k, t, s) /\ RecordAt(a, k, s)
            found(a) == a.outcome = "rows" /\ a.rows # {}
            none(a) == a.outcome = "rows" /\ a.rows = {}
<1>1. coalesce(t, 0) = t /\ coalesce(t, MaxInt8) = t
  <2>1. t # NULL
    BY TextAssumption
  <2>. QED
    BY <2>1 DEF coalesce
<1>2. PICK a \in A1 : RecordAt(a, k, t) /\ (none(a) => average(k, events, t) = zero)
  BY FirstRow
<1>3. PICK b \in A2 : found(b) => \E s \in TimeArgs : RecordAt(b, k, s)
  BY <1>1, LastRow
<1>4. PICK c \in A3 : found(c) => \E s \in TimeArgs : RecordAt(c, k, s)
  BY <1>1, EarlyRow
<1>5. internal_get_base_value(k, wallet, t, NULL) = C1
  BY Zenon DEF internal_get_base_value
<1>6. refused.outcome # "rows"
  <2>1. refused.outcome = "refused"
    BY DEF refused
  <2>. QED
    BY <2>1
<1>7. good(refused)
  BY <1>6
<1>8. ~ none(a) => good(a)
  BY <1>2 DEF BaseAt
<1>9. none(a) /\ ~ none(b) => good(b)
  BY <1>2, <1>3 DEF BaseAt
<1>10. none(a) /\ ~ none(c) => good(c)
  BY <1>2, <1>4 DEF BaseAt
<1>11. (IF none(c) THEN {refused} \subseteq C3 ELSE c \in C3)
       /\ (IF none(b) THEN C3 \subseteq C2 ELSE b \in C2)
       /\ (IF none(a) THEN C2 \subseteq C1 ELSE a \in C1)
  <2>. HIDE DEF A1, A2, A3
  <2>1. IF none(c) THEN {refused} \subseteq C3 ELSE c \in C3
    BY <1>4, OrElse
  <2>. HIDE DEF C3
  <2>2. IF none(b) THEN C3 \subseteq C2 ELSE b \in C2
    BY <1>3, OrElse
  <2>. HIDE DEF C2
  <2>3. IF none(a) THEN C2 \subseteq C1 ELSE a \in C1
    BY <1>2, OrElse
  <2>. QED
    BY <2>1, <2>2, <2>3 DEF C3, C2
<1>. HIDE DEF A1, A2, A3, C1, C2, C3, good, found, none
<1>12. \E x \in C1 : good(x)
  <2>1. CASE ~ none(a)
    BY <1>8, <1>11, <2>1
  <2>2. CASE none(a) /\ ~ none(b)
    BY <1>9, <1>11, <2>2
  <2>3. CASE none(a) /\ none(b) /\ ~ none(c)
    BY <1>10, <1>11, <2>3
  <2>4. CASE none(a) /\ none(b) /\ none(c)
    BY <1>7, <1>11, <2>4
  <2>. QED
    BY <2>1, <2>2, <2>3, <2>4
<1>. QED
  BY <1>5, <1>12 DEF good

\* An answer of records with value x, divided by a base value that is not 0.
ratio_to(x, base) == <<x[1] * base[2] * 100, x[2] * base[1]>>

LEMMA DividedRows ==
  ASSUME NEW a, NEW x, NEW base, a.outcome = "rows", a.rows # {}, base[1] # 0,
         \A r \in a.rows : "value" \in DOMAIN r /\ r.value = x
  PROVE  \A r \in divided(a, base).rows : r.value = ratio_to(x, base)
<1>. DEFINE new(r) == [r EXCEPT !.value = ratio_to(r.value, base)]
<1>1. divided(a, base) = rows_answer({new(r) : r \in a.rows})
  BY Zenon DEF divided, ratio_to
<1>2. divided(a, base).rows = {new(r) : r \in a.rows}
  BY <1>1 DEF rows_answer
<1>3. \A r \in a.rows : new(r).value = ratio_to(r.value, base)
  OBVIOUS
<1>. HIDE DEF new
<1>4. \A r \in a.rows : new(r).value = ratio_to(x, base)
  BY <1>3, Zenon
<1>. QED
  BY <1>2, <1>4

LEMMA RatioNow == RecordsInv /\ NoDefaultBase => LatestIndexIsRatio
<1>. SUFFICES ASSUME RecordsInv, NoDefaultBase, NEW k \in Composed, NEW b \in WindowArgs
              PROVE  LET base  == coalesce(b, 0)
                         since == IF average(k, events, base)[1] # 0 THEN {base} ELSE TimeArgs
                         now   == average(k, events, Max(event_times_up_to(k, MaxInt8, NULL)))
                         ratio(r, s) ==
                           LET then == average(k, events, s)
                           IN then[1] # 0
                              /\ equal(r.value, <<now[1] * then[2] * 100, now[2] * then[1]>>)
                     IN \E a \in get_index_composed(k, "0xa", NULL, NULL, NULL, b) :
                          a.outcome = "rows" => \A r \in a.rows : \E s \in since : ratio(r, s)
  BY Zenon DEF LatestIndexIsRatio
<1>. DEFINE base == coalesce(b, 0)
            since == IF average(k, events, base)[1] # 0 THEN {base} ELSE TimeArgs
            T == event_times_up_to(k, MaxInt8, NULL)
            now == average(k, events, Max(T))
            ratio(r, s) ==
              LET then == average(k, events, s)
              IN then[1] # 0 /\ equal(r.value, <<now[1] * then[2] * 100, now[2] * then[1]>>)
            A == get_index_composed(k, "0xa", NULL, NULL, NULL, b)
            I == latest_index(k, "0xa", NULL, base)
            good(a) == a.outcome = "rows" => \A r \in a.rows : \E s \in since : ratio(r, s)
<1>1. base \in Int /\ base < MaxInt8 /\ MaxInt8 \in Int
  BY HierarchyAssumption DEF coalesce
<1>2. effective_base_times(k, b) = {base}
  BY BaseTimes
<1>3. PICK ok \in permitted(k, "0xa", NULL, NULL) : TRUE
  BY SomePermission
<1>4. IF ok THEN I \subseteq A ELSE refused \in A
  <2>1. A = latest_index_composed(k, "0xa", NULL, b)
    BY Zenon DEF get_index_composed
  <2>. DEFINE answers(x, c) == IF x THEN latest_index(k, "0xa", NULL, c) ELSE {refused}
  <2>2. latest_index_composed(k, "0xa", NULL, b)
          = UNION {answers(x, c) : x \in permitted(k, "0xa", NULL, NULL),
                                   c \in effective_base_times(k, b)}
    BY DEF latest_index_composed
  <2>3. answers(ok, base) = IF ok THEN I ELSE {refused}
    OBVIOUS
  <2>. HIDE DEF answers, A, I
  <2>4. answers(ok, base) \subseteq A
    BY <1>2, <1>3, <2>1, <2>2
  <2>. QED
    BY <2>3, <2>4
<1>5. refused.outcome # "rows"
  <2>1. refused.outcome = "refused"
    BY DEF refused
  <2>. QED
    BY <2>1
<1>. HIDE DEF base, T
<1>6. PICK x \in internal_get_base_value(k, "0xa", base, NULL) :
        x.outcome = "rows" => x.rows # {} /\ \E s : BaseAt(k, base, s) /\ RecordAt(x, k, s)
  BY <1>1, BaseRecord
<1>7. PICK y \in get_last_record_composed(k, "0xa", NULL, NULL) :
        y.outcome = "rows" /\ y.rows # {} => RecordAt(y, k, Max(T))
  <2>1. coalesce(NULL, MaxInt8) = MaxInt8
    BY DEF coalesce
  <2>. QED
    BY <1>1, <2>1, LastRow DEF T
<1>8. I = UNION {IF z.outcome # "rows" THEN {z}
                 ELSE {divided(a, r.value) :
                         r \in z.rows, a \in get_last_record_composed(k, "0xa", NULL, NULL)} :
                   z \in internal_get_base_value(k, "0xa", base, NULL)}
  BY DEF latest_index
<1>. HIDE DEF I, A, now
<1>9. x.outcome # "rows" => x \in I
  BY <1>6, <1>8
<1>10. x.outcome = "rows" => \A r \in x.rows : divided(y, r.value) \in I
  BY <1>6, <1>7, <1>8
<1>11. ASSUME x.outcome = "rows" PROVE \E a \in I : good(a)
  <2>1. PICK s : BaseAt(k, base, s) /\ RecordAt(x, k, s)
    BY <1>6, <1>11
  <2>2. PICK q \in x.rows : q.value = average(k, events, s)
    BY <1>6, <1>11, <2>1 DEF RecordAt
  <2>. DEFINE then == average(k, events, s)
              d == divided(y, then)
  <2>3. d \in I
    BY <1>10, <1>11, <2>2
  <2>4. CASE y.outcome # "rows" \/ y.rows = {}
    <3>1. d = y
      BY <2>4, Zenon DEF divided
    <3>2. good(y)
      BY <2>4
    <3>. HIDE DEF good, d
    <3>. QED
      BY <2>3, <3>1, <3>2
  <2>5. CASE y.outcome = "rows" /\ y.rows # {} /\ then[1] = 0
    <3>1. d = refused
      BY <2>5, Zenon DEF divided
    <3>2. good(refused)
      BY <1>5
    <3>. HIDE DEF good, d
    <3>. QED
      BY <2>3, <3>1, <3>2
  <2>6. CASE y.outcome = "rows" /\ y.rows # {} /\ then[1] # 0
    <3>1. \A r \in y.rows : "value" \in DOMAIN r /\ r.value = now
      BY <1>7, <2>6 DEF RecordAt, now
    <3>2. \A r \in d.rows : r.value = ratio_to(now, then)
      <4>. HIDE DEF then
      <4>. QED
        BY <2>6, <3>1, DividedRows
    <3>3. s \in since
      <4>1. zero[1] = 0
        BY DEF zero
      <4>. QED
        BY <2>1, <2>6, <4>1 DEF BaseAt
    <3>4. \A r \in d.rows : ratio(r, s)
      <4>1. \A v : equal(v, v)
        BY DEF equal
      <4>2. \A r \in d.rows : equal(r.value, <<now[1] * then[2] * 100, now[2] * then[1]>>)
        <5>. HIDE DEF d, then
        <5>. QED
          BY <3>2, <4>1, Zenon DEF ratio_to
      <4>. HIDE DEF d
      <4>. QED
        BY <2>6, <4>2
    <3>. HIDE DEF d, ratio, since
    <3>. QED
      BY <2>3, <3>3, <3>4
  <2>. QED
    BY <2>4, <2>5, <2>6
<1>12. \E a \in A : good(a)
  <2>1. CASE ~ ok
    <3>1. refused \in A
      BY <1>4, <2>1
    <3>2. good(refused)
      BY <1>5
    <3>. HIDE DEF good
    <3>. QED
      BY <3>1, <3>2
  <2>2. CASE ok /\ x.outcome # "rows"
    <3>1. x \in A
      BY <1>4, <1>9, <2>2
    <3>2. good(x)
      BY <2>2
    <3>. HIDE DEF good
    <3>. QED
      BY <3>1, <3>2
  <2>3. CASE ok /\ x.outcome = "rows"
    <3>. HIDE DEF good
    <3>. QED
      BY <1>4, <1>11, <2>3
  <2>. QED
    BY <2>1, <2>2, <2>3
<1>. QED
  BY <1>12 DEF A, now, T, base

\* Without a window the index of a composed stream is the ratio of its average at the
\* last event to one in force at the base time, or to one of an event when none was.
THEOREM LatestIndexOfComposed == ComposedSpec => []LatestIndexIsRatio
<1>1. ComposedSpec => []NoDefaultBase
  BY NoDefaultAtStart, NoDefaultStays, PTL DEF ComposedSpec
<1>. QED
  BY <1>1, RecordsInductive, RatioNow, PTL
=============================================================================
