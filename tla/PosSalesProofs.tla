--------------------------- MODULE PosSalesProofs ---------------------------
(***************************************************************************)
(* Sales, returns and advances for any sales, stock, requests and bounds.  *)
(***************************************************************************)
EXTENDS PosSales, FiniteSetTheorems, SequenceTheorems, WellFoundedInduction, TLAPS

(***************************************************************************)
(* Counting.  Induction over the subsets of a finite set is by the         *)
(* smallest counterexample; a sum is the value of the fold that takes one  *)
(* element after the other out of a set.                                   *)
(***************************************************************************)

\* Induction in the form the provers take: a set of numbers has a least one.
LEMMA LeastNatural ==
  ASSUME NEW T \in SUBSET Nat, T # {}
  PROVE  \E m \in T : \A k \in T : m <= k
  <1>1. PICK m \in T : \A k \in T : ~ (<<k, m>> \in OpToRel(<, Nat))
    BY NatLessThanWellFounded, WFMin
  <1>2. ASSUME NEW k \in T, k < m PROVE FALSE
    <2>1. <<k, m>> \in Nat \X Nat
      OBVIOUS
    <2>2. <<k, m>> \in OpToRel(<, Nat)
      BY <1>2, <2>1 DEF OpToRel
    <2> QED
      BY <1>1, <2>2
  <1> QED
    BY <1>2

\* A set is larger than what is left when an element is taken out.
LEMMA Smaller ==
  ASSUME NEW s, IsFiniteSet(s), NEW x \in s
  PROVE  /\ IsFiniteSet(s \ {x})
         /\ Cardinality(s) \in Nat /\ Cardinality(s \ {x}) \in Nat
         /\ Cardinality(s \ {x}) = Cardinality(s) - 1
  BY FS_RemoveElement, FS_CardinalityType

\* Induction over the subsets of a finite set, as a property of the set of the
\* counterexamples: none is empty and none is the first, so there is none.
LEMMA SetInduction ==
  ASSUME NEW J, IsFiniteSet(J), NEW Bad \in SUBSET SUBSET J,
         {} \notin Bad,
         \A s \in Bad : \E x \in s : s \ {x} \in Bad
  PROVE  Bad = {}
  <1> SUFFICES ASSUME Bad # {} PROVE FALSE
    OBVIOUS
  <1>1. \A s \in Bad : IsFiniteSet(s)
    BY FS_Subset
  <1> DEFINE C == {Cardinality(s) : s \in Bad}
  <1>2. C \in SUBSET Nat /\ C # {}
    BY <1>1, FS_CardinalityType
  <1>3. PICK m \in C : \A k \in C : m <= k
    BY <1>2, LeastNatural
  <1>4. PICK s \in Bad : m = Cardinality(s)
    BY <1>3
  <1>5. PICK x \in s : s \ {x} \in Bad
    OBVIOUS
  <1>6. m <= Cardinality(s \ {x})
    BY <1>3, <1>5
  <1>7. /\ Cardinality(s) \in Nat /\ Cardinality(s \ {x}) \in Nat
        /\ Cardinality(s \ {x}) = Cardinality(s) - 1
    BY <1>1, Smaller
  <1> QED
    BY ONLY <1>4, <1>6, <1>7

\* A finite set of numbers has a largest one.
LEMMA HasMax ==
  ASSUME NEW J \in SUBSET Nat, IsFiniteSet(J), J # {}
  PROVE  \E m \in J : \A j \in J : j <= m
  <1> DEFINE Bad == {s \in SUBSET J : s # {} /\ ~ \E m \in s : \A j \in s : j <= m}
  <1>1. ASSUME NEW s \in Bad PROVE \E x \in s : s \ {x} \in Bad
    <2>1. PICK x \in s : TRUE
      OBVIOUS
    <2>2. CASE s \ {x} = {}
      BY <2>1, <2>2
    <2>3. ASSUME NEW m \in s \ {x}, \A j \in s \ {x} : j <= m PROVE FALSE
      <3>1. x \in Nat /\ m \in Nat /\ \A j \in s : j \in Nat
        BY <2>1
      <3>2. CASE m <= x
        <4>1. \A j \in s : j <= x
          BY <2>3, <3>1, <3>2
        <4> QED
          BY <2>1, <4>1
      <3>3. CASE x <= m
        BY <2>3, <3>1, <3>3
      <3> QED
        BY <3>1, <3>2, <3>3
    <2>4. s \ {x} \in Bad
      BY <2>2, <2>3
    <2> QED
      BY <2>4
  <1>2. {} \notin Bad /\ Bad \in SUBSET SUBSET J
    OBVIOUS
  <1>3. J \in Bad \/ \E m \in J : \A j \in J : j <= m
    OBVIOUS
  <1> HIDE DEF Bad
  <1> QED
    BY <1>1, <1>2, <1>3, SetInduction

\* A selection of the n oldest rows of J finds n, or all there are.
LEMMA OldestCount ==
  ASSUME NEW J \in SUBSET Nat, IsFiniteSet(J), NEW n \in Nat
  PROVE  /\ IsFiniteSet(Oldest(J, n))
         /\ Cardinality(Oldest(J, n)) = IF Cardinality(J) < n THEN Cardinality(J) ELSE n
  <1> DEFINE Good(s) == Cardinality(Oldest(s, n)) = IF Cardinality(s) < n THEN Cardinality(s) ELSE n
             Bad == {s \in SUBSET J : ~Good(s)}
  <1>f. \A s \in SUBSET J : IsFiniteSet(s) /\ IsFiniteSet(Oldest(s, n))
    BY FS_Subset DEF Oldest
  <1>1. {} \notin Bad
    <2>1. Oldest({}, n) = {}
      BY DEF Oldest
    <2> QED
      BY <2>1, FS_EmptySet
  <1>2. ASSUME NEW s \in Bad PROVE \E x \in s : s \ {x} \in Bad
    <2>1. s # {} /\ s \in SUBSET Nat /\ IsFiniteSet(s)
      BY <1>1, <1>2, <1>f
    <2>2. PICK m \in s : \A j \in s : j <= m
      BY <2>1, HasMax
    <2> DEFINE u == s \ {m}
    <2>3. /\ IsFiniteSet(u) /\ Cardinality(s) \in Nat /\ Cardinality(u) \in Nat
          /\ Cardinality(u) = Cardinality(s) - 1
      BY <2>1, Smaller
    <2>4. \A i \in u : {j \in s : j < i} = {j \in u : j < i}
      BY <2>1, <2>2
    <2>5. {j \in s : j < m} = u
      <3>1. \A j \in s : j < m <=> j # m
        BY <2>1, <2>2
      <3> QED
        BY <3>1
    <2>6. Oldest(s, n) = Oldest(u, n) \cup (IF Cardinality(u) < n THEN {m} ELSE {})
      <3>1. s = u \cup {m}
        BY <2>2
      <3>2. \A i \in u : Cardinality({j \in s : j < i}) < n <=> Cardinality({j \in u : j < i}) < n
        BY <2>4
      <3>3. Cardinality({j \in s : j < m}) < n <=> Cardinality(u) < n
        BY <2>5
      <3>4. \A i \in s : i \in Oldest(s, n) <=> Cardinality({j \in s : j < i}) < n
        BY DEF Oldest
      <3>5. \A i \in u : i \in Oldest(u, n) <=> Cardinality({j \in u : j < i}) < n
        BY DEF Oldest
      <3>6. Oldest(s, n) \subseteq s /\ Oldest(u, n) \subseteq u
        BY DEF Oldest
      <3> HIDE DEF u
      <3>7. \A i \in u : i \in Oldest(s, n) <=> i \in Oldest(u, n)
        BY <3>1, <3>2, <3>4, <3>5
      <3>8. m \in Oldest(s, n) <=> Cardinality(u) < n
        BY <3>1, <3>3, <3>4
      <3>9. m \notin u
        BY DEF u
      <3> QED
        BY <3>1, <3>6, <3>7, <3>8, <3>9
    <2>7. m \notin Oldest(u, n) /\ IsFiniteSet(Oldest(u, n)) /\ u \in SUBSET J
      BY <1>f DEF Oldest
    <2>8. Cardinality(Oldest(s, n)) = Cardinality(Oldest(u, n)) + (IF Cardinality(u) < n THEN 1 ELSE 0)
      <3>1. CASE Cardinality(u) < n
        BY <2>6, <2>7, <3>1, FS_AddElement
      <3>2. CASE ~ (Cardinality(u) < n)
        <4>1. Cardinality(Oldest(u, n)) \in Nat /\ Oldest(s, n) = Oldest(u, n)
          BY <2>6, <2>7, <3>2, FS_CardinalityType
        <4> QED
          BY <3>2, <4>1
      <3> QED
        BY <3>1, <3>2
    <2>9. ~Good(s)
      BY <1>2
    <2> HIDE DEF u
    <2>10. ~Good(u)
      BY <2>3, <2>8, <2>9
    <2>11. u \in Bad
      BY <2>7, <2>10
    <2> QED
      BY <2>11 DEF u
  <1>3. Bad \in SUBSET SUBSET J
    OBVIOUS
  <1>4. J \in Bad \/ Good(J)
    OBVIOUS
  <1> HIDE DEF Bad
  <1> QED
    BY <1>1, <1>2, <1>3, <1>4, <1>f, SetInduction

\* The function that sums f over the subsets of I.
Ints(f, I) == \A i \in I : f[i] \in Int
Pick(s) == CHOOSE i \in s : TRUE
FoldAt(g, f, s) == IF s = {} THEN 0 ELSE f[Pick(s)] + g[s \ {Pick(s)}]
IsFold(g, f, I) == g = [s \in SUBSET I |-> FoldAt(g, f, s)]

\* The recursion has a solution: up to sets of n elements, for every n.
Small(I, n) == {s \in SUBSET I : Cardinality(s) <= n}
IsPartFold(g, f, I, n) == g = [s \in Small(I, n) |-> FoldAt(g, f, s)]

\* If n were the least for which it had none, the one for n - 1 would extend.
LEMMA FoldExists ==
  ASSUME NEW f, NEW I, IsFiniteSet(I)
  PROVE  \E g : IsFold(g, f, I)
  <1> DEFINE Bad == {n \in Nat : ~ \E g : IsPartFold(g, f, I, n)}
  <1>f. \A s \in SUBSET I : IsFiniteSet(s) /\ Cardinality(s) \in Nat
    BY FS_Subset, FS_CardinalityType
  <1>1. Bad = {}
    <2> SUFFICES ASSUME Bad # {} PROVE FALSE
      OBVIOUS
    <2>1. PICK n \in Bad : \A k \in Bad : n <= k
      BY LeastNatural
    <2>2. \E g : IsPartFold(g, f, I, n)
      <3>1. CASE n = 0
        <4> DEFINE g == [s \in Small(I, 0) |-> 0]
        <4>1. \A s \in Small(I, 0) : s = {}
          BY <1>f, FS_EmptySet DEF Small
        <4>2. IsPartFold(g, f, I, 0)
          BY <4>1 DEF IsPartFold, FoldAt
        <4> QED
          BY <3>1, <4>2
      <3>2. CASE n # 0
        <4>1. n - 1 \in Nat /\ n - 1 \notin Bad
          BY <2>1, <3>2
        <4>2. PICK h : IsPartFold(h, f, I, n - 1)
          BY <4>1
        <4> DEFINE g == [s \in Small(I, n) |-> FoldAt(h, f, s)]
        <4>3. ASSUME NEW s \in Small(I, n)
              PROVE  FoldAt(h, f, s) = FoldAt(g, f, s)
          <5>1. CASE s = {}
            BY <5>1 DEF FoldAt
          <5>2. CASE s # {}
            <6>1. Pick(s) \in s
              BY <5>2 DEF Pick
            <6> DEFINE u == s \ {Pick(s)}
            <6>2. u \in Small(I, n - 1) /\ u \in Small(I, n)
              BY <1>f, <2>1, <6>1, Smaller DEF Small
            <6>3. h[u] = FoldAt(h, f, u)
              BY <4>2, <6>2 DEF IsPartFold
            <6>4. g[u] = FoldAt(h, f, u)
              BY <6>2
            <6> HIDE DEF g
            <6> QED
              BY <5>2, <6>3, <6>4 DEF FoldAt
          <5> QED
            BY <5>1, <5>2
        <4>4. IsPartFold(g, f, I, n)
          BY <4>3 DEF IsPartFold
        <4> QED
          BY <4>4
      <3> QED
        BY <3>1, <3>2
    <2> QED
      BY <2>1, <2>2
  <1>2. Cardinality(I) \in Nat
    BY <1>f
  <1>3. PICK g : IsPartFold(g, f, I, Cardinality(I))
    BY <1>1, <1>2
  <1>4. Small(I, Cardinality(I)) = SUBSET I
    BY FS_Subset DEF Small
  <1> QED
    BY <1>3, <1>4 DEF IsPartFold, IsFold

\* Integers sum to an integer.
LEMMA FoldTyped ==
  ASSUME NEW f, NEW g, NEW I, NEW A \in SUBSET I,
         IsFold(g, f, I), IsFiniteSet(A), Ints(f, A)
  PROVE  g[A] \in Int
  <1> DEFINE Bad == {s \in SUBSET A : g[s] \notin Int}
  <1>1. \A s \in SUBSET A : g[s] = FoldAt(g, f, s)
    BY DEF IsFold
  <1>2. {} \notin Bad
    <2>1. {} \in SUBSET A /\ FoldAt(g, f, {}) = 0
      BY DEF FoldAt
    <2> QED
      BY <1>1, <2>1
  <1>3. ASSUME NEW s \in Bad PROVE \E x \in s : s \ {x} \in Bad
    <2>1. s # {} /\ Pick(s) \in s
      BY <1>2, <1>3 DEF Pick
    <2>2. g[s] = f[Pick(s)] + g[s \ {Pick(s)}] /\ f[Pick(s)] \in Int
      BY <1>1, <1>3, <2>1 DEF FoldAt, Ints
    <2>3. g[s \ {Pick(s)}] \notin Int
      BY <1>3, <2>2
    <2> QED
      BY <1>3, <2>1, <2>3
  <1>4. Bad \in SUBSET SUBSET A
    OBVIOUS
  <1>5. g[A] \notin Int => A \in Bad
    OBVIOUS
  <1> HIDE DEF Bad
  <1> QED
    BY <1>2, <1>3, <1>4, <1>5, SetInduction

\* A function that is nowhere larger than another, but by at most d in one
\* point, has a sum that is larger by at most d.
LEMMA FoldShift ==
  ASSUME NEW f, NEW e, NEW g, NEW h, NEW I, IsFiniteSet(I), IsFold(g, f, I), IsFold(h, e, I),
         Ints(f, I), Ints(e, I), NEW y \in I, NEW d \in Int,
         e[y] <= f[y] + d, \A x \in I \ {y} : e[x] <= f[x]
  PROVE  h[I] <= g[I] + d
  <1> DEFINE Good(s) == h[s] <= g[s] + (IF y \in s THEN d ELSE 0)
             Bad == {s \in SUBSET I : ~Good(s)}
  <1>1. \A s \in SUBSET I : g[s] = FoldAt(g, f, s) /\ h[s] = FoldAt(h, e, s)
    BY DEF IsFold
  <1>2. {} \notin Bad
    <2>1. {} \in SUBSET I /\ FoldAt(g, f, {}) = 0 /\ FoldAt(h, e, {}) = 0
      BY DEF FoldAt
    <2> QED
      BY <1>1, <2>1
  <1>3. \A s \in SUBSET I : g[s] \in Int /\ h[s] \in Int
    BY FoldTyped, FS_Subset DEF Ints
  <1>4. ASSUME NEW s \in Bad PROVE \E x \in s : s \ {x} \in Bad
    <2>1. s # {} /\ Pick(s) \in s /\ s \in SUBSET I
      BY <1>2, <1>4 DEF Pick
    <2> DEFINE p == Pick(s)
               u == s \ {p}
    <2>2. g[s] = f[p] + g[u] /\ h[s] = e[p] + h[u]
      BY <1>1, <2>1 DEF FoldAt
    <2>3. p \in s /\ p \in I /\ u \in SUBSET I
      BY <2>1
    <2>4. g[u] \in Int /\ h[u] \in Int /\ f[p] \in Int /\ e[p] \in Int /\ f[y] \in Int /\ e[y] \in Int
      BY <1>3, <2>3 DEF Ints
    <2>5. (y \in s <=> y \in u \/ y = p) /\ ~ (y \in u /\ y = p)
      BY <2>3
    <2>6. ~Good(s)
      BY <1>4
    <2> HIDE DEF p, u
    <2>7. p # y => e[p] <= f[p]
      BY <2>3
    <2>8. ~Good(u)
      <3>1. CASE p = y
        BY <2>2, <2>4, <2>5, <2>6, <3>1
      <3>2. CASE p # y
        BY <2>2, <2>4, <2>5, <2>6, <2>7, <3>2
      <3> QED
        BY <3>1, <3>2
    <2> QED
      BY <2>3, <2>8 DEF u
  <1>5. Bad \in SUBSET SUBSET I
    OBVIOUS
  <1>6. I \in Bad \/ Good(I)
    OBVIOUS
  <1> HIDE DEF Bad
  <1> QED
    BY <1>2, <1>4, <1>5, <1>6, SetInduction

\* Zeros sum to zero.
LEMMA FoldZero ==
  ASSUME NEW f, NEW g, NEW I, IsFiniteSet(I), IsFold(g, f, I), \A x \in I : f[x] = 0
  PROVE  g[I] = 0
  <1> DEFINE Bad == {s \in SUBSET I : g[s] # 0}
  <1>1. \A s \in SUBSET I : g[s] = FoldAt(g, f, s)
    BY DEF IsFold
  <1>2. {} \notin Bad
    <2>1. {} \in SUBSET I /\ FoldAt(g, f, {}) = 0
      BY DEF FoldAt
    <2> QED
      BY <1>1, <2>1
  <1>3. ASSUME NEW s \in Bad PROVE \E x \in s : s \ {x} \in Bad
    <2>1. s # {} /\ Pick(s) \in s
      BY <1>2, <1>3 DEF Pick
    <2>2. g[s] = 0 + g[s \ {Pick(s)}]
      BY <1>1, <1>3, <2>1 DEF FoldAt
    <2>3. g[s \ {Pick(s)}] # 0
      BY <1>3, <2>2
    <2> QED
      BY <1>3, <2>1, <2>3
  <1>4. Bad \in SUBSET SUBSET I
    OBVIOUS
  <1>5. g[I] # 0 => I \in Bad
    OBVIOUS
  <1> HIDE DEF Bad
  <1> QED
    BY <1>2, <1>3, <1>4, <1>5, SetInduction

\* The sum of sums is the sum.
LEMMA FoldPlus ==
  ASSUME NEW f, NEW e, NEW d, NEW g, NEW h, NEW k, NEW I, IsFiniteSet(I),
         IsFold(g, f, I), IsFold(h, e, I), IsFold(k, d, I), Ints(e, I), Ints(d, I),
         \A i \in I : f[i] = e[i] + d[i]
  PROVE  g[I] = h[I] + k[I]
  <1> DEFINE Bad == {s \in SUBSET I : g[s] # h[s] + k[s]}
  <1>1. \A s \in SUBSET I : g[s] = FoldAt(g, f, s) /\ h[s] = FoldAt(h, e, s) /\ k[s] = FoldAt(k, d, s)
    BY DEF IsFold
  <1>2. {} \notin Bad
    <2>1. {} \in SUBSET I /\ FoldAt(g, f, {}) = 0 /\ FoldAt(h, e, {}) = 0 /\ FoldAt(k, d, {}) = 0
      BY DEF FoldAt
    <2> QED
      BY <1>1, <2>1
  <1>3. \A s \in SUBSET I : h[s] \in Int /\ k[s] \in Int
    BY FoldTyped, FS_Subset DEF Ints
  <1>4. ASSUME NEW s \in Bad PROVE \E x \in s : s \ {x} \in Bad
    <2> DEFINE p == Pick(s)
               u == s \ {p}
    <2>1. s # {} /\ p \in s /\ p \in I /\ u \in SUBSET I
      BY <1>2, <1>4 DEF Pick
    <2>2. g[s] = f[p] + g[u] /\ h[s] = e[p] + h[u] /\ k[s] = d[p] + k[u]
      BY <1>1, <2>1 DEF FoldAt
    <2>3. e[p] \in Int /\ d[p] \in Int /\ f[p] = e[p] + d[p] /\ h[u] \in Int /\ k[u] \in Int
      BY <1>3, <2>1 DEF Ints
    <2>4. g[s] # h[s] + k[s]
      BY <1>4
    <2> HIDE DEF p, u
    <2>5. g[u] # h[u] + k[u]
      BY ONLY <2>2, <2>3, <2>4
    <2> QED
      BY <2>1, <2>5 DEF u
  <1>5. Bad \in SUBSET SUBSET I
    OBVIOUS
  <1>6. g[I] # h[I] + k[I] => I \in Bad
    OBVIOUS
  <1> HIDE DEF Bad
  <1> QED
    BY <1>2, <1>4, <1>5, <1>6, SetInduction

\* The community module's sum of a function is such a fold.
LEMMA SumFold ==
  ASSUME NEW f, IsFiniteSet(DOMAIN f)
  PROVE  \E g : IsFold(g, f, DOMAIN f) /\ SumFunction(f) = g[DOMAIN f]
  <1>1. SumFunction(f) = (CHOOSE g : IsFold(g, f, DOMAIN f))[DOMAIN f]
    BY Zenon DEF SumFunction, SumFunctionOnSet, FoldFunctionOnSet, MapThenFoldSet, IsFold, FoldAt, Pick
  <1> QED
    BY <1>1, FoldExists

LEMMA SumType ==
  ASSUME NEW f, IsFiniteSet(DOMAIN f), Ints(f, DOMAIN f)
  PROVE  SumFunction(f) \in Int
  BY SumFold, FoldTyped

LEMMA SumShift ==
  ASSUME NEW f, NEW e, NEW I, IsFiniteSet(I), DOMAIN f = I, DOMAIN e = I, Ints(f, I), Ints(e, I),
         NEW y \in I, NEW d \in Int, e[y] <= f[y] + d, \A x \in I \ {y} : e[x] <= f[x]
  PROVE  SumFunction(e) <= SumFunction(f) + d
  <1>1. PICK g : IsFold(g, f, I) /\ SumFunction(f) = g[I]
    BY SumFold
  <1>2. PICK h : IsFold(h, e, I) /\ SumFunction(e) = h[I]
    BY SumFold
  <1>3. h[I] <= g[I] + d
    BY <1>1, <1>2, FoldShift
  <1> QED
    BY <1>1, <1>2, <1>3

LEMMA SumZero ==
  ASSUME NEW f, IsFiniteSet(DOMAIN f), \A x \in DOMAIN f : f[x] = 0
  PROVE  SumFunction(f) = 0
  BY SumFold, FoldZero

\* A sum is monotone.
LEMMA SumLess ==
  ASSUME NEW f, NEW e, NEW I, IsFiniteSet(I), DOMAIN f = I, DOMAIN e = I, Ints(f, I), Ints(e, I),
         \A x \in I : e[x] <= f[x]
  PROVE  SumFunction(e) <= SumFunction(f)
  <1>1. SumFunction(e) \in Int /\ SumFunction(f) \in Int
    BY SumType
  <1>2. CASE I = {}
    <2>1. SumFunction(e) = 0 /\ SumFunction(f) = 0
      BY <1>2, SumZero
    <2> QED
      BY <2>1
  <1>3. ASSUME NEW y \in I PROVE SumFunction(e) <= SumFunction(f)
    <2>1. e[y] <= f[y] + 0
      BY DEF Ints
    <2>2. SumFunction(e) <= SumFunction(f) + 0
      BY <2>1, SumShift
    <2> QED
      BY <1>1, <2>2
  <1> QED
    BY <1>2, <1>3

LEMMA SumNat ==
  ASSUME NEW f, IsFiniteSet(DOMAIN f), \A x \in DOMAIN f : f[x] \in Nat
  PROVE  SumFunction(f) \in Nat
  <1> DEFINE I == DOMAIN f
             z == [x \in I |-> 0]
  <1>1. Ints(f, I) /\ Ints(z, I) /\ DOMAIN z = I /\ \A x \in I : z[x] = 0 /\ z[x] <= f[x]
    BY DEF Ints
  <1> HIDE DEF I, z
  <1>2. IsFiniteSet(I) /\ DOMAIN f = I
    BY DEF I
  <1>3. SumFunction(z) = 0 /\ SumFunction(z) <= SumFunction(f) /\ SumFunction(f) \in Int
    BY <1>1, <1>2, SumZero, SumLess, SumType
  <1> QED
    BY <1>3

LEMMA SumPlus ==
  ASSUME NEW f, NEW e, NEW d, NEW I, IsFiniteSet(I), DOMAIN f = I, DOMAIN e = I, DOMAIN d = I,
         Ints(e, I), Ints(d, I), \A x \in I : f[x] = e[x] + d[x]
  PROVE  /\ SumFunction(f) = SumFunction(e) + SumFunction(d)
         /\ SumFunction(e) \in Int /\ SumFunction(d) \in Int
  <1>1. PICK g : IsFold(g, f, I) /\ SumFunction(f) = g[I]
    BY SumFold
  <1>2. PICK h : IsFold(h, e, I) /\ SumFunction(e) = h[I]
    BY SumFold
  <1>3. PICK k : IsFold(k, d, I) /\ SumFunction(d) = k[I]
    BY SumFold
  <1>4. g[I] = h[I] + k[I]
    BY <1>1, <1>2, <1>3, FoldPlus
  <1> QED
    BY <1>1, <1>2, <1>3, <1>4, SumType

\* Parts with as many elements as f says at most, and apart from each other.
All(P, I) == UNION {P[i] : i \in I}
Covers(I, P, f) ==
  /\ IsFiniteSet(I) /\ f \in [I -> Nat]
  /\ \A i \in I : IsFiniteSet(P[i]) /\ Cardinality(P[i]) <= f[i]
Apart(I, P, f) ==
  \A i \in I : Cardinality(P[i]) = f[i] /\ \A j \in I \ {i} : P[i] \cap P[j] = {}

\* A union has at most as many elements as the sum of its parts, and as many
\* when no two of them meet.
LEMMA UnionCount ==
  ASSUME NEW I, NEW P, NEW f, Covers(I, P, f)
  PROVE  /\ IsFiniteSet(All(P, I)) /\ Cardinality(All(P, I)) \in Nat
         /\ Cardinality(All(P, I)) <= SumFunction(f)
         /\ Apart(I, P, f) => Cardinality(All(P, I)) = SumFunction(f)
  <1>0. /\ IsFiniteSet(I) /\ f \in [I -> Nat] /\ DOMAIN f = I
        /\ \A i \in I : IsFiniteSet(P[i]) /\ Cardinality(P[i]) <= f[i]
    BY DEF Covers
  <1>1. PICK g : IsFold(g, f, I) /\ SumFunction(f) = g[I]
    BY <1>0, SumFold
  <1> DEFINE Good(s) == /\ IsFiniteSet(All(P, s)) /\ Cardinality(All(P, s)) <= g[s]
                        /\ Apart(I, P, f) => Cardinality(All(P, s)) = g[s]
             Bad == {s \in SUBSET I : ~Good(s)}
  <1>2. \A s \in SUBSET I : g[s] = FoldAt(g, f, s)
    BY <1>1 DEF IsFold
  <1>3. ASSUME NEW s \in SUBSET I PROVE g[s] \in Int
    <2>1. IsFiniteSet(s) /\ Ints(f, s)
      BY <1>0, FS_Subset DEF Ints
    <2> HIDE DEF Bad, Good
    <2> QED
      BY <1>1, <2>1, FoldTyped
  <1>4. {} \notin Bad
    <2>1. All(P, {}) = {} /\ {} \in SUBSET I /\ g[{}] = 0
      BY <1>2 DEF FoldAt, All
    <2> QED
      BY <2>1, FS_EmptySet
  <1>5. ASSUME NEW s \in Bad PROVE \E x \in s : s \ {x} \in Bad
    <2> DEFINE p == Pick(s)
               u == s \ {p}
    <2>1. s # {} /\ p \in s /\ p \in I /\ u \in SUBSET I
      BY <1>4, <1>5 DEF Pick
    <2>2. g[s] = f[p] + g[u] /\ f[p] \in Nat /\ g[u] \in Int
      BY <1>0, <1>2, <1>3, <2>1 DEF FoldAt
    <2>3. ~Good(s)
      BY <1>5
    <2>4. s = u \cup {p} /\ p \notin u
      BY <2>1
    <2> HIDE DEF p, u
    <2>5. All(P, s) = All(P, u) \cup P[p]
      BY <2>4 DEF All
    <2>6. Apart(I, P, f) => All(P, u) \cap P[p] = {} /\ Cardinality(P[p]) = f[p]
      BY <2>1, <2>4 DEF Apart, All
    <2>7. IsFiniteSet(P[p]) /\ Cardinality(P[p]) <= f[p] /\ Cardinality(P[p]) \in Nat
      BY <1>0, <2>1, FS_CardinalityType
    <2>8. ASSUME Good(u) PROVE FALSE
      <3> DEFINE a == All(P, u)
                 b == P[p]
      <3>1. IsFiniteSet(a) /\ Cardinality(a) <= g[u] /\ (Apart(I, P, f) => Cardinality(a) = g[u])
        BY <2>8
      <3>2. All(P, s) = a \cup b /\ IsFiniteSet(b) /\ Cardinality(b) <= f[p] /\ Cardinality(b) \in Nat
        BY <2>5, <2>7
      <3>3. Apart(I, P, f) => a \cap b = {} /\ Cardinality(b) = f[p]
        BY <2>6
      <3> HIDE DEF a, b
      <3>4. /\ IsFiniteSet(a \cup b) /\ IsFiniteSet(a \cap b)
            /\ Cardinality(a \cup b) = Cardinality(a) + Cardinality(b) - Cardinality(a \cap b)
        BY <3>1, <3>2, FS_Union, FS_Intersection
      <3>5. Cardinality(a) \in Nat /\ Cardinality(a \cap b) \in Nat /\ (Apart(I, P, f) => Cardinality(a \cap b) = 0)
        BY <3>1, <3>3, <3>4, FS_CardinalityType, FS_EmptySet
      <3>6. /\ Cardinality(a \cup b) <= g[s]
            /\ Apart(I, P, f) => Cardinality(a \cup b) = g[s]
        BY <2>2, <3>1, <3>2, <3>3, <3>4, <3>5
      <3> QED
        BY <2>3, <3>2, <3>4, <3>6
    <2> QED
      BY <2>1, <2>8 DEF u
  <1>6. Bad \in SUBSET SUBSET I
    OBVIOUS
  <1>7. I \in Bad \/ Good(I)
    OBVIOUS
  <1> HIDE DEF Bad
  <1>8. Good(I)
    BY <1>0, <1>4, <1>5, <1>6, <1>7, SetInduction
  <1> QED
    BY <1>1, <1>8, FS_CardinalityType

(***************************************************************************)
(* Types.  The ids of a sale's lines are of the batches it has had, and    *)
(* nothing was returned of a line of a later one; a sale that was not made *)
(* has no updates and no returns; a decision is about a draft that is      *)
(* there.                                                                  *)
(***************************************************************************)
SaleMade(row) ==
  /\ \A n \in DOMAIN row.lines : n[1] <= row.gen
  /\ \A n \in LineIds : n[1] > row.gen => row.returned[n] = 0
  /\ row.status = "none" => row.gen = 0 /\ row.returned = Zero

SaleOps == {"update", "cancel", "checkout", "refund", "exchange"}

Made ==
  /\ \A s \in Sales : SaleMade(sales[s])
  /\ \A d \in Drafts : drafts[d].status # "none" => sales[drafts[d].sale].status # "none"
  /\ \A r \in Requests :
       /\ req[r].op \in SaleOps => sales[req[r].sale].status # "none"
       /\ req[r].op \in {"refund", "exchange"} => DOMAIN req[r].back = DOMAIN req[r].lines
       /\ req[r].op \in {"complete", "void"} => drafts[req[r].draft].status # "none"

TInv == TypeOK /\ Made

\* The kind of a request tells its record.
LEMMA KindOf ==
  ASSUME NEW q \in Kinds
  PROVE  /\ q.op = "update" => q \in Updating
         /\ q.op = "cancel" => q \in Canceling
         /\ q.op = "checkout" => q \in Paying
         /\ q.op \in {"refund", "exchange"} => q \in Returning
         /\ q.op \in {"complete", "void"} => q \in Deciding
         /\ q.op = "expire" => q \in Expiring
         /\ q.op \in SaleOps => q.sale \in Sales
  BY DEF Kinds, Idle, Done, Updating, Canceling, Paying, Returning, Deciding, Expiring, SaleOps

LEMMA ReqKind ==
  ASSUME TInv, NEW r \in Requests
  PROVE  req[r] \in Kinds
  BY DEF TInv, TypeOK

LEMMA DraftOf ==
  ASSUME TInv, NEW d \in Drafts, drafts[d].status # "none"
  PROVE  /\ drafts[d] \in DraftRows /\ drafts[d].sale \in Sales /\ drafts[d].back \in Backs
         /\ drafts[d].seen \in Counts /\ sales[drafts[d].sale].status # "none"
  BY DEF TInv, TypeOK, Made, NoDraft, DraftRows

LEMMA Bounds == MaxLines \in Nat /\ MaxQty \in Nat /\ MaxBack \in Nat /\ MaxUpdates \in Nat
  BY MaxAssumption

LEMMA LineIdTypes ==
  /\ IsFiniteSet(LineIds) /\ \A n \in LineIds : n[1] \in 0..MaxUpdates
  /\ \A D \in SUBSET LineIds : IsFiniteSet(D)
  /\ Zero \in Counts /\ \A n \in LineIds : Zero[n] = 0
  /\ 0 \in 0..MaxUpdates /\ \A c \in Counts, n \in LineIds : c[n] \in Nat
  <1>1. IsFiniteSet(LineIds)
    <2>1. IsFiniteSet(0..MaxUpdates) /\ IsFiniteSet(1..MaxLines)
      BY Bounds, FS_Interval
    <2> QED
      BY <2>1, FS_Product DEF LineIds
  <1>2. \A D \in SUBSET LineIds : IsFiniteSet(D)
    BY <1>1, FS_Subset
  <1>3. \A n \in LineIds : n[1] \in 0..MaxUpdates
    BY DEF LineIds
  <1>4. Zero \in Counts /\ \A n \in LineIds : Zero[n] = 0
    BY DEF Zero, Counts
  <1>5. \A c \in Counts, n \in LineIds : c[n] \in Nat
    BY DEF Counts
  <1> QED
    BY <1>1, <1>2, <1>3, <1>4, <1>5, Bounds

LEMMA LineTypes ==
  ASSUME NEW l \in Lines
  PROVE  /\ DOMAIN l \in SUBSET LineIds /\ IsFiniteSet(DOMAIN l)
         /\ \A n \in DOMAIN l : /\ n \in LineIds /\ l[n] \in Line /\ l[n].qty \in Nat
                                /\ l[n].epc # NoTag => l[n].epc \in Items /\ l[n].qty = 1
         /\ Due(l) \in Nat
  <1>1. DOMAIN l \in SUBSET LineIds /\ \A n \in DOMAIN l : l[n] \in Line
    BY DEF Lines
  <1>2. \A x \in Line : x.qty \in Nat /\ (x.epc # NoTag => x.epc \in Items /\ x.qty = 1)
    <2> TAKE x \in Line
    <2>1. x.epc \in Tags \cup {NoTag} /\ x.qty \in 1..MaxQty /\ (x.epc # NoTag => x.qty = 1)
      BY DEF Line
    <2>2. x.qty \in Nat
      BY ONLY <2>1, Bounds
    <2>3. x.epc # NoTag => x.epc \in Items
      BY ONLY <2>1, ItemsAssumption
    <2> QED
      BY <2>1, <2>2, <2>3
  <1>3. IsFiniteSet(DOMAIN l)
    BY <1>1, LineIdTypes
  <1>4. Due(l) \in Nat
    BY <1>1, <1>2, <1>3, SumNat DEF Due
  <1> QED
    BY <1>1, <1>2, <1>3, <1>4

LEMMA BackTypes ==
  ASSUME NEW c \in Backs
  PROVE  /\ DOMAIN c \in SUBSET LineIds /\ IsFiniteSet(DOMAIN c) /\ Named(c) \subseteq DOMAIN c
         /\ \A n \in DOMAIN c : /\ c[n].most \in Nat /\ c[n].all \in Nat /\ c[n].most <= c[n].all
                                /\ n \notin Named(c) => c[n].most = 0 /\ c[n].all = 0
         /\ Units(c) \in Nat
  <1>1. DOMAIN c \in SUBSET LineIds /\ \A n \in DOMAIN c : c[n] \in Entries
    BY DEF Backs
  <1>2. \A e \in Entries : /\ e.most \in Nat /\ e.all \in Nat /\ e.most <= e.all
                           /\ ~ (e.most > 0) => e.most = 0 /\ e.all = 0
    BY Bounds DEF Entries
  <1>3. IsFiniteSet(DOMAIN c)
    BY <1>1, LineIdTypes
  <1>4. Units(c) \in Nat
    BY <1>1, <1>2, <1>3, SumNat DEF Units
  <1> QED
    BY <1>1, <1>2, <1>3, <1>4 DEF Named

LEMMA RowTypes ==
  ASSUME NEW row \in SaleRows
  PROVE  /\ row.lines \in Lines /\ row.gen \in 0..MaxUpdates /\ row.gen \in Nat
         /\ row.returned \in Counts /\ row.taken \in Int
         /\ \A n \in DOMAIN row.lines : n \in LineIds /\ row.returned[n] \in Nat
  <1>1. /\ row.lines \in Lines /\ row.gen \in 0..MaxUpdates /\ row.returned \in Counts
        /\ row.taken \in -1..MaxUpdates
    BY DEF SaleRows
  <1> QED
    BY <1>1, LineTypes, LineIdTypes, Bounds

LEMMA SaleTypes ==
  ASSUME TInv, NEW s \in Sales
  PROVE  sales[s] \in SaleRows /\ SaleMade(sales[s])
  BY DEF TInv, TypeOK, Made

\* The lines of a request, as a batch and with those that a DELETE left.
LEMMA BatchTypes ==
  ASSUME NEW l \in Payloads, NEW g \in 0..MaxUpdates
  PROVE  /\ Batch(g, l) \in Lines /\ \A n \in DOMAIN Batch(g, l) : n[1] = g
         /\ \A old \in Lines : \A u : (\A n \in DOMAIN old : n[1] < g) =>
              /\ Replaced(old, u, g, l) \in Lines
              /\ \A n \in DOMAIN Replaced(old, u, g, l) :
                   n[1] = g \/ (n \in DOMAIN old /\ Replaced(old, u, g, l)[n] = old[n])
  <1>1. l \in Seq(Line) /\ DOMAIN l \subseteq 1..MaxLines
    BY PayloadsAssumption, Bounds
  <1>2. \A i \in DOMAIN l : l[i] \in Line
    BY <1>1
  <1> DEFINE B == {g} \X DOMAIN l
  <1>3. B \in SUBSET LineIds /\ \A n \in B : n[1] = g /\ n[2] \in DOMAIN l
    BY <1>1 DEF LineIds
  <1>4. Batch(g, l) = [n \in B |-> l[n[2]]]
    BY DEF Batch
  <1> HIDE DEF B
  <1>5. Batch(g, l) \in [B -> Line]
    BY <1>2, <1>3, <1>4
  <1>6. ASSUME NEW old \in Lines, NEW u, \A n \in DOMAIN old : n[1] < g
        PROVE  /\ Replaced(old, u, g, l) \in Lines
               /\ \A n \in DOMAIN Replaced(old, u, g, l) :
                    n[1] = g \/ (n \in DOMAIN old /\ Replaced(old, u, g, l)[n] = old[n])
    <2> DEFINE A == {m \in DOMAIN old : m[1] > u}
               new == [n \in A \cup B |-> IF n[1] = g THEN l[n[2]] ELSE old[n]]
    <2>1. Replaced(old, u, g, l) = new
      BY DEF Replaced, B
    <2>2. A \in SUBSET LineIds /\ A \subseteq DOMAIN old /\ \A n \in A : n[1] # g /\ old[n] \in Line
      BY <1>6, LineTypes, LineIdTypes
    <2> HIDE DEF A
    <2>3. new \in [A \cup B -> Line] /\ A \cup B \in SUBSET LineIds
      BY <1>2, <1>3, <2>2
    <2>4. \A n \in A \cup B : n[1] = g \/ (n \in DOMAIN old /\ new[n] = old[n])
      BY <1>3, <2>2
    <2> HIDE DEF new
    <2>5. new \in Lines /\ DOMAIN new = A \cup B
      BY <2>3 DEF Lines
    <2> QED
      BY <2>1, <2>4, <2>5
  <1> QED
    BY <1>3, <1>5, <1>6 DEF Lines

LEMMA ReturnableType ==
  ASSUME TInv, NEW s \in Sales, NEW c \in Returnable(s)
  PROVE  c \in Backs /\ DOMAIN c = DOMAIN sales[s].lines
  <1>1. c \in [DOMAIN sales[s].lines -> Entries]
    BY DEF Returnable
  <1>2. DOMAIN sales[s].lines \in SUBSET LineIds
    BY SaleTypes, RowTypes, LineTypes
  <1> QED
    BY <1>1, <1>2 DEF Backs

\* The row of a sale after a return is committed.
LEMMA RecordType ==
  ASSUME TInv, NEW s \in Sales, NEW c \in Backs, NEW seen \in Counts
  PROVE  LET new == Record(s, c, seen)
             there == Named(c) \cap DOMAIN sales[s].lines
         IN  /\ new \in SaleRows /\ new.status = sales[s].status /\ new.lines = sales[s].lines
             /\ new.gen = sales[s].gen /\ new.taken = sales[s].taken
             /\ \A n \in LineIds : new.returned[n] = sales[s].returned[n] + (IF n \in there THEN c[n].all ELSE 0)
             /\ sales[s].raced => new.raced
             /\ ~new.raced => \A n \in there : sales[s].returned[n] = seen[n] /\ ~ (c[n].all > c[n].most)
  <1> DEFINE row == sales[s]
             there == Named(c) \cap DOMAIN row.lines
             ret == [n \in LineIds |-> IF n \in there THEN row.returned[n] + c[n].all ELSE row.returned[n]]
             bad == \E n \in there : row.returned[n] # seen[n] \/ c[n].all > c[n].most
  <1>1. row \in SaleRows /\ \A n \in LineIds : row.returned[n] \in Nat
    BY SaleTypes, RowTypes, LineIdTypes
  <1>2. \A n \in there : c[n].all \in Nat
    BY BackTypes
  <1>3. Record(s, c, seen) = [row EXCEPT !.returned = ret, !.raced = row.raced \/ bad]
    BY DEF Record
  <1> HIDE DEF there, row
  <1>4. ret \in Counts /\ \A n \in LineIds : ret[n] = row.returned[n] + (IF n \in there THEN c[n].all ELSE 0)
    BY <1>1, <1>2 DEF Counts
  <1>r. row.raced \in BOOLEAN
    BY <1>1 DEF SaleRows
  <1> HIDE DEF ret
  <1> DEFINE b == row.raced \/ bad
  <1>5. b \in BOOLEAN /\ (row.raced => b) /\ (~b => \A n \in there : row.returned[n] = seen[n] /\ ~ (c[n].all > c[n].most))
    OBVIOUS
  <1>6. Record(s, c, seen) = [row EXCEPT !.returned = ret, !.raced = b]
    BY <1>3
  <1> HIDE DEF b, bad
  <1> DEFINE new == [row EXCEPT !.returned = ret, !.raced = b]
  <1>7. /\ new \in SaleRows /\ new.status = row.status /\ new.lines = row.lines
        /\ new.gen = row.gen /\ new.taken = row.taken /\ new.returned = ret /\ new.raced = b
    BY <1>1, <1>4, <1>5 DEF SaleRows
  <1> HIDE DEF new
  <1> QED
    BY <1>4, <1>5, <1>6, <1>7 DEF new, row, there

(***************************************************************************)
(* Reads: what a request keeps is what the tables hold at that moment.     *)
(***************************************************************************)
Current(q) ==
  /\ q \in Kinds
  /\ q.op \in SaleOps => sales[q.sale].status # "none"
  /\ q.op = "checkout" => sales[q.sale].status = "DRAFT" /\ q.gen = sales[q.sale].gen
  /\ q.op \in {"checkout", "refund", "exchange"} => q.lines = sales[q.sale].lines
  /\ q.op \in {"refund", "exchange"} =>
       /\ q.seen = sales[q.sale].returned /\ q.back \in Returnable(q.sale)
       /\ sales[q.sale].status = "PAID"
  /\ q.op \in {"complete", "void"} => drafts[q.draft].status # "none"

ReadStep(r, q) ==
  /\ UNCHANGED <<sales, stock, payments, advances, drafts>>
  /\ req' = [req EXCEPT ![r] = q] /\ Current(q)

AnyRead(r) ==
  \/ \E s \in Sales, l \in Payloads : UpdateRead(r, s, l)
  \/ \E s \in Sales : CancelRead(r, s) \/ RefundRead(r, s) \/ ExchangeRead(r, s)
  \/ \E s \in Sales, a \in Advances \cup {NoAdvance} : CheckoutRead(r, s, a)
  \/ \E op \in {"complete", "void"}, d \in Drafts : DraftRead(r, op, d)
  \/ \E a \in Advances : ExpireRead(r, a)

LEMMA ReadIsCurrent ==
  ASSUME TInv, NEW r \in Requests, AnyRead(r)
  PROVE  \E q : ReadStep(r, q)
  <1>t. \A s \in Sales : /\ sales[s].lines \in Lines /\ sales[s].gen \in 0..MaxUpdates
                         /\ sales[s].returned \in Counts
    BY SaleTypes, RowTypes
  <1>1. ASSUME NEW s \in Sales, NEW l \in Payloads, UpdateRead(r, s, l) PROVE \E q : ReadStep(r, q)
    <2> DEFINE q == [op |-> "update", sale |-> s, lines |-> l, gen |-> sales[s].gen]
    <2>1. q \in Kinds /\ q.op = "update" /\ q.sale = s
      BY <1>t DEF Kinds, Updating
    <2>2. Current(q)
      BY <1>1, <2>1 DEF Current, UpdateRead
    <2> QED
      BY <1>1, <2>2 DEF ReadStep, UpdateRead
  <1>2. ASSUME NEW s \in Sales, CancelRead(r, s) PROVE \E q : ReadStep(r, q)
    <2> DEFINE q == [op |-> "cancel", sale |-> s]
    <2>1. q \in Kinds /\ q.op = "cancel" /\ q.sale = s
      BY DEF Kinds, Canceling
    <2>2. Current(q)
      BY <1>2, <2>1 DEF Current, CancelRead
    <2> QED
      BY <1>2, <2>2 DEF ReadStep, CancelRead
  <1>3. ASSUME NEW s \in Sales, NEW a \in Advances \cup {NoAdvance}, CheckoutRead(r, s, a)
        PROVE  \E q : ReadStep(r, q)
    <2> DEFINE q == [op |-> "checkout", sale |-> s, lines |-> sales[s].lines,
                     gen |-> sales[s].gen, advance |-> a]
    <2>1. sales[s].status = "DRAFT"
      BY <1>3 DEF CheckoutRead
    <2>2. q \in Kinds
      BY <1>t, <2>1 DEF Kinds, Paying
    <2>3. Current(q)
      BY <2>1, <2>2 DEF Current
    <2> QED
      BY <1>3, <2>3 DEF ReadStep, CheckoutRead
  <1>4. ASSUME NEW s \in Sales, NEW op \in {"refund", "exchange"}, ReturnRead(r, op, s)
        PROVE  \E q : ReadStep(r, q)
    <2>0. PICK c \in Returnable(s) :
            req' = [req EXCEPT ![r] = [op |-> op, sale |-> s, lines |-> sales[s].lines,
                                       back |-> c, seen |-> sales[s].returned]]
      BY <1>4 DEF ReturnRead
    <2> DEFINE q == [op |-> op, sale |-> s, lines |-> sales[s].lines,
                     back |-> c, seen |-> sales[s].returned]
    <2>1. sales[s].status = "PAID" /\ c \in Backs
      BY <1>4, ReturnableType DEF ReturnRead
    <2>2. q \in Kinds
      BY <1>t, <2>1 DEF Kinds, Returning
    <2>3. Current(q)
      BY <2>1, <2>2 DEF Current
    <2> QED
      BY <1>4, <2>0, <2>3 DEF ReadStep, ReturnRead
  <1>5. ASSUME NEW op \in {"complete", "void"}, NEW d \in Drafts, DraftRead(r, op, d)
        PROVE  \E q : ReadStep(r, q)
    <2> DEFINE q == [op |-> op, draft |-> d]
    <2>1. q \in Kinds /\ q.op = op /\ q.draft = d
      BY DEF Kinds, Deciding
    <2>2. Current(q)
      BY <1>5, <2>1 DEF Current, DraftRead, SaleOps
    <2> QED
      BY <1>5, <2>2 DEF ReadStep, DraftRead
  <1>6. ASSUME NEW a \in Advances, ExpireRead(r, a) PROVE \E q : ReadStep(r, q)
    <2> DEFINE q == [op |-> "expire", advance |-> a]
    <2>1. q \in Kinds /\ q.op = "expire"
      BY DEF Kinds, Expiring
    <2>2. Current(q)
      BY <2>1 DEF Current, SaleOps
    <2> QED
      BY <1>6, <2>2 DEF ReadStep, ExpireRead
  <1> QED
    BY <1>1, <1>2, <1>3, <1>4, <1>5, <1>6 DEF AnyRead, RefundRead, ExchangeRead

(***************************************************************************)
(* The steps that change the tables, by what they do to sales.             *)
(***************************************************************************)
AnyDraftStep ==
  \/ \E d \in Drafts, s \in Sales : CreateDraft(d, s)
  \/ \E r \in Requests : VoidCommit(r) \/ CompleteCommit(r)

AnyAdvanceStep ==
  \/ \E a \in Advances : \/ Issue(a) \/ Lapse(a)
                         \/ \E x \in {"REFUNDED", "CONSUMED", "EXPIRED"} : MutateAdvance(a, x)
  \/ Sweep
  \/ \E r \in Requests : ExpireCommit(r)

Exchanging(r, n, l) == \E given \in [Advances -> 0..MaxQty] : ExchangeCommit(r, n, l, given)

AnySaleStep ==
  \/ \E s \in Sales, l \in Payloads : CreateSale(s, l) \/ \E r \in Requests : Exchanging(r, s, l)
  \/ \E r \in Requests, u \in 0..MaxUpdates : UpdateCommit(r, u)
  \/ \E r \in Requests : CancelCommit(r) \/ CheckoutCommit(r) \/ RefundCommit(r)

LEMMA NextCases ==
  ASSUME Next
  PROVE  \/ \E r \in Requests : AnyRead(r) \/ Drop(r)
         \/ AnyDraftStep \/ AnyAdvanceStep \/ AnySaleStep
  BY DEF Next, AnyRead, AnyDraftStep, AnyAdvanceStep, AnySaleStep, Exchanging

\* A step that keeps types, makes no sale or draft unmade, and moves every
\* request on by a read, to its end, or not at all.
Types ==
  /\ sales' \in [Sales -> SaleRows] /\ stock' \in [Items -> StockRows]
  /\ payments' \in Seq(Payments) /\ advances' \in [Advances -> AdvanceRows]
  /\ drafts' \in [Drafts -> DraftRows \cup {NoDraft}] /\ req' \in [Requests -> Kinds]

SalesStay ==
  \A s \in Sales : /\ sales[s].status # "none" => sales'[s].status # "none"
                   /\ SaleMade(sales'[s])

DraftsStay ==
  \A d \in Drafts :
    /\ drafts[d].status # "none" => drafts'[d].status # "none"
    /\ drafts'[d].status # "none" => sales[drafts'[d].sale].status # "none" /\ drafts'[d].sale \in Sales

Moves == \A r \in Requests : req'[r] = req[r] \/ req'[r] = Done \/ Current(req'[r])

LEMMA StayTInv ==
  ASSUME TInv, Types, SalesStay, DraftsStay, Moves
  PROVE  TInv'
  <1>1. TypeOK'
    BY DEF Types, TypeOK
  <1>2. \A d \in Drafts : drafts'[d].status # "none" => sales'[drafts'[d].sale].status # "none"
    BY DEF DraftsStay, SalesStay
  <1>3. ASSUME NEW r \in Requests
        PROVE  /\ req'[r].op \in SaleOps => sales'[req'[r].sale].status # "none"
               /\ req'[r].op \in {"refund", "exchange"} => DOMAIN req'[r].back = DOMAIN req'[r].lines
               /\ req'[r].op \in {"complete", "void"} => drafts'[req'[r].draft].status # "none"
    <2>0. req'[r] \in Kinds
      BY DEF Types
    <2>1. CASE req'[r] = Done
      BY <2>1 DEF Done, SaleOps
    <2>2. ASSUME req'[r].op \in SaleOps, req'[r] # Done PROVE sales'[req'[r].sale].status # "none"
      <3>1. sales[req'[r].sale].status # "none"
        BY <2>2 DEF Moves, Current, TInv, Made, SaleOps
      <3>2. req'[r].sale \in Sales
        BY <2>0, <2>2, KindOf
      <3> QED
        BY <3>1, <3>2 DEF SalesStay
    <2>3. ASSUME req'[r].op \in {"complete", "void"} PROVE drafts'[req'[r].draft].status # "none"
      <3>1. drafts[req'[r].draft].status # "none"
        BY <2>3 DEF Moves, Current, TInv, Made, Done
      <3>2. req'[r].draft \in Drafts
        BY <2>0, <2>3, KindOf DEF Deciding
      <3> QED
        BY <3>1, <3>2 DEF DraftsStay
    <2>4. ASSUME req'[r].op \in {"refund", "exchange"}, req'[r] # Done
          PROVE  DOMAIN req'[r].back = DOMAIN req'[r].lines
      <3>1. CASE req'[r] = req[r]
        BY <2>4, <3>1 DEF TInv, Made
      <3>2. CASE Current(req'[r])
        <4>1. req'[r].sale \in Sales
          BY <2>0, <2>4, KindOf DEF SaleOps
        <4>2. req'[r].back \in Returnable(req'[r].sale) /\ req'[r].lines = sales[req'[r].sale].lines
          BY <2>4, <3>2 DEF Current
        <4> QED
          BY <4>1, <4>2, ReturnableType
      <3> QED
        BY <2>4, <3>1, <3>2 DEF Moves
    <2> QED
      BY <2>1, <2>2, <2>3, <2>4
  <1>5. Made'
    BY <1>2, <1>3 DEF Made, SalesStay, SaleMade
  <1> QED
    BY <1>1, <1>5 DEF TInv

LEMMA FinishMoves ==
  ASSUME TInv, NEW r \in Requests, Finish(r)
  PROVE  /\ Moves /\ req' \in [Requests -> Kinds] /\ req'[r] = Done
         /\ \A t \in Requests \ {r} : req'[t] = req[t]
  BY DEF TInv, TypeOK, Finish, Moves, Kinds

\* What stays when nothing happens to it.
LEMMA Stays ==
  ASSUME TInv
  PROVE  /\ UNCHANGED sales => SalesStay /\ sales' \in [Sales -> SaleRows]
         /\ UNCHANGED drafts => DraftsStay /\ drafts' \in [Drafts -> DraftRows \cup {NoDraft}]
         /\ UNCHANGED req => Moves /\ req' \in [Requests -> Kinds]
         /\ UNCHANGED stock => stock' \in [Items -> StockRows]
         /\ UNCHANGED payments => payments' \in Seq(Payments)
         /\ UNCHANGED advances => advances' \in [Advances -> AdvanceRows]
  <1>1. UNCHANGED drafts => DraftsStay
    BY DraftOf DEF DraftsStay
  <1> QED
    BY <1>1 DEF TInv, TypeOK, Made, SalesStay, Moves

LEMMA ReadTInv ==
  ASSUME TInv, NEW r \in Requests, NEW q, ReadStep(r, q)
  PROVE  TInv'
  <1>1. Moves /\ req' \in [Requests -> Kinds]
    BY DEF TInv, TypeOK, ReadStep, Current, Moves
  <1> QED
    BY <1>1, Stays, StayTInv DEF ReadStep, Types

LEMMA AdvanceTInv ==
  ASSUME TInv, AnyAdvanceStep
  PROVE  TInv'
  <1>1. advances' \in [Advances -> AdvanceRows]
    <2>1. advances \in [Advances -> AdvanceRows]
      BY DEF TInv, TypeOK
    <2>2. ASSUME NEW a \in Advances, NEW x \in {"REFUNDED", "CONSUMED", "EXPIRED"}, MutateAdvance(a, x)
          PROVE  advances' \in [Advances -> AdvanceRows]
      <3>1. advances' = [advances EXCEPT ![a].status = x,
                                         ![a].spent = @ + (IF x = "EXPIRED" THEN 0 ELSE 1)]
        BY <2>2 DEF MutateAdvance
      <3>2. advances[a] \in AdvanceRows
        BY <2>1
      <3>3. PICK n \in Nat : n = advances[a].spent + (IF x = "EXPIRED" THEN 0 ELSE 1)
        BY <3>2 DEF AdvanceRows
      <3>4. advances' = [advances EXCEPT ![a] = [advances[a] EXCEPT !.status = x, !.spent = n]]
        BY <2>1, <3>1, <3>3
      <3>5. [advances[a] EXCEPT !.status = x, !.spent = n] \in AdvanceRows
        BY <3>2 DEF AdvanceRows
      <3> QED
        BY <2>1, <3>4, <3>5
    <2>3. ASSUME NEW a \in Advances, Issue(a) \/ Lapse(a) PROVE advances' \in [Advances -> AdvanceRows]
      <3>1. \A row \in AdvanceRows : /\ [row EXCEPT !.status = "ACTIVE"] \in AdvanceRows
                                     /\ [row EXCEPT !.lapsed = TRUE] \in AdvanceRows
        BY DEF AdvanceRows
      <3>2. \/ advances' = [advances EXCEPT ![a] = [advances[a] EXCEPT !.status = "ACTIVE"]]
            \/ advances' = [advances EXCEPT ![a] = [advances[a] EXCEPT !.lapsed = TRUE]]
        BY <2>1, <2>3 DEF Issue, Lapse
      <3> QED
        BY <2>1, <3>1, <3>2
    <2>4. ASSUME Sweep PROVE advances' \in [Advances -> AdvanceRows]
      BY <2>1, <2>4 DEF AdvanceRows, Sweep
    <2>5. ASSUME NEW r \in Requests, ExpireCommit(r) PROVE advances' \in [Advances -> AdvanceRows]
      BY <2>1, <2>5 DEF AdvanceRows, ExpireCommit
    <2> QED
      BY <2>2, <2>3, <2>4, <2>5 DEF AnyAdvanceStep
  <1>2. UNCHANGED <<sales, stock, payments, drafts>>
    BY DEF AnyAdvanceStep, Issue, Lapse, MutateAdvance, Sweep, ExpireCommit
  <1>3. Moves /\ req' \in [Requests -> Kinds]
    BY FinishMoves, Stays DEF AnyAdvanceStep, Issue, Lapse, MutateAdvance, Sweep, ExpireCommit
  <1> QED
    BY <1>1, <1>2, <1>3, Stays, StayTInv DEF Types

\* A draft that is decided keeps what it was quoted.
LEMMA DecidedDraft ==
  ASSUME TInv, NEW r \in Requests, NEW x \in {"VOIDED", "COMPLETED"},
         req[r].op \in {"complete", "void"},
         drafts' = [drafts EXCEPT ![req[r].draft].status = x]
  PROVE  LET d == req[r].draft
         IN  /\ d \in Drafts /\ drafts[d].status # "none" /\ drafts'[d] \in DraftRows
             /\ drafts'[d].sale = drafts[d].sale
             /\ drafts'[d].back = drafts[d].back /\ drafts'[d].seen = drafts[d].seen
             /\ \A e \in Drafts \ {d} : drafts'[e] = drafts[e]
             /\ drafts' \in [Drafts -> DraftRows \cup {NoDraft}]
             /\ DraftsStay
  <1> DEFINE d == req[r].draft
  <1>1. d \in Drafts
    BY ReqKind, KindOf DEF Deciding
  <1>2. drafts[d].status # "none"
    BY DEF TInv, Made
  <1>3. drafts[d] \in DraftRows /\ drafts[d].sale \in Sales /\ sales[drafts[d].sale].status # "none"
    BY <1>1, <1>2, DraftOf
  <1> HIDE DEF d
  <1>4. drafts \in [Drafts -> DraftRows \cup {NoDraft}] /\ drafts' = [drafts EXCEPT ![d].status = x]
    BY DEF TInv, TypeOK, d
  <1>5. /\ drafts'[d] \in DraftRows
        /\ drafts'[d].sale = drafts[d].sale
        /\ drafts'[d].back = drafts[d].back /\ drafts'[d].seen = drafts[d].seen
    BY <1>1, <1>3, <1>4 DEF DraftRows
  <1>6. \A e \in Drafts \ {d} : drafts'[e] = drafts[e]
    BY <1>1, <1>4
  <1>7. drafts' \in [Drafts -> DraftRows \cup {NoDraft}]
    BY <1>1, <1>3, <1>4, <1>5
  <1>10. ASSUME NEW e \in Drafts
         PROVE  /\ drafts[e].status # "none" => drafts'[e].status # "none"
                /\ drafts'[e].status # "none" =>
                     sales[drafts'[e].sale].status # "none" /\ drafts'[e].sale \in Sales
    <2>1. CASE e = d
      BY <1>3, <1>5, <2>1 DEF DraftRows
    <2>2. CASE e # d
      BY <1>6, <2>2, DraftOf
    <2> QED
      BY <2>1, <2>2
  <1> QED
    BY <1>1, <1>2, <1>5, <1>6, <1>7, <1>10 DEF d, DraftsStay

\* A return that is recorded changes one sale, and only what was returned of it.
LEMMA RecordStays ==
  ASSUME TInv, NEW s \in Sales, NEW c \in Backs, NEW seen \in Counts, sales[s].status # "none"
  PROVE  Record(s, c, seen) \in SaleRows /\ SaleMade(Record(s, c, seen))
  <1> DEFINE new == Record(s, c, seen)
  <1>1. /\ new \in SaleRows /\ new.status = sales[s].status /\ new.lines = sales[s].lines
        /\ new.gen = sales[s].gen
        /\ \A n \in LineIds \ DOMAIN sales[s].lines : new.returned[n] = sales[s].returned[n] + 0
    BY RecordType
  <1>2. SaleMade(sales[s]) /\ sales[s].gen \in Nat /\ \A n \in LineIds : n[1] \in Int
    BY SaleTypes, RowTypes, LineIdTypes
  <1> HIDE DEF new
  <1>3. ASSUME NEW n \in LineIds, n[1] > new.gen PROVE new.returned[n] = 0
    <2>1. n \notin DOMAIN sales[s].lines
      BY <1>1, <1>2, <1>3 DEF SaleMade
    <2> QED
      BY <1>1, <1>2, <1>3, <2>1 DEF SaleMade
  <1> QED
    BY <1>1, <1>2, <1>3 DEF SaleMade, new

LEMMA DraftTInv ==
  ASSUME TInv, AnyDraftStep
  PROVE  TInv'
  <1>1. ASSUME NEW d \in Drafts, NEW s \in Sales, CreateDraft(d, s)
        PROVE  TInv'
    <2>0. PICK c \in Quotes(s) :
            drafts' = [drafts EXCEPT ![d] = [status |-> "DRAFT", sale |-> s,
                                             back |-> c, seen |-> sales[s].returned]]
      BY <1>1 DEF CreateDraft
    <2> DEFINE new == [status |-> "DRAFT", sale |-> s, back |-> c, seen |-> sales[s].returned]
    <2>1. sales[s].returned \in Counts /\ c \in Backs /\ sales[s].status # "none"
      BY <2>0, SaleTypes, RowTypes, ReturnableType DEF Quotes
    <2>2. new \in DraftRows /\ new.sale = s
      BY <2>1 DEF DraftRows
    <2>3. drafts' = [drafts EXCEPT ![d] = new] /\ UNCHANGED <<sales, stock, payments, advances, req>>
      BY <1>1, <2>0 DEF CreateDraft
    <2> HIDE DEF new
    <2>4. drafts' \in [Drafts -> DraftRows \cup {NoDraft}]
      BY <2>2, <2>3 DEF TInv, TypeOK
    <2>5. DraftsStay
      <3>1. drafts'[d] = new /\ \A e \in Drafts \ {d} : drafts'[e] = drafts[e]
        BY <2>3 DEF TInv, TypeOK
      <3>2. \A e \in Drafts \ {d} : drafts'[e].status # "none" =>
              sales[drafts'[e].sale].status # "none" /\ drafts'[e].sale \in Sales
        BY <3>1, DraftOf
      <3> QED
        BY <2>1, <2>2, <3>1, <3>2 DEF DraftsStay, DraftRows
    <2> QED
      BY <2>3, <2>4, <2>5, Stays, StayTInv DEF Types
  <1>2. ASSUME NEW r \in Requests, VoidCommit(r) PROVE TInv'
    <2>1. DraftsStay /\ drafts' \in [Drafts -> DraftRows \cup {NoDraft}]
      BY <1>2, DecidedDraft DEF VoidCommit
    <2> QED
      BY <1>2, <2>1, FinishMoves, Stays, StayTInv DEF VoidCommit, Types
  <1>3. ASSUME NEW r \in Requests, CompleteCommit(r) PROVE TInv'
    <2> DEFINE d == drafts[req[r].draft]
    <2>1. /\ DraftsStay /\ drafts' \in [Drafts -> DraftRows \cup {NoDraft}]
          /\ req[r].draft \in Drafts /\ d.status # "none"
      BY <1>3, DecidedDraft DEF CompleteCommit
    <2>a. d.sale \in Sales /\ d.back \in Backs /\ d.seen \in Counts /\ sales[d.sale].status # "none"
      BY <2>1, DraftOf
    <2>2. sales' = [sales EXCEPT ![d.sale] = Record(d.sale, d.back, d.seen)]
      BY <1>3 DEF CompleteCommit
    <2> HIDE DEF d
    <2>3. Record(d.sale, d.back, d.seen) \in SaleRows /\ SaleMade(Record(d.sale, d.back, d.seen))
      BY <2>a, RecordStays
    <2>4. /\ sales' \in [Sales -> SaleRows] /\ sales'[d.sale] = Record(d.sale, d.back, d.seen)
          /\ \A t \in Sales \ {d.sale} : sales'[t] = sales[t]
      BY <2>a, <2>2, <2>3 DEF TInv, TypeOK
    <2>5. Record(d.sale, d.back, d.seen).status = sales[d.sale].status
      BY <2>a, RecordType
    <2>6. SalesStay
      BY <2>a, <2>3, <2>4, <2>5, SaleTypes DEF SalesStay
    <2> QED
      BY <1>3, <2>1, <2>4, <2>6, FinishMoves, Stays, StayTInv DEF CompleteCommit, Types
  <1> QED
    BY <1>1, <1>2, <1>3 DEF AnyDraftStep

LEMMA StockTypes ==
  ASSUME TInv
  PROVE  /\ \A l : \A keep \in BOOLEAN : Take(l, keep) \in [Items -> StockRows]
         /\ \A S : [i \in Items |-> IF i \in S THEN [stock[i] EXCEPT !.sold = FALSE] ELSE stock[i]]
                     \in [Items -> StockRows]
         /\ \A q, l : ExchangedStock(q, l) \in [Items -> StockRows]
  <1>1. stock \in [Items -> StockRows]
    BY DEF TInv, TypeOK
  <1>2. \A i \in Items, b \in BOOLEAN : [stock[i] EXCEPT !.sold = b] \in StockRows
    BY <1>1 DEF StockRows
  <1>3. \A b \in BOOLEAN : [sold |-> TRUE, epc |-> b] \in StockRows
    BY DEF StockRows
  <1>4. \A l : \A keep \in BOOLEAN : Take(l, keep) \in [Items -> StockRows]
    <2> SUFFICES ASSUME NEW l, NEW keep \in BOOLEAN PROVE Take(l, keep) \in [Items -> StockRows]
      OBVIOUS
    <2>1. \A i \in Items : (stock[i].epc /\ keep) \in BOOLEAN
      OBVIOUS
    <2> QED
      BY <1>1, <1>3, <2>1 DEF Take
  <1>5. \A S : [i \in Items |-> IF i \in S THEN [stock[i] EXCEPT !.sold = FALSE] ELSE stock[i]]
                 \in [Items -> StockRows]
    BY <1>1, <1>2
  <1>6. \A q, l : ExchangedStock(q, l) \in [Items -> StockRows]
    <2> SUFFICES ASSUME NEW q, NEW l PROVE ExchangedStock(q, l) \in [Items -> StockRows]
      OBVIOUS
    <2>1. Take(l, TRUE) \in [Items -> StockRows]
      BY <1>4
    <2> QED
      BY <1>2, <2>1 DEF ExchangedStock
  <1> QED
    BY <1>4, <1>5, <1>6

(***************************************************************************)
(* The steps as what they do to the rows of sales.                         *)
(***************************************************************************)
OnlySale(s) == sales' \in [Sales -> SaleRows] /\ \A t \in Sales \ {s} : sales'[t] = sales[t]

SameReturns(s) ==
  /\ sales'[s].gen = sales[s].gen /\ sales'[s].returned = sales[s].returned
  /\ sales'[s].raced = sales[s].raced

Creates(s, l) ==
  /\ s \in Sales /\ l \in Lines /\ OnlySale(s) /\ SameReturns(s)
  /\ \A n \in DOMAIN l : n[1] = 0
  /\ sales[s].status = "none" /\ sales'[s].status = "DRAFT" /\ sales'[s].lines = l

\* The lines that are there after an update were there, or are of its batch.
Updates(s) ==
  /\ s \in Sales /\ OnlySale(s)
  /\ sales[s].status # "none" /\ sales'[s].status = sales[s].status
  /\ sales'[s].gen = sales[s].gen + 1 /\ sales'[s].returned = sales[s].returned
  /\ sales'[s].raced = sales[s].raced
  /\ \A n \in DOMAIN sales'[s].lines :
       \/ n[1] = sales[s].gen + 1
       \/ n \in DOMAIN sales[s].lines /\ sales'[s].lines[n] = sales[s].lines[n]

Sets(s, x) ==
  /\ s \in Sales /\ OnlySale(s) /\ SameReturns(s)
  /\ sales[s].status # "none" /\ sales'[s].status = x /\ sales'[s].lines = sales[s].lines

\* The request or draft q returns its units.
Returns(q) ==
  /\ q.sale \in Sales /\ q.back \in Backs /\ q.seen \in Counts
  /\ sales[q.sale].status # "none" /\ sales'[q.sale] = Record(q.sale, q.back, q.seen)

Records(q) == Returns(q) /\ OnlySale(q.sale)

Exchanges(q, n, l) ==
  /\ Returns(q) /\ n \in Sales /\ l \in Lines /\ n # q.sale
  /\ \A i \in DOMAIN l : i[1] = 0
  /\ sales[n].status = "none"
  /\ sales' \in [Sales -> SaleRows] /\ \A t \in Sales \ {q.sale, n} : sales'[t] = sales[t]
  /\ SameReturns(n) /\ sales'[n].status = "PAID" /\ sales'[n].lines = l

\* The generation that the lines of a sale were taken in, after each step.
LEMMA SaleEffects ==
  ASSUME TInv
  PROVE  /\ \A s \in Sales, l \in Payloads : CreateSale(s, l) =>
              Creates(s, Batch(0, l)) /\ sales'[s].taken = sales[s].taken
         /\ \A r \in Requests :
              /\ \A u \in 0..MaxUpdates : UpdateCommit(r, u) =>
                   Updates(req[r].sale) /\ sales'[req[r].sale].taken = sales[req[r].sale].taken
              /\ CancelCommit(r) =>
                   Sets(req[r].sale, "CANCELED") /\ sales'[req[r].sale].taken = sales[req[r].sale].taken
              /\ CheckoutCommit(r) =>
                   Sets(req[r].sale, "PAID") /\ sales'[req[r].sale].taken = req[r].gen
              /\ RefundCommit(r) => Records(req[r])
              /\ CompleteCommit(r) => Records(drafts[req[r].draft])
              /\ \A n \in Sales, l \in Payloads : Exchanging(r, n, l) =>
                   Exchanges(req[r], n, Batch(0, l)) /\ sales'[n].taken = 0
  <1>s. sales \in [Sales -> SaleRows] /\ \A t \in Sales : sales[t].taken \in Int
    BY SaleTypes, RowTypes DEF TInv, TypeOK
  <1>b. \A l \in Payloads : Batch(0, l) \in Lines /\ \A n \in DOMAIN Batch(0, l) : n[1] = 0
    BY BatchTypes, LineIdTypes
  <1>1. ASSUME NEW s \in Sales, NEW l \in Payloads, CreateSale(s, l)
        PROVE  Creates(s, Batch(0, l)) /\ sales'[s].taken = sales[s].taken
    <2> DEFINE b == Batch(0, l)
               new == [sales[s] EXCEPT !.status = "DRAFT", !.lines = b]
    <2>1. sales' = [sales EXCEPT ![s] = new] /\ sales[s].status = "none"
      BY <1>1, <1>s DEF CreateSale
    <2>b. b \in Lines /\ \A n \in DOMAIN b : n[1] = 0
      BY <1>b
    <2> HIDE DEF b
    <2>2. /\ new \in SaleRows /\ new.status = "DRAFT" /\ new.lines = b /\ new.gen = sales[s].gen
          /\ new.returned = sales[s].returned /\ new.raced = sales[s].raced
          /\ new.taken = sales[s].taken
      BY <1>s, <2>b DEF SaleRows
    <2> HIDE DEF new
    <2>3. Creates(s, b) /\ sales'[s].taken = sales[s].taken
      BY <1>s, <2>b, <2>1, <2>2 DEF Creates, OnlySale, SameReturns
    <2> QED
      BY <2>3 DEF b
  <1>2. ASSUME NEW r \in Requests, NEW u \in 0..MaxUpdates, UpdateCommit(r, u)
        PROVE  Updates(req[r].sale) /\ sales'[req[r].sale].taken = sales[req[r].sale].taken
    <2> DEFINE q == req[r]
               s == q.sale
               g == sales[s].gen + 1
               b == Replaced(sales[s].lines, u, g, q.lines)
               new == [sales[s] EXCEPT !.lines = b, !.gen = g]
    <2>1. /\ s \in Sales /\ q.lines \in Payloads /\ sales[s].status # "none"
          /\ sales[s].gen < MaxUpdates
      BY <1>2, ReqKind, KindOf DEF UpdateCommit, TInv, Made, Updating, SaleOps
    <2>2. sales' = [sales EXCEPT ![s] = new]
      BY <1>2, <1>s, <2>1 DEF UpdateCommit
    <2> HIDE DEF s
    <2>3. sales[s] \in SaleRows /\ sales[s].gen \in Nat /\ sales[s].lines \in Lines /\ SaleMade(sales[s])
      BY <2>1, SaleTypes, RowTypes
    <2>4. /\ g \in 0..MaxUpdates /\ u \in 0..MaxUpdates
          /\ \A n \in DOMAIN sales[s].lines : n[1] < g
      <3>1. \A n \in DOMAIN sales[s].lines : n[1] <= sales[s].gen /\ n[1] \in Int
        BY <2>3, LineTypes, LineIdTypes DEF SaleMade
      <3> QED
        BY <2>1, <2>3, <3>1, Bounds
    <2>5. /\ b \in Lines
          /\ \A n \in DOMAIN b : n[1] = g \/ (n \in DOMAIN sales[s].lines /\ b[n] = sales[s].lines[n])
      BY <2>1, <2>3, <2>4, BatchTypes
    <2> HIDE DEF b, g
    <2>6. /\ new \in SaleRows /\ new.status = sales[s].status /\ new.lines = b
          /\ new.gen = g /\ new.returned = sales[s].returned /\ new.raced = sales[s].raced
          /\ new.taken = sales[s].taken
      BY <2>3, <2>4, <2>5 DEF SaleRows
    <2> HIDE DEF new
    <2>7. Updates(s) /\ sales'[s].taken = sales[s].taken
      BY <1>s, <2>1, <2>2, <2>5, <2>6 DEF Updates, OnlySale, g
    <2> QED
      BY <2>7 DEF s
  <1>3. ASSUME NEW r \in Requests, CancelCommit(r)
        PROVE  Sets(req[r].sale, "CANCELED") /\ sales'[req[r].sale].taken = sales[req[r].sale].taken
    <2> DEFINE s == req[r].sale
               new == [sales[s] EXCEPT !.status = "CANCELED"]
    <2>1. s \in Sales /\ sales[s].status # "none"
      BY <1>3, ReqKind, KindOf DEF CancelCommit, TInv, Made, Canceling, SaleOps
    <2>2. sales' = [sales EXCEPT ![s] = new]
      BY <1>3, <1>s, <2>1 DEF CancelCommit
    <2> HIDE DEF s
    <2>3. /\ new \in SaleRows /\ new.status = "CANCELED" /\ new.lines = sales[s].lines
          /\ new.gen = sales[s].gen /\ new.returned = sales[s].returned /\ new.raced = sales[s].raced
          /\ new.taken = sales[s].taken
      BY <1>s, <2>1 DEF SaleRows
    <2> HIDE DEF new
    <2>5. Sets(s, "CANCELED") /\ sales'[s].taken = sales[s].taken
      BY <1>s, <2>1, <2>2, <2>3 DEF Sets, OnlySale, SameReturns
    <2> QED
      BY <2>5 DEF s
  <1>4. ASSUME NEW r \in Requests, CheckoutCommit(r)
        PROVE  Sets(req[r].sale, "PAID") /\ sales'[req[r].sale].taken = req[r].gen
    <2> DEFINE s == req[r].sale
               g == req[r].gen
               new == [sales[s] EXCEPT !.status = "PAID", !.taken = g]
    <2>1. s \in Sales /\ sales[s].status # "none" /\ g \in 0..MaxUpdates
      BY <1>4, ReqKind, KindOf DEF CheckoutCommit, TInv, Made, Paying, SaleOps
    <2>2. sales' = [sales EXCEPT ![s] = new]
      BY <1>4, <1>s, <2>1 DEF CheckoutCommit
    <2>3. g \in -1..MaxUpdates
      BY <2>1, Bounds
    <2> HIDE DEF s, g
    <2>4. /\ new \in SaleRows /\ new.status = "PAID" /\ new.lines = sales[s].lines
          /\ new.gen = sales[s].gen /\ new.returned = sales[s].returned /\ new.raced = sales[s].raced
          /\ new.taken = g
      BY <1>s, <2>1, <2>3 DEF SaleRows
    <2> HIDE DEF new
    <2>6. Sets(s, "PAID") /\ sales'[s].taken = g
      BY <1>s, <2>1, <2>2, <2>4 DEF Sets, OnlySale, SameReturns
    <2> QED
      BY <2>6 DEF s, g
  <1>5. ASSUME NEW r \in Requests, req[r].op \in {"refund", "exchange"}
        PROVE  /\ req[r].sale \in Sales /\ req[r].back \in Backs /\ req[r].seen \in Counts
               /\ sales[req[r].sale].status # "none"
    BY <1>5, ReqKind, KindOf DEF TInv, Made, Returning, SaleOps
  <1>6. ASSUME NEW q, q.sale \in Sales, q.back \in Backs, q.seen \in Counts,
               sales[q.sale].status # "none",
               sales' = [sales EXCEPT ![q.sale] = Record(q.sale, q.back, q.seen)]
        PROVE  Records(q)
    <2>1. Record(q.sale, q.back, q.seen) \in SaleRows
      BY <1>6, RecordType
    <2> QED
      BY <1>6, <1>s, <2>1 DEF Records, Returns, OnlySale
  <1>7. ASSUME NEW r \in Requests, RefundCommit(r) PROVE Records(req[r])
    <2>1. /\ req[r].op \in {"refund", "exchange"}
          /\ sales' = [sales EXCEPT ![req[r].sale] = Record(req[r].sale, req[r].back, req[r].seen)]
      BY <1>7 DEF RefundCommit
    <2> QED
      BY <1>5, <1>6, <2>1
  <1>8. ASSUME NEW r \in Requests, CompleteCommit(r) PROVE Records(drafts[req[r].draft])
    <2> DEFINE d == drafts[req[r].draft]
    <2>1. /\ d.sale \in Sales /\ d.back \in Backs /\ d.seen \in Counts
          /\ sales[d.sale].status # "none"
      BY <1>8, DecidedDraft, DraftOf DEF CompleteCommit
    <2>2. sales' = [sales EXCEPT ![d.sale] = Record(d.sale, d.back, d.seen)]
      BY <1>8 DEF CompleteCommit
    <2> HIDE DEF d
    <2>3. Records(d)
      BY <1>6, <2>1, <2>2
    <2> QED
      BY <2>3 DEF d
  <1>9. ASSUME NEW r \in Requests, NEW n \in Sales, NEW l \in Payloads, Exchanging(r, n, l)
        PROVE  Exchanges(req[r], n, Batch(0, l)) /\ sales'[n].taken = 0
    <2> DEFINE q == req[r]
               b == Batch(0, l)
    <2>1. /\ q.op \in {"refund", "exchange"} /\ sales[n].status = "none"
          /\ sales' = [sales EXCEPT ![q.sale] = Record(q.sale, q.back, q.seen),
                                    ![n] = ExchangeSale(n, b)]
      BY <1>9 DEF Exchanging, ExchangeCommit
    <2>2. q.sale \in Sales /\ q.back \in Backs /\ q.seen \in Counts /\ sales[q.sale].status # "none"
      BY <1>5, <2>1
    <2>b. b \in Lines /\ \A i \in DOMAIN b : i[1] = 0
      BY <1>b
    <2> HIDE DEF q, b
    <2>3. /\ ExchangeSale(n, b) \in SaleRows /\ ExchangeSale(n, b).status = "PAID"
          /\ ExchangeSale(n, b).lines = b /\ ExchangeSale(n, b).gen = sales[n].gen
          /\ ExchangeSale(n, b).returned = sales[n].returned /\ ExchangeSale(n, b).raced = sales[n].raced
          /\ ExchangeSale(n, b).taken = 0
      <3>1. sales[n] \in SaleRows /\ 0 \in -1..MaxUpdates
        BY <1>s, Bounds
      <3> QED
        BY <2>b, <3>1 DEF SaleRows, ExchangeSale
    <2>4. Record(q.sale, q.back, q.seen) \in SaleRows
      BY <2>2, RecordType
    <2>5. n # q.sale
      BY <2>1, <2>2
    <2>6. /\ sales'[q.sale] = Record(q.sale, q.back, q.seen) /\ sales'[n] = ExchangeSale(n, b)
          /\ \A t \in Sales \ {q.sale, n} : sales'[t] = sales[t]
          /\ sales' \in [Sales -> SaleRows]
      BY <1>s, <2>1, <2>2, <2>3, <2>4, <2>5
    <2>7. Exchanges(q, n, b) /\ sales'[n].taken = 0
      BY <2>1, <2>2, <2>b, <2>3, <2>5, <2>6 DEF Exchanges, Returns, SameReturns
    <2> QED
      BY <2>7 DEF q, b
  <1> QED
    BY <1>1, <1>2, <1>3, <1>4, <1>7, <1>8, <1>9

\* What a sale is after any of these steps.
LEMMA SaleNext ==
  ASSUME TInv,
         \/ \E s, l : Creates(s, l)
         \/ \E s : Updates(s) \/ Sets(s, "PAID") \/ Sets(s, "CANCELED")
         \/ \E q : Records(q) \/ \E n, l : Exchanges(q, n, l)
  PROVE  SalesStay /\ sales' \in [Sales -> SaleRows]
  <1>m. \A s \in Sales : SaleMade(sales[s]) /\ sales[s].gen \in Nat /\ \A n \in LineIds : n[1] \in Int
    BY SaleTypes, RowTypes, LineIdTypes
  <1>0. ASSUME NEW s \in Sales, \A t \in Sales \ {s} : sales'[t] = sales[t],
               SaleMade(sales'[s]), sales[s].status # "none" => sales'[s].status # "none"
        PROVE  SalesStay
    BY <1>0, <1>m DEF SalesStay
  <1>1. ASSUME NEW s, NEW l, Creates(s, l) PROVE SalesStay /\ sales' \in [Sales -> SaleRows]
    <2>1. SaleMade(sales'[s])
      BY <1>1, <1>m DEF Creates, SameReturns, SaleMade
    <2> QED
      BY <1>0, <1>1, <2>1 DEF Creates, OnlySale
  <1>2. ASSUME NEW s, Updates(s) PROVE SalesStay /\ sales' \in [Sales -> SaleRows]
    <2>1. /\ s \in Sales /\ sales'[s].gen = sales[s].gen + 1 /\ sales'[s].returned = sales[s].returned
          /\ sales'[s].status # "none" /\ DOMAIN sales'[s].lines \subseteq LineIds
          /\ \A n \in DOMAIN sales'[s].lines : n[1] = sales[s].gen + 1 \/ n \in DOMAIN sales[s].lines
      BY <1>2, RowTypes, LineTypes DEF Updates, OnlySale
    <2>2. SaleMade(sales'[s])
      BY <1>m, <2>1 DEF SaleMade
    <2> QED
      BY <1>0, <1>2, <2>2 DEF Updates, OnlySale
  <1>3. ASSUME NEW s, NEW x \in {"PAID", "CANCELED"}, Sets(s, x)
        PROVE  SalesStay /\ sales' \in [Sales -> SaleRows]
    <2>1. SaleMade(sales'[s])
      BY <1>3, <1>m DEF Sets, SameReturns, SaleMade
    <2> QED
      BY <1>0, <1>3, <2>1 DEF Sets, OnlySale
  <1>4. ASSUME NEW q, Returns(q)
        PROVE  /\ q.sale \in Sales /\ SaleMade(sales'[q.sale])
               /\ sales[q.sale].status # "none" => sales'[q.sale].status # "none"
    BY <1>4, RecordStays, RecordType DEF Returns
  <1>5. ASSUME NEW q, Records(q) PROVE SalesStay /\ sales' \in [Sales -> SaleRows]
    BY <1>0, <1>4, <1>5 DEF Records, OnlySale
  <1>6. ASSUME NEW q, NEW n, NEW l, Exchanges(q, n, l)
        PROVE  SalesStay /\ sales' \in [Sales -> SaleRows]
    <2>1. SaleMade(sales'[n])
      BY <1>6, <1>m DEF Exchanges, SameReturns, SaleMade
    <2>2. /\ q.sale \in Sales /\ SaleMade(sales'[q.sale])
          /\ sales[q.sale].status # "none" => sales'[q.sale].status # "none"
      BY <1>4, <1>6 DEF Exchanges
    <2> QED
      BY <1>6, <1>m, <2>1, <2>2 DEF Exchanges, SalesStay
  <1> QED
    BY <1>1, <1>2, <1>3, <1>5, <1>6

\* The payment that an exchange adds, if there is a difference to pay.
Paid(n, l, back, given) ==
  [sale |-> n, gen |-> 0, lines |-> l, advances |-> Used(given), amount |-> Due(l) - Units(back)]

LEMMA ExchangePayment ==
  ASSUME TInv, NEW r \in Requests, NEW n \in Sales, NEW l \in Payloads,
         NEW given \in [Advances -> 0..MaxQty], ExchangeCommit(r, n, l, given)
  PROVE  \/ UNCHANGED payments
         \/ LET p == Paid(n, Batch(0, l), req[r].back, given)
            IN  p \in Payments /\ payments' = Append(payments, p)
  <1> DEFINE b == Batch(0, l)
             back == req[r].back
             p == Paid(n, b, back, given)
  <1>1. back \in Backs /\ b \in Lines
    BY SaleEffects DEF Exchanging, Exchanges, Returns
  <1>2. Due(b) \in Nat /\ Units(back) \in Nat
    BY <1>1, LineTypes, BackTypes
  <1>3. payments' = IF Due(b) - Units(back) > 0 THEN Append(payments, p) ELSE payments
    BY DEF ExchangeCommit, Paid
  <1> HIDE DEF b, back
  <1>4. Due(b) - Units(back) > 0 => p \in Payments
    BY <1>1, <1>2, LineIdTypes DEF Payments, Paid, Used
  <1> QED
    BY <1>3, <1>4 DEF b, back

\* What an exchange gives of an advance it gives beside the status of its row.
LEMMA ExchangeAdvances ==
  ASSUME TInv, NEW r \in Requests, NEW n, NEW l, NEW given \in [Advances -> 0..MaxQty],
         ExchangeCommit(r, n, l, given)
  PROVE  /\ advances' \in [Advances -> AdvanceRows]
         /\ \A a \in Advances : /\ advances'[a].status = advances[a].status /\ given[a] \in Nat
                                /\ advances'[a].spent = advances[a].spent + given[a]
                                /\ advances'[a].traded = advances[a].traded + given[a]
  <1>1. ASSUME NEW a \in Advances
        PROVE  /\ advances'[a] \in AdvanceRows
               /\ advances'[a].status = advances[a].status /\ given[a] \in Nat
               /\ advances'[a].spent = advances[a].spent + given[a]
               /\ advances'[a].traded = advances[a].traded + given[a]
    <2>1. advances[a] \in AdvanceRows /\ given[a] \in Nat
      BY Bounds DEF TInv, TypeOK
    <2>2. advances'[a] = [advances[a] EXCEPT !.spent = @ + given[a], !.traded = @ + given[a]]
      BY DEF ExchangeCommit
    <2>3. advances[a].spent \in Nat /\ advances[a].traded \in Nat
      BY <2>1 DEF AdvanceRows
    <2> DEFINE x == advances[a].spent + given[a]
               y == advances[a].traded + given[a]
    <2>4. x \in Nat /\ y \in Nat
      BY <2>1, <2>3
    <2>5. advances'[a] = [advances[a] EXCEPT !.spent = x, !.traded = y]
      BY <2>2
    <2> HIDE DEF x, y
    <2>6. advances'[a] \in AdvanceRows
      BY <2>1, <2>4, <2>5 DEF AdvanceRows
    <2>7. advances'[a].status = advances[a].status /\ advances'[a].spent = x /\ advances'[a].traded = y
      BY <2>1, <2>5 DEF AdvanceRows
    <2> QED
      BY <2>1, <2>6, <2>7 DEF x, y
  <1>2. advances' = [a \in Advances |-> advances'[a]]
    BY DEF ExchangeCommit
  <1> QED
    BY <1>1, <1>2

LEMMA SaleTInv ==
  ASSUME TInv, AnySaleStep
  PROVE  TInv'
  <1>5. ASSUME NEW s \in Sales, NEW l \in Payloads, CreateSale(s, l) PROVE TInv'
    <2>1. SalesStay /\ sales' \in [Sales -> SaleRows]
      BY <1>5, SaleEffects, SaleNext
    <2> QED
      BY <1>5, <2>1, Stays, StayTInv DEF CreateSale, Types
  <1>6. ASSUME NEW r \in Requests, NEW u \in 0..MaxUpdates, UpdateCommit(r, u) PROVE TInv'
    <2>1. SalesStay /\ sales' \in [Sales -> SaleRows]
      BY <1>6, SaleEffects, SaleNext
    <2> QED
      BY <1>6, <2>1, FinishMoves, Stays, StayTInv DEF UpdateCommit, Types
  <1>10. ASSUME NEW r \in Requests, CancelCommit(r) PROVE TInv'
    <2>1. SalesStay /\ sales' \in [Sales -> SaleRows]
      BY <1>10, SaleEffects, SaleNext
    <2> QED
      BY <1>10, <2>1, FinishMoves, Stays, StayTInv DEF CancelCommit, Types
  <1>7. ASSUME NEW r \in Requests, RefundCommit(r) PROVE TInv'
    <2>1. SalesStay /\ sales' \in [Sales -> SaleRows]
      BY <1>7, SaleEffects, SaleNext
    <2>2. stock' \in [Items -> StockRows]
      BY <1>7, StockTypes DEF RefundCommit
    <2> QED
      BY <1>7, <2>1, <2>2, FinishMoves, Stays, StayTInv DEF RefundCommit, Types
  <1>8. ASSUME NEW r \in Requests, CheckoutCommit(r) PROVE TInv'
    <2> DEFINE q == req[r]
               p == [sale |-> q.sale, gen |-> q.gen, lines |-> q.lines,
                     advances |-> {q.advance} \ {NoAdvance}, amount |-> Due(q.lines)]
    <2>1. SalesStay /\ sales' \in [Sales -> SaleRows]
      BY <1>8, SaleEffects, SaleNext
    <2>2. stock' \in [Items -> StockRows]
      BY <1>8, StockTypes DEF CheckoutCommit
    <2>3. /\ q.sale \in Sales /\ q.gen \in 0..MaxUpdates /\ q.lines \in Lines
          /\ q.advance \in Advances \cup {NoAdvance}
      BY <1>8, ReqKind, KindOf DEF CheckoutCommit, Paying
    <2>4. p \in Payments
      <3>1. Due(q.lines) \in Nat /\ {q.advance} \ {NoAdvance} \in SUBSET Advances
        BY <2>3, LineTypes
      <3> QED
        BY <2>3, <3>1 DEF Payments
    <2>5. payments' = Append(payments, p) /\ payments \in Seq(Payments)
      BY <1>8 DEF CheckoutCommit, TInv, TypeOK
    <2> HIDE DEF p
    <2>6. payments' \in Seq(Payments)
      BY <2>4, <2>5
    <2>7. advances' \in [Advances -> AdvanceRows]
      <3>1. CASE q.advance = NoAdvance
        BY <1>8, <3>1 DEF CheckoutCommit, TInv, TypeOK
      <3>2. CASE q.advance # NoAdvance
        <4>1. q.advance \in Advances /\ advances \in [Advances -> AdvanceRows]
          BY <2>3, <3>2 DEF TInv, TypeOK
        <4>2. advances' = [advances EXCEPT ![q.advance].status = "CONSUMED", ![q.advance].spent = @ + 1]
          BY <1>8, <3>2 DEF CheckoutCommit
        <4> HIDE DEF q
        <4>3. advances[q.advance] \in AdvanceRows
          BY <4>1
        <4>4. PICK n \in Nat : n = advances[q.advance].spent + 1
          BY <4>3 DEF AdvanceRows
        <4>5. [advances[q.advance] EXCEPT !.status = "CONSUMED", !.spent = n] \in AdvanceRows
          BY <4>3 DEF AdvanceRows
        <4>6. advances' = [advances EXCEPT ![q.advance] =
                             [advances[q.advance] EXCEPT !.status = "CONSUMED", !.spent = n]]
          BY <4>1, <4>2, <4>4
        <4> QED
          BY <4>1, <4>5, <4>6
      <3> QED
        BY <3>1, <3>2
    <2> QED
      BY <1>8, <2>1, <2>2, <2>6, <2>7, FinishMoves, Stays, StayTInv DEF CheckoutCommit, Types
  <1>9. ASSUME NEW r \in Requests, NEW n \in Sales, NEW l \in Payloads,
               NEW given \in [Advances -> 0..MaxQty], ExchangeCommit(r, n, l, given)
        PROVE  TInv'
    <2>1. SalesStay /\ sales' \in [Sales -> SaleRows]
      BY <1>9, SaleEffects, SaleNext DEF Exchanging
    <2>2. stock' \in [Items -> StockRows]
      BY <1>9, StockTypes DEF ExchangeCommit
    <2>3. payments' \in Seq(Payments)
      <3> DEFINE p == Paid(n, Batch(0, l), req[r].back, given)
      <3>1. payments' = payments \/ (p \in Payments /\ payments' = Append(payments, p))
        BY <1>9, ExchangePayment
      <3> HIDE DEF p
      <3>2. payments \in Seq(Payments)
        BY DEF TInv, TypeOK
      <3> QED
        BY <3>1, <3>2
    <2>4. advances' \in [Advances -> AdvanceRows]
      BY <1>9, ExchangeAdvances
    <2> QED
      BY <1>9, <2>1, <2>2, <2>3, <2>4, FinishMoves, Stays, StayTInv DEF ExchangeCommit, Types
  <1>11. ASSUME NEW r \in Requests, NEW n \in Sales, NEW l \in Payloads, Exchanging(r, n, l)
         PROVE  TInv'
    BY <1>9, <1>11 DEF Exchanging
  <1> QED
    BY <1>5, <1>6, <1>7, <1>8, <1>10, <1>11 DEF AnySaleStep

LEMMA TInductive == Spec => []TInv
  <1>1. Init => TInv
    <2> SUFFICES ASSUME Init PROVE TInv
      OBVIOUS
    <2>1. 0 \in 0..MaxUpdates /\ -1 \in -1..MaxUpdates /\ NoLines \in Lines /\ DOMAIN NoLines = {}
      <3>1. NoLines \in [{} -> Line] /\ DOMAIN NoLines = {}
        BY DEF NoLines
      <3> QED
        BY <3>1, Bounds DEF Lines
    <2>2. sales \in [Sales -> SaleRows]
      BY <2>1, LineIdTypes DEF Init, SaleRows
    <2>3. /\ stock \in [Items -> StockRows] /\ payments \in Seq(Payments)
          /\ advances \in [Advances -> AdvanceRows]
      BY DEF Init, StockRows, AdvanceRows
    <2>4. drafts \in [Drafts -> DraftRows \cup {NoDraft}] /\ req \in [Requests -> Kinds]
      BY DEF Init, Kinds
    <2>5. Made
      BY <2>1, LineIdTypes DEF Init, Made, SaleMade, NoDraft, Idle, SaleOps
    <2> QED
      BY <2>2, <2>3, <2>4, <2>5 DEF TInv, TypeOK
  <1>2. TInv /\ [Next]_vars => TInv'
    <2> SUFFICES ASSUME TInv, [Next]_vars PROVE TInv'
      OBVIOUS
    <2>1. ASSUME NEW r \in Requests, AnyRead(r) PROVE TInv'
      BY <2>1, ReadIsCurrent, ReadTInv
    <2>2. ASSUME NEW r \in Requests, Drop(r) PROVE TInv'
      BY <2>2, FinishMoves, Stays, StayTInv DEF Drop, Types
    <2>3. CASE UNCHANGED vars
      BY <2>3, Stays, StayTInv DEF vars, Types
    <2> QED
      BY <2>1, <2>2, <2>3, NextCases, DraftTInv, AdvanceTInv, SaleTInv
  <1> QED
    BY <1>1, <1>2, PTL DEF Spec

\* Every row and request is one the code can write; the ids of a sale's lines
\* are of the batches it has had, and no request decides a draft that is not
\* there.
THEOREM SpecTypeOK == Spec => []TypeOK
  <1>1. TInv => TypeOK
    BY DEF TInv
  <1> QED
    BY <1>1, TInductive, PTL

(***************************************************************************)
(* Advances: an advance that can still be used has been given by exchanges *)
(* only, which do not ask for its status and leave it as it is.            *)
(***************************************************************************)
AdvInv ==
  \A a \in Advances :
    /\ advances[a].spent <= 1 + advances[a].traded
    /\ advances[a].status \in {"none", "ACTIVE"} => advances[a].spent = advances[a].traded

\* What a step does to an advance: nothing of its value, or it gives it once
\* and for all, or an exchange gives k units of it.
Spends(a) ==
  \/ /\ advances'[a].spent = advances[a].spent /\ advances'[a].traded = advances[a].traded
     /\ advances'[a].status \in {"none", "ACTIVE"} => advances[a].status \in {"none", "ACTIVE"}
  \/ /\ advances[a].status = "ACTIVE" /\ advances'[a].status \notin {"none", "ACTIVE"}
     /\ advances'[a].spent = advances[a].spent + 1 /\ advances'[a].traded = advances[a].traded
  \/ \E k \in Nat : /\ advances'[a].status = advances[a].status
                    /\ advances'[a].spent = advances[a].spent + k
                    /\ advances'[a].traded = advances[a].traded + k

LEMMA EveryStepSpends ==
  ASSUME TInv, [Next]_vars, NEW a \in Advances
  PROVE  Spends(a)
  <1>1. advances \in [Advances -> AdvanceRows] /\ advances[a] \in AdvanceRows
    BY DEF TInv, TypeOK
  <1>2. CASE UNCHANGED advances
    BY <1>2 DEF Spends
  <1>3. ASSUME NEW b \in Advances, Issue(b) \/ Lapse(b) PROVE Spends(a)
    BY <1>1, <1>3 DEF Issue, Lapse, Spends, AdvanceRows
  <1>4. ASSUME NEW b \in Advances, NEW x \in {"REFUNDED", "CONSUMED", "EXPIRED"}, MutateAdvance(b, x)
        PROVE  Spends(a)
    <2>1. /\ advances[b].status = "ACTIVE"
          /\ advances' = [advances EXCEPT ![b].status = x,
                                          ![b].spent = @ + (IF x = "EXPIRED" THEN 0 ELSE 1)]
      BY <1>4 DEF MutateAdvance
    <2>2. CASE a = b
      BY <1>1, <2>1, <2>2 DEF Spends, AdvanceRows
    <2>3. CASE a # b
      BY <1>1, <2>1, <2>3 DEF Spends
    <2> QED
      BY <2>2, <2>3
  <1>5. ASSUME NEW r \in Requests, ExpireCommit(r) PROVE Spends(a)
    <2>1. advances' = [advances EXCEPT ![req[r].advance].status = "EXPIRED"]
      BY <1>5 DEF ExpireCommit
    <2> QED
      BY <1>1, <2>1 DEF Spends, AdvanceRows
  <1>6. CASE Sweep
    BY <1>1, <1>6 DEF Sweep, Spends, AdvanceRows
  <1>7. ASSUME NEW r \in Requests, CheckoutCommit(r), req[r].advance # NoAdvance PROVE Spends(a)
    <2> DEFINE b == req[r].advance
    <2>1. b \in Advances /\ advances[b].status = "ACTIVE"
      BY <1>7, ReqKind, KindOf DEF CheckoutCommit, AdvanceIsActive, Paying
    <2>2. advances' = [advances EXCEPT ![b].status = "CONSUMED", ![b].spent = @ + 1]
      BY <1>7 DEF CheckoutCommit
    <2> HIDE DEF b
    <2>3. CASE a = b
      BY <1>1, <2>1, <2>2, <2>3 DEF Spends, AdvanceRows
    <2>4. CASE a # b
      BY <1>1, <2>2, <2>4 DEF Spends
    <2> QED
      BY <2>3, <2>4
  <1>8. ASSUME NEW r \in Requests, AnyRead(r) PROVE UNCHANGED advances
    BY <1>8, ReadIsCurrent DEF ReadStep
  <1>9. AnyDraftStep => UNCHANGED advances
    BY DEF AnyDraftStep, CreateDraft, VoidCommit, CompleteCommit
  <1>10. AnySaleStep => \/ UNCHANGED advances
                        \/ \E r \in Requests : CheckoutCommit(r) /\ req[r].advance # NoAdvance
                        \/ \E r \in Requests, n \in Sales, l \in Payloads : Exchanging(r, n, l)
    BY DEF AnySaleStep, CreateSale, UpdateCommit, CancelCommit, CheckoutCommit, RefundCommit
  <1>11. ASSUME NEW r \in Requests, NEW n \in Sales, NEW l \in Payloads, Exchanging(r, n, l)
         PROVE  Spends(a)
    <2>1. PICK given \in [Advances -> 0..MaxQty] : ExchangeCommit(r, n, l, given)
      BY <1>11 DEF Exchanging
    <2> QED
      BY <2>1, ExchangeAdvances DEF Spends
  <1> QED
    BY <1>2, <1>3, <1>4, <1>5, <1>6, <1>7, <1>8, <1>9, <1>10, <1>11, NextCases
    DEF AnyAdvanceStep, Drop, vars

\* The value of an advance is given at most once, besides what exchanges give of
\* it, by any number of checkouts, refunds, consumptions and expiries: each of
\* them holds the row and asks that it is ACTIVE, and the expiry that does not
\* hold it only takes ACTIVE away.
THEOREM SpecAdvanceSpentOnce == Spec => []AdvanceSpentOnce
  <1>1. Init => AdvInv
    BY DEF Init, AdvInv
  <1>2. TInv /\ AdvInv /\ [Next]_vars => AdvInv'
    <2> SUFFICES ASSUME TInv, AdvInv, [Next]_vars, NEW a \in Advances
                 PROVE  /\ advances'[a].spent <= 1 + advances'[a].traded
                        /\ advances'[a].status \in {"none", "ACTIVE"} =>
                             advances'[a].spent = advances'[a].traded
      BY DEF AdvInv
    <2>1. Spends(a)
      BY EveryStepSpends
    <2>2. advances[a].spent \in Nat /\ advances[a].traded \in Nat
      BY DEF TInv, TypeOK, AdvanceRows
    <2> QED
      BY <2>1, <2>2 DEF Spends, AdvInv
  <1>3. AdvInv => AdvanceSpentOnce
    BY DEF AdvInv, AdvanceSpentOnce
  <1> QED
    BY <1>1, <1>2, <1>3, TInductive, PTL DEF Spec

(***************************************************************************)
(* Returns: what a request or a draft was quoted of a line fits it as long *)
(* as nothing else was returned of it.  The lines that later updates write *)
(* are of batches the quote does not name.                                 *)
(***************************************************************************)
Fits(lines, back, seen) ==
  \A n \in Named(back) \cap DOMAIN lines : back[n].most <= lines[n].qty - seen[n]

Quote(q) ==
  /\ \A n \in DOMAIN q.back : n[1] <= sales[q.sale].gen
  /\ Fits(sales[q.sale].lines, q.back, q.seen)

\* The same of q after the step.
QuoteNext(q) ==
  /\ \A n \in DOMAIN q.back : n[1] <= sales'[q.sale].gen
  /\ Fits(sales'[q.sale].lines, q.back, q.seen)

RInv ==
  /\ ReturnsWithinSale
  /\ \A r \in Requests : req[r].op \in {"refund", "exchange"} => Quote(req[r])
  /\ \A d \in Drafts : drafts[d].status # "none" => Quote(drafts[d])

SaleChange ==
  \/ UNCHANGED sales
  \/ \E s, l : Creates(s, l)
  \/ \E s : Updates(s) \/ Sets(s, "PAID") \/ Sets(s, "CANCELED")
  \/ \E q : Quote(q) /\ (Records(q) \/ \E n, l : Exchanges(q, n, l))

\* What may be returned fits.
LEMMA ReturnableFits ==
  ASSUME TInv, NEW s \in Sales, NEW c \in Returnable(s)
  PROVE  /\ \A n \in DOMAIN c : n[1] <= sales[s].gen
         /\ Fits(sales[s].lines, c, sales[s].returned)
  <1>1. DOMAIN c = DOMAIN sales[s].lines /\ SaleMade(sales[s])
    BY ReturnableType, SaleTypes
  <1>2. \A n \in Named(c) : c[n].most <= sales[s].lines[n].qty - sales[s].returned[n]
    BY DEF Returnable
  <1> QED
    BY <1>1, <1>2 DEF Fits, SaleMade

LEMMA QuoteStays ==
  ASSUME TInv, SaleChange, NEW q, Quote(q), q.sale \in Sales, q.back \in Backs,
         sales[q.sale].status # "none"
  PROVE  QuoteNext(q)
  <1>t. /\ \A s \in Sales : sales[s].gen \in Nat
        /\ \A n \in DOMAIN q.back : n[1] \in Int
        /\ Named(q.back) \subseteq DOMAIN q.back
    BY SaleTypes, RowTypes, BackTypes, LineIdTypes
  <1>r. \A s \in Sales, c \in Backs, seen \in Counts :
          Record(s, c, seen).gen = sales[s].gen /\ Record(s, c, seen).lines = sales[s].lines
    BY RecordType
  <1>1. CASE sales'[q.sale].gen = sales[q.sale].gen /\ sales'[q.sale].lines = sales[q.sale].lines
    BY <1>1 DEF Quote, QuoteNext
  <1>2. ASSUME Updates(q.sale) PROVE QuoteNext(q)
    <2>1. \A n \in DOMAIN q.back : n[1] <= sales[q.sale].gen
      BY DEF Quote
    <2>2. \A n \in DOMAIN q.back : n[1] <= sales'[q.sale].gen /\ n[1] # sales[q.sale].gen + 1
      BY <1>2, <1>t, <2>1 DEF Updates
    <2>3. ASSUME NEW n \in Named(q.back) \cap DOMAIN sales'[q.sale].lines
          PROVE  q.back[n].most <= sales'[q.sale].lines[n].qty - q.seen[n]
      <3>1. n \in DOMAIN sales[q.sale].lines /\ sales'[q.sale].lines[n] = sales[q.sale].lines[n]
        BY <1>2, <1>t, <2>2 DEF Updates
      <3> QED
        BY <3>1 DEF Quote, Fits
    <2> QED
      BY <2>2, <2>3 DEF QuoteNext, Fits
  <1>3. UNCHANGED sales => QuoteNext(q)
    BY <1>1
  <1>4. ASSUME NEW s, NEW l, Creates(s, l) PROVE QuoteNext(q)
    BY <1>1, <1>4 DEF Creates, OnlySale
  <1>5. ASSUME NEW s, Updates(s) PROVE QuoteNext(q)
    BY <1>1, <1>2, <1>5 DEF Updates, OnlySale
  <1>6. ASSUME NEW s, Sets(s, "PAID") \/ Sets(s, "CANCELED") PROVE QuoteNext(q)
    BY <1>1, <1>6 DEF Sets, OnlySale, SameReturns
  <1>7. ASSUME NEW p, Records(p) PROVE QuoteNext(q)
    BY <1>1, <1>7, <1>r DEF Records, Returns, OnlySale
  <1>8. ASSUME NEW p, NEW n, NEW l, Exchanges(p, n, l) PROVE QuoteNext(q)
    BY <1>1, <1>8, <1>r DEF Exchanges, Returns
  <1> QED
    BY <1>3, <1>4, <1>5, <1>6, <1>7, <1>8 DEF SaleChange

\* The bound on what was returned of the lines of one sale.
Within(row) ==
  ~row.raced => \A n \in DOMAIN row.lines : row.returned[n] <= row.lines[n].qty

\* A quote that fits is recorded within the bound, or marked as raced.
LEMMA RecordWithin ==
  ASSUME TInv, NEW q, Quote(q), Returns(q), Within(sales[q.sale])
  PROVE  Within(sales'[q.sale])
  <1> DEFINE row == sales[q.sale]
             new == sales'[q.sale]
             there == Named(q.back) \cap DOMAIN row.lines
  <1>1. /\ new.lines = row.lines
        /\ \A n \in LineIds : new.returned[n] = row.returned[n] + (IF n \in there THEN q.back[n].all ELSE 0)
        /\ row.raced => new.raced
        /\ ~new.raced => \A n \in there : row.returned[n] = q.seen[n] /\ ~ (q.back[n].all > q.back[n].most)
    BY RecordType DEF Returns
  <1>2. \A n \in DOMAIN row.lines : /\ n \in LineIds /\ row.returned[n] \in Nat
                                    /\ row.lines[n].qty \in Nat
    BY SaleTypes, RowTypes, LineTypes DEF Returns
  <1>3. \A n \in there : q.back[n].most \in Nat /\ q.back[n].all \in Nat
    BY BackTypes DEF Returns
  <1>4. \A n \in there : q.back[n].most <= row.lines[n].qty - q.seen[n]
    BY DEF Quote, Fits
  <1> HIDE DEF there, row, new
  <1> SUFFICES ASSUME ~new.raced, NEW n \in DOMAIN row.lines
               PROVE  new.returned[n] <= row.lines[n].qty
    BY <1>1 DEF Within, new
  <1>5. row.returned[n] <= row.lines[n].qty
    BY <1>1 DEF Within, row
  <1>6. CASE n \in there
    BY <1>1, <1>2, <1>3, <1>4, <1>6
  <1>7. CASE n \notin there
    BY <1>1, <1>2, <1>5, <1>7
  <1> QED
    BY <1>6, <1>7

LEMMA WithinStays ==
  ASSUME TInv, SaleChange, NEW s \in Sales, \A t \in Sales : Within(sales[t])
  PROVE  Within(sales'[s])
  <1>n. \A t \in Sales : SaleMade(sales[t]) /\ sales[t].gen \in Nat
    BY SaleTypes, RowTypes
  <1>0. ASSUME NEW t \in Sales, sales'[t].returned = Zero, sales'[t].lines \in Lines
        PROVE  Within(sales'[t])
    <2>1. \A n \in DOMAIN sales'[t].lines : n \in LineIds /\ sales'[t].lines[n].qty \in Nat
      BY <1>0, LineTypes
    <2> QED
      BY <1>0, <2>1, LineIdTypes DEF Within
  <1>1. CASE sales'[s] = sales[s]
    BY <1>1
  <1>2. ASSUME NEW l, Creates(s, l) PROVE Within(sales'[s])
    BY <1>0, <1>n, <1>2 DEF Creates, SameReturns, SaleMade
  <1>3. ASSUME Updates(s) PROVE Within(sales'[s])
    <2>1. /\ sales'[s].returned = sales[s].returned /\ sales'[s].raced = sales[s].raced
          /\ sales'[s].lines \in Lines
      BY <1>3, RowTypes DEF Updates, OnlySale
    <2>2. ASSUME NEW n \in DOMAIN sales'[s].lines, ~sales[s].raced
          PROVE  sales[s].returned[n] <= sales'[s].lines[n].qty
      <3>1. n \in LineIds /\ sales'[s].lines[n].qty \in Nat
        BY <2>1, LineTypes
      <3>2. CASE n[1] = sales[s].gen + 1
        <4>1. sales[s].returned[n] = 0
          BY <1>n, <3>1, <3>2 DEF SaleMade
        <4> QED
          BY <3>1, <4>1
      <3>3. CASE n \in DOMAIN sales[s].lines /\ sales'[s].lines[n] = sales[s].lines[n]
        BY <2>2, <3>3 DEF Within
      <3> QED
        BY <1>3, <3>2, <3>3 DEF Updates
    <2> QED
      BY <2>1, <2>2 DEF Within
  <1>4. ASSUME Sets(s, "PAID") \/ Sets(s, "CANCELED") PROVE Within(sales'[s])
    BY <1>4 DEF Sets, SameReturns, Within
  <1>5. ASSUME NEW q, Quote(q), Records(q), q.sale = s PROVE Within(sales'[s])
    BY <1>5, RecordWithin DEF Records
  <1>6. ASSUME NEW q, NEW n, NEW l, Quote(q), Exchanges(q, n, l), s \in {q.sale, n}
        PROVE  Within(sales'[s])
    <2>1. CASE s = q.sale
      BY <1>6, <2>1, RecordWithin DEF Exchanges
    <2>2. CASE s = n
      BY <1>0, <1>n, <1>6, <2>2 DEF Exchanges, SameReturns, SaleMade
    <2> QED
      BY <1>6, <2>1, <2>2
  <1>7. ASSUME NEW t, NEW l, Creates(t, l) PROVE Within(sales'[s])
    BY <1>1, <1>2, <1>7 DEF Creates, OnlySale
  <1>8. ASSUME NEW t, Updates(t) PROVE Within(sales'[s])
    BY <1>1, <1>3, <1>8 DEF Updates, OnlySale
  <1>9. ASSUME NEW t, Sets(t, "PAID") \/ Sets(t, "CANCELED") PROVE Within(sales'[s])
    BY <1>1, <1>4, <1>9 DEF Sets, OnlySale
  <1>10. ASSUME NEW q, Quote(q), Records(q) PROVE Within(sales'[s])
    BY <1>1, <1>5, <1>10 DEF Records, OnlySale
  <1>11. ASSUME NEW q, NEW n, NEW l, Quote(q), Exchanges(q, n, l) PROVE Within(sales'[s])
    BY <1>1, <1>6, <1>11 DEF Exchanges
  <1> QED
    BY <1>1, <1>7, <1>8, <1>9, <1>10, <1>11 DEF SaleChange

\* Requests and drafts that go on keep what they were quoted; new ones are
\* quoted from the sales as they are.
RequestsKeep ==
  \A r \in Requests : \/ req'[r] = req[r] \/ req'[r] = Done
                      \/ UNCHANGED sales /\ Current(req'[r])

DraftsKeep ==
  \A d \in Drafts : drafts'[d].status # "none" =>
    \/ /\ drafts[d].status # "none"
       /\ drafts'[d].sale = drafts[d].sale
       /\ drafts'[d].back = drafts[d].back /\ drafts'[d].seen = drafts[d].seen
    \/ /\ UNCHANGED sales
       /\ LET s == drafts'[d].sale IN
          /\ s \in Sales /\ sales[s].status = "PAID"
          /\ drafts'[d].back \in Returnable(s) /\ drafts'[d].seen = sales[s].returned

LEMMA EveryStepKeeps ==
  ASSUME TInv, RInv, [Next]_vars
  PROVE  SaleChange /\ RequestsKeep /\ DraftsKeep
  <1>d. UNCHANGED drafts => DraftsKeep
    BY DEF DraftsKeep
  <1>r. UNCHANGED req => RequestsKeep
    BY DEF RequestsKeep
  <1>f. \A r \in Requests : Finish(r) => RequestsKeep
    BY FinishMoves DEF RequestsKeep
  <1>u. UNCHANGED sales => SaleChange
    BY DEF SaleChange
  <1>1. ASSUME NEW r \in Requests, AnyRead(r) PROVE SaleChange /\ RequestsKeep /\ DraftsKeep
    <2>1. PICK q : ReadStep(r, q)
      BY <1>1, ReadIsCurrent
    <2>2. RequestsKeep
      BY <2>1 DEF ReadStep, RequestsKeep, TInv, TypeOK
    <2> QED
      BY <1>d, <1>u, <2>1, <2>2 DEF ReadStep
  <1>2. AnyAdvanceStep => SaleChange /\ RequestsKeep /\ DraftsKeep
    BY <1>d, <1>r, <1>f, <1>u DEF AnyAdvanceStep, Issue, Lapse, MutateAdvance, Sweep, ExpireCommit
  <1>3. ASSUME NEW r \in Requests, Drop(r) PROVE SaleChange /\ RequestsKeep /\ DraftsKeep
    BY <1>d, <1>f, <1>u, <1>3 DEF Drop
  <1>4. CASE UNCHANGED vars
    BY <1>d, <1>r, <1>u, <1>4 DEF vars
  <1>5. ASSUME NEW d \in Drafts, NEW s \in Sales, CreateDraft(d, s)
        PROVE  SaleChange /\ RequestsKeep /\ DraftsKeep
    <2>0. PICK c \in Quotes(s) :
            drafts' = [drafts EXCEPT ![d] = [status |-> "DRAFT", sale |-> s,
                                             back |-> c, seen |-> sales[s].returned]]
      BY <1>5 DEF CreateDraft
    <2> DEFINE new == [status |-> "DRAFT", sale |-> s, back |-> c, seen |-> sales[s].returned]
    <2>1. /\ drafts' = [drafts EXCEPT ![d] = new] /\ UNCHANGED <<sales, req>>
          /\ sales[s].status = "PAID" /\ c \in Returnable(s)
      BY <1>5, <2>0 DEF CreateDraft, Quotes
    <2>2. new.sale = s /\ new.back = c /\ new.seen = sales[s].returned
      OBVIOUS
    <2> HIDE DEF new
    <2>3. drafts'[d] = new /\ \A e \in Drafts \ {d} : drafts'[e] = drafts[e]
      BY <2>1 DEF TInv, TypeOK
    <2>4. DraftsKeep
      BY <2>1, <2>2, <2>3 DEF DraftsKeep
    <2> QED
      BY <1>r, <1>u, <2>1, <2>4
  <1>6. ASSUME NEW r \in Requests, VoidCommit(r) \/ CompleteCommit(r) PROVE DraftsKeep
    <2>1. PICK x \in {"VOIDED", "COMPLETED"} : /\ req[r].op \in {"complete", "void"}
                                               /\ drafts' = [drafts EXCEPT ![req[r].draft].status = x]
      BY <1>6 DEF VoidCommit, CompleteCommit
    <2> QED
      BY <2>1, DecidedDraft DEF DraftsKeep
  <1>7. ASSUME NEW r \in Requests, VoidCommit(r) PROVE SaleChange /\ RequestsKeep /\ DraftsKeep
    BY <1>6, <1>7, <1>f, <1>u DEF VoidCommit
  <1>8. ASSUME NEW r \in Requests, CompleteCommit(r) PROVE SaleChange /\ RequestsKeep /\ DraftsKeep
    <2>1. Records(drafts[req[r].draft])
      BY <1>8, SaleEffects
    <2>2. req[r].draft \in Drafts /\ drafts[req[r].draft].status # "none"
      BY <1>8, DecidedDraft DEF CompleteCommit
    <2>3. Quote(drafts[req[r].draft])
      BY <2>2 DEF RInv
    <2> QED
      BY <1>6, <1>8, <1>f, <2>1, <2>3 DEF SaleChange, CompleteCommit
  <1>9. ASSUME NEW s \in Sales, NEW l \in Payloads, CreateSale(s, l)
        PROVE  SaleChange /\ RequestsKeep /\ DraftsKeep
    BY <1>9, <1>d, <1>r, SaleEffects DEF SaleChange, CreateSale
  <1>10. ASSUME NEW r \in Requests, CancelCommit(r) \/ CheckoutCommit(r)
         PROVE  SaleChange /\ RequestsKeep /\ DraftsKeep
    BY <1>10, <1>d, <1>f, SaleEffects DEF SaleChange, CancelCommit, CheckoutCommit
  <1>13. ASSUME NEW r \in Requests, NEW u \in 0..MaxUpdates, UpdateCommit(r, u)
         PROVE  SaleChange /\ RequestsKeep /\ DraftsKeep
    BY <1>13, <1>d, <1>f, SaleEffects DEF SaleChange, UpdateCommit
  <1>11. ASSUME NEW r \in Requests, RefundCommit(r) PROVE SaleChange /\ RequestsKeep /\ DraftsKeep
    <2>1. Records(req[r]) /\ Quote(req[r])
      BY <1>11, SaleEffects DEF RefundCommit, RInv
    <2> QED
      BY <1>11, <1>d, <1>f, <2>1 DEF SaleChange, RefundCommit
  <1>12. ASSUME NEW r \in Requests, NEW n \in Sales, NEW l \in Payloads, Exchanging(r, n, l)
         PROVE  SaleChange /\ RequestsKeep /\ DraftsKeep
    <2>1. Exchanges(req[r], n, Batch(0, l)) /\ req[r].op = "exchange"
      BY <1>12, SaleEffects DEF Exchanging, ExchangeCommit
    <2>2. Quote(req[r])
      BY <2>1 DEF RInv
    <2>3. Finish(r) /\ UNCHANGED drafts
      BY <1>12 DEF Exchanging, ExchangeCommit
    <2> QED
      BY <1>d, <1>f, <2>1, <2>2, <2>3 DEF SaleChange
  <1> QED
    BY <1>1, <1>2, <1>3, <1>4, <1>5, <1>7, <1>8, <1>9, <1>10, <1>11, <1>12, <1>13, NextCases
    DEF AnyDraftStep, AnySaleStep

LEMMA StepRInv ==
  ASSUME TInv, RInv, [Next]_vars
  PROVE  RInv'
  <1>1. SaleChange /\ RequestsKeep /\ DraftsKeep
    BY EveryStepKeeps
  <1>2. ReturnsWithinSale'
    <2>1. \A t \in Sales : Within(sales[t])
      BY DEF RInv, ReturnsWithinSale, Within
    <2>2. \A s \in Sales : Within(sales'[s])
      BY <1>1, <2>1, WithinStays
    <2> QED
      BY <2>2 DEF ReturnsWithinSale, Within
  <1>n. ASSUME NEW q, NEW s \in Sales, q.sale = s, UNCHANGED sales,
               q.back \in Returnable(s), q.seen = sales[s].returned
        PROVE  QuoteNext(q)
    BY <1>n, ReturnableFits DEF QuoteNext
  <1>3. ASSUME NEW r \in Requests, req'[r].op \in {"refund", "exchange"} PROVE QuoteNext(req'[r])
    <2>1. req'[r] # Done
      BY <1>3 DEF Done
    <2>2. CASE req'[r] = req[r]
      <3>1. req[r].sale \in Sales /\ req[r].back \in Backs /\ sales[req[r].sale].status # "none"
        BY <1>3, <2>2, ReqKind, KindOf DEF TInv, Made, Returning, SaleOps
      <3>2. Quote(req[r])
        BY <1>3, <2>2 DEF RInv
      <3>3. QuoteNext(req[r])
        BY <1>1, <3>1, <3>2, QuoteStays
      <3> QED
        BY <2>2, <3>3
    <2>3. CASE UNCHANGED sales /\ Current(req'[r])
      <3>1. req'[r].sale \in Sales
        BY <1>3, <2>3, KindOf DEF Current, SaleOps
      <3>2. req'[r].back \in Returnable(req'[r].sale) /\ req'[r].seen = sales[req'[r].sale].returned
        BY <1>3, <2>3 DEF Current
      <3> QED
        BY <1>n, <2>3, <3>1, <3>2
    <2> QED
      BY <1>1, <2>1, <2>2, <2>3 DEF RequestsKeep
  <1>4. ASSUME NEW d \in Drafts, drafts'[d].status # "none" PROVE QuoteNext(drafts'[d])
    <2>1. CASE /\ drafts[d].status # "none"
               /\ drafts'[d].sale = drafts[d].sale
               /\ drafts'[d].back = drafts[d].back /\ drafts'[d].seen = drafts[d].seen
      <3>1. /\ drafts[d].sale \in Sales /\ drafts[d].back \in Backs
            /\ sales[drafts[d].sale].status # "none"
        BY <2>1, DraftOf
      <3>2. Quote(drafts[d])
        BY <2>1 DEF RInv
      <3>3. QuoteNext(drafts[d])
        BY <1>1, <3>1, <3>2, QuoteStays
      <3> QED
        BY <2>1, <3>3 DEF QuoteNext
    <2>2. CASE /\ UNCHANGED sales
               /\ LET s == drafts'[d].sale IN
                  /\ s \in Sales /\ sales[s].status = "PAID"
                  /\ drafts'[d].back \in Returnable(s) /\ drafts'[d].seen = sales[s].returned
      BY <1>n, <2>2
    <2> QED
      BY <1>1, <1>4, <2>1, <2>2 DEF DraftsKeep
  <1> QED
    BY <1>2, <1>3, <1>4 DEF RInv, Quote, QuoteNext

LEMMA RInductive == Spec => []RInv
  <1>1. TInv /\ Init => RInv
    <2> SUFFICES ASSUME TInv, Init PROVE RInv
      OBVIOUS
    <2>1. \A s \in Sales : sales[s].lines = NoLines
      BY DEF Init
    <2>2. DOMAIN NoLines = {}
      BY DEF NoLines
    <2> QED
      BY <2>1, <2>2 DEF Init, RInv, ReturnsWithinSale, Idle, NoDraft
  <1>2. TInv /\ RInv /\ [Next]_vars => RInv'
    BY StepRInv
  <1> QED
    BY <1>1, <1>2, TInductive, PTL DEF Spec

\* No line of a sale is returned beyond what was sold, by refunds, exchanges and
\* return drafts in any number and order, unless one of them was written over a
\* balance that had changed since it was read, or names the line in several
\* items: what a request was quoted of a line stays good as long as nothing else
\* was returned of it, and concurrent updates write lines it does not name.
THEOREM SpecReturnsWithinSale == Spec => []ReturnsWithinSale
  <1>1. RInv => ReturnsWithinSale
    BY DEF RInv
  <1> QED
    BY <1>1, RInductive, PTL

(***************************************************************************)
(* Checkouts.  The lines of a generation are the same to everyone who read *)
(* them, and a checkout leaves what it was guarded by in a state that      *)
(* refuses another one; a sale that an exchange paid has no checkout.      *)
(***************************************************************************)
View(x) ==
  /\ sales[x.sale].status # "none" /\ x.gen <= sales[x.sale].gen
  /\ x.gen = sales[x.sale].gen => x.lines = sales[x.sale].lines

Agree(x, y) == x.sale = y.sale /\ x.gen = y.gen => x.lines = y.lines

Guard(p) ==
  /\ \A n \in DOMAIN p.lines : p.lines[n].epc # NoTag => ~stock[p.lines[n].epc].epc
  /\ \A a \in p.advances : advances[a].status \notin {"none", "ACTIVE"}

Checkouts == {r \in Requests : req[r].op = "checkout"}

Settled(p) ==
  /\ sales[p.sale].status \notin {"none", "DRAFT"}
  /\ \A r \in Checkouts : req[r].sale # p.sale

GInv ==
  /\ GuardedCheckoutOnce
  /\ \A r \in Checkouts : View(req[r])
  /\ \A r, t \in Checkouts : Agree(req[r], req[t])
  /\ \A i \in DOMAIN payments :
       /\ View(payments[i]) /\ (Guard(payments[i]) \/ Settled(payments[i]))
       /\ \A r \in Checkouts : Agree(req[r], payments[i])

\* View, Guard and Settled of x after the step.
ViewNext(x) ==
  /\ sales'[x.sale].status # "none" /\ x.gen <= sales'[x.sale].gen
  /\ x.gen = sales'[x.sale].gen => x.lines = sales'[x.sale].lines

GuardNext(p) ==
  /\ \A n \in DOMAIN p.lines : p.lines[n].epc # NoTag => ~stock'[p.lines[n].epc].epc
  /\ \A a \in p.advances : advances'[a].status \notin {"none", "ACTIVE"}

SettledNext(p) ==
  /\ sales'[p.sale].status \notin {"none", "DRAFT"}
  /\ \A r \in Checkouts' : req'[r].sale # p.sale

LEMMA ViewStays ==
  ASSUME TInv, SaleChange, NEW x, View(x), x.sale \in Sales, x.gen \in 0..MaxUpdates
  PROVE  /\ ViewNext(x)
         /\ sales[x.sale].status # "DRAFT" => sales'[x.sale].status \notin {"none", "DRAFT"}
  <1> DEFINE goal == /\ ViewNext(x)
                     /\ sales[x.sale].status # "DRAFT" => sales'[x.sale].status \notin {"none", "DRAFT"}
  <1>t. \A s \in Sales : sales[s].gen \in Nat
    BY SaleTypes, RowTypes
  <1>r. \A s \in Sales, c \in Backs, seen \in Counts :
          /\ Record(s, c, seen).gen = sales[s].gen /\ Record(s, c, seen).lines = sales[s].lines
          /\ Record(s, c, seen).status = sales[s].status
    BY RecordType
  <1>1. ASSUME sales'[x.sale].gen = sales[x.sale].gen, sales'[x.sale].lines = sales[x.sale].lines,
               sales'[x.sale].status \in {sales[x.sale].status, "PAID", "CANCELED"}
        PROVE  goal
    BY <1>1 DEF View, ViewNext
  <1>2. ASSUME sales'[x.sale].gen = sales[x.sale].gen + 1,
               sales'[x.sale].status = sales[x.sale].status
        PROVE  goal
    BY <1>2, <1>t, Bounds DEF View, ViewNext
  <1> HIDE DEF goal
  <1>3. UNCHANGED sales => goal
    BY <1>1
  <1>4. ASSUME NEW s, NEW l, Creates(s, l) PROVE goal
    BY <1>1, <1>4 DEF Creates, OnlySale, View
  <1>9. ASSUME NEW s, Updates(s) PROVE goal
    BY <1>1, <1>2, <1>9 DEF Updates, OnlySale
  <1>5. ASSUME NEW s, Sets(s, "PAID") \/ Sets(s, "CANCELED") PROVE goal
    BY <1>1, <1>5 DEF Sets, OnlySale, SameReturns
  <1>6. ASSUME NEW p, Records(p) PROVE goal
    BY <1>1, <1>6, <1>r DEF Records, Returns, OnlySale
  <1>7. ASSUME NEW p, NEW n, NEW l, Exchanges(p, n, l) PROVE goal
    BY <1>1, <1>7, <1>r DEF Exchanges, Returns, View
  <1>8. goal
    BY <1>3, <1>4, <1>5, <1>6, <1>7, <1>9 DEF SaleChange
  <1> QED
    BY <1>8 DEF goal

\* No row gets its tag back: a refund leaves it off, an exchange leaves it on.
TagsStay == \A i \in Items : stock'[i].epc => stock[i].epc

LEMMA TagsOnlyLeave ==
  ASSUME TInv, [Next]_vars
  PROVE  TagsStay
  <1>1. UNCHANGED stock => TagsStay
    BY DEF TagsStay
  <1>2. \A i \in Items : [stock[i] EXCEPT !.sold = FALSE].epc = stock[i].epc
    BY DEF TInv, TypeOK, StockRows
  <1>3. ASSUME NEW l, NEW keep \in BOOLEAN, NEW i \in Items, Take(l, keep)[i].epc PROVE stock[i].epc
    BY <1>3 DEF Take
  <1>4. ASSUME NEW r \in Requests, CheckoutCommit(r) PROVE TagsStay
    BY <1>3, <1>4 DEF CheckoutCommit, TagsStay
  <1>5. ASSUME NEW r \in Requests, RefundCommit(r) PROVE TagsStay
    BY <1>2, <1>5 DEF RefundCommit, TagsStay
  <1>6. ASSUME NEW r \in Requests, NEW n, NEW l, Exchanging(r, n, l) PROVE TagsStay
    <2>1. stock' = ExchangedStock(req[r], Batch(0, l))
      BY <1>6 DEF Exchanging, ExchangeCommit
    <2> QED
      BY <1>2, <1>3, <2>1 DEF ExchangedStock, TagsStay
  <1>7. ASSUME NEW r \in Requests, AnyRead(r) PROVE UNCHANGED stock
    BY <1>7, ReadIsCurrent DEF ReadStep
  <1>8. AnyDraftStep \/ AnyAdvanceStep => UNCHANGED stock
    BY DEF AnyDraftStep, CreateDraft, VoidCommit, CompleteCommit,
           AnyAdvanceStep, Issue, Lapse, MutateAdvance, Sweep, ExpireCommit
  <1> QED
    BY <1>1, <1>4, <1>5, <1>6, <1>7, <1>8, NextCases
    DEF AnySaleStep, CreateSale, UpdateCommit, CancelCommit, Drop, vars

\* A request that pays was paying before, or has just read its sale.
LEMMA CheckoutsNext ==
  ASSUME TInv, RInv, [Next]_vars, NEW r \in Checkouts'
  PROVE  /\ r \in Requests /\ req'[r].sale \in Sales /\ req'[r].gen \in 0..MaxUpdates
         /\ \/ r \in Checkouts /\ req'[r] = req[r]
            \/ /\ UNCHANGED sales /\ sales[req'[r].sale].status = "DRAFT"
               /\ req'[r].lines = sales[req'[r].sale].lines /\ req'[r].gen = sales[req'[r].sale].gen
  <1>1. r \in Requests /\ req'[r].op = "checkout" /\ req'[r] # Done
    BY DEF Checkouts, Done
  <1>2. \/ req'[r] = req[r] /\ r \in Checkouts
        \/ UNCHANGED sales /\ Current(req'[r])
    BY <1>1, EveryStepKeeps DEF RequestsKeep, Checkouts
  <1>3. req'[r] \in Kinds
    BY <1>1, <1>2, ReqKind DEF Current
  <1>5. req'[r].sale \in Sales /\ req'[r].gen \in 0..MaxUpdates
    BY <1>1, <1>3, KindOf DEF Paying
  <1> QED
    BY <1>1, <1>2, <1>5 DEF Current

LEMMA ViewsNext ==
  ASSUME TInv, RInv, GInv, [Next]_vars
  PROVE  /\ \A r \in Checkouts' : ViewNext(req'[r])
         /\ \A r, t \in Checkouts' : Agree(req'[r], req'[t])
  <1>c. SaleChange
    BY EveryStepKeeps
  <1>g. \A s \in Sales : sales[s].gen \in Nat
    BY SaleTypes, RowTypes
  <1>1. ASSUME NEW r \in Checkouts' PROVE ViewNext(req'[r])
    <2>1. CASE r \in Checkouts /\ req'[r] = req[r]
      <3>1. View(req[r]) /\ req[r].sale \in Sales /\ req[r].gen \in 0..MaxUpdates
        BY <1>1, <2>1, CheckoutsNext DEF GInv
      <3>2. ViewNext(req[r])
        BY <1>c, <3>1, ViewStays
      <3> QED
        BY <2>1, <3>2
    <2>2. CASE /\ UNCHANGED sales /\ sales[req'[r].sale].status = "DRAFT"
               /\ req'[r].lines = sales[req'[r].sale].lines /\ req'[r].gen = sales[req'[r].sale].gen
      <3>1. req'[r].sale \in Sales
        BY <1>1, CheckoutsNext
      <3> QED
        BY <1>g, <2>2, <3>1 DEF ViewNext
    <2> QED
      BY <1>1, <2>1, <2>2, CheckoutsNext
  <1>2. ASSUME NEW r \in Checkouts', NEW t \in Checkouts' PROVE Agree(req'[r], req'[t])
    <2>1. CASE r \in Checkouts /\ req'[r] = req[r] /\ t \in Checkouts /\ req'[t] = req[t]
      BY <2>1 DEF GInv
    <2>2. CASE UNCHANGED sales
      <3>1. /\ req'[r].gen = sales[req'[r].sale].gen => req'[r].lines = sales[req'[r].sale].lines
            /\ req'[t].gen = sales[req'[t].sale].gen => req'[t].lines = sales[req'[t].sale].lines
        BY <1>1, <2>2 DEF ViewNext
      <3>2. \/ req'[r].gen = sales[req'[r].sale].gen
            \/ req'[t].gen = sales[req'[t].sale].gen
            \/ r \in Checkouts /\ req'[r] = req[r] /\ t \in Checkouts /\ req'[t] = req[t]
        BY CheckoutsNext
      <3> QED
        BY <2>1, <3>1, <3>2 DEF Agree
    <2> QED
      BY <2>1, <2>2, CheckoutsNext
  <1> QED
    BY <1>1, <1>2

\* What holds of a payment goes on to hold.
LEMMA PaymentStays ==
  ASSUME TInv, RInv, GInv, [Next]_vars, NEW i \in DOMAIN payments
  PROVE  /\ payments[i] \in Payments
         /\ ViewNext(payments[i]) /\ (GuardNext(payments[i]) \/ SettledNext(payments[i]))
         /\ \A r \in Checkouts' : Agree(req'[r], payments[i])
  <1> DEFINE p == payments[i]
  <1>1. p \in Payments
    BY DEF TInv, TypeOK
  <1>2. /\ p.sale \in Sales /\ p.gen \in 0..MaxUpdates /\ p.lines \in Lines
        /\ p.advances \subseteq Advances
    BY <1>1 DEF Payments
  <1>3. View(p) /\ (Guard(p) \/ Settled(p)) /\ \A r \in Checkouts : Agree(req[r], p)
    BY DEF GInv
  <1> HIDE DEF p
  <1>c. SaleChange
    BY EveryStepKeeps
  <1>4. /\ ViewNext(p)
        /\ sales[p.sale].status # "DRAFT" => sales'[p.sale].status \notin {"none", "DRAFT"}
    BY <1>2, <1>3, <1>c, ViewStays
  <1>5. Guard(p) => GuardNext(p)
    <2>1. \A n \in DOMAIN p.lines : p.lines[n].epc # NoTag => p.lines[n].epc \in Items
      BY <1>2, LineTypes
    <2>2. TagsStay
      BY TagsOnlyLeave
    <2>3. \A a \in Advances : advances[a].status \notin {"none", "ACTIVE"}
                              => advances'[a].status \notin {"none", "ACTIVE"}
      BY EveryStepSpends DEF Spends
    <2> QED
      BY <1>2, <2>1, <2>2, <2>3 DEF Guard, GuardNext, TagsStay
  <1>6. Settled(p) => SettledNext(p)
    <2> SUFFICES ASSUME Settled(p) PROVE SettledNext(p)
      OBVIOUS
    <2>1. sales'[p.sale].status \notin {"none", "DRAFT"}
      BY <1>4 DEF Settled
    <2>2. \A r \in Checkouts' : req'[r].sale # p.sale
      BY CheckoutsNext DEF Settled
    <2> QED
      BY <2>1, <2>2 DEF SettledNext
  <1>7. ASSUME NEW r \in Checkouts' PROVE Agree(req'[r], p)
    <2>1. CASE r \in Checkouts /\ req'[r] = req[r]
      BY <1>3, <2>1
    <2>2. CASE req'[r].lines = sales[req'[r].sale].lines /\ req'[r].gen = sales[req'[r].sale].gen
      BY <1>3, <2>2 DEF View, Agree
    <2> QED
      BY <1>7, <2>1, <2>2, CheckoutsNext
  <1> QED
    BY <1>1, <1>3, <1>4, <1>5, <1>6, <1>7 DEF p

\* What GuardedCheckoutOnce allows of a second payment p of the lines of q.
Unguarded(q, p) ==
  /\ \A n \in DOMAIN q.lines : q.lines[n].epc = NoTag
  /\ q.advances \cap p.advances = {}

\* What GInv asks of the payments after a step that adds p, or none.
LEMMA PaymentsGInv ==
  ASSUME TInv, RInv, GInv, [Next]_vars, NEW p,
         \/ UNCHANGED payments
         \/ /\ p \in Payments /\ payments' = Append(payments, p)
            /\ ViewNext(p) /\ (GuardNext(p) \/ SettledNext(p))
            /\ \A r \in Checkouts' : Agree(req'[r], p)
            /\ \A i \in DOMAIN payments :
                 payments[i].sale = p.sale /\ payments[i].gen = p.gen => Unguarded(payments[i], p)
  PROVE  GInv'
  <1>t. payments \in Seq(Payments) /\ Len(payments) \in Nat /\ DOMAIN payments = 1..Len(payments)
    BY DEF TInv, TypeOK
  <1>1. /\ \A r \in Checkouts' : ViewNext(req'[r])
        /\ \A r, t \in Checkouts' : Agree(req'[r], req'[t])
    BY ViewsNext
  <1>2. \A i \in DOMAIN payments :
          /\ ViewNext(payments[i]) /\ (GuardNext(payments[i]) \/ SettledNext(payments[i]))
          /\ \A r \in Checkouts' : Agree(req'[r], payments[i])
    BY PaymentStays
  <1>3. GuardedCheckoutOnce
    BY DEF GInv
  <1>4. /\ GuardedCheckoutOnce'
        /\ \A i \in DOMAIN payments' :
             /\ ViewNext(payments'[i]) /\ (GuardNext(payments'[i]) \/ SettledNext(payments'[i]))
             /\ \A r \in Checkouts' : Agree(req'[r], payments'[i])
    <2>1. CASE UNCHANGED payments
      BY <1>2, <1>3, <2>1 DEF GuardedCheckoutOnce
    <2>2. CASE p \in Payments /\ payments' = Append(payments, p) /\ ~UNCHANGED payments
      <3>1. /\ DOMAIN payments' = 1..(Len(payments) + 1) /\ payments'[Len(payments) + 1] = p
            /\ \A i \in DOMAIN payments : payments'[i] = payments[i]
        <4>1. payments \in Seq(Payments) /\ p \in Payments /\ payments' = Append(payments, p)
          BY <1>t, <2>2
        <4>2. /\ DOMAIN Append(payments, p) = 1..(Len(payments) + 1)
              /\ Append(payments, p)[Len(payments) + 1] = p
              /\ \A i \in DOMAIN payments : Append(payments, p)[i] = payments[i]
          BY ONLY <4>1
        <4> QED
          BY ONLY <4>1, <4>2, Zenon
      <3>2. \A i \in DOMAIN payments' : i \in DOMAIN payments \/ i = Len(payments) + 1
        BY <1>t, <3>1
      <3>3. GuardedCheckoutOnce'
        <4> SUFFICES ASSUME NEW i \in DOMAIN payments', NEW j \in DOMAIN payments', i < j,
                            payments'[i].sale = payments'[j].sale, payments'[i].gen = payments'[j].gen
                     PROVE  Unguarded(payments'[i], payments'[j])
          BY DEF GuardedCheckoutOnce, Unguarded
        <4>1. i \in DOMAIN payments
          BY <1>t, <3>1, <3>2
        <4>2. CASE j \in DOMAIN payments
          BY <1>3, <3>1, <4>1, <4>2 DEF GuardedCheckoutOnce, Unguarded
        <4>3. CASE j = Len(payments) + 1
          BY <2>2, <3>1, <4>1, <4>3
        <4> QED
          BY <3>2, <4>2, <4>3
      <3> QED
        BY <1>2, <2>2, <3>1, <3>2, <3>3
    <2> QED
      BY <2>1, <2>2
  <1> QED
    BY <1>1, <1>4 DEF GInv, View, ViewNext, Guard, GuardNext, Settled, SettledNext, Agree

LEMMA StepGInv ==
  ASSUME TInv, RInv, GInv, [Next]_vars
  PROVE  GInv'
  <1>0. UNCHANGED payments => GInv'
    BY PaymentsGInv
  <1>1. ASSUME NEW r \in Requests, CheckoutCommit(r) PROVE GInv'
    <2> DEFINE q == req[r]
               p == [sale |-> q.sale, gen |-> q.gen, lines |-> q.lines,
                     advances |-> {q.advance} \ {NoAdvance}, amount |-> Due(q.lines)]
    <2>1. q \in Paying /\ r \in Checkouts
      BY <1>1, ReqKind, KindOf DEF CheckoutCommit, Checkouts
    <2>2. /\ q.sale \in Sales /\ q.gen \in 0..MaxUpdates /\ q.lines \in Lines
          /\ q.advance \in Advances \cup {NoAdvance}
      BY <2>1 DEF Paying
    <2>3. p \in Payments
      <3>1. Due(q.lines) \in Nat /\ {q.advance} \ {NoAdvance} \in SUBSET Advances
        BY <2>2, LineTypes
      <3> QED
        BY <2>2, <3>1 DEF Payments
    <2>4. /\ p.sale = q.sale /\ p.gen = q.gen /\ p.lines = q.lines
          /\ p.advances = {q.advance} \ {NoAdvance}
      OBVIOUS
    <2>5. /\ payments' = Append(payments, p)
          /\ \A n \in DOMAIN q.lines : q.lines[n].epc # NoTag => stock[q.lines[n].epc].epc
          /\ q.advance # NoAdvance => advances[q.advance].status = "ACTIVE"
          /\ stock' = Take(q.lines, FALSE)
          /\ q.advance # NoAdvance => advances' = [advances EXCEPT ![q.advance].status = "CONSUMED",
                                                                  ![q.advance].spent = @ + 1]
          /\ Finish(r)
      BY <1>1 DEF CheckoutCommit, CanTake, TagInStock, AdvanceIsActive
    <2>v. View(q)
      BY <2>1 DEF GInv
    <2>a. \A t \in Checkouts : Agree(req[t], q)
      BY <2>1 DEF GInv
    <2> HIDE DEF p
    <2>6. ViewNext(p)
      <3>1. SaleChange
        BY EveryStepKeeps
      <3>2. ViewNext(q)
        BY <2>2, <2>v, <3>1, ViewStays
      <3> QED
        BY <2>4, <3>2 DEF ViewNext
    <2>7. GuardNext(p)
      <3>2. ASSUME NEW n \in DOMAIN q.lines, q.lines[n].epc # NoTag
            PROVE  ~stock'[q.lines[n].epc].epc
        <4>1. q.lines[n].epc \in Items
          BY <2>2, <3>2, LineTypes
        <4>2. q.lines[n].epc \in Picked(q.lines)
          BY <3>2 DEF Picked, Picks
        <4> QED
          BY <2>5, <4>1, <4>2 DEF Take
      <3>3. ASSUME q.advance # NoAdvance PROVE advances'[q.advance].status \notin {"none", "ACTIVE"}
        <4>1. q.advance \in Advances /\ advances \in [Advances -> AdvanceRows]
          BY <2>2, <3>3 DEF TInv, TypeOK
        <4> HIDE DEF q
        <4> QED
          BY <2>5, <3>3, <4>1 DEF AdvanceRows
      <3> QED
        BY <2>4, <3>2, <3>3 DEF GuardNext
    <2>8. ASSUME NEW t \in Checkouts' PROVE Agree(req'[t], p)
      <3>1. t \in Checkouts /\ req'[t] = req[t]
        BY <2>5, FinishMoves DEF Checkouts, Done
      <3> QED
        BY <2>4, <2>a, <3>1 DEF Agree
    <2>9. ASSUME NEW i \in DOMAIN payments, payments[i].sale = p.sale, payments[i].gen = p.gen
          PROVE  Unguarded(payments[i], p)
      <3>1. Agree(q, payments[i]) /\ ~Settled(payments[i]) /\ (Guard(payments[i]) \/ Settled(payments[i]))
        BY <2>1, <2>4, <2>9 DEF GInv, Settled
      <3>2. payments[i].lines = q.lines
        BY <2>4, <2>9, <3>1 DEF Agree
      <3> QED
        BY <2>4, <2>5, <3>1, <3>2 DEF Guard, Unguarded
    <2> QED
      BY <2>3, <2>5, <2>6, <2>7, <2>8, <2>9, PaymentsGInv
  <1>2. ASSUME NEW r \in Requests, NEW n \in Sales, NEW l \in Payloads,
               NEW given \in [Advances -> 0..MaxQty], ExchangeCommit(r, n, l, given)
        PROVE  GInv'
    <2> DEFINE b == Batch(0, l)
               p == Paid(n, b, req[r].back, given)
    <2>1. p.sale = n /\ p.gen = 0 /\ p.lines = b
      BY DEF Paid
    <2>2. /\ sales[n].status = "none" /\ sales'[n].status = "PAID" /\ sales'[n].lines = b
          /\ sales'[n].gen = 0
      <3>1. Exchanges(req[r], n, b)
        BY <1>2, SaleEffects DEF Exchanging
      <3>2. SaleMade(sales[n])
        BY SaleTypes
      <3> QED
        BY <3>1, <3>2 DEF Exchanges, SameReturns, SaleMade
    <2>3. UNCHANGED payments \/ (p \in Payments /\ payments' = Append(payments, p))
      BY <1>2, ExchangePayment
    <2> HIDE DEF p
    <2>4. ViewNext(p)
      BY <2>1, <2>2 DEF ViewNext
    <2>5. \A t \in Checkouts' : req'[t].sale # n
      <3>1. Finish(r)
        BY <1>2 DEF ExchangeCommit
      <3>2. \A t \in Checkouts' : t \in Checkouts /\ req'[t] = req[t]
        BY <3>1, FinishMoves DEF Checkouts, Done
      <3>3. \A t \in Checkouts : sales[req[t].sale].status # "none"
        BY DEF Checkouts, TInv, Made, SaleOps
      <3> QED
        BY <2>2, <3>2, <3>3
    <2>6. SettledNext(p) /\ \A t \in Checkouts' : Agree(req'[t], p)
      BY <2>1, <2>2, <2>5 DEF SettledNext, Agree
    <2>7. \A i \in DOMAIN payments : payments[i].sale # p.sale
      BY <2>1, <2>2 DEF GInv, View
    <2> QED
      BY <2>3, <2>4, <2>6, <2>7, PaymentsGInv
  <1>3. ASSUME NEW r \in Requests, AnyRead(r) PROVE UNCHANGED payments
    BY <1>3, ReadIsCurrent DEF ReadStep
  <1>4. AnyDraftStep \/ AnyAdvanceStep => UNCHANGED payments
    BY DEF AnyDraftStep, CreateDraft, VoidCommit, CompleteCommit,
           AnyAdvanceStep, Issue, Lapse, MutateAdvance, Sweep, ExpireCommit
  <1>5. ASSUME NEW r \in Requests, NEW n \in Sales, NEW l \in Payloads, Exchanging(r, n, l)
        PROVE  GInv'
    BY <1>2, <1>5 DEF Exchanging
  <1> QED
    BY <1>0, <1>1, <1>3, <1>4, <1>5, NextCases
    DEF AnySaleStep, CreateSale, UpdateCommit, CancelCommit, RefundCommit, Drop, vars

LEMMA GInductive == Spec => []GInv
  <1>1. Init => GInv
    BY DEF Init, GInv, GuardedCheckoutOnce, Checkouts, Idle
  <1>2. TInv /\ RInv /\ GInv /\ [Next]_vars => GInv'
    BY StepGInv
  <1> QED
    BY <1>1, <1>2, TInductive, RInductive, PTL DEF Spec

\* Two checkouts of the same lines both commit only if nothing guards them:
\* pos_sales.py reads the sale without a lock, and the row of an EPC line, whose
\* EPC the first checkout clears, or the advance, which it consumes, is what
\* refuses the second.
THEOREM SpecGuardedCheckoutOnce == Spec => []GuardedCheckoutOnce
  <1>1. GInv => GuardedCheckoutOnce
    BY DEF GInv
  <1> QED
    BY <1>1, GInductive, PTL

(***************************************************************************)
(* Stock covers sales.  The lines count from the checkout that took them,  *)
(* and a sale is astray once its lines are not those a checkout took, and  *)
(* no checkout in hand would take them, or two of them took the same rows: *)
(* then it stays astray, for it is not a DRAFT any more.  While no sale    *)
(* is, the SOLD rows are at least what the sales are worth.                *)
(***************************************************************************)
Strayed(s) ==
  \/ sales[s].raced
  \/ sales[s].taken # -1 /\ ~Distinct(sales[s].lines)
  \/ /\ sales[s].taken \notin {-1, sales[s].gen}
     /\ \A r \in Checkouts : req[r].sale = s => req[r].gen # sales[s].gen

Gone(row)  == SumFunction([n \in DOMAIN row.lines |-> row.returned[n]])
Worth(row) == (IF row.taken = row.gen THEN Due(row.lines) ELSE 0) - Gone(row)
Worths     == [s \in Sales |-> Worth(sales[s])]

Took(row) ==
  /\ row.taken <= row.gen
  /\ IF row.taken = -1 THEN row.status # "PAID" /\ row.returned = Zero
                       ELSE row.status \in {"PAID", "CANCELED"}

\* What q returns was taken, and is of the lines the sale has.
Owed(q) == sales[q.sale].taken # -1 /\ (q.lines = sales[q.sale].lines \/ Strayed(q.sale))

CInv ==
  /\ \A s \in Sales : Took(sales[s])
  /\ \A r \in Requests : req[r].op \in {"refund", "exchange"} => Owed(req[r])
  /\ \A d \in Drafts : drafts[d].status # "none" => sales[drafts[d].sale].taken # -1
  /\ (\A s \in Sales : ~Strayed(s)) => SumFunction(Worths) <= Cardinality(Sold)

\* What a step does to sales and stock.
Keeps(s) ==
  /\ s \in Sales /\ UNCHANGED stock /\ sales'[s].taken = sales[s].taken
  /\ Sets(s, "CANCELED") \/ Updates(s) \/ \E l : Creates(s, l)

PaysFor(r) ==
  /\ r \in Checkouts /\ req[r] \in Paying /\ View(req[r])
  /\ Sets(req[r].sale, "PAID") /\ sales'[req[r].sale].taken = req[r].gen
  /\ CanTake(req[r].lines) /\ stock' = Take(req[r].lines, FALSE)

GivesBack(q) ==
  /\ Records(q) /\ Owed(q) /\ DOMAIN q.back = DOMAIN q.lines
  /\ stock' = [i \in Items |-> IF i \in Returned(q.lines, q.back)
                               THEN [stock[i] EXCEPT !.sold = FALSE] ELSE stock[i]]

Completes(q) == Records(q) /\ sales[q.sale].taken # -1 /\ UNCHANGED stock

Swaps(q, n, l) ==
  /\ Exchanges(q, n, l) /\ Owed(q) /\ DOMAIN q.back = DOMAIN q.lines
  /\ sales'[n].taken = 0 /\ CanTake(l) /\ stock' = ExchangedStock(q, l)

StockStep ==
  \/ UNCHANGED <<sales, stock>>
  \/ \E s : Keeps(s)
  \/ \E r : PaysFor(r)
  \/ \E q : GivesBack(q) \/ Completes(q) \/ \E n, l : Swaps(q, n, l)

LEMMA StockSteps ==
  ASSUME TInv, RInv, GInv, CInv, [Next]_vars
  PROVE  StockStep
  <1>1. ASSUME NEW r \in Requests, AnyRead(r) PROVE StockStep
    BY <1>1, ReadIsCurrent DEF ReadStep, StockStep
  <1>2. AnyAdvanceStep \/ UNCHANGED vars => StockStep
    BY DEF AnyAdvanceStep, Issue, Lapse, MutateAdvance, Sweep, ExpireCommit, vars, StockStep
  <1>3. ASSUME NEW r \in Requests, Drop(r) \/ VoidCommit(r) PROVE StockStep
    BY <1>3 DEF Drop, VoidCommit, StockStep
  <1>4. ASSUME NEW d \in Drafts, NEW s \in Sales, CreateDraft(d, s) PROVE StockStep
    BY <1>4 DEF CreateDraft, StockStep
  <1>5. ASSUME NEW r \in Requests, CompleteCommit(r) PROVE StockStep
    <2>1. req[r].draft \in Drafts /\ drafts[req[r].draft].status # "none"
      BY <1>5, DecidedDraft DEF CompleteCommit
    <2>2. Completes(drafts[req[r].draft])
      BY <1>5, <2>1, SaleEffects DEF Completes, CInv, CompleteCommit
    <2> QED
      BY <2>2 DEF StockStep
  <1>6. ASSUME NEW s \in Sales, NEW l \in Payloads, CreateSale(s, l) PROVE StockStep
    <2>1. Keeps(s)
      BY <1>6, SaleEffects DEF Keeps, CreateSale
    <2> QED
      BY <2>1 DEF StockStep
  <1>7. ASSUME NEW r \in Requests, NEW u \in 0..MaxUpdates, UpdateCommit(r, u) PROVE StockStep
    <2>1. Updates(req[r].sale) /\ sales'[req[r].sale].taken = sales[req[r].sale].taken
      BY <1>7, SaleEffects
    <2>2. Keeps(req[r].sale)
      BY <1>7, <2>1 DEF Keeps, Updates, UpdateCommit
    <2> QED
      BY <2>2 DEF StockStep
  <1>12. ASSUME NEW r \in Requests, CancelCommit(r) PROVE StockStep
    <2>1. Sets(req[r].sale, "CANCELED") /\ sales'[req[r].sale].taken = sales[req[r].sale].taken
      BY <1>12, SaleEffects
    <2>2. Keeps(req[r].sale)
      BY <1>12, <2>1 DEF Keeps, Sets, CancelCommit
    <2> QED
      BY <2>2 DEF StockStep
  <1>8. ASSUME NEW r \in Requests, CheckoutCommit(r) PROVE StockStep
    <2>1. r \in Checkouts /\ req[r] \in Paying
      BY <1>8, ReqKind, KindOf DEF CheckoutCommit, Checkouts
    <2>2. PaysFor(r)
      BY <1>8, <2>1, SaleEffects DEF PaysFor, CheckoutCommit, GInv
    <2> QED
      BY <2>2 DEF StockStep
  <1>9. ASSUME NEW r \in Requests, req[r].op \in {"refund", "exchange"}
        PROVE  Owed(req[r]) /\ DOMAIN req[r].back = DOMAIN req[r].lines
    BY <1>9 DEF CInv, TInv, Made
  <1>10. ASSUME NEW r \in Requests, RefundCommit(r) PROVE StockStep
    <2>1. GivesBack(req[r])
      BY <1>9, <1>10, SaleEffects DEF GivesBack, RefundCommit
    <2> QED
      BY <2>1 DEF StockStep
  <1>11. ASSUME NEW r \in Requests, NEW n \in Sales, NEW l \in Payloads, Exchanging(r, n, l)
         PROVE  StockStep
    <2>1. /\ req[r].op = "exchange" /\ CanTake(Batch(0, l))
          /\ stock' = ExchangedStock(req[r], Batch(0, l))
      BY <1>11 DEF Exchanging, ExchangeCommit
    <2>2. Swaps(req[r], n, Batch(0, l))
      BY <1>9, <1>11, <2>1, SaleEffects DEF Swaps
    <2> QED
      BY <2>2 DEF StockStep
  <1> QED
    BY <1>1, <1>2, <1>3, <1>4, <1>5, <1>6, <1>7, <1>8, <1>10, <1>11, <1>12, NextCases
    DEF AnyDraftStep, AnySaleStep

LEMMA RowsFinite ==
  /\ IsFiniteSet(Sold) /\ IsFiniteSet(Free) /\ Sold \in SUBSET Nat /\ Free \in SUBSET Nat
  /\ Cardinality(Sold) \in Nat /\ Cardinality(Free) \in Nat
  /\ \A n \in Nat : /\ IsFiniteSet(Oldest(Free, n)) /\ IsFiniteSet(Oldest(Sold, n))
                    /\ Cardinality(Free) >= n => Cardinality(Oldest(Free, n)) = n
                    /\ Cardinality(Oldest(Free, n)) \in Nat /\ Cardinality(Oldest(Free, n)) <= n
                    /\ Cardinality(Oldest(Sold, n)) \in Nat /\ Cardinality(Oldest(Sold, n)) <= n
  <1>1. /\ IsFiniteSet(Sold) /\ IsFiniteSet(Free) /\ Sold \in SUBSET Nat /\ Free \in SUBSET Nat
    BY ItemsAssumption, FS_Subset DEF Sold, Free
  <1>2. Cardinality(Sold) \in Nat /\ Cardinality(Free) \in Nat
    BY <1>1, FS_CardinalityType
  <1>3. ASSUME NEW n \in Nat, NEW J \in {Free, Sold}
        PROVE  /\ IsFiniteSet(Oldest(J, n))
               /\ Cardinality(Oldest(J, n)) = IF Cardinality(J) < n THEN Cardinality(J) ELSE n
    BY <1>1, OldestCount
  <1> QED
    BY <1>1, <1>2, <1>3

\* The rows that selling the lines l marks: as many as its units when no two
\* lines select the same ones.
LEMMA SelectedCount ==
  ASSUME TInv, NEW l \in Lines, CanTake(l)
  PROVE  /\ \A keep \in BOOLEAN : {i \in Items : Take(l, keep)[i].sold} = Sold \cup Picked(l)
         /\ IsFiniteSet(Sold \cup Picked(l)) /\ Cardinality(Sold \cup Picked(l)) \in Nat
         /\ Cardinality(Sold \cup Picked(l)) >= Cardinality(Sold)
         /\ Distinct(l) => Cardinality(Sold \cup Picked(l)) = Cardinality(Sold) + Due(l)
  <1> DEFINE I == DOMAIN l
             P == [n \in I |-> Picks(l[n])]
             f == [n \in I |-> l[n].qty]
  <1>1. /\ IsFiniteSet(I) /\ f \in [I -> Nat] /\ Due(l) = SumFunction(f)
        /\ \A n \in I : l[n].qty \in Nat /\ (l[n].epc # NoTag => l[n].epc \in Items /\ l[n].qty = 1)
    BY LineTypes DEF Due
  <1>2. ASSUME NEW n \in I
        PROVE  /\ IsFiniteSet(P[n]) /\ Cardinality(P[n]) = f[n]
               /\ P[n] \subseteq Items /\ P[n] \cap Sold = {}
               /\ IF l[n].epc = NoTag THEN P[n] \subseteq Free ELSE P[n] = {l[n].epc} /\ P[n] \cap Free = {}
    <2>1. CASE l[n].epc = NoTag
      <3>1. Cardinality(Free) >= l[n].qty /\ P[n] = Oldest(Free, l[n].qty)
        BY <2>1 DEF CanTake, Picks
      <3>2. P[n] \subseteq Free
        BY <3>1 DEF Oldest
      <3>3. IsFiniteSet(P[n]) /\ Cardinality(P[n]) = l[n].qty
        BY <1>1, <3>1, RowsFinite
      <3> QED
        BY <2>1, <3>2, <3>3 DEF Free, Sold
    <2>2. CASE l[n].epc # NoTag
      <3>1. P[n] = {l[n].epc} /\ stock[l[n].epc].epc /\ ~stock[l[n].epc].sold
        BY <2>2 DEF CanTake, TagInStock, Picks
      <3>s. IsFiniteSet({l[n].epc}) /\ Cardinality({l[n].epc}) = 1
        BY FS_Singleton
      <3> HIDE DEF P
      <3>2. IsFiniteSet(P[n]) /\ Cardinality(P[n]) = 1
        BY <3>1, <3>s
      <3> USE DEF P
      <3> QED
        BY <1>1, <2>2, <3>1, <3>2 DEF Free, Sold
    <2> QED
      BY <2>1, <2>2
  <1>3. Picked(l) = UNION {P[n] : n \in I} /\ Picked(l) \subseteq Items /\ Picked(l) \cap Sold = {}
    <2>1. Picked(l) = UNION {P[n] : n \in I}
      BY DEF Picked
    <2> QED
      BY <1>2, <2>1
  <1>4. ASSUME Distinct(l), NEW n \in I, NEW m \in I \ {n} PROVE P[n] \cap P[m] = {}
    <2>1. l[n].epc # l[m].epc
      BY <1>4 DEF Distinct
    <2> QED
      BY <1>2, <2>1
  <1>5. ASSUME NEW keep \in BOOLEAN
        PROVE  {i \in Items : Take(l, keep)[i].sold} = Sold \cup Picked(l)
    BY <1>3 DEF Take, Sold
  <1> HIDE DEF P, f, I
  <1>6. /\ IsFiniteSet(Picked(l)) /\ Cardinality(Picked(l)) \in Nat
        /\ Distinct(l) => Cardinality(Picked(l)) = Due(l)
    <2>1. Covers(I, P, f)
      BY <1>1, <1>2 DEF Covers
    <2>2. Distinct(l) => Apart(I, P, f)
      BY <1>2, <1>4 DEF Apart
    <2>3. Picked(l) = All(P, I)
      BY <1>3 DEF All
    <2> QED
      BY <1>1, <2>1, <2>2, <2>3, UnionCount
  <1>7. /\ IsFiniteSet(Sold \cup Picked(l))
        /\ Cardinality(Sold \cup Picked(l)) = Cardinality(Sold) + Cardinality(Picked(l))
    <2>1. Sold \cap Picked(l) = {}
      BY <1>3
    <2>s. IsFiniteSet(Sold)
      BY RowsFinite
    <2>2. /\ IsFiniteSet(Sold \cup Picked(l))
          /\ Cardinality(Sold \cup Picked(l)) = Cardinality(Sold) + Cardinality(Picked(l)) - Cardinality({})
      BY <1>6, <2>1, <2>s, FS_Union
    <2> QED
      BY <1>6, <2>2, RowsFinite, FS_EmptySet
  <1> QED
    BY <1>5, <1>6, <1>7, RowsFinite

\* Returning the units of c frees no more rows than that.
LEMMA ReturnedCount ==
  ASSUME TInv, NEW l, NEW c \in Backs, NEW S, IsFiniteSet(S)
  PROVE  /\ IsFiniteSet(S \ Returned(l, c))
         /\ Cardinality(S) \in Nat /\ Cardinality(S \ Returned(l, c)) \in Nat
         /\ Cardinality(S \ Returned(l, c)) >= Cardinality(S) - Units(c)
  <1> DEFINE I == DOMAIN c
             P == [n \in I |-> IF n \in Named(c) THEN Frees(l[n], c[n].most) ELSE {}]
             f == [n \in I |-> c[n].all]
             R == Returned(l, c)
  <1>1. /\ IsFiniteSet(I) /\ f \in [I -> Nat] /\ Units(c) = SumFunction(f) /\ Units(c) \in Nat
        /\ Named(c) \subseteq I
        /\ \A n \in I : c[n].most \in Nat /\ c[n].all \in Nat /\ c[n].most <= c[n].all
        /\ \A n \in Named(c) : c[n].most > 0
    BY BackTypes DEF Units, Named
  <1>2. ASSUME NEW n \in I PROVE IsFiniteSet(P[n]) /\ Cardinality(P[n]) <= f[n]
    <2>1. CASE n \notin Named(c)
      BY <1>1, <2>1, FS_EmptySet
    <2>2. CASE n \in Named(c) /\ l[n].epc = NoTag
      <3>1. P[n] = Oldest(Sold, c[n].most)
        BY <2>2 DEF Frees
      <3>2. IsFiniteSet(P[n]) /\ Cardinality(P[n]) \in Nat /\ Cardinality(P[n]) <= c[n].most
        BY <1>1, <3>1, RowsFinite
      <3> QED
        BY <1>1, <3>2
    <2>3. CASE n \in Named(c) /\ l[n].epc # NoTag
      <3>1. P[n] = {l[n].epc}
        BY <2>3 DEF Frees
      <3>s. IsFiniteSet({l[n].epc}) /\ Cardinality({l[n].epc}) = 1
        BY FS_Singleton
      <3> HIDE DEF P
      <3>2. IsFiniteSet(P[n]) /\ Cardinality(P[n]) = 1
        BY <3>1, <3>s
      <3> USE DEF P
      <3> QED
        BY <1>1, <2>3, <3>2
    <2> QED
      BY <2>1, <2>2, <2>3
  <1>3. R = UNION {P[n] : n \in I}
    BY <1>1 DEF Returned
  <1> HIDE DEF P, f, I, R
  <1>4. IsFiniteSet(R) /\ Cardinality(R) \in Nat /\ Cardinality(R) <= Units(c)
    <2>1. Covers(I, P, f)
      BY <1>1, <1>2 DEF Covers
    <2>2. R = All(P, I)
      BY <1>3 DEF All
    <2> QED
      BY <1>1, <2>1, <2>2, UnionCount
  <1>5. /\ IsFiniteSet(S \ R) /\ Cardinality(S \ R) = Cardinality(S) - Cardinality(S \cap R)
        /\ IsFiniteSet(S \cap R) /\ Cardinality(S \cap R) <= Cardinality(R)
    BY <1>4, FS_Difference, FS_Intersection
  <1>6. Cardinality(S) \in Nat /\ Cardinality(S \ R) \in Nat /\ Cardinality(S \cap R) \in Nat
    BY <1>5, FS_CardinalityType
  <1>7. Cardinality(S \ R) >= Cardinality(S) - Units(c)
    BY <1>1, <1>4, <1>5, <1>6
  <1> QED
    BY <1>5, <1>6, <1>7 DEF R

\* The SOLD rows after each kind of step.
LEMMA SoldNext ==
  ASSUME TInv
  PROVE  /\ UNCHANGED stock => Cardinality(Sold') = Cardinality(Sold)
         /\ \A r : PaysFor(r) =>
              /\ Cardinality(Sold') >= Cardinality(Sold)
              /\ Distinct(req[r].lines) => Cardinality(Sold') = Cardinality(Sold) + Due(req[r].lines)
         /\ \A q : GivesBack(q) => Cardinality(Sold') >= Cardinality(Sold) - Units(q.back)
         /\ \A q, n, l : Swaps(q, n, l) /\ Distinct(l) =>
              Cardinality(Sold') >= Cardinality(Sold) + Due(l) - Units(q.back)
         /\ Cardinality(Sold) \in Nat /\ Cardinality(Sold') \in Nat
  <1>s. stock \in [Items -> StockRows]
    BY DEF TInv, TypeOK
  <1>f. IsFiniteSet(Sold) /\ Cardinality(Sold) \in Nat /\ Cardinality(Sold') \in Nat
    <2>1. IsFiniteSet(Sold) /\ IsFiniteSet(Sold')
      BY ItemsAssumption, FS_Subset DEF Sold
    <2> QED
      BY <2>1, FS_CardinalityType
  <1>1. UNCHANGED stock => Cardinality(Sold') = Cardinality(Sold)
    BY DEF Sold
  <1>2. ASSUME NEW r, PaysFor(r)
        PROVE  /\ Cardinality(Sold') >= Cardinality(Sold)
               /\ Distinct(req[r].lines) => Cardinality(Sold') = Cardinality(Sold) + Due(req[r].lines)
    <2>1. req[r].lines \in Lines /\ CanTake(req[r].lines)
      BY <1>2 DEF PaysFor, Paying
    <2>2. Sold' = {i \in Items : Take(req[r].lines, FALSE)[i].sold}
      BY <1>2 DEF PaysFor, Sold
    <2> QED
      BY <2>1, <2>2, SelectedCount
  <1>e. \A row \in StockRows : ~[row EXCEPT !.sold = FALSE].sold
    BY DEF StockRows
  <1>3. ASSUME NEW q, GivesBack(q) PROVE Cardinality(Sold') >= Cardinality(Sold) - Units(q.back)
    <2>1. q.back \in Backs
      BY <1>3 DEF GivesBack, Records, Returns
    <2>2. Sold' = Sold \ Returned(q.lines, q.back)
      BY <1>3, <1>s, <1>e DEF GivesBack, Sold
    <2> QED
      BY <1>f, <2>1, <2>2, ReturnedCount
  <1>4. ASSUME NEW q, NEW n, NEW l, Swaps(q, n, l), Distinct(l)
        PROVE  Cardinality(Sold') >= Cardinality(Sold) + Due(l) - Units(q.back)
    <2>1. q.back \in Backs /\ l \in Lines /\ CanTake(l)
      BY <1>4 DEF Swaps, Exchanges, Returns
    <2> DEFINE S == Sold \cup Picked(l)
    <2>3. {i \in Items : Take(l, TRUE)[i].sold} = S
      BY <2>1, SelectedCount
    <2>4. Sold' = S \ Returned(q.lines, q.back)
      <3> HIDE DEF S
      <3>1. ASSUME NEW i \in Items
            PROVE  stock'[i].sold <=> i \in S /\ i \notin Returned(q.lines, q.back)
        BY <1>4, <1>e, <1>s, <2>3 DEF Swaps, ExchangedStock
      <3>2. S \subseteq Items
        BY <2>3
      <3> QED
        BY <3>1, <3>2 DEF Sold
    <2>5. /\ IsFiniteSet(S) /\ Cardinality(S) = Cardinality(Sold) + Due(l)
          /\ Due(l) \in Nat /\ Units(q.back) \in Nat
      BY <1>4, <2>1, SelectedCount, LineTypes, BackTypes
    <2> HIDE DEF S
    <2>6. Cardinality(S \ Returned(q.lines, q.back)) >= Cardinality(S) - Units(q.back)
      BY <2>1, <2>5, ReturnedCount
    <2> QED
      BY <1>f, <2>4, <2>5, <2>6
  <1> QED
    BY <1>1, <1>2, <1>3, <1>4, <1>f

\* What a step leaves of the row of a sale.
LEMMA RowsStay ==
  ASSUME TInv, CInv, StockStep, NEW s \in Sales
  PROVE  /\ Took(sales'[s])
         /\ sales[s].raced => sales'[s].raced
         /\ sales[s].taken # -1 => sales'[s].taken # -1
         /\ \/ sales'[s].gen = sales[s].gen + 1 /\ sales'[s].taken = sales[s].taken
            \/ /\ sales'[s].gen = sales[s].gen
               /\ sales[s].taken # -1 => sales'[s].lines = sales[s].lines
               /\ \/ sales'[s].taken = sales[s].taken \/ sales[s].taken = -1
                  \/ \E r \in Checkouts : req[r].sale = s /\ sales'[s].taken = req[r].gen
  <1> DEFINE goal == /\ Took(sales'[s])
                     /\ sales[s].raced => sales'[s].raced
                     /\ sales[s].taken # -1 => sales'[s].taken # -1
                     /\ \/ sales'[s].gen = sales[s].gen + 1 /\ sales'[s].taken = sales[s].taken
                        \/ /\ sales'[s].gen = sales[s].gen
                           /\ sales[s].taken # -1 => sales'[s].lines = sales[s].lines
                           /\ \/ sales'[s].taken = sales[s].taken \/ sales[s].taken = -1
                              \/ \E r \in Checkouts : req[r].sale = s /\ sales'[s].taken = req[r].gen
  <1>t. \A t \in Sales : sales[t].gen \in Nat /\ sales[t].taken \in Int /\ Took(sales[t])
    BY SaleTypes, RowTypes DEF CInv
  <1>0. sales'[s] = sales[s] => goal
    BY <1>t
  <1>1. ASSUME Keeps(s) PROVE goal
    <2>1. ASSUME Sets(s, "CANCELED") PROVE goal
      BY <1>1, <1>t, <2>1 DEF Keeps, Sets, SameReturns, Took
    <2>2. ASSUME NEW l, Creates(s, l) PROVE goal
      BY <1>1, <1>t, <2>2 DEF Keeps, Creates, SameReturns, Took
    <2>3. ASSUME Updates(s) PROVE goal
      <3>1. /\ sales'[s].status = sales[s].status /\ sales'[s].gen = sales[s].gen + 1
            /\ sales'[s].returned = sales[s].returned /\ sales'[s].raced = sales[s].raced
            /\ sales'[s].taken = sales[s].taken
        BY <1>1, <2>3 DEF Keeps, Updates
      <3>2. Took(sales'[s])
        BY <1>t, <3>1 DEF Took
      <3> QED
        BY <3>1, <3>2
    <2> QED
      BY <1>1, <2>1, <2>2, <2>3 DEF Keeps
  <1>2. ASSUME NEW r, PaysFor(r), req[r].sale = s PROVE goal
    <2>1. req[r].gen \in Nat /\ req[r].gen <= sales[s].gen /\ r \in Checkouts
      BY <1>2, Bounds DEF PaysFor, Paying, View
    <2>2. /\ sales'[s].gen = sales[s].gen /\ sales'[s].raced = sales[s].raced
          /\ sales'[s].status = "PAID" /\ sales'[s].taken = req[r].gen
          /\ sales'[s].lines = sales[s].lines
      BY <1>2 DEF PaysFor, Sets, SameReturns
    <2>3. sales'[s].taken # -1 /\ Took(sales'[s])
      BY <2>1, <2>2 DEF Took
    <2> QED
      BY <1>2, <2>1, <2>2, <2>3
  <1>3. ASSUME NEW q, q.sale = s, sales[s].taken # -1, Returns(q) PROVE goal
    <2>1. /\ sales'[s].status = sales[s].status /\ sales'[s].gen = sales[s].gen
          /\ sales'[s].taken = sales[s].taken /\ sales'[s].lines = sales[s].lines
          /\ sales[s].raced => sales'[s].raced
      BY <1>3, RecordType DEF Returns
    <2> QED
      BY <1>3, <1>t, <2>1 DEF Took
  <1>4. ASSUME NEW q, NEW l, Swaps(q, s, l) PROVE goal
    <2>1. /\ sales[s].status = "none" /\ sales'[s].gen = sales[s].gen /\ sales'[s].raced = sales[s].raced
          /\ sales'[s].status = "PAID" /\ sales'[s].taken = 0
      BY <1>4 DEF Swaps, Exchanges, SameReturns
    <2>2. sales[s].taken = -1 /\ sales[s].gen = 0
      BY <1>t, <2>1, SaleTypes DEF Took, SaleMade
    <2> QED
      BY <2>1, <2>2 DEF Took
  <1> HIDE DEF goal
  <1>5. ASSUME NEW t, Keeps(t) PROVE goal
    BY <1>0, <1>1, <1>5 DEF Keeps, Sets, Creates, Updates, OnlySale
  <1>6. ASSUME NEW r, PaysFor(r) PROVE goal
    BY <1>0, <1>2, <1>6 DEF PaysFor, Sets, OnlySale
  <1>7. ASSUME NEW q, GivesBack(q) \/ Completes(q) PROVE goal
    BY <1>0, <1>3, <1>7 DEF GivesBack, Completes, Records, OnlySale, Owed
  <1>8. ASSUME NEW q, NEW n, NEW l, Swaps(q, n, l) PROVE goal
    BY <1>0, <1>3, <1>4, <1>8 DEF Swaps, Exchanges, Owed
  <1>9. goal
    BY <1>0, <1>5, <1>6, <1>7, <1>8 DEF StockStep
  <1> QED
    BY <1>9 DEF goal

\* A checkout of a sale that was taken before is one that was in hand already.
LEMMA CheckoutsOfTaken ==
  ASSUME TInv, RInv, GInv, CInv, [Next]_vars, NEW s \in Sales, sales[s].taken # -1,
         NEW r \in Checkouts', req'[r].sale = s
  PROVE  r \in Checkouts /\ req'[r] = req[r] /\ req[r].gen <= sales[s].gen
  <1>1. sales[s].status # "DRAFT"
    BY DEF CInv, Took
  <1>2. r \in Checkouts /\ req'[r] = req[r]
    BY <1>1, CheckoutsNext
  <1> QED
    BY <1>2 DEF GInv, View

\* A sale is astray for good, and one whose lines change after they were taken is.
LEMMA StrayedStays ==
  ASSUME TInv, RInv, GInv, CInv, [Next]_vars, NEW s \in Sales,
         Strayed(s) \/ (sales[s].taken # -1 /\ sales'[s].gen = sales[s].gen + 1)
  PROVE  Strayed(s)'
  <1>1. StockStep
    BY StockSteps
  <1>t. sales[s].gen \in Nat /\ sales[s].taken \in Int /\ Took(sales[s])
    BY SaleTypes, RowTypes DEF CInv
  <1>2. CASE sales[s].raced
    BY <1>1, <1>2, RowsStay DEF Strayed
  <1>3. CASE sales[s].taken # -1 /\ sales'[s].gen = sales[s].gen + 1
    <2>1. sales'[s].taken = sales[s].taken
      BY <1>1, <1>3, <1>t, RowsStay
    <2>2. sales'[s].taken \notin {-1, sales'[s].gen}
      BY <1>3, <1>t, <2>1 DEF Took
    <2>3. ASSUME NEW r \in Checkouts', req'[r].sale = s PROVE req'[r].gen # sales'[s].gen
      <3>1. req'[r].gen <= sales[s].gen /\ req'[r].gen \in Nat
        BY <1>3, <2>3, CheckoutsOfTaken, CheckoutsNext, Bounds
      <3> QED
        BY <1>3, <1>t, <3>1
    <2> QED
      BY <2>2, <2>3 DEF Strayed
  <1>4. CASE /\ sales'[s].gen = sales[s].gen /\ sales[s].taken \notin {-1, sales[s].gen}
             /\ \A r \in Checkouts : req[r].sale = s => req[r].gen # sales[s].gen
    <2>1. sales'[s].taken # -1
      BY <1>1, <1>4, RowsStay
    <2>2. sales'[s].taken # sales'[s].gen
      BY <1>1, <1>4, <1>t, RowsStay
    <2>3. ASSUME NEW r \in Checkouts', req'[r].sale = s PROVE req'[r].gen # sales'[s].gen
      BY <1>4, <2>3, CheckoutsOfTaken
    <2> QED
      BY <2>1, <2>2, <2>3 DEF Strayed
  <1>6. CASE /\ sales'[s].gen = sales[s].gen /\ sales[s].taken # -1 /\ ~Distinct(sales[s].lines)
    <2>1. sales'[s].lines = sales[s].lines /\ sales'[s].taken # -1
      BY <1>1, <1>6, <1>t, RowsStay
    <2> QED
      BY <1>6, <2>1 DEF Strayed, Distinct
  <1>5. sales'[s].gen \in {sales[s].gen, sales[s].gen + 1}
    BY <1>1, RowsStay
  <1> QED
    BY <1>2, <1>3, <1>4, <1>5, <1>6 DEF Strayed

LEMMA OwedStays ==
  ASSUME TInv, RInv, GInv, CInv, [Next]_vars
  PROVE  /\ \A r \in Requests : req'[r].op \in {"refund", "exchange"} =>
              /\ sales'[req'[r].sale].taken # -1
              /\ \/ req'[r].lines = sales'[req'[r].sale].lines
                 \/ \E s \in Sales : s = req'[r].sale /\ Strayed(s)'
         /\ \A d \in Drafts : drafts'[d].status # "none" => sales'[drafts'[d].sale].taken # -1
  <1>1. StockStep /\ RequestsKeep /\ DraftsKeep
    BY StockSteps, EveryStepKeeps
  <1>p. \A s \in Sales : sales[s].status = "PAID" => sales[s].taken # -1
    BY DEF CInv, Took
  <1>2. ASSUME NEW r \in Requests, req'[r].op \in {"refund", "exchange"}
        PROVE  /\ sales'[req'[r].sale].taken # -1
               /\ \/ req'[r].lines = sales'[req'[r].sale].lines
                  \/ \E s \in Sales : s = req'[r].sale /\ Strayed(s)'
    <2>1. req'[r] # Done
      BY <1>2 DEF Done
    <2>2. CASE req'[r] = req[r]
      <3>1. PICK s \in Sales : s = req[r].sale
        BY <1>2, <2>2, ReqKind, KindOf DEF Returning
      <3>2. sales[s].taken # -1 /\ (req[r].lines = sales[s].lines \/ Strayed(s))
        BY <1>2, <2>2, <3>1 DEF CInv, Owed
      <3>3. /\ sales'[s].taken # -1
            /\ \/ sales'[s].gen = sales[s].gen + 1
               \/ sales'[s].gen = sales[s].gen /\ sales'[s].lines = sales[s].lines
        BY <1>1, <3>1, <3>2, RowsStay
      <3>4. req[r].lines = sales'[s].lines \/ Strayed(s)'
        BY <3>1, <3>2, <3>3, StrayedStays
      <3> QED
        BY <2>2, <3>1, <3>3, <3>4
    <2>3. CASE UNCHANGED sales /\ Current(req'[r])
      <3>1. req'[r].sale \in Sales
        BY <1>2, <2>3, KindOf DEF Current, SaleOps
      <3>2. req'[r].lines = sales[req'[r].sale].lines /\ sales[req'[r].sale].status = "PAID"
        BY <1>2, <2>3 DEF Current
      <3> QED
        BY <1>p, <2>3, <3>1, <3>2
    <2> QED
      BY <1>1, <2>1, <2>2, <2>3 DEF RequestsKeep
  <1>3. ASSUME NEW d \in Drafts, drafts'[d].status # "none" PROVE sales'[drafts'[d].sale].taken # -1
    <2>1. CASE drafts[d].status # "none" /\ drafts'[d].sale = drafts[d].sale
      <3>1. drafts[d].sale \in Sales /\ sales[drafts[d].sale].taken # -1
        BY <2>1, DraftOf DEF CInv
      <3>2. sales'[drafts[d].sale].taken # -1
        BY <1>1, <3>1, RowsStay
      <3> QED
        BY <2>1, <3>2
    <2>2. CASE /\ UNCHANGED sales /\ drafts'[d].sale \in Sales
               /\ sales[drafts'[d].sale].status = "PAID"
      BY <1>p, <2>2
    <2> QED
      BY <1>1, <1>3, <2>1, <2>2 DEF DraftsKeep
  <1> QED
    BY <1>2, <1>3

LEMMA WorthTypes ==
  ASSUME TInv
  PROVE  /\ Ints(Worths, Sales) /\ DOMAIN Worths = Sales
         /\ \A row \in SaleRows : Worth(row) \in Int /\ Gone(row) \in Nat /\ Due(row.lines) \in Nat
  <1>1. ASSUME NEW row \in SaleRows
        PROVE  Worth(row) \in Int /\ Gone(row) \in Nat /\ Due(row.lines) \in Nat
    <2>1. /\ IsFiniteSet(DOMAIN row.lines) /\ Due(row.lines) \in Nat
          /\ \A n \in DOMAIN row.lines : row.returned[n] \in Nat
      BY RowTypes, LineTypes
    <2>2. Gone(row) \in Nat
      BY <2>1, SumNat DEF Gone
    <2> QED
      BY <2>1, <2>2 DEF Worth
  <1> QED
    BY <1>1, SaleTypes DEF Ints, Worths

\* Nothing is gone of a sale of which nothing was returned.
LEMMA NothingGone ==
  ASSUME NEW row \in SaleRows, row.returned = Zero
  PROVE  Gone(row) = 0
  <1>1. IsFiniteSet(DOMAIN row.lines) /\ \A n \in DOMAIN row.lines : row.returned[n] = 0
    BY RowTypes, LineTypes, LineIdTypes
  <1> QED
    BY <1>1, SumZero DEF Gone

\* A step that changes the worth of one sale.
LEMMA OneWorth ==
  ASSUME TInv, NEW s \in Sales, OnlySale(s), NEW d \in Int, Worth(sales'[s]) <= Worth(sales[s]) + d
  PROVE  SumFunction(Worths') <= SumFunction(Worths) + d
  <1>1. Ints(Worths, Sales) /\ Ints(Worths', Sales)
    BY WorthTypes DEF OnlySale, Ints, Worths
  <1>2. Worths'[s] <= Worths[s] + d
    BY DEF Worths
  <1>3. \A x \in Sales \ {s} : Worths'[x] <= Worths[x]
    <2> TAKE x \in Sales \ {s}
    <2>1. Worths'[x] = Worths[x] /\ Worths[x] \in Int
      BY <1>1 DEF OnlySale, Worths, Ints
    <2> QED
      BY <2>1
  <1> DEFINE f == Worths
             e == Worths'
  <1>4. /\ Ints(f, Sales) /\ Ints(e, Sales) /\ e[s] <= f[s] + d /\ \A x \in Sales \ {s} : e[x] <= f[x]
        /\ DOMAIN f = Sales /\ DOMAIN e = Sales
    BY <1>1, <1>2, <1>3 DEF Worths
  <1> HIDE DEF f, e
  <1>5. SumFunction(e) <= SumFunction(f) + d
    BY <1>4, SumShift, SalesAssumption
  <1> QED
    BY <1>5 DEF e, f

\* A return takes its units off the worth of its sale, if they are of its lines.
LEMMA RecordWorth ==
  ASSUME TInv, NEW q, Returns(q)
  PROVE  /\ Worth(sales'[q.sale]) <= Worth(sales[q.sale])
         /\ DOMAIN q.back = DOMAIN sales[q.sale].lines =>
              Worth(sales'[q.sale]) = Worth(sales[q.sale]) - Units(q.back)
  <1> DEFINE old == sales[q.sale]
             new == sales'[q.sale]
             I == DOMAIN old.lines
             there == Named(q.back) \cap I
             f == [n \in I |-> new.returned[n]]
             e == [n \in I |-> old.returned[n]]
             d == [n \in I |-> q.back[n].all]
  <1>1. /\ old \in SaleRows /\ new.taken = old.taken /\ new.gen = old.gen /\ new.lines = old.lines
        /\ new \in SaleRows
        /\ \A n \in LineIds : new.returned[n] = old.returned[n] + (IF n \in there THEN q.back[n].all ELSE 0)
    BY RecordType, SaleTypes DEF Returns
  <1>2. /\ IsFiniteSet(I) /\ \A n \in I : n \in LineIds /\ old.returned[n] \in Nat /\ new.returned[n] \in Nat
    BY <1>1, RowTypes, LineTypes
  <1>3. \A n \in DOMAIN q.back : q.back[n].all \in Nat /\ (n \notin Named(q.back) => q.back[n].all = 0)
    BY BackTypes DEF Returns
  <1>4. Named(q.back) \subseteq DOMAIN q.back
    BY DEF Named
  <1>5. Gone(old) = SumFunction(e) /\ Gone(new) = SumFunction(f)
    BY <1>1 DEF Gone
  <1>6. Gone(old) \in Nat /\ Gone(new) \in Nat /\ Due(old.lines) \in Nat
    BY <1>1, WorthTypes
  <1>7. Gone(old) <= Gone(new)
    <2>1. \A n \in I : e[n] <= f[n]
      BY <1>1, <1>2, <1>3, <1>4
    <2>2. Ints(e, I) /\ Ints(f, I) /\ DOMAIN e = I /\ DOMAIN f = I
      BY <1>2 DEF Ints
    <2> HIDE DEF e, f, I
    <2> QED
      BY <1>2, <1>5, <2>1, <2>2, SumLess
  <1>8. ASSUME DOMAIN q.back = I PROVE Gone(new) = Gone(old) + Units(q.back)
    <2>1. \A n \in I : f[n] = e[n] + d[n]
      BY <1>1, <1>2, <1>3, <1>8
    <2>2. Ints(e, I) /\ Ints(d, I) /\ DOMAIN e = I /\ DOMAIN f = I /\ DOMAIN d = I
      BY <1>2, <1>3, <1>8 DEF Ints
    <2>3. Units(q.back) = SumFunction(d)
      BY <1>8 DEF Units
    <2> HIDE DEF e, f, d, I
    <2> QED
      BY <1>2, <1>5, <2>1, <2>2, <2>3, SumPlus
  <1>9. Units(q.back) \in Nat
    BY BackTypes DEF Returns
  <1>10. /\ Worth(old) = (IF old.taken = old.gen THEN Due(old.lines) ELSE 0) - Gone(old)
         /\ Worth(new) = (IF old.taken = old.gen THEN Due(old.lines) ELSE 0) - Gone(new)
    BY <1>1 DEF Worth
  <1> HIDE DEF new, old
  <1>11. Worth(new) <= Worth(old)
    BY <1>6, <1>7, <1>10
  <1>12. DOMAIN q.back = I => Worth(new) = Worth(old) - Units(q.back)
    BY <1>6, <1>8, <1>9, <1>10
  <1> QED
    BY <1>11, <1>12 DEF new, old


\* The sum of the worths rises by no more than the SOLD rows.
LEMMA CoverStays ==
  ASSUME TInv, RInv, GInv, CInv, [Next]_vars, \A s \in Sales : ~Strayed(s)'
  PROVE  SumFunction(Worths') <= Cardinality(Sold')
  <1> DEFINE goal == SumFunction(Worths') <= Cardinality(Sold')
  <1>1. StockStep
    BY StockSteps
  <1>2. \A s \in Sales : ~Strayed(s) /\ (sales[s].taken # -1 => sales'[s].gen # sales[s].gen + 1)
    BY StrayedStays
  <1>3. SumFunction(Worths) <= Cardinality(Sold) /\ SumFunction(Worths) \in Int
    BY <1>2, WorthTypes, SumType, SalesAssumption DEF CInv
  <1>t. \A s \in Sales : /\ sales[s].gen \in Nat /\ sales[s].taken \in Int /\ Took(sales[s])
                         /\ sales[s] \in SaleRows /\ Worth(sales[s]) \in Int
                         /\ Gone(sales[s]) \in Nat /\ Due(sales[s].lines) \in Nat
    BY SaleTypes, RowTypes, WorthTypes DEF CInv
  <1>4. ASSUME NEW d \in Int, SumFunction(Worths') <= SumFunction(Worths) + d,
               SumFunction(Worths') \in Int, Cardinality(Sold') >= Cardinality(Sold) + d
        PROVE  goal
    BY <1>3, <1>4, SoldNext
  <1>5. sales' \in [Sales -> SaleRows] => SumFunction(Worths') \in Int
    <2> SUFFICES ASSUME sales' \in [Sales -> SaleRows] PROVE SumFunction(Worths') \in Int
      OBVIOUS
    <2> DEFINE e == Worths'
    <2>1. Ints(e, Sales) /\ DOMAIN e = Sales
      BY WorthTypes DEF Ints, Worths
    <2> HIDE DEF e
    <2>2. SumFunction(e) \in Int
      BY <2>1, SumType, SalesAssumption
    <2> QED
      BY <2>2 DEF e
  <1> HIDE DEF goal
  <1>6. ASSUME NEW s \in Sales, OnlySale(s), NEW d \in Int, Worth(sales'[s]) <= Worth(sales[s]) + d,
               Cardinality(Sold') >= Cardinality(Sold) + d
        PROVE  goal
    BY <1>4, <1>5, <1>6, OneWorth DEF OnlySale
  <1>7. ASSUME UNCHANGED <<sales, stock>> PROVE goal
    <2>1. Worths' = Worths
      BY <1>7 DEF Worths
    <2> QED
      BY <1>3, <1>7, <2>1, SoldNext DEF goal
  <1>8. ASSUME NEW s, Keeps(s) PROVE goal
    <2>1. s \in Sales /\ OnlySale(s) /\ UNCHANGED stock
      BY <1>8 DEF Keeps, Sets, Creates, Updates
    <2>2. Worth(sales'[s]) = Worth(sales[s])
      <3>1. CASE Sets(s, "CANCELED")
        <4>1. /\ sales'[s].taken = sales[s].taken /\ sales'[s].gen = sales[s].gen
              /\ sales'[s].returned = sales[s].returned /\ sales'[s].lines = sales[s].lines
          BY <1>8, <3>1 DEF Keeps, Sets, SameReturns
        <4> QED
          BY <4>1 DEF Worth, Gone
      <3>2. CASE Updates(s) \/ \E l : Creates(s, l)
        <4>1. /\ sales'[s].taken = sales[s].taken /\ sales'[s].returned = sales[s].returned
              /\ sales'[s].gen \in {sales[s].gen, sales[s].gen + 1} /\ sales'[s] \in SaleRows
          BY <1>8, <2>1, <3>2 DEF Keeps, Creates, Updates, SameReturns, OnlySale
        <4>2. sales[s].taken = -1 /\ sales[s].returned = Zero
          BY <1>2, <1>t, <2>1, <3>2 DEF Took, Creates, Updates
        <4>3. Gone(sales[s]) = 0 /\ Gone(sales'[s]) = 0
          BY <1>t, <2>1, <4>1, <4>2, NothingGone
        <4>4. sales[s].taken # sales[s].gen /\ sales'[s].taken # sales'[s].gen
          BY <1>t, <2>1, <4>1, <4>2
        <4> QED
          BY <4>3, <4>4 DEF Worth
      <3> QED
        BY <1>8, <3>1, <3>2 DEF Keeps
    <2>3. Worth(sales'[s]) <= Worth(sales[s]) + 0 /\ Cardinality(Sold') >= Cardinality(Sold) + 0
      BY <1>t, <2>1, <2>2, SoldNext
    <2> QED
      BY <1>6, <2>1, <2>3
  <1>9. ASSUME NEW r, PaysFor(r) PROVE goal
    <2> DEFINE q == req[r]
               s == q.sale
               d == IF q.gen = sales[s].gen THEN Due(q.lines) ELSE 0
    <2>1. /\ s \in Sales /\ OnlySale(s) /\ q.lines \in Lines /\ q.gen \in Nat
          /\ q.gen <= sales[s].gen /\ (q.gen = sales[s].gen => q.lines = sales[s].lines)
      BY <1>9, Bounds DEF PaysFor, Paying, View, Sets
    <2>2. /\ sales'[s].gen = sales[s].gen /\ sales'[s].lines = sales[s].lines
          /\ sales'[s].returned = sales[s].returned /\ sales'[s].taken = q.gen
      BY <1>9 DEF PaysFor, Sets, SameReturns
    <2>3. Distinct(sales[s].lines)
      <3>1. sales'[s].taken # -1
        BY <2>1, <2>2
      <3> QED
        BY <2>1, <2>2, <3>1 DEF Strayed, Distinct
    <2>4. /\ Cardinality(Sold') >= Cardinality(Sold)
          /\ Distinct(q.lines) => Cardinality(Sold') = Cardinality(Sold) + Due(q.lines)
      BY <1>9, SoldNext
    <2> HIDE DEF q, s
    <2>5. Due(q.lines) \in Nat /\ Due(sales[s].lines) \in Nat /\ Gone(sales[s]) \in Nat
      BY <1>t, <2>1, LineTypes
    <2>6. Worth(sales'[s]) = d - Gone(sales[s])
      <3>1. Gone(sales'[s]) = Gone(sales[s])
        BY <2>2 DEF Gone
      <3> QED
        BY <2>1, <2>2, <3>1 DEF Worth
    <2>7. Worth(sales[s]) >= 0 - Gone(sales[s])
      BY <2>5 DEF Worth
    <2>8. d \in Int /\ Cardinality(Sold') >= Cardinality(Sold) + d
      BY <2>1, <2>3, <2>4, <2>5, SoldNext
    <2> HIDE DEF d
    <2>9. Worth(sales'[s]) <= Worth(sales[s]) + d
      BY <1>t, <2>1, <2>5, <2>6, <2>7, <2>8
    <2> QED
      BY <1>6, <2>1, <2>8, <2>9
  <1>10. ASSUME NEW q, GivesBack(q) PROVE goal
    <2>1. q.sale \in Sales /\ OnlySale(q.sale) /\ q.back \in Backs /\ Returns(q)
      BY <1>10 DEF GivesBack, Records, Returns
    <2>2. DOMAIN q.back = DOMAIN sales[q.sale].lines
      BY <1>2, <1>10, <2>1 DEF GivesBack, Owed
    <2>3. Worth(sales'[q.sale]) = Worth(sales[q.sale]) - Units(q.back)
      BY <2>1, <2>2, RecordWorth
    <2>4. Cardinality(Sold') >= Cardinality(Sold) - Units(q.back) /\ Units(q.back) \in Nat
      BY <1>10, <2>1, SoldNext, BackTypes
    <2> DEFINE d == - Units(q.back)
    <2>5. /\ d \in Int /\ Worth(sales'[q.sale]) <= Worth(sales[q.sale]) + d
          /\ Cardinality(Sold') >= Cardinality(Sold) + d
      BY <1>t, <2>1, <2>3, <2>4, SoldNext
    <2> HIDE DEF d
    <2> QED
      BY <1>6, <2>1, <2>5
  <1>11. ASSUME NEW q, Completes(q) PROVE goal
    <2>1. /\ q.sale \in Sales /\ OnlySale(q.sale) /\ Worth(sales'[q.sale]) <= Worth(sales[q.sale])
          /\ sales'[q.sale] \in SaleRows /\ UNCHANGED stock
      BY <1>11, RecordWorth DEF Completes, Records, Returns, OnlySale
    <2>2. Worth(sales'[q.sale]) <= Worth(sales[q.sale]) + 0 /\ Cardinality(Sold') >= Cardinality(Sold) + 0
      BY <1>t, <2>1, SoldNext, WorthTypes
    <2> QED
      BY <1>6, <2>1, <2>2
  <1>12. ASSUME NEW q, NEW n, NEW l, Swaps(q, n, l) PROVE goal
    <2>1. /\ q.sale \in Sales /\ n \in Sales /\ n # q.sale /\ q.back \in Backs /\ l \in Lines
          /\ sales' \in [Sales -> SaleRows] /\ \A t \in Sales \ {q.sale, n} : sales'[t] = sales[t]
          /\ Returns(q)
      BY <1>12 DEF Swaps, Exchanges, Returns
    <2>2. DOMAIN q.back = DOMAIN sales[q.sale].lines
      BY <1>2, <1>12, <2>1 DEF Swaps, Owed
    <2>3. Worth(sales'[q.sale]) = Worth(sales[q.sale]) - Units(q.back)
      BY <2>1, <2>2, RecordWorth
    <2>n. /\ sales[n].status = "none" /\ sales'[n].gen = sales[n].gen
          /\ sales'[n].returned = sales[n].returned /\ sales'[n].lines = l /\ sales'[n].taken = 0
      BY <1>12 DEF Swaps, Exchanges, SameReturns
    <2>4. Worth(sales[n]) = 0 /\ Worth(sales'[n]) = Due(l)
      <3>2. sales[n].gen = 0 /\ sales[n].returned = Zero /\ sales[n].taken = -1
        BY <1>t, <2>1, <2>n, SaleTypes DEF Took, SaleMade
      <3>3. sales[n] \in SaleRows /\ sales'[n] \in SaleRows /\ Due(l) \in Nat
        BY <1>t, <2>1, LineTypes
      <3>4. Gone(sales[n]) = 0 /\ Gone(sales'[n]) = 0
        BY <2>n, <3>2, <3>3, NothingGone
      <3> QED
        BY <2>n, <3>2, <3>3, <3>4 DEF Worth
    <2>d. Distinct(l)
      <3>1. sales'[n].taken # -1 /\ sales'[n].lines = l
        BY <2>n
      <3> QED
        BY <2>1, <3>1 DEF Strayed, Distinct
    <2>5. /\ Cardinality(Sold') >= Cardinality(Sold) + Due(l) - Units(q.back)
          /\ Units(q.back) \in Nat /\ Due(l) \in Nat
      BY <1>12, <2>1, <2>d, SoldNext, LineTypes, BackTypes
    <2> DEFINE f == Worths
               e == Worths'
               m == [x \in Sales |-> IF x = n THEN f[x] ELSE e[x]]
    <2>6. /\ Ints(f, Sales) /\ Ints(e, Sales) /\ DOMAIN f = Sales /\ DOMAIN e = Sales
          /\ \A x \in Sales : f[x] = Worth(sales[x]) /\ e[x] = Worth(sales'[x])
      BY <2>1, WorthTypes DEF Ints, Worths
    <2>7. \A x \in Sales \ {q.sale, n} : e[x] = f[x]
      BY <2>1, <2>6
    <2> HIDE DEF f, e
    <2>8. /\ Ints(m, Sales) /\ DOMAIN m = Sales /\ m[n] = f[n] /\ \A x \in Sales \ {n} : m[x] = e[x]
      BY <2>1, <2>6 DEF Ints
    <2> HIDE DEF m
    <2> DEFINE d == - Units(q.back)
    <2>9. d \in Int /\ m[q.sale] <= f[q.sale] + d /\ \A x \in Sales \ {q.sale} : m[x] <= f[x]
      BY <1>t, <2>1, <2>3, <2>5, <2>6, <2>7, <2>8 DEF Ints
    <2> HIDE DEF d
    <2>10. SumFunction(m) <= SumFunction(f) + d
      BY <2>1, <2>6, <2>8, <2>9, SumShift, SalesAssumption
    <2>11. e[n] <= m[n] + Due(l) /\ \A x \in Sales \ {n} : e[x] <= m[x]
      BY <2>1, <2>4, <2>5, <2>6, <2>8 DEF Ints
    <2>i. Due(l) \in Int
      BY <2>5
    <2>12. SumFunction(e) <= SumFunction(m) + Due(l)
      BY <2>1, <2>i, <2>6, <2>8, <2>11, SumShift, SalesAssumption
    <2>13. SumFunction(e) \in Int /\ SumFunction(m) \in Int /\ SumFunction(f) \in Int
      BY <2>6, <2>8, SumType, SalesAssumption
    <2>14. d + Due(l) \in Int /\ SumFunction(e) <= SumFunction(f) + (d + Due(l))
      BY <2>5, <2>9, <2>10, <2>12, <2>13
    <2>15. Cardinality(Sold') >= Cardinality(Sold) + (d + Due(l))
      BY <2>5, SoldNext DEF d
    <2> QED
      BY <1>4, <2>13, <2>14, <2>15 DEF e, f
  <1>13. goal
    BY ONLY <1>1, <1>7, <1>8, <1>9, <1>10, <1>11, <1>12 DEF StockStep
  <1> QED
    BY <1>13 DEF goal

LEMMA StepCInv ==
  ASSUME TInv, RInv, GInv, CInv, [Next]_vars
  PROVE  CInv'
  <1>1. \A s \in Sales : Took(sales'[s])
    BY StockSteps, RowsStay
  <1>2. (\A s \in Sales : ~Strayed(s)') => SumFunction(Worths') <= Cardinality(Sold')
    BY CoverStays
  <1>3. ASSUME NEW r \in Requests, req'[r].op \in {"refund", "exchange"} PROVE Owed(req[r])'
    BY <1>3, OwedStays DEF Owed
  <1>4. \A d \in Drafts : drafts'[d].status # "none" => sales'[drafts'[d].sale].taken # -1
    BY OwedStays
  <1> QED
    BY <1>1, <1>2, <1>3, <1>4 DEF CInv, Worths

LEMMA InitCInv == Init => CInv
  <1> SUFFICES ASSUME Init PROVE CInv
    OBVIOUS
  <1>1. \A s \in Sales : /\ sales[s].status = "none" /\ sales[s].gen = 0 /\ sales[s].returned = Zero
                         /\ sales[s].lines = NoLines /\ sales[s].taken = -1
    BY DEF Init
  <1>2. \A s \in Sales : Took(sales[s]) /\ Worth(sales[s]) = 0
    <2>1. ASSUME NEW row, row.lines = NoLines PROVE Gone(row) = 0
      <3>1. DOMAIN row.lines = {}
        BY <2>1 DEF NoLines
      <3> QED
        BY <3>1, SumZero, FS_EmptySet DEF Gone
    <2> QED
      BY <1>1, <2>1 DEF Took, Worth
  <1>3. SumFunction(Worths) = 0
    <2> DEFINE f == Worths
    <2>1. DOMAIN f = Sales /\ \A s \in Sales : f[s] = 0
      BY <1>2 DEF Worths
    <2> HIDE DEF f
    <2>2. SumFunction(f) = 0
      BY <2>1, SumZero, SalesAssumption
    <2> QED
      BY <2>2 DEF f
  <1>4. Cardinality(Sold) \in Nat
    BY ItemsAssumption, FS_Subset, FS_CardinalityType DEF Sold
  <1>5. SumFunction(Worths) <= Cardinality(Sold)
    BY <1>3, <1>4
  <1>6. \A r \in Requests : req[r].op \notin {"refund", "exchange"}
    BY DEF Init, Idle
  <1>7. \A d \in Drafts : drafts[d].status = "none"
    BY DEF Init, NoDraft
  <1> QED
    BY <1>2, <1>5, <1>6, <1>7 DEF CInv

\* While no return raced and every sale has the lines its checkout took, no sale
\* is astray and each is worth what the customer keeps.
LEMMA RegularWorth ==
  ASSUME TInv, RInv, CInv, NEW s \in Sales, Regular(s)
  PROVE  ~Strayed(s) /\ Kept(s) \in Int /\ Kept(s) <= Worth(sales[s])
  <1> DEFINE row == sales[s]
             I == DOMAIN row.lines
             f == [n \in I |-> row.lines[n].qty]
             e == Left(s)
             d == [n \in I |-> row.returned[n]]
  <1>1. /\ row \in SaleRows /\ row.gen \in Nat /\ Took(row) /\ ~row.raced
        /\ row.taken \in {-1, row.gen} /\ (row.taken # -1 => Distinct(row.lines))
    BY SaleTypes, RowTypes DEF CInv, Regular
  <1>2. /\ IsFiniteSet(I) /\ \A n \in I : row.lines[n].qty \in Nat /\ row.returned[n] \in Nat
    BY <1>1, RowTypes, LineTypes
  <1>3. \A n \in I : row.returned[n] <= row.lines[n].qty
    BY <1>1 DEF RInv, ReturnsWithinSale
  <1>4. ~Strayed(s)
    BY <1>1 DEF Strayed
  <1>5. SumFunction(e) \in Nat /\ SumFunction(e) = Due(row.lines) - Gone(row)
    <2>1. /\ DOMAIN f = I /\ DOMAIN e = I /\ DOMAIN d = I
          /\ \A n \in I : f[n] = e[n] + d[n] /\ e[n] \in Nat /\ d[n] \in Nat
      BY <1>2, <1>3 DEF Left
    <2>2. Due(row.lines) = SumFunction(f) /\ Gone(row) = SumFunction(d)
      BY DEF Due, Gone
    <2> HIDE DEF f, e, d, I, row
    <2>3. Ints(e, I) /\ Ints(d, I)
      BY <2>1 DEF Ints
    <2>4. /\ SumFunction(f) = SumFunction(e) + SumFunction(d)
          /\ SumFunction(e) \in Int /\ SumFunction(d) \in Int
      BY <1>2, <2>1, <2>3, SumPlus
    <2>5. SumFunction(e) \in Nat
      BY <1>2, <2>1, SumNat
    <2> QED
      BY <2>2, <2>4, <2>5
  <1>6. Kept(s) = IF row.status = "PAID" THEN SumFunction(e) ELSE 0
    BY DEF Kept
  <1>7. Worth(row) = (IF row.taken = row.gen THEN Due(row.lines) ELSE 0) - Gone(row)
    BY DEF Worth
  <1>8. row.taken = -1 => row.status # "PAID" /\ Gone(row) = 0
    BY <1>1, NothingGone DEF Took
  <1> HIDE DEF row, e
  <1>9. Kept(s) \in Int /\ Kept(s) <= Worth(row)
    <2>1. CASE row.taken = -1
      <3>1. Kept(s) = 0 /\ Worth(row) = 0
        BY <1>1, <1>6, <1>7, <1>8, <2>1
      <3> QED
        BY <3>1
    <2>2. CASE row.taken = row.gen
      <3>1. Worth(row) = SumFunction(e)
        BY <1>5, <1>7, <2>2
      <3> QED
        BY <1>5, <1>6, <3>1
    <2> QED
      BY <1>1, <2>1, <2>2
  <1> QED
    BY <1>4, <1>9 DEF row

\* Stock never offers a unit that a customer keeps, for any sales and stock: a
\* checkout whose lines name different things marks as many rows as they have
\* units, and a refund or exchange frees no more than it records.  pos_sales.py
\* checks neither against the other.
THEOREM SpecStockCoversSales == Spec => []StockCoversSales
  <1>1. TInv /\ RInv /\ GInv /\ CInv /\ [Next]_vars => CInv'
    BY StepCInv
  <1>2. TInv /\ RInv /\ CInv => StockCoversSales
    <2> SUFFICES ASSUME TInv, RInv, CInv, \A s \in Sales : Regular(s)
                 PROVE  Cardinality(Sold) >= SumFunction([s \in Sales |-> Kept(s)])
      BY DEF StockCoversSales
    <2> DEFINE f == Worths
               e == [s \in Sales |-> Kept(s)]
    <2>1. /\ Ints(f, Sales) /\ Ints(e, Sales) /\ DOMAIN f = Sales /\ DOMAIN e = Sales
          /\ \A s \in Sales : e[s] <= f[s]
      BY RegularWorth, WorthTypes DEF Ints, Worths
    <2>2. SumFunction(f) <= Cardinality(Sold)
      BY RegularWorth DEF CInv
    <2>3. Cardinality(Sold) \in Nat
      BY SoldNext
    <2> HIDE DEF f, e
    <2>4. SumFunction(e) <= SumFunction(f)
      BY <2>1, SumLess, SalesAssumption
    <2>5. SumFunction(e) \in Int /\ SumFunction(f) \in Int
      BY <2>1, SumType, SalesAssumption
    <2>6. Cardinality(Sold) >= SumFunction(e)
      BY <2>2, <2>3, <2>4, <2>5
    <2> QED
      BY <2>6 DEF e
  <1> QED
    BY <1>1, <1>2, InitCInv, TInductive, RInductive, GInductive, PTL DEF Spec

=============================================================================
