---------------------------- MODULE PosCashProofs ----------------------------
(***************************************************************************)
(* The books of one store's cash, for any number of cashiers, days,        *)
(* requests, sessions and movements.                                       *)
(***************************************************************************)
EXTENDS PosCash, FiniteSetTheorems, SequenceTheorems, WellFoundedInduction, TLAPS

(***************************************************************************)
(* Sums.  The fold in Total recurs over the subsets of a set; that it has  *)
(* a value, and that the order does not matter, is shown by the smallest   *)
(* set for which it would not be so.                                       *)
(***************************************************************************)

\* Induction in the form the provers take: a set of numbers has a least one.
LEMMA LeastNatural ==
  ASSUME NEW T \in SUBSET Nat, T # {}
  PROVE  \E m \in T : \A k \in T : m <= k
  <1>1. PICK m \in T : \A k \in T : ~ (<<k, m>> \in OpToRel(<, Nat))
    BY NatLessThanWellFounded, WFMin
  <1>2. ASSUME NEW k \in T, k < m PROVE FALSE
    <2>1. <<k, m>> \in Nat \X Nat
      OBVIOUS
    <2>2. <<k, m>> \in OpToRel(<, Nat)
      BY <1>2, <2>1 DEF OpToRel
    <2> QED
      BY <1>1, <2>2
  <1> QED
    BY <1>2

\* A set is larger than what is left when an element is taken out.
LEMMA Smaller ==
  ASSUME NEW s, IsFiniteSet(s), NEW x \in s
  PROVE  /\ IsFiniteSet(s \ {x})
         /\ Cardinality(s) \in Nat /\ Cardinality(s \ {x}) \in Nat
         /\ Cardinality(s \ {x}) = Cardinality(s) - 1
  BY FS_RemoveElement, FS_CardinalityType

\* Induction over the subsets of a finite set, as a property of the set of the
\* counterexamples: none is empty and none is the first, so there is none.
LEMMA SetInduction ==
  ASSUME NEW J, IsFiniteSet(J), NEW Bad \in SUBSET SUBSET J,
         {} \notin Bad,
         \A s \in Bad : \E x \in s : s \ {x} \in Bad
  PROVE  Bad = {}
  <1> SUFFICES ASSUME Bad # {} PROVE FALSE
    OBVIOUS
  <1>1. \A s \in Bad : IsFiniteSet(s)
    BY FS_Subset
  <1> DEFINE C == {Cardinality(s) : s \in Bad}
  <1>2. C \in SUBSET Nat /\ C # {}
    BY <1>1, FS_CardinalityType
  <1>3. PICK m \in C : \A k \in C : m <= k
    BY <1>2, LeastNatural
  <1>4. PICK s \in Bad : m = Cardinality(s)
    BY <1>3
  <1>5. PICK x \in s : s \ {x} \in Bad
    OBVIOUS
  <1>6. m <= Cardinality(s \ {x})
    BY <1>3, <1>5
  <1>7. /\ Cardinality(s) \in Nat /\ Cardinality(s \ {x}) \in Nat
        /\ Cardinality(s \ {x}) = Cardinality(s) - 1
    BY <1>1, Smaller
  <1> QED
    BY ONLY <1>4, <1>6, <1>7

\* Total is a fold: the value at I of the function that takes one element after
\* the other out of a set.
Agree(f, e, I) == \A i \in I : f[i] = e[i]
Ints(f, I) == \A i \in I : f[i] \in Int
Pick(s) == CHOOSE i \in s : TRUE
FoldAt(g, f, s) == IF s = {} THEN 0 ELSE f[Pick(s)] + g[s \ {Pick(s)}]
IsFold(g, f, I) == g = [s \in SUBSET I |-> FoldAt(g, f, s)]

\* Total with the recursion of MapThenFoldSet laid open.
LEMMA TotalDef ==
  ASSUME NEW f, NEW I
  PROVE  Total(f, I) = (CHOOSE g : IsFold(g, f, I))[I]
  BY Zenon DEF Total, MapThenFoldSet, IsFold, FoldAt, Pick

\* The recursion has a solution: up to sets of n elements, for every n.
Small(I, n) == {s \in SUBSET I : Cardinality(s) <= n}
IsPartFold(g, f, I, n) == g = [s \in Small(I, n) |-> FoldAt(g, f, s)]

\* If n were the least for which it had none, the one for n - 1 would extend.
LEMMA FoldExists ==
  ASSUME NEW f, NEW I, IsFiniteSet(I)
  PROVE  \E g : IsFold(g, f, I)
  <1> DEFINE Bad == {n \in Nat : ~ \E g : IsPartFold(g, f, I, n)}
  <1>f. \A s \in SUBSET I : IsFiniteSet(s) /\ Cardinality(s) \in Nat
    BY FS_Subset, FS_CardinalityType
  <1>1. Bad = {}
    <2> SUFFICES ASSUME Bad # {} PROVE FALSE
      OBVIOUS
    <2>1. PICK n \in Bad : \A k \in Bad : n <= k
      BY LeastNatural
    <2>2. \E g : IsPartFold(g, f, I, n)
      <3>1. CASE n = 0
        <4> DEFINE g == [s \in Small(I, 0) |-> 0]
        <4>1. \A s \in Small(I, 0) : s = {}
          BY <1>f, FS_EmptySet DEF Small
        <4>2. IsPartFold(g, f, I, 0)
          BY <4>1 DEF IsPartFold, FoldAt
        <4> QED
          BY <3>1, <4>2
      <3>2. CASE n # 0
        <4>1. n - 1 \in Nat /\ n - 1 \notin Bad
          BY <2>1, <3>2
        <4>2. PICK h : IsPartFold(h, f, I, n - 1)
          BY <4>1
        <4> DEFINE g == [s \in Small(I, n) |-> FoldAt(h, f, s)]
        <4>3. ASSUME NEW s \in Small(I, n)
              PROVE  FoldAt(h, f, s) = FoldAt(g, f, s)
          <5>1. CASE s = {}
            BY <5>1 DEF FoldAt
          <5>2. CASE s # {}
            <6>1. Pick(s) \in s
              BY <5>2 DEF Pick
            <6> DEFINE u == s \ {Pick(s)}
            <6>2. u \in Small(I, n - 1) /\ u \in Small(I, n)
              BY <1>f, <2>1, <6>1, Smaller DEF Small
            <6>3. h[u] = FoldAt(h, f, u)
              BY <4>2, <6>2 DEF IsPartFold
            <6>4. g[u] = FoldAt(h, f, u)
              BY <6>2
            <6> HIDE DEF g
            <6> QED
              BY <5>2, <6>3, <6>4 DEF FoldAt
          <5> QED
            BY <5>1, <5>2
        <4>4. IsPartFold(g, f, I, n)
          BY <4>3 DEF IsPartFold
        <4> QED
          BY <4>4
      <3> QED
        BY <3>1, <3>2
    <2> QED
      BY <2>1, <2>2
  <1>2. Cardinality(I) \in Nat
    BY <1>f
  <1>3. PICK g : IsPartFold(g, f, I, Cardinality(I))
    BY <1>1, <1>2
  <1>4. Small(I, Cardinality(I)) = SUBSET I
    BY FS_Subset DEF Small
  <1> QED
    BY <1>3, <1>4 DEF IsPartFold, IsFold

\* Two solutions are equal where their functions are.
LEMMA FoldsAgree ==
  ASSUME NEW f, NEW e, NEW g, NEW h, NEW I, NEW J, NEW A \in SUBSET I, A \subseteq J,
         IsFold(g, f, I), IsFold(h, e, J), IsFiniteSet(A), Agree(f, e, A)
  PROVE  g[A] = h[A]
  <1> DEFINE Bad == {s \in SUBSET A : g[s] # h[s]}
  <1>1. \A s \in SUBSET A : g[s] = FoldAt(g, f, s) /\ h[s] = FoldAt(h, e, s)
    BY DEF IsFold
  <1>2. {} \notin Bad
    BY <1>1 DEF FoldAt
  <1>3. ASSUME NEW s \in Bad PROVE \E x \in s : s \ {x} \in Bad
    <2>1. s # {} /\ Pick(s) \in s
      BY <1>2, <1>3 DEF Pick
    <2> QED
      BY <1>1, <1>3, <2>1 DEF FoldAt, Agree
  <1>4. Bad \in SUBSET SUBSET A
    OBVIOUS
  <1>5. A \in Bad => g[A] # h[A]
    OBVIOUS
  <1>6. g[A] # h[A] => A \in Bad
    OBVIOUS
  <1> HIDE DEF Bad
  <1> QED
    BY <1>2, <1>3, <1>4, <1>6, SetInduction

\* Integers sum to an integer.
LEMMA FoldTyped ==
  ASSUME NEW f, NEW g, NEW I, NEW A \in SUBSET I,
         IsFold(g, f, I), IsFiniteSet(A), Ints(f, A)
  PROVE  g[A] \in Int
  <1> DEFINE Bad == {s \in SUBSET A : g[s] \notin Int}
  <1>1. \A s \in SUBSET A : g[s] = FoldAt(g, f, s)
    BY DEF IsFold
  <1>2. {} \notin Bad
    <2>1. {} \in SUBSET A /\ FoldAt(g, f, {}) = 0
      BY DEF FoldAt
    <2> QED
      BY <1>1, <2>1
  <1>3. ASSUME NEW s \in Bad PROVE \E x \in s : s \ {x} \in Bad
    <2>1. s # {} /\ Pick(s) \in s
      BY <1>2, <1>3 DEF Pick
    <2>2. g[s] = f[Pick(s)] + g[s \ {Pick(s)}] /\ f[Pick(s)] \in Int
      BY <1>1, <1>3, <2>1 DEF FoldAt, Ints
    <2>3. g[s \ {Pick(s)}] \notin Int
      BY <1>3, <2>2
    <2> QED
      BY <1>3, <2>1, <2>3
  <1>4. Bad \in SUBSET SUBSET A
    OBVIOUS
  <1>5. g[A] \notin Int => A \in Bad
    OBVIOUS
  <1> HIDE DEF Bad
  <1> QED
    BY <1>2, <1>3, <1>4, <1>5, SetInduction

\* Whichever element is taken out first, the sum is the same.
LEMMA FoldTake ==
  ASSUME NEW f, NEW g, NEW I, NEW A \in SUBSET I, NEW x \in A,
         IsFold(g, f, I), IsFiniteSet(A), Ints(f, A)
  PROVE  g[A] = f[x] + g[A \ {x}]
  <1> DEFINE Bad == {s \in SUBSET A : \E y \in s : g[s] # f[y] + g[s \ {y}]}
  <1>1. {} \notin Bad
    OBVIOUS
  <1>2. ASSUME NEW s \in Bad, \A q \in s : s \ {q} \notin Bad PROVE FALSE
    <2>1. PICK y \in s : g[s] # f[y] + g[s \ {y}]
      BY <1>2
    <2> DEFINE p == Pick(s)
    <2>2. p \in s /\ g[s] = f[p] + g[s \ {p}]
      BY <1>2, <2>1 DEF IsFold, FoldAt, Pick
    <2>3. p # y
      BY <2>1, <2>2
    <2>4. s \ {p} \notin Bad /\ s \ {y} \notin Bad
      <3> HIDE DEF Bad, p
      <3> QED
        BY <1>2, <2>1, <2>2
    <2>5. g[s \ {p}] = f[y] + g[(s \ {p}) \ {y}]
      <3> DEFINE u == s \ {p}
      <3>1. u \in SUBSET A /\ u \notin Bad /\ y \in u
        BY <1>2, <2>1, <2>3, <2>4
      <3> HIDE DEF u
      <3>2. g[u] = f[y] + g[u \ {y}]
        BY <3>1
      <3> QED
        BY <3>2 DEF u
    <2>6. g[s \ {y}] = f[p] + g[(s \ {y}) \ {p}]
      <3> DEFINE u == s \ {y}
      <3>1. u \in SUBSET A /\ u \notin Bad /\ p \in u
        BY <1>2, <2>2, <2>3, <2>4
      <3> HIDE DEF u
      <3>2. g[u] = f[p] + g[u \ {p}]
        BY <3>1
      <3> QED
        BY <3>2 DEF u
    <2>7. g[(s \ {y}) \ {p}] = g[(s \ {p}) \ {y}]
      <3>1. (s \ {p}) \ {y} = (s \ {y}) \ {p}
        OBVIOUS
      <3> QED
        BY <3>1
    <2>8. g[(s \ {p}) \ {y}] \in Int /\ f[p] \in Int /\ f[y] \in Int
      <3> DEFINE u == (s \ {p}) \ {y}
      <3>1. u \in SUBSET I /\ IsFiniteSet(u) /\ Ints(f, u)
        BY <1>2, FS_Subset DEF Ints
      <3> HIDE DEF u
      <3>2. g[u] \in Int
        BY <3>1, FoldTyped
      <3> QED
        BY <1>2, <2>1, <2>2, <3>2 DEF Ints, u
    <2>9. \E a, b, c \in Int : /\ f[p] = a /\ f[y] = b /\ g[s] = a + (b + c)
                               /\ g[s \ {y}] = a + c
      BY ONLY <2>2, <2>5, <2>6, <2>7, <2>8
    <2> HIDE DEF p
    <2> QED
      BY ONLY <2>1, <2>9
  <1>3. Bad \in SUBSET SUBSET A
    OBVIOUS
  <1>4. g[A] # f[x] + g[A \ {x}] => A \in Bad
    OBVIOUS
  <1> HIDE DEF Bad
  <1> QED
    BY <1>1, <1>2, <1>3, <1>4, SetInduction

\* Total is the value of such a solution.
LEMMA TotalFold ==
  ASSUME NEW f, NEW I, IsFiniteSet(I)
  PROVE  \E g : IsFold(g, f, I) /\ Total(f, I) = g[I]
  BY FoldExists, TotalDef

\* The laws of sums that the rest uses.
LEMMA TotalType ==
  ASSUME NEW f, NEW I, IsFiniteSet(I), Ints(f, I)
  PROVE  Total(f, I) \in Int
  <1>1. PICK g : IsFold(g, f, I) /\ Total(f, I) = g[I]
    BY TotalFold
  <1> QED
    BY <1>1, FoldTyped

LEMMA TotalEmpty == \A f : Total(f, {}) = 0
  <1> SUFFICES ASSUME NEW f PROVE Total(f, {}) = 0
    OBVIOUS
  <1>1. PICK g : IsFold(g, f, {}) /\ Total(f, {}) = g[{}]
    BY TotalFold, FS_EmptySet
  <1> QED
    BY <1>1 DEF IsFold, FoldAt

LEMMA TotalAgree ==
  ASSUME NEW f, NEW e, NEW I, IsFiniteSet(I), Agree(f, e, I)
  PROVE  Total(f, I) = Total(e, I)
  <1>1. PICK g : IsFold(g, f, I) /\ Total(f, I) = g[I]
    BY TotalFold
  <1>2. PICK h : IsFold(h, e, I) /\ Total(e, I) = h[I]
    BY TotalFold
  <1>4. g[I] = h[I]
    BY <1>1, <1>2, FoldsAgree
  <1> QED
    BY <1>1, <1>2, <1>4

LEMMA TotalAdd ==
  ASSUME NEW f, NEW I, IsFiniteSet(I), NEW x, x \notin I, Ints(f, I \cup {x})
  PROVE  Total(f, I \cup {x}) = Total(f, I) + f[x]
  <1>1. IsFiniteSet(I \cup {x}) /\ (I \cup {x}) \ {x} = I
    BY FS_AddElement
  <1>2. PICK g : IsFold(g, f, I \cup {x}) /\ Total(f, I \cup {x}) = g[I \cup {x}]
    <2> DEFINE J == I \cup {x}
    <2>1. \E g : IsFold(g, f, J) /\ Total(f, J) = g[J]
      BY <1>1, TotalFold
    <2> QED
      BY <2>1
  <1>3. PICK h : IsFold(h, f, I) /\ Total(f, I) = h[I]
    BY TotalFold
  <1>4. g[I \cup {x}] = f[x] + g[I]
    <2> DEFINE J == I \cup {x}
    <2>1. IsFiniteSet(J) /\ x \in J /\ J \in SUBSET J /\ IsFold(g, f, J)
      BY <1>1, <1>2
    <2>2. Ints(f, J)
      OBVIOUS
    <2> HIDE DEF J
    <2>3. g[J] = f[x] + g[J \ {x}]
      BY <2>1, <2>2, FoldTake
    <2> QED
      BY <1>1, <2>3 DEF J
  <1>5. g[I] = h[I] /\ h[I] \in Int
    <2>1. Agree(f, f, I) /\ Ints(f, I)
      BY DEF Agree, Ints
    <2> QED
      BY <1>2, <1>3, <2>1, FoldsAgree, FoldTyped
  <1>6. f[x] \in Int
    BY DEF Ints
  <1> QED
    BY <1>2, <1>3, <1>4, <1>5, <1>6

\* Sums over disjoint sets add up.
LEMMA TotalUnion ==
  ASSUME NEW f, NEW I, NEW J, IsFiniteSet(I), IsFiniteSet(J), I \cap J = {},
         Ints(f, I \cup J)
  PROVE  Total(f, I \cup J) = Total(f, I) + Total(f, J)
  <1> DEFINE Bad == {s \in SUBSET J : Total(f, I \cup s) # Total(f, I) + Total(f, s)}
  <1>1. Ints(f, I) /\ Total(f, I) \in Int
    BY TotalType DEF Ints
  <1>2. {} \notin Bad
    <2>1. I \cup {} = I
      OBVIOUS
    <2> QED
      BY <1>1, <2>1, TotalEmpty
  <1>3. ASSUME NEW s \in Bad, \A q \in s : s \ {q} \notin Bad PROVE FALSE
    <2>1. PICK x \in s : TRUE
      BY <1>2, <1>3
    <2> DEFINE u == s \ {x}
               v == I \cup u
    <2>2. /\ s = u \cup {x} /\ x \notin u /\ IsFiniteSet(u) /\ Ints(f, u \cup {x})
          /\ I \cup s = v \cup {x} /\ x \notin v /\ IsFiniteSet(v) /\ Ints(f, v \cup {x})
          /\ f[x] \in Int /\ Ints(f, u)
      <3>1. s \subseteq J /\ x \in J /\ f[x] \in Int
        BY <1>3, <2>1 DEF Ints
      <3>2. s = u \cup {x} /\ x \notin u /\ I \cup s = v \cup {x} /\ x \notin v
        BY <2>1, <3>1
      <3>3. Ints(f, u) /\ Ints(f, u \cup {x}) /\ Ints(f, v \cup {x})
        BY <3>1 DEF Ints
      <3>4. IsFiniteSet(u)
        BY <3>1, FS_Subset
      <3>5. IsFiniteSet(v)
        BY <3>4, FS_Union
      <3> QED
        BY <3>1, <3>2, <3>3, <3>4, <3>5
    <2>3. Total(f, v) = Total(f, I) + Total(f, u)
      BY <1>3, <2>1
    <2>4. Total(f, I \cup s) # Total(f, I) + Total(f, s)
      BY <1>3
    <2> HIDE DEF u, v
    <2>5. Total(f, s) = Total(f, u) + f[x] /\ Total(f, I \cup s) = Total(f, v) + f[x]
      BY <2>2, TotalAdd
    <2>6. Total(f, u) \in Int
      BY <2>2, TotalType
    <2> QED
      BY ONLY <1>1, <2>2, <2>3, <2>4, <2>5, <2>6
  <1>4. Bad \in SUBSET SUBSET J
    OBVIOUS
  <1>5. Total(f, I \cup J) # Total(f, I) + Total(f, J) => J \in Bad
    OBVIOUS
  <1> HIDE DEF Bad
  <1> QED
    BY <1>2, <1>3, <1>4, <1>5, SetInduction

\* The sum of a sum.
LEMMA TotalPlus ==
  ASSUME NEW f, NEW e, NEW g, NEW I, IsFiniteSet(I), Ints(f, I), Ints(e, I),
         \A i \in I : g[i] = f[i] + e[i]
  PROVE  Total(g, I) = Total(f, I) + Total(e, I)
  <1> DEFINE Bad == {s \in SUBSET I : Total(g, s) # Total(f, s) + Total(e, s)}
  <1>2. {} \notin Bad
    BY TotalEmpty
  <1>3. ASSUME NEW s \in Bad, \A q \in s : s \ {q} \notin Bad PROVE FALSE
    <2>1. PICK x \in s : TRUE
      BY <1>2, <1>3
    <2> DEFINE u == s \ {x}
    <2>2. /\ s = u \cup {x} /\ x \notin u /\ IsFiniteSet(u)
          /\ Ints(f, u \cup {x}) /\ Ints(e, u \cup {x}) /\ Ints(g, u \cup {x})
          /\ Ints(f, u) /\ Ints(e, u)
          /\ f[x] \in Int /\ e[x] \in Int /\ g[x] = f[x] + e[x]
      BY <1>3, <2>1, FS_Subset DEF Ints
    <2>3. Total(g, u) = Total(f, u) + Total(e, u)
      BY <1>3, <2>1
    <2>4. Total(g, s) # Total(f, s) + Total(e, s)
      BY <1>3
    <2> HIDE DEF u
    <2>5. /\ Total(f, s) = Total(f, u) + f[x]
          /\ Total(e, s) = Total(e, u) + e[x]
          /\ Total(g, s) = Total(g, u) + g[x]
      BY <2>2, TotalAdd
    <2>6. Total(f, u) \in Int /\ Total(e, u) \in Int
      BY <2>2, TotalType
    <2> QED
      BY ONLY <2>2, <2>3, <2>4, <2>5, <2>6
  <1>4. Bad \in SUBSET SUBSET I
    OBVIOUS
  <1>5. Total(g, I) # Total(f, I) + Total(e, I) => I \in Bad
    OBVIOUS
  <1> HIDE DEF Bad
  <1> QED
    BY <1>2, <1>3, <1>4, <1>5, SetInduction

\* What is zero everywhere sums to zero.
LEMMA TotalZero ==
  ASSUME NEW f, NEW I, IsFiniteSet(I), \A i \in I : f[i] = 0
  PROVE  Total(f, I) = 0
  <1>1. Ints(f, I) /\ \A i \in I : f[i] = f[i] + f[i]
    BY DEF Ints
  <1>2. Total(f, I) = Total(f, I) + Total(f, I)
    BY <1>1, TotalPlus
  <1>3. Total(f, I) \in Int
    BY <1>1, TotalType
  <1>4. \A a \in Int : a = a + a => a = 0
    OBVIOUS
  <1> QED
    BY <1>2, <1>3, <1>4

(***************************************************************************)
(* Sums over the journal.                                                  *)
(***************************************************************************)
\* A set of places has a latest one.
LEMMA LatestIn ==
  ASSUME NEW n \in Nat, NEW S \in SUBSET (1..n), S # {}
  PROVE  Latest(S) \in S /\ \A t \in S : t <= Latest(S)
  <1> DEFINE T == {n - s : s \in S}
  <1>1. T \in SUBSET Nat /\ T # {}
    <2>1. ASSUME NEW s \in S PROVE n - s \in Nat
      <3>1. s \in Int /\ s <= n
        OBVIOUS
      <3> QED
        BY <3>1
    <2> QED
      BY <2>1
  <1>2. PICK m \in T : \A k \in T : m <= k
    <2> HIDE DEF T
    <2> QED
      BY <1>1, LeastNatural
  <1>3. PICK s \in S : m = n - s
    BY <1>2
  <1>4. \A t \in S : t <= s
    <2>1. \A t \in S : n - s <= n - t
      BY <1>2, <1>3
    <2>2. ASSUME NEW t \in S PROVE t <= s
      <3>1. t \in Int /\ s \in Int /\ n - s <= n - t
        BY <2>1
      <3> QED
        BY ONLY <3>1, n \in Nat
    <2> QED
      BY <2>2
  <1> QED
    BY <1>4 DEF Latest

LEMMA AmountsAreNumbers ==
  \A m \in Movements : /\ Signed(m) \in Int /\ m.amount \in Nat /\ m.change \in Nat
                       /\ m.before \in Int /\ m.after \in Int /\ m.stale \in BOOLEAN
  BY DEF Signed, Movements

\* Every place has an amount, and there are finitely many.
LEMMA Summable ==
  ASSUME movements \in Seq(Movements), NEW I \in SUBSET DOMAIN movements
  PROVE  /\ IsFiniteSet(I)
         /\ Ints(SignedAt, I) /\ Ints(TakenAt, I)
         /\ Total(SignedAt, I) \in Int /\ Total(TakenAt, I) \in Int
  <1>1. IsFiniteSet(I)
    <2>1. IsFiniteSet(1..Len(movements))
      BY FS_Interval
    <2> QED
      BY <2>1, FS_Subset
  <1>2. \A i \in I : movements[i] \in Movements
    OBVIOUS
  <1>3. Ints(SignedAt, I) /\ Ints(TakenAt, I)
    BY <1>2, AmountsAreNumbers DEF Ints, SignedAt, TakenAt
  <1> QED
    BY <1>1, <1>3, TotalType

LEMMA BalanceOfAll ==
  ASSUME NEW s
  PROVE  /\ movements \in Seq(Movements) => Balance(s) = Total(SignedAt, MovementsOf(s))
         /\ movements' \in Seq(Movements) => Balance(s)' = Total(SignedAt', MovementsOf(s)')
  <1>1. movements \in Seq(Movements) =>
          {i \in DOMAIN movements : i <= Len(movements) /\ movements[i].session = s} = MovementsOf(s)
    BY DEF MovementsOf
  <1>2. movements' \in Seq(Movements) =>
          {i \in DOMAIN movements : i <= Len(movements) /\ movements[i].session = s}' = MovementsOf(s)'
    BY DEF MovementsOf
  <1> QED
    BY <1>1, <1>2 DEF Balance, BalanceUpTo

\* A movement written leaves the sums of the others and adds its own.
LEMMA TotalAppend ==
  ASSUME movements \in Seq(Movements), NEW m \in Movements,
         movements' = Append(movements, m), NEW I \in SUBSET DOMAIN movements
  PROVE  /\ Total(SignedAt', I) = Total(SignedAt, I)
         /\ Total(SignedAt', I \cup {Len(movements) + 1}) = Total(SignedAt, I) + Signed(m)
  <1> DEFINE n == Len(movements) + 1
  <1>1. /\ movements' \in Seq(Movements) /\ DOMAIN movements' = 1..n /\ DOMAIN movements = 1..Len(movements)
        /\ movements'[n] = m /\ \A i \in DOMAIN movements : movements'[i] = movements[i]
        /\ n \notin I /\ n \in Nat
    OBVIOUS
  <1>2. Agree(SignedAt', SignedAt, I)
    BY <1>1 DEF Agree, SignedAt
  <1>3. IsFiniteSet(I)
    BY Summable
  <1>4. Total(SignedAt', I) = Total(SignedAt, I)
    BY <1>2, <1>3, TotalAgree
  <1>5. Ints(SignedAt', I \cup {n})
    <2>1. \A i \in I \cup {n} : movements'[i] \in Movements /\ i \in DOMAIN movements'
      BY <1>1
    <2> HIDE DEF n
    <2> QED
      BY <2>1, AmountsAreNumbers DEF Ints, SignedAt
  <1>6. SignedAt'[n] = Signed(m)
    BY <1>1 DEF SignedAt
  <1> HIDE DEF n
  <1>7. Total(SignedAt', I \cup {n}) = Total(SignedAt', I) + SignedAt'[n]
    BY <1>1, <1>3, <1>5, TotalAdd
  <1> QED
    BY <1>4, <1>6, <1>7 DEF n

(***************************************************************************)
(* The inductive invariant.                                                *)
(***************************************************************************)
\* What cuts and movements refer to is there, and every session has the
\* movement that opened it.
RowsOK ==
  /\ \A k \in DOMAIN cuts : cuts[k].session \in Ids
  /\ \A i \in DOMAIN movements : movements[i].session \in Ids \cup {0}
  /\ \A s \in Ids : \E i \in MovementsOf(s) : movements[i].action = "OPEN"

\* A session of day d that was there when close_day looked (known) is closed,
\* unless it is in found.
ClosedBut(d, known, found) ==
  /\ known <= Len(sessions)
  /\ \A s \in Ids \ found : sessions[s].day = d /\ s <= known => sessions[s].status = "CLOSED"

Late(d, upto) ==
  {i \in DOMAIN movements : i > upto /\ movements[i].day = d /\ movements[i].amount > 0}

\* The sum of the first upto movements differs from the day's only by late
\* bookings that have an excuse.
Excused(d, known, upto, sum) ==
  /\ upto <= Len(movements)
  /\ \A i \in Late(d, upto) : movements[i].stale \/ movements[i].session > known
  /\ DayTotal(d) = sum + Total(SignedAt, Late(d, upto))

\* A request that looked for open sessions of the cashier when there were n
\* found none but those of closed days.
Looked(c, n) ==
  /\ n <= Len(sessions)
  /\ \A s \in OpenOf(c) : s <= n => closes[sessions[s].day].made

\* What a request has read and still may rely on.
Fits(q) ==
  /\ q.stage = "read" => q.session \in Ids
  /\ q.stage = "looked" => Looked(q.cashier, q.looked)
  /\ q.stage \in {"locked", "summed"} => q.found \subseteq Ids /\ ClosedBut(q.day, q.known, q.found)
  /\ q.stage = "summed" => Excused(q.day, q.known, q.upto, q.sum)

\* What a closed day's row c still says of day d.
Settles(c, d) == ClosedBut(d, c.known, {}) /\ Excused(d, c.known, c.upto, c.expected)

RequestsOK == \A r \in Requests : Fits(req[r])
ClosesOK == \A d \in Days : closes[d].made => Settles(closes[d], d)

IInv == TypeOK /\ RowsOK /\ RequestsOK /\ ClosesOK /\ BooksBalance /\ SecondSessionOnlyByRace

(***************************************************************************)
(* What a step may do.                                                     *)
(***************************************************************************)
\* Sessions are added at the end and never reopened.
Grows ==
  /\ sessions' \in Seq(Sessions) /\ Ids \subseteq Ids'
  /\ \A s \in Ids : /\ sessions'[s].cashier = sessions[s].cashier
                    /\ sessions'[s].day = sessions[s].day
                    /\ sessions'[s].looked = sessions[s].looked
                    /\ sessions[s].status = "CLOSED" => sessions'[s].status = "CLOSED"

\* A movement is of an open session that no close_day has locked, or of a new
\* one, or has a session read without a lock, or moves no money.
Entered(m) ==
  \/ m.amount = 0 \/ m.stale \/ m.session = Len(sessions) + 1
  \/ /\ m.session \in Ids /\ ~Locked(m.session)
     /\ sessions[m.session].status = "OPEN" /\ m.day = sessions[m.session].day

\* What a movement does to the balance that session s expects.
Carried(s, m) ==
  \/ s \in Ids /\ m.session # s /\ sessions'[s].expected = sessions[s].expected
  \/ m.session = s /\ m.stale
  \/ /\ m.session = s
     /\ m.before = IF s \in Ids THEN sessions[s].expected ELSE 0
     /\ m.after = m.before + Signed(m)
     /\ sessions'[s].expected = m.after
     /\ m.after >= 0 \/ m.after = m.before

\* A day closes once, its row says what the close_day knew, and no money moves.
DaysClose(m) ==
  \/ closes' = closes
  \/ \E d \in Days, c \in Closes :
       /\ ~closes[d].made /\ closes' = [closes EXCEPT ![d] = c] /\ m.amount = 0
       /\ ClosedBut(d, c.known, {})' /\ Excused(d, c.known, c.upto, c.expected)

\* Requests end, if they change at all.
RequestsEnd ==
  /\ req' \in [Requests -> {Idle} \cup Opening \cup Booking \cup Closing]
  /\ \A r \in Requests : req'[r] \in {req[r], Idle}

CutsGrow ==
  cuts' = cuts \/ \E k \in Cuts : k.session \in Ids /\ cuts' = Append(cuts, k)

\* A session that appears was opened by a request that had looked.
Newcomer(s) ==
  \E r \in Requests : /\ req[r] \in Opening /\ req[r].stage = "looked"
                      /\ sessions'[s].cashier = req[r].cashier
                      /\ sessions'[s].looked = req[r].looked

\* A step that writes movement m.
Writes(m) ==
  /\ movements' = Append(movements, m) /\ m.session \in Ids' \cup {0}
  /\ Grows /\ Entered(m) /\ DaysClose(m) /\ RequestsEnd /\ CutsGrow
  /\ \A s \in Ids' : Carried(s, m)
  /\ \A s \in Ids' \ Ids : /\ s = Len(sessions) + 1 /\ m.session = s /\ m.action = "OPEN"
                           /\ Newcomer(s)

\* A step of a request that writes no row.
Thinks ==
  /\ \E r \in Requests, q \in {Idle} \cup Opening \cup Booking \cup Closing :
       Fits(q) /\ req' = [req EXCEPT ![r] = q]
  /\ UNCHANGED <<sessions, movements, closes, cuts>>

\* A cut without a deposit.
Counts ==
  /\ \E k \in Cuts : k.session \in Ids /\ cuts' = Append(cuts, k)
  /\ UNCHANGED <<sessions, movements, closes, req>>

\* The journal after a movement.
LEMMA JournalAfter ==
  ASSUME movements \in Seq(Movements), NEW m \in Movements, movements' = Append(movements, m)
  PROVE  /\ movements' \in Seq(Movements)
         /\ Len(movements) \in Nat /\ Len(movements') = Len(movements) + 1
         /\ DOMAIN movements = 1..Len(movements) /\ DOMAIN movements' = 1..Len(movements) + 1
         /\ \A i \in DOMAIN movements : movements'[i] = movements[i] /\ movements[i] \in Movements
         /\ movements'[Len(movements) + 1] = m
  OBVIOUS

\* A late booking with an excuse changes the sum of its day and the sum of the
\* late bookings alike; a movement of no money changes neither.
LEMMA ExcusedStays ==
  ASSUME movements \in Seq(Movements), NEW m \in Movements, movements' = Append(movements, m),
         NEW d, NEW known, NEW upto \in Nat, NEW sum \in Int,
         Excused(d, known, upto, sum),
         m.amount > 0 /\ m.day = d => m.stale \/ m.session > known
  PROVE  Excused(d, known, upto, sum)'
  <1> DEFINE n == Len(movements) + 1
             late == Late(d, upto)
             ofDay == {i \in DOMAIN movements : movements[i].day = d}
  <1>1. /\ movements' \in Seq(Movements)
        /\ Len(movements) \in Nat /\ Len(movements') = n
        /\ DOMAIN movements = 1..Len(movements) /\ DOMAIN movements' = 1..n
        /\ \A i \in DOMAIN movements : movements'[i] = movements[i] /\ movements[i] \in Movements
        /\ movements'[n] = m
    BY JournalAfter
  <1>2. m.amount \in Nat /\ (m.amount = 0 => Signed(m) = 0) /\ Signed(m) \in Int
    BY DEF Movements, Signed
  <1>3. /\ late \in SUBSET DOMAIN movements /\ ofDay \in SUBSET DOMAIN movements
        /\ DayTotal(d) = Total(SignedAt, ofDay)
    BY DEF Late, DayTotal
  <1>4. /\ Late(d, upto)' = IF m.amount > 0 /\ m.day = d THEN late \cup {n} ELSE late
        /\ {i \in DOMAIN movements : movements[i].day = d}' =
             IF m.day = d THEN ofDay \cup {n} ELSE ofDay
    BY <1>1 DEF Late, Excused
  <1>5. /\ Total(SignedAt', late) = Total(SignedAt, late)
        /\ Total(SignedAt', late \cup {n}) = Total(SignedAt, late) + Signed(m)
        /\ Total(SignedAt', ofDay) = Total(SignedAt, ofDay)
        /\ Total(SignedAt', ofDay \cup {n}) = Total(SignedAt, ofDay) + Signed(m)
        /\ Total(SignedAt, late) \in Int /\ Total(SignedAt, ofDay) \in Int
    BY <1>3, TotalAppend, Summable
  <1>6. DayTotal(d)' = Total(SignedAt', {i \in DOMAIN movements : movements[i].day = d}')
    BY DEF DayTotal
  <1>7. DayTotal(d) = sum + Total(SignedAt, late)
    BY DEF Excused
  <1>8. DayTotal(d)' = sum + Total(SignedAt', Late(d, upto)')
    <2> HIDE DEF n, late, ofDay
    <2>1. DayTotal(d)' = IF m.day = d THEN Total(SignedAt, ofDay) + Signed(m)
                         ELSE Total(SignedAt, ofDay)
      BY <1>4, <1>5, <1>6
    <2>2. Total(SignedAt', Late(d, upto)') = IF m.amount > 0 /\ m.day = d
                                             THEN Total(SignedAt, late) + Signed(m)
                                             ELSE Total(SignedAt, late)
      BY <1>4, <1>5
    <2>3. Total(SignedAt, ofDay) = sum + Total(SignedAt, late)
      BY <1>3, <1>7
    <2>4. Total(SignedAt, late) \in Int /\ sum \in Int
      BY <1>5
    <2> QED
      BY ONLY <1>2, <2>1, <2>2, <2>3, <2>4
  <1>9. \A i \in Late(d, upto)' : movements'[i].stale \/ movements'[i].session > known
    BY <1>1, <1>4 DEF Excused, Late
  <1>10. upto <= Len(movements')
    BY <1>1 DEF Excused
  <1> QED
    BY <1>8, <1>9, <1>10 DEF Excused

\* Places in the table of sessions.
LEMMA Places ==
  ASSUME sessions \in Seq(Sessions), Grows
  PROVE  /\ Len(sessions) \in Nat /\ Len(sessions') \in Nat /\ Len(sessions) <= Len(sessions')
         /\ Ids = 1..Len(sessions) /\ Ids' = 1..Len(sessions')
         /\ \A s \in Ids : s \in Nat /\ s <= Len(sessions)
         /\ \A s \in Ids' \ Ids : s \in Nat /\ s > Len(sessions)
         /\ \A s \in Ids : sessions[s] \in Sessions
         /\ \A s \in Ids' : sessions'[s] \in Sessions
  <1>1. /\ sessions' \in Seq(Sessions) /\ Ids \subseteq Ids'
        /\ Len(sessions) \in Nat /\ Len(sessions') \in Nat
        /\ Ids = 1..Len(sessions) /\ Ids' = 1..Len(sessions')
        /\ \A s \in Ids : sessions[s] \in Sessions
        /\ \A s \in Ids' : sessions'[s] \in Sessions
    BY DEF Grows, Ids
  <1>2. Len(sessions) <= Len(sessions')
    <2>1. CASE Len(sessions) = 0
      BY <1>1, <2>1
    <2>2. CASE Len(sessions) # 0
      <3>1. Len(sessions) \in Ids
        BY <1>1, <2>2
      <3> QED
        BY <1>1, <3>1
    <2> QED
      BY <2>1, <2>2
  <1> QED
    BY <1>1, <1>2

LEMMA ClosedButStays ==
  ASSUME sessions \in Seq(Sessions), Grows, NEW d, NEW known \in Nat, NEW found,
         ClosedBut(d, known, found)
  PROVE  ClosedBut(d, known, found)'
  <1>1. known <= Len(sessions')
    BY Places DEF ClosedBut
  <1>2. ASSUME NEW s \in Ids' \ found, sessions'[s].day = d, s <= known
        PROVE  sessions'[s].status = "CLOSED"
    <2>1. s \in Ids
      BY <1>2, Places DEF ClosedBut
    <2> QED
      BY <1>2, <2>1 DEF ClosedBut, Grows
  <1> QED
    BY <1>1, <1>2 DEF ClosedBut

\* Why a movement that is entered may come late.
LEMMA EnteredIsExcused ==
  ASSUME sessions \in Seq(Sessions), NEW m \in Movements, Entered(m),
         NEW d, NEW known \in Nat, NEW found, ClosedBut(d, known, found),
         \A s \in found : Locked(s)
  PROVE  m.amount > 0 /\ m.day = d => m.stale \/ m.session > known
  <1>1. Len(sessions) \in Nat /\ \A s \in Ids : s \in Nat
    BY DEF Ids
  <1>2. m.amount > 0 => m.amount # 0
    BY DEF Movements
  <1>3. CASE m.session = Len(sessions) + 1
    BY <1>1, <1>3 DEF ClosedBut
  <1>4. CASE /\ m.session \in Ids /\ ~Locked(m.session)
             /\ sessions[m.session].status = "OPEN" /\ m.day = sessions[m.session].day
    <2>1. m.session \in Ids \ found /\ m.session \in Nat
      BY <1>1, <1>4
    <2>2. m.day = d => ~ (m.session <= known)
      BY <1>4, <2>1 DEF ClosedBut
    <2> QED
      BY <2>1, <2>2
  <1> QED
    BY <1>2, <1>3, <1>4 DEF Entered

\* What a request knows of the open sessions of its cashier.
LEMMA LookedStays ==
  ASSUME sessions \in Seq(Sessions), closes \in [Days -> Closes], Grows, NEW m, DaysClose(m),
         NEW c, NEW n \in Nat, Looked(c, n)
  PROVE  Looked(c, n)'
  <1>1. n <= Len(sessions')
    BY Places DEF Looked
  <1>2. ASSUME NEW s \in Ids', sessions'[s].cashier = c, sessions'[s].status = "OPEN", s <= n
        PROVE  closes'[sessions'[s].day].made
    <2>1. s \in Ids
      BY <1>2, Places DEF Looked
    <2>2. sessions[s] \in Sessions
      BY <2>1, Places
    <2>3. sessions[s].status = "OPEN" /\ sessions[s].cashier = c /\ sessions'[s].day = sessions[s].day
      BY <1>2, <2>1, <2>2 DEF Grows, Sessions
    <2>4. closes[sessions[s].day].made
      BY <1>2, <2>1, <2>3 DEF Looked, OpenOf
    <2>5. sessions[s].day \in Days
      BY <2>2 DEF Sessions
    <2> QED
      BY <2>3, <2>4, <2>5 DEF DaysClose
  <1> QED
    BY <1>1, <1>2 DEF Looked, OpenOf

\* What a request relies on, another one's movement leaves true.
LEMMA FitsStays ==
  ASSUME TypeOK, NEW m \in Movements, Writes(m), NEW r \in Requests, NEW q, q = req[r], Fits(q)
  PROVE  Fits(q)'
  <1>t. /\ sessions \in Seq(Sessions) /\ movements \in Seq(Movements) /\ closes \in [Days -> Closes]
        /\ Grows /\ DaysClose(m) /\ Entered(m) /\ movements' = Append(movements, m)
    BY DEF TypeOK, Writes
  <1>1. q \in {Idle} \cup Opening \cup Booking \cup Closing
    BY DEF TypeOK
  <1>2. q.stage = "read" => q.session \in Ids'
    BY <1>t DEF Fits, Grows
  <1>3. ASSUME q.stage = "looked" PROVE Looked(q.cashier, q.looked)'
    <2>1. q \in Opening
      BY <1>1, <1>3 DEF Idle, Booking, Closing
    <2>2. q.looked \in Nat /\ Looked(q.cashier, q.looked)
      BY <1>3, <2>1 DEF Opening, Fits
    <2> QED
      BY <1>t, <2>2, LookedStays
  <1>4. ASSUME q.stage \in {"locked", "summed"}
        PROVE  /\ q.found \subseteq Ids' /\ ClosedBut(q.day, q.known, q.found)'
               /\ q.stage = "summed" => Excused(q.day, q.known, q.upto, q.sum)'
    <2>1. q \in Closing
      BY <1>1, <1>4 DEF Idle, Booking, Opening
    <2>2. /\ q.known \in Nat /\ q.upto \in Nat /\ q.sum \in Int
          /\ q.found \subseteq Ids /\ ClosedBut(q.day, q.known, q.found)
      BY <1>4, <2>1 DEF Closing, Fits
    <2>3. ClosedBut(q.day, q.known, q.found)'
      BY <1>t, <2>2, ClosedButStays
    <2>4. \A s \in q.found : Locked(s)
      BY <1>4 DEF Locked
    <2>5. m.amount > 0 /\ m.day = q.day => m.stale \/ m.session > q.known
      BY <1>t, <2>2, <2>4, EnteredIsExcused
    <2>6. ASSUME q.stage = "summed" PROVE Excused(q.day, q.known, q.upto, q.sum)'
      <3>1. Excused(q.day, q.known, q.upto, q.sum)
        BY <2>6 DEF Fits
      <3> QED
        BY <1>t, <2>2, <2>5, <3>1, ExcusedStays
    <2> QED
      BY <1>t, <2>2, <2>3, <2>6 DEF Grows
  <1> QED
    BY <1>2, <1>3, <1>4 DEF Fits

\* What the row of a closed day says stays true.
LEMMA ClosesStay ==
  ASSUME TypeOK, NEW m \in Movements, Writes(m), ClosesOK
  PROVE  ClosesOK' /\ closes' \in [Days -> Closes]
  <1>t. /\ sessions \in Seq(Sessions) /\ movements \in Seq(Movements) /\ closes \in [Days -> Closes]
        /\ Grows /\ DaysClose(m) /\ Entered(m) /\ movements' = Append(movements, m)
    BY DEF TypeOK, Writes
  <1>1. closes' \in [Days -> Closes]
    BY <1>t DEF DaysClose
  <1>2. ASSUME NEW d \in Days, NEW c \in Closes, c = closes'[d], c.made PROVE Settles(c, d)'
    <2>1. c.known \in Nat /\ c.upto \in Nat /\ c.expected \in Int
      BY DEF Closes
    <2>2. /\ Excused(d, c.known, c.upto, c.expected) /\ ClosedBut(d, c.known, {})'
          /\ m.amount > 0 /\ m.day = d => m.stale \/ m.session > c.known
      <3>1. CASE c = closes[d]
        <4>1. ClosedBut(d, c.known, {}) /\ Excused(d, c.known, c.upto, c.expected)
          BY <1>2, <3>1 DEF ClosesOK, Settles
        <4>2. m.amount > 0 /\ m.day = d => m.stale \/ m.session > c.known
          BY <1>t, <2>1, <4>1, EnteredIsExcused
        <4> QED
          BY <1>t, <2>1, <4>1, <4>2, ClosedButStays
      <3>2. CASE c # closes[d]
        <4>1. /\ Excused(d, c.known, c.upto, c.expected) /\ ClosedBut(d, c.known, {})'
              /\ m.amount = 0
          BY <1>t, <1>2, <3>2 DEF DaysClose
        <4> QED
          BY <4>1
      <3> QED
        BY <3>1, <3>2
    <2>3. Excused(d, c.known, c.upto, c.expected)'
      BY <1>t, <2>1, <2>2, ExcusedStays
    <2> QED
      BY <2>2, <2>3 DEF Settles
  <1> QED
    BY <1>1, <1>2 DEF ClosesOK

(***************************************************************************)
(* The books of one session.                                               *)
(***************************************************************************)
\* The movements of s tell an unbroken story.
Story(s) ==
  \A i \in MovementsOf(s) :
    /\ movements[i].after = movements[i].before + Signed(movements[i])
    /\ \A j \in MovementsOf(s) :
         (i < j /\ \A k \in MovementsOf(s) : k <= i \/ k >= j)
           => movements[j].before = movements[i].after
    /\ (\A k \in MovementsOf(s) : k <= i) => sessions[s].expected = movements[i].after

Books(s) ==
  OnlyLocked(s) => /\ sessions[s].expected = Balance(s) /\ Balance(s) >= 0
                   /\ Story(s)

LEMMA BooksBalanceIs == BooksBalance <=> \A s \in Ids : Books(s)
  BY DEF BooksBalance, Books, Story

\* The movements of a session after a step that writes m.
LEMMA MovementsAfter ==
  ASSUME movements \in Seq(Movements), NEW m \in Movements, movements' = Append(movements, m), NEW s
  PROVE  /\ MovementsOf(s)' = IF m.session = s THEN MovementsOf(s) \cup {Len(movements) + 1}
                              ELSE MovementsOf(s)
         /\ MovementsOf(s) \in SUBSET DOMAIN movements
  <1>1. /\ DOMAIN movements = 1..Len(movements) /\ DOMAIN movements' = 1..Len(movements) + 1
        /\ \A i \in DOMAIN movements : movements'[i] = movements[i]
        /\ movements'[Len(movements) + 1] = m /\ Len(movements) \in Nat
    BY JournalAfter
  <1> QED
    BY <1>1 DEF MovementsOf

\* A movement of another session changes nothing.
LEMMA BooksOfOthers ==
  ASSUME movements \in Seq(Movements), NEW m \in Movements, movements' = Append(movements, m),
         NEW s, Books(s), m.session # s, sessions'[s].expected = sessions[s].expected
  PROVE  Books(s)'
  <1>1. MovementsOf(s)' = MovementsOf(s) /\ MovementsOf(s) \in SUBSET DOMAIN movements
    BY MovementsAfter
  <1>2. \A i \in MovementsOf(s) : movements'[i] = movements[i]
    BY <1>1, JournalAfter
  <1>3. movements' \in Seq(Movements)
    BY JournalAfter
  <1>4. Balance(s)' = Balance(s)
    <2>1. Balance(s) = Total(SignedAt, MovementsOf(s))
      BY BalanceOfAll
    <2>2. Balance(s)' = Total(SignedAt', MovementsOf(s)')
      BY <1>3, BalanceOfAll
    <2> QED
      BY <1>1, <2>1, <2>2, TotalAppend
  <1>5. OnlyLocked(s)' => OnlyLocked(s)
    BY <1>1, <1>2 DEF OnlyLocked
  <1>6. Story(s) => Story(s)'
    BY <1>1, <1>2 DEF Story
  <1> QED
    BY <1>4, <1>5, <1>6 DEF Books

\* A movement written on the balance that it found carries it on.
LEMMA BooksOfCarried ==
  ASSUME movements \in Seq(Movements), NEW m \in Movements, movements' = Append(movements, m),
         NEW s, m.session = s,
         \/ Books(s) /\ m.before = sessions[s].expected
         \/ MovementsOf(s) = {} /\ m.before = 0,
         m.after = m.before + Signed(m), sessions'[s].expected = m.after,
         m.after >= 0 \/ m.after = m.before
  PROVE  Books(s)'
  <1> DEFINE n == Len(movements) + 1
  <1>1. /\ DOMAIN movements = 1..Len(movements) /\ Len(movements) \in Nat
        /\ movements' \in Seq(Movements)
        /\ \A i \in DOMAIN movements : movements'[i] = movements[i]
        /\ movements'[n] = m
    BY JournalAfter
  <1>2. MovementsOf(s)' = MovementsOf(s) \cup {n} /\ MovementsOf(s) \in SUBSET DOMAIN movements
    BY MovementsAfter
  <1>3. \A i \in MovementsOf(s) : movements'[i] = movements[i] /\ i \in Nat /\ i < n
    BY <1>1, <1>2
  <1> SUFFICES ASSUME OnlyLocked(s)'
               PROVE  /\ sessions'[s].expected = Balance(s)' /\ Balance(s)' >= 0
                      /\ Story(s)'
    BY DEF Books
  <1>4. OnlyLocked(s)
    BY <1>2, <1>3 DEF OnlyLocked
  <1>5. /\ m.before = Balance(s) /\ (MovementsOf(s) # {} => Story(s))
        /\ Balance(s) >= 0 /\ (MovementsOf(s) # {} => m.before = sessions[s].expected)
    <2>1. CASE Books(s) /\ m.before = sessions[s].expected
      BY <1>4, <2>1 DEF Books
    <2>2. CASE MovementsOf(s) = {} /\ m.before = 0
      <3>1. Balance(s) = Total(SignedAt, MovementsOf(s))
        BY BalanceOfAll
      <3>2. Total(SignedAt, {}) = 0
        BY TotalEmpty
      <3> QED
        BY <2>2, <3>1, <3>2
    <2> QED
      BY <2>1, <2>2
  <1>6. Balance(s)' = Balance(s) + Signed(m)
    <2>1. Balance(s) = Total(SignedAt, MovementsOf(s))
      BY BalanceOfAll
    <2>2. Balance(s)' = Total(SignedAt', MovementsOf(s)')
      BY <1>1, BalanceOfAll
    <2> QED
      BY <1>2, <2>1, <2>2, TotalAppend
  <1>7. sessions'[s].expected = Balance(s)' /\ Balance(s)' >= 0
    BY <1>5, <1>6
  <1>8. Story(s)'
    <2> SUFFICES ASSUME NEW i \in MovementsOf(s)'
                 PROVE  /\ movements'[i].after = movements'[i].before + Signed(movements'[i])
                        /\ \A j \in MovementsOf(s)' :
                             (i < j /\ \A k \in MovementsOf(s)' : k <= i \/ k >= j)
                               => movements'[j].before = movements'[i].after
                        /\ (\A k \in MovementsOf(s)' : k <= i) => sessions'[s].expected = movements'[i].after
      BY DEF Story
    <2>1. CASE i = n
      BY <1>1, <1>2, <1>3, <2>1
    <2>2. CASE i # n
      <3>1. i \in MovementsOf(s) /\ i < n /\ i \in Nat /\ Story(s) /\ m.before = sessions[s].expected
        BY <1>2, <1>3, <1>5, <2>2
      <3>2. movements'[i].after = movements'[i].before + Signed(movements'[i])
        BY <1>3, <3>1 DEF Story
      <3>3. ~ (\A k \in MovementsOf(s)' : k <= i)
        BY <1>1, <1>2, <3>1
      <3>4. ASSUME NEW j \in MovementsOf(s)', i < j, \A k \in MovementsOf(s)' : k <= i \/ k >= j
            PROVE  movements'[j].before = movements'[i].after
        <4>1. CASE j = n
          <5>1. \A k \in MovementsOf(s) : k <= i
            BY <1>1, <1>2, <1>3, <3>4, <4>1
          <5>2. sessions[s].expected = movements[i].after
            BY ONLY <3>1, <5>1 DEF Story
          <5>3. movements'[j] = m /\ movements'[i] = movements[i]
            BY <1>1, <1>3, <3>1, <4>1
          <5> QED
            BY ONLY <3>1, <5>2, <5>3
        <4>2. CASE j # n
          <5>1. j \in MovementsOf(s) /\ \A k \in MovementsOf(s) : k <= i \/ k >= j
            BY <1>2, <3>4, <4>2
          <5>2. movements[j].before = movements[i].after
            BY ONLY <3>1, <3>4, <5>1 DEF Story
          <5>3. movements'[j] = movements[j] /\ movements'[i] = movements[i]
            BY <1>3, <3>1, <5>1
          <5> QED
            BY ONLY <5>2, <5>3
        <4> QED
          BY <4>1, <4>2
      <3> QED
        BY <3>2, <3>3, <3>4
    <2> QED
      BY <2>1, <2>2
  <1> QED
    BY <1>7, <1>8

LEMMA BooksStay ==
  ASSUME TypeOK, RowsOK, BooksBalance, NEW m \in Movements, Writes(m)
  PROVE  BooksBalance'
  <1>t. /\ sessions \in Seq(Sessions) /\ movements \in Seq(Movements)
        /\ movements' = Append(movements, m) /\ Grows
    BY DEF TypeOK, Writes
  <1> SUFFICES ASSUME NEW s \in Ids' PROVE Books(s)'
    BY BooksBalanceIs DEF BooksBalance, Books, Story
  <1>1. Carried(s, m)
    BY DEF Writes
  <1>2. CASE s \in Ids
    <2>1. Books(s)
      BY <1>2, BooksBalanceIs
    <2>2. CASE m.session # s /\ sessions'[s].expected = sessions[s].expected
      BY <1>t, <2>1, <2>2, BooksOfOthers
    <2>3. CASE m.session = s /\ m.stale
      <3>1. Len(movements) + 1 \in MovementsOf(s)' /\ movements'[Len(movements) + 1] = m
        BY <1>t, <2>3, MovementsAfter, JournalAfter
      <3>2. ~OnlyLocked(s)'
        BY <2>3, <3>1 DEF OnlyLocked
      <3> QED
        BY <3>2 DEF Books
    <2> QED
      BY <1>1, <1>2, <1>t, <2>1, <2>2, <2>3, BooksOfCarried DEF Carried
  <1>3. CASE s \notin Ids
    <2>1. MovementsOf(s) = {}
      BY <1>t, <1>3, Places DEF MovementsOf, RowsOK
    <2>2. CASE m.session = s /\ m.stale
      <3>1. Len(movements) + 1 \in MovementsOf(s)' /\ movements'[Len(movements) + 1] = m
        BY <1>t, <2>2, MovementsAfter, JournalAfter
      <3>2. ~OnlyLocked(s)'
        BY <2>2, <3>1 DEF OnlyLocked
      <3> QED
        BY <3>2 DEF Books
    <2> QED
      BY <1>1, <1>3, <1>t, <2>1, <2>2, BooksOfCarried DEF Carried
  <1> QED
    BY <1>2, <1>3

(***************************************************************************)
(* Every step keeps the invariant.                                         *)
(***************************************************************************)
LEMMA CutsAfter ==
  ASSUME cuts \in Seq(Cuts), CutsGrow, \A k \in DOMAIN cuts : cuts[k].session \in Ids
  PROVE  cuts' \in Seq(Cuts) /\ \A k \in DOMAIN cuts' : cuts'[k].session \in Ids
  <1>1. CASE cuts' = cuts
    BY <1>1
  <1>2. ASSUME NEW c \in Cuts, c.session \in Ids, cuts' = Append(cuts, c)
        PROVE  cuts' \in Seq(Cuts) /\ \A k \in DOMAIN cuts' : cuts'[k].session \in Ids
    <2>1. /\ cuts' \in Seq(Cuts) /\ DOMAIN cuts = 1..Len(cuts) /\ DOMAIN cuts' = 1..Len(cuts) + 1
          /\ Len(cuts) \in Nat /\ cuts'[Len(cuts) + 1] = c
          /\ \A k \in DOMAIN cuts : cuts'[k] = cuts[k]
      BY <1>2
    <2> HIDE DEF Ids
    <2> QED
      BY <1>2, <2>1
  <1> QED
    BY <1>1, <1>2 DEF CutsGrow

LEMMA RowsStay ==
  ASSUME TypeOK, RowsOK, NEW m \in Movements, Writes(m)
  PROVE  RowsOK' /\ cuts' \in Seq(Cuts) /\ movements' \in Seq(Movements)
  <1>t. /\ sessions \in Seq(Sessions) /\ movements \in Seq(Movements) /\ cuts \in Seq(Cuts)
        /\ movements' = Append(movements, m) /\ Grows /\ CutsGrow
    BY DEF TypeOK, Writes
  <1>1. cuts' \in Seq(Cuts) /\ \A k \in DOMAIN cuts' : cuts'[k].session \in Ids'
    BY <1>t, CutsAfter DEF RowsOK, Grows
  <1>2. movements' \in Seq(Movements)
    BY <1>t, JournalAfter
  <1>3. \A i \in DOMAIN movements' : movements'[i].session \in Ids' \cup {0}
    BY <1>t, JournalAfter DEF RowsOK, Writes, Grows
  <1>4. ASSUME NEW s \in Ids' PROVE \E i \in MovementsOf(s)' : movements'[i].action = "OPEN"
    <2>1. CASE s \in Ids
      <3>1. PICK i \in MovementsOf(s) : movements[i].action = "OPEN"
        BY <2>1 DEF RowsOK
      <3> QED
        BY <1>t, <3>1, MovementsAfter, JournalAfter
    <2>2. CASE s \notin Ids
      <3>1. m.session = s /\ m.action = "OPEN"
        BY <2>2 DEF Writes
      <3> QED
        BY <1>t, <3>1, MovementsAfter, JournalAfter
    <2> QED
      BY <2>1, <2>2
  <1> QED
    BY <1>1, <1>2, <1>3, <1>4 DEF RowsOK

\* A second session appears only if its request looked before the first was
\* there, or the day of the first is closed.
LEMMA SecondStays ==
  ASSUME TypeOK, RequestsOK, SecondSessionOnlyByRace, NEW m \in Movements, Writes(m)
  PROVE  SecondSessionOnlyByRace'
  <1>t. /\ sessions \in Seq(Sessions) /\ closes \in [Days -> Closes] /\ Grows /\ DaysClose(m)
    BY DEF TypeOK, Writes
  <1> SUFFICES ASSUME NEW c \in Cashiers, NEW s \in OpenOf(c)', NEW t \in OpenOf(c)',
                      s < t, s <= sessions'[t].looked
               PROVE  closes'[sessions'[s].day].made
    BY DEF SecondSessionOnlyByRace
  <1>1. s \in Ids' /\ t \in Ids' /\ sessions'[s].cashier = c /\ sessions'[t].cashier = c
        /\ sessions'[s].status = "OPEN" /\ sessions'[t].status = "OPEN"
    BY DEF OpenOf
  <1>2. s \in Ids
    <2>1. CASE t \in Ids
      BY <1>t, <1>1, <2>1, Places
    <2>2. CASE t \notin Ids
      <3>1. t = Len(sessions) + 1
        BY <1>1, <2>2 DEF Writes
      <3> QED
        BY <1>t, <1>1, <3>1, Places
    <2> QED
      BY <2>1, <2>2
  <1>3. /\ s \in OpenOf(c) /\ sessions'[s].day = sessions[s].day /\ sessions[s].day \in Days
    <2>1. sessions[s] \in Sessions
      BY <1>t, <1>2, Places
    <2> QED
      BY <1>t, <1>1, <1>2, <2>1 DEF OpenOf, Grows, Sessions
  <1>4. closes[sessions[s].day].made
    <2>1. CASE t \in Ids
      <3>1. sessions[t] \in Sessions
        BY <1>t, <2>1, Places
      <3>2. t \in OpenOf(c) /\ sessions'[t].looked = sessions[t].looked
        BY <1>t, <1>1, <2>1, <3>1 DEF OpenOf, Grows, Sessions
      <3> QED
        BY <1>3, <3>2 DEF SecondSessionOnlyByRace
    <2>2. CASE t \notin Ids
      <3>1. PICK r \in Requests : /\ req[r].stage = "looked" /\ c = req[r].cashier
                                  /\ sessions'[t].looked = req[r].looked
        BY <1>1, <2>2 DEF Writes, Newcomer
      <3>2. Looked(c, req[r].looked)
        BY <3>1 DEF RequestsOK, Fits
      <3> QED
        BY <1>3, <3>1, <3>2 DEF Looked
    <2> QED
      BY <2>1, <2>2
  <1> QED
    BY <1>t, <1>3, <1>4 DEF DaysClose

LEMMA WritesKeeps ==
  ASSUME IInv, NEW m \in Movements, Writes(m)
  PROVE  IInv'
  <1>1. RowsOK' /\ cuts' \in Seq(Cuts) /\ movements' \in Seq(Movements)
    BY RowsStay DEF IInv
  <1>2. ClosesOK' /\ closes' \in [Days -> Closes]
    BY ClosesStay DEF IInv
  <1>3. BooksBalance'
    BY BooksStay DEF IInv
  <1>4. SecondSessionOnlyByRace'
    BY SecondStays DEF IInv
  <1>5. TypeOK'
    BY <1>1, <1>2 DEF TypeOK, Writes, Grows, RequestsEnd
  <1>6. RequestsOK'
    <2> SUFFICES ASSUME NEW r \in Requests PROVE Fits(req[r])'
      BY DEF RequestsOK
    <2>1. PICK q : q = req[r]
      OBVIOUS
    <2>2. Fits(q)'
      BY <2>1, FitsStays DEF IInv, RequestsOK
    <2>3. Fits(Idle)'
      BY DEF Fits, Idle
    <2>4. req'[r] = q \/ req'[r] = Idle
      BY <2>1 DEF Writes, RequestsEnd
    <2> QED
      BY <2>2, <2>3, <2>4 DEF Fits
  <1> QED
    BY <1>1, <1>2, <1>3, <1>4, <1>5, <1>6 DEF IInv

\* Steps that write no movement leave what the invariant says of the journal.
LEMMA SameRows ==
  ASSUME UNCHANGED <<sessions, movements, closes>>
  PROVE  /\ BooksBalance => BooksBalance'
         /\ SecondSessionOnlyByRace => SecondSessionOnlyByRace'
         /\ ClosesOK => ClosesOK'
         /\ \A q : Fits(q) => Fits(q)'
  <1>1. SignedAt' = SignedAt /\ Ids' = Ids
    BY DEF SignedAt, Ids
  <1>2. \A s : MovementsOf(s)' = MovementsOf(s)
    BY DEF MovementsOf
  <1>3. \A s : Balance(s)' = Balance(s)
    BY <1>1 DEF Balance, BalanceUpTo
  <1>4. BooksBalance => BooksBalance'
    BY <1>1, <1>2, <1>3 DEF BooksBalance, OnlyLocked
  <1>5. \A c : OpenOf(c)' = OpenOf(c)
    BY <1>1 DEF OpenOf
  <1>6. SecondSessionOnlyByRace => SecondSessionOnlyByRace'
    BY <1>5 DEF SecondSessionOnlyByRace
  <1>7. \A d, known, found : ClosedBut(d, known, found)' = ClosedBut(d, known, found)
    BY <1>1 DEF ClosedBut
  <1>8. \A d, upto : Late(d, upto)' = Late(d, upto) /\ DayTotal(d)' = DayTotal(d)
    BY <1>1 DEF Late, DayTotal
  <1>9. \A d, known, upto, sum : Excused(d, known, upto, sum)' = Excused(d, known, upto, sum)
    BY <1>1, <1>8 DEF Excused
  <1>10. ClosesOK => ClosesOK'
    BY <1>7, <1>9 DEF ClosesOK, Settles
  <1>11. \A c, n : Looked(c, n)' = Looked(c, n)
    BY <1>5 DEF Looked
  <1>12. \A q : Fits(q) => Fits(q)'
    BY <1>1, <1>7, <1>9, <1>11 DEF Fits
  <1> QED
    BY <1>4, <1>6, <1>10, <1>12

LEMMA ThinksKeeps ==
  ASSUME IInv, Thinks
  PROVE  IInv'
  <1>1. PICK r \in Requests, q \in {Idle} \cup Opening \cup Booking \cup Closing :
          Fits(q) /\ req' = [req EXCEPT ![r] = q]
    BY DEF Thinks
  <1>2. UNCHANGED <<sessions, movements, closes, cuts>>
    BY DEF Thinks
  <1>3. TypeOK'
    BY <1>1, <1>2 DEF IInv, TypeOK
  <1>4. RowsOK'
    BY <1>2 DEF IInv, RowsOK, MovementsOf, Ids
  <1>5. RequestsOK'
    <2> SUFFICES ASSUME NEW p \in Requests PROVE Fits(req[p])'
      BY DEF RequestsOK
    <2>1. req \in [Requests -> {Idle} \cup Opening \cup Booking \cup Closing] /\ Fits(req[p])
      BY DEF IInv, TypeOK, RequestsOK
    <2>2. PICK u : u = req'[p]
      OBVIOUS
    <2>3. Fits(u)
      BY <1>1, <2>1, <2>2
    <2>4. Fits(u)'
      BY <1>2, <2>3, SameRows
    <2> QED
      BY <2>2, <2>4 DEF Fits
  <1> QED
    BY <1>2, <1>3, <1>4, <1>5, SameRows DEF IInv

LEMMA CountsKeeps ==
  ASSUME IInv, Counts
  PROVE  IInv'
  <1>1. UNCHANGED <<sessions, movements, closes, req>> /\ CutsGrow
    BY DEF Counts, CutsGrow
  <1>2. Ids' = Ids /\ \A s : MovementsOf(s)' = MovementsOf(s)
    BY <1>1 DEF Ids, MovementsOf
  <1>3. cuts' \in Seq(Cuts) /\ \A k \in DOMAIN cuts' : cuts'[k].session \in Ids
    BY <1>1, CutsAfter DEF IInv, TypeOK, RowsOK
  <1>4. TypeOK' /\ RowsOK'
    BY <1>1, <1>2, <1>3 DEF IInv, TypeOK, RowsOK
  <1>5. RequestsOK'
    BY <1>1, SameRows DEF IInv, RequestsOK
  <1> QED
    BY <1>1, <1>4, <1>5, SameRows DEF IInv

(***************************************************************************)
(* What each action does.                                                  *)
(***************************************************************************)
RequestTypes == {Idle} \cup Opening \cup Booking \cup Closing

\* A request may go idle or go on with what fits.
LEMMA ThinksOf ==
  ASSUME NEW r \in Requests, NEW q \in RequestTypes, Fits(q), req' = [req EXCEPT ![r] = q],
         UNCHANGED <<sessions, movements, closes, cuts>>
  PROVE  Thinks
  BY DEF Thinks, RequestTypes

LEMMA IdleFits == Fits(Idle) /\ Idle \in RequestTypes
  BY DEF Fits, Idle, RequestTypes

\* A request that ends releases what it held.
LEMMA Ends ==
  ASSUME IInv, req' = req \/ \E r \in Requests : req' = [req EXCEPT ![r] = Idle]
  PROVE  RequestsEnd
  BY DEF IInv, TypeOK, RequestsEnd

\* Which sessions are there for a cashier.
LEMMA OpenSessions ==
  ASSUME IInv, NEW c
  PROVE  /\ Usable(c) \subseteq OpenOf(c)
         /\ \A s \in OpenOf(c) : s \in Ids /\ sessions[s] \in Sessions /\ sessions[s].status = "OPEN"
         /\ Usable(c) # {} => Latest(Usable(c)) \in Usable(c)
         /\ OpenOf(c) # {} => Latest(OpenOf(c)) \in OpenOf(c)
  <1>1. /\ Usable(c) \subseteq OpenOf(c) /\ OpenOf(c) \subseteq Ids
        /\ \A s \in Ids : sessions[s] \in Sessions
        /\ Len(sessions) \in Nat /\ Ids = 1..Len(sessions)
    BY DEF IInv, TypeOK, Usable, OpenOf, Ids
  <1>2. Usable(c) \in SUBSET (1..Len(sessions)) /\ OpenOf(c) \in SUBSET (1..Len(sessions))
    BY <1>1
  <1>3. \A s \in OpenOf(c) : sessions[s].status = "OPEN"
    BY DEF OpenOf
  <1> QED
    BY <1>1, <1>2, <1>3, LatestIn

\* A booking, on a session that is held and open or was read before.
LEMMA BookWrites ==
  ASSUME IInv, NEW s \in Ids, NEW action \in Plus \cup Minus, NEW amount \in Nat, NEW change \in Nat,
         NEW before \in Int, NEW stale \in BOOLEAN,
         Book(s, action, amount, change, before, stale),
         stale \/ (before = sessions[s].expected /\ ~Locked(s) /\ sessions[s].status = "OPEN"),
         closes' = closes, RequestsEnd, CutsGrow
  PROVE  \E m \in Movements : Writes(m)
  <1> DEFINE m == Entry(s, action, amount, change, before, stale)
  <1>t. /\ sessions \in Seq(Sessions) /\ sessions[s] \in Sessions /\ Ids = 1..Len(sessions)
        /\ Len(sessions) \in Nat /\ s \in Nat /\ s # 0
    BY DEF IInv, TypeOK, Ids
  <1>1. /\ m.session = s /\ m.day = sessions[s].day /\ m.action = action /\ m.amount = amount
        /\ m.before = before /\ m.stale = stale
        /\ m.after = before + (IF action \in Plus THEN 1 ELSE -1) * amount
        /\ m.after \in Int /\ m \in Movements
    BY <1>t DEF Entry, Movements, Sessions
  <1>2. Signed(m) = (IF action \in Plus THEN 1 ELSE -1) * amount
    BY <1>1 DEF Signed
  <1>3. /\ m.after >= 0 /\ movements' = Append(movements, m)
        /\ sessions' = [sessions EXCEPT ![s].expected = m.after]
    BY DEF Book
  <1> HIDE DEF m
  <1>4. /\ sessions' \in Seq(Sessions) /\ Ids' = Ids
        /\ sessions'[s] = [sessions[s] EXCEPT !.expected = m.after]
        /\ \A t \in Ids : t # s => sessions'[t] = sessions[t]
    <2>1. PICK e \in Sessions : e = [sessions[s] EXCEPT !.expected = m.after]
      BY <1>t, <1>1 DEF Sessions
    <2>2. sessions' = [sessions EXCEPT ![s] = e]
      BY <1>3, <2>1
    <2> QED
      BY <1>t, <2>1, <2>2 DEF Ids
  <1>5. Grows
    <2>1. /\ sessions'[s].cashier = sessions[s].cashier /\ sessions'[s].day = sessions[s].day
          /\ sessions'[s].looked = sessions[s].looked /\ sessions'[s].status = sessions[s].status
      BY ONLY <1>4, <1>t DEF Sessions
    <2> QED
      BY ONLY <1>4, <2>1 DEF Grows
  <1>6. sessions'[s].expected = m.after
    BY <1>t, <1>4 DEF Sessions
  <1>7. \A t \in Ids' : Carried(t, m)
    BY <1>1, <1>2, <1>3, <1>4, <1>6 DEF Carried
  <1>8. Entered(m)
    BY <1>1 DEF Entered
  <1>9. DaysClose(m)
    BY DEF DaysClose
  <1>10. Writes(m)
    BY <1>1, <1>3, <1>4, <1>5, <1>7, <1>8, <1>9 DEF Writes
  <1> QED
    BY <1>1, <1>10

LEMMA OpenInsertWrites ==
  ASSUME IInv, NEW r \in Requests, OpenInsert(r)
  PROVE  \E m \in Movements : Writes(m)
  <1> DEFINE q == req[r]
             n == Len(sessions) + 1
             e == [cashier |-> q.cashier, day |-> q.day, status |-> "OPEN",
                   expected |-> q.amount, looked |-> q.looked]
             m == [session |-> n, day |-> q.day, action |-> "OPEN", amount |-> q.amount,
                   change |-> 0, before |-> 0, after |-> q.amount, stale |-> FALSE]
  <1>t. /\ sessions \in Seq(Sessions) /\ Ids = 1..Len(sessions) /\ Len(sessions) \in Nat
        /\ q \in RequestTypes /\ q.stage = "looked"
    BY DEF IInv, TypeOK, Ids, OpenInsert, RequestTypes
  <1>1. q \in Opening /\ q.cashier \in Cashiers /\ q.day \in Days /\ q.amount \in Nat /\ q.looked \in Nat
    <2>1. q \in Opening
      BY <1>t DEF RequestTypes, Idle, Booking, Closing
    <2> QED
      BY <2>1, AmountsAssumption DEF Opening
  <1>2. sessions' = Append(sessions, e) /\ movements' = Append(movements, m)
    BY DEF OpenInsert
  <1>3. e \in Sessions /\ m \in Movements
    BY <1>t, <1>1 DEF Sessions, Movements, Plus
  <1>4. /\ m.session = n /\ m.action = "OPEN" /\ m.before = 0 /\ m.after = q.amount
        /\ m.after = m.before + Signed(m) /\ m.after >= 0 /\ m.amount = q.amount
    BY <1>1 DEF Signed, Plus
  <1>5. e.cashier = q.cashier /\ e.looked = q.looked /\ e.expected = q.amount
    OBVIOUS
  <1> HIDE DEF e, m
  <1>6. /\ sessions' \in Seq(Sessions) /\ Ids' = Ids \cup {n} /\ n \notin Ids /\ n # 0
        /\ sessions'[n] = e /\ \A s \in Ids : sessions'[s] = sessions[s]
    BY <1>t, <1>2, <1>3 DEF Ids
  <1>7. Grows
    BY <1>6 DEF Grows
  <1>8. \A s \in Ids' : Carried(s, m)
    BY <1>4, <1>5, <1>6 DEF Carried
  <1>9. \A s \in Ids' \ Ids : s = n /\ m.session = s /\ m.action = "OPEN" /\ Newcomer(s)
    BY <1>t, <1>1, <1>4, <1>5, <1>6 DEF Newcomer
  <1>10. RequestsEnd
    BY Ends DEF OpenInsert
  <1>11. Entered(m) /\ DaysClose(m) /\ CutsGrow
    BY <1>4 DEF Entered, DaysClose, CutsGrow, OpenInsert
  <1>12. Writes(m)
    BY <1>2, <1>4, <1>6, <1>7, <1>8, <1>9, <1>10, <1>11 DEF Writes
  <1> QED
    BY <1>3, <1>12

LEMMA CloseWrites ==
  ASSUME IInv, NEW c \in Cashiers, Close(c)
  PROVE  \E m \in Movements : Writes(m)
  <1> DEFINE s == Latest(Usable(c))
             m == [Entry(s, "CLOSE", 0, 0, sessions[s].expected, FALSE)
                   EXCEPT !.after = sessions[s].expected]
  <1>t. /\ sessions \in Seq(Sessions) /\ Ids = 1..Len(sessions) /\ Len(sessions) \in Nat
    BY DEF IInv, TypeOK, Ids
  <1>1. s \in Ids /\ sessions[s] \in Sessions /\ s # 0
    BY <1>t, OpenSessions DEF Close
  <1>2. /\ sessions' = [sessions EXCEPT ![s].status = "CLOSED"]
        /\ movements' = Append(movements, m) /\ UNCHANGED <<closes, cuts, req>>
    BY DEF Close
  <1>3. /\ m \in Movements /\ m.session = s /\ m.action = "CLOSE" /\ m.amount = 0
        /\ m.before = sessions[s].expected /\ m.after = sessions[s].expected
    <2>1. m = [session |-> s, day |-> sessions[s].day, action |-> "CLOSE", amount |-> 0,
               change |-> 0, before |-> sessions[s].expected, after |-> sessions[s].expected,
               stale |-> FALSE]
      <3>1. \E a : Entry(s, "CLOSE", 0, 0, sessions[s].expected, FALSE) =
                     [session |-> s, day |-> sessions[s].day, action |-> "CLOSE", amount |-> 0,
                      change |-> 0, before |-> sessions[s].expected, after |-> a, stale |-> FALSE]
        BY DEF Entry
      <3>2. PICK a : Entry(s, "CLOSE", 0, 0, sessions[s].expected, FALSE) =
                     [session |-> s, day |-> sessions[s].day, action |-> "CLOSE", amount |-> 0,
                      change |-> 0, before |-> sessions[s].expected, after |-> a, stale |-> FALSE]
        BY <3>1
      <3> DEFINE e == [session |-> s, day |-> sessions[s].day, action |-> "CLOSE", amount |-> 0,
                       change |-> 0, before |-> sessions[s].expected, after |-> a, stale |-> FALSE]
      <3>3. m = [e EXCEPT !.after = sessions[s].expected]
        BY Zenon, <3>2
      <3> HIDE DEF s, m
      <3> QED
        BY <3>3
    <2>2. s \in Nat /\ sessions[s].day \in Days /\ sessions[s].expected \in Int
      BY <1>1, <1>t DEF Sessions
    <2> HIDE DEF s, m
    <2> QED
      BY <2>1, <2>2 DEF Movements
  <1>4. Signed(m) = 0 /\ sessions[s].expected \in Int
    BY <1>1, <1>3 DEF Signed, Sessions, Plus, Minus
  <1> HIDE DEF s, m
  <1>5. PICK e \in Sessions : e = [sessions[s] EXCEPT !.status = "CLOSED"]
    BY <1>1 DEF Sessions
  <1>6. sessions' = [sessions EXCEPT ![s] = e]
    BY <1>2, <1>5
  <1>7. /\ sessions' \in Seq(Sessions) /\ Ids' = Ids /\ sessions'[s] = e
        /\ \A t \in Ids : t # s => sessions'[t] = sessions[t]
    BY <1>t, <1>1, <1>5, <1>6 DEF Ids
  <1>8. e.cashier = sessions[s].cashier /\ e.day = sessions[s].day /\ e.looked = sessions[s].looked
        /\ e.status = "CLOSED" /\ e.expected = sessions[s].expected
    BY <1>1, <1>5 DEF Sessions
  <1>9. Grows
    BY <1>7, <1>8 DEF Grows
  <1>10. \A t \in Ids' : Carried(t, m)
    BY <1>1, <1>3, <1>4, <1>7, <1>8 DEF Carried
  <1>11. RequestsEnd /\ Entered(m) /\ DaysClose(m) /\ CutsGrow
    BY <1>2, <1>3, Ends DEF Entered, DaysClose, CutsGrow
  <1>12. Writes(m)
    BY <1>1, <1>2, <1>3, <1>7, <1>9, <1>10, <1>11 DEF Writes
  <1> QED
    BY <1>3, <1>12

LEMMA CloseDayInsertWrites ==
  ASSUME IInv, NEW r \in Requests, CloseDayInsert(r)
  PROVE  \E m \in Movements : Writes(m)
  <1>0. PICK q : q = req[r]
    OBVIOUS
  <1> DEFINE c == [made |-> TRUE, expected |-> q.sum, known |-> q.known, upto |-> q.upto]
             m == [session |-> 0, day |-> q.day, action |-> "DAY_CLOSE", amount |-> 0,
                   change |-> 0, before |-> 0, after |-> 0, stale |-> FALSE]
  <1>t. /\ sessions \in Seq(Sessions) /\ Ids = 1..Len(sessions) /\ Len(sessions) \in Nat
        /\ \A s \in Ids : sessions[s] \in Sessions /\ s # 0
        /\ q \in RequestTypes /\ q.stage = "summed"
    BY <1>0 DEF IInv, TypeOK, Ids, CloseDayInsert, RequestTypes
  <1>1. q \in Closing
    BY <1>t DEF RequestTypes, Idle, Booking, Opening
  <1>2. /\ ~closes[q.day].made /\ closes' = [closes EXCEPT ![q.day] = c]
        /\ sessions' = [s \in Ids |-> IF s \in q.found THEN [sessions[s] EXCEPT !.status = "CLOSED"]
                                      ELSE sessions[s]]
        /\ movements' = Append(movements, m) /\ req' = [req EXCEPT ![r] = Idle] /\ cuts' = cuts
    BY <1>0 DEF CloseDayInsert
  <1>3. /\ c \in Closes /\ m \in Movements /\ q.day \in Days
        /\ c.known = q.known /\ c.upto = q.upto /\ c.expected = q.sum
        /\ m.session = 0 /\ m.amount = 0 /\ q.known \in Nat
    BY <1>1 DEF Closing, Closes, Movements
  <1>4. /\ q.found \subseteq Ids /\ ClosedBut(q.day, q.known, q.found)
        /\ Excused(q.day, q.known, q.upto, q.sum)
    BY <1>t, <1>0 DEF IInv, RequestsOK, Fits
  <1> HIDE DEF c, m
  <1>5. /\ sessions' \in Seq(Sessions) /\ Ids' = Ids
        /\ \A s \in Ids : /\ sessions'[s].cashier = sessions[s].cashier
                          /\ sessions'[s].day = sessions[s].day
                          /\ sessions'[s].looked = sessions[s].looked
                          /\ sessions'[s].expected = sessions[s].expected
                          /\ sessions[s].status = "CLOSED" \/ s \in q.found
                               => sessions'[s].status = "CLOSED"
    <2>1. \A s \in Ids : /\ sessions'[s] = IF s \in q.found THEN [sessions[s] EXCEPT !.status = "CLOSED"]
                                           ELSE sessions[s]
                         /\ sessions'[s] \in Sessions
      <3>1. \A s \in Ids : sessions'[s] = IF s \in q.found THEN [sessions[s] EXCEPT !.status = "CLOSED"]
                                          ELSE sessions[s]
        BY ONLY <1>2
      <3>2. \A e \in Sessions : [e EXCEPT !.status = "CLOSED"] \in Sessions
        BY DEF Sessions
      <3> QED
        BY ONLY <1>t, <3>1, <3>2
    <2>2. DOMAIN sessions' = Ids
      BY <1>2
    <2>3. sessions' \in Seq(Sessions) /\ Ids' = Ids
      <3>1. sessions' = [s \in 1..Len(sessions) |-> sessions'[s]]
        BY <1>t, <1>2
      <3> QED
        BY <1>t, <2>1, <2>2, <3>1 DEF Ids
    <2>4. ASSUME NEW s \in Ids
          PROVE  /\ sessions'[s].cashier = sessions[s].cashier
                 /\ sessions'[s].day = sessions[s].day
                 /\ sessions'[s].looked = sessions[s].looked
                 /\ sessions'[s].expected = sessions[s].expected
                 /\ sessions[s].status = "CLOSED" \/ s \in q.found
                      => sessions'[s].status = "CLOSED"
      <3>1. /\ sessions[s] \in Sessions
            /\ sessions'[s] = IF s \in q.found THEN [sessions[s] EXCEPT !.status = "CLOSED"]
                              ELSE sessions[s]
        BY <1>t, <2>1
      <3> QED
        BY ONLY <3>1 DEF Sessions
    <2> QED
      BY <2>3, <2>4
  <1>6. Grows
    BY <1>5 DEF Grows
  <1>7. ClosedBut(q.day, q.known, {})'
    <2>1. Len(sessions') = Len(sessions)
      BY <1>t, <1>5 DEF Ids
    <2> QED
      BY <1>4, <1>5, <2>1 DEF ClosedBut
  <1>8. DaysClose(m)
    BY <1>2, <1>3, <1>4, <1>7 DEF DaysClose
  <1>9. \A s \in Ids' : Carried(s, m)
    BY <1>t, <1>3, <1>5 DEF Carried
  <1>10. RequestsEnd /\ Entered(m) /\ CutsGrow
    BY <1>2, <1>3, Ends DEF Entered, CutsGrow
  <1>11. Writes(m)
    BY <1>2, <1>3, <1>5, <1>6, <1>8, <1>9, <1>10 DEF Writes
  <1> QED
    BY <1>3, <1>11

(***************************************************************************)
(* Requests that read, look and count.                                     *)
(***************************************************************************)
LEMMA OpenThinks ==
  ASSUME IInv, NEW r \in Requests
  PROVE  /\ \A c \in Cashiers, d \in Days, a \in Amounts : OpenCheck(r, c, d, a) => Thinks
         /\ OpenLook(r) => Thinks
  <1>1. ASSUME NEW c \in Cashiers, NEW d \in Days, NEW a \in Amounts, OpenCheck(r, c, d, a)
        PROVE  Thinks
    <2> DEFINE q == [stage |-> "checked", cashier |-> c, day |-> d, amount |-> a, looked |-> 0]
    <2>1. q \in RequestTypes /\ Fits(q)
      BY DEF RequestTypes, Opening, Fits
    <2> QED
      BY <1>1, <2>1, ThinksOf DEF OpenCheck
  <1>2. ASSUME OpenLook(r) PROVE Thinks
    <2>1. /\ req[r].stage = "checked"
          /\ req' = [req EXCEPT ![r] = IF Usable(req[r].cashier) # {} THEN Idle
                                       ELSE [req[r] EXCEPT !.stage = "looked",
                                                           !.looked = Len(sessions)]]
          /\ UNCHANGED <<sessions, movements, closes, cuts>>
      BY <1>2 DEF OpenLook
    <2>2. req[r] \in Opening /\ Len(sessions) \in Nat
      BY <2>1 DEF IInv, TypeOK, Idle, Booking, Closing
    <2>3. CASE Usable(req[r].cashier) # {}
      BY <2>1, <2>3, IdleFits, ThinksOf
    <2>4. CASE Usable(req[r].cashier) = {}
      <3> DEFINE q == [req[r] EXCEPT !.stage = "looked", !.looked = Len(sessions)]
      <3>1. q \in Opening /\ q.stage = "looked" /\ q.cashier = req[r].cashier /\ q.looked = Len(sessions)
        BY <2>2 DEF Opening
      <3>2. Looked(q.cashier, q.looked)
        BY <2>2, <2>4, <3>1 DEF Looked, Usable
      <3>3. Fits(q) /\ q \in RequestTypes
        BY <3>1, <3>2 DEF Fits, RequestTypes
      <3> QED
        BY <2>1, <2>4, <3>3, ThinksOf
    <2> QED
      BY <2>3, <2>4
  <1> QED
    BY <1>1, <1>2

LEMMA ReadThinks ==
  ASSUME IInv, NEW r \in Requests, NEW c \in Cashiers, NEW a \in Amounts
  PROVE  /\ \A action \in {"SALE", "CASH_OUT_REFUND"} : ReadFallback(r, c, action, a) => Thinks
         /\ \A action \in {"CASH_IN", "CASH_OUT"} : ReadAdvance(r, c, action, a) => Thinks
  <1>1. ASSUME NEW s \in Ids, NEW action \in Plus \cup Minus, NEW change \in Nat,
               Read(r, s, action, a, change)
        PROVE  Thinks
    <2> DEFINE q == [stage |-> "read", session |-> s, action |-> action, amount |-> a,
                     change |-> change, before |-> sessions[s].expected]
    <2>1. sessions[s] \in Sessions /\ s \in Nat /\ a \in Nat
      BY AmountsAssumption DEF IInv, TypeOK, Ids
    <2>2. q \in RequestTypes /\ Fits(q)
      BY <2>1 DEF RequestTypes, Booking, Fits, Sessions
    <2> QED
      BY <1>1, <2>2, ThinksOf DEF Read
  <1>2. ASSUME NEW action \in {"SALE", "CASH_OUT_REFUND"}, ReadFallback(r, c, action, a)
        PROVE  Thinks
    <2>1. PICK s, change : /\ \E b \in Cashiers : s \in OpenOf(b)
                           /\ change \in ChangeOf(action) /\ Read(r, s, action, a, change)
      BY <1>2 DEF ReadFallback
    <2>2. s \in Ids /\ action \in Plus \cup Minus /\ change \in Nat
      BY <2>1, OpenSessions, AmountsAssumption DEF ChangeOf, Plus, Minus
    <2> QED
      BY <1>1, <2>1, <2>2
  <1>3. ASSUME NEW action \in {"CASH_IN", "CASH_OUT"}, ReadAdvance(r, c, action, a)
        PROVE  Thinks
    <2>1. Latest(OpenOf(c)) \in Ids /\ action \in Plus \cup Minus
      BY <1>3, OpenSessions DEF ReadAdvance, Plus, Minus
    <2> QED
      BY <1>1, <1>3, <2>1 DEF ReadAdvance
  <1> QED
    BY <1>2, <1>3

LEMMA CloseDayThinks ==
  ASSUME IInv, NEW r \in Requests
  PROVE  /\ \A d \in Days, force \in BOOLEAN : CloseDayLock(r, d, force) => Thinks
         /\ CloseDaySum(r) => Thinks
  <1>t. /\ sessions \in Seq(Sessions) /\ movements \in Seq(Movements)
        /\ Len(sessions) \in Nat /\ Len(movements) \in Nat /\ Ids = 1..Len(sessions)
        /\ \A s \in Ids : sessions[s] \in Sessions /\ s \in Nat
    BY DEF IInv, TypeOK, Ids
  <1>1. ASSUME NEW d \in Days, NEW force \in BOOLEAN, CloseDayLock(r, d, force) PROVE Thinks
    <2> DEFINE found == {s \in OfDay(d) : sessions[s].status = "OPEN"}
               q == [stage |-> "locked", day |-> d, found |-> found,
                     known |-> Len(sessions), sum |-> 0, upto |-> 0]
    <2>1. found \subseteq Ids /\ found \in SUBSET Nat
      BY <1>t DEF OfDay
    <2>2. ClosedBut(d, Len(sessions), found)
      BY <1>t DEF ClosedBut, OfDay, Sessions
    <2>3. /\ req' = [req EXCEPT ![r] = q]
          /\ UNCHANGED <<sessions, movements, closes, cuts>>
      BY <1>1 DEF CloseDayLock
    <2> HIDE DEF found
    <2>4. q \in RequestTypes /\ Fits(q)
      BY <1>t, <2>1, <2>2 DEF RequestTypes, Closing, Fits
    <2> QED
      BY <2>3, <2>4, ThinksOf
  <1>2. ASSUME CloseDaySum(r) PROVE Thinks
    <2> DEFINE q == [req[r] EXCEPT !.stage = "summed", !.sum = DayTotal(req[r].day),
                                   !.upto = Len(movements)]
    <2>1. /\ req[r].stage = "locked" /\ req' = [req EXCEPT ![r] = q]
          /\ UNCHANGED <<sessions, movements, closes, cuts>>
      BY <1>2 DEF CloseDaySum
    <2>2. req[r] \in Closing
      <3>1. req[r] \in {Idle} \cup Opening \cup Booking \cup Closing
        BY DEF IInv, TypeOK
      <3> QED
        BY ONLY <2>1, <3>1 DEF Idle, Booking, Opening
    <2>3. DayTotal(req[r].day) \in Int
      BY <1>t, Summable DEF DayTotal
    <2>4. Late(req[r].day, Len(movements)) = {}
      BY <1>t DEF Late
    <2>5. Excused(req[r].day, req[r].known, Len(movements), DayTotal(req[r].day))
      <3>1. Total(SignedAt, {}) = 0
        BY TotalEmpty
      <3> QED
        BY <1>t, <2>3, <2>4, <3>1 DEF Excused
    <2>6. q \in Closing /\ q.stage = "summed" /\ q.day = req[r].day /\ q.known = req[r].known
          /\ q.found = req[r].found /\ q.upto = Len(movements) /\ q.sum = DayTotal(req[r].day)
      BY <1>t, <2>2, <2>3 DEF Closing
    <2>7. Fits(req[r])
      BY DEF IInv, RequestsOK
    <2>8. Fits(q) /\ q \in RequestTypes
      <3> HIDE DEF q
      <3> QED
        BY <2>1, <2>5, <2>6, <2>7 DEF Fits, RequestTypes
    <2> QED
      BY <2>1, <2>8, ThinksOf
  <1> QED
    BY <1>1, <1>2

(***************************************************************************)
(* Bookings and cuts.                                                      *)
(***************************************************************************)
LEMMA BookNowWrites ==
  ASSUME IInv, NEW s \in Ids, sessions[s].status = "OPEN",
         NEW action \in Plus \cup Minus, NEW amount \in Nat, NEW change \in Nat,
         BookNow(s, action, amount, change), UNCHANGED <<closes, req>>, CutsGrow
  PROVE  \E m \in Movements : Writes(m)
  <1>1. sessions[s] \in Sessions
    BY DEF IInv, TypeOK, Ids
  <1>2. sessions[s].expected \in Int
    BY <1>1 DEF Sessions
  <1>3. RequestsEnd
    BY Ends
  <1> QED
    BY <1>2, <1>3, BookWrites DEF BookNow

LEMMA BookingsWrite ==
  ASSUME IInv, NEW c \in Cashiers, NEW a \in Amounts
  PROVE  /\ \A action \in {"CASH_IN", "CASH_OUT"} :
              CashInOut(c, action, a) => \E m \in Movements : Writes(m)
         /\ \A action \in {"SALE", "CASH_OUT_REFUND"} :
              BookOwn(c, action, a) => \E m \in Movements : Writes(m)
         /\ \A k \in DOMAIN cuts : PayOutCut(k, a) => \E m \in Movements : Writes(m)
  <1>a. a \in Nat /\ 0 \in Nat
    BY AmountsAssumption
  <1>1. ASSUME NEW action \in {"CASH_IN", "CASH_OUT"}, CashInOut(c, action, a)
        PROVE  \E m \in Movements : Writes(m)
    <2>1. Latest(Usable(c)) \in Ids /\ sessions[Latest(Usable(c))].status = "OPEN"
      BY <1>1, OpenSessions DEF CashInOut
    <2>2. action \in Plus \cup Minus
      BY DEF Plus, Minus
    <2>3. BookNow(Latest(Usable(c)), action, a, 0) /\ UNCHANGED <<closes, req>> /\ CutsGrow
      BY <1>1 DEF CashInOut, CutsGrow
    <2> QED
      BY <1>a, <2>1, <2>2, <2>3, BookNowWrites
  <1>2. ASSUME NEW action \in {"SALE", "CASH_OUT_REFUND"}, BookOwn(c, action, a)
        PROVE  \E m \in Movements : Writes(m)
    <2>1. PICK s, change : s \in OpenOf(c) /\ change \in ChangeOf(action) /\ BookNow(s, action, a, change)
      BY <1>2 DEF BookOwn
    <2>2. s \in Ids /\ sessions[s].status = "OPEN"
      BY <2>1, OpenSessions
    <2>3. action \in Plus \cup Minus /\ change \in Nat
      BY <2>1, AmountsAssumption DEF Plus, Minus, ChangeOf
    <2>4. UNCHANGED <<closes, req>> /\ CutsGrow
      BY <1>2 DEF BookOwn, CutsGrow
    <2> QED
      BY <1>a, <2>1, <2>2, <2>3, <2>4, BookNowWrites
  <1>3. ASSUME NEW k \in DOMAIN cuts, PayOutCut(k, a)
        PROVE  \E m \in Movements : Writes(m)
    <2>1. cuts[k].session \in Ids
      BY DEF IInv, RowsOK
    <2>2. /\ sessions[cuts[k].session].status = "OPEN"
          /\ BookNow(cuts[k].session, "CASH_OUT", a, 0)
          /\ UNCHANGED <<closes, req>> /\ CutsGrow
      BY <1>3 DEF PayOutCut, CutsGrow
    <2> QED
      BY <1>a, <2>1, <2>2, BookNowWrites DEF Minus
  <1> QED
    BY <1>1, <1>2, <1>3

LEMMA BookReadWrites ==
  ASSUME IInv, NEW r \in Requests, BookRead(r)
  PROVE  \E m \in Movements : Writes(m)
  <1>1. req[r].stage = "read" /\ req[r] \in Booking
    BY DEF BookRead, IInv, TypeOK, Idle, Opening, Closing
  <1>2. /\ req[r].session \in Ids /\ req[r].action \in Plus \cup Minus
        /\ req[r].amount \in Nat /\ req[r].change \in Nat /\ req[r].before \in Int
    BY <1>1 DEF IInv, RequestsOK, Fits, Booking
  <1>3. /\ Book(req[r].session, req[r].action, req[r].amount, req[r].change, req[r].before, TRUE)
        /\ closes' = closes /\ CutsGrow /\ req' = [req EXCEPT ![r] = Idle]
    BY DEF BookRead, CutsGrow
  <1>4. RequestsEnd
    BY <1>3, Ends
  <1> QED
    BY <1>2, <1>3, <1>4, BookWrites

\* The window and the figures of a cut are numbers.
LEMMA CutTyped ==
  ASSUME IInv, NEW s \in Ids, NEW last \in BOOLEAN
  PROVE  /\ WindowStart(s, last) \in Nat /\ CutNumber(s) \in Nat
         /\ Quote(s, WindowStart(s, last), Len(movements)) \in Int
  <1>t. /\ movements \in Seq(Movements) /\ cuts \in Seq(Cuts)
        /\ DOMAIN cuts = 1..Len(cuts) /\ Len(cuts) \in Nat /\ DOMAIN movements = 1..Len(movements)
    BY DEF IInv, TypeOK
  <1>1. OpenedAt(s) \in Nat
    <2>1. \E i \in DOMAIN movements : movements[i].session = s /\ movements[i].action = "OPEN"
      BY DEF IInv, RowsOK, MovementsOf
    <2>2. OpenedAt(s) \in DOMAIN movements
      BY <2>1 DEF OpenedAt
    <2> QED
      BY <1>t, <2>2
  <1>2. CutsOf(s) \in SUBSET (1..Len(cuts))
    BY <1>t DEF CutsOf
  <1>3. WindowStart(s, last) \in Nat
    <2>1. CASE last /\ CutsOf(s) # {}
      <3>1. Latest(CutsOf(s)) \in DOMAIN cuts
        BY <1>t, <1>2, <2>1, LatestIn
      <3>2. cuts[Latest(CutsOf(s))] \in Cuts
        BY <1>t, <3>1
      <3>3. cuts[Latest(CutsOf(s))].to \in Nat
        BY <3>2 DEF Cuts
      <3> QED
        BY <2>1, <3>3 DEF WindowStart
    <2>2. CASE ~ (last /\ CutsOf(s) # {})
      BY <1>1, <2>2 DEF WindowStart
    <2> QED
      BY <2>1, <2>2
  <1>4. CutNumber(s) \in Nat
    <2>1. IsFiniteSet(1..Len(cuts))
      BY <1>t, FS_Interval
    <2>2. IsFiniteSet(CutsOf(s))
      BY <1>2, <2>1, FS_Subset
    <2>3. Cardinality(CutsOf(s)) \in Nat
      BY <2>2, FS_CardinalityType
    <2> QED
      BY <2>3 DEF CutNumber
  <1>5. ASSUME NEW from, NEW to PROVE Quote(s, from, to) \in Int
    <2> DEFINE window == {i \in DOMAIN movements : i > from /\ i <= to}
               own    == {i \in window : movements[i].session = s
                                         /\ movements[i].action \in Minus \cup {"CASH_IN"}}
               opening == {i \in DOMAIN movements : movements[i].session = s
                                                    /\ (i <= from \/ movements[i].action = "OPEN")}
               sales  == {i \in window : movements[i].action = "SALE"}
    <2>1. Quote(s, from, to) = Total(SignedAt, opening \cup own) + Total(TakenAt, sales)
      BY DEF Quote
    <2>2. opening \cup own \in SUBSET DOMAIN movements /\ sales \in SUBSET DOMAIN movements
      OBVIOUS
    <2> HIDE DEF own, opening, sales
    <2>3. Total(SignedAt, opening \cup own) \in Int /\ Total(TakenAt, sales) \in Int
      BY <1>t, <2>2, Summable
    <2> QED
      BY <2>1, <2>3
  <1> QED
    BY <1>3, <1>4, <1>5

LEMMA CreateCutWrites ==
  ASSUME IInv, NEW c \in Cashiers, NEW last \in BOOLEAN, NEW deposit \in Amounts \cup {0},
         CreateCut(c, last, deposit)
  PROVE  Counts \/ \E m \in Movements : Writes(m)
  <1>1. PICK s \in Usable(c) :
          /\ cuts' = Append(cuts, [session |-> s, number |-> CutNumber(s),
                                   from |-> WindowStart(s, last), to |-> Len(movements),
                                   expected |-> Quote(s, WindowStart(s, last), Len(movements))])
          /\ IF deposit = 0 THEN UNCHANGED <<sessions, movements>>
                            ELSE BookNow(s, "CASH_OUT", deposit, 0)
    BY DEF CreateCut
  <1>2. s \in Ids /\ sessions[s].status = "OPEN" /\ s \in Nat /\ Len(movements) \in Nat
    BY OpenSessions DEF IInv, TypeOK, Ids
  <1>3. UNCHANGED <<closes, req>>
    BY DEF CreateCut
  <1>4. \E k \in Cuts : k.session \in Ids /\ cuts' = Append(cuts, k)
    <2> DEFINE k == [session |-> s, number |-> CutNumber(s),
                     from |-> WindowStart(s, last), to |-> Len(movements),
                     expected |-> Quote(s, WindowStart(s, last), Len(movements))]
    <2>1. k \in Cuts /\ k.session \in Ids
      BY <1>2, CutTyped DEF Cuts
    <2> QED
      BY <1>1, <2>1
  <1>5. CASE deposit = 0
    BY <1>1, <1>3, <1>4, <1>5 DEF Counts
  <1>6. CASE deposit # 0
    <2>1. deposit \in Nat /\ 0 \in Nat /\ "CASH_OUT" \in Plus \cup Minus
      BY <1>6, AmountsAssumption DEF Minus
    <2>2. BookNow(s, "CASH_OUT", deposit, 0) /\ CutsGrow
      BY <1>1, <1>4, <1>6 DEF CutsGrow
    <2> QED
      BY <1>2, <1>3, <2>1, <2>2, BookNowWrites
  <1> QED
    BY <1>5, <1>6

(***************************************************************************)
(* The theorems.                                                           *)
(***************************************************************************)
LEMMA InitIInv == Init => IInv
  <1> SUFFICES ASSUME Init PROVE IInv
    OBVIOUS
  <1>1. TypeOK
    BY DEF Init, TypeOK, Closes, NoClose
  <1>2. RowsOK /\ BooksBalance /\ SecondSessionOnlyByRace /\ ClosesOK
    BY DEF Init, RowsOK, BooksBalance, SecondSessionOnlyByRace, OpenOf, Ids, ClosesOK, NoClose
  <1>3. RequestsOK
    BY IdleFits DEF Init, RequestsOK
  <1> QED
    BY <1>1, <1>2, <1>3 DEF IInv

LEMMA NextShape ==
  ASSUME IInv, Next
  PROVE  Thinks \/ Counts \/ \E m \in Movements : Writes(m)
  <1>1. ASSUME NEW r \in Requests, Step(r)
        PROVE  Thinks \/ \E m \in Movements : Writes(m)
    <2>1. RefuseRead(r) \/ CloseDayRefused(r) => Thinks
      BY IdleFits, ThinksOf DEF RefuseRead, CloseDayRefused
    <2> QED
      BY <1>1, <2>1, OpenThinks, OpenInsertWrites, BookReadWrites, CloseDayThinks,
         CloseDayInsertWrites DEF Step
  <1>2. ASSUME NEW r \in Requests, Crash(r) PROVE Thinks
    BY <1>2, IdleFits, ThinksOf DEF Crash
  <1>3. ASSUME NEW r \in Requests, NEW d \in Days,
               \/ \E c \in Cashiers, a \in Amounts : OpenCheck(r, c, d, a)
               \/ \E force \in BOOLEAN : CloseDayLock(r, d, force)
        PROVE  Thinks
    BY <1>3, OpenThinks, CloseDayThinks
  <1>4. ASSUME NEW r \in Requests, NEW c \in Cashiers, NEW a \in Amounts,
               \/ \E action \in {"SALE", "CASH_OUT_REFUND"} : ReadFallback(r, c, action, a)
               \/ \E action \in {"CASH_IN", "CASH_OUT"} : ReadAdvance(r, c, action, a)
        PROVE  Thinks
    BY <1>4, ReadThinks
  <1>5. ASSUME NEW c \in Cashiers, NEW a \in Amounts,
               \/ \E action \in {"CASH_IN", "CASH_OUT"} : CashInOut(c, action, a)
               \/ \E action \in {"SALE", "CASH_OUT_REFUND"} : BookOwn(c, action, a)
        PROVE  \E m \in Movements : Writes(m)
    BY <1>5, BookingsWrite
  <1>6. ASSUME NEW k \in DOMAIN cuts, NEW a \in Amounts, PayOutCut(k, a)
        PROVE  \E m \in Movements : Writes(m)
    <2>1. Cashiers # {}
      <3>1. sessions[cuts[k].session] \in Sessions
        BY DEF IInv, TypeOK, RowsOK, Ids
      <3> QED
        BY <3>1 DEF Sessions
    <2> QED
      BY <1>6, <2>1, BookingsWrite
  <1> QED
    BY <1>1, <1>2, <1>3, <1>4, <1>5, <1>6, CloseWrites, CreateCutWrites DEF Next

LEMMA NextIInv == IInv /\ [Next]_vars => IInv'
  <1>1. ASSUME IInv, Next PROVE IInv'
    BY <1>1, NextShape, ThinksKeeps, CountsKeeps, WritesKeeps
  <1>2. ASSUME IInv, UNCHANGED vars PROVE IInv'
    <2>1. /\ UNCHANGED <<sessions, movements, closes>> /\ cuts' = cuts /\ req' = req
      BY <1>2 DEF vars
    <2>2. TypeOK' /\ RowsOK'
      BY <1>2, <2>1 DEF IInv, TypeOK, RowsOK, MovementsOf, Ids
    <2>3. RequestsOK'
      BY <1>2, <2>1, SameRows DEF IInv, RequestsOK
    <2> QED
      BY <1>2, <2>1, <2>2, <2>3, SameRows DEF IInv
  <1> QED
    BY <1>1, <1>2

LEMMA SpecIInv == Spec => []IInv
  BY InitIInv, NextIInv, PTL DEF Spec

\* Every row of the cash tables keeps its type (models/pos_cash.py); a cut
\* always finds the movement that opened its session.
THEOREM SpecTypeOK == Spec => []TypeOK
  <1>1. IInv => TypeOK
    BY DEF IInv
  <1> QED
    BY <1>1, SpecIInv, PTL

\* A session whose bookings all held its row expects what its movements add up
\* to, never less than nothing, and its movements carry the balance from one
\* to the next (_record_cash_movement and cash_session_action).
THEOREM SpecBooksBalance == Spec => []BooksBalance
  <1>1. IInv => BooksBalance
    BY DEF IInv
  <1> QED
    BY <1>1, SpecIInv, PTL

\* What close_day counted is wrong only by bookings that had read their session
\* without a lock, or whose session was opened behind its back.
THEOREM SpecLateBookingsAreExcused == Spec => []LateBookingsAreExcused
  <1>1. IInv => LateBookingsAreExcused
    <2> SUFFICES ASSUME IInv, NEW d \in Days, closes[d].made
                 PROVE  /\ \A i \in Late(d, closes[d].upto) :
                             movements[i].stale \/ movements[i].session > closes[d].known
                        /\ DayTotal(d) = closes[d].expected + Total(SignedAt, Late(d, closes[d].upto))
      BY DEF LateBookingsAreExcused, Late
    <2> QED
      BY DEF IInv, ClosesOK, Settles, Excused
  <1> QED
    BY <1>1, SpecIInv, PTL

\* OPEN gives a cashier a second open session only when two requests had both
\* looked before either inserted, or the day of the first is closed.
THEOREM SpecSecondSessionOnlyByRace == Spec => []SecondSessionOnlyByRace
  <1>1. IInv => SecondSessionOnlyByRace
    BY DEF IInv
  <1> QED
    BY <1>1, SpecIInv, PTL

\* The figure of a cut against the journal: of the session's movements, those
\* of the opening balance, cash in, cash out and refunds are counted as they
\* are, its sales in the window with their change, and closing moves nothing.
LEMMA QuoteCounts ==
  ASSUME IInv, NEW s, NEW from \in Nat
  PROVE  LET to == Len(movements)
             sales == {i \in DOMAIN movements : i > from /\ i <= to /\ movements[i].action = "SALE"}
             others == {i \in sales : movements[i].session # s}
             change == [i \in sales |-> movements[i].change]
         IN Quote(s, from, to) = BalanceUpTo(s, to) + Total(TakenAt, others)
                                 + Total(change, sales \ others)
  <1> DEFINE to == Len(movements)
             window == {i \in DOMAIN movements : i > from /\ i <= to}
             own == {i \in window : movements[i].session = s
                                    /\ movements[i].action \in Minus \cup {"CASH_IN"}}
             opening == {i \in DOMAIN movements : movements[i].session = s
                                                  /\ (i <= from \/ movements[i].action = "OPEN")}
             taken == {i \in window : movements[i].action = "SALE"}
             counted == opening \cup own
             sales == {i \in DOMAIN movements : i > from /\ i <= to /\ movements[i].action = "SALE"}
             others == {i \in sales : movements[i].session # s}
             mine == sales \ others
             change == [i \in sales |-> movements[i].change]
             closing == {i \in window : movements[i].session = s
                                        /\ movements[i].action \in {"CLOSE", "DAY_CLOSE"}} \ opening
  <1>t. /\ movements \in Seq(Movements) /\ to \in Nat /\ DOMAIN movements = 1..to
        /\ \A i \in DOMAIN movements : movements[i] \in Movements /\ i \in Nat /\ i <= to
    BY DEF IInv, TypeOK
  <1>1. taken = sales
    OBVIOUS
  <1>2. Quote(s, from, to) = Total(SignedAt, counted) + Total(TakenAt, sales)
    BY <1>1 DEF Quote
  <1>3. BalanceUpTo(s, to) = Total(SignedAt, MovementsOf(s))
    BY <1>t, BalanceOfAll DEF Balance
  <1>4. /\ MovementsOf(s) = (counted \cup mine) \cup closing
        /\ counted \cap mine = {} /\ (counted \cup mine) \cap closing = {}
        /\ sales = others \cup mine /\ others \cap mine = {}
    <2>1. \A i \in DOMAIN movements :
            movements[i].action \in {"OPEN", "CASH_IN", "SALE"} \cup {"CASH_OUT", "CASH_OUT_REFUND"}
                                    \cup {"CLOSE", "DAY_CLOSE"}
      BY <1>t DEF Movements, Plus, Minus
    <2>2. \A i : i \in MovementsOf(s) <=> i \in (counted \cup mine) \cup closing
      BY <1>t, <2>1 DEF MovementsOf, Minus
    <2>3. MovementsOf(s) = (counted \cup mine) \cup closing
      BY <2>2
    <2>4. counted \cap mine = {} /\ (counted \cup mine) \cap closing = {}
      BY <1>t DEF Minus
    <2>5. sales = others \cup mine /\ others \cap mine = {}
      OBVIOUS
    <2> QED
      BY <2>3, <2>4, <2>5
  <1>5. /\ counted \in SUBSET DOMAIN movements /\ mine \in SUBSET DOMAIN movements
        /\ closing \in SUBSET DOMAIN movements /\ others \in SUBSET DOMAIN movements
        /\ sales \in SUBSET DOMAIN movements
    OBVIOUS
  <1>6. \A i \in mine : SignedAt[i] = movements[i].amount /\ change[i] = movements[i].change
                        /\ TakenAt[i] = SignedAt[i] + change[i]
    BY DEF SignedAt, Signed, Plus, TakenAt
  <1>7. \A i \in closing : SignedAt[i] = 0
    BY DEF SignedAt, Signed, Plus, Minus
  <1>8. Ints(change, mine)
    BY <1>t, <1>5, <1>6, AmountsAreNumbers DEF Ints
  <1> HIDE DEF window, own, opening, taken, counted, sales, others, mine, change, closing
  <1>9. Total(TakenAt, sales) = Total(TakenAt, others) + Total(TakenAt, mine)
    BY <1>t, <1>4, <1>5, Summable, TotalUnion
  <1>10. Total(TakenAt, mine) = Total(SignedAt, mine) + Total(change, mine)
    BY <1>t, <1>5, <1>6, <1>8, Summable, TotalPlus
  <1>11. Total(SignedAt, closing) = 0
    BY <1>t, <1>5, <1>7, Summable, TotalZero
  <1>12. Total(SignedAt, counted \cup mine) = Total(SignedAt, counted) + Total(SignedAt, mine)
    BY <1>t, <1>4, <1>5, Summable, TotalUnion
  <1>13. Total(SignedAt, MovementsOf(s)) = Total(SignedAt, counted \cup mine) + Total(SignedAt, closing)
    BY <1>t, <1>4, <1>5, Summable, TotalUnion
  <1>14. /\ Total(SignedAt, counted) \in Int /\ Total(SignedAt, mine) \in Int
         /\ Total(TakenAt, others) \in Int /\ Total(change, mine) \in Int
    BY <1>t, <1>5, <1>8, Summable, TotalType
  <1>15. Quote(s, from, to) = BalanceUpTo(s, to) + Total(TakenAt, others) + Total(change, mine)
    BY ONLY <1>2, <1>3, <1>9, <1>10, <1>11, <1>12, <1>13, <1>14
  <1> QED
    BY <1>15 DEF sales, others, mine, change

\* However many close_day requests run, the figures of a closed day stand.
THEOREM SpecCloseIsFinal == Spec => CloseIsFinal
  <1> DEFINE Final == \A d \in Days : closes[d].made => closes'[d] = closes[d]
  <1>1. IInv /\ [Next]_vars => Final
    <2> SUFFICES ASSUME IInv, [Next]_vars PROVE Final
      OBVIOUS
    <2>1. closes \in [Days -> Closes]
      BY DEF IInv, TypeOK
    <2>2. CASE UNCHANGED vars
      BY <2>2 DEF vars
    <2>3. CASE Thinks \/ Counts
      BY <2>3 DEF Thinks, Counts
    <2>4. ASSUME NEW m \in Movements, Writes(m) PROVE Final
      BY <2>1, <2>4 DEF Writes, DaysClose
    <2> QED
      BY <2>2, <2>3, <2>4, NextShape
  <1> QED
    BY <1>1, SpecIInv, PTL DEF Spec, CloseIsFinal

\* No other action makes a cut.
LEMMA OnlyCreateCut ==
  ASSUME [Next]_vars, cuts' # cuts
  PROVE  \E c \in Cashiers, last \in BOOLEAN, deposit \in Amounts \cup {0} :
           CreateCut(c, last, deposit)
  <1>1. ~ UNCHANGED vars
    BY DEF vars
  <1>2. \A r \in Requests : ~Step(r) /\ ~Crash(r)
    BY DEF Step, Crash, OpenLook, OpenInsert, BookRead, RefuseRead, CloseDaySum, CloseDayInsert,
           CloseDayRefused
  <1>3. \A r \in Requests, d \in Days :
          /\ \A c \in Cashiers, a \in Amounts : ~OpenCheck(r, c, d, a)
          /\ \A force \in BOOLEAN : ~CloseDayLock(r, d, force)
    BY DEF OpenCheck, CloseDayLock
  <1>4. \A r \in Requests, c \in Cashiers, a \in Amounts :
          /\ \A action : ~ReadFallback(r, c, action, a)
          /\ \A action : ~ReadAdvance(r, c, action, a)
    BY DEF ReadFallback, ReadAdvance, Read
  <1>5. \A c \in Cashiers : /\ ~Close(c)
                            /\ \A action, a : ~CashInOut(c, action, a) /\ ~BookOwn(c, action, a)
    BY DEF Close, CashInOut, BookOwn
  <1>6. \A k, a : ~PayOutCut(k, a)
    BY DEF PayOutCut
  <1> QED
    BY <1>1, <1>2, <1>3, <1>4, <1>5, <1>6 DEF Next

\* A new cut expects what the journal of its session says, and what sales of
\* other sessions and the change of its own add to it (_calculate_cut_quote
\* sums the payments of the whole store).
THEOREM SpecCutCountsDrawer == Spec => CutCountsDrawer
  <1> DEFINE Right(k) ==
        LET sales == {i \in DOMAIN movements : i > k.from /\ i <= k.to
                                             /\ movements[i].action = "SALE"}
            others == {i \in sales : movements[i].session # k.session}
            change == [i \in sales |-> movements[i].change]
        IN k.expected = BalanceUpTo(k.session, k.to)
                        + Total(TakenAt, others) + Total(change, sales \ others)
  <1>1. ASSUME IInv, [Next]_vars, Len(cuts') > Len(cuts) PROVE Right(cuts'[Len(cuts')])
    <2>1. PICK c \in Cashiers, last \in BOOLEAN, deposit \in Amounts \cup {0} :
            CreateCut(c, last, deposit)
      <3>1. cuts' # cuts
        BY <1>1 DEF IInv, TypeOK
      <3> QED
        BY <1>1, <3>1, OnlyCreateCut
    <2>2. PICK s \in Usable(c) :
            cuts' = Append(cuts, [session |-> s, number |-> CutNumber(s),
                                  from |-> WindowStart(s, last), to |-> Len(movements),
                                  expected |-> Quote(s, WindowStart(s, last), Len(movements))])
      BY <2>1 DEF CreateCut
    <2> DEFINE k == [session |-> s, number |-> CutNumber(s),
                     from |-> WindowStart(s, last), to |-> Len(movements),
                     expected |-> Quote(s, WindowStart(s, last), Len(movements))]
    <2>3. s \in Ids /\ WindowStart(s, last) \in Nat
      BY <1>1, OpenSessions, CutTyped
    <2>4. Right(k)
      BY <1>1, <2>3, QuoteCounts
    <2>5. cuts'[Len(cuts')] = k
      BY <1>1, <2>2 DEF IInv, TypeOK
    <2> HIDE DEF k, Right
    <2> QED
      BY <2>4, <2>5
  <1>2. IInv /\ [Next]_vars => (Len(cuts') > Len(cuts) => Right(cuts'[Len(cuts')]))
    BY <1>1
  <1> QED
    BY <1>2, SpecIInv, PTL DEF Spec, CutCountsDrawer
=============================================================================
