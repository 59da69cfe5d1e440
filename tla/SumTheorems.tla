---------------------------- MODULE SumTheorems ----------------------------
(***************************************************************************)
(* Finite sums: what SumFunctionOnSet, which folds + over the indices of a *)
(* function in an order the fold chooses, returns.  The sums of the other  *)
(* modules (the quants of a product, the allocations of a payment) are     *)
(* instances of it, and their proofs cite these lemmas.                    *)
(*                                                                         *)
(* Induction is stated over a set of sets instead of a predicate, and      *)
(* rests on the least-element property of the natural numbers.             *)
(***************************************************************************)
EXTENDS Integers, FiniteSets, Functions, FiniteSetTheorems, WellFoundedInduction, TLAPS

\* A nonempty set of natural numbers has a least element.
LEMMA LeastElement ==
    ASSUME NEW S \in SUBSET Nat, S # {}
    PROVE  \E x \in S : \A y \in S : x <= y
  <1>1. IsWellFoundedOn(OpToRel(<, Nat), Nat)
    BY NatLessThanWellFounded, Zenon
  <1>2. PICK x \in S : \A y \in S : <<y, x>> \notin OpToRel(<, Nat)
    BY <1>1, WFMin, Zenon
  <1>3. \A y \in S : ~(y < x)
    BY <1>2, Zenon DEF OpToRel
  <1> QED
    BY <1>3

\* A family of subsets of a finite set that holds the empty set, and with a
\* set every set of one element more, holds them all.
LEMMA SubsetInduction ==
    ASSUME NEW S, IsFiniteSet(S), NEW P,
           {} \in P,
           \A T \in SUBSET S : \A x \in T : T \ {x} \in P => T \in P
    PROVE  \A T \in SUBSET S : T \in P
  <1> DEFINE Bad == {n \in Nat : \E T \in SUBSET S : Cardinality(T) = n /\ T \notin P}
  <1>1. \A T \in SUBSET S : IsFiniteSet(T) /\ Cardinality(T) \in Nat
    BY FS_Subset, FS_CardinalityType
  <1>2. ASSUME Bad # {}
        PROVE  FALSE
    <2>1. PICK n \in Bad : \A m \in Bad : n <= m
      BY <1>2, LeastElement
    <2>2. PICK T \in SUBSET S : Cardinality(T) = n /\ T \notin P
      BY <2>1
    <2>3. PICK x \in T : TRUE
      BY <2>2
    <2>4. Cardinality(T \ {x}) = n - 1 /\ T \ {x} \in SUBSET S
      BY <1>1, <2>2, <2>3, FS_RemoveElement
    <2>5. T \ {x} \notin P
      BY <2>2, <2>3
    <2>6. Cardinality(T \ {x}) \in Bad
      BY <1>1, <2>4, <2>5
    <2>7. n \in Nat /\ n <= n - 1
      BY <2>1, <2>4, <2>6
    <2> QED
      BY <2>7
  <1> QED
    BY <1>1, <1>2

-----------------------------------------------------------------------------
\* The order in which a fold takes the elements of a set.
Pick(s) == CHOOSE x \in s : TRUE

\* The function a fold computes with: the sum of f over each subset of S.
SumsOf(f, S, it) ==
    it = [s \in SUBSET S |-> IF s = {} THEN 0 ELSE f[Pick(s)] + it[s \ {Pick(s)}]]

\* The definition of the sum, unfolded.
LEMMA SumUnfolded ==
    ASSUME NEW f, NEW S
    PROVE  SumFunctionOnSet(f, S) = (CHOOSE it : SumsOf(f, S, it))[S]
  BY Zenon DEF SumFunctionOnSet, FoldFunctionOnSet, MapThenFoldSet, SumsOf, Pick

\* Pick takes an element.
LEMMA PickIsIn ==
    ASSUME NEW s, s # {}
    PROVE  Pick(s) \in s
  BY DEF Pick

\* A function of all these sums exists.
LEMMA SumsExist ==
    ASSUME NEW S, IsFiniteSet(S), NEW f
    PROVE  \E it : SumsOf(f, S, it)
  <1> DEFINE Step(it, s) == IF s = {} THEN 0 ELSE f[Pick(s)] + it[s \ {Pick(s)}]
             UpTo(n, it) == \A s \in SUBSET S : Cardinality(s) <= n => it[s] = Step(it, s)
             Bad == {n \in Nat : ~ \E it : UpTo(n, it)}
  <1>1. \A T \in SUBSET S : IsFiniteSet(T) /\ Cardinality(T) \in Nat
    BY FS_Subset, FS_CardinalityType
  <1>2. ASSUME Bad # {}
        PROVE  FALSE
    <2>1. PICK n \in Bad : \A m \in Bad : n <= m
      BY <1>2, LeastElement
    <2>2. n \in Nat /\ \A it : ~UpTo(n, it)
      BY <2>1
    <2>3. CASE n = 0
      <3> DEFINE it == [s \in SUBSET S |-> 0]
      <3>1. \A s \in SUBSET S : Cardinality(s) <= 0 => s = {}
        BY <1>1, FS_EmptySet
      <3>2. UpTo(n, it)
        BY <2>3, <3>1
      <3> QED
        BY <2>2, <3>2
    <2>4. CASE n # 0
      <3>1. n - 1 \in Nat /\ n - 1 \notin Bad
        <4> HIDE DEF Bad
        <4> QED
          BY <2>1, <2>2, <2>4
      <3>2. PICK it : UpTo(n - 1, it)
        BY <3>1
      <3> DEFINE jt == [s \in SUBSET S |-> Step(it, s)]
      <3>3. ASSUME NEW s \in SUBSET S, Cardinality(s) <= n
            PROVE  jt[s] = Step(jt, s)
        <4>1. CASE s = {}
          BY <4>1
        <4>2. CASE s # {}
          <5> DEFINE r == s \ {Pick(s)}
          <5>1. r \in SUBSET S /\ Cardinality(r) = Cardinality(s) - 1
            BY <1>1, <4>2, PickIsIn, FS_RemoveElement
          <5>2. Cardinality(r) <= n - 1
            BY <1>1, <2>2, <3>3, <5>1
          <5>3. it[r] = Step(it, r)
            BY <3>2, <5>1, <5>2
          <5>4. jt[r] = it[r]
            BY <5>1, <5>3
          <5> QED
            BY <4>2, <5>4
        <4> QED
          BY <4>1, <4>2
      <3>4. UpTo(n, jt)
        BY <3>3
      <3> QED
        BY <2>2, <3>4
    <2> QED
      BY <2>3, <2>4
  <1>3. Cardinality(S) \in Nat /\ \A s \in SUBSET S : Cardinality(s) <= Cardinality(S)
    BY FS_Subset, FS_CardinalityType
  <1>4. PICK it : UpTo(Cardinality(S), it)
    BY <1>2, <1>3
  <1>5. \A s \in SUBSET S : it[s] = Step(it, s)
    BY <1>3, <1>4
  <1> DEFINE jt == [s \in SUBSET S |-> Step(it, s)]
  <1>6. ASSUME NEW s \in SUBSET S
        PROVE  jt[s] = Step(jt, s)
    <2>1. s # {} => s \ {Pick(s)} \in SUBSET S
      OBVIOUS
    <2> QED
      BY <1>5, <2>1
  <1>7. jt = [s \in SUBSET S |-> Step(jt, s)]
    <2> HIDE DEF Step
    <2>1. jt = [s \in SUBSET S |-> jt[s]]
      OBVIOUS
    <2> HIDE DEF jt
    <2> QED
      BY <1>6, <2>1
  <1>8. SumsOf(f, S, jt)
    <2> HIDE DEF jt
    <2> QED
      BY <1>7 DEF SumsOf
  <1> QED
    BY <1>8

\* The sum over a set is one of them.
LEMMA SumsPicked ==
    ASSUME NEW S, IsFiniteSet(S), NEW f
    PROVE  \E it : SumsOf(f, S, it) /\ SumFunctionOnSet(f, S) = it[S]
  BY SumsExist, SumUnfolded, Zenon

\* On smaller sets they agree.
LEMMA SumsAgree ==
    ASSUME NEW S, IsFiniteSet(S), NEW f, NEW it, SumsOf(f, S, it),
           NEW U \in SUBSET S, NEW jt, SumsOf(f, U, jt)
    PROVE  it[U] = jt[U]
  <1> DEFINE P == {s \in SUBSET U : it[s] = jt[s]}
             Bad == {n \in Nat : \E s \in SUBSET U : Cardinality(s) = n /\ s \notin P}
  <1>1. \A s \in SUBSET U : IsFiniteSet(s) /\ Cardinality(s) \in Nat
    BY FS_Subset, FS_CardinalityType
  <1>2. ASSUME NEW s \in SUBSET U
        PROVE  /\ it[s] = IF s = {} THEN 0 ELSE f[Pick(s)] + it[s \ {Pick(s)}]
               /\ jt[s] = IF s = {} THEN 0 ELSE f[Pick(s)] + jt[s \ {Pick(s)}]
    BY DEF SumsOf
  <1>3. ASSUME Bad # {}
        PROVE  FALSE
    <2>1. PICK n \in Bad : \A m \in Bad : n <= m
      BY <1>3, LeastElement
    <2>2. PICK s \in SUBSET U : Cardinality(s) = n /\ s \notin P
      BY <2>1
    <2>3. s # {}
      BY <1>2, <2>2
    <2> DEFINE r == s \ {Pick(s)}
    <2>4. r \in SUBSET U /\ Cardinality(r) = n - 1
      BY <1>1, <2>2, <2>3, PickIsIn, FS_RemoveElement
    <2>5. it[r] # jt[r]
      BY <1>2, <2>2, <2>3
    <2>6. Cardinality(r) \in Bad
      BY <1>1, <2>4, <2>5
    <2>7. n \in Nat /\ n <= n - 1
      BY <2>1, <2>4, <2>6
    <2> QED
      BY <2>7
  <1> QED
    BY <1>1, <1>3

-----------------------------------------------------------------------------
\* The sum of nothing.
LEMMA SumEmpty ==
    ASSUME NEW f
    PROVE  SumFunctionOnSet(f, {}) = 0
  <1>1. IsFiniteSet({})
    BY FS_EmptySet
  <1>2. PICK it : SumsOf(f, {}, it) /\ SumFunctionOnSet(f, {}) = it[{}]
    BY <1>1, SumsPicked
  <1> QED
    BY <1>2 DEF SumsOf

\* The sum over a set is that of the element the fold takes, and of the rest.
LEMMA SumFolds ==
    ASSUME NEW S, IsFiniteSet(S), S # {}, NEW f
    PROVE  SumFunctionOnSet(f, S) = f[Pick(S)] + SumFunctionOnSet(f, S \ {Pick(S)})
  <1> DEFINE R == S \ {Pick(S)}
  <1>1. R \in SUBSET S /\ IsFiniteSet(R)
    BY FS_Subset
  <1>2. PICK it : SumsOf(f, S, it) /\ SumFunctionOnSet(f, S) = it[S]
    BY SumsPicked
  <1>3. PICK jt : SumsOf(f, R, jt) /\ SumFunctionOnSet(f, R) = jt[R]
    BY <1>1, SumsPicked
  <1>4. it[R] = jt[R]
    BY <1>1, <1>2, <1>3, SumsAgree
  <1>5. it[S] = f[Pick(S)] + it[R]
    BY <1>2 DEF SumsOf
  <1> QED
    BY <1>2, <1>3, <1>4, <1>5

\* A sum of integers is an integer.
LEMMA SumType ==
    ASSUME NEW S, IsFiniteSet(S), NEW f, \A x \in S : f[x] \in Int
    PROVE  SumFunctionOnSet(f, S) \in Int
  <1> DEFINE Q == {T \in SUBSET S : SumFunctionOnSet(f, T) \in Int}
             Bad == {n \in Nat : \E T \in SUBSET S : Cardinality(T) = n /\ T \notin Q}
  <1>1. \A T \in SUBSET S : IsFiniteSet(T) /\ Cardinality(T) \in Nat
    BY FS_Subset, FS_CardinalityType
  <1>2. ASSUME Bad # {}
        PROVE  FALSE
    <2>1. PICK n \in Bad : \A m \in Bad : n <= m
      BY <1>2, LeastElement
    <2>2. PICK T \in SUBSET S : Cardinality(T) = n /\ T \notin Q
      BY <2>1
    <2>3. T # {}
      BY <2>2, SumEmpty
    <2> DEFINE R == T \ {Pick(T)}
    <2>4. R \in SUBSET S /\ Cardinality(R) = n - 1 /\ Pick(T) \in S
      BY <1>1, <2>2, <2>3, PickIsIn, FS_RemoveElement
    <2>5. R \notin Q
      <3>1. SumFunctionOnSet(f, T) = f[Pick(T)] + SumFunctionOnSet(f, R)
        BY <1>1, <2>3, SumFolds
      <3>2. SumFunctionOnSet(f, T) \notin Int /\ f[Pick(T)] \in Int
        BY <2>2, <2>4
      <3> HIDE DEF R
      <3> QED
        BY <3>1, <3>2
    <2>6. Cardinality(R) \in Bad
      BY <1>1, <2>4, <2>5
    <2>7. n \in Nat /\ n <= n - 1
      BY <2>1, <2>4, <2>6
    <2> QED
      BY <2>7
  <1> QED
    BY <1>1, <1>2

\* Any element may be taken out of a sum first.
LEMMA SumRemove ==
    ASSUME NEW S, IsFiniteSet(S), NEW f, \A x \in S : f[x] \in Int, NEW x \in S
    PROVE  SumFunctionOnSet(f, S) = f[x] + SumFunctionOnSet(f, S \ {x})
  <1> DEFINE Q == {T \in SUBSET S : \A y \in T :
                     SumFunctionOnSet(f, T) = f[y] + SumFunctionOnSet(f, T \ {y})}
             Bad == {n \in Nat : \E T \in SUBSET S : Cardinality(T) = n /\ T \notin Q}
  <1>1. \A T \in SUBSET S : IsFiniteSet(T) /\ Cardinality(T) \in Nat
    BY FS_Subset, FS_CardinalityType
  <1>2. ASSUME Bad # {}
        PROVE  FALSE
    <2>1. PICK n \in Bad : \A m \in Bad : n <= m
      BY <1>2, LeastElement
    <2>2. PICK T \in SUBSET S : Cardinality(T) = n /\ T \notin Q
      BY <2>1
    <2>3. PICK y \in T : SumFunctionOnSet(f, T) # f[y] + SumFunctionOnSet(f, T \ {y})
      BY <2>2
    <2> DEFINE p == Pick(T)
               R == T \ {p}
    <2>4. p \in T /\ p \in S
      BY <2>3, PickIsIn
    <2> HIDE DEF p
    <2>5. R \in SUBSET S /\ Cardinality(R) = n - 1
      BY <1>1, <2>2, <2>4, FS_RemoveElement
    <2>6. SumFunctionOnSet(f, T) = f[p] + SumFunctionOnSet(f, R)
      BY <1>1, <2>4, SumFolds DEF p
    <2>7. y # p
      BY <2>3, <2>6
    <2>8. R \in Q
      <3>1. n \in Nat /\ Cardinality(R) \notin Bad
        <4> HIDE DEF Bad
        <4>1. n \in Nat
          BY <2>1 DEF Bad
        <4> QED
          BY <2>1, <2>5, <4>1
      <3> QED
        BY <1>1, <2>5, <3>1
    <2>9. SumFunctionOnSet(f, R) = f[y] + SumFunctionOnSet(f, R \ {y})
      BY <2>3, <2>7, <2>8
    <2> DEFINE V == T \ {y}
    <2>10. V \in SUBSET S /\ Cardinality(V) = n - 1
      BY <1>1, <2>2, <2>3, FS_RemoveElement
    <2>11. V \in Q
      <3>1. n \in Nat /\ Cardinality(V) \notin Bad
        <4> HIDE DEF Bad
        <4>1. n \in Nat
          BY <2>1 DEF Bad
        <4> QED
          BY <2>1, <2>10, <4>1
      <3> QED
        BY <1>1, <2>10, <3>1
    <2>12. SumFunctionOnSet(f, V) = f[p] + SumFunctionOnSet(f, V \ {p})
      BY <2>4, <2>7, <2>11
    <2>13. V \ {p} = R \ {y}
      OBVIOUS
    <2>14. /\ f[p] \in Int /\ f[y] \in Int /\ SumFunctionOnSet(f, R \ {y}) \in Int
      BY <1>1, <2>3, <2>4, <2>5, SumType
    <2>15. SumFunctionOnSet(f, V) = f[p] + SumFunctionOnSet(f, R \ {y})
      BY <2>12, <2>13
    <2>16. SumFunctionOnSet(f, T) # f[y] + SumFunctionOnSet(f, V)
      BY <2>3
    <2> HIDE DEF R, V
    <2> QED
      BY <2>6, <2>9, <2>14, <2>15, <2>16
  <1>3. S \in Q
    BY <1>1, <1>2
  <1> QED
    BY <1>3

\* An element that is added adds its value.
LEMMA SumInsert ==
    ASSUME NEW S, IsFiniteSet(S), NEW f, NEW x, x \notin S, \A y \in S \cup {x} : f[y] \in Int
    PROVE  SumFunctionOnSet(f, S \cup {x}) = f[x] + SumFunctionOnSet(f, S)
  <1>1. IsFiniteSet(S \cup {x})
    BY FS_AddElement
  <1>2. (S \cup {x}) \ {x} = S
    OBVIOUS
  <1> QED
    BY <1>1, <1>2, SumRemove

-----------------------------------------------------------------------------
\* Sums of functions that are in an additive relation, element by element, are
\* in it too: h = f + g.
LEMMA SumPlus ==
    ASSUME NEW S, IsFiniteSet(S), NEW f, NEW g, NEW h,
           \A x \in S : f[x] \in Int /\ g[x] \in Int /\ h[x] = f[x] + g[x]
    PROVE  SumFunctionOnSet(h, S) = SumFunctionOnSet(f, S) + SumFunctionOnSet(g, S)
  <1> DEFINE F(T) == SumFunctionOnSet(f, T)
             G(T) == SumFunctionOnSet(g, T)
             H(T) == SumFunctionOnSet(h, T)
             P == {T \in SUBSET S : H(T) = F(T) + G(T)}
  <1>1. {} \in P
    BY SumEmpty
  <1>2. ASSUME NEW T \in SUBSET S, NEW x \in T, T \ {x} \in P
        PROVE  T \in P
    <2>1. IsFiniteSet(T) /\ \A y \in T : f[y] \in Int /\ g[y] \in Int /\ h[y] \in Int
      BY FS_Subset
    <2>2. /\ F(T) = f[x] + F(T \ {x}) /\ G(T) = g[x] + G(T \ {x}) /\ H(T) = h[x] + H(T \ {x})
      BY <2>1, SumRemove
    <2>3. IsFiniteSet(T \ {x}) /\ \A y \in T \ {x} : f[y] \in Int /\ g[y] \in Int /\ h[y] \in Int
      BY <2>1, FS_RemoveElement
    <2>4. F(T \ {x}) \in Int /\ G(T \ {x}) \in Int
      BY <2>3, SumType
    <2>5. H(T \ {x}) = F(T \ {x}) + G(T \ {x}) /\ h[x] = f[x] + g[x] /\ f[x] \in Int /\ g[x] \in Int
      BY <1>2
    <2> HIDE DEF F, G, H
    <2>6. H(T) = F(T) + G(T)
      BY <2>2, <2>4, <2>5
    <2> QED
      BY <2>6
  <1> HIDE DEF P
  <1>3. \A T \in SUBSET S : T \in P
    BY <1>1, <1>2, SubsetInduction
  <1> QED
    BY <1>3 DEF P

\* A sum of zeros is zero.
LEMMA SumZero ==
    ASSUME NEW S, IsFiniteSet(S), NEW f, \A x \in S : f[x] = 0
    PROVE  SumFunctionOnSet(f, S) = 0
  <1>1. SumFunctionOnSet(f, S) \in Int
    BY SumType
  <1>2. SumFunctionOnSet(f, S) = SumFunctionOnSet(f, S) + SumFunctionOnSet(f, S)
    BY SumPlus
  <1>3. ASSUME NEW n \in Int, n = n + n
        PROVE  n = 0
    BY <1>3
  <1> QED
    BY ONLY <1>1, <1>2, <1>3

\* Sums over functions that agree on a set are equal.
LEMMA SumSame ==
    ASSUME NEW S, IsFiniteSet(S), NEW f, NEW g, \A x \in S : f[x] \in Int /\ f[x] = g[x]
    PROVE  SumFunctionOnSet(f, S) = SumFunctionOnSet(g, S)
  <1> DEFINE z == [x \in S |-> 0]
  <1>1. SumFunctionOnSet(z, S) = 0
    BY SumZero
  <1>2. \A x \in S : z[x] \in Int /\ g[x] = f[x] + z[x]
    OBVIOUS
  <1>3. SumFunctionOnSet(f, S) \in Int
    BY SumType
  <1> HIDE DEF z
  <1>4. SumFunctionOnSet(g, S) = SumFunctionOnSet(f, S) + SumFunctionOnSet(z, S)
    BY <1>2, SumPlus
  <1> QED
    BY <1>1, <1>3, <1>4

\* No value is above the sum of nonnegative ones, which is nonnegative.
LEMMA SumNonNegative ==
    ASSUME NEW S, IsFiniteSet(S), NEW f, \A x \in S : f[x] \in Nat
    PROVE  SumFunctionOnSet(f, S) \in Nat
  <1> DEFINE P == {T \in SUBSET S : SumFunctionOnSet(f, T) \in Nat}
  <1>1. {} \in P
    BY SumEmpty
  <1>2. ASSUME NEW T \in SUBSET S, NEW x \in T, T \ {x} \in P
        PROVE  T \in P
    <2>1. IsFiniteSet(T) /\ \A y \in T : f[y] \in Int
      BY FS_Subset
    <2>2. SumFunctionOnSet(f, T) = f[x] + SumFunctionOnSet(f, T \ {x})
      BY <2>1, SumRemove
    <2> QED
      BY <1>2, <2>2
  <1> HIDE DEF P
  <1>3. \A T \in SUBSET S : T \in P
    BY <1>1, <1>2, SubsetInduction
  <1> QED
    BY <1>3 DEF P

\* What is smaller element by element has the smaller sum.
LEMMA SumMonotone ==
    ASSUME NEW S, IsFiniteSet(S), NEW f, NEW g,
           \A x \in S : f[x] \in Int /\ g[x] \in Int /\ f[x] <= g[x]
    PROVE  SumFunctionOnSet(f, S) <= SumFunctionOnSet(g, S)
  <1> DEFINE d == [x \in S |-> g[x] - f[x]]
  <1>1. \A x \in S : d[x] \in Nat /\ d[x] \in Int /\ f[x] \in Int /\ g[x] = f[x] + d[x]
    OBVIOUS
  <1> HIDE DEF d
  <1>2. SumFunctionOnSet(d, S) \in Nat
    BY <1>1, SumNonNegative
  <1>3. SumFunctionOnSet(g, S) = SumFunctionOnSet(f, S) + SumFunctionOnSet(d, S)
    BY <1>1, SumPlus
  <1>4. SumFunctionOnSet(f, S) \in Int
    BY SumType
  <1> QED
    BY <1>2, <1>3, <1>4

\* A value that changes changes the sum by as much.
LEMMA SumUpdate ==
    ASSUME NEW S, IsFiniteSet(S), NEW f, NEW g, NEW x \in S, g[x] \in Int,
           \A y \in S : f[y] \in Int /\ (y # x => g[y] = f[y])
    PROVE  SumFunctionOnSet(g, S) = SumFunctionOnSet(f, S) + g[x] - f[x]
  <1> DEFINE R == S \ {x}
  <1>1. IsFiniteSet(R) /\ \A y \in R : f[y] \in Int /\ f[y] = g[y]
    BY FS_RemoveElement
  <1>2. SumFunctionOnSet(f, R) = SumFunctionOnSet(g, R) /\ SumFunctionOnSet(f, R) \in Int
    BY <1>1, SumSame, SumType
  <1>3. \A y \in S : g[y] \in Int
    OBVIOUS
  <1>4. /\ SumFunctionOnSet(f, S) = f[x] + SumFunctionOnSet(f, R)
        /\ SumFunctionOnSet(g, S) = g[x] + SumFunctionOnSet(g, R)
    BY <1>3, SumRemove
  <1> HIDE DEF R
  <1> QED
    BY <1>2, <1>4

\* Elements of value zero may be left out.
LEMMA SumSupport ==
    ASSUME NEW S, IsFiniteSet(S), NEW T \in SUBSET S, NEW f, NEW g,
           \A x \in T : f[x] \in Int /\ f[x] = g[x],
           \A x \in S : x \notin T => g[x] = 0
    PROVE  SumFunctionOnSet(f, T) = SumFunctionOnSet(g, S)
  <1> DEFINE P == {U \in SUBSET S : SumFunctionOnSet(g, U) = SumFunctionOnSet(g, U \cap T)}
  <1>1. \A x \in S : g[x] \in Int
    OBVIOUS
  <1>2. {} \in P
    <2>1. {} \cap T = {}
      OBVIOUS
    <2> QED
      BY <2>1
  <1>3. ASSUME NEW U \in SUBSET S, NEW x \in U, U \ {x} \in P
        PROVE  U \in P
    <2>1. IsFiniteSet(U) /\ IsFiniteSet(U \cap T)
      BY FS_Subset
    <2>2. SumFunctionOnSet(g, U) = g[x] + SumFunctionOnSet(g, U \ {x})
      BY <1>1, <2>1, SumRemove
    <2>3. SumFunctionOnSet(g, U \ {x}) = SumFunctionOnSet(g, (U \ {x}) \cap T)
      BY <1>3
    <2>4. CASE x \in T
      <3>1. (U \cap T) \ {x} = (U \ {x}) \cap T
        OBVIOUS
      <3>2. SumFunctionOnSet(g, U \cap T) = g[x] + SumFunctionOnSet(g, (U \cap T) \ {x})
        BY <1>1, <2>1, <2>4, SumRemove
      <3> QED
        BY <2>2, <2>3, <3>1, <3>2
    <2>5. CASE x \notin T
      <3>1. (U \ {x}) \cap T = U \cap T
        BY <2>5
      <3>2. SumFunctionOnSet(g, U \cap T) \in Int
        BY <1>1, <2>1, SumType
      <3>3. g[x] = 0
        BY <2>5
      <3>4. SumFunctionOnSet(g, U \ {x}) = SumFunctionOnSet(g, U \cap T)
        BY <2>3, <3>1
      <3> QED
        BY <2>2, <3>2, <3>3, <3>4
    <2> QED
      BY <2>4, <2>5
  <1> HIDE DEF P
  <1>4. \A U \in SUBSET S : U \in P
    BY <1>2, <1>3, SubsetInduction
  <1>5. SumFunctionOnSet(g, S) = SumFunctionOnSet(g, S \cap T) /\ S \cap T = T
    BY <1>4 DEF P
  <1>6. IsFiniteSet(T)
    BY FS_Subset
  <1> QED
    BY <1>5, <1>6, SumSame

-----------------------------------------------------------------------------
(* The same for SumFunction, the sum of a function over its domain *)

LEMMA SumFunctionType ==
    ASSUME NEW S, IsFiniteSet(S), NEW f \in [S -> Int]
    PROVE  SumFunction(f) \in Int
  BY SumType DEF SumFunction

\* One element changes.
LEMMA SumFunctionUpdate ==
    ASSUME NEW S, IsFiniteSet(S), NEW f \in [S -> Int], NEW g \in [S -> Int], NEW x \in S,
           \A y \in S : y # x => g[y] = f[y]
    PROVE  SumFunction(g) = SumFunction(f) + g[x] - f[x]
  <1>1. SumFunctionOnSet(g, S) = SumFunctionOnSet(f, S) + g[x] - f[x]
    BY SumUpdate
  <1> QED
    BY <1>1 DEF SumFunction

LEMMA SumFunctionPlus ==
    ASSUME NEW S, IsFiniteSet(S), NEW f \in [S -> Int], NEW g \in [S -> Int],
           NEW h \in [S -> Int], \A x \in S : h[x] = f[x] + g[x]
    PROVE  SumFunction(h) = SumFunction(f) + SumFunction(g)
  <1>1. SumFunctionOnSet(h, S) = SumFunctionOnSet(f, S) + SumFunctionOnSet(g, S)
    BY SumPlus
  <1> QED
    BY <1>1 DEF SumFunction

LEMMA SumFunctionZero ==
    ASSUME NEW S, IsFiniteSet(S), NEW f \in [S -> Int], \A x \in S : f[x] = 0
    PROVE  SumFunction(f) = 0
  <1>1. SumFunctionOnSet(f, S) = 0
    BY SumZero
  <1> QED
    BY <1>1 DEF SumFunction

\* No term is more than the sum of terms that are not negative.
LEMMA SumFunctionCovers ==
    ASSUME NEW S, IsFiniteSet(S), NEW f \in [S -> Nat], NEW x \in S
    PROVE  SumFunction(f) \in Nat /\ f[x] <= SumFunction(f)
  <1>1. SumFunctionOnSet(f, S) = f[x] + SumFunctionOnSet(f, S \ {x})
    BY SumRemove
  <1>2. IsFiniteSet(S \ {x})
    BY FS_RemoveElement
  <1>3. SumFunctionOnSet(f, S \ {x}) \in Nat
    BY <1>2, SumNonNegative
  <1>4. SumFunction(f) = SumFunctionOnSet(f, S) /\ f[x] \in Nat
    BY DEF SumFunction
  <1> QED
    BY <1>1, <1>3, <1>4
=============================================================================
