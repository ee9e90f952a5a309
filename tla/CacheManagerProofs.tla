------------------------- MODULE CacheManagerProofs -------------------------
(***************************************************************************)
(* The safety properties of CacheManager for every number of threads,      *)
(* files and blocks, and all capacities.                                   *)
(***************************************************************************)
EXTENDS CacheManager, Functions, FiniteSetTheorems, TLAPS

-----------------------------------------------------------------------------
(* Sums over finite sets (SumFunctionOnSet of Functions): how a sum        *)
(* changes when an index is added, removed or gets another value, and how  *)
(* it is bounded.  The induction is over sets of sets, so that it needs no *)
(* operator as a parameter.                                                *)

\* Every set of naturals that is not empty has a least element.
LEMMA Least ==
  ASSUME NEW T \in SUBSET Nat, T # {}
  PROVE  \E m \in T : \A k \in T : m <= k
<1> DEFINE R == OpToRel(<, Nat)
<1>1. IsWellFoundedOn(R, Nat)
  BY NatLessThanWellFounded
<1>2. \A i, j \in Nat : <<i, j>> \in R <=> i < j
  BY DEF OpToRel
<1> HIDE DEF R
<1>3. PICK m \in T : \A y \in T : ~ (<<y, m>> \in R)
  BY <1>1, WFMin
<1>4. ASSUME NEW k \in T PROVE m <= k
  <2>1. m \in Nat /\ k \in Nat /\ ~ (<<k, m>> \in R)
    BY <1>3
  <2>2. QED
    BY <1>2, <2>1
<1>5. QED
  BY <1>4

\* Induction over the subsets of a finite set.
LEMMA SetInduction ==
  ASSUME NEW S, IsFiniteSet(S), NEW C, {} \in C,
         \A T \in SUBSET S : T # {} /\ (\A x \in T : T \ {x} \in C) => T \in C
  PROVE  \A T \in SUBSET S : T \in C
<1> SUFFICES ASSUME NEW T0 \in SUBSET S, T0 \notin C PROVE FALSE
  OBVIOUS
<1> DEFINE N == {n \in Nat : \E T \in SUBSET S : T \notin C /\ Cardinality(T) = n}
<1>1. \A T \in SUBSET S : IsFiniteSet(T) /\ Cardinality(T) \in Nat
  BY FS_Subset, FS_CardinalityType
<1>2. N \in SUBSET Nat /\ N # {}
  BY <1>1
<1>3. PICK m \in N : \A k \in N : m <= k
  <2> HIDE DEF N
  <2>1. QED
    BY <1>2, Least
<1>4. PICK T \in SUBSET S : T \notin C /\ Cardinality(T) = m
  OBVIOUS
<1>5. ASSUME NEW x \in T PROVE T \ {x} \in C
  <2>1. IsFiniteSet(T) /\ m \in Nat
    BY <1>1, <1>4
  <2>2. Cardinality(T \ {x}) = Cardinality(T) - 1
    BY <2>1, <1>5, FS_RemoveElement
  <2>3. T \ {x} \in SUBSET S /\ Cardinality(T \ {x}) \in Nat
    BY <1>1
  <2>4. ~ (m <= Cardinality(T \ {x}))
    BY <1>4, <2>1, <2>2, <2>3
  <2>5. QED
    BY <1>3, <2>3, <2>4
<1>6. QED
  BY <1>4, <1>5

Picked(s) == CHOOSE x \in s : TRUE

\* The recursion of the sum, on the subsets of S.
SumRecursion(g, f, S) ==
  g = [s \in SUBSET S |-> IF s = {} THEN 0 ELSE f[Picked(s)] + g[s \ {Picked(s)}]]

LEMMA SumUnfold ==
  ASSUME NEW f, NEW S
  PROVE  SumFunctionOnSet(f, S) = (CHOOSE g : SumRecursion(g, f, S))[S]
BY DEF SumFunctionOnSet, FoldFunctionOnSet, MapThenFoldSet, SumRecursion, Picked

\* A function with that recursion exists.
LEMMA SumExists ==
  ASSUME NEW S, IsFiniteSet(S), NEW f, \A x \in S : f[x] \in Int
  PROVE  \E g \in [SUBSET S -> Int] : SumRecursion(g, f, S)
<1> DEFINE Value(g, s) == IF s = {} THEN 0 ELSE f[Picked(s)] + g[s \ {Picked(s)}]
           Upto(g, n) == \A s \in SUBSET S : Cardinality(s) <= n => g[s] = Value(g, s)
           N == {n \in Nat : ~ \E g \in [SUBSET S -> Int] : Upto(g, n)}
<1>1. \A s \in SUBSET S : IsFiniteSet(s) /\ Cardinality(s) \in Nat
  BY FS_Subset, FS_CardinalityType
<1>2. ASSUME NEW s \in SUBSET S, s # {}
      PROVE  /\ Picked(s) \in s /\ f[Picked(s)] \in Int
             /\ s \ {Picked(s)} \in SUBSET S
             /\ Cardinality(s \ {Picked(s)}) = Cardinality(s) - 1
  <2>1. Picked(s) \in s
    BY <1>2 DEF Picked
  <2>2. QED
    BY <1>1, <2>1, FS_RemoveElement
<1>3. ASSUME NEW g \in [SUBSET S -> Int], NEW s \in SUBSET S PROVE Value(g, s) \in Int
  BY <1>2
<1>4. N = {}
  <2> SUFFICES ASSUME N # {} PROVE FALSE
    OBVIOUS
  <2>1. PICK m \in N : \A k \in N : m <= k
    <3>1. N \in SUBSET Nat
      OBVIOUS
    <3> HIDE DEF N
    <3>2. QED
      BY <3>1, Least
  <2>2. PICK g \in [SUBSET S -> Int] : \A k \in Nat : k = m - 1 => Upto(g, k)
    <3>1. CASE m = 0
      <4>1. [s \in SUBSET S |-> 0] \in [SUBSET S -> Int]
        OBVIOUS
      <4>2. \A k \in Nat : k # m - 1
        BY <3>1
      <4> HIDE DEF Upto
      <4>3. QED
        BY <4>1, <4>2
    <3>2. CASE m # 0
      <4>1. m - 1 \in Nat /\ m - 1 \notin N
        <5>1. m \in Nat
          OBVIOUS
        <5> HIDE DEF N
        <5>2. QED
          BY <2>1, <3>2, <5>1
      <4>2. PICK g \in [SUBSET S -> Int] : Upto(g, m - 1)
        BY <4>1
      <4> HIDE DEF Upto
      <4>3. QED
        BY <4>2
    <3>3. QED
      BY <3>1, <3>2
  <2> DEFINE u == [s \in SUBSET S |-> IF Cardinality(s) < m THEN g[s] ELSE Value(g, s)]
  <2>3. u \in [SUBSET S -> Int]
    BY <1>3
  <2>4. ASSUME NEW s \in SUBSET S, Cardinality(s) <= m PROVE u[s] = Value(u, s)
    <3>1. m \in Nat /\ Cardinality(s) \in Nat
      BY <1>1
    <3>2. Cardinality(s) < m => g[s] = Value(g, s)
      <4>1. ASSUME Cardinality(s) < m PROVE g[s] = Value(g, s)
        <5>1. m - 1 \in Nat /\ Cardinality(s) <= m - 1
          BY <3>1, <4>1
        <5>2. Upto(g, m - 1)
          <6> HIDE DEF Upto
          <6>1. QED
            BY <2>2, <5>1
        <5> HIDE DEF Value
        <5>3. QED
          BY <5>1, <5>2
      <4>2. QED
        BY <4>1
    <3>3. u[s] = Value(g, s)
      <4> HIDE DEF Value
      <4>1. QED
        BY <3>2
    <3>4. CASE s = {}
      BY <3>3, <3>4
    <3>5. CASE s # {}
      <4> DEFINE p == s \ {Picked(s)}
      <4>1. p \in SUBSET S /\ Cardinality(p) < m
        BY <1>2, <2>4, <3>1, <3>5
      <4>2. u[p] = g[p]
        <5> HIDE DEF Value, p
        <5>1. QED
          BY <4>1
      <4>3. QED
        BY <3>3, <3>5, <4>2
    <3>6. QED
      BY <3>4, <3>5
  <2>5. Upto(u, m)
    <3> HIDE DEF Value, u
    <3>1. QED
      BY <2>4
  <2>6. QED
    <3> HIDE DEF Upto, u
    <3>1. QED
      BY <2>3, <2>5
<1>5. PICK g \in [SUBSET S -> Int] : Upto(g, Cardinality(S))
  <2>1. Cardinality(S) \in Nat
    BY <1>1
  <2> HIDE DEF Upto
  <2>2. QED
    BY <1>4, <2>1
<1>6. ASSUME NEW s \in SUBSET S PROVE g[s] = Value(g, s)
  <2>1. Cardinality(s) <= Cardinality(S)
    BY FS_Subset
  <2> HIDE DEF Value
  <2>2. QED
    BY <1>5, <2>1
<1>7. SumRecursion(g, f, S)
  BY <1>6 DEF SumRecursion
<1>8. QED
  BY <1>7

\* Two functions with that recursion agree.
LEMMA SumUnique ==
  ASSUME NEW S, IsFiniteSet(S), NEW f, NEW g, NEW U, NEW h, SumRecursion(g, f, S),
         SumRecursion(h, f, U), S \subseteq U
  PROVE  \A s \in SUBSET S : g[s] = h[s]
<1> DEFINE C == {s \in SUBSET S : g[s] = h[s]}
<1>1. ASSUME NEW s \in SUBSET S
      PROVE  /\ g[s] = IF s = {} THEN 0 ELSE f[Picked(s)] + g[s \ {Picked(s)}]
             /\ h[s] = IF s = {} THEN 0 ELSE f[Picked(s)] + h[s \ {Picked(s)}]
  <2>1. s \in SUBSET U
    OBVIOUS
  <2>2. QED
    BY <2>1 DEF SumRecursion
<1>2. {} \in C
  BY <1>1
<1>3. \A s \in SUBSET S : s # {} => Picked(s) \in s /\ s \ {Picked(s)} \in SUBSET S
  BY DEF Picked
<1>4. ASSUME NEW s \in SUBSET S, s # {}, \A x \in s : s \ {x} \in C PROVE s \in C
  BY <1>1, <1>3, <1>4
<1>5. \A s \in SUBSET S : s \in C
  <2> HIDE DEF C
  <2>1. QED
    BY <1>2, <1>4, SetInduction
<1>6. QED
  BY <1>5

\* f has integer values on the finite set S.
Summable(f, S) == IsFiniteSet(S) /\ \A x \in S : f[x] \in Int

\* The sum has the type and the recursion that its definition suggests.
LEMMA SumRecursive ==
  ASSUME NEW S, NEW f, Summable(f, S)
  PROVE  \E g \in [SUBSET S -> Int] :
           SumRecursion(g, f, S) /\ \A s \in SUBSET S : g[s] = SumFunctionOnSet(f, s)
<1>1. PICK g \in [SUBSET S -> Int] : SumRecursion(g, f, S)
  BY SumExists DEF Summable
<1>2. ASSUME NEW s \in SUBSET S PROVE g[s] = SumFunctionOnSet(f, s)
  <2>1. IsFiniteSet(s)
    BY FS_Subset DEF Summable
  <2>2. \E h : SumRecursion(h, f, s)
    BY <2>1, SumExists DEF Summable
  <2> DEFINE h == CHOOSE h : SumRecursion(h, f, s)
  <2>3. SumRecursion(h, f, s)
    BY <2>2
  <2>4. SumFunctionOnSet(f, s) = h[s]
    BY SumUnfold
  <2> HIDE DEF h
  <2>5. \A t \in SUBSET s : h[t] = g[t]
    BY <1>1, <2>1, <2>3, SumUnique
  <2>6. QED
    BY <2>4, <2>5
<1>3. QED
  BY <1>1, <1>2

LEMMA SumType ==
  ASSUME NEW S, NEW f, Summable(f, S)
  PROVE  SumFunctionOnSet(f, S) \in Int
<1>1. PICK g \in [SUBSET S -> Int] :
        SumRecursion(g, f, S) /\ \A s \in SUBSET S : g[s] = SumFunctionOnSet(f, s)
  BY SumRecursive
<1>2. QED
  BY <1>1

LEMMA SumEmpty ==
  ASSUME NEW f
  PROVE  SumFunctionOnSet(f, {}) = 0
<1>1. Summable(f, {})
  BY FS_EmptySet DEF Summable
<1>2. PICK g \in [SUBSET {} -> Int] :
        SumRecursion(g, f, {}) /\ \A s \in SUBSET {} : g[s] = SumFunctionOnSet(f, s)
  BY <1>1, SumRecursive
<1>3. QED
  BY <1>2 DEF SumRecursion

\* Whatever element is taken first, the sum is the same.
LEMMA SumRemove ==
  ASSUME NEW S, NEW f, Summable(f, S)
  PROVE  \A x \in S : SumFunctionOnSet(f, S) = f[x] + SumFunctionOnSet(f, S \ {x})
<1>1. PICK g \in [SUBSET S -> Int] :
        SumRecursion(g, f, S) /\ \A s \in SUBSET S : g[s] = SumFunctionOnSet(f, s)
  BY SumRecursive
<1> DEFINE C == {s \in SUBSET S : \A x \in s : g[s] = f[x] + g[s \ {x}]}
<1>2. {} \in C
  OBVIOUS
<1>3. ASSUME NEW s \in SUBSET S, s # {}, \A x \in s : s \ {x} \in C PROVE s \in C
  <2> DEFINE p == Picked(s)
  <2>1. p \in s /\ g[s] = f[p] + g[s \ {p}]
    BY <1>1, <1>3 DEF SumRecursion, Picked
  <2> HIDE DEF p
  <2>2. ASSUME NEW x \in s, x # p PROVE g[s] = f[x] + g[s \ {x}]
    <3>1. s \ {p} \in C /\ s \ {x} \in C /\ x \in s \ {p} /\ p \in s \ {x}
      BY <1>3, <2>1, <2>2
    <3>2. g[s \ {p}] = f[x] + g[(s \ {p}) \ {x}]
      BY <3>1
    <3>3. g[s \ {x}] = f[p] + g[(s \ {x}) \ {p}]
      BY <3>1
    <3>4. (s \ {x}) \ {p} = (s \ {p}) \ {x} /\ (s \ {p}) \ {x} \in SUBSET S
      OBVIOUS
    <3>5. f[x] \in Int /\ f[p] \in Int /\ g[(s \ {p}) \ {x}] \in Int
      BY <2>1, <3>4 DEF Summable
    <3>6. g[s] = f[p] + (f[x] + g[(s \ {p}) \ {x}])
      BY <2>1, <3>2
    <3>7. g[s \ {x}] = f[p] + g[(s \ {p}) \ {x}]
      BY <3>3, <3>4
    <3>8. QED
      BY <3>5, <3>6, <3>7
  <2>3. QED
    BY <2>1, <2>2
<1>4. S \in C
  <2> HIDE DEF C
  <2>1. \A s \in SUBSET S : s \in C
    BY <1>2, <1>3, SetInduction DEF Summable
  <2>2. QED
    BY <2>1
<1>5. QED
  BY <1>1, <1>4

LEMMA SubsetSummable ==
  ASSUME NEW S, NEW f, Summable(f, S), NEW T \in SUBSET S
  PROVE  Summable(f, T)
BY FS_Subset DEF Summable

\* One index more.
LEMMA SumAdd ==
  ASSUME NEW S, NEW f, Summable(f, S), NEW x, x \notin S, f[x] \in Int
  PROVE  SumFunctionOnSet(f, S \cup {x}) = f[x] + SumFunctionOnSet(f, S)
<1>1. Summable(f, S \cup {x})
  BY FS_AddElement DEF Summable
<1>2. (S \cup {x}) \ {x} = S
  OBVIOUS
<1>3. QED
  BY <1>1, <1>2, SumRemove

\* The sum is that of the values at the indices.
LEMMA SumSame ==
  ASSUME NEW S, NEW f, Summable(f, S), NEW g, \A x \in S : g[x] = f[x]
  PROVE  SumFunctionOnSet(g, S) = SumFunctionOnSet(f, S)
<1> DEFINE C == {s \in SUBSET S : SumFunctionOnSet(g, s) = SumFunctionOnSet(f, s)}
<1>1. {} \in C
  BY SumEmpty
<1>2. ASSUME NEW s \in SUBSET S, s # {}, \A x \in s : s \ {x} \in C PROVE s \in C
  <2>1. PICK x \in s : TRUE
    BY <1>2
  <2>2. Summable(f, s) /\ Summable(g, s)
    BY SubsetSummable DEF Summable
  <2>3. SumFunctionOnSet(f, s) = f[x] + SumFunctionOnSet(f, s \ {x})
    BY <2>2, SumRemove
  <2>4. SumFunctionOnSet(g, s) = g[x] + SumFunctionOnSet(g, s \ {x})
    BY <2>2, SumRemove
  <2>5. QED
    BY <1>2, <2>3, <2>4
<1>3. \A s \in SUBSET S : s \in C
  <2> HIDE DEF C
  <2>1. QED
    BY <1>1, <1>2, SetInduction DEF Summable
<1>4. QED
  BY <1>3

\* One index with another value.
LEMMA SumChange ==
  ASSUME NEW S, NEW f, Summable(f, S), NEW x \in S, NEW g, g[x] \in Int,
         \A y \in S \ {x} : g[y] = f[y]
  PROVE  SumFunctionOnSet(g, S) = SumFunctionOnSet(f, S) - f[x] + g[x]
<1>1. Summable(g, S) /\ Summable(f, S \ {x}) /\ f[x] \in Int
  BY SubsetSummable DEF Summable
<1>2. SumFunctionOnSet(g, S \ {x}) = SumFunctionOnSet(f, S \ {x})
  BY <1>1, SumSame
<1>3. SumFunctionOnSet(g, S) = g[x] + SumFunctionOnSet(g, S \ {x})
  BY <1>1, SumRemove
<1>4. SumFunctionOnSet(f, S) = f[x] + SumFunctionOnSet(f, S \ {x})
  BY SumRemove
<1>5. SumFunctionOnSet(f, S \ {x}) \in Int
  BY <1>1, SumType
<1>6. QED
  BY <1>1, <1>2, <1>3, <1>4, <1>5

\* The indices in two parts.
LEMMA SumSplit ==
  ASSUME NEW S, NEW f, Summable(f, S), NEW T \in SUBSET S
  PROVE  SumFunctionOnSet(f, S) = SumFunctionOnSet(f, S \ T) + SumFunctionOnSet(f, T)
<1> DEFINE C == {s \in SUBSET S : SumFunctionOnSet(f, S)
                                    = SumFunctionOnSet(f, S \ s) + SumFunctionOnSet(f, s)}
<1>1. {} \in C
  <2>1. S \ {} = S /\ SumFunctionOnSet(f, S) \in Int
    BY SumType
  <2>2. QED
    BY <2>1, SumEmpty
<1>2. ASSUME NEW s \in SUBSET S, s # {}, \A x \in s : s \ {x} \in C PROVE s \in C
  <2>1. PICK x \in s : TRUE
    BY <1>2
  <2>2. Summable(f, s) /\ Summable(f, s \ {x}) /\ Summable(f, S \ s) /\ f[x] \in Int
    BY SubsetSummable DEF Summable
  <2>3. SumFunctionOnSet(f, s) = f[x] + SumFunctionOnSet(f, s \ {x})
    BY <2>2, SumRemove
  <2>4. (S \ s) \cup {x} = S \ (s \ {x})
    BY <2>1
  <2>5. SumFunctionOnSet(f, S \ (s \ {x})) = f[x] + SumFunctionOnSet(f, S \ s)
    BY <2>2, <2>4, SumAdd
  <2>6. SumFunctionOnSet(f, s \ {x}) \in Int /\ SumFunctionOnSet(f, S \ s) \in Int
    BY <2>2, SumType
  <2>7. SumFunctionOnSet(f, S) = SumFunctionOnSet(f, S \ (s \ {x})) + SumFunctionOnSet(f, s \ {x})
    BY <1>2
  <2>8. QED
    BY <2>2, <2>3, <2>5, <2>6, <2>7
<1>3. \A s \in SUBSET S : s \in C
  <2> HIDE DEF C
  <2>1. QED
    BY <1>1, <1>2, SetInduction DEF Summable
<1>4. QED
  BY <1>3

\* A bound of the values bounds the sum.
LEMMA SumBound ==
  ASSUME NEW S, NEW f, IsFiniteSet(S), NEW K \in Nat, \A x \in S : f[x] \in 0 .. K
  PROVE  SumFunctionOnSet(f, S) \in 0 .. Cardinality(S) * K
<1> DEFINE C == {s \in SUBSET S : SumFunctionOnSet(f, s) \in 0 .. Cardinality(s) * K}
<1>1. {} \in C
  <2>1. Cardinality({}) = 0
    BY FS_EmptySet
  <2>2. 0 \in 0 .. 0 * K
    OBVIOUS
  <2>3. QED
    BY <2>1, <2>2, SumEmpty
<1>2. ASSUME NEW s \in SUBSET S, s # {}, \A x \in s : s \ {x} \in C PROVE s \in C
  <2>1. PICK x \in s : TRUE
    BY <1>2
  <2>2. Summable(f, s) /\ f[x] \in 0 .. K
    BY FS_Subset DEF Summable
  <2>3. SumFunctionOnSet(f, s) = f[x] + SumFunctionOnSet(f, s \ {x})
    BY <2>2, SumRemove
  <2>4. IsFiniteSet(s) /\ Cardinality(s) \in Nat
    BY FS_Subset, FS_CardinalityType
  <2>5. Cardinality(s \ {x}) = Cardinality(s) - 1
    BY <2>4, FS_RemoveElement
  <2>6. SumFunctionOnSet(f, s \ {x}) \in 0 .. (Cardinality(s) - 1) * K
    BY <1>2, <2>5
  <2>7. \A n \in Nat : (n - 1) * K + K = n * K
    OBVIOUS
  <2>8. (Cardinality(s) - 1) * K \in Int /\ Cardinality(s) * K \in Int
    BY <2>4
  <2>9. QED
    BY <2>2, <2>3, <2>4, <2>6, <2>7, <2>8
<1>3. \A s \in SUBSET S : s \in C
  <2> HIDE DEF C
  <2>1. QED
    BY <1>1, <1>2, SetInduction
<1>4. QED
  BY <1>3

\* Larger values have a larger sum.
LEMMA SumMonotone ==
  ASSUME NEW S, NEW f, NEW g, Summable(f, S), Summable(g, S), \A x \in S : f[x] <= g[x]
  PROVE  SumFunctionOnSet(f, S) <= SumFunctionOnSet(g, S)
<1> DEFINE C == {s \in SUBSET S : SumFunctionOnSet(f, s) <= SumFunctionOnSet(g, s)}
<1>1. {} \in C
  BY SumEmpty
<1>2. ASSUME NEW s \in SUBSET S, s # {}, \A x \in s : s \ {x} \in C PROVE s \in C
  <2>1. PICK x \in s : TRUE
    BY <1>2
  <2>2. Summable(f, s) /\ Summable(g, s)
    BY SubsetSummable
  <2>3. Summable(f, s \ {x}) /\ Summable(g, s \ {x})
    BY <2>2, SubsetSummable
  <2>4. /\ SumFunctionOnSet(f, s) = f[x] + SumFunctionOnSet(f, s \ {x})
        /\ SumFunctionOnSet(g, s) = g[x] + SumFunctionOnSet(g, s \ {x})
    BY <2>2, SumRemove
  <2>5. SumFunctionOnSet(f, s \ {x}) \in Int /\ SumFunctionOnSet(g, s \ {x}) \in Int
    BY <2>3, SumType
  <2>6. SumFunctionOnSet(f, s \ {x}) <= SumFunctionOnSet(g, s \ {x})
    BY <1>2
  <2>7. f[x] \in Int /\ g[x] \in Int /\ f[x] <= g[x]
    BY DEF Summable
  <2>8. QED
    BY <2>4, <2>5, <2>6, <2>7
<1>3. \A s \in SUBSET S : s \in C
  <2>1. IsFiniteSet(S)
    BY DEF Summable
  <2> HIDE DEF C
  <2>2. QED
    BY <1>1, <1>2, <2>1, SetInduction
<1>4. QED
  BY <1>3

-----------------------------------------------------------------------------
(* The inductive invariant.                                                *)

\* The threads that create or write the file they use.
Writing == {t \in Busy : thread[t].pc \in {"clear", "initialize", "writing", "extend"}}

\* The entry of the map for the file a thread uses.
EntryOf(t) == cache_blocks[thread[t].id]

\* A file is used by one writer or by readers, at most one of its users is
\* deleting it, and no block belongs to two files.
FilesAreSeparate ==
  /\ \A i, j \in Ids : cache_blocks[i] # NoBlock /\ cache_blocks[i] = cache_blocks[j] => i = j
  /\ \A t \in Busy : \A i \in Ids : cache_blocks[i] = thread[t].block => i = thread[t].id
  /\ \A t, u \in Busy : thread[t].block = thread[u].block => thread[t].id = thread[u].id
  /\ \A t \in Writing : \A u \in Busy : thread[u].id = thread[t].id => u = t
  /\ \A t \in Using("free") : \A u \in Busy :
       thread[u].id = thread[t].id => u = t \/ thread[u].pc = "reading"

\* What the map and the threads refer to exists.
ReferencesAreLive ==
  /\ \A i \in Ids : cache_blocks[i] # NoBlock => cache_blocks[i] \in Live
  /\ \A t \in Busy :
       CASE thread[t].pc = "reading" ->
              thread[t].block \in Live /\ EntryOf(t) \in {thread[t].block, NoBlock}
         [] thread[t].pc = "initialize" ->
              EntryOf(t) = thread[t].block \/ (EntryOf(t) = NoBlock /\ thread[t].block \notin Live)
         [] OTHER -> EntryOf(t) = thread[t].block

\* The content of a block is in its memory or in its file; only a block that is
\* being written is empty, and one that will be initialized has neither.
Contents ==
  \A b \in Live :
    LET r == block[b]  cleared == \E t \in Holders(b) : thread[t].pc = "initialize"
    IN  /\ ~ r.data => r.capacity = 0
        /\ r.data => Min2(Initial, r.maximum_capacity) <= r.capacity
        /\ cleared => ~ r.data /\ ~ r.is_file
        /\ ~ cleared => /\ r.data => r.size = r.written
                        /\ r.is_file => disk[b] = r.written
                        /\ ~ r.data /\ ~ r.is_file => r.written = 0
        /\ r.written = 0 => \E t \in Holders(b) : thread[t].pc \in {"writing", "extend"}

\* What a thread has read is still so when it uses it.
ReadingsHold ==
  \A t \in Busy :
    LET r == block[thread[t].block]
    IN  /\ thread[t].pc = "extend" =>
             /\ r.data /\ r.written + thread[t].size <= MaxSize
             /\ r.capacity < thread[t].capacity /\ thread[t].capacity <= r.maximum_capacity
             /\ r.size + thread[t].size <= thread[t].capacity
        /\ thread[t].pc = "clear" /\ ~ r.is_file => r.data /\ thread[t].max = r.maximum_capacity

\* The memory that a thread may allocate without another look at the utilization.
Reserved(t) ==
  IF thread[t].pc = "clear"
    THEN IF block[thread[t].block].is_file THEN Min2(Initial, thread[t].max) ELSE 0
    ELSE Pending(t)

ReservedIsBounded ==
  current_cache_utilization + SumFunction([t \in Threads |-> Reserved(t)])
    <= Maximum + (Cardinality(Threads) - 1) * Growth

IInv == /\ TypeOK /\ FilesAreSeparate /\ ReferencesAreLive /\ Contents /\ ReadingsHold
        /\ UtilizationIsExact /\ FilesFollowBlocks /\ ReadersSeeWhatWasWritten

-----------------------------------------------------------------------------
(* Types.                                                                  *)

\* The type of a block that exists, with what TypeOK says of it.
GoodBlock(r) ==
  /\ r \in BlockType
  /\ r.size <= r.capacity /\ r.capacity <= r.maximum_capacity
  /\ ~ (r.data /\ r.is_file)

LEMMA ThreadTyped ==
  ASSUME TypeOK, NEW t \in Busy
  PROVE  /\ t \in Threads /\ thread[t] \in ThreadType /\ thread[t] # Idle
         /\ thread[t].id \in Ids /\ thread[t].block \in Blocks
         /\ thread[t].pc \in {"clear", "initialize", "writing", "free", "extend", "reading"}
         /\ thread[t].pc \in {"clear", "initialize"} => thread[t].max \in 0 .. PerFile
         /\ thread[t].pc = "extend" =>
              thread[t].capacity \in 0 .. PerFile /\ thread[t].size \in WriteSizes
BY DEF TypeOK, Busy, ThreadType, Idle

LEMMA BlockTyped ==
  ASSUME TypeOK, NEW b \in Live
  PROVE  /\ b \in Blocks /\ GoodBlock(block[b])
         /\ block[b].exists = TRUE /\ block[b].maximum_capacity \in 0 .. PerFile
         /\ block[b].capacity \in 0 .. PerFile /\ block[b].size \in Sizes
         /\ block[b].data \in BOOLEAN /\ block[b].is_file \in BOOLEAN
         /\ block[b].written \in Sizes
<1>1. b \in Blocks /\ block[b] \in BlockType
  BY DEF TypeOK, Live, Unused
<1>2. QED
  BY <1>1 DEF TypeOK, BlockType, GoodBlock

LEMMA MemoryTyped ==
  ASSUME TypeOK, NEW b \in Blocks
  PROVE  /\ MemoryOf(block[b]) \in 0 .. PerFile
         /\ b \notin Live => MemoryOf(block[b]) = 0
<1>1. CASE b \in Live
  <2>1. block[b].capacity \in 0 .. PerFile /\ MemoryOf(block[b]) \in {0, block[b].capacity}
    BY <1>1, BlockTyped DEF MemoryOf
  <2>2. QED
    BY <1>1, <2>1, CacheManagerAssumption
<1>2. CASE b \notin Live
  <2>1. block[b] = Unused
    BY <1>2 DEF Live, TypeOK, BlockType
  <2>2. QED
    BY <1>2, <2>1, CacheManagerAssumption DEF MemoryOf, Unused
<1>3. QED
  BY <1>1, <1>2

LEMMA BlocksFinite == IsFiniteSet(Blocks)
BY FS_Interval, CacheManagerAssumption DEF Blocks

\* A step that gives one block new fields.
LEMMA OneBlock ==
  ASSUME TypeOK, NEW b \in Blocks, NEW r, GoodBlock(r), block' = [block EXCEPT ![b] = r]
  PROVE  /\ block' \in [Blocks -> BlockType \cup {Unused}]
         /\ block'[b] = r /\ \A c \in Blocks \ {b} : block'[c] = block[c]
         /\ Live' = Live \cup {b}
         /\ \A c \in Live' : /\ block'[c].size <= block'[c].capacity
                             /\ block'[c].capacity <= block'[c].maximum_capacity
                             /\ ~ (block'[c].data /\ block'[c].is_file)
<1>1. /\ block'[b] = r /\ \A c \in Blocks \ {b} : block'[c] = block[c]
      /\ block' \in [Blocks -> BlockType \cup {Unused}]
  BY DEF TypeOK, GoodBlock
<1>2. r.exists = TRUE
  BY DEF GoodBlock, BlockType
<1>3. Live' = Live \cup {b}
  BY <1>1, <1>2 DEF Live
<1>4. QED
  BY <1>1, <1>3, BlockTyped DEF GoodBlock

LEMMA OneBlockCounts ==
  ASSUME TypeOK, UtilizationIsExact, NEW b \in Blocks, NEW r, GoodBlock(r),
         block' = [block EXCEPT ![b] = r],
         current_cache_utilization' = current_cache_utilization - MemoryOf(block[b]) + MemoryOf(r)
  PROVE  UtilizationIsExact' /\ current_cache_utilization' \in Nat
<1> DEFINE f == [c \in Blocks |-> MemoryOf(block[c])]
           g == [c \in Blocks |-> MemoryOf(block'[c])]
<1>1. /\ block'[b] = r /\ \A c \in Blocks \ {b} : block'[c] = block[c]
  BY OneBlock
<1>2. MemoryOf(r) \in 0 .. PerFile
  BY CacheManagerAssumption DEF MemoryOf, GoodBlock, BlockType
<1>3. \A c \in Blocks : f[c] \in 0 .. PerFile /\ g[c] \in 0 .. PerFile
  BY <1>1, <1>2, MemoryTyped
<1>4. Summable(f, Blocks) /\ g[b] \in Int /\ f[b] = MemoryOf(block[b]) /\ g[b] = MemoryOf(r)
  BY <1>1, <1>2, <1>3, BlocksFinite, CacheManagerAssumption DEF Summable
<1>5. \A c \in Blocks \ {b} : g[c] = f[c]
  BY <1>1
<1>6. /\ DOMAIN f = Blocks /\ DOMAIN g = Blocks
      /\ current_cache_utilization = SumFunction(f)
      /\ UtilizationIsExact' <=> current_cache_utilization' = SumFunction(g)
  BY DEF UtilizationIsExact
<1> HIDE DEF f, g
<1>7. SumFunctionOnSet(g, Blocks) = SumFunctionOnSet(f, Blocks) - f[b] + g[b]
  BY <1>4, <1>5, SumChange
<1>8. SumFunctionOnSet(g, Blocks) \in Nat
  <2>1. SumFunctionOnSet(g, Blocks) \in 0 .. Cardinality(Blocks) * PerFile
    BY <1>3, BlocksFinite, SumBound, CacheManagerAssumption
  <2>2. QED
    BY <2>1
<1>9. SumFunction(f) = SumFunctionOnSet(f, Blocks) /\ SumFunction(g) = SumFunctionOnSet(g, Blocks)
  BY <1>6 DEF SumFunction
<1>10. current_cache_utilization' = SumFunction(g)
  BY <1>4, <1>6, <1>7, <1>9
<1>11. QED
  BY <1>6, <1>8, <1>9, <1>10

-----------------------------------------------------------------------------
(* A step of a thread that writes a block.                                 *)

LEMMA OwnBlock ==
  ASSUME IInv, NEW t \in Writing, NEW u \in Busy, u # t
  PROVE  thread[u].block # thread[t].block /\ thread[u].id # thread[t].id
BY DEF IInv, FilesAreSeparate, Writing

\* A block that a thread refers to exists unless it will be initialized.
LEMMA HeldIsLive ==
  ASSUME IInv, NEW t \in Busy, thread[t].pc # "initialize"
  PROVE  thread[t].block \in Live
<1>1. thread[t].id \in Ids /\ thread[t].block \in Blocks
  BY ThreadTyped DEF IInv
<1>2. thread[t].block # NoBlock
  BY <1>1 DEF Blocks, NoBlock
<1>3. QED
  BY <1>1, <1>2 DEF IInv, ReferencesAreLive, EntryOf

\* What a block must look like while the thread that writes it is at pc.
WriterContents(r, d, pc) ==
  /\ ~ r.data => r.capacity = 0
  /\ r.data => Min2(Initial, r.maximum_capacity) <= r.capacity
  /\ pc = "initialize" => ~ r.data /\ ~ r.is_file
  /\ pc # "initialize" => /\ r.data => r.size = r.written
                          /\ r.is_file => d = r.written
                          /\ ~ r.data /\ ~ r.is_file => r.written = 0
  /\ r.written = 0 => pc \in {"writing", "extend"}

LEMMA WriterStep ==
  ASSUME IInv, NEW t \in Writing, NEW x, NEW r,
         x \in ThreadType, x.pc \in {"initialize", "writing", "extend"},
         x.id = thread[t].id, x.block = thread[t].block,
         x.pc = "extend" => /\ r.data /\ r.written + x.size <= MaxSize
                            /\ r.capacity < x.capacity /\ x.capacity <= r.maximum_capacity
                            /\ r.size + x.size <= x.capacity,
         GoodBlock(r),
         thread' = [thread EXCEPT ![t] = x],
         block' = [block EXCEPT ![thread[t].block] = r],
         cache_blocks' = [cache_blocks EXCEPT ![thread[t].id] = thread[t].block],
         disk' \in [Blocks -> Sizes \cup {NoFile}],
         \A c \in Blocks : c # thread[t].block => disk'[c] = disk[c],
         (disk'[thread[t].block] # NoFile) <=> r.is_file,
         WriterContents(r, disk'[thread[t].block], x.pc),
         current_cache_utilization'
           = current_cache_utilization - MemoryOf(block[thread[t].block]) + MemoryOf(r)
  PROVE  IInv'
<1>0. PICK b \in Blocks, i \in Ids : b = thread[t].block /\ i = thread[t].id
  BY ThreadTyped DEF IInv, Writing
<1>1. /\ t \in Threads /\ t \in Busy /\ b \in Blocks /\ i \in Ids /\ b # NoBlock
      /\ thread[t].pc \in {"clear", "initialize", "writing", "extend"}
  BY <1>0 DEF Writing, Busy, Blocks, NoBlock
<1>2. /\ \A u \in Threads \ {t} : thread'[u] = thread[u]
      /\ thread'[t] = x /\ thread' \in [Threads -> ThreadType]
  BY <1>1 DEF IInv, TypeOK
<1>3. Busy' = Busy /\ Writing' = Writing /\ x.pc # "idle"
  BY <1>1, <1>2 DEF Busy, Writing
<1>4. /\ block' \in [Blocks -> BlockType \cup {Unused}]
      /\ block'[b] = r /\ \A c \in Blocks \ {b} : block'[c] = block[c]
      /\ Live' = Live \cup {b}
      /\ \A c \in Live' : /\ block'[c].size <= block'[c].capacity
                          /\ block'[c].capacity <= block'[c].maximum_capacity
                          /\ ~ (block'[c].data /\ block'[c].is_file)
  BY <1>0, OneBlock DEF IInv
<1>5. UtilizationIsExact' /\ current_cache_utilization' \in Nat
  BY <1>0, OneBlockCounts DEF IInv
<1>6. /\ cache_blocks' \in [Ids -> Blocks \cup {NoBlock}] /\ cache_blocks'[i] = b
      /\ \A j \in Ids \ {i} : cache_blocks'[j] = cache_blocks[j]
  BY <1>0 DEF IInv, TypeOK
<1>7. \A u \in Busy \ {t} : thread[u].block # b /\ thread[u].id # i
  BY <1>0, OwnBlock
<1>8. \A j \in Ids : cache_blocks[j] = b => j = i
  BY <1>0, <1>1 DEF IInv, FilesAreSeparate
<1>9. \A u \in Busy : u \in Threads /\ thread[u].block \in Blocks /\ thread[u].id \in Ids
  BY ThreadTyped DEF IInv
<1>10. TypeOK'
  BY <1>2, <1>4, <1>5, <1>6 DEF TypeOK
<1>11. x.id = i /\ x.block = b
  BY <1>0
<1>12. FilesAreSeparate'
  <2>1. \A j, k \in Ids : cache_blocks'[j] # NoBlock /\ cache_blocks'[j] = cache_blocks'[k] => j = k
    BY <1>6, <1>8 DEF IInv, FilesAreSeparate
  <2>2. \A u \in Busy : \A j \in Ids : cache_blocks'[j] = thread'[u].block => j = thread'[u].id
    BY <1>2, <1>6, <1>7, <1>8, <1>9, <1>11 DEF IInv, FilesAreSeparate
  <2>3. \A u, v \in Busy : thread'[u].block = thread'[v].block => thread'[u].id = thread'[v].id
    BY <1>2, <1>7, <1>9, <1>11 DEF IInv, FilesAreSeparate
  <2>4. \A u \in Writing : \A v \in Busy : thread'[v].id = thread'[u].id => v = u
    BY <1>2, <1>7, <1>9, <1>11 DEF IInv, FilesAreSeparate, Writing
  <2>5. \A u \in Using("free")' : \A v \in Busy :
          thread'[v].id = thread'[u].id => v = u \/ thread'[v].pc = "reading"
    BY <1>2, <1>3, <1>7, <1>9, <1>11 DEF IInv, FilesAreSeparate, Using
  <2>6. QED
    BY <1>3, <2>1, <2>2, <2>3, <2>4, <2>5 DEF FilesAreSeparate
<1>13. ReferencesAreLive'
  <2>1. \A j \in Ids : cache_blocks'[j] # NoBlock => cache_blocks'[j] \in Live'
    BY <1>4, <1>6 DEF IInv, ReferencesAreLive
  <2>2. ASSUME NEW u \in Busy, u # t
        PROVE  CASE thread'[u].pc = "reading" ->
                      thread'[u].block \in Live' /\ EntryOf(u)' \in {thread'[u].block, NoBlock}
                 [] thread'[u].pc = "initialize" ->
                      EntryOf(u)' = thread'[u].block
                        \/ (EntryOf(u)' = NoBlock /\ thread'[u].block \notin Live')
                 [] OTHER -> EntryOf(u)' = thread'[u].block
    <3>1. thread'[u] = thread[u] /\ EntryOf(u)' = EntryOf(u)
      BY <1>2, <1>6, <1>7, <1>9, <2>2 DEF EntryOf
    <3>2. thread[u].block \in Live' <=> thread[u].block \in Live
      BY <1>4, <1>7, <2>2
    <3>3. QED
      BY <3>1, <3>2 DEF IInv, ReferencesAreLive
  <2>3. EntryOf(t)' = thread'[t].block
    BY <1>2, <1>6, <1>11 DEF EntryOf
  <2>4. QED
    BY <1>2, <1>3, <2>1, <2>2, <2>3 DEF ReferencesAreLive
<1>14. Contents'
  <2>1. Holders(b)' = {t}
    BY <1>1, <1>2, <1>3, <1>7, <1>9, <1>11 DEF Holders
  <2>2. ASSUME NEW c \in Live', c # b
        PROVE  /\ Holders(c)' = Holders(c) /\ c \in Live /\ block'[c] = block[c]
               /\ disk'[c] = disk[c]
               /\ \A u \in Holders(c) : thread'[u] = thread[u]
    <3>1. c \in Live /\ c \in Blocks
      BY <1>4, <2>2 DEF Live
    <3>2. Holders(c)' = Holders(c)
      BY <1>2, <1>3, <1>7, <1>9, <1>11, <2>2, <1>0 DEF Holders
    <3>3. t \notin Holders(c)
      BY <2>2, <1>0 DEF Holders
    <3>4. \A u \in Holders(c) : thread'[u] = thread[u]
      BY <1>2, <3>3 DEF Holders, Busy
    <3>5. QED
      BY <1>0, <1>4, <2>2, <3>1, <3>2, <3>4
  <2>3. ASSUME NEW c \in Live', c # b
        PROVE  LET q == block'[c]
                   cleared == \E u \in Holders(c)' : thread'[u].pc = "initialize"
               IN  /\ ~ q.data => q.capacity = 0
                   /\ q.data => Min2(Initial, q.maximum_capacity) <= q.capacity
                   /\ cleared => ~ q.data /\ ~ q.is_file
                   /\ ~ cleared => /\ q.data => q.size = q.written
                                   /\ q.is_file => disk'[c] = q.written
                                   /\ ~ q.data /\ ~ q.is_file => q.written = 0
                   /\ q.written = 0 => \E u \in Holders(c)' : thread'[u].pc \in {"writing", "extend"}
    BY <2>2, <2>3 DEF IInv, Contents
  <2>4. LET q == block'[b]
            cleared == \E u \in Holders(b)' : thread'[u].pc = "initialize"
        IN  /\ ~ q.data => q.capacity = 0
            /\ q.data => Min2(Initial, q.maximum_capacity) <= q.capacity
            /\ cleared => ~ q.data /\ ~ q.is_file
            /\ ~ cleared => /\ q.data => q.size = q.written
                            /\ q.is_file => disk'[b] = q.written
                            /\ ~ q.data /\ ~ q.is_file => q.written = 0
            /\ q.written = 0 => \E u \in Holders(b)' : thread'[u].pc \in {"writing", "extend"}
    <3>1. WriterContents(r, disk'[b], x.pc)
      BY <1>0
    <3>2. \A u \in Holders(b)' : thread'[u].pc = x.pc
      BY <1>2, <2>1
    <3>3. t \in Holders(b)'
      BY <2>1
    <3>4. QED
      BY <1>4, <3>1, <3>2, <3>3 DEF WriterContents
  <2>5. QED
    BY <2>3, <2>4 DEF Contents
<1>15. ReadingsHold'
  <2>1. ASSUME NEW u \in Busy, u # t
        PROVE  thread'[u] = thread[u] /\ block'[thread[u].block] = block[thread[u].block]
    BY <1>2, <1>4, <1>7, <1>9, <2>1
  <2>2. block'[thread'[t].block] = r /\ thread'[t] = x
    BY <1>2, <1>4, <1>11
  <2>3. QED
    BY <1>3, <2>1, <2>2 DEF IInv, ReadingsHold
<1>16. FilesFollowBlocks'
  <2>1. (disk'[b] # NoFile) <=> (b \in Live' /\ block'[b].is_file)
    BY <1>0, <1>4
  <2>2. ASSUME NEW c \in Blocks, c # b
        PROVE  (disk'[c] # NoFile) <=> (c \in Live' /\ block'[c].is_file)
    BY <1>4, <2>2, <1>0 DEF IInv, FilesFollowBlocks
  <2>3. QED
    BY <2>1, <2>2 DEF FilesFollowBlocks
<1>17. ReadersSeeWhatWasWritten'
  <2>1. ASSUME NEW u \in Using("reading")'
        PROVE  /\ u \in Using("reading") /\ thread'[u] = thread[u]
               /\ thread[u].block \in Live'
               /\ block'[thread[u].block] = block[thread[u].block]
               /\ disk'[thread[u].block] = disk[thread[u].block]
    <3>1. u \in Busy /\ u # t /\ thread'[u] = thread[u]
      BY <1>2, <1>3, <1>9 DEF Using
    <3>2. thread[u].block # b /\ thread[u].block \in Blocks
      BY <1>7, <1>9, <3>1
    <3>3. u \in Using("reading")
      BY <3>1 DEF Using
    <3>4. thread[u].block \in Live
      BY <3>3 DEF IInv, ReadersSeeWhatWasWritten
    <3>5. QED
      BY <1>0, <1>4, <3>1, <3>2, <3>3, <3>4
  <2>2. QED
    BY <2>1 DEF IInv, ReadersSeeWhatWasWritten
<1>18. QED
  BY <1>5, <1>10, <1>12, <1>13, <1>14, <1>15, <1>16, <1>17 DEF IInv

\* What a writer finds.
LEMMA WriterFacts ==
  ASSUME IInv, NEW t \in Writing, thread[t].pc # "initialize"
  PROVE  /\ thread[t].block \in Live /\ t \in Threads /\ thread[t] \in ThreadType
         /\ thread[t].id \in Ids
         /\ WriterContents(block[thread[t].block], disk[thread[t].block], thread[t].pc)
         /\ (disk[thread[t].block] # NoFile) <=> block[thread[t].block].is_file
         /\ cache_blocks = [cache_blocks EXCEPT ![thread[t].id] = thread[t].block]
         /\ thread = [thread EXCEPT ![t] = thread[t]]
<1>0. PICK b \in Blocks, i \in Ids : b = thread[t].block /\ i = thread[t].id
  BY ThreadTyped DEF IInv, Writing
<1>1. t \in Busy /\ t \in Threads /\ thread[t] \in ThreadType
  BY ThreadTyped DEF IInv, Writing
<1>2. b \in Live
  BY <1>0, <1>1, HeldIsLive
<1>3. Holders(b) = {t}
  BY <1>0, <1>1, OwnBlock DEF Holders
<1>4. WriterContents(block[b], disk[b], thread[t].pc)
  <2>1. \A u \in Holders(b) : thread[u].pc = thread[t].pc
    BY <1>3
  <2>2. t \in Holders(b)
    BY <1>3
  <2>3. QED
    BY <1>2, <2>1, <2>2 DEF IInv, Contents, WriterContents
<1>5. (disk[b] # NoFile) <=> block[b].is_file
  BY <1>2 DEF IInv, FilesFollowBlocks
<1>6. cache_blocks[i] = b
  BY <1>0, <1>1 DEF IInv, ReferencesAreLive, EntryOf, Writing
<1>7. cache_blocks = [cache_blocks EXCEPT ![i] = b]
  BY <1>6 DEF IInv, TypeOK
<1>8. thread = [thread EXCEPT ![t] = thread[t]]
  BY <1>1 DEF IInv, TypeOK
<1>9. QED
  BY <1>0, <1>1, <1>2, <1>4, <1>5, <1>7, <1>8

\* The fields of a block after some of them have been changed.
LEMMA FieldsWritten ==
  ASSUME NEW q \in BlockType, NEW w \in Sizes, NEW r, r = [q EXCEPT !.written = w]
  PROVE  /\ r \in BlockType /\ r.maximum_capacity = q.maximum_capacity
         /\ r.capacity = q.capacity /\ r.size = q.size /\ r.written = w
         /\ r.exists = q.exists /\ r.data = q.data /\ r.is_file = q.is_file
BY DEF BlockType

LEMMA FieldsReleased ==
  ASSUME NEW q \in BlockType, NEW f \in BOOLEAN, NEW r, r = [Released(q) EXCEPT !.is_file = f]
  PROVE  /\ r \in BlockType /\ r.maximum_capacity = 0 /\ r.capacity = 0 /\ r.size = 0
         /\ r.written = q.written /\ r.exists = q.exists
         /\ ~ r.data /\ r.is_file = f
<1>1. 0 \in Sizes /\ 0 \in 0 .. PerFile
  BY CacheManagerAssumption DEF Sizes
<1>2. r \in BlockType
  BY <1>1 DEF BlockType, Released
<1>3. /\ r.maximum_capacity = 0 /\ r.capacity = 0 /\ r.size = 0
      /\ r.written = q.written /\ r.exists = q.exists
  BY DEF BlockType, Released
<1>4. ~ r.data
  BY DEF BlockType, Released
<1>5. r.is_file = f
  BY DEF BlockType, Released
<1>6. QED
  BY <1>2, <1>3, <1>4, <1>5

LEMMA WriteFileStep ==
  ASSUME IInv, NEW t \in Threads, NEW n \in WriteSizes, WriteFile(t, n)
  PROVE  IInv'
<1>0. t \in Writing /\ thread[t].pc = "writing"
  BY DEF WriteFile, Writes, Writing, Busy
<1>1. PICK b \in Blocks : b = thread[t].block /\ b \in Live
  BY <1>0, WriterFacts, BlockTyped DEF IInv
<1>2. n \in Nat \ {0} /\ MaxSize \in Nat
  BY CacheManagerAssumption
<1>3. /\ block[b].is_file /\ disk' = [disk EXCEPT ![b] = @ + n]
      /\ block[b].written \in 0 .. MaxSize /\ block[b].written + n <= MaxSize
      /\ disk[b] = block[b].written
  BY <1>0, <1>1, WriterFacts, BlockTyped DEF WriteFile, Writes, WriterContents, IInv, Sizes
<1>4. /\ GoodBlock(block[b]) /\ ~ block[b].data /\ block[b] \in BlockType
  BY <1>1, <1>3, BlockTyped DEF IInv, GoodBlock
<1>5. PICK r : r = [block[b] EXCEPT !.written = block[b].written + n]
  OBVIOUS
<1>6. block' = [block EXCEPT ![b] = r]
  BY <1>1, <1>4, <1>5 DEF WriteFile
<1>7. block[b].written + n \in Sizes
  BY <1>2, <1>3 DEF Sizes
<1>8. /\ r \in BlockType /\ r.maximum_capacity = block[b].maximum_capacity
      /\ r.capacity = block[b].capacity /\ r.size = block[b].size
      /\ r.written = block[b].written + n
      /\ r.exists = block[b].exists /\ r.data = block[b].data /\ r.is_file = block[b].is_file
  BY <1>4, <1>5, <1>7, FieldsWritten
<1>9. GoodBlock(r)
  BY <1>4, <1>8 DEF GoodBlock
<1>10. /\ disk' \in [Blocks -> Sizes \cup {NoFile}] /\ disk'[b] = block[b].written + n
       /\ \A c \in Blocks : c # b => disk'[c] = disk[c]
  BY <1>3, <1>7 DEF IInv, TypeOK
<1>11. disk'[b] # NoFile
  BY <1>2, <1>3, <1>10 DEF NoFile
<1>12. WriterContents(block[b], disk[b], "writing")
  BY <1>0, <1>1, WriterFacts
<1>13. WriterContents(r, disk'[b], "writing")
  BY <1>2, <1>3, <1>4, <1>8, <1>10, <1>12 DEF WriterContents
<1>14. MemoryOf(r) = 0 /\ MemoryOf(block[b]) = 0 /\ current_cache_utilization \in Nat
  BY <1>4, <1>8 DEF MemoryOf, IInv, TypeOK
<1>15. /\ UNCHANGED <<cache_blocks, current_cache_utilization, thread>>
  BY DEF WriteFile
<1>16. /\ thread' = [thread EXCEPT ![t] = thread[t]] /\ thread[t] \in ThreadType
       /\ cache_blocks' = [cache_blocks EXCEPT ![thread[t].id] = b]
  BY <1>0, <1>1, <1>15, WriterFacts
<1>17. current_cache_utilization' = current_cache_utilization - MemoryOf(block[b]) + MemoryOf(r)
  BY <1>14, <1>15
<1>18. (disk'[b] # NoFile) <=> r.is_file
  BY <1>3, <1>8, <1>11
<1>19. QED
  BY <1>0, <1>1, <1>6, <1>9, <1>10, <1>13, <1>16, <1>17, <1>18, WriterStep

LEMMA WriteMemoryStep ==
  ASSUME IInv, NEW t \in Threads, NEW n \in WriteSizes, WriteMemory(t, n)
  PROVE  IInv'
<1>0. t \in Writing /\ thread[t].pc = "writing"
  BY DEF WriteMemory, Writes, Writing, Busy
<1>1. PICK b \in Blocks : b = thread[t].block /\ b \in Live
  BY <1>0, WriterFacts, BlockTyped DEF IInv
<1>2. n \in Nat \ {0} /\ MaxSize \in Nat /\ PerFile \in Nat
  BY CacheManagerAssumption
<1>3. /\ GoodBlock(block[b]) /\ block[b] \in BlockType
      /\ block[b].written \in 0 .. MaxSize /\ block[b].size \in 0 .. MaxSize
  BY <1>1, BlockTyped DEF IInv, GoodBlock, Sizes
<1>4. /\ ~ block[b].is_file /\ block[b].data /\ block[b].size + n <= block[b].capacity
      /\ block[b].written + n <= MaxSize
      /\ UNCHANGED <<cache_blocks, current_cache_utilization, disk, thread>>
  BY <1>1 DEF WriteMemory, Writes, Fits
<1>5. PICK q, z, w, r : /\ q = block[b] /\ z = block[b].size + n /\ w = block[b].written + n
                        /\ r = [q EXCEPT !.size = z, !.written = w]
  OBVIOUS
<1>6. block' = [block EXCEPT ![b] = r]
  BY <1>1, <1>3, <1>5 DEF WriteMemory, BlockType
<1>7. /\ WriterContents(block[b], disk[b], "writing")
      /\ (disk[b] # NoFile) <=> block[b].is_file
  BY <1>0, <1>1, WriterFacts
<1>8. block[b].size = block[b].written
  BY <1>4, <1>7 DEF WriterContents
<1>9. z \in Sizes /\ w \in Sizes
  BY <1>2, <1>3, <1>4, <1>5, <1>8 DEF Sizes
<1>10. /\ r \in BlockType /\ r.maximum_capacity = block[b].maximum_capacity
       /\ r.capacity = block[b].capacity /\ r.size = z /\ r.written = w
       /\ r.exists = block[b].exists /\ r.data = block[b].data /\ r.is_file = block[b].is_file
  <2>1. q \in BlockType
    BY <1>3, <1>5
  <2>2. /\ r \in BlockType /\ r.maximum_capacity = q.maximum_capacity
        /\ r.capacity = q.capacity /\ r.size = z /\ r.written = w
        /\ r.exists = q.exists /\ r.data = q.data /\ r.is_file = q.is_file
    BY <1>5, <1>9, <2>1 DEF BlockType
  <2>3. QED
    BY <1>5, <2>2
<1>11. GoodBlock(r)
  BY <1>3, <1>4, <1>5, <1>10 DEF GoodBlock
<1>12. WriterContents(r, disk'[b], "writing")
  BY <1>2, <1>3, <1>4, <1>5, <1>7, <1>8, <1>10 DEF WriterContents
<1>13. MemoryOf(r) = MemoryOf(block[b])
  BY <1>10 DEF MemoryOf
<1>14. MemoryOf(block[b]) \in Int /\ current_cache_utilization \in Int
  BY <1>2, MemoryTyped DEF IInv, TypeOK
<1>15. /\ thread' = [thread EXCEPT ![t] = thread[t]] /\ thread[t] \in ThreadType
       /\ cache_blocks' = [cache_blocks EXCEPT ![thread[t].id] = b]
  BY <1>0, <1>1, <1>4, WriterFacts
<1>16. (disk'[b] # NoFile) <=> r.is_file
  BY <1>4, <1>7, <1>10
<1>17. current_cache_utilization' = current_cache_utilization - MemoryOf(block[b]) + MemoryOf(r)
  BY <1>4, <1>13, <1>14
<1>18. disk' \in [Blocks -> Sizes \cup {NoFile}] /\ disk' = disk
  BY <1>4 DEF IInv, TypeOK
<1>19. QED
  BY <1>0, <1>1, <1>6, <1>11, <1>12, <1>15, <1>16, <1>17, <1>18, WriterStep

\* extend_capacity() settles on a capacity that is larger than the one the
\* block has, large enough, and not too large for its file.
LEMMA NewCapacityFits ==
  ASSUME NEW q, GoodBlock(q), NEW n \in WriteSizes, ~ Fits(q, n), NewCapacity(q, n) > 0
  PROVE  /\ q.data /\ NewCapacity(q, n) \in 0 .. PerFile
         /\ q.capacity < NewCapacity(q, n) /\ NewCapacity(q, n) <= q.maximum_capacity
         /\ q.size + n <= NewCapacity(q, n)
         /\ Allowed(q, NewCapacity(q, n))
<1>1. /\ n \in Nat \ {0} /\ q.size \in Nat /\ q.capacity \in Nat /\ q.maximum_capacity \in 0 .. PerFile
      /\ PerFile \in Nat
  BY CacheManagerAssumption DEF GoodBlock, BlockType, Sizes
<1>2. q.data /\ q.size + n <= q.maximum_capacity
  BY <1>1 DEF NewCapacity
<1>3. q.capacity < q.size + n
  BY <1>1, <1>2 DEF Fits
<1>4. /\ Doubled(q, n) <= q.maximum_capacity /\ q.size + n <= Doubled(q, n)
      /\ Doubled(q, n) \in Nat
  BY <1>1, <1>2 DEF Doubled, Min2, Max2
<1>5. PICK c \in {Doubled(q, n), q.size + n} : NewCapacity(q, n) = c /\ Allowed(q, c)
  BY <1>1, <1>2 DEF NewCapacity
<1>6. QED
  BY <1>1, <1>2, <1>3, <1>4, <1>5

LEMMA ExtendCheckStep ==
  ASSUME IInv, NEW t \in Threads, NEW n \in WriteSizes, ExtendCheck(t, n)
  PROVE  IInv'
<1>0. t \in Writing /\ thread[t].pc = "writing"
  BY DEF ExtendCheck, Writes, Writing, Busy
<1>1. PICK b \in Blocks : b = thread[t].block /\ b \in Live
  BY <1>0, WriterFacts, BlockTyped DEF IInv
<1>2. PICK c : c = NewCapacity(block[b], n)
  OBVIOUS
<1> DEFINE x == [pc |-> "extend", id |-> thread[t].id, block |-> b, capacity |-> c, size |-> n]
<1>3. GoodBlock(block[b]) /\ ~ Fits(block[b], n) /\ NewCapacity(block[b], n) > 0
  BY <1>1, BlockTyped DEF ExtendCheck, IInv
<1>4. /\ block[b].data /\ c \in 0 .. PerFile
      /\ block[b].capacity < c /\ c <= block[b].maximum_capacity
      /\ block[b].size + n <= c
  BY <1>2, <1>3, NewCapacityFits
<1>5. /\ thread' = [thread EXCEPT ![t] = x] /\ block[b].written + n <= MaxSize
      /\ UNCHANGED <<block, cache_blocks, current_cache_utilization, disk>>
  BY <1>1, <1>2 DEF ExtendCheck, Writes
<1>6. x \in ThreadType
  <2>1. thread[t].id \in Ids
    BY <1>0, WriterFacts
  <2>2. QED
    BY <1>1, <1>4, <2>1 DEF ThreadType
<1>7. x.pc = "extend" /\ x.id = thread[t].id /\ x.block = b /\ x.capacity = c /\ x.size = n
  OBVIOUS
<1> HIDE DEF x
<1>8. block' = [block EXCEPT ![b] = block[b]]
  BY <1>1, <1>5 DEF IInv, TypeOK
<1>9. WriterContents(block[b], disk[b], "writing") /\ ((disk[b] # NoFile) <=> block[b].is_file)
  BY <1>0, <1>1, WriterFacts
<1>10. WriterContents(block[b], disk'[b], "extend")
  BY <1>5, <1>9 DEF WriterContents
<1>11. cache_blocks' = [cache_blocks EXCEPT ![thread[t].id] = b]
  BY <1>0, <1>1, <1>5, WriterFacts
<1>12. MemoryOf(block[b]) \in Int /\ current_cache_utilization \in Int
  BY MemoryTyped DEF IInv, TypeOK
<1>13. current_cache_utilization'
         = current_cache_utilization - MemoryOf(block[b]) + MemoryOf(block[b])
  BY <1>5, <1>12
<1>14. disk' \in [Blocks -> Sizes \cup {NoFile}] /\ disk' = disk
  BY <1>5 DEF IInv, TypeOK
<1>15. QED
  BY <1>0, <1>1, <1>3, <1>4, <1>5, <1>6, <1>7, <1>8, <1>9, <1>10, <1>11, <1>13, <1>14, WriterStep

LEMMA ExtendStep ==
  ASSUME IInv, NEW t \in Threads, Extend(t)
  PROVE  IInv'
<1>0. t \in Writing /\ t \in Busy /\ thread[t].pc = "extend"
  BY DEF Extend, Writing, Busy
<1>1. PICK b \in Blocks : b = thread[t].block /\ b \in Live
  BY <1>0, WriterFacts, BlockTyped DEF IInv
<1>2. PICK c \in 0 .. PerFile, n \in WriteSizes : c = thread[t].capacity /\ n = thread[t].size
  BY <1>0, ThreadTyped DEF IInv
<1>3. n \in Nat \ {0} /\ MaxSize \in Nat /\ PerFile \in Nat /\ c \in Nat
  BY CacheManagerAssumption
<1>4. /\ GoodBlock(block[b]) /\ block[b] \in BlockType /\ block[b].exists = TRUE
      /\ block[b].written \in 0 .. MaxSize /\ block[b].size \in 0 .. MaxSize
      /\ block[b].capacity \in Nat
  <2>1. /\ GoodBlock(block[b]) /\ block[b] \in BlockType /\ block[b].exists = TRUE
        /\ block[b].written \in Sizes /\ block[b].size \in Sizes
        /\ block[b].capacity \in 0 .. PerFile
    BY <1>1, BlockTyped DEF IInv, GoodBlock
  <2>2. block[b].capacity \in Nat
    BY <1>3, <2>1
  <2>3. QED
    BY <2>1, <2>2 DEF Sizes
<1>5. /\ block[b].data /\ block[b].written + n <= MaxSize
      /\ block[b].capacity < c /\ c <= block[b].maximum_capacity
      /\ block[b].size + n <= c
  BY <1>0, <1>1, <1>2 DEF IInv, ReadingsHold
<1>6. /\ WriterContents(block[b], disk[b], "extend")
      /\ (disk[b] # NoFile) <=> block[b].is_file
  BY <1>0, <1>1, WriterFacts
<1>7. block[b].size = block[b].written
  BY <1>5, <1>6 DEF WriterContents
<1>8. PICK q, z, w, r : /\ q = block[b] /\ z = block[b].size + n /\ w = block[b].written + n
                        /\ r = [q EXCEPT !.capacity = c, !.size = z, !.written = w]
  OBVIOUS
<1>9. block' = [block EXCEPT ![b] = r]
  BY <1>1, <1>2, <1>4, <1>8 DEF Extend, BlockType
<1>10. z \in Sizes /\ w \in Sizes
  BY <1>3, <1>4, <1>5, <1>7, <1>8 DEF Sizes
<1>11. /\ r \in BlockType /\ r.maximum_capacity = block[b].maximum_capacity
       /\ r.capacity = c /\ r.size = z /\ r.written = w
       /\ r.exists = block[b].exists /\ r.data = block[b].data /\ r.is_file = block[b].is_file
  <2>1. q \in BlockType
    BY <1>4, <1>8
  <2>2. /\ r \in BlockType /\ r.maximum_capacity = q.maximum_capacity
        /\ r.capacity = c /\ r.size = z /\ r.written = w
        /\ r.exists = q.exists /\ r.data = q.data /\ r.is_file = q.is_file
    BY <1>8, <1>10, <2>1 DEF BlockType
  <2>3. QED
    BY <1>8, <2>2
<1>12. GoodBlock(r)
  BY <1>4, <1>5, <1>8, <1>11 DEF GoodBlock
<1>13. PICK x : x = [pc |-> "writing", id |-> thread[t].id, block |-> b]
  OBVIOUS
<1>14. thread[t].id \in Ids
  BY <1>0, WriterFacts
<1>15. x \in ThreadType /\ x.pc = "writing" /\ x.id = thread[t].id /\ x.block = b
  BY <1>13, <1>14 DEF ThreadType
<1>16. /\ thread' = [thread EXCEPT ![t] = x] /\ disk' = disk
       /\ cache_blocks' = [cache_blocks EXCEPT ![thread[t].id] = b]
       /\ current_cache_utilization' = current_cache_utilization + (c - block[b].capacity)
  BY <1>0, <1>1, <1>2, <1>13, WriterFacts DEF Extend
<1>17. block[b].maximum_capacity \in Nat /\ Initial \in Nat
  <2>1. block[b].maximum_capacity \in 0 .. PerFile
    BY <1>1, BlockTyped DEF IInv
  <2>2. QED
    BY <1>3, <2>1, CacheManagerAssumption
<1>18. WriterContents(r, disk'[b], "writing")
  <2>1. Min2(Initial, r.maximum_capacity) <= r.capacity
    BY <1>4, <1>3, <1>5, <1>6, <1>11, <1>17 DEF WriterContents, Min2
  <2>2. r.data /\ ~ r.is_file
    BY <1>4, <1>5, <1>11 DEF GoodBlock
  <2>3. r.size = r.written /\ r.written # 0
    BY <1>3, <1>4, <1>7, <1>8, <1>11
  <2>4. QED
    BY <2>1, <2>2, <2>3 DEF WriterContents
<1>19. MemoryOf(r) = c /\ MemoryOf(block[b]) = block[b].capacity
  BY <1>4, <1>5, <1>11 DEF MemoryOf
<1>20. current_cache_utilization \in Int
  BY DEF IInv, TypeOK
<1>21. current_cache_utilization' = current_cache_utilization - MemoryOf(block[b]) + MemoryOf(r)
  BY <1>3, <1>4, <1>16, <1>19, <1>20
<1>22. (disk'[b] # NoFile) <=> r.is_file
  BY <1>6, <1>11, <1>16
<1>23. disk' \in [Blocks -> Sizes \cup {NoFile}]
  BY <1>16 DEF IInv, TypeOK
<1>24. QED
  BY <1>0, <1>1, <1>9, <1>12, <1>15, <1>16, <1>18, <1>21, <1>22, <1>23, WriterStep

LEMMA SpillStep ==
  ASSUME IInv, NEW t \in Threads, NEW n \in WriteSizes, Spill(t, n)
  PROVE  IInv'
<1>0. t \in Writing /\ thread[t].pc = "writing"
  BY DEF Spill, Writes, Writing, Busy
<1>1. PICK b \in Blocks : b = thread[t].block /\ b \in Live
  BY <1>0, WriterFacts, BlockTyped DEF IInv
<1>2. n \in Nat \ {0} /\ MaxSize \in Nat
  BY CacheManagerAssumption
<1>3. /\ GoodBlock(block[b]) /\ block[b] \in BlockType
      /\ block[b].written \in 0 .. MaxSize /\ block[b].size \in 0 .. MaxSize
      /\ block[b].size <= block[b].capacity
  BY <1>1, BlockTyped DEF IInv, GoodBlock, Sizes
<1>4. /\ ~ block[b].is_file /\ block[b].written + n <= MaxSize
      /\ current_cache_utilization' = current_cache_utilization - MemoryOf(block[b])
      /\ disk' = [disk EXCEPT ![b] = block[b].size + n]
      /\ UNCHANGED <<cache_blocks, thread>>
  BY <1>1 DEF Spill, Writes
<1>5. /\ WriterContents(block[b], disk[b], "writing")
  BY <1>0, <1>1, WriterFacts
<1>6. block[b].size = block[b].written
  BY <1>3, <1>4, <1>5 DEF WriterContents
<1>7. PICK q : q = ToFile(b)
  OBVIOUS
<1>8. /\ q \in BlockType /\ q.maximum_capacity = 0 /\ q.capacity = 0 /\ q.size = 0
      /\ q.written = block[b].written /\ ~ q.data /\ q.is_file = TRUE
  BY <1>3, <1>7, FieldsReleased DEF ToFile
<1>9. PICK r : r = [q EXCEPT !.written = block[b].written + n]
  OBVIOUS
<1>10. block[b].written + n \in Sizes
  BY <1>2, <1>3, <1>4 DEF Sizes
<1>11. /\ r \in BlockType /\ r.maximum_capacity = 0 /\ r.capacity = 0 /\ r.size = 0
       /\ r.written = block[b].written + n /\ r.data = q.data /\ r.is_file = q.is_file
  BY <1>8, <1>9, <1>10, FieldsWritten
<1>12. ~ r.data /\ r.is_file
  BY <1>8, <1>11
<1>13. block' = [block EXCEPT ![b] = r]
  BY <1>1, <1>7, <1>8, <1>9 DEF Spill
<1>14. GoodBlock(r)
  BY <1>11, <1>12 DEF GoodBlock
<1>15. /\ disk' \in [Blocks -> Sizes \cup {NoFile}] /\ disk'[b] = block[b].written + n
       /\ \A c \in Blocks : c # b => disk'[c] = disk[c]
  BY <1>4, <1>6, <1>10 DEF IInv, TypeOK
<1>16. disk'[b] # NoFile
  BY <1>2, <1>3, <1>15 DEF NoFile
<1>17. WriterContents(r, disk'[b], "writing")
  BY <1>2, <1>3, <1>11, <1>12, <1>15 DEF WriterContents
<1>18. MemoryOf(r) = 0
  BY <1>12 DEF MemoryOf
<1>19. MemoryOf(block[b]) \in Int /\ current_cache_utilization \in Int
  BY MemoryTyped DEF IInv, TypeOK
<1>20. /\ thread' = [thread EXCEPT ![t] = thread[t]] /\ thread[t] \in ThreadType
       /\ cache_blocks' = [cache_blocks EXCEPT ![thread[t].id] = b]
  BY <1>0, <1>1, <1>4, WriterFacts
<1>21. current_cache_utilization' = current_cache_utilization - MemoryOf(block[b]) + MemoryOf(r)
  BY <1>4, <1>18, <1>19
<1>22. QED
  BY <1>0, <1>1, <1>12, <1>13, <1>14, <1>15, <1>16, <1>17, <1>20, <1>21, WriterStep

LEMMA ClearStep ==
  ASSUME IInv, NEW t \in Threads, Clear(t)
  PROVE  IInv'
<1>0. t \in Writing /\ t \in Busy /\ thread[t].pc = "clear"
  BY DEF Clear, Writing, Busy
<1>1. PICK b \in Blocks : b = thread[t].block /\ b \in Live
  BY <1>0, WriterFacts, BlockTyped DEF IInv
<1>2. block[b] \in BlockType
  BY <1>1, BlockTyped DEF IInv, GoodBlock
<1>3. /\ current_cache_utilization' = current_cache_utilization - MemoryOf(block[b])
      /\ disk' = [disk EXCEPT ![b] = NoFile]
      /\ UNCHANGED cache_blocks
  BY <1>1 DEF Clear
<1>4. WriterContents(block[b], disk[b], "clear")
  BY <1>0, <1>1, WriterFacts
<1>5. PICK r : r = [Released(block[b]) EXCEPT !.is_file = FALSE]
  OBVIOUS
<1>6. /\ r \in BlockType /\ r.maximum_capacity = 0 /\ r.capacity = 0 /\ r.size = 0
      /\ r.written = block[b].written /\ ~ r.data /\ r.is_file = FALSE
  BY <1>2, <1>5, FieldsReleased
<1>7. GoodBlock(r) /\ ~ r.data /\ ~ r.is_file
  BY <1>6 DEF GoodBlock
<1>8. block' = [block EXCEPT ![b] = r]
  BY <1>1, <1>5 DEF Clear, IInv, TypeOK
<1>9. /\ disk' \in [Blocks -> Sizes \cup {NoFile}] /\ disk'[b] = NoFile
      /\ \A c \in Blocks : c # b => disk'[c] = disk[c]
  BY <1>3 DEF IInv, TypeOK
<1>10. WriterContents(r, disk'[b], "initialize")
  BY <1>4, <1>6, <1>7 DEF WriterContents
<1>11. MemoryOf(r) = 0
  BY <1>7 DEF MemoryOf
<1>12. MemoryOf(block[b]) \in Int /\ current_cache_utilization \in Int
  BY MemoryTyped DEF IInv, TypeOK
<1>13. PICK x : x = [thread[t] EXCEPT !.pc = "initialize"]
  OBVIOUS
<1>14. thread[t] \in [pc : {"clear", "initialize"}, id : Ids, block : Blocks, max : 0 .. PerFile]
  BY <1>0, ThreadTyped DEF IInv, ThreadType, Idle
<1>15. /\ x \in [pc : {"clear", "initialize"}, id : Ids, block : Blocks, max : 0 .. PerFile]
       /\ x.pc = "initialize" /\ x.id = thread[t].id /\ x.block = b
  BY <1>1, <1>13, <1>14
<1>16. x \in ThreadType
  BY <1>15 DEF ThreadType
<1>17. thread' = [thread EXCEPT ![t] = x]
  BY <1>13 DEF Clear, IInv, TypeOK
<1>18. cache_blocks' = [cache_blocks EXCEPT ![thread[t].id] = b]
  BY <1>0, <1>1, <1>3, WriterFacts
<1>19. current_cache_utilization' = current_cache_utilization - MemoryOf(block[b]) + MemoryOf(r)
  BY <1>3, <1>11, <1>12
<1>20. QED
  BY <1>0, <1>1, <1>7, <1>8, <1>9, <1>10, <1>15, <1>16, <1>17, <1>18, <1>19, WriterStep

LEMMA FieldsOf ==
  ASSUME NEW m \in 0 .. PerFile, NEW c \in 0 .. PerFile, NEW d \in BOOLEAN, NEW r,
         r = [exists |-> TRUE, maximum_capacity |-> m, capacity |-> c, size |-> 0,
              data |-> d, is_file |-> FALSE, written |-> 0]
  PROVE  /\ r \in BlockType /\ r.maximum_capacity = m /\ r.capacity = c /\ r.size = 0
         /\ r.written = 0 /\ r.data = d /\ ~ r.is_file /\ r.exists
<1>1. 0 \in Sizes
  BY CacheManagerAssumption DEF Sizes
<1>2. r \in BlockType
  BY <1>1 DEF BlockType
<1>3. r.maximum_capacity = m /\ r.capacity = c /\ r.size = 0 /\ r.written = 0
  OBVIOUS
<1>4. r.data = d
  OBVIOUS
<1>5. ~ r.is_file
  OBVIOUS
<1>6. r.exists
  OBVIOUS
<1>7. QED
  BY <1>2, <1>3, <1>4, <1>5, <1>6

LEMMA InitializeMemoryStep ==
  ASSUME IInv, NEW t \in Threads, InitializeMemory(t)
  PROVE  IInv'
<1>0. t \in Writing /\ t \in Busy /\ thread[t].pc = "initialize"
  BY DEF InitializeMemory, Writing, Busy
<1>1. PICK b \in Blocks, i \in Ids, m \in 0 .. PerFile :
        b = thread[t].block /\ i = thread[t].id /\ m = thread[t].max
  BY <1>0, ThreadTyped DEF IInv
<1>2. PICK c : c = Min2(Initial, m)
  OBVIOUS
<1>3. c \in 0 .. PerFile /\ c <= m /\ (c > 0 <=> m > 0) /\ c \in Nat /\ m \in Nat
  BY <1>2, CacheManagerAssumption DEF Min2
<1>4. PICK r, d : /\ d = (c > 0)
                  /\ r = [exists |-> TRUE, maximum_capacity |-> m, capacity |-> c, size |-> 0,
                          data |-> d, is_file |-> FALSE, written |-> 0]
  OBVIOUS
<1>5. d \in BOOLEAN
  BY <1>4
<1>6. /\ r \in BlockType /\ r.maximum_capacity = m /\ r.capacity = c /\ r.size = 0
      /\ r.written = 0 /\ r.data = d /\ ~ r.is_file /\ r.exists
  BY <1>3, <1>4, <1>5, FieldsOf
<1>7. GoodBlock(r)
  BY <1>3, <1>6 DEF GoodBlock
<1>8. /\ block' = [block EXCEPT ![b] = r]
      /\ cache_blocks' = [cache_blocks EXCEPT ![i] = b]
      /\ current_cache_utilization' = current_cache_utilization + c
      /\ thread' = [thread EXCEPT ![t] = [pc |-> "writing", id |-> i, block |-> b]]
      /\ disk' = disk
  BY <1>1, <1>2, <1>4 DEF InitializeMemory
<1>9. MemoryOf(block[b]) = 0 /\ disk[b] = NoFile
  <2>1. CASE b \in Live
    <3>1. t \in Holders(b)
      BY <1>0, <1>1 DEF Holders
    <3>2. ~ block[b].data /\ ~ block[b].is_file
      BY <1>0, <2>1, <3>1 DEF IInv, Contents
    <3>3. QED
      BY <3>2 DEF MemoryOf, IInv, FilesFollowBlocks
  <2>2. CASE b \notin Live
    BY <2>2, MemoryTyped DEF IInv, FilesFollowBlocks
  <2>3. QED
    BY <2>1, <2>2
<1>10. MemoryOf(r) = c /\ (~ d => c = 0)
  <2>1. CASE d
    BY <1>6, <2>1 DEF MemoryOf
  <2>2. CASE ~ d
    <3>1. ~ (c > 0)
      BY <1>4, <2>2
    <3>2. c = 0
      BY <1>3, <3>1
    <3>3. MemoryOf(r) = 0
      BY <1>6, <2>2 DEF MemoryOf
    <3>4. QED
      BY <3>2, <3>3
  <2>3. QED
    BY <1>5, <2>1, <2>2
<1>11. WriterContents(r, disk'[b], "writing")
  <2>1. Min2(Initial, r.maximum_capacity) <= r.capacity
    BY <1>2, <1>3, <1>6
  <2>2. ~ r.data => r.capacity = 0
    BY <1>6, <1>10
  <2>3. QED
    BY <1>6, <2>1, <2>2 DEF WriterContents
<1>12. PICK x : x = [pc |-> "writing", id |-> i, block |-> b]
  OBVIOUS
<1>13. x \in ThreadType /\ x.pc = "writing" /\ x.id = thread[t].id /\ x.block = b
  BY <1>1, <1>12 DEF ThreadType
<1>14. current_cache_utilization' = current_cache_utilization - MemoryOf(block[b]) + MemoryOf(r)
  <2>1. current_cache_utilization \in Int
    BY DEF IInv, TypeOK
  <2>2. QED
    BY <1>3, <1>8, <1>9, <1>10, <2>1
<1>15. disk' \in [Blocks -> Sizes \cup {NoFile}] /\ disk' = disk
  BY <1>8 DEF IInv, TypeOK
<1>16. (disk'[b] # NoFile) <=> r.is_file
  BY <1>6, <1>8, <1>9
<1>17. /\ thread' = [thread EXCEPT ![t] = x] /\ block' = [block EXCEPT ![b] = r]
       /\ cache_blocks' = [cache_blocks EXCEPT ![thread[t].id] = b]
       /\ b = thread[t].block
  BY <1>1, <1>8, <1>12
<1>18. QED
  BY <1>0, <1>7, <1>11, <1>13, <1>14, <1>15, <1>16, <1>17, WriterStep

-----------------------------------------------------------------------------
(* A step that drops references, and destroys what nobody refers to.       *)

\* The memory of the blocks that die leaves the count.
LEMMA DeadCounts ==
  ASSUME TypeOK, UtilizationIsExact, NEW D \in SUBSET Blocks,
         block' = [b \in Blocks |-> IF b \in D THEN Unused ELSE block[b]],
         current_cache_utilization' = current_cache_utilization
           - SumFunction([b \in D |-> MemoryOf(block[b])])
  PROVE  UtilizationIsExact' /\ current_cache_utilization' \in Nat
<1> DEFINE f == [c \in Blocks |-> MemoryOf(block[c])]
           g == [c \in Blocks |-> MemoryOf(block'[c])]
           h == [c \in D |-> MemoryOf(block[c])]
<1>1. \A c \in Blocks \ D : block'[c] = block[c]
  OBVIOUS
<1>2. \A c \in D : c \in Blocks /\ block'[c] = Unused
  OBVIOUS
<1>3. MemoryOf(Unused) = 0
  BY DEF MemoryOf, Unused
<1>4. \A c \in Blocks : f[c] \in 0 .. PerFile
  BY MemoryTyped
<1>5. (\A c \in D : g[c] \in 0 .. 0) /\ \A c \in Blocks \ D : g[c] = f[c]
  BY <1>1, <1>2, <1>3
<1>6. \A c \in Blocks : g[c] \in 0 .. PerFile
  <2>1. 0 \in 0 .. PerFile
    BY CacheManagerAssumption
  <2>2. \A c \in D : g[c] = 0
    BY <1>2, <1>3
  <2> HIDE DEF f, g
  <2>3. QED
    BY <1>4, <1>5, <2>1, <2>2
<1>7. (\A c \in D : h[c] = f[c]) /\ DOMAIN f = Blocks /\ DOMAIN g = Blocks /\ DOMAIN h = D
  OBVIOUS
<1>8. /\ current_cache_utilization = SumFunction(f)
      /\ current_cache_utilization' = current_cache_utilization - SumFunction(h)
      /\ UtilizationIsExact' <=> current_cache_utilization' = SumFunction(g)
  BY DEF UtilizationIsExact
<1> HIDE DEF f, g, h
<1>9. Summable(f, Blocks) /\ Summable(g, Blocks)
  BY <1>4, <1>6, BlocksFinite, CacheManagerAssumption DEF Summable
<1>10. Summable(f, Blocks \ D) /\ Summable(f, D) /\ Summable(g, D)
  BY <1>9, SubsetSummable
<1>11. /\ SumFunctionOnSet(f, Blocks) = SumFunctionOnSet(f, Blocks \ D) + SumFunctionOnSet(f, D)
       /\ SumFunctionOnSet(g, Blocks) = SumFunctionOnSet(g, Blocks \ D) + SumFunctionOnSet(g, D)
  BY <1>9, SumSplit
<1>12. SumFunctionOnSet(g, Blocks \ D) = SumFunctionOnSet(f, Blocks \ D)
  BY <1>5, <1>10, SumSame
<1>13. SumFunctionOnSet(h, D) = SumFunctionOnSet(f, D)
  BY <1>7, <1>10, SumSame
<1>14. SumFunctionOnSet(g, D) = 0
  <2>1. SumFunctionOnSet(g, D) \in 0 .. Cardinality(D) * 0
    BY <1>5, <1>10, SumBound DEF Summable
  <2>2. Cardinality(D) \in Nat
    BY <1>10, FS_CardinalityType DEF Summable
  <2>3. QED
    BY <2>1, <2>2
<1>15. SumFunctionOnSet(f, Blocks \ D) \in Int /\ SumFunctionOnSet(f, D) \in Int
  BY <1>10, SumType
<1>16. SumFunctionOnSet(g, Blocks) \in Nat
  <2>1. SumFunctionOnSet(g, Blocks) \in 0 .. Cardinality(Blocks) * PerFile
    BY <1>6, BlocksFinite, SumBound, CacheManagerAssumption
  <2>2. QED
    BY <2>1
<1>17. /\ SumFunction(f) = SumFunctionOnSet(f, Blocks) /\ SumFunction(g) = SumFunctionOnSet(g, Blocks)
       /\ SumFunction(h) = SumFunctionOnSet(h, D)
  BY <1>7 DEF SumFunction
<1>18. current_cache_utilization' = SumFunction(g)
  BY <1>8, <1>11, <1>12, <1>13, <1>14, <1>15, <1>17
<1>19. QED
  BY <1>8, <1>16, <1>17, <1>18

LEMMA DestroyStep ==
  ASSUME IInv, NEW t \in Busy, NEW m \in [Ids -> Blocks \cup {NoBlock}],
         thread[t].pc \in {"writing", "reading", "free"},
         thread[t].pc = "writing" => block[thread[t].block].written # 0,
         \A j \in Ids : \/ m[j] = cache_blocks[j]
                        \/ m[j] = NoBlock /\ j = thread[t].id /\ thread[t].pc = "free",
         Destroy(m, [thread EXCEPT ![t] = Idle])
  PROVE  IInv'
<1>1. PICK D : D = Dead(m, [thread EXCEPT ![t] = Idle])
  OBVIOUS
<1>2. /\ cache_blocks' = m /\ thread' = [thread EXCEPT ![t] = Idle]
      /\ block' = [b \in Blocks |-> IF b \in D THEN Unused ELSE block[b]]
      /\ disk' = [b \in Blocks |-> IF b \in D THEN NoFile ELSE disk[b]]
      /\ current_cache_utilization' = current_cache_utilization
            - SumFunction([b \in D |-> MemoryOf(block[b])])
  BY <1>1 DEF Destroy
<1>3. \A u \in Busy : u \in Threads /\ thread[u].block \in Blocks /\ thread[u].id \in Ids
  BY ThreadTyped DEF IInv
<1>4. /\ \A u \in Threads \ {t} : thread'[u] = thread[u]
      /\ t \in Threads /\ thread'[t] = Idle /\ thread' \in [Threads -> ThreadType]
      /\ Idle.pc = "idle"
  BY <1>2, <1>3 DEF IInv, TypeOK, ThreadType, Idle
<1>5. Busy' = Busy \ {t} /\ \A u \in Busy' : thread'[u] = thread[u]
  BY <1>4 DEF Busy
<1>6. /\ D \subseteq Blocks
      /\ \A u \in Busy' : thread[u].block \notin D
      /\ \A j \in Ids : m[j] \notin D
  BY <1>1, <1>2, <1>3, <1>5 DEF Dead, Busy
<1>7. /\ \A c \in D : block'[c] = Unused /\ disk'[c] = NoFile
      /\ \A c \in Blocks \ D : block'[c] = block[c] /\ disk'[c] = disk[c]
  BY <1>2, <1>6
<1>8. Live' = Live \ D
  <2>1. ~ Unused.exists
    BY DEF Unused
  <2>2. QED
    BY <1>6, <1>7, <2>1 DEF Live
<1>9. UtilizationIsExact' /\ current_cache_utilization' \in Nat
  BY <1>2, <1>6, DeadCounts DEF IInv
<1>10. TypeOK'
  <2>1. block' \in [Blocks -> BlockType \cup {Unused}]
    BY <1>2 DEF IInv, TypeOK
  <2>2. disk' \in [Blocks -> Sizes \cup {NoFile}]
    BY <1>2 DEF IInv, TypeOK
  <2>3. \A c \in Live' : /\ block'[c].size <= block'[c].capacity
                        /\ block'[c].capacity <= block'[c].maximum_capacity
                        /\ ~ (block'[c].data /\ block'[c].is_file)
    BY <1>7, <1>8 DEF IInv, TypeOK, Live
  <2>4. QED
    BY <1>2, <1>4, <1>9, <2>1, <2>2, <2>3 DEF TypeOK
<1>11. FilesAreSeparate'
  <2>1. \A i, j \in Ids : cache_blocks'[i] # NoBlock /\ cache_blocks'[i] = cache_blocks'[j] => i = j
    BY <1>2 DEF IInv, FilesAreSeparate
  <2>2. \A u \in Busy' : \A i \in Ids : cache_blocks'[i] = thread'[u].block => i = thread'[u].id
    BY <1>2, <1>3, <1>5 DEF IInv, FilesAreSeparate, NoBlock, Blocks
  <2>3. \A u, v \in Busy' : thread'[u].block = thread'[v].block => thread'[u].id = thread'[v].id
    BY <1>5 DEF IInv, FilesAreSeparate
  <2>4. \A u \in Writing' : \A v \in Busy' : thread'[v].id = thread'[u].id => v = u
    BY <1>5 DEF IInv, FilesAreSeparate, Writing
  <2>5. \A u \in Using("free")' : \A v \in Busy' :
          thread'[v].id = thread'[u].id => v = u \/ thread'[v].pc = "reading"
    BY <1>5 DEF IInv, FilesAreSeparate, Using
  <2>6. QED
    BY <2>1, <2>2, <2>3, <2>4, <2>5 DEF FilesAreSeparate
<1>12. ReferencesAreLive'
  <2>1. \A j \in Ids : cache_blocks'[j] # NoBlock => cache_blocks'[j] \in Live'
    BY <1>2, <1>6, <1>8 DEF IInv, ReferencesAreLive
  <2>2. ASSUME NEW u \in Busy'
        PROVE  CASE thread'[u].pc = "reading" ->
                      thread'[u].block \in Live' /\ EntryOf(u)' \in {thread'[u].block, NoBlock}
                 [] thread'[u].pc = "initialize" ->
                      EntryOf(u)' = thread'[u].block
                        \/ (EntryOf(u)' = NoBlock /\ thread'[u].block \notin Live')
                 [] OTHER -> EntryOf(u)' = thread'[u].block
    <3>1. u \in Busy /\ u # t /\ thread'[u] = thread[u] /\ thread[u].id \in Ids
      BY <1>3, <1>5
    <3>2. \/ EntryOf(u)' = EntryOf(u)
          \/ EntryOf(u)' = NoBlock /\ thread[u].id = thread[t].id /\ thread[t].pc = "free"
      BY <1>2, <3>1 DEF EntryOf
    <3>3. thread[u].pc # "reading" => EntryOf(u)' = EntryOf(u)
      BY <3>1, <3>2 DEF IInv, FilesAreSeparate, Using
    <3>4. thread[u].block \in Live' <=> thread[u].block \in Live
      BY <1>6, <1>8
    <3>5. CASE thread[u].pc = "reading"
      <4>1. thread[u].block \in Live /\ EntryOf(u) \in {thread[u].block, NoBlock}
        BY <3>1, <3>5 DEF IInv, ReferencesAreLive
      <4>2. QED
        BY <3>1, <3>2, <3>4, <3>5, <4>1
    <3>6. CASE thread[u].pc # "reading"
      BY <3>1, <3>3, <3>4, <3>6 DEF IInv, ReferencesAreLive
    <3>7. QED
      BY <3>5, <3>6
  <2>3. QED
    BY <2>1, <2>2 DEF ReferencesAreLive
<1>13. Contents'
  <2>1. ASSUME NEW c \in Live'
        PROVE  /\ c \in Live /\ block'[c] = block[c] /\ disk'[c] = disk[c]
               /\ Holders(c)' = Holders(c) \ {t}
               /\ \A u \in Holders(c)' : thread'[u] = thread[u]
    <3>1. c \in Live /\ c \in Blocks \ D
      BY <1>8 DEF Live
    <3>2. Holders(c)' = Holders(c) \ {t}
      BY <1>5 DEF Holders
    <3>3. \A u \in Holders(c)' : thread'[u] = thread[u]
      BY <1>5 DEF Holders
    <3>4. QED
      BY <1>7, <3>1, <3>2, <3>3
  <2>2. ASSUME NEW c \in Live', block[c].written = 0
        PROVE  \E u \in Holders(c)' : thread'[u].pc \in {"writing", "extend"}
    <3>1. PICK u \in Holders(c) : thread[u].pc \in {"writing", "extend"}
      BY <2>1, <2>2 DEF IInv, Contents
    <3>2. u # t
      BY <2>2, <3>1 DEF Holders
    <3>3. QED
      BY <2>1, <3>1, <3>2
  <2>3. ASSUME NEW c \in Live'
        PROVE  (\E u \in Holders(c)' : thread'[u].pc = "initialize")
                 <=> (\E u \in Holders(c) : thread[u].pc = "initialize")
    BY <2>1
  <2>4. QED
    BY <2>1, <2>2, <2>3 DEF IInv, Contents
<1>14. ReadingsHold'
  <2>1. \A u \in Busy' : u \in Busy /\ thread'[u] = thread[u] /\ block'[thread[u].block] = block[thread[u].block]
    BY <1>3, <1>5, <1>6, <1>7
  <2>2. QED
    BY <2>1 DEF IInv, ReadingsHold
<1>15. FilesFollowBlocks'
  BY <1>6, <1>7, <1>8 DEF IInv, FilesFollowBlocks
<1>16. ReadersSeeWhatWasWritten'
  <2>1. ASSUME NEW u \in Using("reading")'
        PROVE  /\ u \in Using("reading") /\ thread'[u] = thread[u]
               /\ thread[u].block \in Live'
               /\ block'[thread[u].block] = block[thread[u].block]
               /\ disk'[thread[u].block] = disk[thread[u].block]
    <3>1. u \in Busy' /\ thread'[u] = thread[u] /\ u \in Using("reading")
      BY <1>5 DEF Using
    <3>2. thread[u].block \in Live
      BY <3>1 DEF IInv, ReadersSeeWhatWasWritten
    <3>3. thread[u].block \in Blocks \ D
      BY <1>3, <1>5, <1>6, <3>1
    <3>4. QED
      BY <1>7, <1>8, <3>1, <3>2, <3>3
  <2>2. QED
    BY <2>1 DEF IInv, ReadersSeeWhatWasWritten
<1>17. QED
  BY <1>9, <1>10, <1>11, <1>12, <1>13, <1>14, <1>15, <1>16 DEF IInv

LEMMA CloseSinkStep ==
  ASSUME IInv, NEW t \in Threads, CloseSink(t)
  PROVE  IInv'
<1>1. /\ t \in Busy /\ thread[t].pc = "writing"
      /\ Destroy(cache_blocks, [thread EXCEPT ![t] = Idle])
  BY DEF CloseSink, Busy
<1>2. block[thread[t].block].written # 0
  <2>1. block[thread[t].block].written > 0
    BY DEF CloseSink
  <2>2. QED
    BY <2>1
<1>3. cache_blocks \in [Ids -> Blocks \cup {NoBlock}]
  BY DEF IInv, TypeOK
<1>4. QED
  BY <1>1, <1>2, <1>3, DestroyStep

LEMMA CloseSourceStep ==
  ASSUME IInv, NEW t \in Threads, CloseSource(t)
  PROVE  IInv'
<1>1. /\ t \in Busy /\ thread[t].pc = "reading"
      /\ Destroy(cache_blocks, [thread EXCEPT ![t] = Idle])
  BY DEF CloseSource, Busy
<1>2. cache_blocks \in [Ids -> Blocks \cup {NoBlock}]
  BY DEF IInv, TypeOK
<1>3. QED
  BY <1>1, <1>2, DestroyStep

LEMMA FreeStep ==
  ASSUME IInv, NEW t \in Threads, Free(t)
  PROVE  IInv'
<1>1. PICK m : m = [cache_blocks EXCEPT ![thread[t].id] = NoBlock]
  OBVIOUS
<1>2. t \in Busy /\ thread[t].pc = "free" /\ Destroy(m, [thread EXCEPT ![t] = Idle])
  BY <1>1 DEF Free, Busy
<1>3. PICK i \in Ids : i = thread[t].id
  BY <1>2, ThreadTyped DEF IInv
<1>4. /\ m \in [Ids -> Blocks \cup {NoBlock}]
      /\ \A j \in Ids : m[j] = cache_blocks[j] \/ (m[j] = NoBlock /\ j = thread[t].id)
  <2>1. m = [cache_blocks EXCEPT ![i] = NoBlock]
    BY <1>1, <1>3
  <2>2. /\ m \in [Ids -> Blocks \cup {NoBlock}]
        /\ \A j \in Ids : m[j] = cache_blocks[j] \/ (m[j] = NoBlock /\ j = i)
    BY <2>1 DEF IInv, TypeOK
  <2>3. QED
    BY <1>3, <2>2
<1>5. QED
  BY <1>2, <1>4, DestroyStep

-----------------------------------------------------------------------------
(* A step in which a thread starts to use a file, and may evict a block.   *)

\* Only a block that nobody uses may have moved to its file.
Moved ==
  /\ block' \in [Blocks -> BlockType \cup {Unused}] /\ Live' = Live
  /\ \A c \in Live' : /\ block'[c].size <= block'[c].capacity
                      /\ block'[c].capacity <= block'[c].maximum_capacity
                      /\ ~ (block'[c].data /\ block'[c].is_file)
  /\ disk' \in [Blocks -> Sizes \cup {NoFile}]
  /\ UtilizationIsExact' /\ current_cache_utilization' \in Nat /\ FilesFollowBlocks'
  /\ \A u \in Busy : /\ block'[thread[u].block] = block[thread[u].block]
                     /\ disk'[thread[u].block] = disk[thread[u].block]
  /\ \A c \in Live : Holders(c) = {} => WriterContents(block'[c], disk'[c], "free")

\* The content of a block that nobody writes.
LEMMA UnheldContents ==
  ASSUME IInv, NEW c \in Live, \A u \in Holders(c) : u \notin Writing
  PROVE  WriterContents(block[c], disk[c], "free")
<1>1. \A u \in Holders(c) : thread[u].pc \notin {"initialize", "writing", "extend"}
  BY DEF Holders, Writing
<1>2. QED
  BY <1>1 DEF IInv, Contents, WriterContents

LEMMA StayMoves ==
  ASSUME IInv, UNCHANGED <<block, disk, current_cache_utilization>>
  PROVE  Moved
<1>1. Live' = Live
  BY DEF Live
<1>2. \A c \in Live : Holders(c) = {} => WriterContents(block[c], disk[c], "free")
  BY UnheldContents
<1>3. UtilizationIsExact'
  BY DEF IInv, UtilizationIsExact
<1>4. FilesFollowBlocks'
  BY <1>1 DEF IInv, FilesFollowBlocks
<1>5. QED
  BY <1>1, <1>2, <1>3, <1>4 DEF Moved, IInv, TypeOK

LEMMA EvictMoves ==
  ASSUME IInv, Evict
  PROVE  Moved
<1>1. CASE current_cache_utilization >= Maximum /\ Evictable # {}
  <2>1. PICK e \in Evictable :
           /\ block' = [block EXCEPT ![e] = ToFile(e)]
           /\ disk' = [disk EXCEPT ![e] = block[e].size]
           /\ current_cache_utilization' = current_cache_utilization - MemoryOf(block[e])
    BY <1>1 DEF Evict
  <2>2. e \in Blocks /\ e \in Live /\ Holders(e) = {} /\ ~ block[e].is_file /\ block[e].size > 0
    BY <2>1 DEF Evictable, is_pointer, IInv, ReferencesAreLive, NoBlock, Blocks
  <2>3. /\ GoodBlock(block[e]) /\ block[e] \in BlockType /\ block[e].size \in Sizes
        /\ block[e].capacity \in 0 .. PerFile /\ block[e].size <= block[e].capacity
    BY <2>2, BlockTyped DEF IInv, GoodBlock
  <2>4. WriterContents(block[e], disk[e], "free")
    BY <2>2, UnheldContents
  <2>5. block[e].capacity # 0 /\ block[e].size # 0
    BY <2>2, <2>3, CacheManagerAssumption DEF Sizes
  <2>6. block[e].data /\ block[e].size = block[e].written
    BY <2>4, <2>5 DEF WriterContents
  <2>7. PICK r : r = ToFile(e)
    OBVIOUS
  <2>8. /\ r \in BlockType /\ r.maximum_capacity = 0 /\ r.capacity = 0 /\ r.size = 0
        /\ r.written = block[e].written /\ ~ r.data /\ r.is_file = TRUE
    BY <2>3, <2>7, FieldsReleased DEF ToFile
  <2>9. GoodBlock(r) /\ r.is_file
    BY <2>8 DEF GoodBlock
  <2>10. block' = [block EXCEPT ![e] = r]
    BY <2>1, <2>7
  <2>11. /\ block' \in [Blocks -> BlockType \cup {Unused}]
         /\ block'[e] = r /\ \A c \in Blocks \ {e} : block'[c] = block[c]
         /\ Live' = Live \cup {e}
         /\ \A c \in Live' : /\ block'[c].size <= block'[c].capacity
                             /\ block'[c].capacity <= block'[c].maximum_capacity
                             /\ ~ (block'[c].data /\ block'[c].is_file)
    BY <2>2, <2>9, <2>10, OneBlock DEF IInv
  <2>12. UtilizationIsExact' /\ current_cache_utilization' \in Nat
    <3>1. MemoryOf(r) = 0
      BY <2>8 DEF MemoryOf
    <3>2. MemoryOf(block[e]) \in Int /\ current_cache_utilization \in Int
      BY <2>2, MemoryTyped DEF IInv, TypeOK
    <3>3. current_cache_utilization' = current_cache_utilization - MemoryOf(block[e]) + MemoryOf(r)
      BY <2>1, <3>1, <3>2
    <3>4. QED
      BY <2>2, <2>9, <2>10, <3>3, OneBlockCounts DEF IInv
  <2>13. /\ disk' \in [Blocks -> Sizes \cup {NoFile}] /\ disk'[e] = r.written
         /\ \A c \in Blocks \ {e} : disk'[c] = disk[c]
    BY <2>1, <2>2, <2>3, <2>6, <2>8 DEF IInv, TypeOK
  <2>14. disk'[e] # NoFile /\ r.written # 0
    BY <2>3, <2>5, <2>6, <2>8, <2>13, CacheManagerAssumption DEF Sizes, NoFile
  <2>15. Live' = Live
    BY <2>2, <2>11
  <2>16. FilesFollowBlocks'
    <3>1. (disk'[e] # NoFile) <=> (e \in Live' /\ block'[e].is_file)
      BY <2>2, <2>9, <2>11, <2>14, <2>15
    <3>2. ASSUME NEW c \in Blocks, c # e
          PROVE  (disk'[c] # NoFile) <=> (c \in Live' /\ block'[c].is_file)
      BY <2>11, <2>13, <2>15, <3>2 DEF IInv, FilesFollowBlocks
    <3>3. QED
      BY <3>1, <3>2 DEF FilesFollowBlocks
  <2>17. \A u \in Busy : /\ block'[thread[u].block] = block[thread[u].block]
                        /\ disk'[thread[u].block] = disk[thread[u].block]
    <3>1. \A u \in Busy : thread[u].block \in Blocks /\ thread[u].block # e
      BY <2>2, ThreadTyped DEF Holders, IInv
    <3>2. QED
      BY <2>11, <2>13, <3>1
  <2>18. ASSUME NEW c \in Live, Holders(c) = {}
         PROVE  WriterContents(block'[c], disk'[c], "free")
    <3>1. CASE c = e
      BY <2>8, <2>9, <2>11, <2>13, <2>14, <3>1 DEF WriterContents
    <3>2. CASE c # e
      <4>1. WriterContents(block[c], disk[c], "free")
        BY <2>18, UnheldContents
      <4>2. block'[c] = block[c] /\ disk'[c] = disk[c]
        BY <2>11, <2>13, <3>2 DEF Live
      <4>3. QED
        BY <4>1, <4>2
    <3>3. QED
      BY <3>1, <3>2
  <2>19. QED
    BY <2>11, <2>12, <2>13, <2>15, <2>16, <2>17, <2>18 DEF Moved
<1>2. CASE ~ (current_cache_utilization >= Maximum /\ Evictable # {})
  <2>1. UNCHANGED <<block, disk, current_cache_utilization>>
    BY <1>2 DEF Evict
  <2>2. QED
    BY <2>1, StayMoves
<1>3. QED
  BY <1>1, <1>2

LEMMA EnterStep ==
  ASSUME IInv, Moved, NEW t \in Threads, thread[t].pc = "idle",
         NEW x \in ThreadType, x.pc \in {"clear", "initialize", "reading", "free"},
         x.id \in Ids, x.block \in Blocks,
         Users(x.id) = {} \/ (x.pc \in {"reading", "free"} /\ Users(x.id) = Readers(x.id)),
         x.pc # "initialize" => cache_blocks[x.id] = x.block,
         x.pc = "initialize" => /\ cache_blocks[x.id] = NoBlock
                                /\ x.block \notin Live /\ Holders(x.block) = {},
         x.pc = "clear" => block'[x.block].is_file \/ x.max = block'[x.block].maximum_capacity,
         x.pc = "reading" =>
           /\ x.array_size = block'[x.block].written /\ x.in_array = block'[x.block].data
           /\ IF block'[x.block].data THEN block'[x.block].size = block'[x.block].written
              ELSE disk'[x.block] = block'[x.block].written,
         thread' = [thread EXCEPT ![t] = x], cache_blocks' = cache_blocks
  PROVE  IInv'
<1>1. PICK i \in Ids, b \in Blocks : i = x.id /\ b = x.block
  OBVIOUS
<1>2. /\ \A u \in Threads \ {t} : thread'[u] = thread[u]
      /\ thread'[t] = x /\ thread' \in [Threads -> ThreadType]
  BY DEF IInv, TypeOK
<1>3. t \notin Busy /\ Busy' = Busy \cup {t} /\ \A u \in Busy : u \in Threads /\ thread'[u] = thread[u]
  BY <1>2 DEF Busy
<1>4. \A u \in Busy : thread[u].block \in Blocks /\ thread[u].id \in Ids
  BY ThreadTyped DEF IInv
<1>5. TypeOK'
  BY <1>2 DEF Moved, IInv, TypeOK
<1>6. b # NoBlock /\ (x.pc # "initialize" => b \in Live)
  BY <1>1 DEF IInv, ReferencesAreLive, Blocks, NoBlock
<1>7. \A j \in Ids : cache_blocks[j] = b => j = i
  <2>1. CASE x.pc = "initialize"
    BY <1>1, <1>6, <2>1 DEF IInv, ReferencesAreLive
  <2>2. CASE x.pc # "initialize"
    BY <1>1, <1>6, <2>2 DEF IInv, FilesAreSeparate
  <2>3. QED
    BY <2>1, <2>2
<1>8. \A u \in Busy : thread[u].block = b => thread[u].id = i
  <2>1. CASE x.pc = "initialize"
    BY <1>1, <2>1 DEF Holders
  <2>2. CASE x.pc # "initialize"
    BY <1>1, <2>2 DEF IInv, FilesAreSeparate
  <2>3. QED
    BY <2>1, <2>2
<1>9. \A u \in Busy : thread[u].id = i => thread[u].pc = "reading" /\ x.pc \in {"reading", "free"}
  BY <1>1 DEF Users, Readers
<1>10. FilesAreSeparate'
  <2>1. \A j, k \in Ids : cache_blocks'[j] # NoBlock /\ cache_blocks'[j] = cache_blocks'[k] => j = k
    BY DEF IInv, FilesAreSeparate
  <2>2. \A u \in Busy' : \A j \in Ids : cache_blocks'[j] = thread'[u].block => j = thread'[u].id
    BY <1>1, <1>2, <1>3, <1>7 DEF IInv, FilesAreSeparate
  <2>3. \A u, v \in Busy' : thread'[u].block = thread'[v].block => thread'[u].id = thread'[v].id
    BY <1>1, <1>2, <1>3, <1>8 DEF IInv, FilesAreSeparate
  <2>4. \A u \in Writing' : \A v \in Busy' : thread'[v].id = thread'[u].id => v = u
    BY <1>1, <1>2, <1>3, <1>9 DEF IInv, FilesAreSeparate, Writing
  <2>5. \A u \in Using("free")' : \A v \in Busy' :
          thread'[v].id = thread'[u].id => v = u \/ thread'[v].pc = "reading"
    BY <1>1, <1>2, <1>3, <1>9 DEF IInv, FilesAreSeparate, Using
  <2>6. QED
    BY <2>1, <2>2, <2>3, <2>4, <2>5 DEF FilesAreSeparate
<1>11. ReferencesAreLive'
  <2>1. \A j \in Ids : cache_blocks'[j] # NoBlock => cache_blocks'[j] \in Live'
    BY DEF IInv, ReferencesAreLive, Moved
  <2>2. ASSUME NEW u \in Busy
        PROVE  CASE thread'[u].pc = "reading" ->
                      thread'[u].block \in Live' /\ EntryOf(u)' \in {thread'[u].block, NoBlock}
                 [] thread'[u].pc = "initialize" ->
                      EntryOf(u)' = thread'[u].block
                        \/ (EntryOf(u)' = NoBlock /\ thread'[u].block \notin Live')
                 [] OTHER -> EntryOf(u)' = thread'[u].block
    <3>1. thread'[u] = thread[u] /\ EntryOf(u)' = EntryOf(u) /\ Live' = Live
      BY <1>3 DEF EntryOf, Moved
    <3>2. QED
      BY <3>1 DEF IInv, ReferencesAreLive
  <2>3. CASE x.pc = "initialize"
    <3>1. EntryOf(t)' = NoBlock /\ thread'[t].block \notin Live'
      BY <1>2, <2>3 DEF EntryOf, Moved
    <3>2. QED
      BY <1>2, <1>3, <2>1, <2>2, <2>3, <3>1 DEF ReferencesAreLive
  <2>4. CASE x.pc # "initialize"
    <3>1. EntryOf(t)' = thread'[t].block /\ thread'[t].block \in Live'
      BY <1>1, <1>2, <1>6, <2>4 DEF EntryOf, Moved
    <3>2. QED
      BY <1>2, <1>3, <2>1, <2>2, <2>4, <3>1 DEF ReferencesAreLive
  <2>5. QED
    BY <2>3, <2>4
<1>12. Contents'
  <2>1. ASSUME NEW c \in Live'
        PROVE  /\ c \in Live /\ c \in Blocks
               /\ (\E u \in Holders(c)' : thread'[u].pc = "initialize")
                    <=> (\E u \in Holders(c) : thread[u].pc = "initialize")
               /\ (\E u \in Holders(c) : thread[u].pc \in {"writing", "extend"})
                    => (\E u \in Holders(c)' : thread'[u].pc \in {"writing", "extend"})
    <3>1. c \in Live /\ c \in Blocks
      BY DEF Moved, Live
    <3>2. Holders(c) \subseteq Holders(c)' /\ \A u \in Holders(c) : thread'[u] = thread[u]
      BY <1>3 DEF Holders
    <3>3. \A u \in Holders(c)' : u \in Holders(c) \/ u = t
      BY <1>3 DEF Holders
    <3>4. t \in Holders(c)' => thread'[t].pc # "initialize"
      BY <1>1, <1>2, <3>1 DEF Holders
    <3>5. QED
      BY <3>1, <3>2, <3>3, <3>4
  <2>2. ASSUME NEW c \in Live', Holders(c) # {}
        PROVE  block'[c] = block[c] /\ disk'[c] = disk[c]
    BY <2>2 DEF Holders, Moved
  <2>3. ASSUME NEW c \in Live'
        PROVE  LET r == block'[c]
                   cleared == \E u \in Holders(c)' : thread'[u].pc = "initialize"
               IN  /\ ~ r.data => r.capacity = 0
                   /\ r.data => Min2(Initial, r.maximum_capacity) <= r.capacity
                   /\ cleared => ~ r.data /\ ~ r.is_file
                   /\ ~ cleared => /\ r.data => r.size = r.written
                                   /\ r.is_file => disk'[c] = r.written
                                   /\ ~ r.data /\ ~ r.is_file => r.written = 0
                   /\ r.written = 0 => \E u \in Holders(c)' : thread'[u].pc \in {"writing", "extend"}
    <3>1. CASE Holders(c) # {}
      <4>1. block'[c] = block[c] /\ disk'[c] = disk[c]
        BY <2>2, <3>1
      <4>2. QED
        BY <2>1, <4>1 DEF IInv, Contents
    <3>2. CASE Holders(c) = {}
      <4>1. WriterContents(block'[c], disk'[c], "free")
        BY <2>1, <3>2 DEF Moved
      <4>2. ~ \E u \in Holders(c)' : thread'[u].pc = "initialize"
        BY <2>1, <3>2
      <4>3. QED
        BY <4>1, <4>2 DEF WriterContents
    <3>3. QED
      BY <3>1, <3>2
  <2>4. QED
    BY <2>3 DEF Contents
<1>13. ReadingsHold'
  <2>1. \A u \in Busy : thread'[u] = thread[u] /\ block'[thread[u].block] = block[thread[u].block]
    BY <1>3 DEF Moved
  <2>2. ASSUME x.pc = "clear", ~ block'[b].is_file
        PROVE  block'[b].data /\ x.max = block'[b].maximum_capacity
    <3>1. Holders(b) = {}
      BY <1>8, <1>9, <2>2 DEF Holders
    <3>2. WriterContents(block'[b], disk'[b], "free")
      BY <1>6, <2>2, <3>1 DEF Moved
    <3>3. QED
      BY <1>1, <2>2, <3>2 DEF WriterContents
  <2>3. thread'[t] = x /\ x.pc # "extend" /\ b = x.block
    BY <1>1, <1>2
  <2>4. QED
    BY <1>3, <2>1, <2>2, <2>3 DEF IInv, ReadingsHold
<1>14. ReadersSeeWhatWasWritten'
  <2>1. ASSUME NEW u \in Using("reading")', u # t
        PROVE  /\ u \in Using("reading") /\ thread'[u] = thread[u]
               /\ block'[thread[u].block] = block[thread[u].block]
               /\ disk'[thread[u].block] = disk[thread[u].block]
    BY <1>3, <2>1 DEF Using, Moved
  <2>2. CASE x.pc = "reading"
    <3>1. x.block \in Live'
      BY <1>1, <1>6, <2>2 DEF Moved
    <3>2. QED
      BY <1>2, <2>1, <2>2, <3>1 DEF IInv, ReadersSeeWhatWasWritten, Moved
  <2>3. CASE x.pc # "reading"
    <3>1. t \notin Using("reading")'
      BY <1>2, <2>3 DEF Using
    <3>2. QED
      BY <2>1, <3>1 DEF IInv, ReadersSeeWhatWasWritten, Moved
  <2>4. QED
    BY <2>2, <2>3
<1>15. UtilizationIsExact' /\ FilesFollowBlocks'
  BY DEF Moved
<1>16. QED
  BY <1>5, <1>10, <1>11, <1>12, <1>13, <1>14, <1>15 DEF IInv

LEMMA OpenSourceStep ==
  ASSUME IInv, NEW t \in Threads, NEW i \in Ids, OpenSource(t, i)
  PROVE  IInv'
<1>1. PICK b \in Blocks : b = cache_blocks[i] /\ b \in Live
  <2>1. cache_blocks[i] \in Live
    BY DEF OpenSource, IInv, ReferencesAreLive
  <2>2. QED
    BY <2>1 DEF Live
<1>2. PICK a, z, x : /\ a = is_pointer(b)
                     /\ z = IF is_pointer(b) THEN block[b].size ELSE disk[b]
                     /\ x = [pc |-> "reading", id |-> i, block |-> b, in_array |-> a, array_size |-> z]
  OBVIOUS
<1>3. /\ thread[t].pc = "idle" /\ Users(i) = Readers(i)
      /\ thread' = [thread EXCEPT ![t] = x]
      /\ UNCHANGED <<block, cache_blocks, current_cache_utilization, disk>>
  BY <1>1, <1>2 DEF OpenSource
<1>4. Moved
  BY <1>3, StayMoves
<1>5. /\ GoodBlock(block[b]) /\ block[b].is_file \in BOOLEAN /\ block[b].data \in BOOLEAN
      /\ block[b].size \in Sizes /\ disk[b] \in Sizes \cup {NoFile}
  BY <1>1, BlockTyped DEF IInv, TypeOK
<1>6. WriterContents(block[b], disk[b], "free")
  <2>1. \A u \in Holders(b) : u \in Readers(i)
    <3>1. \A u \in Holders(b) : u \in Users(i)
      BY <1>1 DEF Holders, Users, IInv, FilesAreSeparate
    <3>2. QED
      BY <1>3, <3>1
  <2>2. \A u \in Holders(b) : u \notin Writing
    BY <2>1 DEF Readers, Writing
  <2>3. QED
    BY <1>1, <2>2, UnheldContents
<1>7. block[b].written # 0
  BY <1>6 DEF WriterContents
<1>8. (~ block[b].is_file) = block[b].data
  BY <1>5, <1>6, <1>7 DEF WriterContents, GoodBlock
<1>9. /\ a = block[b].data /\ z = block[b].written /\ z \in Sizes \cup {NoFile} /\ a \in BOOLEAN
      /\ IF block[b].data THEN block[b].size = block[b].written ELSE disk[b] = block[b].written
  <2>1. CASE block[b].data
    BY <1>2, <1>5, <1>6, <1>8, <2>1 DEF WriterContents, is_pointer
  <2>2. CASE ~ block[b].data
    BY <1>2, <1>5, <1>6, <1>8, <2>2 DEF WriterContents, is_pointer
  <2>3. QED
    BY <2>1, <2>2
<1>10. /\ x \in [pc : {"reading"}, id : Ids, block : Blocks, in_array : BOOLEAN,
                  array_size : Sizes \cup {NoFile}]
       /\ x.pc = "reading" /\ x.id = i /\ x.block = b
  BY <1>2, <1>9
<1>11. x.in_array = a /\ x.array_size = z
  BY <1>2
<1>12. x \in ThreadType
  BY <1>10 DEF ThreadType
<1>13. QED
  BY <1>1, <1>3, <1>4, <1>9, <1>10, <1>11, <1>12, EnterStep

LEMMA DeletePathStep ==
  ASSUME IInv, NEW t \in Threads, NEW i \in Ids, DeletePath(t, i)
  PROVE  IInv'
<1>1. PICK b \in Blocks : b = cache_blocks[i]
  BY DEF DeletePath, IInv, TypeOK
<1>2. PICK x : x = [pc |-> "free", id |-> i, block |-> b]
  OBVIOUS
<1>3. /\ thread[t].pc = "idle" /\ Users(i) = Readers(i)
      /\ thread' = [thread EXCEPT ![t] = x]
      /\ UNCHANGED <<block, cache_blocks, current_cache_utilization, disk>>
  BY <1>1, <1>2 DEF DeletePath
<1>4. Moved
  BY <1>3, StayMoves
<1>5. x \in ThreadType /\ x.pc = "free" /\ x.id = i /\ x.block = b
  BY <1>2 DEF ThreadType
<1>6. QED
  BY <1>1, <1>3, <1>4, <1>5, EnterStep

\* The object that is allocated.
LEMMA FreeBlockIsFree ==
  ASSUME FreeBlocks # {}
  PROVE  Min(FreeBlocks) \in FreeBlocks
<1>1. FreeBlocks \in SUBSET Nat
  BY CacheManagerAssumption DEF FreeBlocks, Blocks
<1>2. \E m \in FreeBlocks : \A k \in FreeBlocks : m <= k
  BY <1>1, Least
<1>3. QED
  BY <1>2 DEF Min

LEMMA NewCacheStep ==
  ASSUME IInv, NEW t \in Threads, NEW i \in Ids, NewCache(t, i)
  PROVE  IInv'
<1>1. /\ thread[t].pc = "idle" /\ Users(i) = {} /\ Evict /\ cache_blocks' = cache_blocks
  BY DEF NewCache
<1>2. Moved
  BY <1>1, EvictMoves
<1>3. PICK n : n = RoomLeft(current_cache_utilization')
  OBVIOUS
<1>4. n \in 0 .. PerFile
  <2>1. current_cache_utilization' \in Nat
    BY <1>2 DEF Moved
  <2>2. QED
    <3>1. PICK u \in Nat : u = current_cache_utilization'
      BY <2>1
    <3>2. RoomLeft(u) \in 0 .. PerFile
      BY CacheManagerAssumption DEF RoomLeft, Min2
    <3>3. QED
      BY <1>3, <3>1, <3>2
<1>5. CASE cache_blocks[i] = NoBlock
  <2>1. FreeBlocks # {}
    BY <1>5 DEF NewCache
  <2>2. PICK b \in Blocks : b = Min(FreeBlocks) /\ b \in FreeBlocks
    BY <2>1, FreeBlockIsFree DEF FreeBlocks
  <2>3. b \notin Live /\ Holders(b) = {}
    BY <2>2 DEF FreeBlocks, Live
  <2>4. PICK x : x = [pc |-> "initialize", id |-> i, block |-> b, max |-> n]
    OBVIOUS
  <2>5. /\ x \in [pc : {"clear", "initialize"}, id : Ids, block : Blocks, max : 0 .. PerFile]
        /\ x.pc = "initialize" /\ x.id = i /\ x.block = b
    BY <1>4, <2>4
  <2>6. x \in ThreadType
    BY <2>5 DEF ThreadType
  <2>7. thread' = [thread EXCEPT ![t] = x]
    BY <1>3, <1>5, <2>2, <2>4 DEF NewCache
  <2>8. /\ x.id \in Ids /\ x.block \in Blocks /\ Users(x.id) = {}
        /\ cache_blocks[x.id] = NoBlock /\ x.block \notin Live /\ Holders(x.block) = {}
    BY <1>1, <1>5, <2>3, <2>5
  <2>9. x.pc = "initialize"
    BY <2>5
  <2>10. QED
    BY <1>1, <1>2, <2>6, <2>7, <2>8, <2>9, EnterStep
<1>6. CASE cache_blocks[i] # NoBlock
  <2>1. PICK b \in Blocks : b = cache_blocks[i]
    BY <1>6 DEF IInv, TypeOK
  <2>2. b \in Live
    BY <1>6, <2>1 DEF IInv, ReferencesAreLive
  <2>3. PICK m : m = IF block'[b].is_file THEN n ELSE block'[b].maximum_capacity
    OBVIOUS
  <2>4. block'[b] \in BlockType
    BY <1>2, <2>2 DEF Moved, Live, Unused
  <2>5. m \in 0 .. PerFile
    <3>1. block'[b].maximum_capacity \in 0 .. PerFile
      BY <2>4 DEF BlockType
    <3>2. QED
      BY <1>4, <2>3, <3>1
  <2>6. PICK x : x = [pc |-> "clear", id |-> i, block |-> b, max |-> m]
    OBVIOUS
  <2>7. /\ x \in [pc : {"clear", "initialize"}, id : Ids, block : Blocks, max : 0 .. PerFile]
        /\ x.pc = "clear" /\ x.id = i /\ x.block = b /\ x.max = m
    BY <2>5, <2>6
  <2>8. x \in ThreadType
    BY <2>7 DEF ThreadType
  <2>9. thread' = [thread EXCEPT ![t] = x]
    BY <1>3, <1>6, <2>1, <2>3, <2>6 DEF NewCache
  <2>10. block'[b].is_file \/ m = block'[b].maximum_capacity
    BY <2>3
  <2>11. /\ x.id \in Ids /\ x.block \in Blocks /\ Users(x.id) = {}
         /\ cache_blocks[x.id] = x.block
         /\ block'[x.block].is_file \/ x.max = block'[x.block].maximum_capacity
    BY <1>1, <2>1, <2>7, <2>10
  <2>12. x.pc = "clear"
    BY <2>7
  <2>13. QED
    BY <1>1, <1>2, <2>8, <2>9, <2>11, <2>12, EnterStep
<1>7. QED
  BY <1>5, <1>6

-----------------------------------------------------------------------------
(* The invariant and the theorems.                                         *)

LEMMA InitEstablishes ==
  ASSUME Init
  PROVE  IInv
<1>1. Busy = {} /\ Live = {} /\ Idle.pc = "idle" /\ ~ Unused.exists
  BY DEF Init, Busy, Idle, Live, Unused
<1>2. TypeOK
  <2>1. block \in [Blocks -> BlockType \cup {Unused}] /\ thread \in [Threads -> ThreadType]
    BY DEF Init, ThreadType
  <2>2. cache_blocks \in [Ids -> Blocks \cup {NoBlock}] /\ disk \in [Blocks -> Sizes \cup {NoFile}]
    BY DEF Init
  <2>3. current_cache_utilization \in Nat
    BY DEF Init
  <2>4. QED
    BY <1>1, <2>1, <2>2, <2>3 DEF TypeOK
<1>3. UtilizationIsExact
  <2> DEFINE f == [b \in Blocks |-> MemoryOf(block[b])]
  <2>1. \A b \in Blocks : f[b] = 0
    BY <1>1, <1>2, MemoryTyped
  <2>2. DOMAIN f = Blocks /\ (UtilizationIsExact <=> current_cache_utilization = SumFunction(f))
    BY DEF UtilizationIsExact
  <2> HIDE DEF f
  <2>3. SumFunctionOnSet(f, Blocks) \in 0 .. Cardinality(Blocks) * 0
    <3>1. \A b \in Blocks : f[b] \in 0 .. 0
      BY <2>1
    <3>2. QED
      BY <3>1, BlocksFinite, SumBound
  <2>4. Cardinality(Blocks) \in Nat
    BY BlocksFinite, FS_CardinalityType
  <2>5. SumFunction(f) = SumFunctionOnSet(f, Blocks)
    BY <2>2 DEF SumFunction
  <2>6. SumFunctionOnSet(f, Blocks) = 0
    BY <2>3, <2>4
  <2>7. QED
    BY <2>2, <2>5, <2>6 DEF Init
<1>4. FilesAreSeparate /\ ReferencesAreLive
  BY <1>1 DEF Init, FilesAreSeparate, ReferencesAreLive, Writing, Using
<1>5. Contents /\ ReadingsHold /\ ReadersSeeWhatWasWritten
  BY <1>1 DEF Contents, ReadingsHold, ReadersSeeWhatWasWritten, Using
<1>6. FilesFollowBlocks
  BY <1>1 DEF Init, FilesFollowBlocks
<1>7. QED
  BY <1>2, <1>3, <1>4, <1>5, <1>6 DEF IInv

LEMMA StutterKeeps ==
  ASSUME IInv, UNCHANGED vars
  PROVE  IInv'
<1>1. TypeOK'
  BY DEF IInv, TypeOK, vars, Live
<1>2. FilesAreSeparate'
  BY DEF IInv, FilesAreSeparate, vars, Busy, Writing, Using
<1>3. ReferencesAreLive'
  BY DEF IInv, ReferencesAreLive, vars, Busy, Live, EntryOf
<1>4. Contents'
  BY DEF IInv, Contents, vars, Busy, Live, Holders
<1>5. ReadingsHold'
  BY DEF IInv, ReadingsHold, vars, Busy
<1>6. UtilizationIsExact'
  BY DEF IInv, UtilizationIsExact, vars
<1>7. FilesFollowBlocks'
  BY DEF IInv, FilesFollowBlocks, vars, Live
<1>8. ReadersSeeWhatWasWritten'
  BY DEF IInv, ReadersSeeWhatWasWritten, vars, Using, Busy, Live
<1>9. QED
  BY <1>1, <1>2, <1>3, <1>4, <1>5, <1>6, <1>7, <1>8 DEF IInv

LEMMA NextKeeps ==
  ASSUME IInv, [Next]_vars
  PROVE  IInv'
<1>1. CASE UNCHANGED vars
  BY <1>1, StutterKeeps
<1>2. CASE Next
  <2>1. PICK t \in Threads :
          \/ \E i \in Ids : NewCache(t, i) \/ OpenSource(t, i) \/ DeletePath(t, i)
          \/ Clear(t) \/ InitializeMemory(t)
          \/ Write(t) \/ Extend(t) \/ CloseSink(t) \/ CloseSource(t) \/ Free(t)
    BY <1>2 DEF Next
  <2>2. CASE \E i \in Ids : NewCache(t, i) \/ OpenSource(t, i) \/ DeletePath(t, i)
    BY <2>2, NewCacheStep, OpenSourceStep, DeletePathStep
  <2>3. CASE Write(t)
    BY <2>3, WriteFileStep, WriteMemoryStep, ExtendCheckStep, SpillStep DEF Write
  <2>4. CASE Clear(t) \/ InitializeMemory(t) \/ Extend(t)
    BY <2>4, ClearStep, InitializeMemoryStep, ExtendStep
  <2>5. CASE CloseSink(t) \/ CloseSource(t) \/ Free(t)
    BY <2>5, CloseSinkStep, CloseSourceStep, FreeStep
  <2>6. QED
    BY <2>1, <2>2, <2>3, <2>4, <2>5
<1>3. QED
  BY <1>1, <1>2

\* The inductive invariant holds in every reachable state.
THEOREM Invariance == Spec => []IInv
<1>1. Init => IInv
  BY InitEstablishes
<1>2. IInv /\ [Next]_vars => IInv'
  BY NextKeeps
<1>3. QED
  BY <1>1, <1>2, PTL DEF Spec

\* The fields have their types, a block grows at most to the capacity of its
\* file, holds no more than its capacity, and is in memory or in a file.
THEOREM TypeCorrect == Spec => []TypeOK
<1>1. IInv => TypeOK
  BY DEF IInv
<1>2. QED
  BY <1>1, Invariance, PTL

\* current_cache_utilization is the memory the blocks hold, for any number of
\* threads that count it up and down without a lock.
THEOREM UtilizationCorrect == Spec => []UtilizationIsExact
<1>1. IInv => UtilizationIsExact
  BY DEF IInv
<1>2. QED
  BY <1>1, Invariance, PTL

\* An open cache_stream_source reads all that was written from where it found
\* it: neither eviction nor deletion takes a block from its readers.
THEOREM ReadersCorrect == Spec => []ReadersSeeWhatWasWritten
<1>1. IInv => ReadersSeeWhatWasWritten
  BY DEF IInv
<1>2. QED
  BY <1>1, Invariance, PTL

\* The temporary files on disk are those of the blocks that were moved to disk
\* and still exist.
THEOREM FilesCorrect == Spec => []FilesFollowBlocks
<1>1. IInv => FilesFollowBlocks
  BY DEF IInv
<1>2. QED
  BY <1>1, Invariance, PTL

-----------------------------------------------------------------------------
(* How far the utilization may exceed its maximum.                         *)

ReservedIsTyped == \A t \in Threads : Reserved(t) \in 0 .. Growth

LEMMA GrowthTyped == Growth \in Nat /\ Initial <= Growth /\ PerFile - Initial <= Growth
BY CacheManagerAssumption DEF Growth, Max2

\* No thread allocates more than Growth after one look at the utilization.
LEMMA ReservedBound == IInv => ReservedIsTyped
<1> SUFFICES ASSUME IInv, NEW t \in Threads PROVE Reserved(t) \in 0 .. Growth
  BY DEF ReservedIsTyped
<1>1. Growth \in Nat /\ Initial \in Nat /\ PerFile \in Nat
      /\ Initial <= Growth /\ PerFile - Initial <= Growth
  BY GrowthTyped, CacheManagerAssumption
<1>2. CASE thread[t].pc \in {"clear", "initialize"}
  <2>1. thread[t].max \in 0 .. PerFile
    BY <1>2, ThreadTyped DEF Busy, IInv
  <2>2. Min2(Initial, thread[t].max) \in 0 .. Growth
    BY <1>1, <2>1 DEF Min2
  <2>3. Reserved(t) \in {0, Min2(Initial, thread[t].max)}
    BY <1>2 DEF Reserved, Pending
  <2>4. QED
    BY <1>1, <2>2, <2>3
<1>3. CASE thread[t].pc = "extend"
  <2>1. t \in Busy /\ t \in Writing
    BY <1>3 DEF Busy, Writing
  <2>2. PICK b \in Blocks : b = thread[t].block /\ b \in Live
    BY <1>3, <2>1, WriterFacts DEF Live
  <2>3. thread[t].capacity \in 0 .. PerFile
    BY <1>3, <2>1, ThreadTyped DEF IInv
  <2>4. block[b].capacity \in 0 .. PerFile /\ block[b].maximum_capacity \in 0 .. PerFile
    BY <2>2, BlockTyped DEF IInv
  <2>5. /\ block[b].data /\ block[b].capacity < thread[t].capacity
        /\ thread[t].capacity <= block[b].maximum_capacity
    BY <1>3, <2>1, <2>2 DEF IInv, ReadingsHold
  <2>6. Min2(Initial, block[b].maximum_capacity) <= block[b].capacity
    BY <2>2, <2>5 DEF IInv, Contents
  <2>7. thread[t].capacity - block[b].capacity \in 0 .. Growth
    BY <1>1, <2>3, <2>4, <2>5, <2>6 DEF Min2
  <2>8. QED
    BY <1>3, <2>2, <2>7 DEF Reserved, Pending
<1>4. CASE thread[t].pc \notin {"clear", "initialize", "extend"}
  BY <1>1, <1>4 DEF Reserved, Pending
<1>5. QED
  BY <1>2, <1>3, <1>4

\* A step after which the other threads have reserved what they had, and this one
\* has no more than before or has found room for what it has.
LEMMA ReservedStep ==
  ASSUME IInv, IInv', ReservedIsBounded, NEW t \in Threads,
         \A v \in Threads \ {t} : Reserved(v)' = Reserved(v),
         \/ current_cache_utilization' + Reserved(t)' <= current_cache_utilization + Reserved(t)
         \/ current_cache_utilization' + Reserved(t)' <= Maximum
  PROVE  ReservedIsBounded'
<1> DEFINE f == [v \in Threads |-> Reserved(v)]
           g == [v \in Threads |-> Reserved(v)']
           n == Cardinality(Threads)
<1>1. ReservedIsTyped /\ ReservedIsTyped'
  BY ReservedBound, PTL
<1>2. \A v \in Threads : f[v] \in 0 .. Growth /\ g[v] \in 0 .. Growth
  BY <1>1 DEF ReservedIsTyped
<1>3. /\ f[t] = Reserved(t) /\ g[t] = Reserved(t)' /\ DOMAIN f = Threads /\ DOMAIN g = Threads
      /\ \A v \in Threads \ {t} : g[v] = f[v]
  OBVIOUS
<1>4. /\ ReservedIsBounded <=> current_cache_utilization + SumFunction(f) <= Maximum + (n - 1) * Growth
      /\ ReservedIsBounded' <=> current_cache_utilization' + SumFunction(g) <= Maximum + (n - 1) * Growth
  BY DEF ReservedIsBounded
<1>5. IsFiniteSet(Threads) /\ n \in Nat /\ Growth \in Nat /\ Maximum \in Nat
  BY GrowthTyped, CacheManagerAssumption, FS_CardinalityType
<1>6. current_cache_utilization \in Nat /\ current_cache_utilization' \in Nat
  BY DEF IInv, TypeOK
<1>7. Cardinality(Threads \ {t}) = n - 1 /\ IsFiniteSet(Threads \ {t}) /\ n - 1 \in Nat
  <2>1. IsFiniteSet(Threads \ {t}) /\ Cardinality(Threads \ {t}) = Cardinality(Threads) - 1
    BY <1>5, FS_RemoveElement
  <2>2. Cardinality(Threads \ {t}) \in Nat
    BY <2>1, FS_CardinalityType
  <2>3. QED
    BY <2>1, <2>2
<1> HIDE DEF f, g, n
<1>8. Summable(f, Threads) /\ Summable(g, Threads)
  BY <1>2, <1>5 DEF Summable
<1>9. /\ SumFunctionOnSet(f, Threads) = f[t] + SumFunctionOnSet(f, Threads \ {t})
      /\ SumFunctionOnSet(g, Threads) = g[t] + SumFunctionOnSet(g, Threads \ {t})
  BY <1>8, SumRemove
<1>10. Summable(f, Threads \ {t})
  BY <1>8, SubsetSummable
<1>11. SumFunctionOnSet(g, Threads \ {t}) = SumFunctionOnSet(f, Threads \ {t})
  BY <1>3, <1>10, SumSame
<1>12. SumFunctionOnSet(f, Threads \ {t}) \in 0 .. (n - 1) * Growth
  BY <1>2, <1>5, <1>7, SumBound
<1>13. SumFunction(f) = SumFunctionOnSet(f, Threads) /\ SumFunction(g) = SumFunctionOnSet(g, Threads)
  BY <1>3 DEF SumFunction
<1>14. PICK k \in Int : k = (n - 1) * Growth
  BY <1>5, <1>7
<1>15. PICK z \in 0 .. k : z = SumFunctionOnSet(f, Threads \ {t})
  BY <1>12, <1>14
<1>16. f[t] \in Nat /\ g[t] \in Nat
  BY <1>2, <1>5
<1>17. SumFunction(f) = f[t] + z /\ SumFunction(g) = g[t] + z
  BY <1>9, <1>11, <1>13, <1>15
<1>18. /\ ReservedIsBounded <=> current_cache_utilization + (f[t] + z) <= Maximum + k
       /\ ReservedIsBounded' <=> current_cache_utilization' + (g[t] + z) <= Maximum + k
  BY <1>4, <1>14, <1>17
<1>19. CASE current_cache_utilization' + Reserved(t)' <= current_cache_utilization + Reserved(t)
  BY <1>3, <1>5, <1>6, <1>15, <1>16, <1>18, <1>19
<1>20. CASE current_cache_utilization' + Reserved(t)' <= Maximum
  BY <1>3, <1>5, <1>6, <1>15, <1>16, <1>18, <1>20
<1>21. QED
  BY <1>19, <1>20

\* A thread that keeps its place and whose block keeps its fields keeps its
\* reservation.
LEMMA ReservedKept ==
  ASSUME NEW v \in Threads, thread'[v] = thread[v],
         v \in Busy => block'[thread[v].block] = block[thread[v].block]
  PROVE  Reserved(v)' = Reserved(v)
<1>1. CASE v \in Busy
  BY <1>1 DEF Reserved, Pending
<1>2. CASE v \notin Busy
  BY <1>2 DEF Reserved, Pending, Busy
<1>3. QED
  BY <1>1, <1>2

\* A step of a thread that writes its block leaves the others alone.
LEMMA WriterReserves ==
  ASSUME IInv, NEW t \in Writing, NEW x, thread' = [thread EXCEPT ![t] = x],
         \A c \in Blocks : c # thread[t].block => block'[c] = block[c]
  PROVE  /\ \A v \in Threads \ {t} : Reserved(v)' = Reserved(v)
         /\ thread'[t] = x /\ t \in Threads
<1>1. \A v \in Busy : v # t => thread[v].block \in Blocks /\ thread[v].block # thread[t].block
  BY OwnBlock, ThreadTyped DEF IInv
<1>2. \A v \in Threads \ {t} : thread'[v] = thread[v]
  BY DEF IInv, TypeOK
<1>3. t \in Threads /\ thread'[t] = x
  BY DEF IInv, TypeOK, Writing, Busy
<1>4. QED
  BY <1>1, <1>2, <1>3, ReservedKept

LEMMA NoReservation ==
  ASSUME NEW a \in Nat, NEW b \in Nat, a <= b, NEW c, c = 0, NEW d, d = 0
  PROVE  a + c <= b + d
OBVIOUS

LEMMA WriteReserves ==
  ASSUME IInv, IInv', ReservedIsBounded, NEW t \in Threads, Write(t)
  PROVE  ReservedIsBounded'
<1>0. PICK n \in WriteSizes :
        WriteFile(t, n) \/ WriteMemory(t, n) \/ ExtendCheck(t, n) \/ Spill(t, n)
  BY DEF Write
<1>1. t \in Writing /\ thread[t].pc = "writing"
  BY <1>0 DEF WriteFile, WriteMemory, ExtendCheck, Spill, Writes, Writing, Busy
<1>2. PICK b \in Blocks : b = thread[t].block /\ b \in Live
  BY <1>1, WriterFacts DEF Live
<1>3. Reserved(t) = 0
  BY <1>1 DEF Reserved, Pending
<1>4. current_cache_utilization \in Nat /\ current_cache_utilization' \in Nat
  BY DEF IInv, TypeOK
<1>5. \A c \in Blocks : c # b => block'[c] = block[c]
  BY <1>0, <1>2 DEF WriteFile, WriteMemory, ExtendCheck, Spill, IInv, TypeOK
<1>6. CASE ExtendCheck(t, n)
  <2>1. PICK c, x : /\ c = NewCapacity(block[b], n)
                    /\ x = [pc |-> "extend", id |-> thread[t].id, block |-> b,
                            capacity |-> c, size |-> n]
    OBVIOUS
  <2>2. /\ thread' = [thread EXCEPT ![t] = x] /\ block' = block
        /\ current_cache_utilization' = current_cache_utilization
    BY <1>2, <1>6, <2>1 DEF ExtendCheck
  <2>3. Allowed(block[b], c)
    <3>1. GoodBlock(block[b])
      BY <1>2, BlockTyped DEF IInv
    <3>2. QED
      BY <1>2, <1>6, <2>1, <3>1, NewCapacityFits DEF ExtendCheck
  <2>4. /\ \A v \in Threads \ {t} : Reserved(v)' = Reserved(v)
        /\ thread'[t] = x
    BY <1>1, <1>2, <1>5, <2>2, WriterReserves
  <2>5. Reserved(t)' = c - block[b].capacity
    BY <2>1, <2>2, <2>4 DEF Reserved, Pending
  <2>6. QED
    BY <2>2, <2>3, <2>4, <2>5, ReservedStep DEF Allowed
<1>7. CASE WriteFile(t, n) \/ WriteMemory(t, n) \/ Spill(t, n)
  <2>1. thread' = thread
    BY <1>7 DEF WriteFile, WriteMemory, Spill
  <2>2. thread' = [thread EXCEPT ![t] = thread[t]]
    BY <2>1 DEF IInv, TypeOK
  <2>3. \A v \in Threads \ {t} : Reserved(v)' = Reserved(v)
    BY <1>1, <1>2, <1>5, <2>2, WriterReserves
  <2>4. Reserved(t)' = 0
    BY <1>1, <2>1 DEF Reserved, Pending
  <2>5. current_cache_utilization' <= current_cache_utilization
    <3>1. MemoryOf(block[b]) \in 0 .. PerFile
      BY <1>2, MemoryTyped DEF IInv
    <3>2. \/ current_cache_utilization' = current_cache_utilization
          \/ current_cache_utilization' = current_cache_utilization - MemoryOf(block[b])
      BY <1>2, <1>7 DEF WriteFile, WriteMemory, Spill
    <3>3. QED
      BY <1>4, <3>1, <3>2, CacheManagerAssumption
  <2>6. current_cache_utilization' + Reserved(t)' <= current_cache_utilization + Reserved(t)
    BY <1>3, <1>4, <2>4, <2>5, NoReservation
  <2>7. QED
    BY <2>3, <2>6, ReservedStep
<1>8. QED
  BY <1>0, <1>6, <1>7

LEMMA ExtendReserves ==
  ASSUME IInv, IInv', ReservedIsBounded, NEW t \in Threads, Extend(t)
  PROVE  ReservedIsBounded'
<1>1. t \in Writing /\ t \in Busy /\ thread[t].pc = "extend"
  BY DEF Extend, Writing, Busy
<1>2. PICK b \in Blocks : b = thread[t].block /\ b \in Live
  BY <1>1, WriterFacts DEF Live
<1>3. PICK c \in 0 .. PerFile : c = thread[t].capacity
  BY <1>1, ThreadTyped DEF IInv
<1>4. PICK x : x = [pc |-> "writing", id |-> thread[t].id, block |-> b]
  OBVIOUS
<1>5. /\ current_cache_utilization' = current_cache_utilization + (c - block[b].capacity)
      /\ thread' = [thread EXCEPT ![t] = x]
      /\ \A d \in Blocks : d # b => block'[d] = block[d]
  BY <1>2, <1>3, <1>4 DEF Extend, IInv, TypeOK
<1>6. (\A v \in Threads \ {t} : Reserved(v)' = Reserved(v)) /\ thread'[t] = x
  BY <1>1, <1>2, <1>5, WriterReserves
<1>7. Reserved(t)' = 0
  BY <1>4, <1>6 DEF Reserved, Pending
<1>8. Reserved(t) = c - block[b].capacity
  BY <1>1, <1>2, <1>3 DEF Reserved, Pending
<1>9. /\ block[b].capacity \in 0 .. PerFile /\ PerFile \in Nat
      /\ current_cache_utilization \in Nat
  BY <1>2, BlockTyped, CacheManagerAssumption DEF IInv, TypeOK
<1>10. current_cache_utilization' + Reserved(t)' <= current_cache_utilization + Reserved(t)
  BY <1>3, <1>5, <1>7, <1>8, <1>9
<1>11. QED
  BY <1>6, <1>10, ReservedStep

LEMMA ClearReserves ==
  ASSUME IInv, IInv', ReservedIsBounded, NEW t \in Threads, Clear(t)
  PROVE  ReservedIsBounded'
<1>1. t \in Writing /\ t \in Busy /\ thread[t].pc = "clear"
  BY DEF Clear, Writing, Busy
<1>2. PICK b \in Blocks : b = thread[t].block /\ b \in Live
  BY <1>1, WriterFacts DEF Live
<1>3. PICK m \in 0 .. PerFile : m = thread[t].max
  BY <1>1, ThreadTyped DEF IInv
<1>4. PICK x : x = [thread[t] EXCEPT !.pc = "initialize"]
  OBVIOUS
<1>5. /\ current_cache_utilization' = current_cache_utilization - MemoryOf(block[b])
      /\ thread' = [thread EXCEPT ![t] = x]
      /\ \A d \in Blocks : d # b => block'[d] = block[d]
  BY <1>2, <1>4 DEF Clear, IInv, TypeOK
<1>6. (\A v \in Threads \ {t} : Reserved(v)' = Reserved(v)) /\ thread'[t] = x
  BY <1>1, <1>2, <1>5, WriterReserves
<1>7. thread[t] \in [pc : {"clear", "initialize"}, id : Ids, block : Blocks, max : 0 .. PerFile]
  BY <1>1, ThreadTyped DEF IInv, ThreadType, Idle
<1>8. x.pc = "initialize" /\ x.max = m
  BY <1>3, <1>4, <1>7
<1>9. Reserved(t)' = Min2(Initial, m)
  BY <1>6, <1>8 DEF Reserved, Pending
<1>10. /\ block[b].capacity \in 0 .. PerFile /\ PerFile \in Nat /\ Initial \in Nat
       /\ current_cache_utilization \in Nat
  BY <1>2, BlockTyped, CacheManagerAssumption DEF IInv, TypeOK
<1>11. CASE block[b].is_file
  <2>1. Reserved(t) = Min2(Initial, m)
    BY <1>1, <1>2, <1>3, <1>11 DEF Reserved
  <2>2. ~ block[b].data
    BY <1>2, <1>11 DEF IInv, TypeOK
  <2>3. MemoryOf(block[b]) = 0
    BY <2>2 DEF MemoryOf
  <2>4. current_cache_utilization' + Reserved(t)' <= current_cache_utilization + Reserved(t)
    BY <1>3, <1>5, <1>9, <1>10, <2>1, <2>3 DEF Min2
  <2>5. QED
    BY <1>6, <2>4, ReservedStep
<1>12. CASE ~ block[b].is_file
  <2>1. Reserved(t) = 0
    BY <1>1, <1>2, <1>12 DEF Reserved
  <2>2. block[b].data /\ m = block[b].maximum_capacity
    BY <1>1, <1>2, <1>3, <1>12 DEF IInv, ReadingsHold
  <2>3. Min2(Initial, m) <= block[b].capacity
    BY <1>2, <2>2 DEF IInv, Contents
  <2>4. MemoryOf(block[b]) = block[b].capacity
    BY <1>2, <2>2 DEF MemoryOf, Live
  <2>5. current_cache_utilization' + Reserved(t)' <= current_cache_utilization + Reserved(t)
    BY <1>3, <1>5, <1>9, <1>10, <2>1, <2>3, <2>4 DEF Min2
  <2>6. QED
    BY <1>6, <2>5, ReservedStep
<1>13. QED
  BY <1>11, <1>12

LEMMA InitializeReserves ==
  ASSUME IInv, IInv', ReservedIsBounded, NEW t \in Threads, InitializeMemory(t)
  PROVE  ReservedIsBounded'
<1>1. t \in Writing /\ t \in Busy /\ thread[t].pc = "initialize"
  BY DEF InitializeMemory, Writing, Busy
<1>2. PICK b \in Blocks, m \in 0 .. PerFile : b = thread[t].block /\ m = thread[t].max
  BY <1>1, ThreadTyped DEF IInv
<1>3. PICK x : x = [pc |-> "writing", id |-> thread[t].id, block |-> b]
  OBVIOUS
<1>4. /\ current_cache_utilization' = current_cache_utilization + Min2(Initial, m)
      /\ thread' = [thread EXCEPT ![t] = x]
      /\ \A d \in Blocks : d # b => block'[d] = block[d]
  BY <1>2, <1>3 DEF InitializeMemory, IInv, TypeOK
<1>5. (\A v \in Threads \ {t} : Reserved(v)' = Reserved(v)) /\ thread'[t] = x
  BY <1>1, <1>2, <1>4, WriterReserves
<1>6. Reserved(t)' = 0 /\ Reserved(t) = Min2(Initial, m)
  BY <1>1, <1>2, <1>3, <1>5 DEF Reserved, Pending
<1>7. current_cache_utilization \in Nat /\ Initial \in Nat
  BY CacheManagerAssumption DEF IInv, TypeOK
<1>8. current_cache_utilization' + Reserved(t)' <= current_cache_utilization + Reserved(t)
  BY <1>2, <1>4, <1>6, <1>7 DEF Min2
<1>9. QED
  BY <1>5, <1>8, ReservedStep

LEMMA DestroyReserves ==
  ASSUME IInv, IInv', ReservedIsBounded, NEW t \in Threads, NEW m,
         thread[t].pc \in {"writing", "reading", "free"},
         Destroy(m, [thread EXCEPT ![t] = Idle])
  PROVE  ReservedIsBounded'
<1>1. PICK D : D = Dead(m, [thread EXCEPT ![t] = Idle])
  OBVIOUS
<1>2. /\ thread' = [thread EXCEPT ![t] = Idle]
      /\ block' = [b \in Blocks |-> IF b \in D THEN Unused ELSE block[b]]
      /\ current_cache_utilization' = current_cache_utilization
            - SumFunction([b \in D |-> MemoryOf(block[b])])
  BY <1>1 DEF Destroy
<1>3. thread'[t] = Idle /\ \A v \in Threads \ {t} : thread'[v] = thread[v]
  BY <1>2 DEF IInv, TypeOK
<1>4. D \subseteq Blocks /\ \A v \in Busy : v # t => thread[v].block \notin D
  BY <1>1, <1>2, <1>3 DEF Dead, Busy
<1>5. \A v \in Threads \ {t} : Reserved(v)' = Reserved(v)
  <2>1. \A v \in Busy : v # t => block'[thread[v].block] = block[thread[v].block]
    BY <1>2, <1>4, ThreadTyped DEF IInv
  <2>2. QED
    BY <1>3, <2>1, ReservedKept
<1>6. Reserved(t) = 0
  BY DEF Reserved, Pending
<1>7. Reserved(t)' = 0
  BY <1>3 DEF Reserved, Pending, Idle
<1>8. current_cache_utilization \in Nat
  BY DEF IInv, TypeOK
<1>9. SumFunction([b \in D |-> MemoryOf(block[b])]) \in Nat
  <2> DEFINE h == [b \in D |-> MemoryOf(block[b])]
  <2>1. (\A b \in D : h[b] \in 0 .. PerFile) /\ DOMAIN h = D
    BY <1>4, MemoryTyped DEF IInv
  <2> HIDE DEF h
  <2>2. IsFiniteSet(D)
    BY <1>4, BlocksFinite, FS_Subset
  <2>3. SumFunctionOnSet(h, D) \in 0 .. Cardinality(D) * PerFile
    BY <2>1, <2>2, SumBound, CacheManagerAssumption
  <2>4. SumFunction(h) = SumFunctionOnSet(h, D)
    BY <2>1 DEF SumFunction
  <2>5. QED
    BY <2>3, <2>4 DEF h
<1>10. current_cache_utilization' + Reserved(t)' <= current_cache_utilization + Reserved(t)
  BY <1>2, <1>6, <1>7, <1>8, <1>9
<1>11. QED
  BY <1>5, <1>10, ReservedStep

LEMMA EnterReserves ==
  ASSUME IInv, IInv', ReservedIsBounded, Moved, NEW t \in Threads, thread[t].pc = "idle",
         NEW x, thread' = [thread EXCEPT ![t] = x],
         current_cache_utilization' <= current_cache_utilization,
         \/ Reserved(t)' = 0
         \/ current_cache_utilization' + Reserved(t)' <= Maximum
  PROVE  ReservedIsBounded'
<1>1. thread'[t] = x /\ \A v \in Threads \ {t} : thread'[v] = thread[v]
  BY DEF IInv, TypeOK
<1>2. \A v \in Threads \ {t} : Reserved(v)' = Reserved(v)
  BY <1>1, ReservedKept DEF Moved
<1>3. Reserved(t) = 0
  BY DEF Reserved, Pending
<1>4. current_cache_utilization \in Nat /\ current_cache_utilization' \in Nat
  BY DEF IInv, TypeOK
<1>5. CASE Reserved(t)' = 0
  <2>1. current_cache_utilization' + Reserved(t)' <= current_cache_utilization + Reserved(t)
    BY <1>3, <1>4, <1>5, NoReservation
  <2>2. QED
    BY <1>2, <2>1, ReservedStep
<1>6. CASE current_cache_utilization' + Reserved(t)' <= Maximum
  BY <1>2, <1>6, ReservedStep
<1>7. QED
  BY <1>5, <1>6

\* RoomLeft() leaves room for the initial capacity it allows.
LEMMA RoomReserves ==
  ASSUME NEW u \in Nat
  PROVE  \/ Min2(Initial, RoomLeft(u)) = 0
         \/ u + Min2(Initial, RoomLeft(u)) <= Maximum
<1>1. CASE u < Maximum
  BY <1>1, CacheManagerAssumption DEF RoomLeft, Min2
<1>2. CASE ~ (u < Maximum)
  BY <1>2, CacheManagerAssumption DEF RoomLeft, Min2
<1>3. QED
  BY <1>1, <1>2

LEMMA NewCacheReserves ==
  ASSUME IInv, IInv', ReservedIsBounded, NEW t \in Threads, NEW i \in Ids, NewCache(t, i)
  PROVE  ReservedIsBounded'
<1>1. thread[t].pc = "idle" /\ Evict
  BY DEF NewCache
<1>2. Moved
  BY <1>1, EvictMoves
<1>3. PICK u \in Nat : u = current_cache_utilization'
  BY <1>2 DEF Moved
<1>4. current_cache_utilization' <= current_cache_utilization
  <2>1. current_cache_utilization \in Nat /\ PerFile \in Nat
    BY CacheManagerAssumption DEF IInv, TypeOK
  <2>2. CASE current_cache_utilization' = current_cache_utilization
    BY <2>1, <2>2
  <2>3. CASE \E b \in Blocks : current_cache_utilization' = current_cache_utilization - MemoryOf(block[b])
    <3>1. PICK b \in Blocks : current_cache_utilization' = current_cache_utilization - MemoryOf(block[b])
      BY <2>3
    <3>2. MemoryOf(block[b]) \in 0 .. PerFile
      BY MemoryTyped DEF IInv
    <3>3. QED
      BY <2>1, <3>1, <3>2
  <2>4. QED
    BY <1>1, <2>2, <2>3 DEF Evict, Evictable
<1>5. PICK n : n = RoomLeft(u)
  OBVIOUS
<1>6. Min2(Initial, n) = 0 \/ u + Min2(Initial, n) <= Maximum
  BY <1>5, RoomReserves
<1>7. CASE cache_blocks[i] = NoBlock
  <2>1. PICK x, b : /\ b = Min(FreeBlocks)
                    /\ x = [pc |-> "initialize", id |-> i, block |-> b, max |-> n]
    OBVIOUS
  <2>2. thread' = [thread EXCEPT ![t] = x]
    BY <1>3, <1>5, <1>7, <2>1 DEF NewCache
  <2>3. thread'[t] = x
    BY <2>2 DEF IInv, TypeOK
  <2>4. Reserved(t)' = Min2(Initial, n)
    BY <2>1, <2>3 DEF Reserved, Pending
  <2>5. QED
    BY <1>1, <1>2, <1>3, <1>4, <1>6, <2>2, <2>4, EnterReserves
<1>8. CASE cache_blocks[i] # NoBlock
  <2>1. PICK b, m, x : /\ b = cache_blocks[i]
                       /\ m = IF block'[b].is_file THEN n ELSE block'[b].maximum_capacity
                       /\ x = [pc |-> "clear", id |-> i, block |-> b, max |-> m]
    OBVIOUS
  <2>2. thread' = [thread EXCEPT ![t] = x]
    BY <1>3, <1>5, <1>8, <2>1 DEF NewCache
  <2>3. thread'[t] = x
    BY <2>2 DEF IInv, TypeOK
  <2>4. Reserved(t)' = 0 \/ Reserved(t)' = Min2(Initial, n)
    <3>1. x.pc = "clear" /\ x.block = b /\ x.max = m
      BY <2>1
    <3>2. CASE block'[b].is_file
      BY <2>1, <2>3, <3>1, <3>2 DEF Reserved
    <3>3. CASE ~ block'[b].is_file
      BY <2>1, <2>3, <3>1, <3>3 DEF Reserved
    <3>4. QED
      BY <3>2, <3>3
  <2>5. QED
    BY <1>1, <1>2, <1>3, <1>4, <1>6, <2>2, <2>4, EnterReserves
<1>9. QED
  BY <1>7, <1>8

LEMMA OpenReserves ==
  ASSUME IInv, IInv', ReservedIsBounded, NEW t \in Threads, NEW i \in Ids,
         OpenSource(t, i) \/ DeletePath(t, i)
  PROVE  ReservedIsBounded'
<1>1. /\ thread[t].pc = "idle"
      /\ UNCHANGED <<block, cache_blocks, current_cache_utilization, disk>>
  BY DEF OpenSource, DeletePath
<1>2. PICK x : thread' = [thread EXCEPT ![t] = x] /\ x.pc \in {"reading", "free"}
  <2>1. CASE OpenSource(t, i)
    <3>1. PICK b, a, z, x :
            /\ x = [pc |-> "reading", id |-> i, block |-> b, in_array |-> a, array_size |-> z]
            /\ thread' = [thread EXCEPT ![t] = x]
      BY <2>1 DEF OpenSource
    <3>2. x.pc \in {"reading", "free"}
      BY <3>1
    <3>3. QED
      BY <3>1, <3>2
  <2>2. CASE DeletePath(t, i)
    <3>1. PICK b, x : /\ x = [pc |-> "free", id |-> i, block |-> b]
                      /\ thread' = [thread EXCEPT ![t] = x]
      BY <2>2 DEF DeletePath
    <3>2. x.pc \in {"reading", "free"}
      BY <3>1
    <3>3. QED
      BY <3>1, <3>2
  <2>3. QED
    BY <2>1, <2>2
<1>3. Moved
  BY <1>1, StayMoves
<1>4. thread'[t] = x
  BY <1>2 DEF IInv, TypeOK
<1>5. Reserved(t)' = 0
  BY <1>2, <1>4 DEF Reserved, Pending
<1>6. current_cache_utilization' <= current_cache_utilization
  <2>1. current_cache_utilization \in Nat
    BY DEF IInv, TypeOK
  <2>2. QED
    BY <1>1, <2>1
<1>7. QED
  BY <1>1, <1>2, <1>3, <1>5, <1>6, EnterReserves

LEMMA ReservedNext ==
  ASSUME IInv, IInv', ReservedIsBounded, [Next]_vars
  PROVE  ReservedIsBounded'
<1>1. CASE UNCHANGED vars
  BY <1>1 DEF vars, ReservedIsBounded, Reserved, Pending
<1>2. CASE Next
  <2>1. PICK t \in Threads :
          \/ \E i \in Ids : NewCache(t, i) \/ OpenSource(t, i) \/ DeletePath(t, i)
          \/ Clear(t) \/ InitializeMemory(t)
          \/ Write(t) \/ Extend(t) \/ CloseSink(t) \/ CloseSource(t) \/ Free(t)
    BY <1>2 DEF Next
  <2>2. CASE \E i \in Ids : NewCache(t, i) \/ OpenSource(t, i) \/ DeletePath(t, i)
    BY <2>2, NewCacheReserves, OpenReserves
  <2>3. CASE Write(t) \/ Clear(t) \/ InitializeMemory(t) \/ Extend(t)
    BY <2>3, WriteReserves, ClearReserves, InitializeReserves, ExtendReserves
  <2>4. CASE CloseSink(t) \/ CloseSource(t) \/ Free(t)
    <3>1. /\ thread[t].pc \in {"writing", "reading", "free"}
          /\ \E m : Destroy(m, [thread EXCEPT ![t] = Idle])
      BY <2>4 DEF CloseSink, CloseSource, Free
    <3>2. QED
      BY <3>1, DestroyReserves
  <2>5. QED
    BY <2>1, <2>2, <2>3, <2>4
<1>3. QED
  BY <1>1, <1>2

\* There is a thread: the bound says nothing of a program without one.
LEMMA ReservedInit ==
  ASSUME Init, Threads # {}
  PROVE  ReservedIsBounded
<1> DEFINE f == [t \in Threads |-> Reserved(t)]
           n == Cardinality(Threads)
<1>1. \A t \in Threads : f[t] \in 0 .. 0
  BY DEF Init, Idle, Reserved, Pending
<1>2. DOMAIN f = Threads /\ (ReservedIsBounded <=>
        current_cache_utilization + SumFunction(f) <= Maximum + (n - 1) * Growth)
  BY DEF ReservedIsBounded
<1>3. IsFiniteSet(Threads) /\ n \in Nat /\ Growth \in Nat /\ Maximum \in Nat /\ n # 0
  BY GrowthTyped, CacheManagerAssumption, FS_CardinalityType, FS_EmptySet
<1> HIDE DEF f, n
<1>4. SumFunctionOnSet(f, Threads) = 0
  <2>1. SumFunctionOnSet(f, Threads) \in 0 .. Cardinality(Threads) * 0
    BY <1>1, <1>3, SumBound
  <2>2. QED
    BY <1>3, <2>1 DEF n
<1>5. SumFunction(f) = 0
  BY <1>2, <1>4 DEF SumFunction
<1>6. PICK k \in Nat : k = n - 1
  BY <1>3
<1>7. k * Growth \in Nat
  BY <1>3, <1>6
<1>8. QED
  BY <1>2, <1>3, <1>5, <1>6, <1>7 DEF Init

LEMMA ReservedCoversPending ==
  ASSUME IInv, ReservedIsBounded
  PROVE  OvercommitIsBounded
<1> DEFINE f == [t \in Threads |-> Pending(t)]
           g == [t \in Threads |-> Reserved(t)]
<1>1. \A t \in Threads : g[t] \in 0 .. Growth
  BY ReservedBound DEF ReservedIsTyped
<1>2. \A t \in Threads : f[t] = 0 \/ f[t] = g[t]
  BY DEF Reserved, Pending
<1>3. /\ DOMAIN f = Threads /\ DOMAIN g = Threads
      /\ OvercommitIsBounded <=> current_cache_utilization + SumFunction(f)
                                  <= Maximum + (Cardinality(Threads) - 1) * Growth
      /\ current_cache_utilization + SumFunction(g) <= Maximum + (Cardinality(Threads) - 1) * Growth
  BY DEF OvercommitIsBounded, ReservedIsBounded
<1> HIDE DEF f, g
<1>4. \A t \in Threads : f[t] \in Int /\ g[t] \in Int /\ f[t] <= g[t]
  BY <1>1, <1>2, GrowthTyped
<1>5. Summable(f, Threads) /\ Summable(g, Threads)
  BY <1>4, CacheManagerAssumption DEF Summable
<1>6. SumFunctionOnSet(f, Threads) <= SumFunctionOnSet(g, Threads)
  BY <1>4, <1>5, SumMonotone
<1>7. SumFunctionOnSet(f, Threads) \in Int /\ SumFunctionOnSet(g, Threads) \in Int
  BY <1>5, SumType
<1>8. SumFunction(f) = SumFunctionOnSet(f, Threads) /\ SumFunction(g) = SumFunctionOnSet(g, Threads)
  BY <1>3 DEF SumFunction
<1>9. current_cache_utilization \in Nat /\ Maximum \in Nat
  BY CacheManagerAssumption DEF IInv, TypeOK
<1>10. PICK k \in Int : k = (Cardinality(Threads) - 1) * Growth
  <2>1. Cardinality(Threads) \in Nat /\ Growth \in Nat
    BY GrowthTyped, CacheManagerAssumption, FS_CardinalityType
  <2>2. QED
    BY <2>1
<1>11. QED
  BY <1>3, <1>6, <1>7, <1>8, <1>9, <1>10

\* "It is possible to exceed maximum cache utilization under certain race
\* conditions": for any number of threads, by no more than one growth of a block
\* for every other thread.
THEOREM OvercommitCorrect ==
  ASSUME Threads # {}
  PROVE  Spec => []OvercommitIsBounded
<1>1. Init => ReservedIsBounded
  BY ReservedInit
<1>2. IInv /\ IInv' /\ ReservedIsBounded /\ [Next]_vars => ReservedIsBounded'
  BY ReservedNext
<1>3. IInv /\ ReservedIsBounded => OvercommitIsBounded
  BY ReservedCoversPending
<1>4. QED
  BY <1>1, <1>2, <1>3, Invariance, PTL DEF Spec
=============================================================================
