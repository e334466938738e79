----------------------------- MODULE SumTheorems -----------------------------
(***************************************************************************)
(* Facts about SumOf(f, S), which is a recursion over the subsets of S     *)
(* that takes out whichever element CHOOSE names.  Induction is over a set *)
(* of sets and the least counterexample, by the library's WFMin: the       *)
(* recursion has exactly one solution on a finite set (RecursionUnique,    *)
(* SumRecursion), the order does not matter (SumTake), and from there on   *)
(* nothing below or in the modules that cite it unfolds a sum again.       *)
(***************************************************************************)
EXTENDS Sums, FiniteSetTheorems, TLAPS

(* What holds of a subset of S whenever it holds of the smaller ones holds *)
(* of every subset of S.                                                   *)
LEMMA SubsetInduction ==
  ASSUME NEW S, IsFiniteSet(S), NEW G,
         \A T \in SUBSET S : (\A U \in SUBSET T : U # T => U \in G) => T \in G
  PROVE  \A T \in SUBSET S : T \in G
<1> DEFINE Bad == {T \in SUBSET S : T \notin G}
<1> SUFFICES ASSUME Bad # {} PROVE FALSE
  OBVIOUS
<1>1. IsWellFoundedOn(StrictSubsetOrdering(S), SUBSET S)
  <2>1. IsWellFoundedOn(StrictSubsetOrdering(S), FiniteSubsetsOf(S))
    BY FS_StrictSubsetOrderingWellFounded, Zenon
  <2>2. FiniteSubsetsOf(S) = SUBSET S
    BY FS_FiniteSubsetsOfFinite, Zenon
  <2> QED BY <2>1, <2>2, Zenon
<1>2. Bad \subseteq SUBSET S
  OBVIOUS
<1>3. PICK T \in Bad : \A U \in Bad : ~(<<U, T>> \in StrictSubsetOrdering(S))
  <2> DEFINE R == StrictSubsetOrdering(S)
             Subsets == SUBSET S
  <2>1. IsWellFoundedOn(R, Subsets) /\ Bad \subseteq Subsets /\ Bad # {}
    BY <1>1, <1>2
  <2> HIDE DEF Bad, R, Subsets
  <2>2. \E T \in Bad : \A U \in Bad : ~(<<U, T>> \in R)
    BY <2>1, WFMin
  <2> QED BY <2>2 DEF R
<1>4. ASSUME NEW U \in SUBSET T, U # T PROVE U \in G
  <2>1. <<U, T>> \in StrictSubsetOrdering(S)
    BY <1>4 DEF StrictSubsetOrdering
  <2> QED
    BY <1>3, <2>1
<1> QED
  BY <1>3, <1>4

-----------------------------------------------------------------------------
(* The recursion, and that it has one solution.                            *)
PickOf(T) == CHOOSE x \in T : TRUE

Recursion(it, f, S) ==
  [T \in SUBSET S |-> IF T = {} THEN 0 ELSE f[PickOf(T)] + it[T \ {PickOf(T)}]]

(* MapThenSumSet's own definition, written with Recursion. *)
LEMMA Unfold == ASSUME NEW f, NEW S
  PROVE SumOf(f, S) = (CHOOSE it : it = Recursion(it, f, S))[S]
  BY Zenon DEF SumOf, MapThenSumSet, MapThenFoldSet, Recursion, PickOf

(* CHOOSE takes an element of the set. *)
LEMMA PickIn == ASSUME NEW T, T # {} PROVE PickOf(T) \in T
  BY DEF PickOf

(* Two functions that satisfy the recursion are equal. *)
LEMMA RecursionUnique ==
  ASSUME NEW f, NEW S, IsFiniteSet(S), NEW g, NEW h,
         g = Recursion(g, f, S), h = Recursion(h, f, S)
  PROVE  g = h
<1> DEFINE G == {T \in SUBSET S : g[T] = h[T]}
<1>1. ASSUME NEW T \in SUBSET S, \A U \in SUBSET T : U # T => U \in G
      PROVE T \in G
  <2>1. CASE T = {}
    <3>1. g[T] = 0 /\ h[T] = 0
      BY <2>1 DEF Recursion
    <3> QED BY <3>1
  <2>2. CASE T # {}
    <3> DEFINE x == PickOf(T)
    <3>1. x \in T
      BY <2>2, PickIn
    <3>2. g[T \ {x}] = h[T \ {x}]
      BY <1>1, <3>1
    <3>3. g[T] = f[x] + g[T \ {x}] /\ h[T] = f[x] + h[T \ {x}]
      BY <2>2 DEF Recursion
    <3> QED BY <3>2, <3>3
  <2> QED BY <2>1, <2>2
<1>2. \A T \in SUBSET S : T \in G
  <2> HIDE DEF G
  <2> QED BY <1>1, SubsetInduction
<1>3. \A T \in SUBSET S : g[T] = h[T]
  BY <1>2
<1>4. g = [T \in SUBSET S |-> g[T]] /\ h = [T \in SUBSET S |-> h[T]]
  BY Zenon DEF Recursion
<1> QED
  BY <1>3, <1>4

(* The sums themselves satisfy it. *)
LEMMA SumRecursion ==
  ASSUME NEW f, NEW S, IsFiniteSet(S)
  PROVE  SumOf(f, S) = IF S = {} THEN 0 ELSE f[PickOf(S)] + SumOf(f, S \ {PickOf(S)})
<1> DEFINE G == {T \in SUBSET S : SumOf(f, T) = IF T = {} THEN 0
                     ELSE f[PickOf(T)] + SumOf(f, T \ {PickOf(T)})}
<1>1. ASSUME NEW T \in SUBSET S, \A U \in SUBSET T : U # T => U \in G
      PROVE T \in G
  <2> DEFINE total == IF T = {} THEN 0 ELSE f[PickOf(T)] + SumOf(f, T \ {PickOf(T)})
             w == [U \in SUBSET T |-> IF U = T THEN total ELSE SumOf(f, U)]
  <2>1. ASSUME NEW U \in SUBSET T
        PROVE w[U] = IF U = {} THEN 0 ELSE f[PickOf(U)] + w[U \ {PickOf(U)}]
    <3>1. CASE U = {}
      <4>1. CASE T = {}
        BY <3>1, <4>1
      <4>2. CASE T # {}
        <5>1. U \in G
          BY <1>1, <3>1, <4>2
        <5> QED BY <3>1, <4>2, <5>1
      <4> QED BY <4>1, <4>2
    <3>2. CASE U # {}
      <4>1. PickOf(U) \in U
        BY <3>2, PickIn
      <4>2. U \ {PickOf(U)} \in SUBSET T /\ U \ {PickOf(U)} # T
        BY <4>1
      <4>3. w[U \ {PickOf(U)}] = SumOf(f, U \ {PickOf(U)})
        BY <4>2
      <4>4. w[U] = f[PickOf(U)] + SumOf(f, U \ {PickOf(U)})
        <5>1. CASE U = T
          BY <3>2, <5>1
        <5>2. CASE U # T
          <6>1. U \in G
            BY <1>1, <5>2
          <6> QED BY <3>2, <5>2, <6>1
        <5> QED BY <5>1, <5>2
      <4> HIDE DEF w
      <4> QED BY <3>2, <4>3, <4>4
    <3> QED BY <3>1, <3>2
  <2>2. w = Recursion(w, f, T)
    <3>1. w = [U \in SUBSET T |-> w[U]]
      OBVIOUS
    <3> HIDE DEF w
    <3> QED BY <2>1, <3>1 DEF Recursion
  <2>3. IsFiniteSet(T)
    BY FS_Subset
  <2>4. (CHOOSE it : it = Recursion(it, f, T)) = w
    <3> HIDE DEF w
    <3>1. \A it : it = Recursion(it, f, T) => it = w
      BY <2>2, <2>3, RecursionUnique, Zenon
    <3> QED BY <2>2, <3>1, Zenon
  <2>5. SumOf(f, T) = w[T]
    BY <2>4, Unfold, Zenon
  <2> QED BY <2>5
<1>2. \A T \in SUBSET S : T \in G
  <2> HIDE DEF G
  <2> QED BY <1>1, SubsetInduction
<1>3. S \in G
  BY <1>2
<1> QED BY <1>3

-----------------------------------------------------------------------------
(* The facts to cite.                                                      *)

(* Nothing adds up to nothing. *)
LEMMA SumEmpty == ASSUME NEW f PROVE SumOf(f, {}) = 0
BY SumRecursion, FS_EmptySet

(* A sum of integers is one. *)
LEMMA SumIsInt ==
  ASSUME NEW f, NEW S, IsFiniteSet(S), \A x \in S : f[x] \in Int
  PROVE  SumOf(f, S) \in Int
<1> DEFINE G == {T \in SUBSET S : SumOf(f, T) \in Int}
<1>1. ASSUME NEW T \in SUBSET S, \A U \in SUBSET T : U # T => U \in G PROVE T \in G
  <2>1. IsFiniteSet(T)
    BY FS_Subset
  <2>2. CASE T = {}
    BY <2>2, SumEmpty
  <2>3. CASE T # {}
    <3>1. PickOf(T) \in T
      BY <2>3, PickIn
    <3>2. SumOf(f, T) = f[PickOf(T)] + SumOf(f, T \ {PickOf(T)})
      BY <2>1, <2>3, SumRecursion
    <3>3. T \ {PickOf(T)} \in G
      BY <1>1, <3>1
    <3> QED BY <3>1, <3>2, <3>3
  <2> QED BY <2>2, <2>3
<1>2. \A T \in SUBSET S : T \in G
  <2> HIDE DEF G
  <2> QED BY <1>1, SubsetInduction
<1> QED BY <1>2

(* Any element can be taken out of a sum, not only the one CHOOSE names. *)
THEOREM SumTake ==
  ASSUME NEW f, NEW S, IsFiniteSet(S), \A x \in S : f[x] \in Int, NEW a \in S
  PROVE  SumOf(f, S) = f[a] + SumOf(f, S \ {a})
<1> DEFINE G == {T \in SUBSET S : \A x \in T : SumOf(f, T) = f[x] + SumOf(f, T \ {x})}
<1>1. ASSUME NEW T \in SUBSET S, \A U \in SUBSET T : U # T => U \in G PROVE T \in G
  <2> SUFFICES ASSUME NEW x \in T PROVE SumOf(f, T) = f[x] + SumOf(f, T \ {x})
    OBVIOUS
  <2> DEFINE p == PickOf(T)
  <2>1. /\ IsFiniteSet(T) /\ IsFiniteSet(T \ {x})
        /\ IsFiniteSet(T \ {p}) /\ IsFiniteSet((T \ {p}) \ {x})
    BY FS_Subset
  <2>2. p \in T
    BY PickIn
  <2>3. SumOf(f, T) = f[p] + SumOf(f, T \ {p})
    BY <2>1, SumRecursion
  <2> HIDE DEF p
  <2>4. CASE x = p
    BY <2>3, <2>4
  <2>5. CASE x # p
    <3>1. SumOf(f, T \ {p}) = f[x] + SumOf(f, (T \ {p}) \ {x})
      <4>1. T \ {p} \in G
        BY <1>1, <2>2
      <4> QED BY <2>5, <4>1
    <3>2. SumOf(f, T \ {x}) = f[p] + SumOf(f, (T \ {x}) \ {p})
      <4>1. T \ {x} \in G
        BY <1>1
      <4> QED BY <2>2, <2>5, <4>1
    <3>3. (T \ {p}) \ {x} = (T \ {x}) \ {p}
      OBVIOUS
    <3>4. SumOf(f, (T \ {p}) \ {x}) \in Int
      BY <2>1, SumIsInt
    <3>5. f[x] \in Int /\ f[p] \in Int
      BY <2>2
    <3> DEFINE rest == SumOf(f, (T \ {x}) \ {p})
    <3>6. rest \in Int /\ SumOf(f, T \ {p}) = f[x] + rest
      BY <3>1, <3>3, <3>4
    <3>7. SumOf(f, T) = f[p] + (f[x] + rest)
      BY <2>3, <3>6
    <3> HIDE DEF rest
    <3>8. f[p] + (f[x] + rest) = f[x] + (f[p] + rest)
      BY <3>5, <3>6
    <3> QED BY <3>2, <3>7, <3>8 DEF rest
  <2> QED BY <2>4, <2>5
<1>2. \A T \in SUBSET S : T \in G
  <2> HIDE DEF G
  <2> QED BY <1>1, SubsetInduction
<1>3. S \in G
  BY <1>2
<1> QED BY <1>3

(* Equal summands, equal sums.                                              *)
LEMMA SumCongruence ==
  ASSUME NEW f, NEW g, NEW S, IsFiniteSet(S),
         \A x \in S : f[x] \in Int /\ g[x] = f[x]
  PROVE  SumOf(g, S) = SumOf(f, S)
<1> DEFINE G == {T \in SUBSET S : SumOf(g, T) = SumOf(f, T)}
<1>1. ASSUME NEW T \in SUBSET S, \A U \in SUBSET T : U # T => U \in G PROVE T \in G
  <2>1. IsFiniteSet(T)
    BY FS_Subset
  <2>2. CASE T = {}
    BY <2>2, SumEmpty
  <2>3. ASSUME NEW a \in T PROVE SumOf(g, T) = SumOf(f, T)
    <3>1. SumOf(f, T) = f[a] + SumOf(f, T \ {a}) /\ SumOf(g, T) = g[a] + SumOf(g, T \ {a})
      BY <2>1, SumTake
    <3>2. T \ {a} \in G
      BY <1>1
    <3> QED BY <3>1, <3>2
  <2> QED BY <2>2, <2>3
<1>2. \A T \in SUBSET S : T \in G
  <2> HIDE DEF G
  <2> QED BY <1>1, SubsetInduction
<1> QED BY <1>2

(* A sum of natural numbers is one.                                         *)
LEMMA SumIsNat ==
  ASSUME NEW f, NEW S, IsFiniteSet(S), \A x \in S : f[x] \in Nat
  PROVE  SumOf(f, S) \in Nat
<1> DEFINE G == {T \in SUBSET S : SumOf(f, T) \in Nat}
<1>1. ASSUME NEW T \in SUBSET S, \A U \in SUBSET T : U # T => U \in G PROVE T \in G
  <2>1. IsFiniteSet(T)
    BY FS_Subset
  <2>2. CASE T = {}
    BY <2>2, SumEmpty
  <2>3. ASSUME NEW a \in T PROVE SumOf(f, T) \in Nat
    <3>1. SumOf(f, T) = f[a] + SumOf(f, T \ {a})
      BY <2>1, SumTake
    <3>2. T \ {a} \in G
      BY <1>1
    <3> QED BY <3>1, <3>2
  <2> QED BY <2>2, <2>3
<1>2. \A T \in SUBSET S : T \in G
  <2> HIDE DEF G
  <2> QED BY <1>1, SubsetInduction
<1> QED BY <1>2

(* Sums add up pointwise.                                                   *)
LEMMA SumPlus ==
  ASSUME NEW f, NEW g, NEW h, NEW S, IsFiniteSet(S),
         \A x \in S : f[x] \in Int /\ g[x] \in Int /\ h[x] = f[x] + g[x]
  PROVE  SumOf(h, S) = SumOf(f, S) + SumOf(g, S)
<1> DEFINE G == {T \in SUBSET S : SumOf(h, T) = SumOf(f, T) + SumOf(g, T)}
<1>1. ASSUME NEW T \in SUBSET S, \A U \in SUBSET T : U # T => U \in G PROVE T \in G
  <2>1. IsFiniteSet(T)
    BY FS_Subset
  <2>2. CASE T = {}
    BY <2>2, SumEmpty
  <2>3. ASSUME NEW a \in T PROVE SumOf(h, T) = SumOf(f, T) + SumOf(g, T)
    <3>1. /\ SumOf(f, T) = f[a] + SumOf(f, T \ {a})
          /\ SumOf(g, T) = g[a] + SumOf(g, T \ {a})
          /\ SumOf(h, T) = h[a] + SumOf(h, T \ {a})
      BY <2>1, SumTake
    <3>2. T \ {a} \in G
      BY <1>1
    <3>3. SumOf(f, T \ {a}) \in Int /\ SumOf(g, T \ {a}) \in Int
      BY <2>1, FS_Subset, SumIsInt
    <3>4. SumOf(h, T \ {a}) = SumOf(f, T \ {a}) + SumOf(g, T \ {a})
      BY <3>2
    <3>5. f[a] \in Int /\ g[a] \in Int /\ h[a] = f[a] + g[a]
      OBVIOUS
    <3> QED BY <3>1, <3>3, <3>4, <3>5
  <2> QED BY <2>2, <2>3
<1>2. \A T \in SUBSET S : T \in G
  <2> HIDE DEF G
  <2> QED BY <1>1, SubsetInduction
<1> QED BY <1>2

(* Equal summands add up to their number's multiple. *)
LEMMA SumOfEquals ==
  ASSUME NEW c \in Int, NEW f, NEW S, IsFiniteSet(S), \A x \in S : f[x] = c
  PROVE  SumOf(f, S) = c * Cardinality(S)
<1> DEFINE G == {T \in SUBSET S : SumOf(f, T) = c * Cardinality(T)}
<1>1. ASSUME NEW T \in SUBSET S, \A U \in SUBSET T : U # T => U \in G PROVE T \in G
  <2>1. IsFiniteSet(T)
    BY FS_Subset
  <2>2. CASE T = {}
    BY <2>2, SumEmpty, FS_EmptySet
  <2>3. ASSUME NEW a \in T PROVE SumOf(f, T) = c * Cardinality(T)
    <3>1. SumOf(f, T) = f[a] + SumOf(f, T \ {a})
      BY <2>1, SumTake
    <3>2. SumOf(f, T \ {a}) = c * Cardinality(T \ {a})
      <4>1. T \ {a} \in G
        BY <1>1
      <4> QED BY <4>1
    <3>3. Cardinality(T \ {a}) = Cardinality(T) - 1 /\ Cardinality(T) \in Nat
      BY <2>1, FS_RemoveElement, FS_CardinalityType
    <3>4. \A n \in Int : c + c * (n - 1) = c * n
      OBVIOUS
    <3> QED BY <3>1, <3>2, <3>3, <3>4
  <2> QED BY <2>2, <2>3
<1>2. \A T \in SUBSET S : T \in G
  <2> HIDE DEF G
  <2> QED BY <1>1, SubsetInduction
<1> QED BY <1>2

(* Zeros add up to zero.                                                    *)
LEMMA SumOfNothing ==
  ASSUME NEW f, NEW S, IsFiniteSet(S), \A x \in S : f[x] = 0
  PROVE  SumOf(f, S) = 0
<1> DEFINE G == {T \in SUBSET S : SumOf(f, T) = 0}
<1>1. ASSUME NEW T \in SUBSET S, \A U \in SUBSET T : U # T => U \in G PROVE T \in G
  <2>1. IsFiniteSet(T)
    BY FS_Subset
  <2>2. CASE T = {}
    BY <2>2, SumEmpty
  <2>3. ASSUME NEW a \in T PROVE SumOf(f, T) = 0
    <3>1. SumOf(f, T) = f[a] + SumOf(f, T \ {a})
      BY <2>1, SumTake
    <3>2. T \ {a} \in G
      BY <1>1
    <3> QED BY <3>1, <3>2
  <2> QED BY <2>2, <2>3
<1>2. \A T \in SUBSET S : T \in G
  <2> HIDE DEF G
  <2> QED BY <1>1, SubsetInduction
<1> QED BY <1>2

(* Smaller summands, a smaller sum.                                         *)
LEMMA SumBounded ==
  ASSUME NEW f, NEW g, NEW S, IsFiniteSet(S),
         \A x \in S : f[x] \in Int /\ g[x] \in Int /\ f[x] <= g[x]
  PROVE  SumOf(f, S) <= SumOf(g, S)
<1> DEFINE G == {T \in SUBSET S : SumOf(f, T) <= SumOf(g, T)}
<1>1. ASSUME NEW T \in SUBSET S, \A U \in SUBSET T : U # T => U \in G PROVE T \in G
  <2>1. IsFiniteSet(T)
    BY FS_Subset
  <2>2. CASE T = {}
    BY <2>2, SumEmpty
  <2>3. ASSUME NEW a \in T PROVE SumOf(f, T) <= SumOf(g, T)
    <3>1. SumOf(f, T) = f[a] + SumOf(f, T \ {a}) /\ SumOf(g, T) = g[a] + SumOf(g, T \ {a})
      BY <2>1, SumTake
    <3>2. T \ {a} \in G
      BY <1>1
    <3>3. SumOf(f, T \ {a}) \in Int /\ SumOf(g, T \ {a}) \in Int
      BY <2>1, FS_Subset, SumIsInt
    <3> QED BY <3>1, <3>2, <3>3
  <2> QED BY <2>2, <2>3
<1>2. \A T \in SUBSET S : T \in G
  <2> HIDE DEF G
  <2> QED BY <1>1, SubsetInduction
<1> QED BY <1>2

(* A new element adds its value. *)
LEMMA SumGrow ==
  ASSUME NEW f, NEW S, IsFiniteSet(S), NEW a, a \notin S, f[a] \in Int,
         \A x \in S : f[x] \in Int
  PROVE  SumOf(f, S \cup {a}) = f[a] + SumOf(f, S)
<1>1. IsFiniteSet(S \cup {a})
  BY FS_AddElement
<1>2. SumOf(f, S \cup {a}) = f[a] + SumOf(f, (S \cup {a}) \ {a})
  BY <1>1, SumTake
<1>3. (S \cup {a}) \ {a} = S
  OBVIOUS
<1> QED BY <1>2, <1>3

(* One summand changes: the sum changes by as much. *)
LEMMA SumChange ==
  ASSUME NEW f, NEW g, NEW S, IsFiniteSet(S), NEW a \in S,
         \A x \in S : f[x] \in Int /\ g[x] \in Int,
         \A x \in S \ {a} : g[x] = f[x]
  PROVE  SumOf(g, S) = SumOf(f, S) - f[a] + g[a]
<1>1. IsFiniteSet(S \ {a})
  BY FS_Subset
<1>2. SumOf(f, S) = f[a] + SumOf(f, S \ {a}) /\ SumOf(g, S) = g[a] + SumOf(g, S \ {a})
  BY SumTake
<1>3. SumOf(g, S \ {a}) = SumOf(f, S \ {a}) /\ SumOf(f, S \ {a}) \in Int
  BY <1>1, SumCongruence, SumIsInt
<1>4. f[a] \in Int /\ g[a] \in Int
  OBVIOUS
<1> QED BY <1>2, <1>3, <1>4

(* Two summands change. *)
LEMMA SumMove ==
  ASSUME NEW f, NEW g, NEW S, IsFiniteSet(S), NEW a \in S, NEW b \in S, a # b,
         \A x \in S : f[x] \in Int /\ g[x] \in Int,
         \A x \in S \ {a, b} : g[x] = f[x]
  PROVE  SumOf(g, S) = SumOf(f, S) - f[a] - f[b] + g[a] + g[b]
<1> DEFINE h == [x \in S |-> IF x = a THEN g[a] ELSE f[x]]
<1>1. \A x \in S : h[x] \in Int
  OBVIOUS
<1>2. SumOf(h, S) = SumOf(f, S) - f[a] + h[a]
  <2>1. \A x \in S \ {a} : h[x] = f[x]
    OBVIOUS
  <2> HIDE DEF h
  <2> QED BY <1>1, <2>1, SumChange
<1>3. SumOf(g, S) = SumOf(h, S) - h[b] + g[b]
  <2>1. \A x \in S \ {b} : g[x] = h[x]
    OBVIOUS
  <2> HIDE DEF h
  <2> QED BY <1>1, <2>1, SumChange
<1>4. h[a] = g[a] /\ h[b] = f[b]
  OBVIOUS
<1>5. SumOf(f, S) \in Int /\ f[a] \in Int /\ f[b] \in Int /\ g[a] \in Int /\ g[b] \in Int
  BY SumIsInt
<1> HIDE DEF h
<1> QED BY <1>2, <1>3, <1>4, <1>5

(* No summand of a sum of naturals exceeds it. *)
LEMMA SumCovers ==
  ASSUME NEW f, NEW S, IsFiniteSet(S), \A x \in S : f[x] \in Nat, NEW a \in S
  PROVE  f[a] <= SumOf(f, S)
<1>1. SumOf(f, S) = f[a] + SumOf(f, S \ {a})
  BY SumTake
<1>2. SumOf(f, S \ {a}) \in Nat
  BY FS_Subset, SumIsNat
<1> QED BY <1>1, <1>2

\* What adds nothing need not be summed.
LEMMA SumOverSupport ==
  ASSUME NEW f, NEW S, IsFiniteSet(S), NEW R \in SUBSET S,
         \A x \in S : f[x] \in Int, \A x \in S \ R : f[x] = 0
  PROVE  SumOf(f, R) = SumOf(f, S)
<1> DEFINE G == {T \in SUBSET S : SumOf(f, R \cap T) = SumOf(f, T)}
<1>1. ASSUME NEW T \in SUBSET S, \A U \in SUBSET T : U # T => U \in G PROVE T \in G
  <2>1. IsFiniteSet(T) /\ IsFiniteSet(R \cap T)
    BY FS_Subset
  <2>2. CASE T = {}
    <3>1. R \cap T = T
      BY <2>2
    <3> QED BY <3>1
  <2>3. ASSUME NEW a \in T PROVE SumOf(f, R \cap T) = SumOf(f, T)
    <3>1. SumOf(f, T) = f[a] + SumOf(f, T \ {a})
      BY <2>1, SumTake
    <3>2. T \ {a} \in G
      BY <1>1
    <3>3. CASE a \in R
      <4>1. SumOf(f, R \cap T) = f[a] + SumOf(f, (R \cap T) \ {a})
        BY <2>1, <3>3, SumTake
      <4>2. (R \cap T) \ {a} = R \cap (T \ {a})
        OBVIOUS
      <4> QED BY <3>1, <3>2, <4>1, <4>2
    <3>4. CASE a \notin R
      <4>1. R \cap T = R \cap (T \ {a}) /\ f[a] = 0
        BY <3>4
      <4>2. SumOf(f, T \ {a}) \in Int
        <5>1. IsFiniteSet(T \ {a})
          BY <2>1, FS_Subset
        <5> QED BY <5>1, SumIsInt
      <4>3. SumOf(f, T) = SumOf(f, T \ {a})
        BY <3>1, <4>1, <4>2
      <4>4. SumOf(f, R \cap (T \ {a})) = SumOf(f, T \ {a})
        BY <3>2
      <4> QED BY <4>1, <4>3, <4>4
    <3> QED BY <3>3, <3>4
  <2>4. T \in G
    BY <2>2, <2>3
  <2> QED BY <2>4
<1> HIDE DEF G
<1>2. \A T \in SUBSET S : T \in G
  BY <1>1, SubsetInduction
<1>3. S \in G
  BY <1>2
<1>4. R \cap S = R
  OBVIOUS
<1> QED BY <1>3, <1>4 DEF G

(* Two sets that share nothing. *)
LEMMA SumUnion ==
  ASSUME NEW f, NEW R, IsFiniteSet(R), NEW S, IsFiniteSet(S), R \cap S = {},
         \A x \in R \cup S : f[x] \in Int
  PROVE  SumOf(f, R \cup S) = SumOf(f, R) + SumOf(f, S)
<1> DEFINE G == {T \in SUBSET S : SumOf(f, R \cup T) = SumOf(f, R) + SumOf(f, T)}
<1>1. SumOf(f, R) \in Int
  BY SumIsInt
<1>2. ASSUME NEW T \in SUBSET S, \A U \in SUBSET T : U # T => U \in G PROVE T \in G
  <2>1. IsFiniteSet(T) /\ IsFiniteSet(R \cup T)
    BY FS_Subset, FS_Union
  <2>2. CASE T = {}
    <3>1. R \cup T = R /\ SumOf(f, T) = 0
      BY <2>2, SumEmpty
    <3>2. SumOf(f, R \cup T) = SumOf(f, R)
      BY <3>1, Zenon
    <3>3. SumOf(f, R \cup T) = SumOf(f, R) + SumOf(f, T)
      BY <1>1, <3>1, <3>2
    <3> QED BY <3>3
  <2>3. ASSUME NEW a \in T PROVE SumOf(f, R \cup T) = SumOf(f, R) + SumOf(f, T)
    <3>1. SumOf(f, T) = f[a] + SumOf(f, T \ {a})
      BY <2>1, SumTake
    <3>2. SumOf(f, R \cup T) = f[a] + SumOf(f, (R \cup T) \ {a})
      BY <2>1, SumTake
    <3>3. (R \cup T) \ {a} = R \cup (T \ {a})
      OBVIOUS
    <3>4. T \ {a} \in G
      BY <1>2
    <3>5. f[a] \in Int /\ SumOf(f, T \ {a}) \in Int
      <4>1. IsFiniteSet(T \ {a})
        BY <2>1, FS_Subset
      <4> QED BY <4>1, SumIsInt
    <3>6. SumOf(f, R \cup (T \ {a})) = SumOf(f, R) + SumOf(f, T \ {a})
      BY <3>4
    <3>7. SumOf(f, (R \cup T) \ {a}) = SumOf(f, R) + SumOf(f, T \ {a})
      BY <3>3, <3>6, Zenon
    <3> QED BY <1>1, <3>1, <3>2, <3>5, <3>7
  <2> QED BY <2>2, <2>3
<1>3. \A T \in SUBSET S : T \in G
  <2> HIDE DEF G
  <2> QED BY <1>2, SubsetInduction
<1> QED BY <1>3

(* A sum of sums: over sets N[x] that share nothing. *)
LEMMA SumFamily ==
  ASSUME NEW f, NEW g, NEW N, NEW S, IsFiniteSet(S),
         \A x \in S : IsFiniteSet(N[x]) /\ g[x] = SumOf(f, N[x]) /\ \A y \in N[x] : f[y] \in Int,
         \A x, y \in S : x # y => N[x] \cap N[y] = {}
  PROVE  SumOf(f, UNION {N[x] : x \in S}) = SumOf(g, S)
<1> DEFINE All(T) == UNION {N[x] : x \in T}
           G == {T \in SUBSET S : IsFiniteSet(All(T)) /\ SumOf(f, All(T)) = SumOf(g, T)}
<1>0. \A x \in S : g[x] \in Int
  BY SumIsInt
<1>1. ASSUME NEW T \in SUBSET S, \A U \in SUBSET T : U # T => U \in G PROVE T \in G
  <2>1. IsFiniteSet(T)
    BY FS_Subset
  <2>2. CASE T = {}
    <3>1. All(T) = {} /\ SumOf(f, {}) = 0 /\ SumOf(g, {}) = 0
      BY <2>2, SumEmpty
    <3> QED BY <2>2, <3>1, FS_EmptySet
  <2>3. ASSUME NEW a \in T PROVE T \in G
    <3>1. SumOf(g, T) = g[a] + SumOf(g, T \ {a})
      <4> HIDE DEF G, All
      <4> QED BY <1>0, <2>1, SumTake
    <3>2. T \ {a} \in G
      BY <1>1
    <3> DEFINE R == All(T \ {a})
    <3>3. IsFiniteSet(R) /\ SumOf(f, R) = SumOf(g, T \ {a})
      BY <3>2
    <3>4. All(T) = N[a] \cup R /\ N[a] \cap R = {}
      OBVIOUS
    <3>5. IsFiniteSet(N[a]) /\ g[a] = SumOf(f, N[a]) /\ \A y \in N[a] \cup R : f[y] \in Int
      OBVIOUS
    <3> HIDE DEF R
    <3> DEFINE P == N[a]
    <3>6. IsFiniteSet(P \cup R) /\ SumOf(f, P \cup R) = SumOf(f, P) + SumOf(f, R)
      <4>1. IsFiniteSet(P) /\ P \cap R = {} /\ \A y \in P \cup R : f[y] \in Int
        BY <3>4, <3>5
      <4> HIDE DEF P, G, All
      <4>2. IsFiniteSet(P \cup R)
        BY <3>3, <4>1, FS_Union
      <4> QED BY <3>3, <4>1, <4>2, SumUnion
    <3>7. All(T) = P \cup R
      BY <3>4
    <3> HIDE DEF P, All
    <3>8. SumOf(f, All(T)) = SumOf(g, T)
      BY <3>1, <3>3, <3>5, <3>6, <3>7, Zenon DEF P
    <3> QED BY <3>6, <3>7, <3>8
  <2> QED BY <2>2, <2>3
<1>2. \A T \in SUBSET S : T \in G
  <2> HIDE DEF G
  <2> QED BY <1>1, SubsetInduction
<1> QED BY <1>2
=============================================================================
