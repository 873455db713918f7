------------------------------ MODULE DataTheorems -----------------------------
(***************************************************************************)
(* Facts about finite data that the proofs of several components rest on:  *)
(* induction over the subsets of a finite set, least elements of sets of   *)
(* naturals, and sums.  Each is stated over sets and functions, so that a  *)
(* proof can cite it for the sets and functions of its own component.      *)
(***************************************************************************)
EXTENDS Integers, FiniteSets, Functions, FiniteSetTheorems, WellFoundedInduction, TLAPS

(* What holds of a set as soon as it holds of the set without any one of   *)
(* its elements holds of every finite set.                                 *)
LEMMA SubsetInduction ==
    ASSUME NEW S, IsFiniteSet(S), NEW P \in SUBSET (SUBSET S),
           \A T \in SUBSET S : (\A x \in T : T \ {x} \in P) => T \in P
    PROVE  P = SUBSET S
<1>1. SUFFICES ASSUME (SUBSET S) \ P # {} PROVE FALSE
  OBVIOUS
<1> DEFINE bad == (SUBSET S) \ P
           R == StrictSubsetOrdering(S)
<1>2. bad \subseteq FiniteSubsetsOf(S) /\ bad # {}
  BY <1>1, FS_FiniteSubsetsOfFinite
<1>3. IsWellFoundedOn(R, FiniteSubsetsOf(S))
  BY FS_StrictSubsetOrderingWellFounded
<1> HIDE DEF bad, R
<1>4. PICK T \in bad : \A U \in bad : ~(<<U, T>> \in R)
  BY <1>2, <1>3, WFMin
<1>5. T \in SUBSET S /\ T \notin P
  BY DEF bad
<1>6. ASSUME NEW x \in T PROVE T \ {x} \in P
  <2>1. <<T \ {x}, T>> \in R
    BY <1>5, <1>6 DEF R, StrictSubsetOrdering
  <2>2. QED
    BY <1>4, <1>5, <2>1 DEF bad
<1>7. QED
  BY <1>5, <1>6

(* A set of natural numbers that is not empty has a least element.         *)
LEMMA LeastNatural ==
    ASSUME NEW S \in SUBSET Nat, S # {}
    PROVE  \E n \in S : \A m \in S : n <= m
<1>1. IsWellFoundedOn(OpToRel(<,Nat), Nat)
  BY NatLessThanWellFounded
<1>2. IsWellFoundedOn({ss \in Nat \X Nat : ss[1] < ss[2]}, Nat)
  BY <1>1 DEF OpToRel
<1>3. PICK n \in S : \A m \in S : ~(<<m, n>> \in {ss \in Nat \X Nat : ss[1] < ss[2]})
  BY <1>2, WFMin
<1>4. ASSUME NEW m \in S PROVE n <= m
  <2>1. <<m, n>> \in Nat \X Nat /\ <<m, n>>[1] = m /\ <<m, n>>[2] = n
    OBVIOUS
  <2>2. ~(m < n)
    BY <1>3, <2>1
  <2>3. QED
    BY <2>2
<1>5. QED
  BY <1>4

-------------------------------------------------------------------------------
(***************************************************************************)
(* Sums                                                                    *)
(***************************************************************************)

Pick(s) == CHOOSE x \in s : TRUE
Total(f, S) == SumFunctionOnSet(f, S)

(* The function a sum is defined through.                                  *)
Iterates(g, f, S) ==
    g = [s \in SUBSET S |-> IF s = {} THEN 0 ELSE f[Pick(s)] + g[s \ {Pick(s)}]]

(* There is at most one.                                                   *)
LEMMA IteratesOnce ==
    ASSUME NEW S, IsFiniteSet(S), NEW f, NEW g, NEW h,
           Iterates(g, f, S), Iterates(h, f, S)
    PROVE  g = h
<1> DEFINE P == {T \in SUBSET S : g[T] = h[T]}
<1>1. ASSUME NEW T \in SUBSET S, \A x \in T : T \ {x} \in P PROVE T \in P
  <2>1. CASE T = {}
    BY <2>1 DEF Iterates
  <2>2. CASE T # {}
    <3>1. Pick(T) \in T
      BY <2>2 DEF Pick
    <3>2. g[T \ {Pick(T)}] = h[T \ {Pick(T)}]
      BY <1>1, <3>1
    <3>3. g[T] = f[Pick(T)] + g[T \ {Pick(T)}] /\ h[T] = f[Pick(T)] + h[T \ {Pick(T)}]
      BY <2>2 DEF Iterates
    <3>4. QED
      BY <3>2, <3>3
  <2>3. QED
    BY <2>1, <2>2
<1>2. P = SUBSET S
  <2> HIDE DEF P
  <2>1. P \in SUBSET (SUBSET S)
    BY DEF P
  <2>2. QED
    BY <1>1, <2>1, SubsetInduction
<1>3. QED
  BY <1>2 DEF Iterates

(* So a sum is the value of any such function.                             *)
LEMMA TotalIterates ==
    ASSUME NEW S, IsFiniteSet(S), NEW f, NEW g, Iterates(g, f, S)
    PROVE  Total(f, S) = g[S]
<1>1. \A h : Iterates(h, f, S) => h = g
  BY IteratesOnce
<1>2. QED
  BY <1>1 DEF Total, SumFunctionOnSet, FoldFunctionOnSet, MapThenFoldSet, Iterates, Pick

(* And there is one: it maps each subset to its own sum.                   *)
LEMMA TotalUnfolds ==
    ASSUME NEW S, IsFiniteSet(S), NEW f
    PROVE  Total(f, S) = IF S = {} THEN 0 ELSE f[Pick(S)] + Total(f, S \ {Pick(S)})
<1> DEFINE Unfolds(T) == Total(f, T) = IF T = {} THEN 0
                                       ELSE f[Pick(T)] + Total(f, T \ {Pick(T)})
           P == {T \in SUBSET S : \A U \in SUBSET T : Unfolds(U)}
<1>1. ASSUME NEW T \in SUBSET S, \A x \in T : T \ {x} \in P PROVE T \in P
  <2>1. ASSUME NEW U \in SUBSET T, U # T PROVE Unfolds(U)
    <3>1. PICK x \in T : x \notin U
      BY <2>1
    <3>2. U \in SUBSET (T \ {x})
      BY <3>1
    <3>3. QED
      BY <1>1, <3>1, <3>2
  <2> DEFINE h == [s \in SUBSET T |-> IF s = {} THEN 0
                                      ELSE f[Pick(s)] + Total(f, s \ {Pick(s)})]
  <2>2. Iterates(h, f, T)
    <3>1. ASSUME NEW s \in SUBSET T, s # {} PROVE Total(f, s \ {Pick(s)}) = h[s \ {Pick(s)}]
      <4>1. Pick(s) \in s
        BY <3>1 DEF Pick
      <4>2. s \ {Pick(s)} \in SUBSET T /\ s \ {Pick(s)} # T
        BY <4>1
      <4>3. Unfolds(s \ {Pick(s)})
        BY <2>1, <4>2
      <4>4. QED
        BY <4>2, <4>3
    <3> DEFINE k == [s \in SUBSET T |-> IF s = {} THEN 0 ELSE f[Pick(s)] + h[s \ {Pick(s)}]]
    <3>2. ASSUME NEW s \in SUBSET T PROVE h[s] = k[s]
      BY <3>1
    <3>3. h = k
      BY <3>2
    <3>4. QED
      BY <3>3 DEF Iterates
  <2>3. Total(f, T) = h[T]
    <3>1. IsFiniteSet(T)
      BY FS_Subset
    <3> HIDE DEF h
    <3>2. QED
      BY <2>2, <3>1, TotalIterates
  <2>4. Unfolds(T)
    BY <2>3
  <2>5. QED
    BY <2>1, <2>4
<1>2. P = SUBSET S
  <2> HIDE DEF P
  <2>1. P \in SUBSET (SUBSET S)
    BY DEF P
  <2>2. QED
    BY <1>1, <2>1, SubsetInduction
<1>3. QED
  BY <1>2

(* A sum of integers is an integer, and any element may be taken out of it *)
(* first.                                                                  *)
LEMMA SumRemove ==
    ASSUME NEW S, IsFiniteSet(S), NEW f, \A x \in S : f[x] \in Int
    PROVE  /\ Total(f, S) \in Int
           /\ \A x \in S : Total(f, S) = f[x] + Total(f, S \ {x})
<1> DEFINE Removes(T) == /\ Total(f, T) \in Int
                         /\ \A x \in T : Total(f, T) = f[x] + Total(f, T \ {x})
           P == {T \in SUBSET S : \A U \in SUBSET T : Removes(U)}
<1>1. ASSUME NEW T \in SUBSET S, \A x \in T : T \ {x} \in P PROVE T \in P
  <2>1. ASSUME NEW U \in SUBSET T, U # T PROVE Removes(U)
    <3>1. PICK x \in T : x \notin U
      BY <2>1
    <3>2. U \in SUBSET (T \ {x})
      BY <3>1
    <3>3. QED
      BY <1>1, <3>1, <3>2
  <2>2. IsFiniteSet(T)
    BY FS_Subset
  <2>3. CASE T = {}
    <3>1. Total(f, T) = 0
      BY <2>2, <2>3, TotalUnfolds
    <3>2. Removes(T)
      BY <2>3, <3>1
    <3>3. QED
      BY <2>1, <3>2
  <2>4. CASE T # {}
    <3> DEFINE c == Pick(T)
    <3>1. c \in T
      BY <2>4 DEF Pick
    <3>2. Total(f, T) = f[c] + Total(f, T \ {c})
      BY <2>2, <2>4, TotalUnfolds
    <3> HIDE DEF c
    <3>3. \A x \in T : T \ {x} \in SUBSET T /\ T \ {x} # T
      OBVIOUS
    <3>4. \A x \in T : Total(f, T \ {x}) \in Int
      BY <2>1, <3>3
    <3>5. ASSUME NEW x \in T PROVE Total(f, T) = f[x] + Total(f, T \ {x})
      <4>1. CASE x = c
        BY <3>2, <4>1
      <4>2. CASE x # c
        <5>1. Total(f, T \ {c}) = f[x] + Total(f, (T \ {c}) \ {x})
          BY <2>1, <3>1, <3>3, <4>2
        <5>2. Total(f, T \ {x}) = f[c] + Total(f, (T \ {x}) \ {c})
          BY <2>1, <3>1, <3>3, <4>2
        <5>3. (T \ {c}) \ {x} = (T \ {x}) \ {c}
          OBVIOUS
        <5>4. (T \ {c}) \ {x} \in SUBSET T /\ (T \ {c}) \ {x} # T
          BY <3>1
        <5>5. Total(f, (T \ {c}) \ {x}) \in Int /\ f[x] \in Int /\ f[c] \in Int
          BY <2>1, <3>1, <5>4
        <5> DEFINE rest == Total(f, (T \ {c}) \ {x})
        <5>6. rest \in Int /\ f[x] \in Int /\ f[c] \in Int
          BY <5>5
        <5>7. /\ Total(f, T) = f[c] + (f[x] + rest)
              /\ Total(f, T \ {x}) = f[c] + rest
          BY <3>2, <5>1, <5>2, <5>3
        <5> HIDE DEF rest, P
        <5>8. QED
          BY <5>6, <5>7
      <4>3. QED
        BY <4>1, <4>2
    <3>6. Total(f, T) \in Int
      BY <3>1, <3>2, <3>4
    <3>7. QED
      BY <2>1, <3>5, <3>6
  <2>5. QED
    BY <2>3, <2>4
<1>2. P = SUBSET S
  <2> HIDE DEF P
  <2>1. P \in SUBSET (SUBSET S)
    BY DEF P
  <2>2. QED
    BY <1>1, <2>1, SubsetInduction
<1>3. QED
  BY <1>2

(* The sum of nothing is zero.                                             *)
LEMMA SumEmpty == ASSUME NEW f PROVE Total(f, {}) = 0
BY TotalUnfolds, FS_EmptySet

(* Adding an element adds its value.                                       *)
LEMMA SumAdd ==
    ASSUME NEW S, IsFiniteSet(S), NEW f, NEW x, x \notin S,
           \A y \in S \cup {x} : f[y] \in Int
    PROVE  Total(f, S \cup {x}) = f[x] + Total(f, S)
<1>1. IsFiniteSet(S \cup {x}) /\ (S \cup {x}) \ {x} = S
  BY FS_AddElement
<1>2. Total(f, S \cup {x}) = f[x] + Total(f, (S \cup {x}) \ {x})
  BY <1>1, SumRemove
<1>3. QED
  BY <1>1, <1>2

(* A sum depends on the values over its set only, and grows with them.     *)
LEMMA SumAtMost ==
    ASSUME NEW S, IsFiniteSet(S), NEW f, NEW g,
           \A x \in S : f[x] \in Int /\ g[x] \in Int /\ f[x] <= g[x]
    PROVE  Total(f, S) <= Total(g, S)
<1> DEFINE P == {T \in SUBSET S : Total(f, T) <= Total(g, T)}
<1>1. ASSUME NEW T \in SUBSET S, \A x \in T : T \ {x} \in P PROVE T \in P
  <2>1. IsFiniteSet(T) /\ \A x \in T : IsFiniteSet(T \ {x})
    BY FS_Subset
  <2>2. CASE T = {}
    BY <2>2, SumEmpty
  <2>3. CASE T # {}
    <3>1. PICK x \in T : TRUE
      BY <2>3
    <3>2. /\ Total(f, T) = f[x] + Total(f, T \ {x})
          /\ Total(g, T) = g[x] + Total(g, T \ {x})
          /\ Total(f, T \ {x}) \in Int /\ Total(g, T \ {x}) \in Int
      BY <2>1, <3>1, SumRemove
    <3>3. Total(f, T \ {x}) <= Total(g, T \ {x})
      BY <1>1, <3>1
    <3>4. f[x] \in Int /\ g[x] \in Int /\ f[x] <= g[x]
      BY <3>1
    <3>5. QED
      BY <3>2, <3>3, <3>4
  <2>4. QED
    BY <2>2, <2>3
<1>2. P = SUBSET S
  <2> HIDE DEF P
  <2>1. P \in SUBSET (SUBSET S)
    BY DEF P
  <2>2. QED
    BY <1>1, <2>1, SubsetInduction
<1>3. QED
  BY <1>2

LEMMA SumSame ==
    ASSUME NEW S, IsFiniteSet(S), NEW f, NEW g,
           \A x \in S : f[x] \in Int /\ f[x] = g[x]
    PROVE  Total(f, S) = Total(g, S)
<1>1. Total(f, S) <= Total(g, S) /\ Total(g, S) <= Total(f, S)
  BY SumAtMost
<1>2. Total(f, S) \in Int /\ Total(g, S) \in Int
  BY SumRemove
<1>3. QED
  BY <1>1, <1>2

(* Changing one value changes the sum by the difference.                   *)
LEMMA SumChange ==
    ASSUME NEW S, IsFiniteSet(S), NEW f, NEW g, NEW x \in S,
           \A y \in S : f[y] \in Int /\ g[y] \in Int /\ (y # x => f[y] = g[y])
    PROVE  Total(g, S) = Total(f, S) - f[x] + g[x]
<1>1. IsFiniteSet(S \ {x})
  BY FS_Subset
<1>2. Total(f, S \ {x}) = Total(g, S \ {x}) /\ Total(f, S \ {x}) \in Int
  BY <1>1, SumSame, SumRemove
<1>3. Total(f, S) = f[x] + Total(f, S \ {x}) /\ Total(g, S) = g[x] + Total(g, S \ {x})
  BY SumRemove
<1>4. QED
  BY <1>2, <1>3

(* A sum of natural numbers is one, and is at least each of them.          *)
LEMMA SumNatural ==
    ASSUME NEW S, IsFiniteSet(S), NEW f, \A x \in S : f[x] \in Nat
    PROVE  Total(f, S) \in Nat /\ \A x \in S : f[x] <= Total(f, S)
<1> DEFINE P == {T \in SUBSET S : Total(f, T) \in Nat}
<1>1. ASSUME NEW T \in SUBSET S, \A x \in T : T \ {x} \in P PROVE T \in P
  <2>1. IsFiniteSet(T)
    BY FS_Subset
  <2>2. CASE T = {}
    BY <2>2, SumEmpty
  <2>3. CASE T # {}
    <3>1. PICK x \in T : TRUE
      BY <2>3
    <3>2. Total(f, T) = f[x] + Total(f, T \ {x})
      BY <2>1, <3>1, SumRemove
    <3>3. QED
      BY <1>1, <3>1, <3>2
  <2>4. QED
    BY <2>2, <2>3
<1>2. P = SUBSET S
  <2> HIDE DEF P
  <2>1. P \in SUBSET (SUBSET S)
    BY DEF P
  <2>2. QED
    BY <1>1, <2>1, SubsetInduction
<1>3. ASSUME NEW x \in S PROVE f[x] <= Total(f, S)
  <2>1. Total(f, S \ {x}) \in Nat /\ f[x] \in Nat
    BY <1>2
  <2>2. Total(f, S) = f[x] + Total(f, S \ {x})
    BY SumRemove
  <2>3. QED
    BY <2>1, <2>2
<1>4. QED
  BY <1>2, <1>3

(* A sum over two disjoint sets is the sum of their sums.                  *)
LEMMA SumUnion ==
    ASSUME NEW S, IsFiniteSet(S), NEW T, IsFiniteSet(T), S \cap T = {}, NEW f,
           \A x \in S \cup T : f[x] \in Int
    PROVE  Total(f, S \cup T) = Total(f, S) + Total(f, T)
<1> DEFINE P == {U \in SUBSET T : Total(f, S \cup U) = Total(f, S) + Total(f, U)}
<1>1. ASSUME NEW U \in SUBSET T, \A x \in U : U \ {x} \in P PROVE U \in P
  <2>1. IsFiniteSet(U) /\ IsFiniteSet(S \cup U) /\ Total(f, S) \in Int
    BY FS_Subset, FS_Union, SumRemove
  <2>2. CASE U = {}
    BY <2>1, <2>2, SumEmpty
  <2>3. CASE U # {}
    <3>1. PICK x \in U : TRUE
      BY <2>3
    <3>2. Total(f, S \cup U) = f[x] + Total(f, (S \cup U) \ {x})
      BY <2>1, <3>1, SumRemove
    <3>3. (S \cup U) \ {x} = S \cup (U \ {x})
      BY <3>1
    <3>4. Total(f, S \cup (U \ {x})) = Total(f, S) + Total(f, U \ {x})
      BY <1>1, <3>1
    <3>5. Total(f, U) = f[x] + Total(f, U \ {x}) /\ f[x] \in Int
      BY <2>1, <3>1, SumRemove
    <3>6. IsFiniteSet(U \ {x})
      BY <2>1, FS_Subset
    <3>7. Total(f, U \ {x}) \in Int
      BY <3>6, SumRemove
    <3>8. Total(f, S \cup U) = f[x] + (Total(f, S) + Total(f, U \ {x}))
      BY <3>2, <3>3, <3>4
    <3>9. Total(f, S \cup U) = Total(f, S) + Total(f, U)
      BY <2>1, <3>5, <3>7, <3>8
    <3>10. QED
      BY <3>9
  <2>4. QED
    BY <2>2, <2>3
<1>2. P = SUBSET T
  <2> HIDE DEF P
  <2>1. P \in SUBSET (SUBSET T)
    BY DEF P
  <2>2. QED
    BY <1>1, <2>1, SubsetInduction
<1>3. QED
  BY <1>2

(* Equal values add up to their number times one of them.                  *)
LEMMA SumConstant ==
    ASSUME NEW S, IsFiniteSet(S), NEW f, NEW k \in Int, \A x \in S : f[x] = k
    PROVE  Total(f, S) = k * Cardinality(S)
<1> DEFINE P == {T \in SUBSET S : Total(f, T) = k * Cardinality(T)}
<1>1. ASSUME NEW T \in SUBSET S, \A x \in T : T \ {x} \in P PROVE T \in P
  <2>1. IsFiniteSet(T) /\ Cardinality(T) \in Nat
    BY FS_Subset, FS_CardinalityType
  <2>2. CASE T = {}
    BY <2>2, SumEmpty, FS_EmptySet
  <2>3. CASE T # {}
    <3>1. PICK x \in T : TRUE
      BY <2>3
    <3>2. Total(f, T) = k + Total(f, T \ {x})
      BY <2>1, <3>1, SumRemove
    <3>3. Total(f, T \ {x}) = k * (Cardinality(T) - 1)
      BY <1>1, <2>1, <3>1, FS_RemoveElement
    <3>4. k + k * (Cardinality(T) - 1) = k * Cardinality(T)
      BY <2>1
    <3>5. QED
      BY <3>2, <3>3, <3>4
  <2>4. QED
    BY <2>2, <2>3
<1>2. P = SUBSET S
  <2> HIDE DEF P
  <2>1. P \in SUBSET (SUBSET S)
    BY DEF P
  <2>2. QED
    BY <1>1, <2>1, SubsetInduction
<1>3. QED
  BY <1>2

(* Values that go to different places, each worth at least as much, add up *)
(* to no more than all the places together.                                *)
LEMMA SumInjected ==
    ASSUME NEW S, IsFiniteSet(S), NEW T, IsFiniteSet(T), NEW f, NEW g,
           \A x \in S : f[x] \in Int, \A y \in T : g[y] \in Nat,
           NEW j \in [S -> T], \A x, y \in S : j[x] = j[y] => x = y,
           \A x \in S : f[x] <= g[j[x]]
    PROVE  Total(f, S) <= Total(g, T)
<1> DEFINE Image(U) == {j[x] : x \in U}
           P == {U \in SUBSET S : Total(f, U) <= Total(g, Image(U))}
<1>1. \A U \in SUBSET S : IsFiniteSet(Image(U)) /\ Image(U) \subseteq T
  <2> SUFFICES ASSUME NEW U \in SUBSET S PROVE IsFiniteSet(Image(U)) /\ Image(U) \subseteq T
    OBVIOUS
  <2>1. Image(U) \subseteq T
    OBVIOUS
  <2>2. QED
    BY <2>1, FS_Subset
<1>2. ASSUME NEW U \in SUBSET S, \A x \in U : U \ {x} \in P PROVE U \in P
  <2>1. IsFiniteSet(U)
    BY FS_Subset
  <2>2. CASE U = {}
    <3>1. Image(U) = {}
      BY <2>2
    <3>2. QED
      BY <2>2, <3>1, SumEmpty
  <2>3. CASE U # {}
    <3>1. PICK x \in U : TRUE
      BY <2>3
    <3>2. Total(f, U) = f[x] + Total(f, U \ {x})
      BY <2>1, <3>1, SumRemove
    <3>3. j[x] \in Image(U) /\ Image(U) \ {j[x]} = Image(U \ {x})
      BY <3>1
    <3>4. \A y \in Image(U) : g[y] \in Int
      BY <1>1
    <3>5. Total(g, Image(U)) = g[j[x]] + Total(g, Image(U \ {x}))
      <4>1. Total(g, Image(U)) = g[j[x]] + Total(g, Image(U) \ {j[x]})
        <5>1. PICK y : y = j[x]
          OBVIOUS
        <5>2. IsFiniteSet(Image(U)) /\ y \in Image(U)
          BY <1>1, <3>3, <5>1
        <5> HIDE DEF Image
        <5>3. Total(g, Image(U)) = g[y] + Total(g, Image(U) \ {y})
          BY ONLY <3>4, <5>2, SumRemove
        <5>4. QED
          BY <5>1, <5>3
      <4>2. QED
        BY <3>3, <4>1
    <3>6. Total(f, U \ {x}) <= Total(g, Image(U \ {x}))
      BY <1>2, <3>1
    <3>7. f[x] \in Int /\ g[j[x]] \in Int /\ f[x] <= g[j[x]]
      BY <3>1
    <3>8. Total(f, U \ {x}) \in Int
      <4>1. IsFiniteSet(U \ {x})
        BY <2>1, FS_Subset
      <4>2. QED
        BY <4>1, SumRemove
    <3>9. Total(g, Image(U \ {x})) \in Int
      <4>1. U \ {x} \in SUBSET S
        OBVIOUS
      <4>2. IsFiniteSet(Image(U \ {x})) /\ Image(U \ {x}) \subseteq T
        BY <1>1, <4>1
      <4>3. PICK W : W = Image(U \ {x})
        OBVIOUS
      <4>4. IsFiniteSet(W) /\ \A y \in W : g[y] \in Int
        BY <4>2, <4>3
      <4>5. Total(g, W) \in Int
        BY ONLY <4>4, SumRemove
      <4>6. QED
        BY <4>3, <4>5
    <3> HIDE DEF Image, P
    <3>10. Total(f, U) <= Total(g, Image(U))
      BY <3>2, <3>5, <3>6, <3>7, <3>8, <3>9
    <3>11. QED
      BY <3>10 DEF P
  <2>4. QED
    BY <2>2, <2>3
<1>3. P = SUBSET S
  <2> HIDE DEF P
  <2>1. P \in SUBSET (SUBSET S)
    BY DEF P
  <2>2. QED
    BY <1>2, <2>1, SubsetInduction
<1>4. S \in SUBSET S
  OBVIOUS
<1>5. Total(f, S) <= Total(g, Image(S))
  BY <1>3, <1>4
<1>6. Total(g, Image(S)) <= Total(g, T)
  <2> DEFINE rest == T \ Image(S)
  <2>1. IsFiniteSet(Image(S)) /\ IsFiniteSet(rest)
    BY <1>1, <1>4, FS_Subset
  <2>2. Image(S) \cup rest = T /\ Image(S) \cap rest = {}
    BY <1>1, <1>4
  <2> HIDE DEF Image
  <2>3. Total(g, T) = Total(g, Image(S)) + Total(g, rest)
    <3> HIDE DEF rest
    <3>1. \A x \in Image(S) \cup rest : g[x] \in Int
      BY <2>2
    <3>2. Total(g, Image(S) \cup rest) = Total(g, Image(S)) + Total(g, rest)
      BY <2>1, <2>2, <3>1, SumUnion
    <3>3. QED
      BY <2>2, <3>2
  <2>4. Total(g, Image(S)) \in Nat /\ Total(g, rest) \in Nat
    BY <2>1, <2>2, SumNatural
  <2>5. QED
    BY <2>3, <2>4
<1>7. Total(f, S) \in Int /\ Total(g, Image(S)) \in Int /\ Total(g, T) \in Int
  <2>1. IsFiniteSet(Image(S)) /\ \A y \in Image(S) : g[y] \in Int
    BY <1>1, <1>4
  <2> HIDE DEF Image
  <2>2. QED
    BY <2>1, SumRemove
<1>8. QED
  BY <1>5, <1>6, <1>7
===============================================================================
