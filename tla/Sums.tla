-------------------------------- MODULE Sums --------------------------------
(***************************************************************************)
(* Sums of integer functions over finite sets, and induction.              *)
(*                                                                         *)
(* The induction theorems of the library take an operator, which no prover *)
(* here can instantiate.  The same principle is first-order when a         *)
(* predicate is given by the set that satisfies it, and follows from the   *)
(* natural numbers being well founded.                                     *)
(***************************************************************************)
EXTENDS Integers, FiniteSets, Functions, FiniteSetTheorems, WellFoundedInduction, TLAPS

(* Every non-empty set of natural numbers has a least element.             *)
LEMMA LeastNatural ==
    ASSUME NEW T, T \subseteq Nat, T # {}
    PROVE  \E n \in T : \A m \in T : n <= m
<1> DEFINE R == OpToRel(<, Nat)
<1>1. IsWellFoundedOn(R, Nat)
  BY NatLessThanWellFounded, Zenon
<1>2. \E x \in T : \A y \in T : ~ (<<y, x>> \in R)
  <2> HIDE DEF R
  <2> QED BY <1>1, WFMin, Zenon
<1>3. PICK x \in T : \A y \in T : ~ (<<y, x>> \in R)
  BY <1>2, Zenon
<1>4. \A y \in T : ~ (y < x)
  BY <1>3, Zenon DEF OpToRel
<1> QED
  BY <1>4

(* Induction: a set that holds 0 and the successor of each of its numbers  *)
(* holds every natural number.                                             *)
LEMMA NaturalInduction ==
    ASSUME NEW T, 0 \in T, \A n \in Nat : n \in T => n + 1 \in T
    PROVE  \A n \in Nat : n \in T
<1> SUFFICES ASSUME NEW k \in Nat, k \notin T
             PROVE  FALSE
  OBVIOUS
<1> DEFINE M == {n \in Nat : n \notin T}
<1>1. PICK n \in M : \A m \in M : n <= m
  <2>1. M \subseteq Nat /\ M # {}
    OBVIOUS
  <2> HIDE DEF M
  <2> QED
    BY <2>1, LeastNatural
<1>2. n # 0 /\ n \in Nat
  OBVIOUS
<1>3. n - 1 \in Nat /\ n - 1 \in T
  BY <1>1, <1>2
<1>4. (n - 1) + 1 \in T
  BY <1>3
<1> QED
  BY <1>2, <1>4

(* The induction over finite sets: a family of subsets of S that holds the *)
(* empty set, and with each set the ones with an element more, holds S.    *)
LEMMA FiniteInduction ==
    ASSUME NEW S, IsFiniteSet(S), NEW F,
           {} \in F,
           \A s \in SUBSET S : \A x \in S \ s : s \in F => s \cup {x} \in F
    PROVE  S \in F
<1> DEFINE T == {n \in Nat : \A s \in SUBSET S : Cardinality(s) = n => s \in F}
<1>1. 0 \in T
  <2> SUFFICES ASSUME NEW s \in SUBSET S, Cardinality(s) = 0
               PROVE  s \in F
    OBVIOUS
  <2>1. IsFiniteSet(s)
    BY FS_Subset
  <2>2. s = {}
    BY <2>1, FS_EmptySet
  <2> QED
    BY <2>2
<1>2. ASSUME NEW n \in Nat, n \in T
      PROVE  n + 1 \in T
  <2> SUFFICES ASSUME NEW s \in SUBSET S, Cardinality(s) = n + 1
               PROVE  s \in F
    OBVIOUS
  <2>1. IsFiniteSet(s)
    BY FS_Subset
  <2>2. s # {}
    BY <2>1, FS_EmptySet
  <2>3. PICK x : x \in s
    BY <2>2
  <2>4. Cardinality(s \ {x}) = n
    <3>1. Cardinality(s \ {x}) = Cardinality(s) - 1
      BY <2>1, <2>3, FS_RemoveElement, Zenon
    <3> QED
      BY <3>1
  <2>5. s \ {x} \in F
    BY <1>2, <2>4
  <2>6. (s \ {x}) \cup {x} = s
    BY <2>3
  <2>7. (s \ {x}) \cup {x} \in F
    BY <2>3, <2>5
  <2> QED
    BY <2>6, <2>7
<1>3. \A n \in Nat : n \in T
  <2> HIDE DEF T
  <2> QED
    BY <1>1, <1>2, NaturalInduction
<1>4. Cardinality(S) \in Nat
  BY FS_CardinalityType
<1> QED
  BY <1>3, <1>4

-----------------------------------------------------------------------------
(* The library sums a function by picking the indices off one after the    *)
(* other.  Such a summation exists, and there is one only.                 *)
Picked(s) == CHOOSE x \in s : TRUE

SumsUp(sum, fun, D) ==
    sum = [s \in D |-> IF s = {} THEN 0 ELSE fun[Picked(s)] + sum[s \ {Picked(s)}]]

IsSummation(sum, fun, S) == SumsUp(sum, fun, SUBSET S)

LEMMA SumUnfolded ==
    ASSUME NEW fun, NEW S
    PROVE  SumFunctionOnSet(fun, S) = (CHOOSE sum : IsSummation(sum, fun, S))[S]
BY Zenon DEF SumFunctionOnSet, FoldFunctionOnSet, MapThenFoldSet, IsSummation, SumsUp, Picked

LEMMA PickedIsIn ==
    ASSUME NEW s, s # {}
    PROVE  Picked(s) \in s
BY DEF Picked

(* A subset of a finite set loses an element.                              *)
LEMMA OneLess ==
    ASSUME NEW S, IsFiniteSet(S), NEW n \in Nat, NEW s \in SUBSET S,
           Cardinality(s) <= n + 1, NEW x \in s
    PROVE  s \ {x} \in SUBSET S /\ Cardinality(s \ {x}) <= n
<1>1. IsFiniteSet(s)
  BY FS_Subset
<1>2. Cardinality(s) \in Nat
  BY <1>1, FS_CardinalityType
<1>3. Cardinality(s \ {x}) = Cardinality(s) - 1
  BY <1>1, FS_RemoveElement, Zenon
<1> QED
  BY <1>2, <1>3

LEMMA SummationExists ==
    ASSUME NEW fun, NEW S, IsFiniteSet(S)
    PROVE  \E sum : IsSummation(sum, fun, S)
<1> DEFINE D(n) == {s \in SUBSET S : Cardinality(s) <= n}
           T == {n \in Nat : \E sum : SumsUp(sum, fun, D(n))}
<1>1. ASSUME NEW s \in SUBSET S
      PROVE  IsFiniteSet(s) /\ Cardinality(s) \in Nat /\ (Cardinality(s) = 0 <=> s = {})
  <2>1. IsFiniteSet(s)
    BY FS_Subset
  <2> QED
    BY <2>1, FS_CardinalityType, FS_EmptySet
<1>2. 0 \in T
  <2> DEFINE g == [s \in D(0) |-> 0]
  <2>1. \A s \in D(0) : s = {}
    BY <1>1
  <2>2. SumsUp(g, fun, D(0))
    BY <2>1 DEF SumsUp
  <2> QED
    BY <2>2
<1>3. ASSUME NEW n \in Nat, n \in T
      PROVE  n + 1 \in T
  <2>1. PICK g : SumsUp(g, fun, D(n))
    BY <1>3
  <2> DEFINE h == [s \in D(n + 1) |->
                     IF s = {} THEN 0 ELSE fun[Picked(s)] + g[s \ {Picked(s)}]]
  <2>2. ASSUME NEW s \in D(n)
        PROVE  h[s] = g[s]
    <3>1. s \in D(n + 1)
      BY <1>1
    <3>2. g[s] = IF s = {} THEN 0 ELSE fun[Picked(s)] + g[s \ {Picked(s)}]
      BY <2>1, Zenon DEF SumsUp
    <3> QED
      BY <3>1, <3>2, Zenon
  <2>3. ASSUME NEW s \in D(n + 1), s # {}
        PROVE  h[s \ {Picked(s)}] = g[s \ {Picked(s)}]
    <3>1. s \ {Picked(s)} \in D(n)
      BY <2>3, PickedIsIn, OneLess
    <3> QED
      BY <2>2, <3>1, Zenon
  <2>4. h = [s \in D(n + 1) |->
               IF s = {} THEN 0 ELSE fun[Picked(s)] + h[s \ {Picked(s)}]]
    <3> HIDE DEF D
    <3> QED
      BY <2>3, Zenon
  <2>5. SumsUp(h, fun, D(n + 1))
    BY <2>4, Zenon DEF SumsUp
  <2> QED
    BY <2>5, n + 1 \in Nat, Zenon
<1>4. \A n \in Nat : n \in T
  <2> HIDE DEF T
  <2> QED
    BY <1>2, <1>3, NaturalInduction
<1>5. Cardinality(S) \in Nat
  BY FS_CardinalityType
<1>6. D(Cardinality(S)) = SUBSET S
  <2>1. \A s \in SUBSET S : Cardinality(s) <= Cardinality(S)
    BY FS_Subset
  <2> QED
    BY <2>1
<1> QED
  BY <1>4, <1>5, <1>6, Zenon DEF IsSummation

Alike(fun, other, R) == \A x \in R : fun[x] = other[x]

LEMMA SummationsAgree ==
    ASSUME NEW fun, NEW other, NEW S, IsFiniteSet(S), NEW R, R \subseteq S,
           Alike(fun, other, R),
           NEW g, IsSummation(g, fun, S), NEW h, IsSummation(h, other, R)
    PROVE  g[R] = h[R]
<1> DEFINE T == {n \in Nat : \A s \in SUBSET R : Cardinality(s) = n => g[s] = h[s]}
<1>1. ASSUME NEW s \in SUBSET R
      PROVE  /\ g[s] = IF s = {} THEN 0 ELSE fun[Picked(s)] + g[s \ {Picked(s)}]
             /\ h[s] = IF s = {} THEN 0 ELSE other[Picked(s)] + h[s \ {Picked(s)}]
  <2>1. s \in SUBSET S
    OBVIOUS
  <2> QED
    BY <2>1, Zenon DEF IsSummation, SumsUp
<1>2. ASSUME NEW s \in SUBSET R
      PROVE  IsFiniteSet(s) /\ Cardinality(s) \in Nat /\ (Cardinality(s) = 0 <=> s = {})
  <2>1. IsFiniteSet(s)
    BY FS_Subset
  <2> QED
    BY <2>1, FS_CardinalityType, FS_EmptySet
<1>3. 0 \in T
  BY <1>1, <1>2
<1>4. ASSUME NEW n \in Nat, n \in T
      PROVE  n + 1 \in T
  <2> SUFFICES ASSUME NEW s \in SUBSET R, Cardinality(s) = n + 1
               PROVE  g[s] = h[s]
    OBVIOUS
  <2>1. s # {} /\ Picked(s) \in s
    BY <1>2, PickedIsIn
  <2>2. Cardinality(s \ {Picked(s)}) = n
    <3>1. Cardinality(s \ {Picked(s)}) = Cardinality(s) - 1
      BY <1>2, <2>1, FS_RemoveElement, Zenon
    <3> QED
      BY <3>1
  <2>3. g[s \ {Picked(s)}] = h[s \ {Picked(s)}]
    BY <1>4, <2>2
  <2>4. fun[Picked(s)] = other[Picked(s)]
    BY <2>1 DEF Alike
  <2> QED
    BY <1>1, <2>1, <2>3, <2>4, Zenon
<1>5. \A n \in Nat : n \in T
  <2> HIDE DEF T
  <2> QED
    BY <1>3, <1>4, NaturalInduction
<1>6. Cardinality(R) \in Nat
  BY <1>2
<1> QED
  BY <1>5, <1>6

-----------------------------------------------------------------------------
(* What the sums of the library are: nothing over no index, and the value  *)
(* of the index that is picked with the sum over the others.               *)
LEMMA SumIsSummation ==
    ASSUME NEW fun, NEW S, IsFiniteSet(S), NEW g, IsSummation(g, fun, S),
           NEW R, R \subseteq S
    PROVE  SumFunctionOnSet(fun, R) = g[R]
<1> DEFINE h == CHOOSE sum : IsSummation(sum, fun, R)
<1>1. IsFiniteSet(R)
  BY FS_Subset
<1>2. IsSummation(h, fun, R)
  BY <1>1, SummationExists, Zenon
<1>3. SumFunctionOnSet(fun, R) = h[R]
  BY SumUnfolded, Zenon
<1>4. g[R] = h[R]
  <2>1. Alike(fun, fun, R)
    BY DEF Alike
  <2> HIDE DEF h
  <2> QED
    BY <1>1, <1>2, <2>1, SummationsAgree
<1> QED
  BY <1>3, <1>4, Zenon

THEOREM SumEmpty == \A fun : SumFunctionOnSet(fun, {}) = 0
<1> SUFFICES ASSUME NEW fun
             PROVE  SumFunctionOnSet(fun, {}) = 0
  OBVIOUS
<1>1. IsFiniteSet({})
  BY FS_EmptySet
<1>2. PICK g : IsSummation(g, fun, {})
  BY <1>1, SummationExists, Zenon
<1>3. SumFunctionOnSet(fun, {}) = g[{}]
  BY <1>1, <1>2, SumIsSummation
<1>4. g[{}] = 0
  BY <1>2 DEF IsSummation, SumsUp
<1> QED
  BY <1>3, <1>4

LEMMA SumPicked ==
    ASSUME NEW fun, NEW S, IsFiniteSet(S), S # {}
    PROVE  SumFunctionOnSet(fun, S) =
             fun[Picked(S)] + SumFunctionOnSet(fun, S \ {Picked(S)})
<1>1. PICK g : IsSummation(g, fun, S)
  BY SummationExists, Zenon
<1>2. S \subseteq S /\ S \ {Picked(S)} \subseteq S
  OBVIOUS
<1>3. /\ SumFunctionOnSet(fun, S) = g[S]
      /\ SumFunctionOnSet(fun, S \ {Picked(S)}) = g[S \ {Picked(S)}]
  BY <1>1, <1>2, SumIsSummation
<1>4. g[S] = fun[Picked(S)] + g[S \ {Picked(S)}]
  BY <1>1, Zenon DEF IsSummation, SumsUp
<1> QED
  BY <1>3, <1>4, Zenon

(* Functions that agree on the indices have one sum.                       *)
THEOREM SumSame ==
    ASSUME NEW fun, NEW other, NEW S, IsFiniteSet(S), \A x \in S : fun[x] = other[x]
    PROVE  SumFunctionOnSet(fun, S) = SumFunctionOnSet(other, S)
<1>1. PICK g : IsSummation(g, fun, S)
  BY SummationExists, Zenon
<1>2. PICK h : IsSummation(h, other, S)
  BY SummationExists, Zenon
<1>3. S \subseteq S
  OBVIOUS
<1>4. SumFunctionOnSet(fun, S) = g[S]
  BY <1>1, <1>3, SumIsSummation
<1>5. SumFunctionOnSet(other, S) = h[S]
  BY <1>2, <1>3, SumIsSummation
<1>6. g[S] = h[S]
  BY <1>1, <1>2, <1>3, SummationsAgree DEF Alike
<1> QED
  BY <1>4, <1>5, <1>6, Zenon

(* How the subsets of a finite set are counted.                            *)
LEMMA Counted ==
    ASSUME NEW S, IsFiniteSet(S), NEW s \in SUBSET S
    PROVE  /\ IsFiniteSet(s) /\ Cardinality(s) \in Nat
           /\ Cardinality(s) = 0 <=> s = {}
           /\ \A n \in Nat : Cardinality(s) = n + 1 =>
                 /\ Picked(s) \in s
                 /\ \A x \in s : Cardinality(s \ {x}) = n
<1>1. IsFiniteSet(s)
  BY FS_Subset
<1>2. Cardinality(s) \in Nat /\ (Cardinality(s) = 0 <=> s = {})
  BY <1>1, FS_CardinalityType, FS_EmptySet
<1>3. ASSUME NEW n \in Nat, Cardinality(s) = n + 1
      PROVE  Picked(s) \in s /\ \A x \in s : Cardinality(s \ {x}) = n
  <2>1. \A x \in s : Cardinality(s \ {x}) = Cardinality(s) - 1
    BY <1>1, FS_RemoveElement, Zenon
  <2> QED
    BY <1>2, <1>3, <2>1, PickedIsIn
<1> QED
  BY <1>1, <1>2, <1>3

(* A sum of integers is one, and a sum of natural numbers is one.          *)
THEOREM SumType ==
    ASSUME NEW S, IsFiniteSet(S), NEW fun,
           NEW N \in {Nat, Int}, \A x \in S : fun[x] \in N
    PROVE  SumFunctionOnSet(fun, S) \in N
<1> DEFINE T == {n \in Nat : \A s \in SUBSET S :
                                Cardinality(s) = n => SumFunctionOnSet(fun, s) \in N}
<1>1. 0 \in T
  <2>1. 0 \in N
    OBVIOUS
  <2>2. ASSUME NEW s \in SUBSET S, Cardinality(s) = 0
        PROVE  SumFunctionOnSet(fun, s) \in N
    <3>1. s = {}
      BY <2>2, FS_Subset, FS_EmptySet
    <3>2. SumFunctionOnSet(fun, s) = 0
      BY <3>1, SumEmpty
    <3> QED
      BY <2>1, <3>2
  <2> QED
    BY <2>2
<1>2. ASSUME NEW n \in Nat, n \in T
      PROVE  n + 1 \in T
  <2> SUFFICES ASSUME NEW s \in SUBSET S, Cardinality(s) = n + 1
               PROVE  SumFunctionOnSet(fun, s) \in N
    OBVIOUS
  <2>1. /\ IsFiniteSet(s) /\ Picked(s) \in s
        /\ Cardinality(s \ {Picked(s)}) = n
    BY Counted
  <2>2. SumFunctionOnSet(fun, s \ {Picked(s)}) \in N /\ fun[Picked(s)] \in N
    BY <1>2, <2>1
  <2>3. SumFunctionOnSet(fun, s) = fun[Picked(s)] + SumFunctionOnSet(fun, s \ {Picked(s)})
    BY <2>1, SumPicked, Zenon
  <2> QED
    BY <2>2, <2>3
<1>3. \A n \in Nat : n \in T
  <2> HIDE DEF T
  <2> QED
    BY <1>1, <1>2, NaturalInduction
<1> QED
  BY <1>3, Counted

(* A sum does not depend on the order in which the indices are counted:    *)
(* any of them may come last.                                              *)
THEOREM SumOneLast ==
    ASSUME NEW S, IsFiniteSet(S), NEW fun, \A x \in S : fun[x] \in Int, NEW x \in S
    PROVE  SumFunctionOnSet(fun, S) = fun[x] + SumFunctionOnSet(fun, S \ {x})
<1> DEFINE Sum(s) == SumFunctionOnSet(fun, s)
           AnyLast(s) == \A y \in s : Sum(s) = fun[y] + Sum(s \ {y})
           T == {n \in Nat : \A s \in SUBSET S : Cardinality(s) = n => AnyLast(s)}
<1>1. ASSUME NEW s \in SUBSET S
      PROVE  Sum(s) \in Int
  <2>1. IsFiniteSet(s) /\ \A y \in s : fun[y] \in Int
    BY Counted
  <2> QED
    BY <2>1, SumType
<1>2. 0 \in T
  BY Counted
<1>3. ASSUME NEW n \in Nat, n \in T
      PROVE  n + 1 \in T
  <2> SUFFICES ASSUME NEW s \in SUBSET S, Cardinality(s) = n + 1, NEW y \in s
               PROVE  Sum(s) = fun[y] + Sum(s \ {y})
    <3> HIDE DEF Sum
    <3> QED
      OBVIOUS
  <2> DEFINE c == Picked(s)
  <2>1. /\ IsFiniteSet(s) /\ c \in s
        /\ \A z \in s : Cardinality(s \ {z}) = n
    BY Counted
  <2>2. Sum(s) = fun[c] + Sum(s \ {c})
    BY <2>1, SumPicked, Zenon
  <2>3. CASE y = c
    BY <2>2, <2>3, Zenon
  <2>4. CASE y # c
    <3>1. \A z \in s : AnyLast(s \ {z})
      <4>1. \A z \in s : s \ {z} \in SUBSET S
        OBVIOUS
      <4> QED
        BY <1>3, <2>1, <4>1, Zenon
    <3>2. Sum(s \ {c}) = fun[y] + Sum((s \ {c}) \ {y})
      <4>1. y \in s \ {c}
        BY <2>4
      <4> QED
        BY <2>1, <3>1, <4>1, Zenon
    <3>3. Sum(s \ {y}) = fun[c] + Sum((s \ {y}) \ {c})
      <4>1. c \in s \ {y}
        BY <2>1, <2>4
      <4> QED
        BY <3>1, <4>1, Zenon
    <3> DEFINE rest == Sum((s \ {c}) \ {y})
    <3>4. Sum(s \ {c}) = fun[y] + rest /\ Sum(s \ {y}) = fun[c] + rest
      <4>1. (s \ {c}) \ {y} = (s \ {y}) \ {c}
        OBVIOUS
      <4> QED
        BY <3>2, <3>3, <4>1, Zenon
    <3>5. rest \in Int
      <4>1. (s \ {c}) \ {y} \in SUBSET S
        OBVIOUS
      <4> QED
        BY <1>1, <4>1, Zenon
    <3>6. fun[y] \in Int /\ fun[c] \in Int
      BY <2>1
    <3> HIDE DEF Sum, c, rest
    <3> QED
      BY <2>2, <3>4, <3>5, <3>6
  <2> QED
    BY <2>3, <2>4
<1>4. \A n \in Nat : n \in T
  <2> HIDE DEF T
  <2> QED
    BY <1>2, <1>3, NaturalInduction
<1>5. Cardinality(S) \in Nat
  BY FS_CardinalityType
<1>6. AnyLast(S)
  BY <1>4, <1>5, Zenon
<1> QED
  BY <1>6, Zenon

-----------------------------------------------------------------------------
(* What the specifications do to the tables they sum over: one row         *)
(* changes, one is added, one is taken away.                               *)
THEOREM SumChanged ==
    ASSUME NEW S, IsFiniteSet(S), NEW fun, NEW other, NEW x \in S,
           \A y \in S : fun[y] \in Int, other[x] \in Int,
           \A y \in S \ {x} : other[y] = fun[y]
    PROVE  SumFunctionOnSet(other, S) = SumFunctionOnSet(fun, S) - fun[x] + other[x]
<1>1. IsFiniteSet(S \ {x})
  BY FS_Subset
<1>2. \A y \in S : other[y] \in Int
  OBVIOUS
<1>3. SumFunctionOnSet(fun, S) = fun[x] + SumFunctionOnSet(fun, S \ {x})
  BY SumOneLast, Zenon
<1>4. SumFunctionOnSet(other, S) = other[x] + SumFunctionOnSet(other, S \ {x})
  BY <1>2, SumOneLast, Zenon
<1>5. SumFunctionOnSet(fun, S \ {x}) = SumFunctionOnSet(other, S \ {x})
  BY <1>1, SumSame
<1>6. SumFunctionOnSet(fun, S \ {x}) \in Int
  BY <1>1, SumType
<1> QED
  BY <1>3, <1>4, <1>5, <1>6

THEOREM SumAdded ==
    ASSUME NEW S, IsFiniteSet(S), NEW fun, NEW other, NEW x, x \notin S,
           \A y \in S : fun[y] \in Int, other[x] \in Int,
           \A y \in S : other[y] = fun[y]
    PROVE  SumFunctionOnSet(other, S \cup {x}) = SumFunctionOnSet(fun, S) + other[x]
<1>1. IsFiniteSet(S \cup {x})
  BY FS_AddElement
<1>2. \A y \in S \cup {x} : other[y] \in Int
  OBVIOUS
<1>3. (S \cup {x}) \ {x} = S
  OBVIOUS
<1>4. SumFunctionOnSet(other, S \cup {x}) = other[x] + SumFunctionOnSet(other, S)
  <2>1. x \in S \cup {x}
    OBVIOUS
  <2>2. SumFunctionOnSet(other, S \cup {x}) =
           other[x] + SumFunctionOnSet(other, (S \cup {x}) \ {x})
    BY <1>1, <1>2, <2>1, SumOneLast, Zenon
  <2> QED
    BY <1>3, <2>2, Zenon
<1>5. SumFunctionOnSet(fun, S) = SumFunctionOnSet(other, S)
  BY SumSame, Zenon
<1>6. SumFunctionOnSet(fun, S) \in Int
  BY SumType
<1> QED
  BY <1>4, <1>5, <1>6
-----------------------------------------------------------------------------
(* The same for sums over all of a function, as over the rows of a table.  *)
LEMMA SumOfAll ==
    ASSUME NEW S, NEW fun \in [S -> Int]
    PROVE  SumFunction(fun) = SumFunctionOnSet(fun, S)
BY DEF SumFunction

THEOREM SumOfNone ==
    ASSUME NEW fun \in [{} -> Int]
    PROVE  SumFunction(fun) = 0
BY SumOfAll, SumEmpty

THEOREM SumOfZeros ==
    ASSUME NEW S, IsFiniteSet(S), NEW fun \in [S -> Int], \A x \in S : fun[x] = 0
    PROVE  SumFunction(fun) = 0
<1> DEFINE F == {s \in SUBSET S : SumFunctionOnSet(fun, s) = 0}
<1>1. {} \in F
  BY SumEmpty
<1>2. ASSUME NEW s \in SUBSET S, NEW x \in S \ s, s \in F
      PROVE  s \cup {x} \in F
  <2>1. IsFiniteSet(s)
    BY FS_Subset
  <2>2. SumFunctionOnSet(fun, s \cup {x}) = SumFunctionOnSet(fun, s) + fun[x]
    BY <2>1, SumAdded
  <2> QED
    BY <1>2, <2>2
<1> HIDE DEF F
<1>3. S \in F
  BY <1>1, <1>2, FiniteInduction
<1> QED
  BY <1>3, SumOfAll DEF F

THEOREM SumOfInts ==
    ASSUME NEW S, IsFiniteSet(S), NEW fun \in [S -> Int]
    PROVE  SumFunction(fun) \in Int
BY SumOfAll, SumType

THEOREM SumOfNats ==
    ASSUME NEW S, IsFiniteSet(S), NEW fun \in [S -> Nat]
    PROVE  SumFunction(fun) \in Nat
<1>1. fun \in [S -> Int]
  OBVIOUS
<1>2. SumFunctionOnSet(fun, S) \in Nat
  BY SumType
<1> QED
  BY <1>1, <1>2, SumOfAll

THEOREM SumRowChanged ==
    ASSUME NEW S, IsFiniteSet(S), NEW fun \in [S -> Int], NEW other \in [S -> Int],
           NEW x \in S, \A y \in S \ {x} : other[y] = fun[y]
    PROVE  SumFunction(other) = SumFunction(fun) - fun[x] + other[x]
BY SumOfAll, SumChanged

THEOREM SumRowAdded ==
    ASSUME NEW S, IsFiniteSet(S), NEW x, x \notin S,
           NEW fun \in [S -> Int], NEW other \in [S \cup {x} -> Int],
           \A y \in S : other[y] = fun[y]
    PROVE  SumFunction(other) = SumFunction(fun) + other[x]
<1>1. SumFunctionOnSet(other, S \cup {x}) = SumFunctionOnSet(fun, S) + other[x]
  BY SumAdded
<1> QED
  BY <1>1, SumOfAll

(* A row is appended to a table.                                           *)
THEOREM SumRowAppended ==
    ASSUME NEW n \in Nat, NEW fun \in [1..n -> Int], NEW other \in [1..(n + 1) -> Int],
           \A k \in 1..n : other[k] = fun[k]
    PROVE  SumFunction(other) = SumFunction(fun) + other[n + 1]
<1>1. IsFiniteSet(1..n)
  BY FS_Interval
<1>2. (1..n) \cup {n + 1} = 1..(n + 1) /\ n + 1 \notin 1..n
  OBVIOUS
<1>3. other \in [(1..n) \cup {n + 1} -> Int]
  BY <1>2
<1> QED
  BY <1>1, <1>2, <1>3, SumRowAdded

(* One row of a table changes.                                             *)
THEOREM SumRowUpdated ==
    ASSUME NEW n \in Nat, NEW fun \in [1..n -> Int], NEW other \in [1..n -> Int],
           NEW i \in 1..n, \A k \in 1..n : k # i => other[k] = fun[k]
    PROVE  SumFunction(other) = SumFunction(fun) - fun[i] + other[i]
<1>1. IsFiniteSet(1..n)
  BY FS_Interval
<1>2. \A k \in (1..n) \ {i} : other[k] = fun[k]
  OBVIOUS
<1> QED
  BY <1>1, <1>2, SumRowChanged
=============================================================================
