----------------------------- MODULE SumTheorems -----------------------------
(***************************************************************************)
(* Sums over finite sets, as the community modules define them by a fold:  *)
(* what they come to does not depend on the order the fold takes.  The     *)
(* library's induction theorems take an operator, so each induction here   *)
(* goes by a least counterexample.  And what is first in a strict order.   *)
(***************************************************************************)
EXTENDS Functions, FiniteSetTheorems, WellFoundedInduction, TLAPS

(* The element the fold takes next. *)
Pick(s) == CHOOSE x \in s : TRUE

(* g solves the fold's equation for f on the sets in D. *)
Solves(g, f, D) ==
  \A s \in D : g[s] = IF s = {} THEN 0 ELSE f[Pick(s)] + g[s \ {Pick(s)}]

(* g holds the sums of f over all the subsets of S. *)
SumsUp(g, f, S) ==
  Solves(g, f, SUBSET S) /\ \A T \in SUBSET S : SumFunctionOnSet(f, T) = g[T]

Small(S, n) == {s \in SUBSET S : Cardinality(s) <= n}

-----------------------------------------------------------------------------

(* Induction over the subsets of a finite set: a nonempty family has one   *)
(* that leaves the family with each of its elements.                       *)
LEMMA LeastSubset ==
  ASSUME NEW S, IsFiniteSet(S), NEW Family \in SUBSET SUBSET S, Family # {}
  PROVE  \E T \in Family : IsFiniteSet(T) /\ \A x \in T : T \ {x} \notin Family
<1>1. \A T \in Family : T \in FiniteSubsetsOf(S)
  BY FS_Subset DEF FiniteSubsetsOf
<1>2. PICK T \in Family : \A U \in Family : ~(<<U, T>> \in StrictSubsetOrdering(S))
  BY <1>1, FS_StrictSubsetOrderingWellFounded, WFMin
<1>3. \A x \in T : T \ {x} \in Family => <<T \ {x}, T>> \in StrictSubsetOrdering(S)
  BY <1>1 DEF FiniteSubsetsOf, StrictSubsetOrdering
<1> QED
  BY <1>1, <1>2, <1>3 DEF FiniteSubsetsOf

(* Every nonempty set of naturals has a least element. *)
LEMMA LeastNatural ==
  ASSUME NEW T \in SUBSET Nat, T # {}
  PROVE  \E n \in T : \A m \in T : n <= m
<1>1. PICK n \in T : \A m \in T : ~(<<m, n>> \in OpToRel(<, Nat))
  BY NatLessThanWellFounded, WFMin
<1>2. \A m \in T : ~(m < n)
  BY <1>1 DEF OpToRel
<1> QED
  BY <1>2

LEMMA PickIsElement == \A s : s # {} => Pick(s) \in s
BY DEF Pick

(* The recursive function of the fold exists: one for sets up to n gives   *)
(* one for sets up to n + 1.                                               *)
LEMMA SolutionExists ==
  ASSUME NEW S, IsFiniteSet(S), NEW f, \A x \in S : f[x] \in Int
  PROVE  \E g \in [SUBSET S -> Int] : Solves(g, f, SUBSET S)
<1> DEFINE Good(n) == \E g \in [SUBSET S -> Int] : Solves(g, f, Small(S, n))
           Bad == {n \in Nat : ~Good(n)}
<1>1. ASSUME NEW s \in SUBSET S
      PROVE  /\ IsFiniteSet(s) /\ Cardinality(s) \in Nat /\ Cardinality(s) <= Cardinality(S)
             /\ s # {} => /\ Pick(s) \in S /\ s \ {Pick(s)} \in SUBSET S
                          /\ Cardinality(s \ {Pick(s)}) = Cardinality(s) - 1
  <2>1. IsFiniteSet(s) /\ Cardinality(s) \in Nat /\ Cardinality(s) <= Cardinality(S)
    BY FS_Subset, FS_CardinalityType
  <2>2. s # {} => Pick(s) \in s
    BY PickIsElement
  <2> QED
    BY <2>1, <2>2, FS_RemoveElement
<1>2. Good(0)
  <2> DEFINE g == [s \in SUBSET S |-> 0]
  <2>1. ASSUME NEW s \in Small(S, 0)
        PROVE  s = {}
    <3>1. s \in SUBSET S /\ Cardinality(s) <= 0
      BY DEF Small
    <3>2. IsFiniteSet(s) /\ Cardinality(s) \in Nat
      BY <3>1, FS_Subset, FS_CardinalityType
    <3>3. Cardinality(s) = 0
      BY <3>1, <3>2
    <3> QED
      BY <3>2, <3>3, FS_EmptySet
  <2>2. g \in [SUBSET S -> Int] /\ Solves(g, f, Small(S, 0))
    BY <2>1 DEF Solves, Small
  <2> QED
    BY <2>2
<1>3. ASSUME NEW n \in Nat, Good(n)
      PROVE  Good(n + 1)
  <2>1. PICK g \in [SUBSET S -> Int] : Solves(g, f, Small(S, n))
    BY <1>3
  <2> DEFINE h == [s \in SUBSET S |->
                     IF Cardinality(s) <= n THEN g[s] ELSE f[Pick(s)] + g[s \ {Pick(s)}]]
  <2>2. ASSUME NEW s \in Small(S, n + 1)
        PROVE  h[s] = IF s = {} THEN 0 ELSE f[Pick(s)] + h[s \ {Pick(s)}]
    <3>1. s \in SUBSET S /\ Cardinality(s) <= n + 1 /\ Cardinality(s) \in Nat
      BY <1>1 DEF Small
    <3>2. CASE s = {}
      <4>1. Cardinality(s) = 0 /\ s \in Small(S, n)
        BY <3>1, <3>2, FS_EmptySet DEF Small
      <4> QED
        BY <2>1, <3>1, <3>2, <4>1 DEF Solves
    <3>3. CASE s # {}
      <4>1. /\ s \ {Pick(s)} \in SUBSET S /\ Cardinality(s \ {Pick(s)}) <= n
        BY <1>1, <3>1, <3>3
      <4>2. h[s \ {Pick(s)}] = g[s \ {Pick(s)}]
        BY <4>1
      <4>3. CASE Cardinality(s) <= n
        <5>1. s \in Small(S, n)
          BY <3>1, <4>3 DEF Small
        <5>2. h[s] = g[s] /\ g[s] = f[Pick(s)] + g[s \ {Pick(s)}]
          BY <2>1, <3>1, <3>3, <4>3, <5>1 DEF Solves
        <5> QED
          BY <3>3, <4>2, <5>2
      <4>4. CASE ~(Cardinality(s) <= n)
        BY <3>1, <3>3, <4>2, <4>4
      <4> QED
        BY <4>3, <4>4
    <3> QED
      BY <3>2, <3>3
  <2>3. Solves(h, f, Small(S, n + 1))
    BY <2>2 DEF Solves
  <2>4. h \in [SUBSET S -> Int]
    <3>1. ASSUME NEW s \in SUBSET S
          PROVE  (IF Cardinality(s) <= n THEN g[s] ELSE f[Pick(s)] + g[s \ {Pick(s)}]) \in Int
      <4>1. CASE s = {}
        BY <4>1, FS_EmptySet
      <4>2. CASE s # {}
        BY <1>1, <4>2
      <4> QED
        BY <4>1, <4>2
    <3> QED
      BY <3>1
  <2> QED
    BY <2>3, <2>4
<1>4. Bad = {}
  <2> SUFFICES ASSUME Bad # {} PROVE FALSE
    OBVIOUS
  <2>1. PICK n \in Bad : \A m \in Bad : n <= m
    BY LeastNatural
  <2> HIDE DEF Good
  <2>2. n \in Nat /\ ~Good(n)
    OBVIOUS
  <2>3. n - 1 \in Nat /\ n - 1 \notin Bad
    BY <1>2, <2>1, <2>2
  <2>4. Good(n - 1) /\ (n - 1) + 1 = n
    BY <2>2, <2>3
  <2> QED
    BY <1>3, <2>2, <2>3, <2>4
<1>5. Small(S, Cardinality(S)) = SUBSET S /\ Cardinality(S) \in Nat
  BY <1>1, FS_CardinalityType DEF Small
<1>6. Good(Cardinality(S))
  BY <1>4, <1>5
<1> QED
  BY <1>5, <1>6

(* Two solutions agree where both solve, for functions that agree. *)
LEMMA SolutionsAgree ==
  ASSUME NEW S, IsFiniteSet(S), NEW g, NEW h, NEW f, NEW e,
         Solves(g, f, SUBSET S), Solves(h, e, SUBSET S), \A x \in S : f[x] = e[x]
  PROVE  g[S] = h[S]
<1> DEFINE Bad == {T \in SUBSET S : g[T] # h[T]}
<1> SUFFICES ASSUME Bad # {} PROVE FALSE
  OBVIOUS
<1>1. PICK T \in Bad : IsFiniteSet(T) /\ \A x \in T : T \ {x} \notin Bad
  BY LeastSubset
<1>2. T # {}
  BY DEF Solves
<1>3. Pick(T) \in T
  BY <1>2, PickIsElement
<1>4. g[T \ {Pick(T)}] = h[T \ {Pick(T)}] /\ f[Pick(T)] = e[Pick(T)]
  BY <1>1, <1>3
<1>5. /\ g[T] = f[Pick(T)] + g[T \ {Pick(T)}]
      /\ h[T] = e[Pick(T)] + h[T \ {Pick(T)}]
  BY <1>2 DEF Solves
<1> QED
  BY <1>4, <1>5

(* The sum is what any solution gives. *)
LEMMA SumSolves ==
  ASSUME NEW S, IsFiniteSet(S), NEW f, \A x \in S : f[x] \in Int
  PROVE  \E g \in [SUBSET S -> Int] :
            Solves(g, f, SUBSET S) /\ SumFunctionOnSet(f, S) = g[S]
<1> DEFINE body(g) == [s \in SUBSET S |-> IF s = {} THEN 0 ELSE f[Pick(s)] + g[s \ {Pick(s)}]]
           iter == CHOOSE g : g = body(g)
<1>1. PICK g \in [SUBSET S -> Int] : Solves(g, f, SUBSET S)
  BY SolutionExists
<1>2. g = body(g)
  BY <1>1 DEF Solves
<1>3. iter = body(iter)
  BY <1>2
<1>4. SumFunctionOnSet(f, S) = iter[S]
  BY DEF SumFunctionOnSet, FoldFunctionOnSet, MapThenFoldSet, Pick
<1> HIDE DEF iter
<1>5. Solves(iter, f, SUBSET S)
  BY <1>3 DEF Solves
<1>6. g[S] = iter[S]
  BY <1>1, <1>5, SolutionsAgree
<1> QED
  BY <1>1, <1>4, <1>6

(* One solution gives the sums over all the subsets. *)
LEMMA SumsOfSubsets ==
  ASSUME NEW S, IsFiniteSet(S), NEW f, \A x \in S : f[x] \in Int
  PROVE  \E g \in [SUBSET S -> Int] : SumsUp(g, f, S)
<1>1. PICK g \in [SUBSET S -> Int] : Solves(g, f, SUBSET S)
  BY SolutionExists
<1>2. ASSUME NEW T \in SUBSET S
      PROVE  SumFunctionOnSet(f, T) = g[T]
  <2>1. IsFiniteSet(T) /\ \A x \in T : f[x] \in Int
    BY FS_Subset
  <2>2. PICK h \in [SUBSET T -> Int] : Solves(h, f, SUBSET T) /\ SumFunctionOnSet(f, T) = h[T]
    BY <2>1, SumSolves
  <2>3. Solves(g, f, SUBSET T)
    BY <1>1 DEF Solves
  <2>4. h[T] = g[T]
    BY <2>1, <2>2, <2>3, SolutionsAgree
  <2> QED
    BY <2>2, <2>4
<1> QED
  BY <1>1, <1>2 DEF SumsUp

-----------------------------------------------------------------------------

THEOREM SumEmpty == \A f : SumFunctionOnSet(f, {}) = 0
<1> SUFFICES ASSUME NEW f PROVE SumFunctionOnSet(f, {}) = 0
  OBVIOUS
<1>1. IsFiniteSet({}) /\ \A x \in {} : f[x] \in Int
  BY FS_EmptySet
<1>2. PICK g \in [SUBSET {} -> Int] : Solves(g, f, SUBSET {}) /\ SumFunctionOnSet(f, {}) = g[{}]
  BY <1>1, SumSolves
<1> QED
  BY <1>2 DEF Solves

THEOREM SumIsInteger ==
  ASSUME NEW S, IsFiniteSet(S), NEW f, \A x \in S : f[x] \in Int
  PROVE  SumFunctionOnSet(f, S) \in Int
<1>1. PICK g \in [SUBSET S -> Int] : Solves(g, f, SUBSET S) /\ SumFunctionOnSet(f, S) = g[S]
  BY SumSolves
<1>2. S \in SUBSET S
  OBVIOUS
<1> QED
  BY <1>1, <1>2

(* Any element may be taken first. *)
THEOREM SumRemove ==
  ASSUME NEW S, IsFiniteSet(S), NEW f, \A x \in S : f[x] \in Int, NEW a \in S
  PROVE  SumFunctionOnSet(f, S) = f[a] + SumFunctionOnSet(f, S \ {a})
<1>0. \E g \in [SUBSET S -> Int] : SumsUp(g, f, S)
  BY SumsOfSubsets
<1>1. PICK g \in [SUBSET S -> Int] :
        /\ Solves(g, f, SUBSET S)
        /\ \A T \in SUBSET S : SumFunctionOnSet(f, T) = g[T]
  BY <1>0 DEF SumsUp
<1> DEFINE Wrong(T) == \E x \in T : g[T] # f[x] + g[T \ {x}]
           Bad == {T \in SUBSET S : Wrong(T)}
<1>2. Bad = {}
  <2> SUFFICES ASSUME Bad # {} PROVE FALSE
    OBVIOUS
  <2>1. PICK T \in Bad : IsFiniteSet(T) /\ \A x \in T : T \ {x} \notin Bad
    BY LeastSubset
  <2>2. T \in SUBSET S
    OBVIOUS
  <2>3. PICK x \in T : g[T] # f[x] + g[T \ {x}]
    BY <2>1
  <2> DEFINE y == Pick(T)
  <2>4. y \in T /\ g[T] = f[y] + g[T \ {y}]
    BY <1>1, <2>2, <2>3, PickIsElement DEF Solves
  <2> HIDE DEF y
  <2>5. x # y
    BY <2>3, <2>4
  <2>6. ASSUME NEW z \in T
        PROVE  T \ {z} \in SUBSET S /\ ~Wrong(T \ {z})
    BY <2>1, <2>2
  <2>7. g[T \ {y}] = f[x] + g[(T \ {y}) \ {x}]
    BY <2>4, <2>5, <2>6
  <2>8. g[T \ {x}] = f[y] + g[(T \ {x}) \ {y}]
    BY <2>4, <2>5, <2>6
  <2>9. (T \ {x}) \ {y} = (T \ {y}) \ {x}
    OBVIOUS
  <2>10. f[x] \in Int /\ f[y] \in Int /\ g[(T \ {x}) \ {y}] \in Int
    BY <2>2, <2>4
  <2> DEFINE fx == f[x]
             fy == f[y]
             rest == g[(T \ {x}) \ {y}]
  <2>11. g[T] = fy + (fx + rest) /\ g[T \ {x}] = fy + rest
    BY <2>4, <2>7, <2>8, <2>9
  <2>12. fx \in Int /\ fy \in Int /\ rest \in Int /\ g[T] # fx + g[T \ {x}]
    BY <2>3, <2>10
  <2> HIDE DEF fx, fy, rest
  <2> QED
    BY <2>11, <2>12
<1>3. g[S] = f[a] + g[S \ {a}]
  BY <1>2
<1> QED
  BY <1>1, <1>3

(* The sum depends on the values in the set only. *)
THEOREM SumAgree ==
  ASSUME NEW S, IsFiniteSet(S), NEW f, NEW e,
         \A x \in S : f[x] \in Int /\ e[x] = f[x]
  PROVE  SumFunctionOnSet(e, S) = SumFunctionOnSet(f, S)
<1>1. PICK g \in [SUBSET S -> Int] : Solves(g, f, SUBSET S) /\ SumFunctionOnSet(f, S) = g[S]
  BY SumSolves
<1>2. PICK h \in [SUBSET S -> Int] : Solves(h, e, SUBSET S) /\ SumFunctionOnSet(e, S) = h[S]
  BY SumSolves
<1> QED
  BY <1>1, <1>2, SolutionsAgree

(* One more place adds its value. *)
THEOREM SumOfNext ==
  ASSUME NEW n \in Nat, NEW f, NEW g, \A i \in 1..n : f[i] \in Int /\ g[i] = f[i], g[n + 1] \in Int
  PROVE  SumFunctionOnSet(g, 1..(n + 1)) = SumFunctionOnSet(f, 1..n) + g[n + 1]
<1>1. IsFiniteSet(1..n) /\ IsFiniteSet(1..(n + 1))
  BY FS_Interval
<1>2. n + 1 \in 1..(n + 1) /\ (1..(n + 1)) \ {n + 1} = 1..n
  OBVIOUS
<1>3. \A i \in 1..(n + 1) : g[i] \in Int
  <2>1. \A i \in 1..(n + 1) : i \in 1..n \/ i = n + 1
    OBVIOUS
  <2> QED
    BY <2>1
<1>4. SumFunctionOnSet(g, 1..(n + 1)) = g[n + 1] + SumFunctionOnSet(g, 1..n)
  BY <1>1, <1>2, <1>3, SumRemove
<1>5. SumFunctionOnSet(g, 1..n) = SumFunctionOnSet(f, 1..n)
  BY <1>1, SumAgree
<1>6. SumFunctionOnSet(f, 1..n) \in Int
  BY <1>1, SumIsInteger
<1> QED
  BY <1>4, <1>5, <1>6

THEOREM SumIsNatural ==
  ASSUME NEW S, IsFiniteSet(S), NEW f, \A x \in S : f[x] \in Nat
  PROVE  SumFunctionOnSet(f, S) \in Nat
<1> DEFINE Bad == {T \in SUBSET S : SumFunctionOnSet(f, T) \notin Nat}
<1> SUFFICES ASSUME Bad # {} PROVE FALSE
  OBVIOUS
<1>1. PICK T \in Bad : IsFiniteSet(T) /\ \A x \in T : T \ {x} \notin Bad
  BY LeastSubset
<1>2. PICK x \in T : TRUE
  BY SumEmpty
<1>3. \A y \in T : f[y] \in Int
  OBVIOUS
<1>4. SumFunctionOnSet(f, T) = f[x] + SumFunctionOnSet(f, T \ {x})
  BY <1>1, <1>2, <1>3, SumRemove
<1>5. SumFunctionOnSet(f, T \ {x}) \in Nat /\ f[x] \in Nat
  BY <1>1, <1>2
<1> QED
  BY <1>4, <1>5

(* A sum of zeros and ones counts the ones. *)
THEOREM SumIsCount ==
  ASSUME NEW S, IsFiniteSet(S), NEW f, \A x \in S : f[x] \in {0, 1}
  PROVE  SumFunctionOnSet(f, S) = Cardinality({x \in S : f[x] = 1})
<1> DEFINE Ones(T) == {x \in T : f[x] = 1}
           Bad == {T \in SUBSET S : SumFunctionOnSet(f, T) # Cardinality(Ones(T))}
<1> SUFFICES ASSUME Bad # {} PROVE FALSE
  OBVIOUS
<1>1. PICK T \in Bad : IsFiniteSet(T) /\ \A x \in T : T \ {x} \notin Bad
  BY LeastSubset
<1>2. T # {}
  BY SumEmpty, FS_EmptySet
<1>3. PICK x \in T : TRUE
  BY <1>2
<1>4. \A y \in T : f[y] \in Int
  OBVIOUS
<1>5. SumFunctionOnSet(f, T) = f[x] + SumFunctionOnSet(f, T \ {x})
  BY <1>1, <1>4, SumRemove
<1>6. SumFunctionOnSet(f, T \ {x}) = Cardinality(Ones(T \ {x}))
  BY <1>1
<1>7. IsFiniteSet(Ones(T \ {x})) /\ Cardinality(Ones(T \ {x})) \in Nat /\ x \notin Ones(T \ {x})
  BY <1>1, FS_Subset, FS_CardinalityType
<1>8. CASE f[x] = 1
  <2>1. Ones(T) = Ones(T \ {x}) \cup {x}
    BY <1>8
  <2>2. Cardinality(Ones(T)) = Cardinality(Ones(T \ {x})) + 1
    BY <1>7, <2>1, FS_AddElement
  <2> QED
    BY <1>5, <1>6, <1>7, <1>8, <2>2
<1>9. CASE f[x] = 0
  <2>1. Ones(T) = Ones(T \ {x})
    BY <1>9
  <2> QED
    BY <1>5, <1>6, <1>7, <1>9, <2>1
<1> QED
  BY <1>3, <1>8, <1>9

(* The sizes of disjoint parts add up to that of their union. *)
THEOREM SumOfParts ==
  ASSUME NEW S, IsFiniteSet(S), NEW U, IsFiniteSet(U), NEW C \in [S -> SUBSET U],
         \A s, t \in S : s # t => C[s] \cap C[t] = {},
         NEW f, \A s \in S : f[s] = Cardinality(C[s])
  PROVE  SumFunctionOnSet(f, S) <= Cardinality(U)
<1> DEFINE All(T) == UNION {C[s] : s \in T}
           Bad == {T \in SUBSET S : SumFunctionOnSet(f, T) # Cardinality(All(T))}
<1>1. \A T \in SUBSET S : /\ All(T) \in SUBSET U /\ IsFiniteSet(All(T))
                          /\ Cardinality(All(T)) \in Nat /\ Cardinality(All(T)) <= Cardinality(U)
  <2>1. \A T \in SUBSET S : All(T) \in SUBSET U
    OBVIOUS
  <2> QED
    BY <2>1, FS_Subset, FS_CardinalityType
<1>2. \A s \in S : IsFiniteSet(C[s]) /\ f[s] \in Nat
  BY FS_Subset, FS_CardinalityType
<1>3. Bad = {}
  <2> SUFFICES ASSUME Bad # {} PROVE FALSE
    OBVIOUS
  <2>1. PICK T \in Bad : IsFiniteSet(T) /\ \A x \in T : T \ {x} \notin Bad
    BY LeastSubset
  <2>2. T # {}
    <3>1. All({}) = {}
      OBVIOUS
    <3> QED
      BY <3>1, SumEmpty, FS_EmptySet
  <2>3. PICK x \in T : TRUE
    BY <2>2
  <2>4. SumFunctionOnSet(f, T) = f[x] + SumFunctionOnSet(f, T \ {x})
    <3>1. \A y \in T : f[y] \in Int
      BY <1>2
    <3> QED
      BY <2>1, <3>1, SumRemove
  <2>5. SumFunctionOnSet(f, T \ {x}) = Cardinality(All(T \ {x}))
    BY <2>1
  <2>6. All(T) = C[x] \cup All(T \ {x}) /\ C[x] \cap All(T \ {x}) = {}
    OBVIOUS
  <2>7. Cardinality(C[x] \cap All(T \ {x})) = 0
    BY <2>6, FS_EmptySet
  <2>8. T \ {x} \in SUBSET S
    OBVIOUS
  <2>9. /\ IsFiniteSet(All(T \ {x})) /\ Cardinality(All(T \ {x})) \in Nat
        /\ IsFiniteSet(C[x]) /\ f[x] = Cardinality(C[x]) /\ f[x] \in Nat
    BY <1>1, <1>2, <2>8
  <2> HIDE DEF All
  <2>10. Cardinality(All(T)) = Cardinality(C[x]) + Cardinality(All(T \ {x})) - 0
    BY <2>6, <2>7, <2>9, FS_Union
  <2> QED
    BY <2>4, <2>5, <2>9, <2>10
<1> QED
  BY <1>1, <1>3

-----------------------------------------------------------------------------
(* Places in a strict order of a finite set. *)

StrictOrder(R, A) ==
  /\ \A x \in A : <<x, x>> \notin R
  /\ \A x, y \in A : x = y \/ <<x, y>> \in R \/ <<y, x>> \in R
  /\ \A x, y, z \in A : <<x, y>> \in R /\ <<y, z>> \in R => <<x, z>> \in R

Ahead(R, A, q) == {o \in A : <<o, q>> \in R}

(* What comes later has more ahead of it. *)
LEMMA PlacesGrow ==
  ASSUME NEW A, IsFiniteSet(A), NEW R, StrictOrder(R, A), NEW x \in A, NEW y \in A
  PROVE  /\ Cardinality(Ahead(R, A, x)) \in Nat /\ Cardinality(Ahead(R, A, y)) \in Nat
         /\ <<x, y>> \in R => Cardinality(Ahead(R, A, x)) < Cardinality(Ahead(R, A, y))
<1>1. IsFiniteSet(Ahead(R, A, x)) /\ IsFiniteSet(Ahead(R, A, y))
  BY FS_Subset DEF Ahead
<1>2. Cardinality(Ahead(R, A, x)) \in Nat /\ Cardinality(Ahead(R, A, y)) \in Nat
  BY <1>1, FS_CardinalityType
<1>3. ASSUME <<x, y>> \in R
      PROVE  Cardinality(Ahead(R, A, x)) < Cardinality(Ahead(R, A, y))
  <2>1. Ahead(R, A, x) \in SUBSET Ahead(R, A, y)
    BY <1>3 DEF Ahead, StrictOrder
  <2>2. x \in Ahead(R, A, y) /\ x \notin Ahead(R, A, x)
    BY <1>3 DEF Ahead, StrictOrder
  <2>3. /\ Cardinality(Ahead(R, A, x)) <= Cardinality(Ahead(R, A, y))
        /\ Cardinality(Ahead(R, A, x)) # Cardinality(Ahead(R, A, y))
    BY <1>1, <2>1, <2>2, FS_Subset
  <2> QED
    BY <1>2, <2>3
<1> QED
  BY <1>2, <1>3

(* If anything is left out of the first n, they are n, and ahead of it. *)
THEOREM FirstAreFull ==
  ASSUME NEW A, IsFiniteSet(A), NEW R, StrictOrder(R, A), NEW n \in Nat,
         NEW First, First = {q \in A : Cardinality(Ahead(R, A, q)) < n},
         NEW p \in A, p \notin First
  PROVE  Cardinality(First) = n /\ \A q \in First : <<q, p>> \in R
<1> DEFINE place(q) == Cardinality(Ahead(R, A, q))
<1>1. \A x, y \in A : place(x) \in Nat /\ (<<x, y>> \in R => place(x) < place(y))
  BY PlacesGrow
<1> HIDE DEF place
<1>2. First = {q \in A : place(q) < n}
  BY DEF place
<1>3. \A q \in First, o \in A \ First : <<q, o>> \in R
  <2> SUFFICES ASSUME NEW q \in First, NEW o \in A \ First PROVE <<q, o>> \in R
    OBVIOUS
  <2>1. q \in A /\ q # o /\ place(q) \in Nat /\ place(o) \in Nat /\ ~(place(o) < place(q))
    <3>1. q \in A /\ o \in A /\ place(q) < n /\ ~(place(o) < n)
      BY <1>2
    <3>2. place(q) \in Nat /\ place(o) \in Nat
      BY <1>1, <3>1
    <3> QED
      BY <3>1, <3>2
  <2>2. ~(<<o, q>> \in R)
    BY <1>1, <2>1
  <2> QED
    BY <2>1, <2>2 DEF StrictOrder
<1>4. IsFiniteSet(First) /\ Cardinality(First) \in Nat
  BY <1>2, FS_Subset, FS_CardinalityType
<1>5. n <= Cardinality(First)
  <2> DEFINE Out == {place(o) : o \in A \ First}
  <2>1. Out \in SUBSET Nat /\ Out # {}
    BY <1>1
  <2>2. PICK k \in Out : \A m \in Out : k <= m
    BY <2>1, LeastNatural
  <2>3. PICK o \in A \ First : k = place(o)
    OBVIOUS
  <2>4. Ahead(R, A, o) = First
    <3>1. ASSUME NEW x \in A \ First PROVE ~(<<x, o>> \in R)
      <4>1. place(x) \in Out /\ place(x) \in Nat /\ place(o) \in Nat /\ place(o) <= place(x)
        BY <1>1, <2>2, <2>3
      <4> QED
        BY <1>1, <2>3, <4>1
    <3> QED
      BY <1>2, <1>3, <2>3, <3>1 DEF Ahead
  <2>5. place(o) = Cardinality(First) /\ ~(place(o) < n)
    BY <1>2, <2>3, <2>4 DEF place
  <2> QED
    BY <1>4, <2>5
<1>6. Cardinality(First) <= n
  <2>1. CASE First = {}
    BY <2>1, FS_EmptySet
  <2>2. CASE First # {}
    <3> DEFINE Back == {n - place(q) : q \in First}
    <3>1. Back \in SUBSET Nat /\ Back # {}
      <4>1. \A q \in First : place(q) \in Nat /\ place(q) < n
        BY <1>1, <1>2
      <4>2. \A q \in First : n - place(q) \in Nat
        BY <4>1
      <4> QED
        BY <2>2, <4>2
    <3>2. PICK k \in Back : \A m \in Back : k <= m
      BY <3>1, LeastNatural
    <3>3. PICK q \in First : k = n - place(q)
      OBVIOUS
    <3>4. q \in A /\ place(q) \in Nat /\ place(q) < n
      BY <1>1, <1>2, <3>3
    <3>5. ASSUME NEW o \in First, o # q
          PROVE  o \in Ahead(R, A, q)
      <4>1. n - place(o) \in Back /\ o \in A /\ place(o) \in Nat
        BY <1>1, <1>2
      <4>2. place(o) <= place(q)
        BY <3>2, <3>3, <3>4, <4>1
      <4>3. ~(<<q, o>> \in R)
        BY <1>1, <3>4, <4>1, <4>2
      <4> QED
        BY <3>4, <3>5, <4>1, <4>3 DEF Ahead, StrictOrder
    <3>6. Ahead(R, A, q) = First \ {q}
      BY <1>1, <1>2, <3>4, <3>5 DEF Ahead, StrictOrder
    <3>7. Cardinality(First \ {q}) = Cardinality(First) - 1
      BY <1>4, FS_RemoveElement
    <3> QED
      BY <1>4, <3>4, <3>6, <3>7 DEF place
  <2> QED
    BY <2>1, <2>2
<1> QED
  BY <1>3, <1>4, <1>5, <1>6
=============================================================================
