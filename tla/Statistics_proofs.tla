-------------------------- MODULE Statistics_proofs --------------------------
(***************************************************************************)
(* Theorems about what counts the traffic of Traffic: the accounts of its  *)
(* generator, the collector of the simulation and those of the layers, for *)
(* every number of UEs, sources, flows, sizes, windows and events.         *)
(***************************************************************************)
EXTENDS Traffic, Integers, FiniteSets, FiniteSetTheorems, NaturalsInduction,
        WellFoundedInduction, TLAPS

-----------------------------------------------------------------------------
(* Sums and maxima over finite sets.  Where an operator folds a set or a   *)
(* sequence, its definition is SumOn, SumUpTo, MostOn or MostUpTo of a     *)
(* function; all are the value, at the set, of the one function on its     *)
(* subsets that adds, or compares, one member at a time, in any order.     *)

(* Induction over a finite set, for sets: what holds of {}, and of a set   *)
(* whenever it holds of the set without some member, holds of all subsets. *)
LEMMA SubsetInduction ==
  ASSUME NEW S, IsFiniteSet(S), NEW T, {} \in T,
         \A A \in SUBSET S : A # {} /\ (\A x \in A : A \ {x} \in T) => A \in T
  PROVE  SUBSET S \subseteq T
<1> DEFINE Bad == {A \in FiniteSubsetsOf(S) : A \notin T}
<1>1. SUBSET S = FiniteSubsetsOf(S)
  BY FS_Subset DEF FiniteSubsetsOf
<1>2. SUFFICES ASSUME Bad # {} PROVE FALSE
  BY <1>1
<1>3. IsWellFoundedOn(StrictSubsetOrdering(S), FiniteSubsetsOf(S))
  BY FS_StrictSubsetOrderingWellFounded
<1>4. PICK A \in Bad : \A B \in Bad : ~(<<B, A>> \in StrictSubsetOrdering(S))
  BY <1>2, <1>3, WFMin
<1>5. ASSUME NEW x \in A PROVE A \ {x} \in T
  <2>1. A \ {x} \in SUBSET S /\ A \in SUBSET S
    BY <1>1
  <2>2. <<A \ {x}, A>> \in StrictSubsetOrdering(S)
    BY <2>1, <1>5 DEF StrictSubsetOrdering
  <2>3. QED
    BY <1>1, <1>4, <2>1, <2>2
<1>6. A \in T
  BY <1>1, <1>5
<1>7. QED
  BY <1>6

Top(s) == CHOOSE x \in s : \A y \in s : x >= y

LEMMA TopType ==
  ASSUME NEW n \in Nat, NEW s \in SUBSET (1..n), s # {}
  PROVE  Top(s) \in s /\ \A y \in s : Top(s) >= y
<1> DEFINE HasTop(A) == \E m \in A : \A x \in A : m >= x
           I == 1..n
           T == {A \in SUBSET I : A = {} \/ HasTop(A)}
<1>1. ASSUME NEW A \in SUBSET I, A # {}, \A x \in A : A \ {x} \in T
      PROVE  A \in T
  <2>1. PICK x \in A : A \ {x} = {} \/ HasTop(A \ {x})
    <3> HIDE DEF HasTop
    <3> QED
      BY <1>1
  <2>2. CASE A \ {x} = {}
    <3>1. \A y \in A : x >= y
      BY <1>1, <2>1, <2>2
    <3> QED
      BY <1>1, <2>1, <3>1
  <2>3. CASE HasTop(A \ {x})
    <3>1. PICK m \in A \ {x} : \A y \in A \ {x} : m >= y
      BY <2>3
    <3>2. m \in Nat /\ x \in Nat /\ \A y \in A : y \in Nat
      BY <1>1, <2>1, <3>1
    <3>3. CASE m >= x
      <4>1. \A y \in A : m >= y
        BY <3>1, <3>3
      <4> QED
        BY <3>1, <4>1
    <3>4. CASE x > m
      <4>1. \A y \in A : x >= y
        BY <3>1, <3>2, <3>4
      <4> QED
        BY <2>1, <4>1
    <3> QED
      BY <3>2, <3>3, <3>4
  <2> QED
    BY <2>1, <2>2, <2>3
<1>2. IsFiniteSet(I) /\ {} \in T
  BY FS_Interval
<1>3. SUBSET I \subseteq T
  <2> HIDE DEF T, I
  <2> QED
    BY <1>1, <1>2, SubsetInduction
<1>4. HasTop(s)
  BY <1>3
<1> QED
  BY <1>4 DEF Top

(* The equations of the folds.                                             *)
SumStep(f, it, s) ==
  IF s = {} THEN 0 ELSE LET x == CHOOSE x \in s : TRUE IN it[s \ {x}] + f[x]
SumOn(f, S) == LET it[s \in SUBSET S] == SumStep(f, it, s) IN it[S]

TopSumStep(f, it, s) == IF s = {} THEN 0 ELSE it[s \ {Top(s)}] + f[Top(s)]
SumUpTo(f, S) == LET it[s \in SUBSET S] == TopSumStep(f, it, s) IN it[S]

Higher(a, b) == IF a > b THEN a ELSE b
MostStep(f, it, s) ==
  IF s = {} THEN 0 ELSE LET x == CHOOSE x \in s : TRUE IN Higher(it[s \ {x}], f[x])
MostOn(f, S) == LET it[s \in SUBSET S] == MostStep(f, it, s) IN it[S]

TopMostStep(f, it, s) == IF s = {} THEN 0 ELSE Higher(it[s \ {Top(s)}], f[Top(s)])
MostUpTo(f, S) == LET it[s \in SUBSET S] == TopMostStep(f, it, s) IN it[S]

(* The function that adds.                                                 *)
Adds(it, f, S) ==
  /\ it \in [SUBSET S -> Nat]
  /\ it[{}] = 0
  /\ \A s \in SUBSET S : \A x \in s : it[s] = it[s \ {x}] + f[x]

LEMMA AdderExists ==
  ASSUME NEW S, IsFiniteSet(S), NEW f, \A x \in S : f[x] \in Nat
  PROVE  \E it : Adds(it, f, S)
<1> DEFINE T == {A \in SUBSET S : \E it : Adds(it, f, A)}
<1>1. {} \in T
  <2>1. Adds([s \in SUBSET {} |-> 0], f, {})
    BY DEF Adds
  <2> QED
    BY <2>1
<1>2. ASSUME NEW A \in SUBSET S, A # {}, \A x \in A : A \ {x} \in T
      PROVE  A \in T
  <2>1. PICK x \in A : A \ {x} \in T
    BY <1>2
  <2>2. PICK it : Adds(it, f, A \ {x})
    BY <2>1
  <2> DEFINE B == A \ {x}
             new == [s \in SUBSET A |-> IF x \in s THEN it[s \ {x}] + f[x] ELSE it[s]]
  <2>3. /\ it \in [SUBSET B -> Nat] /\ it[{}] = 0
        /\ \A s \in SUBSET B : \A y \in s : it[s] = it[s \ {y}] + f[y]
    BY <2>2 DEF Adds
  <2>4. new \in [SUBSET A -> Nat]
    <3> SUFFICES ASSUME NEW s \in SUBSET A PROVE new[s] \in Nat
      BY Zenon
    <3>1. x \in s => s \ {x} \in SUBSET B
      OBVIOUS
    <3>2. x \notin s => s \in SUBSET B
      OBVIOUS
    <3> QED
      BY <2>3, <3>1, <3>2
  <2>5. new[{}] = 0
    BY <2>3
  <2>6. ASSUME NEW s \in SUBSET A, NEW y \in s
        PROVE  new[s] = new[s \ {y}] + f[y]
    <3>1. CASE x \notin s
      <4>1. s \in SUBSET B /\ new[s] = it[s] /\ new[s \ {y}] = it[s \ {y}]
        BY <3>1
      <4> QED
        BY <2>3, <2>6, <4>1
    <3>2. CASE x = y
      <4>1. new[s] = it[s \ {x}] + f[x] /\ new[s \ {y}] = it[s \ {x}]
        BY <2>6, <3>2
      <4> QED
        BY <3>2, <4>1
    <3>3. CASE x \in s /\ x # y
      <4>1. s \ {x} \in SUBSET B /\ y \in s \ {x} /\ (s \ {x}) \ {y} = (s \ {y}) \ {x}
        BY <2>6, <3>3
      <4>2. new[s] = it[s \ {x}] + f[x] /\ new[s \ {y}] = it[(s \ {y}) \ {x}] + f[x]
        BY <2>6, <3>3
      <4>3. it[s \ {x}] = it[(s \ {y}) \ {x}] + f[y] /\ it[(s \ {y}) \ {x}] \in Nat
        BY <2>3, <4>1
      <4>4. f[x] \in Nat /\ f[y] \in Nat
        BY <2>6
      <4> HIDE DEF new
      <4> QED
        BY <4>2, <4>3, <4>4
    <3> QED
      BY <3>1, <3>2, <3>3
  <2>7. Adds(new, f, A)
    <3> HIDE DEF new
    <3> QED
      BY <2>4, <2>5, <2>6 DEF Adds
  <2> QED
    BY <2>7
<1>3. SUBSET S \subseteq T
  <2> HIDE DEF T
  <2> QED
    BY <1>1, <1>2, SubsetInduction
<1>4. S \in T
  BY <1>3
<1> QED
  BY <1>4

(* What agrees with it one step at a time agrees with it.                  *)
LEMMA AgreesUpTo ==
  ASSUME NEW S, IsFiniteSet(S), NEW it, NEW g, g[{}] = it[{}],
         \A s \in SUBSET S : s # {} => \E x \in s : g[s \ {x}] = it[s \ {x}] => g[s] = it[s]
  PROVE  g[S] = it[S]
<1> DEFINE T == {A \in SUBSET S : g[A] = it[A]}
<1>1. {} \in T
  OBVIOUS
<1>2. ASSUME NEW A \in SUBSET S, A # {}, \A x \in A : A \ {x} \in T
      PROVE  A \in T
  BY <1>2
<1>3. SUBSET S \subseteq T
  <2> HIDE DEF T
  <2> QED
    BY <1>1, <1>2, SubsetInduction
<1> QED
  BY <1>3

LEMMA SumIsAdder ==
  ASSUME NEW S, IsFiniteSet(S), NEW f, NEW it, Adds(it, f, S)
  PROVE  SumOn(f, S) = it[S]
<1> DEFINE Eq(g) == g = [s \in SUBSET S |-> SumStep(f, g, s)]
           g == CHOOSE g : Eq(g)
<1>1. Eq(it)
  <2>1. ASSUME NEW s \in SUBSET S PROVE it[s] = SumStep(f, it, s)
    BY DEF Adds, SumStep
  <2>2. it = [s \in SUBSET S |-> it[s]]
    BY DEF Adds
  <2> QED
    BY <2>1, <2>2
<1>2. Eq(g)
  <2> HIDE DEF Eq
  <2> QED
    BY <1>1
<1>3. SumOn(f, S) = g[S]
  BY DEF SumOn
<1> HIDE DEF g
<1>4. g[{}] = it[{}]
  BY <1>2 DEF SumStep, Adds
<1>5. ASSUME NEW s \in SUBSET S, s # {}
      PROVE  \E x \in s : g[s \ {x}] = it[s \ {x}] => g[s] = it[s]
  <2> DEFINE x == CHOOSE x \in s : TRUE
  <2>1. x \in s
    BY <1>5
  <2>2. g[s] = g[s \ {x}] + f[x]
    BY <1>2, <1>5 DEF SumStep
  <2> HIDE DEF x
  <2>3. it[s] = it[s \ {x}] + f[x]
    BY <2>1 DEF Adds
  <2> QED
    BY <2>1, <2>2, <2>3
<1> HIDE DEF Eq
<1> QED
  BY <1>3, <1>4, <1>5, AgreesUpTo

LEMMA SumUpToIsAdder ==
  ASSUME NEW n \in Nat, NEW f, NEW it, Adds(it, f, 1..n)
  PROVE  SumUpTo(f, 1..n) = it[1..n]
<1> DEFINE S == 1..n
           Eq(g) == g = [s \in SUBSET S |-> TopSumStep(f, g, s)]
           g == CHOOSE g : Eq(g)
<1>0. IsFiniteSet(S)
  BY FS_Interval
<1>1. Eq(it)
  <2>1. ASSUME NEW s \in SUBSET S PROVE it[s] = TopSumStep(f, it, s)
    BY TopType DEF Adds, TopSumStep
  <2>2. it = [s \in SUBSET S |-> it[s]]
    BY DEF Adds
  <2> QED
    BY <2>1, <2>2
<1>2. Eq(g)
  <2> HIDE DEF Eq
  <2> QED
    BY <1>1
<1>3. SumUpTo(f, S) = g[S]
  BY DEF SumUpTo
<1> HIDE DEF g
<1>4. g[{}] = it[{}]
  BY <1>2 DEF TopSumStep, Adds
<1>5. ASSUME NEW s \in SUBSET S, s # {}
      PROVE  \E x \in s : g[s \ {x}] = it[s \ {x}] => g[s] = it[s]
  <2>1. Top(s) \in s
    BY <1>5, TopType
  <2>2. g[s] = g[s \ {Top(s)}] + f[Top(s)]
    BY <1>2, <1>5 DEF TopSumStep
  <2>3. it[s] = it[s \ {Top(s)}] + f[Top(s)]
    BY <2>1 DEF Adds
  <2> QED
    BY <2>1, <2>2, <2>3
<1> HIDE DEF Eq, S
<1>6. g[S] = it[S]
  BY <1>0, <1>4, <1>5, AgreesUpTo
<1> QED
  BY <1>3, <1>6 DEF S

(* What the proofs need of sums.                                           *)
LEMMA SumType ==
  ASSUME NEW S, IsFiniteSet(S), NEW f, \A x \in S : f[x] \in Nat
  PROVE  /\ SumOn(f, S) \in Nat
         /\ \A x \in S : SumOn(f, S) = SumOn(f, S \ {x}) + f[x]
<1>1. PICK it : Adds(it, f, S)
  BY AdderExists
<1>2. SumOn(f, S) = it[S]
  BY <1>1, SumIsAdder
<1>3. ASSUME NEW x \in S PROVE SumOn(f, S \ {x}) = it[S \ {x}]
  <2> DEFINE R == S \ {x}
             sub == [s \in SUBSET R |-> it[s]]
  <2>1. IsFiniteSet(R)
    BY FS_Subset
  <2>2. Adds(sub, f, R)
    BY <1>1 DEF Adds
  <2> HIDE DEF sub, R
  <2>3. SumOn(f, R) = sub[R]
    BY <2>1, <2>2, SumIsAdder
  <2> QED
    BY <2>3 DEF sub, R
<1> QED
  BY <1>1, <1>2, <1>3 DEF Adds

LEMMA SumEmpty ==
  ASSUME NEW f
  PROVE  SumOn(f, {}) = 0
<1>1. Adds([s \in SUBSET {} |-> 0], f, {})
  BY DEF Adds
<1>2. IsFiniteSet({})
  BY FS_EmptySet
<1> QED
  BY <1>1, <1>2, SumIsAdder

LEMMA SumZero ==
  ASSUME NEW S, IsFiniteSet(S), NEW f, \A x \in S : f[x] = 0
  PROVE  SumOn(f, S) = 0
<1> DEFINE it == [s \in SUBSET S |-> 0]
<1>1. Adds(it, f, S)
  BY DEF Adds
<1> HIDE DEF it
<1>2. SumOn(f, S) = it[S]
  BY <1>1, SumIsAdder
<1> QED
  BY <1>2 DEF it

LEMMA SumUpToIsSum ==
  ASSUME NEW n \in Nat, NEW f, \A i \in 1..n : f[i] \in Nat
  PROVE  SumUpTo(f, 1..n) = SumOn(f, 1..n)
<1>1. IsFiniteSet(1..n)
  BY FS_Interval
<1>2. PICK it : Adds(it, f, 1..n)
  BY <1>1, AdderExists
<1> QED
  BY <1>1, <1>2, SumUpToIsAdder, SumIsAdder

LEMMA SumSame ==
  ASSUME NEW S, IsFiniteSet(S), NEW f, NEW g, \A x \in S : f[x] \in Nat /\ g[x] = f[x]
  PROVE  SumOn(g, S) = SumOn(f, S)
<1>1. PICK it : Adds(it, f, S)
  BY AdderExists
<1>2. Adds(it, g, S)
  BY <1>1 DEF Adds
<1> QED
  BY <1>1, <1>2, SumIsAdder

(* One value changes.                                                      *)
LEMMA SumPut ==
  ASSUME NEW S, IsFiniteSet(S), NEW f, NEW g, NEW x \in S,
         \A y \in S : f[y] \in Nat /\ g[y] \in Nat, \A y \in S \ {x} : g[y] = f[y]
  PROVE  SumOn(g, S) + f[x] = SumOn(f, S) + g[x]
<1>1. IsFiniteSet(S \ {x})
  BY FS_Subset
<1>2. SumOn(g, S \ {x}) = SumOn(f, S \ {x}) /\ SumOn(f, S \ {x}) \in Nat
  <2> DEFINE R == S \ {x}
  <2>1. IsFiniteSet(R) /\ \A y \in R : f[y] \in Nat /\ g[y] = f[y]
    BY <1>1
  <2> HIDE DEF R
  <2>2. SumOn(g, R) = SumOn(f, R) /\ SumOn(f, R) \in Nat
    BY <2>1, SumSame, SumType
  <2> QED
    BY <2>2 DEF R
<1>3. SumOn(f, S) = SumOn(f, S \ {x}) + f[x] /\ SumOn(g, S) = SumOn(g, S \ {x}) + g[x]
  BY SumType
<1> QED
  BY <1>2, <1>3

(* One value is added.                                                     *)
LEMMA SumExtend ==
  ASSUME NEW S, IsFiniteSet(S), NEW x, x \notin S, NEW f, NEW g,
         g[x] \in Nat, \A y \in S : f[y] \in Nat /\ g[y] = f[y]
  PROVE  SumOn(g, S \cup {x}) = SumOn(f, S) + g[x]
<1> DEFINE R == S \cup {x}
<1>1. IsFiniteSet(R) /\ x \in R /\ R \ {x} = S /\ \A y \in R : g[y] \in Nat
  BY FS_AddElement
<1> HIDE DEF R
<1>2. SumOn(g, R) = SumOn(g, S) + g[x]
  BY <1>1, SumType
<1>3. SumOn(g, S) = SumOn(f, S)
  BY SumSame
<1> QED
  BY <1>2, <1>3 DEF R

LEMMA SumAppend ==
  ASSUME NEW n \in Nat, NEW f, NEW g, g[n + 1] \in Nat,
         \A i \in 1..n : f[i] \in Nat /\ g[i] = f[i]
  PROVE  SumOn(g, 1..(n + 1)) = SumOn(f, 1..n) + g[n + 1]
<1>1. IsFiniteSet(1..n)
  BY FS_Interval
<1>0. n + 1 \notin 1..n /\ 1..(n + 1) = (1..n) \cup {n + 1}
  OBVIOUS
<1> DEFINE I == 1..n  x == n + 1
<1>2. IsFiniteSet(I) /\ x \notin I /\ g[x] \in Nat /\ \A y \in I : f[y] \in Nat /\ g[y] = f[y]
  BY <1>0, <1>1
<1> HIDE DEF I, x
<1>3. SumOn(g, I \cup {x}) = SumOn(f, I) + g[x]
  BY <1>2, SumExtend
<1> QED
  BY <1>0, <1>3 DEF I, x

(* Sums keep order.                                                        *)
LEMMA SumMonotone ==
  ASSUME NEW S, IsFiniteSet(S), NEW f, NEW g,
         \A x \in S : f[x] \in Nat /\ g[x] \in Nat /\ f[x] <= g[x]
  PROVE  SumOn(f, S) <= SumOn(g, S)
<1> DEFINE T == {A \in SUBSET S : SumOn(f, A) <= SumOn(g, A)}
<1>1. {} \in T
  BY SumEmpty
<1>2. ASSUME NEW A \in SUBSET S, A # {}, \A x \in A : A \ {x} \in T
      PROVE  A \in T
  <2>1. PICK x \in A : SumOn(f, A \ {x}) <= SumOn(g, A \ {x})
    BY <1>2
  <2>2. IsFiniteSet(A) /\ IsFiniteSet(A \ {x})
    BY FS_Subset
  <2>3. SumOn(f, A) = SumOn(f, A \ {x}) + f[x] /\ SumOn(g, A) = SumOn(g, A \ {x}) + g[x]
    BY <2>1, <2>2, SumType
  <2>4. SumOn(f, A \ {x}) \in Nat /\ SumOn(g, A \ {x}) \in Nat /\ f[x] \in Nat /\ g[x] \in Nat
        /\ f[x] <= g[x]
    <3> DEFINE R == A \ {x}
    <3>1. \A y \in R : f[y] \in Nat /\ g[y] \in Nat
      OBVIOUS
    <3> HIDE DEF R
    <3>2. SumOn(f, R) \in Nat /\ SumOn(g, R) \in Nat
      <4>1. IsFiniteSet(R)
        BY <2>2 DEF R
      <4> QED
        BY <3>1, <4>1, SumType
    <3> QED
      BY <3>2 DEF R
  <2>5. SumOn(f, A) <= SumOn(g, A)
    BY <2>1, <2>3, <2>4
  <2> QED
    BY <2>5
<1>3. SUBSET S \subseteq T
  <2> HIDE DEF T
  <2> QED
    BY <1>1, <1>2, SubsetInduction
<1> QED
  BY <1>3

(* The maximum of the values, or 0 if there is none.                       *)
IsMost(m, f, S) ==
  /\ m \in Nat
  /\ \A x \in S : f[x] <= m
  /\ m = 0 \/ \E x \in S : f[x] = m

LEMMA MostIsOne ==
  ASSUME NEW S, NEW f, \A x \in S : f[x] \in Nat, NEW m, NEW k, IsMost(m, f, S), IsMost(k, f, S)
  PROVE  m = k
<1>1. m \in Nat /\ k \in Nat
  BY DEF IsMost
<1>2. m <= k
  BY <1>1 DEF IsMost
<1>3. k <= m
  BY <1>1 DEF IsMost
<1> QED
  BY <1>1, <1>2, <1>3

LEMMA MostPut ==
  ASSUME NEW S, NEW f, NEW x \in S, \A y \in S : f[y] \in Nat, NEW m, IsMost(m, f, S \ {x})
  PROVE  IsMost(Higher(m, f[x]), f, S)
<1>1. m \in Nat /\ f[x] \in Nat
  BY DEF IsMost
<1>2. CASE m > f[x]
  <2>1. Higher(m, f[x]) = m
    BY <1>2 DEF Higher
  <2>2. \A y \in S : f[y] <= m
    BY <1>1, <1>2 DEF IsMost
  <2> QED
    BY <1>1, <2>1, <2>2 DEF IsMost
<1>3. CASE ~(m > f[x])
  <2>1. Higher(m, f[x]) = f[x]
    BY <1>3 DEF Higher
  <2>2. ASSUME NEW y \in S PROVE f[y] <= f[x]
    <3>1. y # x => f[y] <= m
      BY DEF IsMost
    <3> QED
      BY <1>1, <1>3, <3>1
  <2> QED
    BY <1>1, <2>1, <2>2 DEF IsMost
<1> QED
  BY <1>2, <1>3

(* The function that compares.                                             *)
Tops(it, f, S) ==
  /\ \A x \in S : f[x] \in Nat
  /\ DOMAIN it = SUBSET S /\ it = [s \in SUBSET S |-> it[s]]
  /\ \A s \in SUBSET S : IsMost(it[s], f, s)

LEMMA TopsExists ==
  ASSUME NEW S, IsFiniteSet(S), NEW f, \A x \in S : f[x] \in Nat
  PROVE  \E it : Tops(it, f, S)
<1> DEFINE T == {A \in SUBSET S : \E m : IsMost(m, f, A)}
<1>1. {} \in T
  <2>1. IsMost(0, f, {})
    BY DEF IsMost
  <2> QED
    BY <2>1
<1>2. ASSUME NEW A \in SUBSET S, A # {}, \A x \in A : A \ {x} \in T
      PROVE  A \in T
  <2>1. PICK x \in A : A \ {x} \in T
    BY <1>2
  <2>2. PICK m : IsMost(m, f, A \ {x})
    BY <2>1
  <2>3. IsMost(Higher(m, f[x]), f, A)
    BY <2>2, MostPut
  <2> QED
    BY <2>3
<1>3. SUBSET S \subseteq T
  <2> HIDE DEF T
  <2> QED
    BY <1>1, <1>2, SubsetInduction
<1> DEFINE it == [s \in SUBSET S |-> CHOOSE m : IsMost(m, f, s)]
<1>4. ASSUME NEW s \in SUBSET S PROVE IsMost(it[s], f, s)
  <2>1. \E m : IsMost(m, f, s)
    BY <1>3
  <2>2. it[s] = CHOOSE m : IsMost(m, f, s)
    OBVIOUS
  <2> HIDE DEF it
  <2> QED
    BY <2>1, <2>2
<1>5. Tops(it, f, S)
  <2>1. DOMAIN it = SUBSET S /\ it = [s \in SUBSET S |-> it[s]]
    OBVIOUS
  <2> HIDE DEF it
  <2> QED
    BY <1>4, <2>1 DEF Tops
<1> QED
  BY <1>5

LEMMA TopsZero ==
  ASSUME NEW S, NEW f, NEW it, Tops(it, f, S)
  PROVE  it[{}] = 0
<1>1. IsMost(it[{}], f, {})
  BY DEF Tops
<1> QED
  BY <1>1 DEF IsMost

LEMMA TopsStep ==
  ASSUME NEW S, NEW f, NEW it, Tops(it, f, S), NEW s \in SUBSET S, NEW x \in s
  PROVE  it[s] = Higher(it[s \ {x}], f[x])
<1>1. /\ IsMost(it[s], f, s) /\ IsMost(it[s \ {x}], f, s \ {x})
      /\ \A y \in s : f[y] \in Nat
  BY DEF Tops
<1>2. IsMost(Higher(it[s \ {x}], f[x]), f, s)
  BY <1>1, MostPut
<1> QED
  BY <1>1, <1>2, MostIsOne

LEMMA MostOnIsMost ==
  ASSUME NEW S, IsFiniteSet(S), NEW f, \A x \in S : f[x] \in Nat
  PROVE  IsMost(MostOn(f, S), f, S)
<1>0. PICK it : Tops(it, f, S)
  BY TopsExists
<1>s. ASSUME NEW s \in SUBSET S, NEW x \in s PROVE it[s] = Higher(it[s \ {x}], f[x])
  BY <1>0, TopsStep
<1>z. it[{}] = 0
  BY <1>0, TopsZero
<1> DEFINE Eq(g) == g = [s \in SUBSET S |-> MostStep(f, g, s)]
           g == CHOOSE g : Eq(g)
<1>1. Eq(it)
  <2>1. ASSUME NEW s \in SUBSET S PROVE it[s] = MostStep(f, it, s)
    <3>1. CASE s = {}
      BY <1>z, <3>1 DEF MostStep
    <3>2. CASE s # {}
      <4> DEFINE x == CHOOSE x \in s : TRUE
      <4>1. x \in s
        BY <3>2
      <4>2. MostStep(f, it, s) = Higher(it[s \ {x}], f[x])
        BY <3>2 DEF MostStep
      <4> HIDE DEF x
      <4> QED
        BY <1>s, <4>1, <4>2
    <3> QED
      BY <3>1, <3>2
  <2>2. it = [s \in SUBSET S |-> it[s]]
    BY <1>0 DEF Tops
  <2> QED
    BY <2>1, <2>2
<1>2. Eq(g)
  <2> HIDE DEF Eq
  <2> QED
    BY <1>1
<1>3. MostOn(f, S) = g[S]
  BY DEF MostOn
<1> HIDE DEF g
<1>4. g[{}] = it[{}]
  BY <1>2, <1>z DEF MostStep
<1>5. ASSUME NEW s \in SUBSET S, s # {}
      PROVE  \E x \in s : g[s \ {x}] = it[s \ {x}] => g[s] = it[s]
  <2> DEFINE x == CHOOSE x \in s : TRUE
  <2>1. x \in s
    BY <1>5
  <2>2. g[s] = Higher(g[s \ {x}], f[x])
    BY <1>2, <1>5 DEF MostStep
  <2> HIDE DEF x
  <2>3. it[s] = Higher(it[s \ {x}], f[x])
    BY <1>s, <2>1
  <2> QED
    BY <2>1, <2>2, <2>3
<1> HIDE DEF Eq
<1>6. g[S] = it[S]
  BY <1>4, <1>5, AgreesUpTo
<1> QED
  BY <1>0, <1>3, <1>6 DEF Tops

LEMMA MostUpToIsMost ==
  ASSUME NEW n \in Nat, NEW f, \A i \in 1..n : f[i] \in Nat
  PROVE  IsMost(MostUpTo(f, 1..n), f, 1..n)
<1> DEFINE S == 1..n
<1>f. IsFiniteSet(S) /\ \A x \in S : f[x] \in Nat
  BY FS_Interval
<1>0. PICK it : Tops(it, f, S)
  <2> HIDE DEF S
  <2> QED
    BY <1>f, TopsExists
<1>s. ASSUME NEW s \in SUBSET S, NEW x \in s PROVE it[s] = Higher(it[s \ {x}], f[x])
  <2> HIDE DEF S
  <2> QED
    BY <1>0, TopsStep
<1>z. it[{}] = 0
  BY <1>0, TopsZero
<1> DEFINE Eq(g) == g = [s \in SUBSET S |-> TopMostStep(f, g, s)]
           g == CHOOSE g : Eq(g)
<1>1. Eq(it)
  <2>1. ASSUME NEW s \in SUBSET S PROVE it[s] = TopMostStep(f, it, s)
    <3>1. s # {} => Top(s) \in s
      BY TopType
    <3> QED
      BY <1>s, <1>z, <3>1 DEF TopMostStep
  <2>2. it = [s \in SUBSET S |-> it[s]]
    BY <1>0 DEF Tops
  <2> QED
    BY <2>1, <2>2
<1>2. Eq(g)
  <2> HIDE DEF Eq
  <2> QED
    BY <1>1
<1>3. MostUpTo(f, S) = g[S]
  BY DEF MostUpTo
<1> HIDE DEF g
<1>4. g[{}] = it[{}]
  BY <1>2, <1>z DEF TopMostStep
<1>5. ASSUME NEW s \in SUBSET S, s # {}
      PROVE  \E x \in s : g[s \ {x}] = it[s \ {x}] => g[s] = it[s]
  <2>1. Top(s) \in s
    BY <1>5, TopType
  <2>2. g[s] = Higher(g[s \ {Top(s)}], f[Top(s)])
    BY <1>2, <1>5 DEF TopMostStep
  <2>3. it[s] = Higher(it[s \ {Top(s)}], f[Top(s)])
    BY <1>s, <2>1
  <2> QED
    BY <2>1, <2>2, <2>3
<1> HIDE DEF Eq, S
<1>6. g[S] = it[S]
  BY <1>f, <1>4, <1>5, AgreesUpTo
<1>7. IsMost(MostUpTo(f, S), f, S)
  BY <1>0, <1>3, <1>6 DEF Tops
<1> QED
  BY <1>7 DEF S

-----------------------------------------------------------------------------
(* Windows of the collector of rates.                                      *)

LEMMA DivBounds ==
  ASSUME NEW d \in Int, NEW w \in Nat \ {0}
  PROVE  d \div w \in Int /\ (d \div w) * w <= d /\ d < (d \div w) * w + w
OBVIOUS

LEMMA DivUnique ==
  ASSUME NEW d \in Int, NEW w \in Nat \ {0}, NEW q \in Int, q * w <= d, d < q * w + w
  PROVE  d \div w = q
OBVIOUS

LEMMA DivShift ==
  ASSUME NEW d \in Int, NEW w \in Nat \ {0}, NEW k \in Int
  PROVE  (d - k * w) \div w = (d \div w) - k
<1> DEFINE q == d \div w
<1>1. q \in Int /\ q * w <= d /\ d < q * w + w
  BY DivBounds
<1> HIDE DEF q
<1>2. (q - k) * w = q * w - k * w /\ k * w \in Int /\ q * w \in Int
  BY <1>1
<1> QED
  BY <1>1, <1>2, DivUnique DEF q

LEMMA RatesConstants ==
  /\ Ue \subseteq Nat \ {0} /\ IsFiniteSet(Ue) /\ IsFiniteSet(Process)
  /\ WindowSize \in Nat \ {0} /\ MaxTime \in Nat /\ MaxEvents \in Nat
  /\ Size \subseteq Nat \ {0}
BY TrafficAssumption DEF Rates!RateStatsAssumption, Rates!IsFiniteSet, IsFiniteSet

LEMMA WindowMoves ==
  ASSUME NEW start \in Nat, NEW over \in Nat, NEW t \in Nat
  PROVE  /\ Rates!Window(start, t) \in Int
         /\ Rates!Window(start + over * WindowSize, t) = Rates!Window(start, t) - over
<1> DEFINE d == t + MaxTime * WindowSize - start
<1>1. d \in Int /\ over \in Int /\ WindowSize \in Nat \ {0} /\ MaxTime * WindowSize \in Int
      /\ over * WindowSize \in Int
  BY RatesConstants
<1>2. t + MaxTime * WindowSize - (start + over * WindowSize) = d - over * WindowSize
  BY <1>1
<1> HIDE DEF d
<1>3. (d - over * WindowSize) \div WindowSize = (d \div WindowSize) - over
  BY <1>1, DivShift, Zenon
<1>4. d \div WindowSize \in Int
  BY <1>1, DivBounds
<1> QED
  BY <1>2, <1>3, <1>4 DEF Rates!Window, d

(* The present window is the MaxTime-th once the windows that are over have*)
(* been passed.                                                            *)
LEMMA WindowOfNow ==
  ASSUME NEW start \in Nat, NEW t \in Nat, start <= t
  PROVE  LET over == (t - start) \div WindowSize IN
         /\ over \in Nat /\ over * WindowSize \in Nat
         /\ start + over * WindowSize \in Nat /\ start + over * WindowSize <= t
         /\ Rates!Window(start, t) = MaxTime + over
<1> DEFINE d == t - start
           over == d \div WindowSize
<1>1. d \in Nat /\ WindowSize \in Nat \ {0} /\ MaxTime \in Nat
  BY RatesConstants
<1>2. over \in Int /\ over * WindowSize <= d /\ d < over * WindowSize + WindowSize
  <2> HIDE DEF d
  <2> QED
    BY <1>1, DivBounds
<1>3. over \in Nat
  <2>1. SUFFICES ASSUME over < 0 PROVE FALSE
    BY <1>2
  <2> HIDE DEF over, d
  <2>2. (over + 1) * WindowSize <= 0
    BY <1>1, <1>2, <2>1
  <2>3. (over + 1) * WindowSize = over * WindowSize + WindowSize
    BY <1>1, <1>2
  <2>4. over * WindowSize \in Int
    BY <1>1, <1>2
  <2> QED
    BY <1>1, <1>2, <2>2, <2>3, <2>4
<1>4. over * WindowSize \in Nat
  <2> HIDE DEF over
  <2> QED
    BY <1>1, <1>3
<1>5. (d - (0 - MaxTime) * WindowSize) \div WindowSize = over - (0 - MaxTime)
  <2>1. d \in Int /\ 0 - MaxTime \in Int
    BY <1>1
  <2> HIDE DEF d
  <2> QED
    BY <1>1, <2>1, DivShift, Zenon
<1>6. d - (0 - MaxTime) * WindowSize = t + MaxTime * WindowSize - start
  BY <1>1
<1>7. Rates!Window(start, t) = MaxTime + over
  <2> HIDE DEF over, d
  <2> QED
    BY <1>1, <1>3, <1>5, <1>6 DEF Rates!Window
<1>8. start + over * WindowSize \in Nat /\ start + over * WindowSize <= t
  <2> HIDE DEF over
  <2> QED
    BY <1>1, <1>2, <1>4
<1> HIDE DEF over
<1> QED
  BY <1>3, <1>4, <1>7, <1>8 DEF over

-----------------------------------------------------------------------------
(* What a UE received, by windows, in a history.                           *)

Pdus == [ue : Ue, time : Nat, size : Nat \ {0}]
RateEntries == [windowStart : Nat, bytes : Nat, peak : Nat, rx : Nat, average : Nat]

InWindow(s, u, start, w) ==
  [i \in DOMAIN s |-> IF s[i].ue = u /\ Rates!Window(start, s[i].time) = w THEN s[i].size ELSE 0]
Heard(s, u, start, w) == SumOn(InWindow(s, u, start, w), 1..Len(s))
HeardWith(s, u, start) ==
  [i \in DOMAIN s |-> IF s[i].ue = u THEN Heard(s, u, start, Rates!Window(start, s[i].time)) ELSE 0]

PeakIsHeard(e, s, u) ==
  /\ \A i \in 1..Len(s) : s[i].ue = u => Rates!Window(e.windowStart, s[i].time) <= MaxTime
  /\ e.bytes = Heard(s, u, e.windowStart, MaxTime)
  /\ e.bytes <= e.peak
  /\ IsMost(e.peak, HeardWith(s, u, e.windowStart), 1..Len(s))

LEMMA HeardType ==
  ASSUME NEW s \in Seq(Pdus), NEW u, NEW start, NEW w
  PROVE  Heard(s, u, start, w) \in Nat
<1>1. IsFiniteSet(1..Len(s))
  BY FS_Interval
<1>2. \A i \in 1..Len(s) : InWindow(s, u, start, w)[i] \in Nat
  <2> SUFFICES ASSUME NEW i \in 1..Len(s) PROVE InWindow(s, u, start, w)[i] \in Nat
    OBVIOUS
  <2>1. s[i] \in Pdus
    OBVIOUS
  <2> QED
    BY <2>1 DEF InWindow, Pdus
<1> QED
  BY <1>1, <1>2, SumType DEF Heard

(* The same windows, counted from a later one.                             *)
LEMMA HeardMoved ==
  ASSUME NEW s \in Seq(Pdus), NEW u, NEW start \in Nat, NEW over \in Nat, NEW w \in Int
  PROVE  Heard(s, u, start + over * WindowSize, w - over) = Heard(s, u, start, w)
<1> DEFINE f == InWindow(s, u, start, w)
           g == InWindow(s, u, start + over * WindowSize, w - over)
<1>1. IsFiniteSet(1..Len(s))
  BY FS_Interval
<1>2. ASSUME NEW i \in 1..Len(s) PROVE f[i] \in Nat /\ g[i] = f[i]
  <2>0. s[i] \in Pdus
    OBVIOUS
  <2>1. s[i].time \in Nat /\ s[i].size \in Nat
    BY <2>0 DEF Pdus
  <2> DEFINE a == Rates!Window(start, s[i].time)
             b == Rates!Window(start + over * WindowSize, s[i].time)
  <2>2. a \in Int /\ b = a - over
    BY <2>1, WindowMoves
  <2> HIDE DEF a, b
  <2>3. b = w - over <=> a = w
    BY <2>2
  <2> QED
    BY <2>1, <2>3 DEF InWindow, a, b
<1> HIDE DEF f, g
<1>3. SumOn(g, 1..Len(s)) = SumOn(f, 1..Len(s))
  BY <1>1, <1>2, SumSame
<1> QED
  BY <1>3 DEF Heard, f, g

(* A PDU more.                                                             *)
LEMMA HeardAppend ==
  ASSUME NEW s \in Seq(Pdus), NEW r \in Pdus, NEW u, NEW start, NEW w
  PROVE  Heard(Append(s, r), u, start, w) =
           Heard(s, u, start, w) +
           (IF r.ue = u /\ Rates!Window(start, r.time) = w THEN r.size ELSE 0)
<1> DEFINE t == Append(s, r)
           n == Len(s)
           f == InWindow(s, u, start, w)
           g == InWindow(t, u, start, w)
           x == IF r.ue = u /\ Rates!Window(start, r.time) = w THEN r.size ELSE 0
<1>1. n \in Nat /\ Len(t) = n + 1 /\ DOMAIN t = 1..(n + 1) /\ DOMAIN s = 1..n
  OBVIOUS
<1>2. ASSUME NEW i \in 1..n PROVE t[i] = s[i] /\ s[i].size \in Nat
  <2>1. t[i] = s[i] /\ s[i] \in Pdus
    OBVIOUS
  <2> QED
    BY <2>1 DEF Pdus
<1>3. t[n + 1] = r /\ r.size \in Nat
  BY DEF Pdus
<1> HIDE DEF t, n
<1>4. \A i \in 1..n : f[i] \in Nat /\ g[i] = f[i]
  BY <1>1, <1>2 DEF InWindow
<1>5. g[n + 1] = x /\ x \in Nat
  BY <1>1, <1>3 DEF InWindow
<1> HIDE DEF f, g, x
<1>6. SumOn(g, 1..(n + 1)) = SumOn(f, 1..n) + g[n + 1]
  BY <1>1, <1>4, <1>5, SumAppend
<1> QED
  BY <1>1, <1>5, <1>6 DEF Heard, f, g, x, n, t

(* No PDU of a UE.                                                         *)
LEMMA HeardNothing ==
  ASSUME NEW s \in Seq(Pdus), NEW u, NEW start, NEW w,
         \A i \in 1..Len(s) : s[i].ue = u => Rates!Window(start, s[i].time) # w
  PROVE  Heard(s, u, start, w) = 0
<1>1. IsFiniteSet(1..Len(s))
  BY FS_Interval
<1>2. \A i \in 1..Len(s) : InWindow(s, u, start, w)[i] = 0
  BY DEF InWindow
<1> QED
  BY <1>1, <1>2, SumZero DEF Heard

-----------------------------------------------------------------------------
(* What the recorders do to an entry.                                      *)

LEMMA EntryOf ==
  ASSUME NEW e \in RateEntries
  PROVE  /\ e.windowStart \in Nat /\ e.bytes \in Nat /\ e.peak \in Nat /\ e.rx \in Nat
         /\ e.average \in Nat
         /\ e = [windowStart |-> e.windowStart, bytes |-> e.bytes, peak |-> e.peak,
                 rx |-> e.rx, average |-> e.average]
BY DEF RateEntries

LEMMA LargerType ==
  ASSUME NEW a \in Nat, NEW b \in Nat
  PROVE  Rates!Larger(a, b) \in Nat /\ Rates!Larger(a, b) >= a /\ Rates!Larger(a, b) >= b
         /\ (a >= b => Rates!Larger(a, b) = a) /\ (b >= a => Rates!Larger(a, b) = b)
BY DEF Rates!Larger

LEMMA AdvanceFields ==
  ASSUME NEW e \in RateEntries, now \in Nat, e.windowStart <= now
  PROVE  LET a == Rates!AdvanceWindow(e)
             over == (now - e.windowStart) \div WindowSize
         IN  /\ a \in RateEntries /\ a.rx = e.rx /\ a.average = e.average
             /\ over \in Nat
             /\ a.windowStart = e.windowStart + over * WindowSize /\ a.windowStart <= now
             /\ Rates!Window(a.windowStart, now) = MaxTime
             /\ over = 0 => a.bytes = e.bytes /\ a.peak = e.peak
             /\ over # 0 => a.bytes = 0 /\ a.peak = Rates!Larger(e.peak, e.bytes)
<1> DEFINE a == Rates!AdvanceWindow(e)
           over == (now - e.windowStart) \div WindowSize
           start == e.windowStart + over * WindowSize
<1>1. /\ over \in Nat /\ over * WindowSize \in Nat /\ start \in Nat /\ start <= now
      /\ Rates!Window(e.windowStart, now) = MaxTime + over
  BY EntryOf, WindowOfNow
<1>2. Rates!Window(start, now) = Rates!Window(e.windowStart, now) - over
  <2>1. e.windowStart \in Nat /\ now \in Nat /\ over \in Nat
    BY <1>1, EntryOf
  <2> HIDE DEF over
  <2> QED
    BY <2>1, WindowMoves
<1>3. Rates!Window(start, now) = MaxTime
  <2>1. MaxTime \in Nat
    BY RatesConstants
  <2> HIDE DEF over, start
  <2> QED
    BY <1>1, <1>2, <2>1
<1>4. CASE over = 0
  <2>1. a = e
    BY <1>4 DEF Rates!AdvanceWindow
  <2>2. start = e.windowStart
    <3>1. over * WindowSize = 0
      BY <1>4, RatesConstants
    <3> HIDE DEF over
    <3> QED
      BY <3>1, EntryOf
  <2> HIDE DEF a, over, start
  <2>3. a \in RateEntries
    BY <2>1
  <2>4. a.windowStart = start
    BY <2>1, <2>2
  <2> QED
    BY <1>1, <1>3, <1>4, <2>1, <2>3, <2>4 DEF a, over, start
<1>5. CASE over # 0
  <2>1. a = [windowStart |-> start, bytes |-> 0, peak |-> Rates!Larger(e.peak, e.bytes),
             rx |-> e.rx, average |-> e.average]
    BY <1>5, EntryOf DEF Rates!AdvanceWindow, RateEntries
  <2>2. Rates!Larger(e.peak, e.bytes) \in Nat
    BY EntryOf, LargerType
  <2> HIDE DEF a, over, start
  <2>3. a \in RateEntries
    BY <1>1, <2>1, <2>2, EntryOf DEF RateEntries
  <2>4. a.windowStart = start /\ a.rx = e.rx /\ a.average = e.average /\ a.bytes = 0
        /\ a.peak = Rates!Larger(e.peak, e.bytes)
    BY <2>1
  <2> QED
    BY <1>1, <1>3, <1>5, <2>3, <2>4 DEF a, over, start
<1> QED
  BY <1>4, <1>5

(* Passing windows leaves an entry a record of what was heard.             *)
LEMMA AdvanceKeeps ==
  ASSUME NEW e \in RateEntries, now \in Nat, e.windowStart <= now,
         NEW s \in Seq(Pdus), NEW u, PeakIsHeard(e, s, u)
  PROVE  PeakIsHeard(Rates!AdvanceWindow(e), s, u)
<1> DEFINE a == Rates!AdvanceWindow(e)
           over == (now - e.windowStart) \div WindowSize
<1>1. /\ a \in RateEntries /\ over \in Nat
      /\ a.windowStart = e.windowStart + over * WindowSize
      /\ over = 0 => a.bytes = e.bytes /\ a.peak = e.peak
      /\ over # 0 => a.bytes = 0 /\ a.peak = Rates!Larger(e.peak, e.bytes)
  BY AdvanceFields
<1>2. /\ e.windowStart \in Nat /\ e.bytes \in Nat /\ e.peak \in Nat /\ MaxTime \in Int
      /\ MaxTime \in Nat
  BY EntryOf, RatesConstants
<1> HIDE DEF a, over
<1>3. a.peak = e.peak
  <2>1. e.bytes <= e.peak
    BY DEF PeakIsHeard
  <2> QED
    BY <1>1, <1>2, <2>1, LargerType
<1>4. ASSUME NEW i \in 1..Len(s)
      PROVE  /\ s[i].time \in Nat
             /\ Rates!Window(e.windowStart, s[i].time) \in Int
             /\ Rates!Window(a.windowStart, s[i].time) =
                  Rates!Window(e.windowStart, s[i].time) - over
  <2>0. s[i] \in Pdus
    OBVIOUS
  <2>1. s[i].time \in Nat
    BY <2>0 DEF Pdus
  <2>2. /\ Rates!Window(e.windowStart, s[i].time) \in Int
        /\ Rates!Window(e.windowStart + over * WindowSize, s[i].time) =
             Rates!Window(e.windowStart, s[i].time) - over
    BY <1>1, <1>2, <2>1, WindowMoves, Zenon
  <2> QED
    BY <1>1, <2>1, <2>2
<1>5. ASSUME NEW i \in 1..Len(s), s[i].ue = u
      PROVE  Rates!Window(a.windowStart, s[i].time) <= MaxTime - over
  <2>1. Rates!Window(e.windowStart, s[i].time) <= MaxTime
    BY <1>5 DEF PeakIsHeard
  <2> QED
    BY <1>1, <1>2, <1>4, <2>1
<1>6. a.bytes = Heard(s, u, a.windowStart, MaxTime)
  <2>1. CASE over = 0
    <3>1. a.windowStart = e.windowStart
      <4>1. over * WindowSize = 0
        BY <2>1, RatesConstants
      <4> QED
        BY <1>1, <1>2, <4>1
    <3> QED
      BY <1>1, <2>1, <3>1 DEF PeakIsHeard
  <2>2. CASE over # 0
    <3>1. \A i \in 1..Len(s) : s[i].ue = u => Rates!Window(a.windowStart, s[i].time) # MaxTime
      <4> SUFFICES ASSUME NEW i \in 1..Len(s), s[i].ue = u,
                          Rates!Window(a.windowStart, s[i].time) = MaxTime
                   PROVE  FALSE
        OBVIOUS
      <4> QED
        BY <1>1, <1>2, <1>5, <2>2
    <3> QED
      BY <1>1, <2>2, <3>1, HeardNothing
  <2> QED
    BY <2>1, <2>2
<1>7. \A i \in 1..Len(s) :
        HeardWith(s, u, a.windowStart)[i] = HeardWith(s, u, e.windowStart)[i]
  <2> SUFFICES ASSUME NEW i \in 1..Len(s)
               PROVE  HeardWith(s, u, a.windowStart)[i] = HeardWith(s, u, e.windowStart)[i]
    OBVIOUS
  <2> DEFINE w == Rates!Window(e.windowStart, s[i].time)
  <2>1. Rates!Window(a.windowStart, s[i].time) = w - over /\ w \in Int
    BY <1>4
  <2> HIDE DEF w
  <2>2. Heard(s, u, e.windowStart + over * WindowSize, w - over) = Heard(s, u, e.windowStart, w)
    BY <1>1, <1>2, <2>1, HeardMoved, Zenon
  <2> QED
    BY <1>1, <2>1, <2>2 DEF HeardWith, w
<1>8. IsMost(a.peak, HeardWith(s, u, a.windowStart), 1..Len(s))
  BY <1>3, <1>7 DEF PeakIsHeard, IsMost
<1>9. \A i \in 1..Len(s) : s[i].ue = u => Rates!Window(a.windowStart, s[i].time) <= MaxTime
  <2> SUFFICES ASSUME NEW i \in 1..Len(s), s[i].ue = u
               PROVE  Rates!Window(a.windowStart, s[i].time) <= MaxTime
    OBVIOUS
  <2>1. Rates!Window(a.windowStart, s[i].time) \in Int
    BY <1>1, <1>4
  <2> QED
    BY <1>1, <1>2, <1>5, <2>1
<1>10. a.bytes <= a.peak
  BY <1>1, <1>2, <1>3 DEF PeakIsHeard
<1> QED
  BY <1>6, <1>8, <1>9, <1>10 DEF PeakIsHeard, a

LEMMA CountFields ==
  ASSUME NEW a \in RateEntries, NEW size \in Nat \ {0}
  PROVE  LET c == Rates!CheckAndUpdatePeakRate(Rates!Counted(a, size)) IN
         /\ c \in RateEntries /\ c.windowStart = a.windowStart /\ c.average = a.average
         /\ c.rx = a.rx + size /\ c.bytes = a.bytes + size
         /\ c.peak = Rates!Larger(a.peak, a.bytes + size)
<1> DEFINE c == Rates!CheckAndUpdatePeakRate(Rates!Counted(a, size))
<1>1. c = [windowStart |-> a.windowStart, bytes |-> a.bytes + size,
           peak |-> Rates!Larger(a.peak, a.bytes + size), rx |-> a.rx + size,
           average |-> a.average]
  <2> DEFINE b == Rates!Counted(a, size)
  <2>1. b = [windowStart |-> a.windowStart, bytes |-> a.bytes + size, peak |-> a.peak,
             rx |-> a.rx + size, average |-> a.average]
    <3> DEFINE m == [a EXCEPT !.bytes = a.bytes + size]
    <3>1. b = [m EXCEPT !.rx = a.rx + size]
      BY Zenon DEF Rates!Counted
    <3>2. m = [windowStart |-> a.windowStart, bytes |-> a.bytes + size, peak |-> a.peak,
               rx |-> a.rx, average |-> a.average]
      BY DEF RateEntries
    <3> HIDE DEF m, b
    <3> QED
      BY <3>1, <3>2
  <2>2. c = [b EXCEPT !.peak = Rates!Larger(b.peak, b.bytes)]
    BY DEF Rates!CheckAndUpdatePeakRate
  <2> HIDE DEF b, c
  <2> QED
    BY <2>1, <2>2
<1>2. /\ a.windowStart \in Nat /\ a.bytes + size \in Nat /\ a.rx + size \in Nat
      /\ a.average \in Nat /\ Rates!Larger(a.peak, a.bytes + size) \in Nat
  BY EntryOf, LargerType
<1> HIDE DEF c
<1>3. c \in RateEntries
  BY <1>1, <1>2 DEF RateEntries
<1> QED
  BY <1>1, <1>3 DEF c

(* Counting a PDU in the present window records that it was heard.         *)
LEMMA CountKeeps ==
  ASSUME NEW a \in RateEntries, NEW s \in Seq(Pdus), NEW r \in Pdus, PeakIsHeard(a, s, r.ue),
         Rates!Window(a.windowStart, r.time) = MaxTime
  PROVE  PeakIsHeard(Rates!CheckAndUpdatePeakRate(Rates!Counted(a, r.size)), Append(s, r), r.ue)
<1> DEFINE u == r.ue
           size == r.size
           start == a.windowStart
           c == Rates!CheckAndUpdatePeakRate(Rates!Counted(a, size))
           t == Append(s, r)
           n == Len(s)
<1>1. size \in Nat \ {0} /\ MaxTime \in Nat
  BY RatesConstants DEF Pdus
<1>2. /\ c \in RateEntries /\ c.windowStart = start
      /\ c.bytes = a.bytes + size /\ c.peak = Rates!Larger(a.peak, a.bytes + size)
  BY <1>1, CountFields
<1>3. n \in Nat /\ Len(t) = n + 1 /\ t[n + 1] = r /\ DOMAIN t = 1..(n + 1) /\ DOMAIN s = 1..n
      /\ \A i \in 1..n : t[i] = s[i]
  OBVIOUS
<1>4. a.bytes \in Nat /\ a.peak \in Nat /\ start \in Nat
  BY EntryOf
<1>5. c.peak \in Nat /\ c.peak >= a.peak /\ c.peak >= a.bytes + size
      /\ (c.peak = a.peak \/ c.peak = a.bytes + size)
  BY <1>1, <1>2, <1>4 DEF Rates!Larger
<1>6. ASSUME NEW w
      PROVE  Heard(t, u, start, w) = Heard(s, u, start, w) + (IF w = MaxTime THEN size ELSE 0)
  BY HeardAppend
<1>7. a.bytes = Heard(s, u, start, MaxTime)
  BY DEF PeakIsHeard
<1>8. Heard(t, u, start, MaxTime) = a.bytes + size
  BY <1>6, <1>7
<1> DEFINE f == HeardWith(s, u, start)
           g == HeardWith(t, u, start)
<1>9. IsMost(a.peak, f, 1..n)
  BY DEF PeakIsHeard
<1>10. g[n + 1] = a.bytes + size
  BY <1>3, <1>8 DEF HeardWith
<1>11. ASSUME NEW i \in 1..n
       PROVE  \/ g[i] = f[i]
              \/ g[i] = a.bytes + size /\ f[i] = a.bytes
  <2>1. CASE s[i].ue # u
    BY <1>3, <2>1 DEF HeardWith
  <2>2. CASE s[i].ue = u
    <3> DEFINE w == Rates!Window(start, s[i].time)
    <3>1. f[i] = Heard(s, u, start, w) /\ g[i] = Heard(t, u, start, w)
      BY <1>3, <2>2 DEF HeardWith
    <3>2. Heard(s, u, start, w) \in Nat
      BY HeardType
    <3> HIDE DEF w, f, g, t
    <3>3. CASE w = MaxTime
      BY <1>7, <1>8, <3>1, <3>3
    <3>4. CASE w # MaxTime
      BY <1>6, <3>1, <3>2, <3>4
    <3> QED
      BY <3>3, <3>4
  <2> QED
    BY <2>1, <2>2
<1> HIDE DEF c, f, g, t, n, size, u, start
<1>12. ASSUME NEW i \in 1..(n + 1) PROVE g[i] <= c.peak
  <2>1. CASE i = n + 1
    BY <1>5, <1>10, <2>1
  <2>2. CASE i \in 1..n
    <3>1. f[i] <= a.peak
      BY <1>9, <2>2 DEF IsMost
    <3>2. CASE g[i] = f[i]
      <4>1. f[i] = 0 \/ f[i] \in Nat
        <5> SUFFICES ASSUME s[i].ue = u PROVE f[i] \in Nat
          BY <1>3, <2>2 DEF f, HeardWith
        <5> QED
          BY <1>3, <2>2, HeardType DEF f, HeardWith
      <4> QED
        BY <1>4, <1>5, <3>1, <3>2, <4>1
    <3>3. CASE g[i] = a.bytes + size
      BY <1>5, <3>3
    <3> QED
      BY <1>11, <2>2, <3>2, <3>3
  <2> QED
    BY <1>3, <2>1, <2>2
<1>13. c.peak = 0 \/ \E i \in 1..(n + 1) : g[i] = c.peak
  <2>1. CASE c.peak = a.bytes + size
    BY <1>3, <1>10, <2>1
  <2>2. CASE c.peak # a.bytes + size
    <3>1. c.peak = a.peak /\ a.peak > a.bytes + size
      BY <1>1, <1>4, <1>5, <2>2
    <3>2. PICK i \in 1..n : f[i] = a.peak
      BY <1>1, <1>4, <1>9, <3>1 DEF IsMost
    <3>3. f[i] # a.bytes
      BY <1>1, <1>4, <3>1, <3>2
    <3>4. g[i] = a.peak
      BY <1>11, <3>2, <3>3
    <3> QED
      BY <1>3, <3>1, <3>4
  <2> QED
    BY <2>1, <2>2
<1>14. IsMost(c.peak, g, 1..(n + 1))
  BY <1>5, <1>12, <1>13 DEF IsMost
<1>15. \A i \in 1..(n + 1) : t[i].ue = u => Rates!Window(start, t[i].time) <= MaxTime
  <2> SUFFICES ASSUME NEW i \in 1..(n + 1), t[i].ue = u
               PROVE  Rates!Window(start, t[i].time) <= MaxTime
    OBVIOUS
  <2>1. CASE i = n + 1
    <3>1. Rates!Window(start, t[i].time) = MaxTime
      BY <1>3, <2>1 DEF start
    <3> QED
      BY <1>1, <3>1
  <2>2. CASE i \in 1..n
    BY <1>3, <2>2 DEF PeakIsHeard, u, start, n
  <2> QED
    BY <1>3, <2>1, <2>2
<1>16. c.bytes <= c.peak /\ c.bytes = Heard(t, u, start, MaxTime)
  BY <1>1, <1>2, <1>4, <1>5, <1>8
<1>17. PeakIsHeard(c, t, u)
  BY <1>2, <1>3, <1>14, <1>15, <1>16 DEF PeakIsHeard, g
<1> QED
  BY <1>17 DEF c, t, u, size

(* Counting first keeps no windows worth the name, but loses no peak.      *)
LEMMA CountFirstFields ==
  ASSUME NEW e \in RateEntries, now \in Nat, e.windowStart <= now, NEW size \in Nat \ {0}
  PROVE  LET c == Rates!CheckAndUpdatePeakRate(Rates!AdvanceWindow(Rates!Counted(e, size))) IN
         /\ c \in RateEntries /\ c.windowStart <= now
         /\ c.rx = e.rx + size /\ c.average = e.average /\ c.peak > 0
<1> DEFINE b == Rates!Counted(e, size)
           a == Rates!AdvanceWindow(b)
           c == Rates!CheckAndUpdatePeakRate(a)
           over == (now - b.windowStart) \div WindowSize
<1>1. b = [windowStart |-> e.windowStart, bytes |-> e.bytes + size, peak |-> e.peak,
           rx |-> e.rx + size, average |-> e.average]
  <2> DEFINE m == [e EXCEPT !.bytes = e.bytes + size]
  <2>1. b = [m EXCEPT !.rx = e.rx + size]
    BY Zenon DEF Rates!Counted
  <2>2. m = [windowStart |-> e.windowStart, bytes |-> e.bytes + size, peak |-> e.peak,
             rx |-> e.rx, average |-> e.average]
    BY DEF RateEntries
  <2> HIDE DEF m, b
  <2> QED
    BY <2>1, <2>2
<1> HIDE DEF b
<1>2. e.bytes + size \in Nat \ {0} /\ e.rx + size \in Nat
  BY EntryOf
<1>3. b \in RateEntries
  BY <1>1, <1>2, EntryOf DEF RateEntries
<1>4. b.windowStart = e.windowStart /\ b.bytes \in Nat \ {0} /\ b.peak \in Nat
      /\ b.rx = e.rx + size /\ b.average = e.average
  BY <1>1, <1>2, EntryOf
<1>5. /\ a \in RateEntries /\ a.windowStart <= now
      /\ a.rx = b.rx /\ a.average = b.average /\ over \in Nat
      /\ over = 0 => a.bytes = b.bytes
      /\ over # 0 => a.bytes = 0 /\ a.peak = Rates!Larger(b.peak, b.bytes)
  BY <1>3, <1>4, AdvanceFields
<1> HIDE DEF a, over
<1>6. c = [windowStart |-> a.windowStart, bytes |-> a.bytes,
           peak |-> Rates!Larger(a.peak, a.bytes), rx |-> a.rx, average |-> a.average]
  BY <1>5, EntryOf DEF Rates!CheckAndUpdatePeakRate, RateEntries
<1> HIDE DEF c
<1>7. /\ a.windowStart \in Nat /\ a.bytes \in Nat /\ a.peak \in Nat /\ a.rx \in Nat
      /\ a.average \in Nat
  BY <1>5, EntryOf
<1>8. Rates!Larger(a.peak, a.bytes) \in Nat /\ Rates!Larger(a.peak, a.bytes) > 0
  <2>1. a.bytes > 0 \/ a.peak > 0
    <3>1. Rates!Larger(b.peak, b.bytes) > 0
      BY <1>4 DEF Rates!Larger
    <3> QED
      BY <1>4, <1>5, <3>1
  <2> QED
    BY <1>7, <2>1 DEF Rates!Larger
<1>9. c \in RateEntries
  BY <1>6, <1>7, <1>8 DEF RateEntries
<1>10. c.windowStart <= now /\ c.rx = e.rx + size /\ c.average = e.average /\ c.peak > 0
  BY <1>4, <1>5, <1>6, <1>8
<1> QED
  BY <1>9, <1>10 DEF a, b, c

-----------------------------------------------------------------------------
(* The folds of the collector of rates.                                    *)

RxOf(t) == [k \in DOMAIN t |-> t[k].rx]
PeaksOf(t) == [k \in DOMAIN t |-> t[k].peak]
SizesOf(s) == [i \in DOMAIN s |-> s[i].size]

Tables == {t \in UNION {[K -> RateEntries] : K \in SUBSET Ue} : TRUE}

LEMMA TableOf ==
  ASSUME NEW t \in Tables
  PROVE  /\ DOMAIN t \subseteq Ue /\ IsFiniteSet(DOMAIN t)
         /\ \A k \in DOMAIN t : t[k] \in RateEntries
<1>1. PICK K \in SUBSET Ue : t \in [K -> RateEntries]
  BY DEF Tables
<1>2. IsFiniteSet(K)
  BY RatesConstants, FS_Subset
<1> QED
  BY <1>1, <1>2

LEMMA TotalRxIsSum ==
  ASSUME NEW t
  PROVE  Rates!GetTotalDlRxBytes(t) = SumOn(RxOf(t), DOMAIN t)
BY DEF Rates!GetTotalDlRxBytes, Rates!FoldSet, Rates!MapThenFoldSet, SumOn, SumStep, RxOf

LEMMA SystemPeakIsMost ==
  ASSUME NEW t
  PROVE  Rates!GetSystemPeakRate(t) = MostOn(PeaksOf(t), DOMAIN t)
BY DEF Rates!GetSystemPeakRate, Rates!FoldSet, Rates!MapThenFoldSet, Rates!Larger, MostOn,
       MostStep, Higher, PeaksOf

(* The folds in the collector's own words, for the provers to match.       *)
RatesMostStep(f, it, s) ==
  IF s = {} THEN 0 ELSE LET x == CHOOSE x \in s : TRUE IN Rates!Larger(it[s \ {x}], f[x])
RatesMostOn(f, S) == LET it[s \in SUBSET S] == RatesMostStep(f, it, s) IN it[S]

RatesSumStep(f, it, s) == IF s = {} THEN 0 ELSE it[s \ {Rates!Max(s)}] + f[Rates!Max(s)]
RatesSumUpTo(f, S) == LET it[s \in SUBSET S] == RatesSumStep(f, it, s) IN it[S]

LEMMA RatesFolds ==
  ASSUME NEW f, NEW S
  PROVE  RatesMostOn(f, S) = MostOn(f, S) /\ RatesSumUpTo(f, S) = SumUpTo(f, S)
<1>1. RatesMostOn(f, S) = MostOn(f, S)
  BY DEF RatesMostOn, RatesMostStep, MostOn, MostStep, Rates!Larger, Higher
<1>2. RatesSumUpTo(f, S) = SumUpTo(f, S)
  BY DEF RatesSumUpTo, RatesSumStep, SumUpTo, TopSumStep, Top, Rates!Max
<1> QED
  BY <1>1, <1>2

LEMMA UePeakIsMost ==
  ASSUME NEW t
  PROVE  Rates!GetPeakRateUeThroughput(t) =
           MostOn([k \in DOMAIN t |-> IF t[k].peak > 0 THEN t[k].peak ELSE t[k].rx], DOMAIN t)
<1> DEFINE f == [k \in DOMAIN t |-> IF t[k].peak > 0 THEN t[k].peak ELSE t[k].rx]
<1>1. Rates!GetPeakRateUeThroughput(t) = RatesMostOn(f, DOMAIN t)
  BY DEF Rates!GetPeakRateUeThroughput, Rates!FoldSet, Rates!MapThenFoldSet, RatesMostOn,
         RatesMostStep
<1> HIDE DEF f
<1>2. RatesMostOn(f, DOMAIN t) = MostOn(f, DOMAIN t)
  BY RatesFolds
<1> QED
  BY <1>1, <1>2 DEF f

LEMMA AverageRateIsSum ==
  ASSUME NEW t
  PROVE  Rates!GetSystemAverageRate(t) =
           SumOn([k \in DOMAIN t |-> IF t[k].average > 0 THEN t[k].average ELSE t[k].rx], DOMAIN t)
BY DEF Rates!GetSystemAverageRate, Rates!FoldSet, Rates!MapThenFoldSet, SumOn, SumStep

LEMMA HarqTotalIsSum ==
  ASSUME NEW field
  PROVE  Rates!SumOver(field) = SumOn([u \in Ue |-> harq[u][field]], Ue)
BY DEF Rates!SumOver, Rates!FoldSet, Rates!MapThenFoldSet, SumOn, SumStep

LEMMA TopsInside ==
  ASSUME NEW s \in Seq(Pdus)
  PROVE  /\ Len(s) \in Nat /\ DOMAIN s = 1..Len(s)
         /\ \A A \in SUBSET DOMAIN s : A # {} => Top(A) \in A /\ Rates!Max(A) \in A
<1>1. Len(s) \in Nat /\ DOMAIN s = 1..Len(s)
  OBVIOUS
<1>2. ASSUME NEW A \in SUBSET (1..Len(s)), A # {} PROVE Top(A) \in A
  BY <1>1, <1>2, TopType
<1>3. ASSUME NEW A PROVE Rates!Max(A) = Top(A)
  BY DEF Rates!Max, Top
<1> QED
  BY <1>1, <1>2, <1>3

LEMMA ReceivedIsSum ==
  ASSUME received \in Seq(Pdus)
  PROVE  Rates!FoldLeft(LAMBDA n, r : n + r.size, 0, received) =
           SumOn(SizesOf(received), 1..Len(received))
<1>1. Rates!FoldLeft(LAMBDA n, r : n + r.size, 0, received) =
        RatesSumUpTo(SizesOf(received), DOMAIN received)
  BY TopsInside DEF Rates!FoldLeft, Rates!MapThenFoldSet, RatesSumUpTo, RatesSumStep, SizesOf
<1>2. ASSUME NEW i \in 1..Len(received) PROVE SizesOf(received)[i] \in Nat
  <2>1. received[i] \in Pdus
    OBVIOUS
  <2> QED
    BY <2>1 DEF SizesOf, Pdus
<1> QED
  BY <1>1, <1>2, TopsInside, RatesFolds, SumUpToIsSum

LEMMA BytesIsHeard ==
  ASSUME received \in Seq(Pdus), NEW u, NEW start, NEW w
  PROVE  Rates!Bytes(u, start, w) = Heard(received, u, start, w)
<1> DEFINE f == InWindow(received, u, start, w)
<1>1. Rates!Bytes(u, start, w) = RatesSumUpTo(f, DOMAIN received)
  BY TopsInside DEF Rates!Bytes, Rates!FoldLeft, Rates!MapThenFoldSet, RatesSumUpTo,
                    RatesSumStep, InWindow
<1>2. ASSUME NEW i \in 1..Len(received) PROVE f[i] \in Nat
  <2>1. received[i] \in Pdus
    OBVIOUS
  <2> QED
    BY <2>1 DEF InWindow, Pdus
<1> HIDE DEF f
<1> QED
  BY <1>1, <1>2, TopsInside, RatesFolds, SumUpToIsSum DEF Heard, f

LEMMA PeakIsMostHeard ==
  ASSUME received \in Seq(Pdus), NEW u, NEW start, NEW m,
         IsMost(m, HeardWith(received, u, start), 1..Len(received))
  PROVE  Rates!FoldLeft(LAMBDA p, r : Rates!Larger(p, IF r.ue = u
                          THEN Rates!Bytes(u, start, Rates!Window(start, r.time)) ELSE 0),
                        0, received) = m
<1> DEFINE f == HeardWith(received, u, start)
           g == [i \in DOMAIN received |-> IF received[i].ue = u
                   THEN Rates!Bytes(u, start, Rates!Window(start, received[i].time)) ELSE 0]
<1>1. Rates!FoldLeft(LAMBDA p, r : Rates!Larger(p, IF r.ue = u
                          THEN Rates!Bytes(u, start, Rates!Window(start, r.time)) ELSE 0),
                     0, received) = MostUpTo(g, DOMAIN received)
  BY TopsInside DEF Rates!FoldLeft, Rates!MapThenFoldSet, Rates!Max, Top, Rates!Larger, Higher,
                    MostUpTo, TopMostStep
<1>2. g = f
  BY BytesIsHeard DEF HeardWith
<1>3. ASSUME NEW i \in 1..Len(received) PROVE f[i] \in Nat
  BY HeardType DEF HeardWith
<1> HIDE DEF f, g
<1>4. IsMost(MostUpTo(f, 1..Len(received)), f, 1..Len(received))
  BY <1>3, TopsInside, MostUpToIsMost
<1>5. MostUpTo(f, 1..Len(received)) = m
  BY <1>3, <1>4, MostIsOne DEF f
<1> QED
  BY <1>1, <1>2, <1>5, TopsInside

-----------------------------------------------------------------------------
(* The collector's invariant.                                              *)

HarqTallies == [ack : Nat, nack : Nat, retransmissions : Nat, total : Nat]

RateTypes ==
  /\ now \in Nat /\ now <= MaxTime
  /\ wiring \in {"advance first", "RecordDlRxPdu", "RecordDlDataForwarding"}
  /\ imsi \in [Ue -> Ue]
  /\ rates \in Tables /\ \A k \in DOMAIN rates : rates[k].windowStart <= now
  /\ received \in Seq(Pdus)
  /\ harq \in [Ue -> HarqTallies]
  /\ processState \in [Ue -> [Process -> {0, 2}]]
  /\ access \in [attempts : Nat, success : Nat, poor : Nat]

TableSum(t) == SumOn(RxOf(t), DOMAIN t)
SizeSum(s) == SumOn(SizesOf(s), 1..Len(s))

PeaksHeard(t, s) ==
  /\ \A i \in 1..Len(s) : s[i].ue \in DOMAIN t
  /\ \A u \in DOMAIN t : PeakIsHeard(t[u], s, u)
PeaksPositive(t) == \A k \in DOMAIN t : t[k].peak = 0 <=> t[k].rx = 0

RatesHeard ==
  /\ TableSum(rates) = SizeSum(received)
  /\ wiring = "advance first" => PeaksHeard(rates, received)
  /\ wiring # "RecordDlDataForwarding" => PeaksPositive(rates)

RatesInv ==
  service = "rates" => RateTypes /\ RatesHeard /\ Rates!TalliesBalance /\ Rates!ReportAgrees

LEMMA TableWith ==
  ASSUME rates \in Tables, NEW k \in Ue, NEW e \in RateEntries
  PROVE  LET t == Rates!WithEntry(k, e) IN
         /\ t \in Tables /\ DOMAIN t = DOMAIN rates \cup {k} /\ t[k] = e
         /\ \A l \in DOMAIN rates : l # k => t[l] = rates[l]
<1> DEFINE t == Rates!WithEntry(k, e)
<1>1. /\ DOMAIN rates \subseteq Ue /\ \A l \in DOMAIN rates : rates[l] \in RateEntries
  BY TableOf
<1>2. DOMAIN t = DOMAIN rates \cup {k} /\ t[k] = e /\ \A l \in DOMAIN rates : l # k => t[l] = rates[l]
  BY DEF Rates!WithEntry
<1>3. t \in [DOMAIN rates \cup {k} -> RateEntries]
  BY <1>1 DEF Rates!WithEntry
<1> HIDE DEF t
<1>4. t \in Tables
  BY <1>1, <1>3 DEF Tables
<1> QED
  BY <1>2, <1>4 DEF t

LEMMA EntryType ==
  ASSUME RateTypes, NEW k \in Ue
  PROVE  /\ Rates!Entry(k) \in RateEntries /\ Rates!Entry(k).windowStart <= now
         /\ k \in DOMAIN rates => Rates!Entry(k) = rates[k]
         /\ k \notin DOMAIN rates => Rates!Entry(k) =
              [windowStart |-> now, bytes |-> 0, peak |-> 0, rx |-> 0, average |-> 0]
<1>1. now \in Nat /\ rates \in Tables /\ \A l \in DOMAIN rates : rates[l].windowStart <= now
  BY DEF RateTypes
<1>2. CASE k \in DOMAIN rates
  BY <1>1, <1>2, TableOf DEF Rates!Entry
<1>3. CASE k \notin DOMAIN rates
  BY <1>1, <1>3 DEF Rates!Entry, Rates!NewEntry, RateEntries
<1> QED
  BY <1>2, <1>3

LEMMA TableSumWith ==
  ASSUME RateTypes, NEW k \in Ue, NEW e \in RateEntries
  PROVE  /\ TableSum(rates) \in Nat /\ TableSum(Rates!WithEntry(k, e)) \in Nat
         /\ TableSum(Rates!WithEntry(k, e)) + Rates!Entry(k).rx = TableSum(rates) + e.rx
<1> DEFINE t == Rates!WithEntry(k, e)
           D == DOMAIN rates
           f == RxOf(rates)
           g == RxOf(t)
<1>1. rates \in Tables
  BY DEF RateTypes
<1>2. t \in Tables /\ DOMAIN t = D \cup {k} /\ t[k] = e /\ \A l \in D : l # k => t[l] = rates[l]
  BY <1>1, TableWith
<1>3. IsFiniteSet(D) /\ IsFiniteSet(DOMAIN t)
  BY <1>1, <1>2, TableOf
<1> HIDE DEF t
<1>4. \A l \in D : f[l] \in Nat
  BY <1>1, TableOf, EntryOf DEF RxOf
<1>5. \A l \in DOMAIN t : g[l] \in Nat
  BY <1>2, TableOf, EntryOf DEF RxOf
<1>6. g[k] = e.rx /\ \A l \in D : l # k => g[l] = f[l]
  BY <1>2 DEF RxOf
<1>7. CASE k \in D
  <2>1. DOMAIN t = D
    BY <1>2, <1>7
  <2>2. f[k] = Rates!Entry(k).rx
    BY <1>7, EntryType DEF RxOf
  <2> HIDE DEF D, f, g
  <2>3. SumOn(g, D) + f[k] = SumOn(f, D) + g[k]
    BY <1>3, <1>4, <1>5, <1>6, <1>7, <2>1, SumPut
  <2>4. SumOn(f, D) \in Nat /\ SumOn(g, D) \in Nat
    BY <1>3, <1>4, <1>5, <2>1, SumType
  <2> QED
    BY <1>6, <2>1, <2>2, <2>3, <2>4 DEF TableSum, D, f, g, t
<1>8. CASE k \notin D
  <2>1. DOMAIN t = D \cup {k}
    BY <1>2
  <2>2. Rates!Entry(k).rx = 0
    BY <1>8, EntryType
  <2>3. g[k] \in Nat
    BY <1>2, <1>5
  <2>4. \A l \in D : g[l] = f[l]
    BY <1>6, <1>8
  <2> HIDE DEF D, f, g
  <2>5. SumOn(g, D \cup {k}) = SumOn(f, D) + g[k]
    <3>1. IsFiniteSet(D) /\ k \notin D /\ g[k] \in Nat
      BY <1>3, <1>8, <2>3
    <3>2. \A l \in D : f[l] \in Nat /\ g[l] = f[l]
      BY <1>4, <2>4
    <3> QED
      BY <3>1, <3>2, SumExtend
  <2>6. SumOn(f, D) \in Nat /\ SumOn(g, D \cup {k}) \in Nat
    BY <1>3, <1>4, <1>5, <2>1, SumType
  <2> QED
    BY <1>6, <2>1, <2>2, <2>3, <2>5, <2>6 DEF TableSum, D, f, g, t
<1> QED
  BY <1>7, <1>8

LEMMA SizeSumAppend ==
  ASSUME NEW s \in Seq(Pdus), NEW r \in Pdus
  PROVE  SizeSum(Append(s, r)) = SizeSum(s) + r.size /\ SizeSum(s) \in Nat
<1> DEFINE t == Append(s, r)
           n == Len(s)
           f == SizesOf(s)
           g == SizesOf(t)
<1>1. n \in Nat /\ Len(t) = n + 1 /\ DOMAIN t = 1..(n + 1) /\ DOMAIN s = 1..n /\ t[n + 1] = r
  OBVIOUS
<1>2. ASSUME NEW i \in 1..n PROVE t[i] = s[i] /\ s[i].size \in Nat
  <2>1. t[i] = s[i] /\ s[i] \in Pdus
    OBVIOUS
  <2> QED
    BY <2>1 DEF Pdus
<1> HIDE DEF t, n
<1>3. \A i \in 1..n : f[i] \in Nat /\ g[i] = f[i]
  BY <1>1, <1>2 DEF SizesOf
<1>4. g[n + 1] = r.size /\ r.size \in Nat
  BY <1>1 DEF SizesOf, Pdus
<1> HIDE DEF f, g
<1>5. SumOn(g, 1..(n + 1)) = SumOn(f, 1..n) + g[n + 1]
  BY <1>1, <1>3, <1>4, SumAppend
<1>6. IsFiniteSet(1..n)
  BY <1>1, FS_Interval
<1>7. SumOn(f, 1..n) \in Nat
  BY <1>3, <1>6, SumType
<1> QED
  BY <1>1, <1>4, <1>5, <1>7 DEF SizeSum, f, g, n, t

(* What another UE received is nothing to a UE.                            *)
LEMMA OthersPdu ==
  ASSUME NEW e \in RateEntries, NEW s \in Seq(Pdus), NEW r \in Pdus, NEW u, u # r.ue,
         PeakIsHeard(e, s, u)
  PROVE  PeakIsHeard(e, Append(s, r), u)
<1> DEFINE t == Append(s, r)
           n == Len(s)
           start == e.windowStart
           f == HeardWith(s, u, start)
           g == HeardWith(t, u, start)
<1>1. n \in Nat /\ Len(t) = n + 1 /\ DOMAIN t = 1..(n + 1) /\ DOMAIN s = 1..n /\ t[n + 1] = r
      /\ \A i \in 1..n : t[i] = s[i]
  OBVIOUS
<1>2. ASSUME NEW w PROVE Heard(t, u, start, w) = Heard(s, u, start, w)
  BY HeardAppend, HeardType
<1> HIDE DEF t, n
<1>3. \A i \in 1..n : g[i] = f[i]
  BY <1>1, <1>2 DEF HeardWith
<1>4. g[n + 1] = 0
  BY <1>1 DEF HeardWith
<1>5. \A i \in 1..Len(t) : t[i].ue = u => Rates!Window(start, t[i].time) <= MaxTime
  <2> SUFFICES ASSUME NEW i \in 1..(n + 1), t[i].ue = u
               PROVE  Rates!Window(start, t[i].time) <= MaxTime
    BY <1>1
  <2>1. i # n + 1
    BY <1>1
  <2>2. i \in 1..n
    BY <1>1, <2>1
  <2> QED
    BY <1>1, <2>2 DEF PeakIsHeard, n
<1>6. IsMost(e.peak, f, 1..n) /\ e.bytes = Heard(s, u, start, MaxTime) /\ e.bytes <= e.peak
  BY DEF PeakIsHeard, n
<1> HIDE DEF f, g
<1>7. IsMost(e.peak, g, 1..(n + 1))
  <2>1. e.peak \in Nat /\ (\A i \in 1..n : f[i] <= e.peak)
        /\ (e.peak = 0 \/ \E i \in 1..n : f[i] = e.peak)
    BY <1>6 DEF IsMost
  <2>2. ASSUME NEW i \in 1..(n + 1) PROVE g[i] <= e.peak
    <3>1. CASE i = n + 1
      BY <1>4, <2>1, <3>1
    <3>2. CASE i # n + 1
      <4>1. i \in 1..n
        BY <1>1, <3>2
      <4> QED
        BY <1>3, <2>1, <4>1
    <3> QED
      BY <3>1, <3>2
  <2>3. e.peak = 0 \/ \E i \in 1..(n + 1) : g[i] = e.peak
    <3>1. 1..n \subseteq 1..(n + 1)
      BY <1>1
    <3> QED
      BY <1>3, <2>1, <3>1
  <2> QED
    BY <2>1, <2>2, <2>3 DEF IsMost
<1>8. e.bytes = Heard(t, u, start, MaxTime)
  BY <1>2, <1>6
<1> QED
  BY <1>1, <1>5, <1>6, <1>7, <1>8 DEF PeakIsHeard, g, t

(* Nothing was heard of a UE that has no entry.                            *)
LEMMA NewIsHeard ==
  ASSUME RateTypes, NEW s \in Seq(Pdus), NEW u, \A i \in 1..Len(s) : s[i].ue # u,
         NEW e \in RateEntries, e.bytes = 0, e.peak = 0
  PROVE  PeakIsHeard(e, s, u)
<1>1. Heard(s, u, e.windowStart, MaxTime) = 0
  BY HeardNothing
<1>2. \A i \in 1..Len(s) : HeardWith(s, u, e.windowStart)[i] = 0
  BY DEF HeardWith
<1>3. IsMost(0, HeardWith(s, u, e.windowStart), 1..Len(s))
  BY <1>2 DEF IsMost
<1> QED
  BY <1>1, <1>3 DEF PeakIsHeard

(* A PDU is received: by whichever recorder, an entry is put that counts   *)
(* its bytes.                                                              *)
LEMMA ReceivePuts ==
  ASSUME RateTypes, NEW u \in Ue, NEW size \in Size, Rates!Receive(u, size)
  PROVE  \E k \in Ue, e \in RateEntries :
           /\ rates' = Rates!WithEntry(k, e) /\ e.windowStart <= now
           /\ e.rx = Rates!Entry(k).rx + size
           /\ wiring = "advance first" =>
                /\ k = u
                /\ e = Rates!CheckAndUpdatePeakRate(
                         Rates!Counted(Rates!AdvanceWindow(Rates!Entry(u)), size))
           /\ wiring # "RecordDlDataForwarding" => e.peak > 0
<1>1. /\ now \in Nat /\ imsi \in [Ue -> Ue]
      /\ wiring \in {"advance first", "RecordDlRxPdu", "RecordDlDataForwarding"}
  BY DEF RateTypes
<1>2. size \in Nat \ {0}
  BY RatesConstants
<1> DEFINE en(k) == Rates!Entry(k)
<1>3. ASSUME NEW k \in Ue PROVE en(k) \in RateEntries /\ en(k).windowStart <= now
  BY EntryType
<1>4. CASE wiring = "advance first"
  <2> DEFINE a == Rates!AdvanceWindow(en(u))
             c == Rates!CheckAndUpdatePeakRate(Rates!Counted(a, size))
  <2>1. rates' = Rates!WithEntry(u, c)
    BY <1>4 DEF Rates!Receive, Rates!CountedInWindow
  <2>2. a \in RateEntries /\ a.rx = en(u).rx /\ a.windowStart <= now
    <3> HIDE DEF en
    <3> QED
      BY <1>1, <1>3, AdvanceFields
  <2>3. /\ c \in RateEntries /\ c.windowStart = a.windowStart /\ c.rx = a.rx + size
        /\ c.peak = Rates!Larger(a.peak, a.bytes + size)
    <3> HIDE DEF a
    <3> QED
      BY <1>2, <2>2, CountFields
  <2>4. c.peak > 0
    <3> HIDE DEF a, c
    <3>1. a.peak \in Nat /\ a.bytes \in Nat /\ a.bytes + size \in Nat \ {0}
      BY <1>2, <2>2, EntryOf
    <3>2. c.peak \in Nat /\ c.peak >= a.bytes + size
      BY <2>3, <3>1, LargerType
    <3> QED
      BY <3>1, <3>2
  <2>5. c.windowStart <= now /\ c.rx = en(u).rx + size
    BY <2>2, <2>3
  <2> HIDE DEF a, c
  <2>6. c = Rates!CheckAndUpdatePeakRate(Rates!Counted(Rates!AdvanceWindow(Rates!Entry(u)), size))
    BY DEF c, a
  <2> HIDE DEF en
  <2> QED
    BY <2>1, <2>3, <2>4, <2>5, <2>6 DEF en
<1>5. CASE wiring = "RecordDlRxPdu"
  <2> DEFINE c == Rates!CheckAndUpdatePeakRate(Rates!AdvanceWindow(Rates!Counted(en(u), size)))
  <2>1. rates' = Rates!WithEntry(u, c)
    BY <1>5 DEF Rates!Receive, Rates!RecordDlRxPdu
  <2>2. c \in RateEntries /\ c.windowStart <= now /\ c.rx = en(u).rx + size /\ c.peak > 0
    <3> HIDE DEF en
    <3> QED
      BY <1>1, <1>2, <1>3, CountFirstFields
  <2> HIDE DEF c
  <2> QED
    BY <1>5, <2>1, <2>2
<1>6. CASE wiring = "RecordDlDataForwarding"
  <2> DEFINE k == imsi[u]
             c == [en(k) EXCEPT !.rx = @ + size]
  <2>1. rates' = Rates!WithEntry(k, c)
    BY <1>6 DEF Rates!Receive, Rates!RecordDlDataForwarding
  <2>2. k \in Ue
    BY <1>1
  <2>3. en(k) \in RateEntries /\ en(k).windowStart <= now
    BY <1>3, <2>2
  <2> HIDE DEF k
  <2>4. c = [windowStart |-> en(k).windowStart, bytes |-> en(k).bytes, peak |-> en(k).peak,
             rx |-> en(k).rx + size, average |-> en(k).average]
    <3> HIDE DEF en
    <3> QED
      BY <2>3 DEF RateEntries
  <2>5. c \in RateEntries
    <3> HIDE DEF c, en
    <3>1. /\ en(k).windowStart \in Nat /\ en(k).bytes \in Nat /\ en(k).peak \in Nat
          /\ en(k).rx + size \in Nat /\ en(k).average \in Nat
      BY <1>2, <2>3, EntryOf
    <3> QED
      BY <2>4, <3>1 DEF RateEntries
  <2>6. c.windowStart <= now /\ c.rx = en(k).rx + size
    <3> HIDE DEF c, en
    <3> QED
      BY <2>3, <2>4
  <2> HIDE DEF c
  <2> QED
    BY <1>6, <2>1, <2>2, <2>5, <2>6
<1> QED
  BY <1>1, <1>4, <1>5, <1>6

LEMMA AppendMember ==
  ASSUME NEW s \in Seq(Pdus), NEW r \in Pdus, NEW i \in 1..Len(Append(s, r))
  PROVE  (i \in 1..Len(s) /\ Append(s, r)[i] = s[i]) \/ Append(s, r)[i] = r
OBVIOUS

LEMMA ReceiveInv ==
  ASSUME service = "rates", RatesInv, NEW u \in Ue, NEW size \in Size, Rates!Receive(u, size)
  PROVE  RateTypes' /\ RatesHeard'
<1>1. RateTypes /\ RatesHeard
  BY DEF RatesInv
<1> DEFINE r == [ue |-> u, time |-> now, size |-> size]
<1>2. /\ received' = Append(received, r)
      /\ UNCHANGED <<now, wiring, imsi, harq, processState, access>>
  BY DEF Rates!Receive, Rates!Event, Rates!harqVars, Rates!accessVars
<1>3. r \in Pdus /\ received \in Seq(Pdus) /\ r.ue = u /\ r.time = now /\ r.size = size
  BY <1>1, RatesConstants DEF RateTypes, Pdus
<1> HIDE DEF r
<1>4. PICK k \in Ue, e \in RateEntries :
        /\ rates' = Rates!WithEntry(k, e) /\ e.windowStart <= now
        /\ e.rx = Rates!Entry(k).rx + size
        /\ wiring = "advance first" =>
             /\ k = u
             /\ e = Rates!CheckAndUpdatePeakRate(
                      Rates!Counted(Rates!AdvanceWindow(Rates!Entry(u)), size))
        /\ wiring # "RecordDlDataForwarding" => e.peak > 0
  BY <1>1, ReceivePuts
<1>5. rates \in Tables /\ now \in Nat /\ \A l \in DOMAIN rates : rates[l].windowStart <= now
  BY <1>1 DEF RateTypes
<1> DEFINE t == rates'
<1>6. /\ t \in Tables /\ DOMAIN t = DOMAIN rates \cup {k} /\ t[k] = e
      /\ \A l \in DOMAIN rates : l # k => t[l] = rates[l]
  BY <1>4, <1>5, TableWith
<1> HIDE DEF t
<1>7. RateTypes'
  <2>1. \A l \in DOMAIN t : t[l].windowStart <= now
    BY <1>4, <1>5, <1>6
  <2>2. received' \in Seq(Pdus)
    BY <1>2, <1>3
  <2> QED
    BY <1>1, <1>2, <1>6, <2>1, <2>2 DEF RateTypes, t
<1>8. TableSum(rates') = SizeSum(received')
  <2>1. /\ TableSum(rates) \in Nat /\ TableSum(rates') \in Nat
        /\ TableSum(rates') + Rates!Entry(k).rx = TableSum(rates) + e.rx
    BY <1>1, <1>4, TableSumWith
  <2>2. SizeSum(received') = SizeSum(received) + size
    BY <1>2, <1>3, SizeSumAppend
  <2>3. Rates!Entry(k).rx \in Nat /\ size \in Nat
    BY <1>1, EntryType, EntryOf, RatesConstants
  <2>4. TableSum(rates) = SizeSum(received) /\ SizeSum(received) \in Nat
    BY <1>1, <1>3, SizeSumAppend DEF RatesHeard
  <2>5. e.rx \in Nat /\ e.rx = Rates!Entry(k).rx + size
    BY <1>4, EntryOf
  <2> QED
    BY <2>1, <2>2, <2>3, <2>4, <2>5
<1>9. wiring = "advance first" => PeaksHeard(rates', received')
  <2> SUFFICES ASSUME wiring = "advance first" PROVE PeaksHeard(t, received')
    BY DEF t
  <2>1. PeaksHeard(rates, received)
    BY <1>1 DEF RatesHeard
  <2>2. k = u
    BY <1>4
  <2>3. \A i \in 1..Len(received') : received'[i].ue \in DOMAIN t
    <3> SUFFICES ASSUME NEW i \in 1..Len(received') PROVE received'[i].ue \in DOMAIN t
      OBVIOUS
    <3>1. \/ i \in 1..Len(received) /\ received'[i] = received[i]
          \/ received'[i] = r
      BY <1>2, <1>3, AppendMember
    <3> QED
      BY <1>3, <1>6, <2>1, <2>2, <3>1 DEF PeaksHeard
  <2>4. PeakIsHeard(Rates!Entry(u), received, u)
    <3>1. CASE u \in DOMAIN rates
      BY <1>1, <2>1, <3>1, EntryType DEF PeaksHeard
    <3>2. CASE u \notin DOMAIN rates
      <4>1. \A i \in 1..Len(received) : received[i].ue # u
        BY <2>1, <3>2 DEF PeaksHeard
      <4>2. Rates!Entry(u) \in RateEntries /\ Rates!Entry(u).bytes = 0 /\ Rates!Entry(u).peak = 0
        <5>1. Rates!Entry(u) \in RateEntries /\ Rates!Entry(u) =
                [windowStart |-> now, bytes |-> 0, peak |-> 0, rx |-> 0, average |-> 0]
          BY <1>1, <3>2, EntryType
        <5> DEFINE x == Rates!Entry(u)
        <5>2. x.bytes = 0 /\ x.peak = 0
          <6>1. x = [windowStart |-> now, bytes |-> 0, peak |-> 0, rx |-> 0, average |-> 0]
            BY <5>1
          <6> HIDE DEF x
          <6> QED
            BY <6>1
        <5> QED
          BY <5>1, <5>2
      <4> QED
        BY <1>1, <1>3, <4>1, <4>2, NewIsHeard
    <3> QED
      BY <3>1, <3>2
  <2> DEFINE a == Rates!AdvanceWindow(Rates!Entry(u))
  <2>5. PeakIsHeard(a, received, u)
    BY <1>1, <1>3, <1>5, <2>4, EntryType, AdvanceKeeps
  <2>6. a \in RateEntries /\ Rates!Window(a.windowStart, now) = MaxTime
    BY <1>1, <1>5, EntryType, AdvanceFields
  <2>7. e = Rates!CheckAndUpdatePeakRate(Rates!Counted(a, size))
    BY <1>4
  <2> HIDE DEF a
  <2>8. PeakIsHeard(e, received', u)
    BY <1>2, <1>3, <2>5, <2>6, <2>7, CountKeeps
  <2>9. ASSUME NEW l \in DOMAIN t PROVE PeakIsHeard(t[l], received', l)
    <3>1. CASE l = u
      BY <1>6, <2>2, <2>8, <3>1
    <3>2. CASE l # u
      <4>1. l \in DOMAIN rates /\ t[l] = rates[l]
        BY <1>6, <2>2, <3>2
      <4>2. rates[l] \in RateEntries
        BY <1>5, <4>1, TableOf
      <4>3. PeakIsHeard(rates[l], received, l)
        BY <2>1, <4>1 DEF PeaksHeard
      <4> QED
        BY <1>2, <1>3, <3>2, <4>1, <4>2, <4>3, OthersPdu
    <3> QED
      BY <3>1, <3>2
  <2> QED
    BY <2>3, <2>9 DEF PeaksHeard
<1>10. wiring # "RecordDlDataForwarding" => PeaksPositive(rates')
  <2> SUFFICES ASSUME wiring # "RecordDlDataForwarding", NEW l \in DOMAIN t
               PROVE  t[l].peak = 0 <=> t[l].rx = 0
    BY DEF PeaksPositive, t
  <2>1. CASE l = k
    <3>1. Rates!Entry(k).rx \in Nat /\ size \in Nat \ {0}
      BY <1>1, EntryType, EntryOf, RatesConstants
    <3>2. e.rx > 0 /\ e.peak > 0 /\ e.rx \in Nat /\ e.peak \in Nat
      <4>1. e.rx \in Nat /\ e.peak \in Nat
        BY EntryOf
      <4>2. e.rx = Rates!Entry(k).rx + size
        BY <1>4
      <4>3. e.peak > 0
        BY <1>4
      <4> QED
        BY <3>1, <4>1, <4>2, <4>3
    <3> QED
      BY <1>6, <2>1, <3>2
  <2>2. CASE l # k
    BY <1>1, <1>6, <2>2 DEF RatesHeard, PeaksPositive
  <2> QED
    BY <2>1, <2>2
<1> QED
  BY <1>2, <1>7, <1>8, <1>9, <1>10 DEF RatesHeard

-----------------------------------------------------------------------------
(* HARQ feedback, block by block.                                          *)

LEMMA RatesCardinality ==
  ASSUME NEW S
  PROVE  Rates!Cardinality(S) = Cardinality(S)
BY DEF Rates!Cardinality, Cardinality

FeedbackStep(base, acks, it, s) ==
  IF s = {} THEN base
  ELSE Rates!HarqFeedback(it[s \ {Rates!Max(s)}], acks[Rates!Max(s)])
FeedbackOf(base, acks) ==
  LET it[s \in SUBSET DOMAIN acks] == FeedbackStep(base, acks, it, s) IN it[DOMAIN acks]

LEMMA FeedbackIsFold ==
  ASSUME NEW base, NEW acks
  PROVE  Rates!FoldLeft(Rates!HarqFeedback, base, acks) = FeedbackOf(base, acks)
BY DEF Rates!FoldLeft, Rates!MapThenFoldSet, FeedbackOf, FeedbackStep

LEMMA FeedbackSolves ==
  ASSUME NEW base, NEW acks, NEW it,
         it = [s \in SUBSET DOMAIN acks |-> FeedbackStep(base, acks, it, s)]
  PROVE  \E g : /\ g = [s \in SUBSET DOMAIN acks |-> FeedbackStep(base, acks, g, s)]
                /\ FeedbackOf(base, acks) = g[DOMAIN acks]
<1> DEFINE Eq(g) == g = [s \in SUBSET DOMAIN acks |-> FeedbackStep(base, acks, g, s)]
           g == CHOOSE g : Eq(g)
<1>1. Eq(it)
  OBVIOUS
<1>2. Eq(g)
  <2> HIDE DEF Eq
  <2> QED
    BY <1>1
<1>3. FeedbackOf(base, acks) = g[DOMAIN acks]
  BY DEF FeedbackOf
<1> QED
  BY <1>2, <1>3

LEMMA MaxOf ==
  /\ Rates!Max({1}) = 1 /\ Rates!Max({2}) = 2 /\ Rates!Max({1, 2}) = 2
<1>1. ASSUME NEW s, NEW m \in s, m \in Int, \A x \in s : x \in Int /\ m >= x
      PROVE  Rates!Max(s) = m
  <2> DEFINE M(x) == \A y \in s : x >= y
             z == CHOOSE x \in s : M(x)
  <2>1. M(m)
    BY <1>1
  <2>2. z \in s /\ M(z)
    <3> HIDE DEF M
    <3> QED
      BY <2>1
  <2>3. z = m
    <3>1. z \in s /\ z >= m
      BY <1>1, <2>2
    <3> HIDE DEF z, M
    <3> QED
      BY <1>1, <3>1
  <2> QED
    BY <2>3 DEF Rates!Max
<1> QED
  BY <1>1

LEMMA FeedbackOfOne ==
  ASSUME NEW base, NEW a
  PROVE  FeedbackOf(base, <<a>>) = Rates!HarqFeedback(base, a)
<1> DEFINE acks == <<a>>
           it == [s \in SUBSET {1} |-> IF s = {} THEN base ELSE Rates!HarqFeedback(base, a)]
<1>0. DOMAIN acks = {1} /\ acks[1] = a
  OBVIOUS
<1>1. it = [s \in SUBSET DOMAIN acks |-> FeedbackStep(base, acks, it, s)]
  <2> SUFFICES ASSUME NEW s \in SUBSET {1} PROVE it[s] = FeedbackStep(base, acks, it, s)
    BY <1>0, Zenon
  <2>1. s = {} \/ s = {1}
    OBVIOUS
  <2>2. {1} \ {1} = {} /\ {1} # {} /\ {} \in SUBSET {1} /\ {1} \in SUBSET {1}
    OBVIOUS
  <2> HIDE DEF acks
  <2> QED
    BY <1>0, <2>1, <2>2, MaxOf DEF FeedbackStep
<1> HIDE DEF acks, it
<1>2. PICK g : /\ g = [s \in SUBSET DOMAIN acks |-> FeedbackStep(base, acks, g, s)]
               /\ FeedbackOf(base, acks) = g[DOMAIN acks]
  BY <1>0, <1>1, FeedbackSolves
<1>3. g[{}] = base
  BY <1>0, <1>2 DEF FeedbackStep
<1>4. g[{1}] = FeedbackStep(base, acks, g, {1})
  BY <1>0, <1>2
<1>5. {1} \ {1} = {} /\ {1} # {}
  OBVIOUS
<1> QED
  BY <1>0, <1>2, <1>3, <1>4, <1>5, MaxOf DEF FeedbackStep, acks

LEMMA FeedbackOfTwo ==
  ASSUME NEW base, NEW a, NEW b
  PROVE  FeedbackOf(base, <<a, b>>) = Rates!HarqFeedback(Rates!HarqFeedback(base, a), b)
<1> DEFINE acks == <<a, b>>
           it == [s \in SUBSET {1, 2} |->
                    IF s = {} THEN base ELSE IF s = {1} THEN Rates!HarqFeedback(base, a)
                    ELSE IF s = {2} THEN Rates!HarqFeedback(base, b)
                    ELSE Rates!HarqFeedback(Rates!HarqFeedback(base, a), b)]
<1>0. DOMAIN acks = {1, 2} /\ acks[1] = a /\ acks[2] = b
  OBVIOUS
<1>s. /\ {1} \ {1} = {} /\ {2} \ {2} = {} /\ {1, 2} \ {2} = {1}
      /\ {1} # {} /\ {2} # {} /\ {1, 2} # {} /\ {1, 2} # {1} /\ {1, 2} # {2} /\ {1} # {2}
      /\ {} \in SUBSET {1, 2} /\ {1} \in SUBSET {1, 2} /\ {2} \in SUBSET {1, 2}
      /\ {1, 2} \in SUBSET {1, 2}
  OBVIOUS
<1>1. it = [s \in SUBSET DOMAIN acks |-> FeedbackStep(base, acks, it, s)]
  <2> SUFFICES ASSUME NEW s \in SUBSET {1, 2} PROVE it[s] = FeedbackStep(base, acks, it, s)
    BY <1>0, Zenon
  <2>1. s = {} \/ s = {1} \/ s = {2} \/ s = {1, 2}
    OBVIOUS
  <2> HIDE DEF acks
  <2>2. /\ it[{}] = base /\ it[{1}] = Rates!HarqFeedback(base, a)
        /\ it[{2}] = Rates!HarqFeedback(base, b)
        /\ it[{1, 2}] = Rates!HarqFeedback(Rates!HarqFeedback(base, a), b)
    BY <1>s
  <2> HIDE DEF it
  <2>3. FeedbackStep(base, acks, it, {}) = base
    BY DEF FeedbackStep
  <2>4. FeedbackStep(base, acks, it, {1}) = Rates!HarqFeedback(base, a)
    BY <1>0, <1>s, <2>2, MaxOf DEF FeedbackStep
  <2>5. FeedbackStep(base, acks, it, {2}) = Rates!HarqFeedback(base, b)
    BY <1>0, <1>s, <2>2, MaxOf DEF FeedbackStep
  <2>6. FeedbackStep(base, acks, it, {1, 2}) =
          Rates!HarqFeedback(Rates!HarqFeedback(base, a), b)
    BY <1>0, <1>s, <2>2, MaxOf DEF FeedbackStep
  <2> QED
    BY <2>1, <2>2, <2>3, <2>4, <2>5, <2>6
<1> HIDE DEF acks, it
<1>2. PICK g : /\ g = [s \in SUBSET DOMAIN acks |-> FeedbackStep(base, acks, g, s)]
               /\ FeedbackOf(base, acks) = g[DOMAIN acks]
  BY <1>0, <1>1, FeedbackSolves
<1>3. ASSUME NEW s \in SUBSET {1, 2} PROVE g[s] = FeedbackStep(base, acks, g, s)
  BY <1>0, <1>2
<1>4. g[{}] = base
  BY <1>s, <1>3 DEF FeedbackStep
<1>5. g[{1}] = Rates!HarqFeedback(base, a)
  BY <1>0, <1>s, <1>3, <1>4, MaxOf DEF FeedbackStep
<1>6. g[{1, 2}] = Rates!HarqFeedback(Rates!HarqFeedback(base, a), b)
  BY <1>0, <1>s, <1>3, <1>5, MaxOf DEF FeedbackStep
<1> QED
  BY <1>0, <1>2, <1>6 DEF acks

Awaited(state) == IF state = 2 THEN 1 ELSE 0

HarqStates == [state : {0, 2}, tally : HarqTallies]

(* What one block leaves balanced.                                         *)
BalancedFrom(t, a) ==
  /\ a \in HarqStates
  /\ t.tally.ack = t.tally.total => a.tally.ack = a.tally.total
  /\ a.tally.nack + t.tally.retransmissions + Awaited(t.state) =
       t.tally.nack + a.tally.retransmissions + Awaited(a.state)

LEMMA BlockBalances ==
  ASSUME NEW t \in HarqStates, NEW ack \in BOOLEAN
  PROVE  BalancedFrom(t, Rates!HarqFeedback(t, ack))
<1> DEFINE y == t.tally
           a == Rates!HarqFeedback(t, ack)
           z == a.tally
<1>1. /\ t.state \in {0, 2} /\ y \in HarqTallies
  BY DEF HarqStates
<1>2. /\ y.ack \in Nat /\ y.nack \in Nat /\ y.retransmissions \in Nat /\ y.total \in Nat
  <2> HIDE DEF y
  <2> QED
    BY <1>1 DEF HarqTallies
<1>3. /\ a.state = (IF ack THEN 0 ELSE 2)
      /\ z = [ack |-> y.ack + (IF ack THEN 1 ELSE 0), nack |-> y.nack + (IF ack THEN 0 ELSE 1),
              retransmissions |-> y.retransmissions + (IF t.state = 2 THEN 1 ELSE 0),
              total |-> y.total + (IF ack THEN 1 ELSE 0)]
  BY DEF Rates!HarqFeedback
<1>4. a = [state |-> a.state, tally |-> z]
  BY DEF Rates!HarqFeedback
<1> HIDE DEF y, z, a
<1>5. /\ z.ack = y.ack + (IF ack THEN 1 ELSE 0) /\ z.nack = y.nack + (IF ack THEN 0 ELSE 1)
      /\ z.retransmissions = y.retransmissions + (IF t.state = 2 THEN 1 ELSE 0)
      /\ z.total = y.total + (IF ack THEN 1 ELSE 0)
  BY <1>3
<1>6. z \in HarqTallies
  BY <1>2, <1>3 DEF HarqTallies
<1>7. a \in HarqStates
  BY <1>3, <1>4, <1>6 DEF HarqStates
<1>8. a.tally = z
  BY DEF z
<1>9. (y.ack = y.total => z.ack = z.total)
      /\ z.nack + y.retransmissions + Awaited(t.state) =
           y.nack + z.retransmissions + Awaited(a.state)
  BY <1>1, <1>2, <1>3, <1>5 DEF Awaited
<1> QED
  BY <1>7, <1>8, <1>9 DEF BalancedFrom, y, a

LEMMA FeedbackBalances ==
  ASSUME NEW t \in HarqStates, NEW acks \in {<<TRUE>>, <<FALSE>>, <<FALSE, TRUE>>}
  PROVE  BalancedFrom(t, Rates!FoldLeft(Rates!HarqFeedback, t, acks))
<1>1. CASE acks \in {<<TRUE>>, <<FALSE>>}
  <2>1. PICK a \in BOOLEAN : acks = <<a>>
    BY <1>1
  <2>2. Rates!FoldLeft(Rates!HarqFeedback, t, acks) = Rates!HarqFeedback(t, a)
    BY <2>1, FeedbackIsFold, FeedbackOfOne
  <2> QED
    BY <2>2, BlockBalances
<1>2. CASE acks = <<FALSE, TRUE>>
  <2>0. PICK x \in BOOLEAN, y \in BOOLEAN : acks = <<x, y>>
    BY <1>2
  <2> DEFINE m == Rates!HarqFeedback(t, x)
             a == Rates!HarqFeedback(m, y)
  <2>1. Rates!FoldLeft(Rates!HarqFeedback, t, acks) = a
    <3>1. Rates!FoldLeft(Rates!HarqFeedback, t, acks) = FeedbackOf(t, acks)
      BY FeedbackIsFold
    <3>2. FeedbackOf(t, <<x, y>>) = Rates!HarqFeedback(Rates!HarqFeedback(t, x), y)
      BY FeedbackOfTwo
    <3> QED
      BY <2>0, <3>1, <3>2
  <2>2. BalancedFrom(t, m)
    BY BlockBalances
  <2>3. m \in HarqStates
    BY <2>2 DEF BalancedFrom
  <2>4. BalancedFrom(m, a)
    <3> HIDE DEF m
    <3> QED
      BY <2>3, BlockBalances
  <2> HIDE DEF m, a
  <2>5. a \in HarqStates
    BY <2>4 DEF BalancedFrom
  <2>n. ASSUME NEW z \in HarqStates
        PROVE  /\ z.tally.nack \in Nat /\ z.tally.retransmissions \in Nat
               /\ Awaited(z.state) \in Nat
    <3> DEFINE k == z.tally
    <3>1. k \in HarqTallies
      BY DEF HarqStates
    <3> HIDE DEF k
    <3>2. k.nack \in Nat /\ k.retransmissions \in Nat
      BY <3>1 DEF HarqTallies
    <3> QED
      BY <3>2 DEF Awaited, k
  <2>6. a.tally.nack + t.tally.retransmissions + Awaited(t.state) =
          t.tally.nack + a.tally.retransmissions + Awaited(a.state)
    <3>1. /\ m.tally.nack + t.tally.retransmissions + Awaited(t.state) =
               t.tally.nack + m.tally.retransmissions + Awaited(m.state)
          /\ a.tally.nack + m.tally.retransmissions + Awaited(m.state) =
               m.tally.nack + a.tally.retransmissions + Awaited(a.state)
      BY <2>2, <2>4 DEF BalancedFrom
    <3>2. /\ t.tally.nack \in Nat /\ t.tally.retransmissions \in Nat /\ Awaited(t.state) \in Nat
          /\ m.tally.nack \in Nat /\ m.tally.retransmissions \in Nat /\ Awaited(m.state) \in Nat
          /\ a.tally.nack \in Nat /\ a.tally.retransmissions \in Nat /\ Awaited(a.state) \in Nat
      BY <2>3, <2>5, <2>n
    <3> DEFINE a1 == a.tally.nack  a2 == a.tally.retransmissions  a3 == Awaited(a.state)
               m1 == m.tally.nack  m2 == m.tally.retransmissions  m3 == Awaited(m.state)
               t1 == t.tally.nack  t2 == t.tally.retransmissions  t3 == Awaited(t.state)
    <3> HIDE DEF a1, a2, a3, m1, m2, m3, t1, t2, t3
    <3>3. m1 + t2 + t3 = t1 + m2 + m3 /\ a1 + m2 + m3 = m1 + a2 + a3
      BY <3>1 DEF a1, a2, a3, m1, m2, m3, t1, t2, t3
    <3>4. /\ a1 \in Nat /\ a2 \in Nat /\ a3 \in Nat /\ m1 \in Nat /\ m2 \in Nat /\ m3 \in Nat
          /\ t1 \in Nat /\ t2 \in Nat /\ t3 \in Nat
      BY <3>2 DEF a1, a2, a3, m1, m2, m3, t1, t2, t3
    <3>5. a1 + t2 + t3 = t1 + a2 + a3
      BY <3>3, <3>4
    <3> QED
      BY <3>5 DEF a1, a2, a3, m1, m2, m3, t1, t2, t3
  <2>7. t.tally.ack = t.tally.total => a.tally.ack = a.tally.total
    BY <2>2, <2>4 DEF BalancedFrom
  <2> QED
    BY <2>1, <2>5, <2>6, <2>7 DEF BalancedFrom
<1> QED
  BY <1>1, <1>2

(* The processes that wait, when one changes its state.                    *)
Waiting(f) == {p \in Process : f[p] = 2}

LEMMA WaitingPut ==
  ASSUME NEW f \in [Process -> {0, 2}], NEW p \in Process, NEW x \in {0, 2}
  PROVE  LET g == [f EXCEPT ![p] = x] IN
         /\ Cardinality(Waiting(f)) \in Nat /\ Cardinality(Waiting(g)) \in Nat
         /\ Cardinality(Waiting(g)) + Awaited(f[p]) = Cardinality(Waiting(f)) + Awaited(x)
<1> DEFINE g == [f EXCEPT ![p] = x]
           W == Waiting(f)
           V == Waiting(g)
<1>1. IsFiniteSet(W) /\ IsFiniteSet(V)
  BY RatesConstants, FS_Subset DEF Waiting
<1>2. Cardinality(W) \in Nat /\ Cardinality(V) \in Nat
  BY <1>1, FS_CardinalityType
<1>3. CASE f[p] = x
  <2>1. g = f
    BY <1>3
  <2> QED
    BY <1>2, <1>3, <2>1 DEF Awaited
<1>4. CASE f[p] = 0 /\ x = 2
  <2>1. V = W \cup {p} /\ p \notin W
    BY <1>4 DEF Waiting
  <2> HIDE DEF V, W
  <2>2. Cardinality(V) = Cardinality(W) + 1
    BY <1>1, <2>1, FS_AddElement
  <2> QED
    BY <1>2, <1>4, <2>2 DEF Awaited, V, W
<1>5. CASE f[p] = 2 /\ x = 0
  <2>1. V = W \ {p} /\ p \in W
    BY <1>5 DEF Waiting
  <2> HIDE DEF V, W
  <2>2. Cardinality(V) = Cardinality(W) - 1
    BY <1>1, <2>1, FS_RemoveElement
  <2> QED
    BY <1>2, <1>5, <2>2 DEF Awaited, V, W
<1> QED
  BY <1>3, <1>4, <1>5

LEMMA FeedbackInv ==
  ASSUME service = "rates", RatesInv, NEW u \in Ue, NEW p \in Process,
         NEW acks \in {<<TRUE>>, <<FALSE>>, <<FALSE, TRUE>>}, Rates!RecordNrHarqFeedback(u, p, acks)
  PROVE  RateTypes' /\ Rates!TalliesBalance'
<1>1. RateTypes /\ Rates!TalliesBalance
  BY DEF RatesInv
<1> DEFINE f == processState[u]
           b == [state |-> f[p], tally |-> harq[u]]
           t == Rates!FoldLeft(Rates!HarqFeedback, b, acks)
<1>2. /\ harq \in [Ue -> HarqTallies] /\ processState \in [Ue -> [Process -> {0, 2}]]
  BY <1>1 DEF RateTypes
<1>3. f \in [Process -> {0, 2}] /\ b \in HarqStates
  BY <1>2 DEF HarqStates
<1>4. BalancedFrom(b, t)
  <2> HIDE DEF b
  <2> QED
    BY <1>3, FeedbackBalances
<1>5. /\ harq' = [harq EXCEPT ![u] = t.tally]
      /\ processState' = [processState EXCEPT ![u][p] = t.state]
      /\ UNCHANGED <<now, wiring, imsi, rates, received, access>>
  BY DEF Rates!RecordNrHarqFeedback, Rates!Event, Rates!accessVars
<1>6. b.state = f[p] /\ b.tally = harq[u]
  OBVIOUS
<1> HIDE DEF b, t
<1> DEFINE g == [f EXCEPT ![p] = t.state]
<1>7. processState' = [processState EXCEPT ![u] = g]
  BY <1>5, Zenon
<1> HIDE DEF f
<1>8. t.tally \in HarqTallies /\ t.state \in {0, 2}
  BY <1>4 DEF BalancedFrom, HarqStates
<1>9. g \in [Process -> {0, 2}]
  BY <1>3, <1>8
<1>10. RateTypes'
  <2>1. harq' \in [Ue -> HarqTallies] /\ processState' \in [Ue -> [Process -> {0, 2}]]
    <3> HIDE DEF g
    <3> QED
      BY <1>2, <1>5, <1>7, <1>8, <1>9
  <2> QED
    BY <1>1, <1>5, <2>1 DEF RateTypes
<1>11. /\ Cardinality(Waiting(f)) \in Nat /\ Cardinality(Waiting(g)) \in Nat
       /\ Cardinality(Waiting(g)) + Awaited(f[p]) = Cardinality(Waiting(f)) + Awaited(t.state)
  BY <1>3, <1>8, WaitingPut
<1>12. /\ harq[u].nack = harq[u].retransmissions + Cardinality(Waiting(f))
       /\ harq[u].ack = harq[u].total
  BY <1>1, RatesCardinality DEF Rates!TalliesBalance, Waiting, f
<1>13. /\ t.tally.ack = t.tally.total
       /\ t.tally.nack + harq[u].retransmissions + Awaited(f[p]) =
            harq[u].nack + t.tally.retransmissions + Awaited(t.state)
  BY <1>4, <1>6, <1>12 DEF BalancedFrom
<1>14. t.tally.nack = t.tally.retransmissions + Cardinality(Waiting(g))
  <2> DEFINE h == harq[u]  k == t.tally  x == Awaited(f[p])  y == Awaited(t.state)
             c == Cardinality(Waiting(f))  d == Cardinality(Waiting(g))
  <2>1. h \in HarqTallies /\ k \in HarqTallies
    BY <1>2, <1>8
  <2>2. x \in Nat /\ y \in Nat
    BY DEF Awaited
  <2>3. /\ h.nack = h.retransmissions + c /\ d + x = c + y /\ c \in Nat /\ d \in Nat
        /\ k.nack + h.retransmissions + x = h.nack + k.retransmissions + y
    BY <1>11, <1>12, <1>13
  <2> HIDE DEF h, k, x, y, c, d
  <2>4. /\ h.nack \in Nat /\ h.retransmissions \in Nat /\ k.nack \in Nat
        /\ k.retransmissions \in Nat
    BY <2>1 DEF HarqTallies
  <2>5. k.nack = k.retransmissions + d
    BY <2>2, <2>3, <2>4
  <2> QED
    BY <2>5 DEF k, d
<1>15. Rates!TalliesBalance'
  <2>1. access'.attempts = access'.success + access'.poor
    BY <1>1, <1>5 DEF Rates!TalliesBalance
  <2>2. ASSUME NEW v \in Ue
        PROVE  /\ harq'[v].nack = harq'[v].retransmissions +
                    Rates!Cardinality({q \in Process : processState'[v][q] = 2})
               /\ harq'[v].ack = harq'[v].total
    <3>1. CASE v = u
      <4>1. harq'[v] = t.tally /\ processState'[v] = g
        <5> HIDE DEF g
        <5> QED
          BY <1>2, <1>5, <1>7, <3>1
      <4> HIDE DEF g
      <4>2. Rates!Cardinality({q \in Process : g[q] = 2}) = Cardinality(Waiting(g))
        BY RatesCardinality DEF Waiting
      <4> QED
        BY <1>13, <1>14, <4>1, <4>2
    <3>2. CASE v # u
      <4>1. harq'[v] = harq[v] /\ processState'[v] = processState[v]
        <5> HIDE DEF g
        <5> QED
          BY <1>2, <1>5, <1>7, <3>2
      <4> QED
        BY <1>1, <4>1 DEF Rates!TalliesBalance
    <3> QED
      BY <3>1, <3>2
  <2> QED
    BY <2>1, <2>2 DEF Rates!TalliesBalance
<1> QED
  BY <1>10, <1>15

EmptyHarq == [u \in Ue |-> Rates!EmptyTally]
IdleProcesses == [u \in Ue |-> [p \in Process |-> 0]]

LEMMA EmptyHarqBalances ==
  /\ EmptyHarq \in [Ue -> HarqTallies] /\ IdleProcesses \in [Ue -> [Process -> {0, 2}]]
  /\ \A u \in Ue :
       /\ EmptyHarq[u].nack = EmptyHarq[u].retransmissions +
            Rates!Cardinality({p \in Process : IdleProcesses[u][p] = 2})
       /\ EmptyHarq[u].ack = EmptyHarq[u].total
<1>1. /\ Rates!EmptyTally \in HarqTallies /\ Rates!EmptyTally.nack = 0
      /\ Rates!EmptyTally.retransmissions = 0
      /\ Rates!EmptyTally.ack = Rates!EmptyTally.total
  BY DEF Rates!EmptyTally, HarqTallies
<1>2. ASSUME NEW u \in Ue
      PROVE  Rates!Cardinality({p \in Process : IdleProcesses[u][p] = 2}) = 0
  <2>1. {p \in Process : IdleProcesses[u][p] = 2} = {}
    BY DEF IdleProcesses
  <2> QED
    BY <2>1, RatesCardinality, FS_EmptySet
<1> QED
  BY <1>1, <1>2 DEF EmptyHarq, IdleProcesses

LEMMA ResetHarqInv ==
  ASSUME service = "rates", RatesInv, Rates!ResetHarqStats
  PROVE  RateTypes' /\ Rates!TalliesBalance'
<1>1. RateTypes /\ Rates!TalliesBalance
  BY DEF RatesInv
<1>2. /\ harq' = EmptyHarq /\ processState' = IdleProcesses
      /\ UNCHANGED <<now, wiring, imsi, rates, received, access>>
  BY DEF Rates!ResetHarqStats, Rates!Event, Rates!accessVars, EmptyHarq, IdleProcesses
<1>3. RateTypes'
  BY <1>1, <1>2, EmptyHarqBalances DEF RateTypes
<1>4. Rates!TalliesBalance'
  BY <1>1, <1>2, EmptyHarqBalances DEF Rates!TalliesBalance
<1> QED
  BY <1>3, <1>4

(* Access: an entry is made, or found; nothing is counted.                 *)
AccessKinds == [attempts : Nat, success : Nat, poor : Nat]

LEMMA AccessCounted ==
  ASSUME access \in AccessKinds, access.attempts = access.success + access.poor
  PROVE  /\ [access EXCEPT !.attempts = @ + 1, !.success = @ + 1] \in AccessKinds
         /\ [access EXCEPT !.attempts = @ + 1, !.success = @ + 1].attempts =
              [access EXCEPT !.attempts = @ + 1, !.success = @ + 1].success +
              [access EXCEPT !.attempts = @ + 1, !.success = @ + 1].poor
         /\ [access EXCEPT !.attempts = @ + 1, !.poor = @ + 1] \in AccessKinds
         /\ [access EXCEPT !.attempts = @ + 1, !.poor = @ + 1].attempts =
              [access EXCEPT !.attempts = @ + 1, !.poor = @ + 1].success +
              [access EXCEPT !.attempts = @ + 1, !.poor = @ + 1].poor
<1> DEFINE a == [access EXCEPT !.attempts = @ + 1, !.success = @ + 1]
           b == [access EXCEPT !.attempts = @ + 1, !.poor = @ + 1]
           m == [access EXCEPT !.attempts = @ + 1]
<1>1. access.attempts \in Nat /\ access.success \in Nat /\ access.poor \in Nat
  BY DEF AccessKinds
<1>2. m = [attempts |-> access.attempts + 1, success |-> access.success, poor |-> access.poor]
  BY DEF AccessKinds
<1>3. a = [m EXCEPT !.success = @ + 1] /\ b = [m EXCEPT !.poor = @ + 1]
  BY Zenon
<1> HIDE DEF a, b, m
<1>4. a = [attempts |-> access.attempts + 1, success |-> access.success + 1, poor |-> access.poor]
  BY <1>2, <1>3
<1>5. b = [attempts |-> access.attempts + 1, success |-> access.success, poor |-> access.poor + 1]
  BY <1>2, <1>3
<1>6. a \in AccessKinds /\ a.attempts = a.success + a.poor
  BY <1>1, <1>4 DEF AccessKinds
<1>7. b \in AccessKinds /\ b.attempts = b.success + b.poor
  BY <1>1, <1>5 DEF AccessKinds
<1> QED
  BY <1>6, <1>7 DEF a, b

LEMMA RandomAccessInv ==
  ASSUME service = "rates", RatesInv, NEW u \in Ue, Rates!OnNrRandomAccessSuccess(u)
  PROVE  RateTypes' /\ RatesHeard' /\ Rates!TalliesBalance'
<1>1. RateTypes /\ RatesHeard /\ Rates!TalliesBalance
  BY DEF RatesInv
<1>2. /\ rates' = Rates!WithEntry(u, Rates!Entry(u))
      /\ \/ access' = [access EXCEPT !.attempts = @ + 1, !.success = @ + 1]
         \/ access' = [access EXCEPT !.attempts = @ + 1, !.poor = @ + 1]
      /\ UNCHANGED <<now, wiring, imsi, received, harq, processState>>
  BY DEF Rates!OnNrRandomAccessSuccess, Rates!Event, Rates!harqVars
<1> DEFINE e == Rates!Entry(u)
           t == rates'
<1>3. /\ e \in RateEntries /\ e.windowStart <= now
      /\ u \in DOMAIN rates => e = rates[u]
      /\ u \notin DOMAIN rates => e =
           [windowStart |-> now, bytes |-> 0, peak |-> 0, rx |-> 0, average |-> 0]
  BY <1>1, EntryType
<1>4. /\ t \in Tables /\ DOMAIN t = DOMAIN rates \cup {u} /\ t[u] = e
      /\ \A l \in DOMAIN rates : l # u => t[l] = rates[l]
  <2>1. rates \in Tables
    BY <1>1 DEF RateTypes
  <2> HIDE DEF e
  <2> QED
    BY <1>2, <1>3, <2>1, TableWith DEF e
<1>5. access' \in AccessKinds /\ access'.attempts = access'.success + access'.poor
  <2>1. access \in AccessKinds /\ access.attempts = access.success + access.poor
    BY <1>1 DEF RateTypes, AccessKinds, Rates!TalliesBalance
  <2>2. CASE access' = [access EXCEPT !.attempts = @ + 1, !.success = @ + 1]
    BY <2>1, <2>2, AccessCounted
  <2>3. CASE access' = [access EXCEPT !.attempts = @ + 1, !.poor = @ + 1]
    BY <2>1, <2>3, AccessCounted
  <2> QED
    BY <1>2, <2>2, <2>3
<1> HIDE DEF e, t
<1>6. RateTypes'
  <2>1. \A l \in DOMAIN t : t[l].windowStart <= now
    BY <1>1, <1>3, <1>4 DEF RateTypes
  <2> QED
    BY <1>1, <1>2, <1>4, <1>5, <2>1 DEF RateTypes, AccessKinds, t
<1>7. TableSum(rates') = SizeSum(received')
  <2>1. /\ TableSum(rates) \in Nat /\ TableSum(rates') \in Nat
        /\ TableSum(rates') + e.rx = TableSum(rates) + e.rx
    BY <1>1, <1>2, <1>3, TableSumWith DEF e
  <2>2. e.rx \in Nat
    BY <1>3, EntryOf
  <2>3. TableSum(rates') = TableSum(rates)
    BY <2>1, <2>2
  <2> QED
    BY <1>1, <1>2, <2>3 DEF RatesHeard
<1>8. wiring = "advance first" => PeaksHeard(rates', received')
  <2> SUFFICES ASSUME wiring = "advance first" PROVE PeaksHeard(t, received)
    BY <1>2 DEF t
  <2>1. PeaksHeard(rates, received)
    BY <1>1 DEF RatesHeard
  <2>2. ASSUME NEW l \in DOMAIN t PROVE PeakIsHeard(t[l], received, l)
    <3>1. CASE l \in DOMAIN rates
      <4>1. t[l] = rates[l]
        BY <1>3, <1>4, <3>1
      <4> QED
        BY <2>1, <3>1, <4>1 DEF PeaksHeard
    <3>2. CASE l \notin DOMAIN rates
      <4>1. l = u /\ t[l] = e /\ e = [windowStart |-> now, bytes |-> 0, peak |-> 0, rx |-> 0, average |-> 0]
        BY <1>3, <1>4, <3>2
      <4>2. e.bytes = 0 /\ e.peak = 0
        <5>1. e = [windowStart |-> now, bytes |-> 0, peak |-> 0, rx |-> 0, average |-> 0]
          BY <4>1
        <5> QED
          BY ONLY <5>1
      <4>3. \A i \in 1..Len(received) : received[i].ue # u
        BY <2>1, <3>2, <4>1 DEF PeaksHeard
      <4>4. received \in Seq(Pdus)
        BY <1>1 DEF RateTypes
      <4> QED
        BY <1>1, <1>3, <4>1, <4>2, <4>3, <4>4, NewIsHeard
    <3> QED
      BY <3>1, <3>2
  <2>3. \A i \in 1..Len(received) : received[i].ue \in DOMAIN t
    BY <1>4, <2>1 DEF PeaksHeard
  <2> QED
    BY <2>2, <2>3 DEF PeaksHeard
<1>9. wiring # "RecordDlDataForwarding" => PeaksPositive(rates')
  <2> SUFFICES ASSUME wiring # "RecordDlDataForwarding", NEW l \in DOMAIN t
               PROVE  t[l].peak = 0 <=> t[l].rx = 0
    BY DEF PeaksPositive, t
  <2>1. CASE l \in DOMAIN rates
    <3>1. t[l] = rates[l]
      BY <1>3, <1>4, <2>1
    <3> QED
      BY <1>1, <2>1, <3>1 DEF RatesHeard, PeaksPositive
  <2>2. CASE l \notin DOMAIN rates
    <3>1. t[l] = [windowStart |-> now, bytes |-> 0, peak |-> 0, rx |-> 0, average |-> 0]
      BY <1>3, <1>4, <2>2
    <3> QED
      BY <3>1
  <2> QED
    BY <2>1, <2>2
<1>10. Rates!TalliesBalance'
  BY <1>1, <1>2, <1>5 DEF Rates!TalliesBalance
<1> QED
  BY <1>2, <1>6, <1>7, <1>8, <1>9, <1>10 DEF RatesHeard

(* The rest touch at most the accesses.                                    *)
LEMMA OtherRatesInv ==
  ASSUME service = "rates", RatesInv,
         \/ \E u \in Ue, quality \in {"good", "poor"} : Rates!UpdateUeChannelQuality(u, quality)
         \/ \E u \in Ue : Rates!OnUdpServerRx(u)
         \/ Rates!ResetAccessStats \/ Rates!Elapse
  PROVE  RateTypes' /\ RatesHeard' /\ Rates!TalliesBalance' /\ UNCHANGED <<report, rates, wiring>>
<1>1. RateTypes /\ RatesHeard /\ Rates!TalliesBalance
  BY DEF RatesInv
<1>2. /\ UNCHANGED <<wiring, imsi, rates, received, harq, processState, report>>
      /\ now' = now \/ (now < MaxTime /\ now' = now + 1)
      /\ \/ access' = access
         \/ access' = [access EXCEPT !.attempts = @ + 1, !.success = @ + 1]
         \/ access' = Rates!EmptyAccess
  BY DEF Rates!UpdateUeChannelQuality, Rates!OnUdpServerRx, Rates!ResetAccessStats, Rates!Elapse,
         Rates!Event, Rates!harqVars, Rates!accessVars
<1>3. access' \in AccessKinds /\ access'.attempts = access'.success + access'.poor
  <2>1. access \in AccessKinds /\ access.attempts = access.success + access.poor
    BY <1>1 DEF RateTypes, AccessKinds, Rates!TalliesBalance
  <2>2. CASE access' = access
    BY <2>1, <2>2
  <2>3. CASE access' = [access EXCEPT !.attempts = @ + 1, !.success = @ + 1]
    BY <2>1, <2>3, AccessCounted
  <2>4. CASE access' = Rates!EmptyAccess
    BY <2>4 DEF Rates!EmptyAccess, AccessKinds
  <2> QED
    BY <1>2, <2>2, <2>3, <2>4
<1>4. now' \in Nat /\ now' <= MaxTime /\ now <= now'
  <2>1. now \in Nat /\ now <= MaxTime /\ MaxTime \in Nat
    BY <1>1, RatesConstants DEF RateTypes
  <2>2. now' = now \/ (now < MaxTime /\ now' = now + 1)
    BY <1>2
  <2> QED
    BY <2>1, <2>2
<1>5. \A k \in DOMAIN rates : rates[k].windowStart <= now'
  <2> SUFFICES ASSUME NEW k \in DOMAIN rates PROVE rates[k].windowStart <= now'
    OBVIOUS
  <2>1. rates[k].windowStart <= now /\ rates[k].windowStart \in Nat /\ now \in Nat
    BY <1>1, TableOf, EntryOf DEF RateTypes
  <2> QED
    BY <1>4, <2>1
<1>6. RateTypes'
  BY <1>1, <1>2, <1>3, <1>4, <1>5 DEF RateTypes, AccessKinds
<1>7. RatesHeard'
  BY <1>1, <1>2 DEF RatesHeard
<1>8. Rates!TalliesBalance'
  BY <1>1, <1>2, <1>3 DEF Rates!TalliesBalance
<1> QED
  BY <1>2, <1>6, <1>7, <1>8

-----------------------------------------------------------------------------
(* The report.                                                             *)

LEMMA LeastExists ==
  ASSUME NEW S, IsFiniteSet(S), S \subseteq Nat, NEW s \in SUBSET S, s # {}
  PROVE  \E m \in s : \A x \in s : m <= x
<1> DEFINE HasLeast(A) == \E m \in A : \A x \in A : m <= x
           T == {A \in SUBSET S : A = {} \/ HasLeast(A)}
<1>1. ASSUME NEW A \in SUBSET S, A # {}, \A x \in A : A \ {x} \in T
      PROVE  A \in T
  <2>1. PICK x \in A : A \ {x} = {} \/ HasLeast(A \ {x})
    <3> HIDE DEF HasLeast
    <3> QED
      BY <1>1
  <2>2. CASE A \ {x} = {}
    <3>1. \A y \in A : x <= y
      BY <1>1, <2>1, <2>2
    <3> QED
      BY <1>1, <2>1, <3>1
  <2>3. CASE HasLeast(A \ {x})
    <3>1. PICK m \in A \ {x} : \A y \in A \ {x} : m <= y
      BY <2>3
    <3>2. m \in Nat /\ x \in Nat /\ \A y \in A : y \in Nat
      BY <1>1, <2>1, <3>1
    <3>3. CASE m <= x
      <4>1. \A y \in A : m <= y
        BY <3>1, <3>3
      <4> QED
        BY <3>1, <4>1
    <3>4. CASE x < m
      <4>1. \A y \in A : x <= y
        BY <3>1, <3>2, <3>4
      <4> QED
        BY <2>1, <4>1
    <3> QED
      BY <3>2, <3>3, <3>4
  <2> QED
    BY <2>1, <2>2, <2>3
<1>2. {} \in T
  OBVIOUS
<1>3. SUBSET S \subseteq T
  <2> HIDE DEF T
  <2> QED
    BY <1>1, <1>2, SubsetInduction
<1> QED
  BY <1>3

(* A sum of naturals is zero when all of them are.                         *)
LEMMA SumIsZero ==
  ASSUME NEW S, IsFiniteSet(S), NEW f, \A x \in S : f[x] \in Nat
  PROVE  SumOn(f, S) = 0 <=> \A x \in S : f[x] = 0
<1>1. ASSUME SumOn(f, S) = 0, NEW x \in S PROVE f[x] = 0
  <2>1. SumOn(f, S) = SumOn(f, S \ {x}) + f[x]
    BY SumType
  <2>2. SumOn(f, S \ {x}) \in Nat
    <3> DEFINE R == S \ {x}
    <3>1. IsFiniteSet(R) /\ \A y \in R : f[y] \in Nat
      BY FS_Subset
    <3> HIDE DEF R
    <3>2. SumOn(f, R) \in Nat
      BY <3>1, SumType
    <3> QED
      BY <3>2 DEF R
  <2> QED
    BY <1>1, <2>1, <2>2
<1> QED
  BY <1>1, SumZero

(* The averages of the report are the entries' bytes; nothing else changes.*)
LEMMA UpdatedTable ==
  ASSUME rates \in Tables
  PROVE  LET t == Rates!UpdateRateStatistics IN
         /\ t \in Tables /\ DOMAIN t = DOMAIN rates
         /\ \A k \in DOMAIN rates :
              /\ t[k].windowStart = rates[k].windowStart /\ t[k].bytes = rates[k].bytes
              /\ t[k].peak = rates[k].peak /\ t[k].rx = rates[k].rx /\ t[k].average = rates[k].rx
<1> DEFINE t == Rates!UpdateRateStatistics
<1>1. DOMAIN t = DOMAIN rates /\ DOMAIN rates \subseteq Ue
  BY TableOf DEF Rates!UpdateRateStatistics
<1>2. ASSUME NEW k \in DOMAIN rates
      PROVE  /\ t[k] \in RateEntries
             /\ t[k].windowStart = rates[k].windowStart /\ t[k].bytes = rates[k].bytes
             /\ t[k].peak = rates[k].peak /\ t[k].rx = rates[k].rx /\ t[k].average = rates[k].rx
  <2> DEFINE e == rates[k]
  <2>1. t[k] = [e EXCEPT !.average = e.rx]
    BY DEF Rates!UpdateRateStatistics
  <2>2. e \in RateEntries
    BY TableOf
  <2> HIDE DEF t, e
  <2> QED
    BY <2>1, <2>2 DEF RateEntries, e
<1>3. t = [k \in DOMAIN rates |-> t[k]]
  BY DEF Rates!UpdateRateStatistics
<1> HIDE DEF t
<1>4. t \in [DOMAIN rates -> RateEntries]
  BY <1>2, <1>3
<1>5. t \in Tables
  BY <1>1, <1>4 DEF Tables
<1> QED
  BY <1>1, <1>2, <1>5 DEF t

LEMMA AverageIsThroughput ==
  ASSUME NEW t \in Tables, \A k \in DOMAIN t : t[k].average = t[k].rx
  PROVE  Rates!GetSystemAverageRate(t) = Rates!GetTotalDlRxBytes(t)
<1> DEFINE f == RxOf(t)
           g == [k \in DOMAIN t |-> IF t[k].average > 0 THEN t[k].average ELSE t[k].rx]
           D == DOMAIN t
<1>1. IsFiniteSet(D)
  BY TableOf
<1>2. \A k \in D : f[k] \in Nat /\ g[k] = f[k]
  BY TableOf, EntryOf DEF RxOf
<1> HIDE DEF f, g, D
<1>3. SumOn(g, D) = SumOn(f, D)
  BY <1>1, <1>2, SumSame
<1> QED
  BY <1>3, AverageRateIsSum, TotalRxIsSum DEF f, g, D

(* The UE named has the peak of the system, which is the peak reported.    *)
LEMMA PeakIsNamed ==
  ASSUME NEW t \in Tables, PeaksPositive(t)
  PROVE  LET k == Rates!GetPeakRateUeRnti(t) IN
         /\ (k = 0) = (Rates!GetTotalDlRxBytes(t) = 0)
         /\ k # 0 => Rates!GetPeakRateUeThroughput(t) = t[k].peak
<1> DEFINE D == DOMAIN t
           p == PeaksOf(t)
           m == Rates!GetSystemPeakRate(t)
           k == Rates!GetPeakRateUeRnti(t)
<1>1. D \subseteq Nat \ {0} /\ IsFiniteSet(D) /\ \A l \in D : t[l] \in RateEntries
  BY TableOf, RatesConstants
<1>2. \A l \in D : p[l] \in Nat /\ p[l] = t[l].peak /\ t[l].rx \in Nat
  BY <1>1, EntryOf DEF PeaksOf
<1>3. IsMost(m, p, D)
  <2>1. m = MostOn(p, D)
    BY SystemPeakIsMost
  <2>2. \A l \in D : p[l] \in Nat
    BY <1>2
  <2> HIDE DEF m, p, D
  <2> QED
    BY <1>1, <2>1, <2>2, MostOnIsMost
<1>4. m = 0 <=> \A l \in D : p[l] = 0
  <2> HIDE DEF m, p, D
  <2> QED
    BY <1>2, <1>3 DEF IsMost
<1>5. m = 0 <=> Rates!GetTotalDlRxBytes(t) = 0
  <2> DEFINE f == RxOf(t)
  <2>1. \A l \in D : f[l] = t[l].rx /\ f[l] \in Nat
    BY <1>2 DEF RxOf
  <2>2. \A l \in D : p[l] = 0 <=> f[l] = 0
    BY <1>2, <2>1 DEF PeaksPositive
  <2>3. Rates!GetTotalDlRxBytes(t) = SumOn(f, D)
    BY TotalRxIsSum
  <2> HIDE DEF m, p, D, f
  <2>4. SumOn(f, D) = 0 <=> \A l \in D : f[l] = 0
    BY <1>1, <2>1, SumIsZero
  <2> QED
    BY <1>4, <2>2, <2>3, <2>4
<1>6. Rates!GetPeakRateUeThroughput(t) = m
  <2> DEFINE g == [l \in DOMAIN t |-> IF t[l].peak > 0 THEN t[l].peak ELSE t[l].rx]
  <2>1. g = p
    <3>1. ASSUME NEW l \in DOMAIN t PROVE (IF t[l].peak > 0 THEN t[l].peak ELSE t[l].rx) = t[l].peak
      BY <1>2 DEF PeaksPositive
    <3> QED
      BY <3>1 DEF PeaksOf
  <2>2. Rates!GetPeakRateUeThroughput(t) = MostOn(g, D)
    BY UePeakIsMost
  <2>3. m = MostOn(p, D)
    BY SystemPeakIsMost
  <2> HIDE DEF g, m, p, D
  <2> QED
    BY <2>1, <2>2, <2>3
<1>7. CASE m = 0
  <2>1. k = 0
    BY <1>7 DEF Rates!GetPeakRateUeRnti
  <2> HIDE DEF k, m
  <2> QED
    BY <1>5, <1>7, <2>1 DEF k
<1>8. CASE m # 0
  <2> DEFINE Named(l) == t[l].peak = m /\ \A j \in DOMAIN t : t[j].peak = t[l].peak => l <= j
             A == {l \in D : p[l] = m}
  <2>1. k = CHOOSE l \in DOMAIN t : Named(l)
    BY <1>8 DEF Rates!GetPeakRateUeRnti
  <2>2. \E l \in DOMAIN t : Named(l)
    <3>1. A # {} /\ A \in SUBSET D
      <4> HIDE DEF m, p, D
      <4> QED
        BY <1>3, <1>8 DEF IsMost
    <3>2. PICK l \in A : \A j \in A : l <= j
      <4> HIDE DEF A, D
      <4> QED
        BY <1>1, <3>1, LeastExists
    <3>3. l \in DOMAIN t /\ t[l].peak = m
      BY <1>2, <3>2
    <3>4. ASSUME NEW j \in DOMAIN t, t[j].peak = t[l].peak PROVE l <= j
      <4>1. j \in A
        BY <1>2, <3>3, <3>4
      <4> QED
        BY <3>2, <4>1
    <3> HIDE DEF m
    <3> QED
      BY <3>3, <3>4
  <2>3. k \in DOMAIN t /\ Named(k)
    <3> HIDE DEF Named, k
    <3> QED
      BY <2>1, <2>2
  <2>4. k # 0 /\ t[k].peak = m
    <3> HIDE DEF k, m
    <3> QED
      BY <1>1, <2>3
  <2> HIDE DEF k, m
  <2> QED
    BY <1>5, <1>6, <1>8, <2>4 DEF k
<1> QED
  BY <1>7, <1>8

LEMMA HarqTotalsBalance ==
  ASSUME RateTypes, Rates!TalliesBalance
  PROVE  LET h == Rates!GetTotalHarqStatistics IN
         h.ack = h.total /\ h.nack >= h.retransmissions
<1> DEFINE h == Rates!GetTotalHarqStatistics
<1>1. CASE Rates!SumOver("total") = 0 /\ rates # <<>>
  <2> DEFINE n == 10 * MaxTime * Rates!Cardinality(DOMAIN rates)
  <2>1. h = [ack |-> 11 * n, nack |-> n, retransmissions |-> n, total |-> 11 * n]
    BY <1>1 DEF Rates!GetTotalHarqStatistics
  <2>2. n \in Nat
    <3>1. IsFiniteSet(DOMAIN rates)
      BY TableOf DEF RateTypes
    <3>2. Rates!Cardinality(DOMAIN rates) \in Nat
      BY <3>1, RatesCardinality, FS_CardinalityType
    <3> QED
      BY <3>2, RatesConstants
  <2> HIDE DEF h, n
  <2>3. h.ack = h.total /\ h.nack = n /\ h.retransmissions = n
    BY <2>1
  <2> QED
    BY <2>2, <2>3 DEF h
<1>2. CASE ~(Rates!SumOver("total") = 0 /\ rates # <<>>)
  <2> DEFINE col(field) == [u \in Ue |-> harq[u][field]]
  <2>1. h = [f \in DOMAIN Rates!EmptyTally |-> Rates!SumOver(f)]
    BY <1>2 DEF Rates!GetTotalHarqStatistics
  <2>2. DOMAIN Rates!EmptyTally = {"ack", "nack", "retransmissions", "total"}
    BY DEF Rates!EmptyTally
  <2>3. /\ h["ack"] = Rates!SumOver("ack") /\ h["total"] = Rates!SumOver("total")
        /\ h["nack"] = Rates!SumOver("nack")
        /\ h["retransmissions"] = Rates!SumOver("retransmissions")
    <3> HIDE DEF h
    <3> QED
      BY <2>1, <2>2
  <2>4. ASSUME NEW u \in Ue
        PROVE  /\ harq[u]["ack"] \in Nat /\ harq[u]["total"] = harq[u]["ack"]
               /\ harq[u]["nack"] \in Nat /\ harq[u]["retransmissions"] \in Nat
               /\ harq[u]["retransmissions"] <= harq[u]["nack"]
    <3>1. harq[u] \in HarqTallies
      BY DEF RateTypes
    <3>2. /\ harq[u].ack \in Nat /\ harq[u].nack \in Nat /\ harq[u].retransmissions \in Nat
      BY <3>1 DEF HarqTallies
    <3>3. /\ harq[u].nack = harq[u].retransmissions + Cardinality(Waiting(processState[u]))
          /\ harq[u].ack = harq[u].total
      BY RatesCardinality DEF Rates!TalliesBalance, Waiting
    <3>4. Cardinality(Waiting(processState[u])) \in Nat
      BY RatesConstants, FS_Subset, FS_CardinalityType DEF Waiting
    <3> QED
      BY <3>2, <3>3, <3>4
  <2>5. SumOn(col("total"), Ue) = SumOn(col("ack"), Ue)
    <3>1. \A u \in Ue : col("ack")[u] \in Nat /\ col("total")[u] = col("ack")[u]
      BY <2>4
    <3> HIDE DEF col
    <3> QED
      BY <3>1, RatesConstants, SumSame
  <2>6. SumOn(col("retransmissions"), Ue) <= SumOn(col("nack"), Ue)
    <3>1. \A u \in Ue : /\ col("retransmissions")[u] \in Nat /\ col("nack")[u] \in Nat
                        /\ col("retransmissions")[u] <= col("nack")[u]
      BY <2>4
    <3> HIDE DEF col
    <3> QED
      BY <3>1, RatesConstants, SumMonotone
  <2>7. SumOn(col("retransmissions"), Ue) \in Nat /\ SumOn(col("nack"), Ue) \in Nat
    <3>1. \A u \in Ue : col("retransmissions")[u] \in Nat /\ col("nack")[u] \in Nat
      BY <2>4
    <3> HIDE DEF col
    <3> QED
      BY <3>1, RatesConstants, SumType
  <2>8. ASSUME NEW field PROVE Rates!SumOver(field) = SumOn(col(field), Ue)
    BY HarqTotalIsSum
  <2> HIDE DEF h, col
  <2> QED
    BY <2>3, <2>5, <2>6, <2>7, <2>8 DEF h
<1> QED
  BY <1>1, <1>2

LEMMA ReportInv ==
  ASSUME service = "rates", RatesInv, Rates!Report
  PROVE  RateTypes' /\ RatesHeard' /\ Rates!TalliesBalance' /\ Rates!ReportAgrees'
<1>1. RateTypes /\ RatesHeard /\ Rates!TalliesBalance
  BY DEF RatesInv
<1>2. /\ rates' = Rates!UpdateRateStatistics
      /\ UNCHANGED <<now, wiring, imsi, harq, processState, access, received>>
  BY DEF Rates!Report, Rates!harqVars, Rates!accessVars
<1> DEFINE t == rates'
<1>3. /\ t \in Tables /\ DOMAIN t = DOMAIN rates
      /\ \A k \in DOMAIN rates :
           /\ t[k].windowStart = rates[k].windowStart /\ t[k].bytes = rates[k].bytes
           /\ t[k].peak = rates[k].peak /\ t[k].rx = rates[k].rx /\ t[k].average = rates[k].rx
  BY <1>1, <1>2, UpdatedTable DEF RateTypes
<1>4. rates \in Tables /\ IsFiniteSet(DOMAIN rates) /\ DOMAIN rates \subseteq Ue
  BY <1>1, TableOf DEF RateTypes
<1> HIDE DEF t
<1>5. RateTypes'
  BY <1>1, <1>2, <1>3 DEF RateTypes, t
<1>6. TableSum(rates') = SizeSum(received')
  <2> DEFINE f == RxOf(rates)  g == RxOf(t)  D == DOMAIN rates
  <2>1. \A k \in D : f[k] \in Nat /\ g[k] = f[k]
    BY <1>3, <1>4, TableOf, EntryOf DEF RxOf
  <2> HIDE DEF f, g, D
  <2>2. SumOn(g, D) = SumOn(f, D)
    BY <1>4, <2>1, SumSame DEF D
  <2> QED
    BY <1>1, <1>2, <1>3, <2>2 DEF RatesHeard, TableSum, t, f, g, D
<1>7. wiring = "advance first" => PeaksHeard(rates', received')
  BY <1>1, <1>2, <1>3 DEF RatesHeard, PeaksHeard, PeakIsHeard, t
<1>8. wiring # "RecordDlDataForwarding" => PeaksPositive(rates')
  BY <1>1, <1>3 DEF RatesHeard, PeaksPositive, t
<1>9. Rates!TalliesBalance'
  BY <1>1, <1>2 DEF Rates!TalliesBalance
<1> DEFINE h == Rates!GetTotalHarqStatistics
           r == [access |-> access, harq |-> h,
                 peakRnti |-> Rates!GetPeakRateUeRnti(rates'),
                 peak |-> Rates!GetPeakRateUeThroughput(rates'),
                 throughput |-> Rates!GetSystemTotalThroughput(rates'),
                 average |-> Rates!GetSystemAverageRate(rates'),
                 connected |-> Rates!Cardinality(DOMAIN rates')]
<1>10. report' = <<r>> /\ Head(report') = r
  BY DEF Rates!Report
<1>11. h.ack = h.total /\ h.nack >= h.retransmissions
  BY <1>1, HarqTotalsBalance
<1>12. Rates!GetSystemAverageRate(t) = Rates!GetSystemTotalThroughput(t)
  BY <1>3, AverageIsThroughput DEF Rates!GetSystemTotalThroughput
<1>13. ASSUME wiring # "RecordDlDataForwarding"
       PROVE  LET k == Rates!GetPeakRateUeRnti(t) IN
              /\ (k = 0) = (Rates!GetSystemTotalThroughput(t) = 0)
              /\ k # 0 => Rates!GetPeakRateUeThroughput(t) = t[k].peak
              /\ Rates!Cardinality(DOMAIN t) <= Rates!Cardinality(Ue)
  <2>1. PeaksPositive(t)
    BY <1>8, <1>13 DEF t
  <2>2. Rates!Cardinality(DOMAIN t) <= Rates!Cardinality(Ue)
    BY <1>3, <1>4, RatesCardinality, RatesConstants, FS_Subset
  <2> QED
    BY <1>3, <2>1, <2>2, PeakIsNamed DEF Rates!GetSystemTotalThroughput
<1>14. Rates!ReportAgrees'
  <2>1. /\ r.harq = h /\ r.peakRnti = Rates!GetPeakRateUeRnti(t)
        /\ r.peak = Rates!GetPeakRateUeThroughput(t)
        /\ r.throughput = Rates!GetSystemTotalThroughput(t)
        /\ r.average = Rates!GetSystemAverageRate(t) /\ r.connected = Rates!Cardinality(DOMAIN t)
    BY DEF t
  <2> HIDE DEF h, r
  <2>2. /\ r.average = r.throughput
        /\ wiring' # "RecordDlDataForwarding" =>
             /\ (r.peakRnti = 0) = (r.throughput = 0)
             /\ r.peakRnti # 0 => r.peak = t[r.peakRnti].peak
             /\ r.connected <= Rates!Cardinality(Ue)
        /\ r.harq.ack = r.harq.total /\ r.harq.nack >= r.harq.retransmissions
    BY <1>2, <1>11, <1>12, <1>13, <2>1
  <2> QED
    BY <1>10, <2>2 DEF Rates!ReportAgrees, t
<1> QED
  BY <1>2, <1>5, <1>6, <1>7, <1>8, <1>9, <1>14 DEF RatesHeard

LEMMA RatesNextInv ==
  ASSUME RatesInv, RateStep(Rates!Next)
  PROVE  RatesInv'
<1>0. service = "rates" /\ service' = "rates" /\ Rates!Next
  BY DEF RateStep
<1>1. RateTypes /\ RatesHeard /\ Rates!TalliesBalance /\ Rates!ReportAgrees
  BY <1>0 DEF RatesInv
<1>2. ASSUME RateTypes', RatesHeard', Rates!TalliesBalance', Rates!ReportAgrees' PROVE RatesInv'
  BY <1>2 DEF RatesInv
<1>3. ASSUME Rates!Event PROVE Rates!ReportAgrees'
  BY <1>3 DEF Rates!Event, Rates!ReportAgrees
<1>4. ASSUME NEW u \in Ue, NEW size \in Size, Rates!Receive(u, size) PROVE RatesInv'
  <2>1. RateTypes' /\ RatesHeard'
    BY <1>0, <1>4, ReceiveInv
  <2>2. Rates!TalliesBalance'
    BY <1>1, <1>4 DEF Rates!Receive, Rates!harqVars, Rates!accessVars, Rates!TalliesBalance
  <2>3. Rates!Event
    BY <1>4 DEF Rates!Receive
  <2> QED
    BY <1>2, <1>3, <2>1, <2>2, <2>3
<1>5. ASSUME NEW u \in Ue, NEW p \in Process, NEW acks \in {<<TRUE>>, <<FALSE>>, <<FALSE, TRUE>>},
             Rates!RecordNrHarqFeedback(u, p, acks)
      PROVE  RatesInv'
  <2>1. RateTypes' /\ Rates!TalliesBalance'
    BY <1>0, <1>5, FeedbackInv
  <2>2. Rates!Event /\ UNCHANGED <<wiring, rates, received>>
    BY <1>5 DEF Rates!RecordNrHarqFeedback, Rates!Event
  <2>3. RatesHeard'
    BY <1>1, <2>2 DEF RatesHeard
  <2> QED
    BY <1>2, <1>3, <2>1, <2>2, <2>3
<1>6. ASSUME Rates!ResetHarqStats PROVE RatesInv'
  <2>1. RateTypes' /\ Rates!TalliesBalance'
    BY <1>0, <1>6, ResetHarqInv
  <2>2. Rates!Event /\ UNCHANGED <<wiring, rates, received>>
    BY <1>6 DEF Rates!ResetHarqStats, Rates!Event
  <2>3. RatesHeard'
    BY <1>1, <2>2 DEF RatesHeard
  <2> QED
    BY <1>2, <1>3, <2>1, <2>2, <2>3
<1>7. ASSUME NEW u \in Ue, Rates!OnNrRandomAccessSuccess(u) PROVE RatesInv'
  <2>1. RateTypes' /\ RatesHeard' /\ Rates!TalliesBalance'
    BY <1>0, <1>7, RandomAccessInv
  <2>2. Rates!Event
    BY <1>7 DEF Rates!OnNrRandomAccessSuccess
  <2> QED
    BY <1>2, <1>3, <2>1, <2>2
<1>8. ASSUME \/ \E u \in Ue, quality \in {"good", "poor"} :
                  Rates!UpdateUeChannelQuality(u, quality)
             \/ \E u \in Ue : Rates!OnUdpServerRx(u)
             \/ Rates!ResetAccessStats \/ Rates!Elapse
      PROVE  RatesInv'
  <2>1. RateTypes' /\ RatesHeard' /\ Rates!TalliesBalance' /\ UNCHANGED <<report, rates, wiring>>
    BY <1>0, <1>8, OtherRatesInv
  <2>2. Rates!ReportAgrees'
    BY <1>1, <2>1 DEF Rates!ReportAgrees
  <2> QED
    BY <1>2, <2>1, <2>2
<1>9. ASSUME Rates!Report PROVE RatesInv'
  BY <1>0, <1>2, <1>9, ReportInv
<1> QED
  BY <1>0, <1>4, <1>5, <1>6, <1>7, <1>8, <1>9 DEF Rates!Next

LEMMA RatesInitInv ==
  ASSUME TrafficInit
  PROVE  RatesInv
<1> SUFFICES ASSUME service = "rates"
             PROVE  RateTypes /\ RatesHeard /\ Rates!TalliesBalance /\ Rates!ReportAgrees
  BY DEF RatesInv
<1>1. Rates!Init
  BY DEF TrafficInit
<1>2. /\ now = 0 /\ rates = <<>> /\ received = <<>> /\ report = <<>>
      /\ wiring \in {"advance first", "RecordDlRxPdu", "RecordDlDataForwarding"}
      /\ imsi \in [Ue -> Ue] /\ access = Rates!EmptyAccess
      /\ harq = EmptyHarq /\ processState = IdleProcesses
  BY <1>1 DEF Rates!Init, EmptyHarq, IdleProcesses
<1>3. access \in AccessKinds /\ access.attempts = access.success + access.poor
  <2>1. /\ Rates!EmptyAccess \in AccessKinds
        /\ Rates!EmptyAccess.attempts = Rates!EmptyAccess.success + Rates!EmptyAccess.poor
    BY ONLY DEF Rates!EmptyAccess, AccessKinds
  <2>2. access = Rates!EmptyAccess
    BY <1>2
  <2> QED
    BY ONLY <2>1, <2>2
<1>4. DOMAIN rates = {} /\ rates \in Tables
  <2>0. rates = <<>>
    BY <1>2
  <2>1. DOMAIN rates = {} /\ rates \in [{} -> RateEntries]
    BY ONLY <2>0
  <2> QED
    BY <2>1 DEF Tables
<1>5. Len(received) = 0 /\ 1..Len(received) = {} /\ received \in Seq(Pdus)
  <2>1. received = <<>>
    BY <1>2
  <2> QED
    BY ONLY <2>1
<1>6. RateTypes
  <2>1. now \in Nat /\ now <= MaxTime
    <3>1. now = 0
      BY <1>2
    <3>2. MaxTime \in Nat
      BY RatesConstants
    <3> QED
      BY ONLY <3>1, <3>2
  <2>2. \A k \in DOMAIN rates : rates[k].windowStart <= now
    BY <1>4
  <2>3. harq \in [Ue -> HarqTallies] /\ processState \in [Ue -> [Process -> {0, 2}]]
    BY <1>2, EmptyHarqBalances
  <2> QED
    BY <1>2, <1>3, <1>4, <1>5, <2>1, <2>2, <2>3 DEF RateTypes, AccessKinds
<1>7. TableSum(rates) = SizeSum(received)
  BY <1>4, <1>5, SumEmpty DEF TableSum, SizeSum
<1>8. RatesHeard
  BY <1>4, <1>5, <1>7 DEF RatesHeard, PeaksHeard, PeaksPositive
<1>9. Rates!TalliesBalance
  BY <1>2, <1>3, EmptyHarqBalances DEF Rates!TalliesBalance
<1>10. Rates!ReportAgrees
  BY <1>2 DEF Rates!ReportAgrees
<1> QED
  BY <1>6, <1>8, <1>9, <1>10

LEMMA RatesInvImplies ==
  ASSUME RatesInv, service = "rates"
  PROVE  Rates!RatesAreReal
<1>1. RateTypes /\ RatesHeard /\ Rates!TalliesBalance /\ Rates!ReportAgrees
  BY DEF RatesInv
<1>2. received \in Seq(Pdus) /\ rates \in Tables
  BY <1>1 DEF RateTypes
<1>3. Rates!BytesAreCounted
  <2>1. Rates!GetTotalDlRxBytes(rates) = TableSum(rates)
    BY TotalRxIsSum DEF TableSum
  <2>2. Rates!FoldLeft(LAMBDA n, r : n + r.size, 0, received) = SizeSum(received)
    BY <1>2, ReceivedIsSum DEF SizeSum
  <2> QED
    BY <1>1, <2>1, <2>2 DEF Rates!BytesAreCounted, RatesHeard
<1>4. Rates!PeakIsOfAWindow
  <2> SUFFICES ASSUME wiring = "advance first", NEW u \in DOMAIN rates
               PROVE  LET start == rates[u].windowStart IN
                      rates[u].peak = Rates!FoldLeft(LAMBDA m, r : Rates!Larger(m, IF r.ue = u
                          THEN Rates!Bytes(u, start, Rates!Window(start, r.time)) ELSE 0),
                        0, received)
    BY Zenon DEF Rates!PeakIsOfAWindow
  <2>1. PeakIsHeard(rates[u], received, u)
    BY <1>1 DEF RatesHeard, PeaksHeard
  <2>2. IsMost(rates[u].peak, HeardWith(received, u, rates[u].windowStart), 1..Len(received))
    BY <2>1 DEF PeakIsHeard
  <2> QED
    BY <1>2, <2>2, PeakIsMostHeard
<1> QED
  BY <1>1, <1>3, <1>4 DEF Rates!RatesAreReal

-----------------------------------------------------------------------------
(* The generator's accounts.                                               *)

Kinds == Accounts!Service

LEMMA AccountsConstants ==
  /\ Payload \subseteq Nat \ {0} /\ RtpHeader \in Nat /\ IpHeader \in Nat
  /\ Second \in Nat \ {0} /\ AccountTime \in Nat \ {0} /\ RateUnit \in Nat \ {0}
  /\ IsFiniteSet(Node) /\ IsFiniteSet(Kinds)
  /\ "total" \notin Kinds /\ Accounts!Account = {"total"} \cup Kinds
  /\ Kinds = Tcp \cup Voip \cup Udp /\ Tcp \cap Voip = {}
BY TrafficAssumption DEF Accounts!TrafficAccountsAssumption, Accounts!IsFiniteSet, IsFiniteSet,
   Kinds, Accounts!Service, Accounts!Account

-----------------------------------------------------------------------------
(* Its folds.                                                              *)

(* A sum does not depend on what its terms are called.                     *)
LEMMA SumReindex ==
  ASSUME NEW S, IsFiniteSet(S), NEW R, IsFiniteSet(R), NEW h \in [S -> R],
         \A x, y \in S : h[x] = h[y] => x = y,
         NEW f, \A r \in R : f[r] \in Nat, NEW g, \A x \in S : g[x] = f[h[x]]
  PROVE  SumOn(g, S) = SumOn(f, {h[x] : x \in S})
<1> DEFINE Image(A) == {h[x] : x \in A}
           T == {A \in SUBSET S : SumOn(g, A) = SumOn(f, Image(A))}
<1>1. {} \in T
  <2>1. Image({}) = {}
    OBVIOUS
  <2> HIDE DEF Image
  <2> QED
    BY <2>1, SumEmpty
<1>2. ASSUME NEW A \in SUBSET S, A # {}, \A x \in A : A \ {x} \in T
      PROVE  A \in T
  <2>1. PICK x \in A : SumOn(g, A \ {x}) = SumOn(f, Image(A \ {x}))
    <3> HIDE DEF Image
    <3> QED
      BY <1>2
  <2> DEFINE B == Image(A)
  <2>2. IsFiniteSet(A) /\ B \subseteq R /\ IsFiniteSet(B)
    <3>1. B \subseteq R
      OBVIOUS
    <3> HIDE DEF B
    <3> QED
      BY <3>1, FS_Subset
  <2>3. Image(A \ {x}) = B \ {h[x]} /\ h[x] \in B
    OBVIOUS
  <2>4. SumOn(g, A) = SumOn(g, A \ {x}) + g[x]
    <3>1. \A y \in A : g[y] \in Nat
      OBVIOUS
    <3> HIDE DEF B, Image
    <3> QED
      BY <2>2, <3>1, SumType
  <2>5. SumOn(f, B) = SumOn(f, B \ {h[x]}) + f[h[x]]
    <3> HIDE DEF B, Image
    <3> QED
      BY <2>2, <2>3, SumType
  <2>6. g[x] = f[h[x]]
    OBVIOUS
  <2> HIDE DEF Image
  <2> QED
    BY <2>1, <2>3, <2>4, <2>5, <2>6
<1>3. SUBSET S \subseteq T
  <2> HIDE DEF T
  <2> QED
    BY <1>1, <1>2, SubsetInduction
<1> HIDE DEF T
<1>4. S \in T
  BY <1>3
<1> QED
  BY <1>4 DEF T

(* A term is taken out of a sequence.                                      *)
LEMMA SumRemove ==
  ASSUME NEW n \in Nat, NEW i \in 1..n, NEW f, \A j \in 1..n : f[j] \in Nat, NEW g,
         \A j \in 1..(n - 1) : g[j] = (IF j < i THEN f[j] ELSE f[j + 1])
  PROVE  SumOn(g, 1..(n - 1)) + f[i] = SumOn(f, 1..n)
<1> DEFINE S == 1..(n - 1)
           R == 1..n
           h == [j \in S |-> IF j < i THEN j ELSE j + 1]
<1>1. IsFiniteSet(S) /\ IsFiniteSet(R)
  BY FS_Interval
<1>2. h \in [S -> R] /\ \A x, y \in S : h[x] = h[y] => x = y
  OBVIOUS
<1>3. \A x \in S : g[x] = f[h[x]]
  OBVIOUS
<1>4. {h[x] : x \in S} = R \ {i}
  <2>1. \A x \in S : h[x] \in R \ {i}
    OBVIOUS
  <2>2. ASSUME NEW r \in R \ {i} PROVE \E x \in S : h[x] = r
    <3>1. CASE r < i
      <4>1. r \in S /\ h[r] = r
        BY <3>1
      <4> QED
        BY <4>1
    <3>2. CASE r > i
      <4>1. r - 1 \in S /\ h[r - 1] = r
        BY <3>2
      <4> QED
        BY <4>1
    <3> QED
      BY <3>1, <3>2
  <2> HIDE DEF h, S, R
  <2> QED
    BY <2>1, <2>2
<1>r. \A r \in R : f[r] \in Nat
  OBVIOUS
<1> HIDE DEF h, S, R
<1>5. SumOn(g, S) = SumOn(f, R \ {i})
  <2>1. SumOn(g, S) = SumOn(f, {h[x] : x \in S})
    BY <1>1, <1>2, <1>3, <1>r, SumReindex
  <2> QED
    BY <1>4, <2>1
<1>6. SumOn(f, R) = SumOn(f, R \ {i}) + f[i]
  BY <1>1, SumType DEF R
<1> QED
  BY <1>5, <1>6 DEF S, R

LEMMA KindsSum ==
  ASSUME NEW field
  PROVE  Accounts!SumOf(Accounts!Service, LAMBDA s : Accounts!GetStats(s)[field]) =
           SumOn([s \in Kinds |-> book[s][field]], Kinds)
BY DEF Accounts!SumOf, Accounts!FoldSet, Accounts!MapThenFoldSet, Accounts!GetStats, SumOn,
       SumStep, Kinds

LEMMA NodesReceivedSum ==
  ASSUME NEW s
  PROVE  Accounts!SumOf(Node, LAMBDA n : Accounts!GetNodeReceivedBytes(n, s)) =
           SumOn([n \in Node |-> rxBytes[s, n]], Node)
BY DEF Accounts!SumOf, Accounts!FoldSet, Accounts!MapThenFoldSet,
       Accounts!GetNodeReceivedBytes, SumOn, SumStep

LEMMA NodesSentSum ==
  ASSUME NEW s
  PROVE  Accounts!SumOf(Node, LAMBDA n : Accounts!Bytes(s, n, 0, AccountTime + 1)) =
           SumOn([n \in Node |-> Accounts!Bytes(s, n, 0, AccountTime + 1)], Node)
BY DEF Accounts!SumOf, Accounts!FoldSet, Accounts!MapThenFoldSet, SumOn, SumStep

LEMMA UserPeaksMost ==
  ASSUME NEW a
  PROVE  Accounts!FoldSet(LAMBDA n, m : Accounts!Larger(m, Accounts!GetStats(a).userPeak[n]), 0, Node) =
           MostOn([n \in Node |-> book[a].userPeak[n]], Node)
BY DEF Accounts!FoldSet, Accounts!MapThenFoldSet, Accounts!GetStats, Accounts!Larger, MostOn,
       MostStep, Higher

(* What was sent, by account, source and interval, in a log.               *)
Sendings == [time : Nat, service : Kinds, node : Node, useful : Nat]

IsOf(e, a, n) == a \in {"total", e.service} /\ e.node = n

InLog(l, a, n, from, to) ==
  [i \in DOMAIN l |-> IF IsOf(l[i], a, n) /\ from <= l[i].time /\ l[i].time < to
                      THEN l[i].useful ELSE 0]
SentIn(l, a, n, from, to) == SumOn(InLog(l, a, n, from, to), 1..Len(l))

AccountsSumStep(f, it, s) == IF s = {} THEN 0 ELSE it[s \ {Accounts!Max(s)}] + f[Accounts!Max(s)]
AccountsSumUpTo(f, S) == LET it[s \in SUBSET S] == AccountsSumStep(f, it, s) IN it[S]

LEMMA AccountsFolds ==
  ASSUME NEW f, NEW S
  PROVE  AccountsSumUpTo(f, S) = SumUpTo(f, S)
BY DEF AccountsSumUpTo, AccountsSumStep, SumUpTo, TopSumStep, Top, Accounts!Max

LEMMA LogIndices ==
  ASSUME NEW l \in Seq(Sendings)
  PROVE  /\ Len(l) \in Nat /\ DOMAIN l = 1..Len(l) /\ IsFiniteSet(1..Len(l))
         /\ \A i \in 1..Len(l) : l[i] \in Sendings /\ l[i].time \in Nat /\ l[i].useful \in Nat
                                 /\ l[i].service \in Kinds /\ l[i].node \in Node
         /\ \A A \in SUBSET DOMAIN l : A # {} => Accounts!Max(A) \in A
<1>1. Len(l) \in Nat /\ DOMAIN l = 1..Len(l)
  OBVIOUS
<1>2. ASSUME NEW A \in SUBSET (1..Len(l)), A # {} PROVE Top(A) \in A
  BY <1>1, <1>2, TopType
<1>3. ASSUME NEW A PROVE Accounts!Max(A) = Top(A)
  BY DEF Accounts!Max, Top
<1>4. ASSUME NEW i \in 1..Len(l)
      PROVE  l[i] \in Sendings /\ l[i].time \in Nat /\ l[i].useful \in Nat
             /\ l[i].service \in Kinds /\ l[i].node \in Node
  <2>1. l[i] \in Sendings
    OBVIOUS
  <2> QED
    BY <2>1 DEF Sendings
<1>5. IsFiniteSet(1..Len(l))
  BY <1>1, FS_Interval
<1> QED
  BY <1>1, <1>2, <1>3, <1>4, <1>5

LEMMA BytesIsSent ==
  ASSUME log \in Seq(Sendings), NEW a, NEW n, NEW from, NEW to
  PROVE  Accounts!Bytes(a, n, from, to) = SentIn(log, a, n, from, to)
<1> DEFINE f == InLog(log, a, n, from, to)
<1>1. Accounts!Bytes(a, n, from, to) = AccountsSumUpTo(f, DOMAIN log)
  BY LogIndices DEF Accounts!Bytes, Accounts!FoldLeft, Accounts!MapThenFoldSet, AccountsSumUpTo,
                    AccountsSumStep, InLog, IsOf
<1>2. ASSUME NEW i \in 1..Len(log) PROVE f[i] \in Nat
  BY LogIndices DEF InLog
<1> HIDE DEF f
<1> QED
  BY <1>1, <1>2, LogIndices, AccountsFolds, SumUpToIsSum DEF SentIn, f

LEMMA SentType ==
  ASSUME NEW l \in Seq(Sendings), NEW a, NEW n, NEW from, NEW to
  PROVE  SentIn(l, a, n, from, to) \in Nat
<1> DEFINE f == InLog(l, a, n, from, to)
<1>1. \A i \in 1..Len(l) : f[i] \in Nat
  BY LogIndices DEF InLog
<1> HIDE DEF f
<1>2. SumOn(f, 1..Len(l)) \in Nat
  BY <1>1, LogIndices, SumType
<1> QED
  BY <1>2 DEF SentIn, f

(* Intervals that hold the same of a log have the same bytes.              *)
LEMMA SentSame ==
  ASSUME NEW l \in Seq(Sendings), NEW a, NEW n, NEW from, NEW to, NEW from2, NEW to2,
         \A i \in 1..Len(l) : IsOf(l[i], a, n) =>
           ((from <= l[i].time /\ l[i].time < to) <=> (from2 <= l[i].time /\ l[i].time < to2))
  PROVE  SentIn(l, a, n, from2, to2) = SentIn(l, a, n, from, to)
<1> DEFINE f == InLog(l, a, n, from, to)
           g == InLog(l, a, n, from2, to2)
<1>1. \A i \in 1..Len(l) : f[i] \in Nat /\ g[i] = f[i]
  BY LogIndices DEF InLog
<1> HIDE DEF f, g
<1>2. SumOn(g, 1..Len(l)) = SumOn(f, 1..Len(l))
  BY <1>1, LogIndices, SumSame
<1> QED
  BY <1>2 DEF SentIn, f, g

LEMMA SentNothing ==
  ASSUME NEW l \in Seq(Sendings), NEW a, NEW n, NEW from, NEW to,
         \A i \in 1..Len(l) : IsOf(l[i], a, n) => ~(from <= l[i].time /\ l[i].time < to)
  PROVE  SentIn(l, a, n, from, to) = 0
<1> DEFINE f == InLog(l, a, n, from, to)
<1>1. \A i \in 1..Len(l) : f[i] = 0
  BY LogIndices DEF InLog
<1> HIDE DEF f
<1>2. SumOn(f, 1..Len(l)) = 0
  BY <1>1, LogIndices, SumZero
<1> QED
  BY <1>2 DEF SentIn, f

LEMMA SentAppend ==
  ASSUME NEW l \in Seq(Sendings), NEW e \in Sendings, NEW a, NEW n, NEW from, NEW to
  PROVE  SentIn(Append(l, e), a, n, from, to) =
           SentIn(l, a, n, from, to) +
           (IF IsOf(e, a, n) /\ from <= e.time /\ e.time < to THEN e.useful ELSE 0)
<1> DEFINE t == Append(l, e)
           k == Len(l)
           f == InLog(l, a, n, from, to)
           g == InLog(t, a, n, from, to)
           x == IF IsOf(e, a, n) /\ from <= e.time /\ e.time < to THEN e.useful ELSE 0
<1>1. /\ k \in Nat /\ Len(t) = k + 1 /\ DOMAIN t = 1..(k + 1) /\ DOMAIN l = 1..k
      /\ t[k + 1] = e /\ \A i \in 1..k : t[i] = l[i]
  OBVIOUS
<1>2. e.useful \in Nat
  BY DEF Sendings
<1>3. \A i \in 1..k : l[i].useful \in Nat
  BY LogIndices
<1> HIDE DEF t, k
<1>4. \A i \in 1..k : f[i] \in Nat /\ g[i] = f[i]
  BY <1>1, <1>3 DEF InLog
<1>5. g[k + 1] = x /\ x \in Nat
  BY <1>1, <1>2 DEF InLog
<1> HIDE DEF f, g, x
<1>6. SumOn(g, 1..(k + 1)) = SumOn(f, 1..k) + g[k + 1]
  BY <1>1, <1>4, <1>5, SumAppend
<1> QED
  BY <1>1, <1>5, <1>6 DEF SentIn, f, g, x, k, t

-----------------------------------------------------------------------------
(* What AccountTx does to the books and the windows.                      *)

OnceBooks(s, n, wire, useful, books, tables) ==
  [a \in Accounts!Account |->
     IF a \in {"total", s}
     THEN Accounts!WithPeak(Accounts!UpdateTxStats(books[a], wire, useful), n, tables[a, n])
     ELSE books[a]]
OnceWindows(s, n, useful, tables) ==
  [k \in Accounts!Account \X Node |->
     IF k \in {<<"total", n>>, <<s, n>>} THEN Accounts!NextWindow(tables[k], useful) ELSE tables[k]]

AccountedOnce(s, n, wire, useful, b) ==
  [books |-> OnceBooks(s, n, wire, useful, b.books, b.windows),
   windows |-> OnceWindows(s, n, useful, b.windows)]
AccountedStep(s, n, wire, useful, base, it, S) ==
  IF S = {} THEN base ELSE AccountedOnce(s, n, wire, useful, it[S \ {Accounts!Max(S)}])
Accounted(s, n, wire, useful, base, D) ==
  LET it[S \in SUBSET D] == AccountedStep(s, n, wire, useful, base, it, S) IN it[D]

LEMMA AccountTxIsFold ==
  ASSUME NEW s, NEW n, NEW wire, NEW useful, NEW times \in {0, 1},
         Accounts!AccountTx(s, n, wire, useful, times)
  PROVE  LET after == Accounted(s, n, wire, useful, [books |-> book, windows |-> window], 1..times)
         IN  book' = after.books /\ window' = after.windows
<1>1. DOMAIN [i \in 1..times |-> i] = 1..times
  OBVIOUS
<1> QED
  BY <1>1 DEF Accounts!AccountTx, Accounts!FoldLeft, Accounts!MapThenFoldSet, Accounted,
              AccountedStep, AccountedOnce, OnceBooks, OnceWindows

Solves(it, s, n, wire, useful, base, D) ==
  /\ it = [S \in SUBSET D |-> it[S]]
  /\ \A S \in SUBSET D : it[S] = AccountedStep(s, n, wire, useful, base, it, S)

LEMMA AccountedSolves ==
  ASSUME NEW s, NEW n, NEW wire, NEW useful, NEW base, NEW D, NEW it,
         Solves(it, s, n, wire, useful, base, D)
  PROVE  \E g : /\ Solves(g, s, n, wire, useful, base, D)
                /\ Accounted(s, n, wire, useful, base, D) = g[D]
<1> DEFINE Eq(g) == g = [S \in SUBSET D |-> AccountedStep(s, n, wire, useful, base, g, S)]
           g == CHOOSE g : Eq(g)
<1>1. Eq(it)
  BY DEF Solves
<1>2. Eq(g)
  <2> HIDE DEF Eq
  <2> QED
    BY <1>1
<1>3. Accounted(s, n, wire, useful, base, D) = g[D]
  BY DEF Accounted
<1>4. Solves(g, s, n, wire, useful, base, D)
  <2> HIDE DEF g
  <2> QED
    BY <1>2 DEF Solves
<1> QED
  BY <1>3, <1>4

LEMMA AccountedNever ==
  ASSUME NEW s, NEW n, NEW wire, NEW useful, NEW base
  PROVE  Accounted(s, n, wire, useful, base, {}) = base
<1> DEFINE it == [S \in SUBSET {} |-> base]
           D == {}
<1>1. it = [S \in SUBSET D |-> it[S]]
  OBVIOUS
<1>2. \A S \in SUBSET D : it[S] = AccountedStep(s, n, wire, useful, base, it, S)
  BY DEF AccountedStep
<1>0. D \in SUBSET D /\ D = {}
  OBVIOUS
<1> HIDE DEF it, D
<1>3. PICK g : /\ Solves(g, s, n, wire, useful, base, D)
               /\ Accounted(s, n, wire, useful, base, D) = g[D]
  <2>1. Solves(it, s, n, wire, useful, base, D)
    BY <1>1, <1>2 DEF Solves
  <2> QED
    BY <2>1, AccountedSolves
<1>4. g[D] = base
  BY <1>3, <1>0 DEF Solves, AccountedStep
<1> QED
  BY <1>3, <1>4, <1>0

LEMMA AccountedOfOne ==
  ASSUME NEW s, NEW n, NEW wire, NEW useful, NEW base
  PROVE  Accounted(s, n, wire, useful, base, {1}) = AccountedOnce(s, n, wire, useful, base)
<1> DEFINE one == AccountedOnce(s, n, wire, useful, base)
           it == [S \in SUBSET {1} |-> IF S = {} THEN base ELSE one]
           D == {1}
<1>m. {1} \ {Accounts!Max({1})} = {}
  <2>1. Accounts!Max({1}) = 1
    BY DEF Accounts!Max
  <2> QED
    BY <2>1
<1>1. it = [S \in SUBSET D |-> it[S]]
  OBVIOUS
<1>2. \A S \in SUBSET D : it[S] = AccountedStep(s, n, wire, useful, base, it, S)
  <2> SUFFICES ASSUME NEW S \in SUBSET {1}
               PROVE  it[S] = AccountedStep(s, n, wire, useful, base, it, S)
    BY Zenon
  <2>1. S = {} \/ S = {1}
    OBVIOUS
  <2>2. it[{}] = base /\ it[{1}] = one
    OBVIOUS
  <2> HIDE DEF it
  <2> QED
    BY <1>m, <2>1, <2>2 DEF AccountedStep
<1>0. {} \in SUBSET D /\ D \in SUBSET D /\ D \ {Accounts!Max(D)} = {} /\ D # {}
  BY <1>m
<1> HIDE DEF it, D
<1>3. PICK g : /\ Solves(g, s, n, wire, useful, base, D)
               /\ Accounted(s, n, wire, useful, base, D) = g[D]
  <2>1. Solves(it, s, n, wire, useful, base, D)
    BY <1>1, <1>2 DEF Solves
  <2> QED
    BY <2>1, AccountedSolves
<1>4. g[{}] = base
  BY <1>3, <1>0 DEF Solves, AccountedStep
<1>5. g[D] = AccountedOnce(s, n, wire, useful, base)
  BY <1>3, <1>4, <1>0 DEF Solves, AccountedStep
<1> QED
  BY <1>3, <1>5 DEF D

LEMMA AccountTxNever ==
  ASSUME NEW s, NEW n, NEW wire, NEW useful, Accounts!AccountTx(s, n, wire, useful, 0)
  PROVE  book' = book /\ window' = window
<1> DEFINE base == [books |-> book, windows |-> window]
<1>1. LET after == Accounted(s, n, wire, useful, base, 1..0)
      IN  book' = after.books /\ window' = after.windows
  BY AccountTxIsFold
<1>2. 1..0 = {}
  OBVIOUS
<1>3. Accounted(s, n, wire, useful, base, {}) = base
  BY AccountedNever
<1> QED
  BY <1>1, <1>2, <1>3

LEMMA AccountTxOnce ==
  ASSUME NEW s, NEW n, NEW wire, NEW useful, Accounts!AccountTx(s, n, wire, useful, 1)
  PROVE  /\ book' = OnceBooks(s, n, wire, useful, book, window)
         /\ window' = OnceWindows(s, n, useful, window)
<1> DEFINE base == [books |-> book, windows |-> window]
<1>1. LET after == Accounted(s, n, wire, useful, base, 1..1)
      IN  book' = after.books /\ window' = after.windows
  BY AccountTxIsFold
<1>2. 1..1 = {1}
  OBVIOUS
<1>3. Accounted(s, n, wire, useful, base, {1}) = AccountedOnce(s, n, wire, useful, base)
  BY AccountedOfOne
<1>4. base.books = book /\ base.windows = window
  OBVIOUS
<1> HIDE DEF base
<1> QED
  BY <1>1, <1>2, <1>3, <1>4 DEF AccountedOnce

-----------------------------------------------------------------------------
(* What one sending does to one account and its window.                    *)

AccountRecords ==
  [generated : Nat, sent : Nat, packets : Nat, blocked : Nat, delivered : Nat,
   user : [Node -> Nat], userPeak : [Node -> Nat], peak : Nat]
WindowRecords == [start : Nat, bytes : Nat, peak : Nat]

Books == [Accounts!Account -> AccountRecords]
WindowTables == [Accounts!Account \X Node -> WindowRecords]

LEMMA AccountFields ==
  ASSUME NEW x \in AccountRecords
  PROVE  /\ x.generated \in Nat /\ x.sent \in Nat /\ x.packets \in Nat /\ x.blocked \in Nat
         /\ x.delivered \in Nat /\ x.user \in [Node -> Nat] /\ x.userPeak \in [Node -> Nat]
         /\ x.peak \in Nat
         /\ x = [generated |-> x.generated, sent |-> x.sent, packets |-> x.packets,
                 blocked |-> x.blocked, delivered |-> x.delivered, user |-> x.user,
                 userPeak |-> x.userPeak, peak |-> x.peak]
BY DEF AccountRecords

LEMMA WindowFields ==
  ASSUME NEW w \in WindowRecords
  PROVE  /\ w.start \in Nat /\ w.bytes \in Nat /\ w.peak \in Nat
         /\ w = [start |-> w.start, bytes |-> w.bytes, peak |-> w.peak]
BY DEF WindowRecords

LEMMA HigherRate ==
  ASSUME NEW a \in Nat, NEW b \in Nat
  PROVE  Accounts!Larger(a, b) \in Nat /\ Accounts!Larger(a, b) >= a /\ Accounts!Larger(a, b) >= b
         /\ (Accounts!Larger(a, b) = a \/ Accounts!Larger(a, b) = b)
BY DEF Accounts!Larger

LEMMA QuotientType ==
  ASSUME NEW d \in Nat, NEW w \in Nat \ {0}
  PROVE  d \div w \in Nat
OBVIOUS

LEMMA RateType ==
  ASSUME NEW bytes \in Nat, NEW ticks \in Nat \ {0}
  PROVE  Accounts!Rate(bytes, ticks) \in Nat
<1> DEFINE d == bytes * RateUnit
<1>1. d \in Nat
  BY AccountsConstants
<1> HIDE DEF d
<1>2. d \div ticks \in Nat
  BY <1>1, QuotientType
<1> QED
  BY <1>2 DEF Accounts!Rate, d

LEMMA UpdatedFields ==
  ASSUME NEW x \in AccountRecords, NEW wire \in Nat, NEW useful \in Nat
  PROVE  Accounts!UpdateTxStats(x, wire, useful) =
           [generated |-> x.generated + useful, sent |-> x.sent + wire, packets |-> x.packets + 1,
            blocked |-> x.blocked, delivered |-> x.delivered, user |-> x.user,
            userPeak |-> x.userPeak, peak |-> x.peak]
<1> DEFINE m1 == [x EXCEPT !.generated = x.generated + useful]
           m2 == [m1 EXCEPT !.sent = x.sent + wire]
           m3 == [m2 EXCEPT !.packets = x.packets + 1]
<1>1. m1 = [generated |-> x.generated + useful, sent |-> x.sent, packets |-> x.packets,
            blocked |-> x.blocked, delivered |-> x.delivered, user |-> x.user,
            userPeak |-> x.userPeak, peak |-> x.peak]
  BY DEF AccountRecords
<1> HIDE DEF m1
<1>2. m2 = [generated |-> x.generated + useful, sent |-> x.sent + wire, packets |-> x.packets,
            blocked |-> x.blocked, delivered |-> x.delivered, user |-> x.user,
            userPeak |-> x.userPeak, peak |-> x.peak]
  BY <1>1
<1> HIDE DEF m2
<1>3. m3 = [generated |-> x.generated + useful, sent |-> x.sent + wire,
            packets |-> x.packets + 1, blocked |-> x.blocked, delivered |-> x.delivered,
            user |-> x.user, userPeak |-> x.userPeak, peak |-> x.peak]
  BY <1>2
<1>4. Accounts!UpdateTxStats(x, wire, useful) = m3
  <2>1. m1.sent = x.sent /\ m2.packets = x.packets
    BY <1>1, <1>2
  <2> QED
    BY <2>1, Zenon DEF Accounts!UpdateTxStats, m1, m2
<1> QED
  BY <1>3, <1>4

(* The sum, of bytes and of packets, and the rest of an account.           *)
SentOnce(x, r, wire, useful) ==
  /\ r \in AccountRecords
  /\ r.generated = x.generated + useful /\ r.sent = x.sent + wire /\ r.packets = x.packets + 1
  /\ r.blocked = x.blocked /\ r.delivered = x.delivered /\ r.user = x.user

LEMMA NotOverFields ==
  ASSUME NEW x \in AccountRecords, NEW w \in WindowRecords, NEW n \in Node,
         NEW wire \in Nat, NEW useful \in Nat, now \in Nat \ {0}, ~Accounts!IsOver(w)
  PROVE  LET r == Accounts!WithPeak(Accounts!UpdateTxStats(x, wire, useful), n, w)
             v == Accounts!NextWindow(w, useful) IN
         /\ SentOnce(x, r, wire, useful) /\ r.userPeak = x.userPeak /\ r.peak = x.peak
         /\ v \in WindowRecords /\ v.start = (IF w.start = 0 THEN now ELSE w.start)
         /\ v.bytes = w.bytes + useful /\ v.peak = w.peak
<1> DEFINE r == Accounts!WithPeak(Accounts!UpdateTxStats(x, wire, useful), n, w)
           v == Accounts!NextWindow(w, useful)
           start == IF w.start = 0 THEN now ELSE w.start
<1>1. r = [generated |-> x.generated + useful, sent |-> x.sent + wire,
           packets |-> x.packets + 1, blocked |-> x.blocked, delivered |-> x.delivered,
           user |-> x.user, userPeak |-> x.userPeak, peak |-> x.peak]
  BY UpdatedFields DEF Accounts!WithPeak
<1>2. v = [start |-> start, bytes |-> w.bytes + useful, peak |-> w.peak]
  <2> DEFINE m == [w EXCEPT !.start = start]
  <2>1. m = [start |-> start, bytes |-> w.bytes, peak |-> w.peak]
    BY DEF WindowRecords
  <2>2. v = [m EXCEPT !.bytes = @ + useful]
    BY Zenon DEF Accounts!NextWindow
  <2> HIDE DEF m, v, start
  <2> QED
    BY <2>1, <2>2
<1>3. start \in Nat /\ w.bytes + useful \in Nat /\ w.peak \in Nat
  BY WindowFields
<1> HIDE DEF r, v, start
<1>4. v \in WindowRecords /\ v.start = start /\ v.bytes = w.bytes + useful /\ v.peak = w.peak
  BY <1>2, <1>3 DEF WindowRecords
<1>5. r \in AccountRecords
  <2>1. /\ x.generated + useful \in Nat /\ x.sent + wire \in Nat /\ x.packets + 1 \in Nat
        /\ x.blocked \in Nat
        /\ x.delivered \in Nat /\ x.user \in [Node -> Nat] /\ x.userPeak \in [Node -> Nat]
        /\ x.peak \in Nat
    BY AccountFields
  <2> QED
    BY <1>1, <2>1 DEF AccountRecords
<1>6. SentOnce(x, r, wire, useful) /\ r.userPeak = x.userPeak /\ r.peak = x.peak
  BY <1>1, <1>5 DEF SentOnce
<1> QED
  BY <1>4, <1>6 DEF r, v, start

LEMMA OverFields ==
  ASSUME NEW x \in AccountRecords, NEW w \in WindowRecords, NEW n \in Node,
         NEW wire \in Nat, NEW useful \in Nat, now \in Nat \ {0}, Accounts!IsOver(w)
  PROVE  LET r == Accounts!WithPeak(Accounts!UpdateTxStats(x, wire, useful), n, w)
             v == Accounts!NextWindow(w, useful)
             q == Accounts!Rate(w.bytes, now - w.start) IN
         /\ w.start # 0 /\ now - w.start >= Second /\ now - w.start \in Nat \ {0} /\ q \in Nat
         /\ SentOnce(x, r, wire, useful)
         /\ r.userPeak = [x.userPeak EXCEPT ![n] = Accounts!Larger(x.userPeak[n], q)]
         /\ r.peak = Accounts!Larger(x.peak, q)
         /\ v \in WindowRecords /\ v.start = now
         /\ v.bytes = useful /\ v.peak = Accounts!Larger(w.peak, q)
<1> DEFINE r == Accounts!WithPeak(Accounts!UpdateTxStats(x, wire, useful), n, w)
           v == Accounts!NextWindow(w, useful)
           q == Accounts!Rate(w.bytes, now - w.start)
           y == Accounts!UpdateTxStats(x, wire, useful)
           up == [x.userPeak EXCEPT ![n] = Accounts!Larger(x.userPeak[n], q)]
<1>1. w.start # 0 /\ now - w.start >= Second /\ now - w.start \in Nat \ {0}
  BY WindowFields, AccountsConstants DEF Accounts!IsOver
<1>2. q \in Nat
  BY <1>1, WindowFields, RateType
<1>3. y = [generated |-> x.generated + useful, sent |-> x.sent + wire,
           packets |-> x.packets + 1, blocked |-> x.blocked, delivered |-> x.delivered,
           user |-> x.user, userPeak |-> x.userPeak, peak |-> x.peak]
  BY UpdatedFields
<1>4. r = [generated |-> x.generated + useful, sent |-> x.sent + wire,
           packets |-> x.packets + 1, blocked |-> x.blocked, delivered |-> x.delivered,
           user |-> x.user, userPeak |-> up, peak |-> Accounts!Larger(x.peak, q)]
  <2> DEFINE m == [y EXCEPT !.userPeak = [y.userPeak EXCEPT ![n] = Accounts!Larger(y.userPeak[n], q)]]
  <2>1. r = [m EXCEPT !.peak = Accounts!Larger(m.peak, q)]
    BY Zenon DEF Accounts!WithPeak
  <2>2. y.userPeak = x.userPeak
    <3> HIDE DEF y
    <3> QED
      BY <1>3
  <2>3. m = [y EXCEPT !.userPeak = up]
    BY <2>2
  <2> HIDE DEF m, y, up, r, q
  <2>4. m = [generated |-> x.generated + useful, sent |-> x.sent + wire,
           packets |-> x.packets + 1, blocked |-> x.blocked, delivered |-> x.delivered,
           user |-> x.user, userPeak |-> up, peak |-> x.peak]
    BY <1>3, <2>3
  <2> QED
    BY <2>1, <2>4
<1>5. v = [start |-> now, bytes |-> useful, peak |-> Accounts!Larger(w.peak, q)]
  BY DEF Accounts!NextWindow
<1>6. up \in [Node -> Nat] /\ Accounts!Larger(x.peak, q) \in Nat /\ Accounts!Larger(w.peak, q) \in Nat
  <2>1. x.peak \in Nat /\ x.userPeak \in [Node -> Nat] /\ x.userPeak[n] \in Nat
    BY AccountFields
  <2>2. w.peak \in Nat
    BY WindowFields
  <2> HIDE DEF q
  <2> QED
    BY <1>2, <2>1, <2>2, HigherRate
<1> HIDE DEF r, v, q, up, y
<1>7. v \in WindowRecords /\ v.start = now /\ v.bytes = useful /\ v.peak = Accounts!Larger(w.peak, q)
  BY <1>5, <1>6 DEF WindowRecords
<1>8. r \in AccountRecords
  <2>1. /\ x.generated + useful \in Nat /\ x.sent + wire \in Nat /\ x.packets + 1 \in Nat
        /\ x.blocked \in Nat /\ x.delivered \in Nat /\ x.user \in [Node -> Nat]
    BY AccountFields
  <2> QED
    BY <1>4, <1>6, <2>1 DEF AccountRecords
<1>9. SentOnce(x, r, wire, useful) /\ r.userPeak = up /\ r.peak = Accounts!Larger(x.peak, q)
  BY <1>4, <1>8 DEF SentOnce
<1> QED
  BY <1>1, <1>2, <1>7, <1>9 DEF r, v, q, up

-----------------------------------------------------------------------------
(* A window is real if it holds what was sent since it began, and its peak *)
(* is the rate of an interval before it.                                   *)

PeakShown(peak, start, l, a, n, t) ==
  peak > 0 => \E t1, t2 \in 1..t :
    t2 - t1 >= Second /\ t2 <= start /\ peak = Accounts!Rate(SentIn(l, a, n, t1, t2), t2 - t1)

WindowIsReal(w, l, a, n, t) ==
  /\ w.start <= t
  /\ w.start = 0 => w.bytes = 0 /\ w.peak = 0 /\ \A i \in 1..Len(l) : ~IsOf(l[i], a, n)
  /\ \A i \in 1..Len(l) : IsOf(l[i], a, n) => l[i].time < w.start + Second
  /\ w.start # 0 => w.bytes = SentIn(l, a, n, w.start, t + 1)
  /\ PeakShown(w.peak, w.start, l, a, n, t)

LoggedBy(l, t) == l \in Seq(Sendings) /\ \A i \in 1..Len(l) : l[i].time <= t /\ l[i].time >= 1

LEMMA LogAppend ==
  ASSUME NEW l \in Seq(Sendings), NEW e \in Sendings
  PROVE  /\ Append(l, e) \in Seq(Sendings) /\ Len(Append(l, e)) = Len(l) + 1
         /\ \A i \in 1..Len(Append(l, e)) :
              (i \in 1..Len(l) /\ Append(l, e)[i] = l[i]) \/ Append(l, e)[i] = e
OBVIOUS

(* An interval that is over stays as it was.                               *)
LEMMA PeakStaysShown ==
  ASSUME NEW peak, NEW start \in Nat, NEW later \in Nat, start <= later, NEW l \in Seq(Sendings),
         NEW e \in Sendings, NEW a, NEW n, NEW t \in Nat, e.time = t, start <= t,
         PeakShown(peak, start, l, a, n, t)
  PROVE  PeakShown(peak, later, Append(l, e), a, n, t)
<1> SUFFICES ASSUME peak > 0
             PROVE  \E t1, t2 \in 1..t :
                      /\ t2 - t1 >= Second /\ t2 <= later
                      /\ peak = Accounts!Rate(SentIn(Append(l, e), a, n, t1, t2), t2 - t1)
  BY DEF PeakShown
<1>1. PICK t1 \in 1..t, t2 \in 1..t :
        t2 - t1 >= Second /\ t2 <= start /\ peak = Accounts!Rate(SentIn(l, a, n, t1, t2), t2 - t1)
  BY DEF PeakShown
<1>2. ~(e.time < t2)
  BY <1>1
<1>3. SentIn(Append(l, e), a, n, t1, t2) = SentIn(l, a, n, t1, t2) + 0
  BY <1>2, SentAppend
<1>4. SentIn(Append(l, e), a, n, t1, t2) = SentIn(l, a, n, t1, t2)
  BY <1>3, SentType
<1>5. t2 <= later
  BY <1>1
<1> QED
  BY <1>1, <1>4, <1>5

LEMMA WindowAfterOther ==
  ASSUME NEW w \in WindowRecords, NEW l, NEW t \in Nat, LoggedBy(l, t), NEW a, NEW n,
         WindowIsReal(w, l, a, n, t), NEW e \in Sendings, e.time = t, ~IsOf(e, a, n)
  PROVE  WindowIsReal(w, Append(l, e), a, n, t)
<1>1. l \in Seq(Sendings)
  BY DEF LoggedBy
<1>2. ASSUME NEW from, NEW to
      PROVE  SentIn(Append(l, e), a, n, from, to) = SentIn(l, a, n, from, to)
  <2>1. SentIn(Append(l, e), a, n, from, to) = SentIn(l, a, n, from, to) + 0
    BY <1>1, SentAppend
  <2> QED
    BY <1>1, <2>1, SentType
<1>3. PeakShown(w.peak, w.start, Append(l, e), a, n, t)
  BY <1>2 DEF WindowIsReal, PeakShown
<1>4. ASSUME NEW i \in 1..Len(Append(l, e)), IsOf(Append(l, e)[i], a, n)
      PROVE  i \in 1..Len(l) /\ Append(l, e)[i] = l[i]
  BY <1>1, <1>4, LogAppend
<1> DEFINE k == Append(l, e)
<1>5. w.start = 0 => \A i \in 1..Len(k) : ~IsOf(k[i], a, n)
  BY <1>4 DEF WindowIsReal
<1>6. \A i \in 1..Len(k) : IsOf(k[i], a, n) => k[i].time < w.start + Second
  BY <1>4 DEF WindowIsReal
<1> HIDE DEF k
<1> QED
  BY <1>2, <1>3, <1>5, <1>6 DEF WindowIsReal, k

LEMMA WindowElapses ==
  ASSUME NEW w \in WindowRecords, NEW l, NEW t \in Nat, LoggedBy(l, t), NEW a, NEW n,
         WindowIsReal(w, l, a, n, t)
  PROVE  WindowIsReal(w, l, a, n, t + 1)
<1>1. w.start \in Nat /\ l \in Seq(Sendings)
  BY WindowFields DEF LoggedBy
<1>2. \A i \in 1..Len(l) : l[i].time \in Nat /\ l[i].time <= t
  BY <1>1, LogIndices DEF LoggedBy
<1>3. SentIn(l, a, n, w.start, (t + 1) + 1) = SentIn(l, a, n, w.start, t + 1)
  <2>1. \A i \in 1..Len(l) : IsOf(l[i], a, n) =>
          ((w.start <= l[i].time /\ l[i].time < t + 1) <=>
           (w.start <= l[i].time /\ l[i].time < (t + 1) + 1))
    BY <1>2
  <2> QED
    BY <1>1, <2>1, SentSame
<1>4. PeakShown(w.peak, w.start, l, a, n, t + 1)
  <2>1. 1..t \subseteq 1..(t + 1)
    OBVIOUS
  <2> QED
    BY <2>1 DEF WindowIsReal, PeakShown
<1>5. w.start <= t + 1
  BY <1>1 DEF WindowIsReal
<1> QED
  BY <1>3, <1>4, <1>5 DEF WindowIsReal

LEMMA WindowAfterSending ==
  ASSUME NEW w \in WindowRecords, NEW l, now \in Nat \ {0}, LoggedBy(l, now), NEW a, NEW n,
         WindowIsReal(w, l, a, n, now), NEW e \in Sendings, e.time = now, IsOf(e, a, n),
         NEW v, v = Accounts!NextWindow(w, e.useful), n \in Node
  PROVE  WindowIsReal(v, Append(l, e), a, n, now)
<1> DEFINE k == Append(l, e)
<1>1. l \in Seq(Sendings) /\ now \in Nat
  BY DEF LoggedBy
<1>2. w.start \in Nat /\ w.bytes \in Nat /\ w.peak \in Nat /\ e.useful \in Nat /\ Second \in Nat \ {0}
  BY WindowFields, AccountsConstants DEF Sendings
<1>3. ASSUME NEW from \in Nat, from <= now
      PROVE  SentIn(k, a, n, from, now + 1) = SentIn(l, a, n, from, now + 1) + e.useful
  <2>1. from <= e.time /\ e.time < now + 1
    BY <1>1, <1>3
  <2> QED
    BY <1>1, <2>1, SentAppend
<1>4. \A i \in 1..Len(l) : l[i].time \in Nat /\ l[i].time <= now
  BY <1>1, LogIndices DEF LoggedBy
<1>5. \A i \in 1..Len(k) : (i \in 1..Len(l) /\ k[i] = l[i]) \/ k[i] = e
  BY <1>1, LogAppend
<1>6. w.start <= now
  BY DEF WindowIsReal
<1>7. \A i \in 1..Len(l) : IsOf(l[i], a, n) => l[i].time < w.start + Second
  BY DEF WindowIsReal
<1> DEFINE x0 == [generated |-> 0, sent |-> 0, packets |-> 0, blocked |-> 0, delivered |-> 0,
                  user |-> [m \in Node |-> 0], userPeak |-> [m \in Node |-> 0], peak |-> 0]
<1>0. x0 \in AccountRecords
  BY DEF AccountRecords
<1> HIDE DEF k, x0
<1>8. CASE ~Accounts!IsOver(w)
  <2> DEFINE start == IF w.start = 0 THEN now ELSE w.start
  <2>1. v.start = start /\ v.bytes = w.bytes + e.useful /\ v.peak = w.peak
    <3> DEFINE y == e.useful
               next == Accounts!NextWindow(w, y)
    <3>1. y \in Nat /\ 0 \in Nat
      BY <1>2
    <3> HIDE DEF y
    <3>2. next.start = start /\ next.bytes = w.bytes + y /\ next.peak = w.peak
      BY <1>0, <1>8, <3>1, NotOverFields
    <3> QED
      BY <3>2 DEF y
  <2>2. start \in Nat /\ start # 0 /\ start <= now /\ w.start <= start /\ now < start + Second
    BY <1>1, <1>2, <1>6, <1>8 DEF Accounts!IsOver
  <2> HIDE DEF start
  <2>3. w.bytes = SentIn(l, a, n, start, now + 1)
    <3>1. CASE w.start = 0
      <4>1. w.bytes = 0 /\ \A i \in 1..Len(l) : ~IsOf(l[i], a, n)
        BY <3>1 DEF WindowIsReal
      <4> QED
        BY <1>1, <4>1, SentNothing
    <3>2. CASE w.start # 0
      BY <3>2 DEF WindowIsReal, start
    <3> QED
      BY <3>1, <3>2
  <2>4. v.bytes = SentIn(k, a, n, v.start, now + 1)
    BY <1>3, <2>1, <2>2, <2>3
  <2>5. PeakShown(v.peak, v.start, k, a, n, now)
    <3>1. PeakShown(w.peak, w.start, l, a, n, now)
      BY DEF WindowIsReal
    <3> QED
      BY <1>1, <1>2, <1>6, <2>1, <2>2, <3>1, PeakStaysShown DEF k
  <2>6. \A i \in 1..Len(k) : IsOf(k[i], a, n) => k[i].time < v.start + Second
    <3> SUFFICES ASSUME NEW i \in 1..Len(k), IsOf(k[i], a, n) PROVE k[i].time < start + Second
      BY <2>1
    <3>1. CASE k[i] = e
      BY <2>2, <3>1
    <3>2. CASE i \in 1..Len(l) /\ k[i] = l[i]
      <4>1. l[i].time < w.start + Second /\ l[i].time \in Nat
        BY <1>4, <1>7, <3>2
      <4> QED
        BY <1>2, <2>2, <3>2, <4>1
    <3> QED
      BY <1>5, <3>1, <3>2
  <2> QED
    BY <2>1, <2>2, <2>4, <2>5, <2>6 DEF WindowIsReal, k
<1>9. CASE Accounts!IsOver(w)
  <2> DEFINE q == Accounts!Rate(w.bytes, now - w.start)
  <2>1. /\ w.start # 0 /\ now - w.start >= Second /\ q \in Nat
        /\ v.start = now /\ v.bytes = e.useful /\ v.peak = Accounts!Larger(w.peak, q)
    <3>1. w.start # 0 /\ now - w.start >= Second /\ now - w.start \in Nat \ {0}
      BY <1>1, <1>2, <1>6, <1>9 DEF Accounts!IsOver
    <3>2. q \in Nat
      BY <1>2, <3>1, RateType
    <3>3. v = [start |-> now, bytes |-> e.useful, peak |-> Accounts!Larger(w.peak, q)]
      BY <1>9 DEF Accounts!NextWindow
    <3> HIDE DEF q
    <3> QED
      BY <3>1, <3>2, <3>3
  <2>2. \A i \in 1..Len(l) : IsOf(l[i], a, n) => l[i].time < now
    <3> SUFFICES ASSUME NEW i \in 1..Len(l), IsOf(l[i], a, n) PROVE l[i].time < now
      OBVIOUS
    <3>1. l[i].time < w.start + Second /\ l[i].time \in Nat
      BY <1>4, <1>7
    <3> QED
      BY <1>1, <1>2, <2>1, <3>1
  <2>3. v.bytes = SentIn(k, a, n, v.start, now + 1)
    <3>1. \A i \in 1..Len(l) : IsOf(l[i], a, n) => ~(now <= l[i].time /\ l[i].time < now + 1)
      BY <1>1, <1>4, <2>2
    <3>2. SentIn(l, a, n, now, now + 1) = 0
      BY <1>1, <3>1, SentNothing
    <3>3. SentIn(k, a, n, now, now + 1) = SentIn(l, a, n, now, now + 1) + e.useful
      BY <1>1, <1>3
    <3> QED
      BY <1>2, <2>1, <3>2, <3>3
  <2>4. \A i \in 1..Len(k) : IsOf(k[i], a, n) => k[i].time < v.start + Second
    <3> SUFFICES ASSUME NEW i \in 1..Len(k), IsOf(k[i], a, n) PROVE k[i].time < now + Second
      BY <2>1
    <3>1. CASE k[i] = e
      BY <1>1, <1>2, <3>1
    <3>2. CASE i \in 1..Len(l) /\ k[i] = l[i]
      <4>1. l[i].time < now /\ l[i].time \in Nat
        BY <1>4, <2>2, <3>2
      <4> QED
        BY <1>1, <1>2, <3>2, <4>1
    <3> QED
      BY <1>5, <3>1, <3>2
  <2>5. PeakShown(v.peak, v.start, k, a, n, now)
    <3>1. PeakShown(w.peak, w.start, l, a, n, now)
      BY DEF WindowIsReal
    <3>2. PeakShown(w.peak, now, k, a, n, now)
      BY <1>1, <1>2, <1>6, <3>1, PeakStaysShown DEF k
    <3>3. PeakShown(q, now, k, a, n, now)
      <4>1. q = Accounts!Rate(SentIn(k, a, n, w.start, now), now - w.start)
        <5>1. w.bytes = SentIn(l, a, n, w.start, now + 1)
          BY <2>1 DEF WindowIsReal
        <5>2. \A i \in 1..Len(l) : IsOf(l[i], a, n) =>
                ((w.start <= l[i].time /\ l[i].time < now + 1) <=>
                 (w.start <= l[i].time /\ l[i].time < now))
          BY <1>1, <1>4, <2>2
        <5>3. SentIn(l, a, n, w.start, now) = SentIn(l, a, n, w.start, now + 1)
          BY <1>1, <5>2, SentSame
        <5>4. ~(e.time < now)
          BY <1>1
        <5>5. SentIn(k, a, n, w.start, now) = SentIn(l, a, n, w.start, now) + 0
          BY <1>1, <5>4, SentAppend DEF k
        <5>6. SentIn(k, a, n, w.start, now) = w.bytes
          BY <1>2, <5>1, <5>3, <5>5
        <5> QED
          BY <5>6
      <4>2. w.start \in 1..now /\ now \in 1..now
        BY <1>1, <1>2, <1>6, <2>1
      <4> HIDE DEF q
      <4>3. now - w.start >= Second /\ now <= now
        BY <1>1, <2>1
      <4> QED
        BY <4>1, <4>2, <4>3 DEF PeakShown
    <3>4. v.peak = w.peak \/ v.peak = q
      BY <1>2, <2>1, HigherRate
    <3> QED
      BY <2>1, <3>2, <3>3, <3>4
  <2>6. v.start <= now /\ v.start # 0
    BY <1>1, <2>1
  <2> QED
    BY <2>3, <2>4, <2>5, <2>6 DEF WindowIsReal, k
<1> QED
  BY <1>8, <1>9

-----------------------------------------------------------------------------
(* The books.                                                              *)

TallyFields == {"generated", "sent", "packets", "blocked", "delivered"}
Column(b, field) == [s \in Kinds |-> b[s][field]]
FieldBalances(b, field) == b["total"][field] = SumOn(Column(b, field), Kinds)
FieldsBalance(b) == \A field \in TallyFields : FieldBalances(b, field)

SentBy(l, s) == [n \in Node |-> SentIn(l, s, n, 0, AccountTime + 1)]
LogCounts(b, l) ==
  /\ b["total"].packets = Len(l)
  /\ \A s \in Kinds : b[s].generated = SumOn(SentBy(l, s), Node)

PeaksOfAccounts(b, w) ==
  \A a \in Accounts!Account : /\ IsMost(b[a].peak, b[a].userPeak, Node)
                              /\ \A n \in Node : b[a].userPeak[n] = w[<<a, n>>].peak

WindowsAreReal(w, l, t) ==
  \A a \in Accounts!Account, n \in Node : WindowIsReal(w[<<a, n>>], l, a, n, t)

LEMMA TallyType ==
  ASSUME NEW b \in Books, NEW a \in Accounts!Account, NEW field \in TallyFields
  PROVE  b[a][field] \in Nat
<1> DEFINE x == b[a]
<1>1. x \in AccountRecords
  BY DEF Books
<1> HIDE DEF x
<1>2. /\ x["generated"] \in Nat /\ x["sent"] \in Nat /\ x["packets"] \in Nat
      /\ x["blocked"] \in Nat /\ x["delivered"] \in Nat
  BY <1>1, AccountFields
<1> QED
  BY <1>2 DEF TallyFields, x

LEMMA FieldPut ==
  ASSUME NEW b \in Books, NEW c \in Books, NEW s \in Kinds, NEW field \in TallyFields, NEW x \in Nat,
         c["total"][field] = b["total"][field] + x, c[s][field] = b[s][field] + x,
         \A r \in Kinds : r # s => c[r][field] = b[r][field], FieldBalances(b, field)
  PROVE  FieldBalances(c, field)
<1> DEFINE f == Column(b, field)
           g == Column(c, field)
<1>1. IsFiniteSet(Kinds) /\ Kinds \subseteq Accounts!Account /\ "total" \in Accounts!Account
  BY AccountsConstants
<1>2. \A r \in Kinds : f[r] \in Nat /\ g[r] \in Nat
  BY <1>1, TallyType DEF Column
<1>3. g[s] = f[s] + x /\ \A r \in Kinds \ {s} : g[r] = f[r]
  BY DEF Column
<1> HIDE DEF f, g
<1>4. SumOn(g, Kinds) + f[s] = SumOn(f, Kinds) + g[s]
  BY <1>1, <1>2, <1>3, SumPut
<1>5. SumOn(g, Kinds) \in Nat /\ SumOn(f, Kinds) \in Nat
  BY <1>1, <1>2, SumType
<1>6. SumOn(g, Kinds) = SumOn(f, Kinds) + x
  BY <1>2, <1>3, <1>4, <1>5
<1> QED
  BY <1>6 DEF FieldBalances, f, g

LEMMA FieldKept ==
  ASSUME NEW b \in Books, NEW c \in Books, NEW field \in TallyFields,
         \A a \in Accounts!Account : c[a][field] = b[a][field], FieldBalances(b, field)
  PROVE  FieldBalances(c, field)
<1>1. Kinds \subseteq Accounts!Account /\ "total" \in Accounts!Account
  BY AccountsConstants
<1>2. Column(c, field) = Column(b, field)
  BY <1>1 DEF Column
<1> QED
  BY <1>1, <1>2 DEF FieldBalances

LEMMA MostRaised ==
  ASSUME NEW m, NEW f \in [Node -> Nat], IsMost(m, f, Node), NEW n \in Node, NEW q \in Nat
  PROVE  IsMost(Accounts!Larger(m, q), [f EXCEPT ![n] = Accounts!Larger(f[n], q)], Node)
<1> DEFINE k == Accounts!Larger(m, q)
           x == Accounts!Larger(f[n], q)
           g == [f EXCEPT ![n] = x]
<1>1. m \in Nat /\ (\A j \in Node : f[j] <= m) /\ (m = 0 \/ \E j \in Node : f[j] = m)
  BY DEF IsMost
<1>2. k \in Nat /\ k >= m /\ k >= q /\ (k = m \/ k = q)
  BY <1>1, HigherRate
<1>3. x \in Nat /\ x >= f[n] /\ x >= q /\ (x = f[n] \/ x = q)
  BY HigherRate
<1>4. g[n] = x /\ \A j \in Node : j # n => g[j] = f[j]
  OBVIOUS
<1> HIDE DEF k, x, g
<1>5. \A j \in Node : g[j] <= k
  <2> SUFFICES ASSUME NEW j \in Node PROVE g[j] <= k
    OBVIOUS
  <2>1. f[j] \in Nat /\ f[n] \in Nat /\ f[j] <= m /\ f[n] <= m
    BY <1>1
  <2>2. CASE j = n
    BY <1>1, <1>2, <1>3, <1>4, <2>1, <2>2
  <2>3. CASE j # n
    BY <1>1, <1>2, <1>4, <2>1, <2>3
  <2> QED
    BY <2>2, <2>3
<1>6. k = 0 \/ \E j \in Node : g[j] = k
  <2>1. CASE k = q
    <3>1. f[n] \in Nat /\ f[n] <= m /\ m <= q
      BY <1>1, <1>2, <2>1
    <3>2. x = q
      BY <1>1, <1>3, <3>1
    <3> QED
      BY <1>4, <2>1, <3>2
  <2>2. CASE k = m /\ k # q /\ k # 0
    <3>1. PICK j \in Node : f[j] = m
      BY <1>1, <2>2
    <3>2. CASE j # n
      BY <1>4, <2>2, <3>1, <3>2
    <3>3. CASE j = n
      <4>1. x = m
        BY <1>1, <1>2, <1>3, <2>2, <3>1, <3>3
      <4> QED
        BY <1>4, <2>2, <4>1
    <3> QED
      BY <3>2, <3>3
  <2> QED
    BY <1>2, <2>1, <2>2
<1> QED
  BY <1>2, <1>5, <1>6 DEF IsMost, k, g, x

OverEffect(x, w, r, v, q, n, wire, useful) ==
  /\ q \in Nat /\ SentOnce(x, r, wire, useful)
  /\ r.userPeak = [x.userPeak EXCEPT ![n] = Accounts!Larger(x.userPeak[n], q)]
  /\ r.peak = Accounts!Larger(x.peak, q)
  /\ v \in WindowRecords /\ v.peak = Accounts!Larger(w.peak, q)

LEMMA OverEffects ==
  ASSUME NEW x \in AccountRecords, NEW w \in WindowRecords, NEW n \in Node,
         NEW wire \in Nat, NEW useful \in Nat, now \in Nat \ {0}, Accounts!IsOver(w)
  PROVE  OverEffect(x, w, Accounts!WithPeak(Accounts!UpdateTxStats(x, wire, useful), n, w),
                    Accounts!NextWindow(w, useful), Accounts!Rate(w.bytes, now - w.start),
                    n, wire, useful)
BY OverFields DEF OverEffect

(* A sending is in the books of all and of its service, and in no other.   *)
OnceEffect(s, n, wire, useful, b, w, c, v) ==
  /\ c \in Books /\ v \in WindowTables /\ PeaksOfAccounts(c, v)
  /\ \A a \in Accounts!Account :
       IF a \in {"total", s} THEN SentOnce(b[a], c[a], wire, useful)
                                  /\ v[<<a, n>>] = Accounts!NextWindow(w[<<a, n>>], useful)
                             ELSE c[a] = b[a] /\ v[<<a, n>>] = w[<<a, n>>]
  /\ \A a \in Accounts!Account, m \in Node : m # n => v[<<a, m>>] = w[<<a, m>>]

LEMMA OnceBooksFields ==
  ASSUME book \in Books, window \in WindowTables, now \in Nat \ {0},
         PeaksOfAccounts(book, window),
         NEW s \in Kinds, NEW n \in Node, NEW wire \in Nat, NEW useful \in Nat
  PROVE  OnceEffect(s, n, wire, useful, book, window,
                    OnceBooks(s, n, wire, useful, book, window),
                    OnceWindows(s, n, useful, window))
<1> DEFINE c == OnceBooks(s, n, wire, useful, book, window)
           v == OnceWindows(s, n, useful, window)
           w(a) == window[<<a, n>>]
           r(a) == Accounts!WithPeak(Accounts!UpdateTxStats(book[a], wire, useful), n, w(a))
           x(a) == Accounts!NextWindow(w(a), useful)
<1>1. \A a \in Accounts!Account : c[a] = (IF a \in {"total", s} THEN r(a) ELSE book[a])
  BY DEF OnceBooks
<1>2. \A a \in Accounts!Account, m \in Node :
        v[<<a, m>>] = (IF m = n /\ a \in {"total", s} THEN x(a) ELSE window[<<a, m>>])
  BY DEF OnceWindows
<1>3. ASSUME NEW a \in Accounts!Account
      PROVE  /\ book[a] \in AccountRecords /\ w(a) \in WindowRecords
             /\ \A m \in Node : window[<<a, m>>] \in WindowRecords
  BY DEF Books, WindowTables
<1>4. ASSUME NEW a \in Accounts!Account
      PROVE  /\ SentOnce(book[a], r(a), wire, useful) /\ x(a) \in WindowRecords
             /\ IsMost(r(a).peak, r(a).userPeak, Node)
             /\ \A m \in Node : r(a).userPeak[m] = (IF m = n THEN x(a).peak ELSE book[a].userPeak[m])
  <2> DEFINE b == book[a]  y == w(a)  rr == r(a)  xx == x(a)
             q == Accounts!Rate(y.bytes, now - y.start)
  <2>1. b \in AccountRecords /\ y \in WindowRecords
    BY <1>3
  <2>2. b.userPeak \in [Node -> Nat] /\ b.peak \in Nat
    BY <2>1, AccountFields
  <2>3. IsMost(b.peak, b.userPeak, Node) /\ b.userPeak[n] = y.peak
    BY DEF PeaksOfAccounts
  <2>4. CASE ~Accounts!IsOver(y)
    <3>1. /\ SentOnce(b, rr, wire, useful) /\ rr.userPeak = b.userPeak /\ rr.peak = b.peak
          /\ xx \in WindowRecords /\ xx.peak = y.peak
      <4>1. /\ SentOnce(b, rr, wire, useful) /\ rr.userPeak = b.userPeak /\ rr.peak = b.peak
            /\ xx \in WindowRecords /\ xx.start = (IF y.start = 0 THEN now ELSE y.start)
            /\ xx.bytes = y.bytes + useful /\ xx.peak = y.peak
        BY <2>1, <2>4, NotOverFields, Zenon
      <4> HIDE DEF b, y, rr, xx
      <4> QED
        BY <4>1
    <3> HIDE DEF b, y, rr, xx
    <3>2. IsMost(rr.peak, rr.userPeak, Node)
      BY <2>3, <3>1
    <3>3. \A m \in Node : rr.userPeak[m] = (IF m = n THEN xx.peak ELSE b.userPeak[m])
      BY <2>3, <3>1
    <3> QED
      BY <3>1, <3>2, <3>3 DEF b, y, rr, xx
  <2>5. CASE Accounts!IsOver(y)
    <3>1. /\ q \in Nat /\ SentOnce(b, rr, wire, useful)
          /\ rr.userPeak = [b.userPeak EXCEPT ![n] = Accounts!Larger(b.userPeak[n], q)]
          /\ rr.peak = Accounts!Larger(b.peak, q)
          /\ xx \in WindowRecords /\ xx.peak = Accounts!Larger(y.peak, q)
      <4>1. OverEffect(b, y, rr, xx, q, n, wire, useful)
        BY <2>1, <2>5, OverEffects
      <4> HIDE DEF b, y, rr, xx, q
      <4> QED
        BY <4>1 DEF OverEffect
    <3> HIDE DEF b, y, rr, xx, q
    <3>2. IsMost(rr.peak, rr.userPeak, Node)
      BY <2>2, <2>3, <3>1, MostRaised
    <3>3. \A m \in Node : rr.userPeak[m] = (IF m = n THEN xx.peak ELSE b.userPeak[m])
      BY <2>2, <2>3, <3>1
    <3> QED
      BY <3>1, <3>2, <3>3 DEF b, y, rr, xx
  <2> QED
    BY <2>4, <2>5
<1>0. c = [a \in Accounts!Account |-> c[a]] /\ v = [k \in Accounts!Account \X Node |-> v[k]]
  BY DEF OnceBooks, OnceWindows
<1> HIDE DEF c, v, r, x
<1>5. c \in Books
  <2>1. \A a \in Accounts!Account : c[a] \in AccountRecords
    BY <1>1, <1>3, <1>4 DEF SentOnce
  <2> QED
    BY <1>0, <2>1 DEF Books
<1>6. v \in WindowTables
  <2>1. \A a \in Accounts!Account, m \in Node : v[<<a, m>>] \in WindowRecords
    BY <1>2, <1>3, <1>4
  <2>2. \A k \in Accounts!Account \X Node : v[k] \in WindowRecords
    BY <2>1
  <2> QED
    BY <1>0, <2>2 DEF WindowTables
<1>7. PeaksOfAccounts(c, v)
  <2> SUFFICES ASSUME NEW a \in Accounts!Account
               PROVE  /\ IsMost(c[a].peak, c[a].userPeak, Node)
                      /\ \A m \in Node : c[a].userPeak[m] = v[<<a, m>>].peak
    BY DEF PeaksOfAccounts
  <2>1. IsMost(book[a].peak, book[a].userPeak, Node)
        /\ \A m \in Node : book[a].userPeak[m] = window[<<a, m>>].peak
    BY DEF PeaksOfAccounts
  <2>2. CASE a \in {"total", s}
    <3>1. c[a] = r(a) /\ \A m \in Node : v[<<a, m>>] = (IF m = n THEN x(a) ELSE window[<<a, m>>])
      BY <1>1, <1>2, <2>2
    <3> QED
      BY <1>4, <2>1, <3>1
  <2>3. CASE a \notin {"total", s}
    <3>1. c[a] = book[a] /\ \A m \in Node : v[<<a, m>>] = window[<<a, m>>]
      BY <1>1, <1>2, <2>3
    <3> QED
      BY <2>1, <3>1
  <2> QED
    BY <2>2, <2>3
<1>8. \A a \in Accounts!Account :
        IF a \in {"total", s} THEN SentOnce(book[a], c[a], wire, useful)
                                   /\ v[<<a, n>>] = Accounts!NextWindow(window[<<a, n>>], useful)
                              ELSE c[a] = book[a] /\ v[<<a, n>>] = window[<<a, n>>]
  BY <1>1, <1>2, <1>4 DEF x
<1>9. \A a \in Accounts!Account, m \in Node : m # n => v[<<a, m>>] = window[<<a, m>>]
  BY <1>2
<1> QED
  BY <1>5, <1>6, <1>7, <1>8, <1>9 DEF OnceEffect, c, v

-----------------------------------------------------------------------------
(* A packet that is seen: one sending, in the books and in the log.        *)

AddsUp(b, w, l, t) ==
  /\ FieldsBalance(b) /\ PeaksOfAccounts(b, w) /\ LogCounts(b, l) /\ WindowsAreReal(w, l, t)

LEMMA SendingCounted ==
  ASSUME book \in Books, window \in WindowTables, now \in Nat \ {0}, now <= AccountTime,
         LoggedBy(log, now), AddsUp(book, window, log, now),
         NEW s \in Kinds, NEW n \in Node, NEW wire \in Nat, NEW useful \in Nat,
         Accounts!AccountTx(s, n, wire, useful, 1),
         log' = Append(log, [time |-> now, service |-> s, node |-> n, useful |-> useful])
  PROVE  /\ book' \in Books /\ window' \in WindowTables /\ LoggedBy(log', now)
         /\ AddsUp(book', window', log', now)
         /\ \A r \in Kinds : /\ book'[r].user = book[r].user
                             /\ book'[r].delivered = book[r].delivered
                             /\ book'[r].generated = book[r].generated + (IF r = s THEN useful ELSE 0)
<1> DEFINE e == [time |-> now, service |-> s, node |-> n, useful |-> useful]
           c == book'
           v == window'
           k == log'
<1>0. FieldsBalance(book) /\ PeaksOfAccounts(book, window) /\ LogCounts(book, log)
      /\ WindowsAreReal(window, log, now)
  BY DEF AddsUp
<1>1. /\ c \in Books /\ v \in WindowTables /\ PeaksOfAccounts(c, v)
      /\ \A a \in Accounts!Account :
           IF a \in {"total", s} THEN SentOnce(book[a], c[a], wire, useful)
                                      /\ v[<<a, n>>] = Accounts!NextWindow(window[<<a, n>>], useful)
                                 ELSE c[a] = book[a] /\ v[<<a, n>>] = window[<<a, n>>]
      /\ \A a \in Accounts!Account, m \in Node : m # n => v[<<a, m>>] = window[<<a, m>>]
  <2>1. c = OnceBooks(s, n, wire, useful, book, window) /\ v = OnceWindows(s, n, useful, window)
    BY AccountTxOnce
  <2>2. OnceEffect(s, n, wire, useful, book, window,
                   OnceBooks(s, n, wire, useful, book, window),
                   OnceWindows(s, n, useful, window))
    BY <1>0, OnceBooksFields
  <2> HIDE DEF c, v
  <2>3. OnceEffect(s, n, wire, useful, book, window, c, v)
    BY ONLY <2>1, <2>2
  <2> QED
    BY <2>3 DEF OnceEffect
<1>2. /\ e \in Sendings /\ e.time = now /\ e.service = s /\ e.node = n /\ e.useful = useful
      /\ k = Append(log, e)
  BY DEF Sendings
<1>3. log \in Seq(Sendings) /\ \A i \in 1..Len(log) : log[i].time <= now /\ log[i].time >= 1
  BY DEF LoggedBy
<1>4. Kinds \subseteq Accounts!Account /\ "total" \in Accounts!Account /\ "total" \notin Kinds
      /\ IsFiniteSet(Node)
  BY AccountsConstants
<1> HIDE DEF e, c, v, k
<1>5. LoggedBy(k, now)
  <2>1. k \in Seq(Sendings) /\ \A i \in 1..Len(k) : (i \in 1..Len(log) /\ k[i] = log[i]) \/ k[i] = e
    BY <1>2, <1>3, LogAppend
  <2>2. ASSUME NEW i \in 1..Len(k) PROVE k[i].time <= now /\ k[i].time >= 1
    <3>1. CASE i \in 1..Len(log) /\ k[i] = log[i]
      BY <1>3, <3>1
    <3>2. CASE k[i] = e
      BY <1>2, <3>2
    <3> QED
      BY <2>1, <3>1, <3>2
  <2> QED
    BY <2>1, <2>2 DEF LoggedBy
<1>6. /\ SentOnce(book["total"], c["total"], wire, useful) /\ SentOnce(book[s], c[s], wire, useful)
      /\ \A r \in Kinds : r # s => c[r] = book[r]
  BY <1>1, <1>4
<1>7. FieldsBalance(c)
  <2> SUFFICES ASSUME NEW field \in TallyFields PROVE FieldBalances(c, field)
    BY DEF FieldsBalance
  <2>1. FieldBalances(book, field)
    BY <1>0 DEF FieldsBalance
  <2> DEFINE x == IF field = "generated" THEN useful ELSE IF field = "sent" THEN wire
                  ELSE IF field = "packets" THEN 1 ELSE 0
  <2>2. x \in Nat
    OBVIOUS
  <2>3. ASSUME NEW a \in {"total", s} PROVE c[a][field] = book[a][field] + x
    <3>1. SentOnce(book[a], c[a], wire, useful)
      BY <1>6
    <3>2. book[a][field] \in Nat
      BY <1>4, TallyType
    <3> QED
      BY <3>1, <3>2 DEF SentOnce, TallyFields
  <2>4. \A r \in Kinds : r # s => c[r][field] = book[r][field]
    BY <1>6
  <2> HIDE DEF x
  <2> QED
    BY <1>1, <2>1, <2>2, <2>3, <2>4, FieldPut
<1>8. \A r \in Kinds : /\ c[r].user = book[r].user /\ c[r].delivered = book[r].delivered
                       /\ c[r].generated = book[r].generated + (IF r = s THEN useful ELSE 0)
  <2> SUFFICES ASSUME NEW r \in Kinds
               PROVE  /\ c[r].user = book[r].user /\ c[r].delivered = book[r].delivered
                      /\ c[r].generated = book[r].generated + (IF r = s THEN useful ELSE 0)
    OBVIOUS
  <2>1. CASE r = s
    BY <1>6, <2>1 DEF SentOnce
  <2>2. CASE r # s
    <3>1. book[r]["generated"] \in Nat
      BY <1>4, TallyType DEF TallyFields
    <3>2. c[r] = book[r]
      BY <1>6, <2>2
    <3> QED
      BY <2>2, <3>1, <3>2
  <2> QED
    BY <2>1, <2>2
<1>9. LogCounts(c, k)
  <2>1. c["total"].packets = Len(k)
    <3>1. c["total"].packets = book["total"].packets + 1 /\ book["total"].packets = Len(log)
      BY <1>0, <1>6 DEF SentOnce, LogCounts
    <3>2. Len(k) = Len(log) + 1
      BY <1>2, <1>3, LogAppend
    <3> QED
      BY <3>1, <3>2
  <2>2. ASSUME NEW r \in Kinds PROVE c[r].generated = SumOn(SentBy(k, r), Node)
    <3> DEFINE f == SentBy(log, r)
               g == SentBy(k, r)
               x == IF r = s THEN useful ELSE 0
    <3>1. book[r].generated = SumOn(f, Node)
      BY <1>0 DEF LogCounts
    <3>2. \A m \in Node : f[m] \in Nat /\ g[m] \in Nat
      <4>1. k \in Seq(Sendings)
        BY <1>5 DEF LoggedBy
      <4> QED
        BY <1>3, <4>1, SentType DEF SentBy
    <3>3. ASSUME NEW m \in Node
          PROVE  SentIn(k, r, m, 0, AccountTime + 1) =
                   SentIn(log, r, m, 0, AccountTime + 1) + (IF m = n THEN x ELSE 0)
      <4>1. (IsOf(e, r, m) /\ 0 <= e.time /\ e.time < AccountTime + 1) <=> (r = s /\ m = n)
        <5>1. 0 <= now /\ now < AccountTime + 1
          BY AccountsConstants
        <5> QED
          BY <1>2, <1>4, <5>1 DEF IsOf
      <4>2. SentIn(k, r, m, 0, AccountTime + 1) = SentIn(log, r, m, 0, AccountTime + 1)
              + (IF IsOf(e, r, m) /\ 0 <= e.time /\ e.time < AccountTime + 1 THEN e.useful ELSE 0)
        BY <1>2, <1>3, SentAppend
      <4> QED
        BY <1>2, <4>1, <4>2
    <3>4. g[n] = f[n] + x /\ \A m \in Node \ {n} : g[m] = f[m]
      <4>1. \A m \in Node : g[m] = f[m] + (IF m = n THEN x ELSE 0)
        BY <3>3 DEF SentBy
      <4> HIDE DEF f, g, x
      <4> QED
        BY <3>2, <4>1
    <3>5. x \in Nat
      OBVIOUS
    <3> HIDE DEF f, g, x
    <3>6. SumOn(g, Node) + f[n] = SumOn(f, Node) + g[n]
      BY <1>4, <3>2, <3>4, SumPut
    <3>7. SumOn(g, Node) \in Nat /\ SumOn(f, Node) \in Nat
      BY <1>4, <3>2, SumType
    <3>8. SumOn(g, Node) = SumOn(f, Node) + x
      <4>1. f[n] \in Nat /\ g[n] = f[n] + x
        BY <3>2, <3>4
      <4> QED
        BY ONLY <4>1, <3>5, <3>6, <3>7
    <3>9. c[r].generated = book[r].generated + x
      BY <1>8 DEF x
    <3> QED
      BY <3>1, <3>8, <3>9 DEF g
  <2> QED
    BY <2>1, <2>2 DEF LogCounts
<1>10. WindowsAreReal(v, k, now)
  <2> SUFFICES ASSUME NEW a \in Accounts!Account, NEW m \in Node
               PROVE  WindowIsReal(v[<<a, m>>], k, a, m, now)
    BY DEF WindowsAreReal
  <2>1. WindowIsReal(window[<<a, m>>], log, a, m, now) /\ window[<<a, m>>] \in WindowRecords
    BY <1>0 DEF WindowsAreReal, WindowTables
  <2>2. CASE IsOf(e, a, m)
    <3>1. a \in {"total", s} /\ m = n
      BY <1>2, <2>2 DEF IsOf
    <3>2. v[<<a, m>>] = Accounts!NextWindow(window[<<a, m>>], e.useful)
      BY <1>1, <1>2, <3>1
    <3>3. WindowIsReal(v[<<a, m>>], Append(log, e), a, m, now)
      BY <1>2, <2>1, <2>2, <3>2, WindowAfterSending
    <3> QED
      BY <1>2, <3>3
  <2>3. CASE ~IsOf(e, a, m)
    <3>1. a \notin {"total", s} \/ m # n
      BY <1>2, <2>3 DEF IsOf
    <3>2. v[<<a, m>>] = window[<<a, m>>]
      BY <1>1, <3>1
    <3>3. WindowIsReal(window[<<a, m>>], Append(log, e), a, m, now)
      BY <1>2, <2>1, <2>3, WindowAfterOther
    <3> QED
      BY <1>2, <3>2, <3>3
  <2> QED
    BY <2>2, <2>3
<1>11. AddsUp(c, v, k, now)
  BY <1>1, <1>7, <1>9, <1>10 DEF AddsUp
<1> QED
  BY <1>1, <1>5, <1>8, <1>11 DEF c, v, k

-----------------------------------------------------------------------------
(* What is due: packets in flight to sinks that are traced.                *)

Flows == Kinds \X Node \X Node
Packets == [flow : Flows, size : Nat]

Due(fl, lis, s) ==
  [i \in 1..Len(fl) |-> IF fl[i].flow[1] = s /\ fl[i].flow[3] \in lis
                        THEN Accounts!WithoutHeader(s, fl[i].size) ELSE 0]
DueSum(fl, lis, s) == SumOn(Due(fl, lis, s), 1..Len(fl))

LEMMA HeaderTaken ==
  ASSUME NEW s, NEW payload \in Nat, NEW size \in Nat
  PROVE  /\ Accounts!WithHeader(s, payload) \in Nat /\ Accounts!WithoutHeader(s, size) \in Nat
         /\ Accounts!WithoutHeader(s, Accounts!WithHeader(s, payload)) = payload
<1>1. RtpHeader \in Nat
  BY AccountsConstants
<1> QED
  BY <1>1 DEF Accounts!WithHeader, Accounts!WithoutHeader

LEMMA FlightIndices ==
  ASSUME NEW fl \in Seq(Packets)
  PROVE  /\ Len(fl) \in Nat /\ IsFiniteSet(1..Len(fl))
         /\ \A i \in 1..Len(fl) : fl[i] \in Packets /\ fl[i].flow \in Flows /\ fl[i].size \in Nat
<1>1. Len(fl) \in Nat /\ \A i \in 1..Len(fl) : fl[i] \in Packets
  OBVIOUS
<1>2. IsFiniteSet(1..Len(fl))
  BY <1>1, FS_Interval
<1> QED
  BY <1>1, <1>2 DEF Packets

LEMMA DueType ==
  ASSUME NEW fl \in Seq(Packets), NEW lis, NEW s
  PROVE  (\A i \in 1..Len(fl) : Due(fl, lis, s)[i] \in Nat) /\ DueSum(fl, lis, s) \in Nat
<1>1. \A i \in 1..Len(fl) : Due(fl, lis, s)[i] \in Nat
  BY FlightIndices, HeaderTaken DEF Due
<1> QED
  BY <1>1, FlightIndices, SumType DEF DueSum

LEMMA DueAppend ==
  ASSUME NEW fl \in Seq(Packets), NEW p \in Packets, NEW lis, NEW s
  PROVE  /\ Append(fl, p) \in Seq(Packets)
         /\ DueSum(Append(fl, p), lis, s) = DueSum(fl, lis, s) +
              (IF p.flow[1] = s /\ p.flow[3] \in lis THEN Accounts!WithoutHeader(s, p.size) ELSE 0)
<1> DEFINE k == Append(fl, p)
           f == Due(fl, lis, s)
           g == Due(k, lis, s)
<1>1. /\ k \in Seq(Packets) /\ Len(k) = Len(fl) + 1 /\ k[Len(fl) + 1] = p
      /\ \A i \in 1..Len(fl) : k[i] = fl[i]
  OBVIOUS
<1>2. Len(fl) \in Nat
  OBVIOUS
<1> HIDE DEF k
<1>3. \A i \in 1..Len(fl) : f[i] \in Nat /\ g[i] = f[i]
  <2>1. \A i \in 1..Len(fl) : i \in 1..Len(k)
    BY <1>1, <1>2
  <2> QED
    BY <1>1, <2>1, DueType DEF Due
<1>4. Len(fl) + 1 \in 1..Len(k)
  BY <1>1, <1>2
<1>5. g[Len(fl) + 1] = (IF p.flow[1] = s /\ p.flow[3] \in lis
                        THEN Accounts!WithoutHeader(s, p.size) ELSE 0)
  BY <1>1, <1>4 DEF Due
<1>6. g[Len(fl) + 1] \in Nat
  BY <1>1, <1>4, DueType
<1> HIDE DEF f, g
<1>7. SumOn(g, 1..(Len(fl) + 1)) = SumOn(f, 1..Len(fl)) + g[Len(fl) + 1]
  BY <1>2, <1>3, <1>6, SumAppend
<1> QED
  BY <1>1, <1>5, <1>7 DEF DueSum, f, g, k

(* A sequence without one of its elements.                                 *)
LEMMA CutOut ==
  ASSUME NEW T, NEW fl \in Seq(T), NEW i \in 1..Len(fl)
  PROVE  LET k == SubSeq(fl, 1, i - 1) \o SubSeq(fl, i + 1, Len(fl)) IN
         /\ k \in Seq(T) /\ Len(k) = Len(fl) - 1
         /\ \A j \in 1..(Len(fl) - 1) : k[j] = (IF j < i THEN fl[j] ELSE fl[j + 1])
<1>1. Len(fl) \in Nat
  OBVIOUS
<1> DEFINE a == SubSeq(fl, 1, i - 1)
           b == SubSeq(fl, i + 1, Len(fl))
<1>2. a \in Seq(T) /\ Len(a) = i - 1 /\ \A j \in 1..(i - 1) : a[j] = fl[j]
  BY <1>1
<1>3. b \in Seq(T) /\ Len(b) = Len(fl) - i /\ \A j \in 1..(Len(fl) - i) : b[j] = fl[i + j]
  BY <1>1
<1> HIDE DEF a, b
<1>5. a \o b \in Seq(T) /\ Len(a \o b) = Len(fl) - 1
  <2>1. a \in Seq(T) /\ b \in Seq(T)
    BY <1>2, <1>3
  <2>2. a \o b \in Seq(T) /\ Len(a \o b) = Len(a) + Len(b)
    BY ONLY <2>1
  <2>3. Len(a) = i - 1 /\ Len(b) = Len(fl) - i
    BY <1>2, <1>3
  <2> QED
    BY ONLY <1>1, <2>2, <2>3
<1>6. ASSUME NEW j \in 1..(Len(fl) - 1)
      PROVE  (a \o b)[j] = (IF j < i THEN fl[j] ELSE fl[j + 1])
  <2>1. (a \o b)[j] = IF j <= Len(a) THEN a[j] ELSE b[j - Len(a)]
    BY <1>1, <1>2, <1>3
  <2>2. CASE j < i
    BY <1>1, <1>2, <2>1, <2>2
  <2>3. CASE ~(j < i)
    <3>1. j - (i - 1) \in 1..(Len(fl) - i) /\ i + (j - (i - 1)) = j + 1 /\ ~(j <= i - 1)
      BY <1>1, <2>3
    <3> QED
      BY <1>2, <1>3, <2>1, <2>3, <3>1
  <2> QED
    BY <2>2, <2>3
<1> QED
  BY <1>5, <1>6 DEF a, b

LEMMA RemoveFields ==
  ASSUME NEW fl \in Seq(Packets), NEW i \in 1..Len(fl)
  PROVE  LET k == Accounts!RemoveAt(fl, i) IN
         /\ k \in Seq(Packets) /\ Len(k) = Len(fl) - 1
         /\ \A j \in 1..(Len(fl) - 1) : k[j] = (IF j < i THEN fl[j] ELSE fl[j + 1])
<1> DEFINE T == Packets
           c == SubSeq(fl, 1, i - 1) \o SubSeq(fl, i + 1, Len(fl))
<1>1. Accounts!RemoveAt(fl, i) = c
  BY DEF Accounts!RemoveAt
<1>2. fl \in Seq(T)
  OBVIOUS
<1> HIDE DEF T
<1>3. /\ c \in Seq(T) /\ Len(c) = Len(fl) - 1
      /\ \A j \in 1..(Len(fl) - 1) : c[j] = (IF j < i THEN fl[j] ELSE fl[j + 1])
  BY <1>2, CutOut
<1> HIDE DEF c
<1> QED
  BY <1>1, <1>3 DEF T

LEMMA DueRemove ==
  ASSUME NEW fl \in Seq(Packets), NEW i \in 1..Len(fl), NEW lis, NEW s
  PROVE  DueSum(Accounts!RemoveAt(fl, i), lis, s) + Due(fl, lis, s)[i] = DueSum(fl, lis, s)
<1> DEFINE k == Accounts!RemoveAt(fl, i)
           f == Due(fl, lis, s)
           g == Due(k, lis, s)
<1>1. /\ k \in Seq(Packets) /\ Len(k) = Len(fl) - 1 /\ Len(fl) \in Nat
      /\ \A j \in 1..(Len(fl) - 1) : k[j] = (IF j < i THEN fl[j] ELSE fl[j + 1])
  BY RemoveFields
<1> HIDE DEF k
<1>2. \A j \in 1..Len(fl) : f[j] \in Nat
  BY DueType
<1>3. \A j \in 1..(Len(fl) - 1) : g[j] = (IF j < i THEN f[j] ELSE f[j + 1])
  <2> SUFFICES ASSUME NEW j \in 1..(Len(fl) - 1) PROVE g[j] = (IF j < i THEN f[j] ELSE f[j + 1])
    OBVIOUS
  <2>1. j \in 1..Len(k) /\ j \in 1..Len(fl) /\ j + 1 \in 1..Len(fl)
    BY <1>1
  <2>2. CASE j < i
    BY <1>1, <2>1, <2>2 DEF Due
  <2>3. CASE ~(j < i)
    BY <1>1, <2>1, <2>3 DEF Due
  <2> QED
    BY <2>2, <2>3
<1> HIDE DEF f, g
<1>4. SumOn(g, 1..(Len(fl) - 1)) + f[i] = SumOn(f, 1..Len(fl))
  BY <1>1, <1>2, <1>3, SumRemove
<1> QED
  BY <1>1, <1>4 DEF DueSum, f, g, k

LEMMA DueSame ==
  ASSUME NEW fl \in Seq(Packets), NEW lis, NEW lis2, NEW s,
         \A i \in 1..Len(fl) : fl[i].flow[3] \in lis <=> fl[i].flow[3] \in lis2
  PROVE  DueSum(fl, lis2, s) = DueSum(fl, lis, s)
<1>1. Due(fl, lis2, s) = Due(fl, lis, s)
  BY DEF Due
<1> QED
  BY <1>1 DEF DueSum

LEMMA NothingDue ==
  ASSUME NEW fl \in Seq(Packets), NEW s
  PROVE  DueSum(fl, {}, s) = 0
<1>1. \A i \in 1..Len(fl) : Due(fl, {}, s)[i] = 0
  BY DEF Due
<1> QED
  BY <1>1, FlightIndices, SumZero DEF DueSum

-----------------------------------------------------------------------------
(* The invariant.  What is due is covered by what its service has sent     *)
(* since the reset: a sink that is traced was installed after it, so that  *)
(* a flow to it was too, and its source is traced.                         *)

AccountTypes ==
  /\ now \in Nat \ {0} /\ now <= AccountTime
  /\ listening \subseteq sinks /\ sources \subseteq Flows /\ registry \subseteq Tcp \X Node
  /\ traced \in [Tcp \X Node -> {0, 1}] /\ flight \in Seq(Packets)
  /\ book \in Books /\ window \in WindowTables /\ rxBytes \in [Kinds \X Node -> Nat]
  /\ LoggedBy(log, now)

FlowsTraced ==
  /\ \A k \in Tcp \X Node : traced[k] = 1 <=> k \in registry
  /\ \A f \in sources : /\ f[3] \in sinks
                        /\ f[1] \in Tcp /\ f[3] \in listening => <<f[1], f[2]>> \in registry
  /\ \A i \in 1..Len(flight) : flight[i].flow[3] \in sinks

DeliveriesCount(b, rx) ==
  \A s \in Kinds : /\ \A n \in Node : b[s].user[n] = rx[<<s, n>>]
                   /\ b[s].delivered = SumOn([n \in Node |-> rx[<<s, n>>]], Node)
DueCovered(b, fl, lis) ==
  \A s \in Kinds : b[s].delivered + DueSum(fl, lis, s) <= b[s].generated

AccountsHold ==
  /\ AccountTypes /\ FlowsTraced /\ AddsUp(book, window, log, now)
  /\ DeliveriesCount(book, rxBytes) /\ DueCovered(book, flight, listening)

AccountsInv == service = "accounts" => AccountsHold

LEMMA FlowFields ==
  ASSUME NEW f \in Flows
  PROVE  f[1] \in Kinds /\ f[2] \in Node /\ f[3] \in Node
BY DEF Flows

LEMMA CountsAreNat ==
  ASSUME NEW b \in Books, NEW s \in Kinds
  PROVE  b[s].generated \in Nat /\ b[s].delivered \in Nat
<1>1. s \in Accounts!Account
  BY AccountsConstants
<1>2. b[s] \in AccountRecords
  BY <1>1 DEF Books
<1> QED
  BY <1>2, AccountFields

(* The packet of a sending that is counted may be on its way.              *)
LEMMA CoveredAfterSending ==
  ASSUME NEW b \in Books, NEW c \in Books, NEW s \in Kinds, NEW useful \in Nat,
         NEW fl \in Seq(Packets), NEW lis, NEW k, DueCovered(b, fl, lis),
         \A r \in Kinds : /\ c[r].delivered = b[r].delivered
                          /\ c[r].generated = b[r].generated + (IF r = s THEN useful ELSE 0),
         \A r \in Kinds : /\ DueSum(k, lis, r) \in Nat
                          /\ DueSum(k, lis, r) <= DueSum(fl, lis, r) + (IF r = s THEN useful ELSE 0)
  PROVE  DueCovered(c, k, lis)
<1> SUFFICES ASSUME NEW r \in Kinds
             PROVE  c[r].delivered + DueSum(k, lis, r) <= c[r].generated
  BY DEF DueCovered
<1> DEFINE d == DueSum(fl, lis, r)
           g == DueSum(k, lis, r)
           x == IF r = s THEN useful ELSE 0
           bd == b[r].delivered
           bg == b[r].generated
           cd == c[r].delivered
           cg == c[r].generated
<1>1. bd \in Nat /\ bg \in Nat
  BY CountsAreNat
<1>2. d \in Nat
  BY DueType
<1>3. bd + d <= bg
  BY DEF DueCovered
<1>4. x \in Nat
  OBVIOUS
<1>5. cd = bd /\ cg = bg + x /\ g \in Nat /\ g <= d + x
  OBVIOUS
<1> HIDE DEF d, g, x, bd, bg, cd, cg
<1>6. cd + g <= cg
  BY <1>1, <1>2, <1>3, <1>4, <1>5
<1> QED
  BY <1>6 DEF cd, g, cg

LEMMA DeliveriesKept ==
  ASSUME NEW b, NEW c, NEW rx, DeliveriesCount(b, rx),
         \A r \in Kinds : c[r].user = b[r].user /\ c[r].delivered = b[r].delivered
  PROVE  DeliveriesCount(c, rx)
BY DEF DeliveriesCount

(* A packet is put in flight.                                              *)
LEMMA PacketSent ==
  ASSUME NEW f \in Flows, NEW payload \in Nat, NEW fl \in Seq(Packets), NEW lis
  PROVE  LET k == Append(fl, Accounts!Packet(f, payload)) IN
         /\ k \in Seq(Packets) /\ Accounts!Packet(f, payload).flow = f
         /\ \A r \in Kinds : DueSum(k, lis, r) = DueSum(fl, lis, r) +
                               (IF f[1] = r /\ f[3] \in lis THEN payload ELSE 0)
<1> DEFINE p == Accounts!Packet(f, payload)
<1>1. p = [flow |-> f, size |-> Accounts!WithHeader(f[1], payload)]
  BY DEF Accounts!Packet
<1>2. p.flow = f /\ p.size = Accounts!WithHeader(f[1], payload) /\ p \in Packets
  <2>1. Accounts!WithHeader(f[1], payload) \in Nat
    BY HeaderTaken, AccountsConstants
  <2> HIDE DEF p
  <2> QED
    BY <1>1, <2>1 DEF Packets
<1> HIDE DEF p
<1>3. Append(fl, p) \in Seq(Packets)
  BY <1>2, DueAppend
<1>4. ASSUME NEW r \in Kinds
      PROVE  DueSum(Append(fl, p), lis, r) = DueSum(fl, lis, r) +
               (IF f[1] = r /\ f[3] \in lis THEN payload ELSE 0)
  <2>1. DueSum(Append(fl, p), lis, r) = DueSum(fl, lis, r) +
          (IF p.flow[1] = r /\ p.flow[3] \in lis THEN Accounts!WithoutHeader(r, p.size) ELSE 0)
    BY <1>2, DueAppend
  <2>2. Accounts!WithoutHeader(f[1], Accounts!WithHeader(f[1], payload)) = payload
    BY HeaderTaken, AccountsConstants
  <2> QED
    BY <1>2, <2>1, <2>2
<1> QED
  BY <1>2, <1>3, <1>4 DEF p

(* A sending that is seen.                                                 *)
LEMMA SeenInv ==
  ASSUME AccountsHold, now' = now, NEW f \in Flows, NEW payload \in Nat, NEW wire \in Nat,
         Accounts!AccountTx(f[1], f[2], wire, payload, 1),
         log' = Append(log, Accounts!Entry(f, payload)),
         UNCHANGED <<Accounts!traceVars, rxBytes>>,
         \/ flight' = flight
         \/ flight' = Append(flight, Accounts!Packet(f, payload)) /\ f[3] \in sinks
  PROVE  AccountsHold'
<1>1. AccountTypes /\ FlowsTraced /\ AddsUp(book, window, log, now)
      /\ DeliveriesCount(book, rxBytes) /\ DueCovered(book, flight, listening)
  BY DEF AccountsHold
<1>2. /\ now \in Nat \ {0} /\ now <= AccountTime /\ flight \in Seq(Packets)
      /\ book \in Books /\ window \in WindowTables /\ LoggedBy(log, now)
  BY <1>1 DEF AccountTypes
<1>3. f[1] \in Kinds /\ f[2] \in Node
  BY FlowFields
<1>4. /\ book' \in Books /\ window' \in WindowTables /\ LoggedBy(log', now)
      /\ AddsUp(book', window', log', now)
      /\ \A r \in Kinds : /\ book'[r].user = book[r].user
                          /\ book'[r].delivered = book[r].delivered
                          /\ book'[r].generated = book[r].generated + (IF r = f[1] THEN payload ELSE 0)
  <2>1. log' = Append(log, [time |-> now, service |-> f[1], node |-> f[2], useful |-> payload])
    BY DEF Accounts!Entry
  <2> QED
    BY <1>1, <1>2, <1>3, <2>1, SendingCounted
<1>5. UNCHANGED <<sinks, listening, sources, registry, traced, rxBytes>>
  BY DEF Accounts!traceVars
<1>6. /\ flight' \in Seq(Packets)
      /\ \A i \in 1..Len(flight') : flight'[i].flow[3] \in sinks
      /\ \A r \in Kinds : /\ DueSum(flight', listening, r) \in Nat
                          /\ DueSum(flight', listening, r) <=
                               DueSum(flight, listening, r) + (IF r = f[1] THEN payload ELSE 0)
  <2>1. \A i \in 1..Len(flight) : flight[i].flow[3] \in sinks
    BY <1>1 DEF FlowsTraced
  <2>2. \A r \in Kinds : DueSum(flight, listening, r) \in Nat
    BY <1>2, DueType
  <2>3. CASE flight' = flight
    <3>1. ASSUME NEW r \in Kinds
          PROVE  DueSum(flight, listening, r) <=
                   DueSum(flight, listening, r) + (IF r = f[1] THEN payload ELSE 0)
      <4> DEFINE d == DueSum(flight, listening, r)
      <4>1. d \in Nat
        BY <2>2
      <4> HIDE DEF d
      <4>2. d <= d + (IF r = f[1] THEN payload ELSE 0)
        BY <4>1
      <4> QED
        BY <4>2 DEF d
    <3> QED
      BY <1>2, <2>1, <2>2, <2>3, <3>1
  <2>4. CASE flight' = Append(flight, Accounts!Packet(f, payload)) /\ f[3] \in sinks
    <3> DEFINE p == Accounts!Packet(f, payload)
               k == Append(flight, p)
    <3>1. /\ k \in Seq(Packets) /\ p.flow = f
          /\ \A r \in Kinds : DueSum(k, listening, r) = DueSum(flight, listening, r) +
                                (IF f[1] = r /\ f[3] \in listening THEN payload ELSE 0)
      BY <1>2, PacketSent
    <3> HIDE DEF p
    <3>2. \A i \in 1..Len(k) : k[i].flow[3] \in sinks
      <4>1. \A i \in 1..Len(k) : (i \in 1..Len(flight) /\ k[i] = flight[i]) \/ k[i] = p
        BY <1>2
      <4> QED
        BY <2>1, <2>4, <3>1, <4>1
    <3>3. ASSUME NEW r \in Kinds
          PROVE  /\ DueSum(k, listening, r) \in Nat
                 /\ DueSum(k, listening, r) <=
                      DueSum(flight, listening, r) + (IF r = f[1] THEN payload ELSE 0)
      <4> DEFINE d == DueSum(flight, listening, r)
                 g == DueSum(k, listening, r)
      <4>1. d \in Nat /\ g = d + (IF f[1] = r /\ f[3] \in listening THEN payload ELSE 0)
        BY <2>2, <3>1
      <4> HIDE DEF d, g
      <4>2. g \in Nat /\ g <= d + (IF r = f[1] THEN payload ELSE 0)
        BY <4>1
      <4> QED
        BY <4>2 DEF d, g
    <3>4. flight' = k
      BY <2>4 DEF p
    <3> HIDE DEF k
    <3> QED
      BY <3>1, <3>2, <3>3, <3>4
  <2> QED
    BY <2>3, <2>4
<1>7. DueCovered(book', flight', listening')
  <2> DEFINE c == book'
             k == flight'
             s == f[1]
  <2>1. /\ c \in Books /\ s \in Kinds /\ book \in Books /\ flight \in Seq(Packets)
        /\ DueCovered(book, flight, listening)
    BY <1>1, <1>2, <1>3, <1>4
  <2>2. \A r \in Kinds : /\ c[r].delivered = book[r].delivered
                         /\ c[r].generated = book[r].generated + (IF r = s THEN payload ELSE 0)
    BY <1>4
  <2>3. \A r \in Kinds : /\ DueSum(k, listening, r) \in Nat
                         /\ DueSum(k, listening, r) <=
                              DueSum(flight, listening, r) + (IF r = s THEN payload ELSE 0)
    BY <1>6
  <2>4. listening' = listening
    BY <1>5
  <2> HIDE DEF c, k, s
  <2>5. DueCovered(c, k, listening)
    BY <2>1, <2>2, <2>3, CoveredAfterSending
  <2> QED
    BY <2>4, <2>5 DEF c, k
<1>8. DeliveriesCount(book', rxBytes')
  BY <1>1, <1>4, <1>5, DeliveriesKept
<1>9. AccountTypes'
  BY <1>1, <1>2, <1>4, <1>5, <1>6 DEF AccountTypes
<1>10. FlowsTraced'
  BY <1>1, <1>5, <1>6 DEF FlowsTraced
<1>11. AddsUp(book', window', log', now')
  BY <1>4
<1> QED
  BY <1>7, <1>8, <1>9, <1>10, <1>11 DEF AccountsHold

(* One that is not: neither its sink is traced.                            *)
LEMMA UnseenInv ==
  ASSUME AccountsHold, UNCHANGED <<now, Accounts!traceVars, Accounts!bookVars, log>>,
         NEW f \in Flows, NEW payload \in Nat,
         \/ flight' = flight
         \/ flight' = Append(flight, Accounts!Packet(f, payload)) /\ f[3] \in sinks \ listening
  PROVE  AccountsHold'
<1>1. AccountTypes /\ FlowsTraced /\ AddsUp(book, window, log, now)
      /\ DeliveriesCount(book, rxBytes) /\ DueCovered(book, flight, listening)
  BY DEF AccountsHold
<1>2. flight \in Seq(Packets)
  BY <1>1 DEF AccountTypes
<1>3. UNCHANGED <<now, sinks, listening, sources, registry, traced, book, window, rxBytes, log>>
  BY DEF Accounts!traceVars, Accounts!bookVars
<1>4. /\ flight' \in Seq(Packets)
      /\ \A i \in 1..Len(flight') : flight'[i].flow[3] \in sinks
      /\ \A r \in Kinds : DueSum(flight', listening, r) = DueSum(flight, listening, r)
  <2>1. \A i \in 1..Len(flight) : flight[i].flow[3] \in sinks
    BY <1>1 DEF FlowsTraced
  <2>2. CASE flight' = flight
    BY <1>2, <2>1, <2>2
  <2>3. CASE flight' = Append(flight, Accounts!Packet(f, payload)) /\ f[3] \in sinks \ listening
    <3> DEFINE p == Accounts!Packet(f, payload)
               k == Append(flight, p)
    <3>1. /\ k \in Seq(Packets) /\ p.flow = f
          /\ \A r \in Kinds : DueSum(k, listening, r) = DueSum(flight, listening, r) +
                                (IF f[1] = r /\ f[3] \in listening THEN payload ELSE 0)
      BY <1>2, PacketSent
    <3> HIDE DEF p
    <3>2. \A i \in 1..Len(k) : k[i].flow[3] \in sinks
      <4>1. \A i \in 1..Len(k) : (i \in 1..Len(flight) /\ k[i] = flight[i]) \/ k[i] = p
        BY <1>2
      <4> QED
        BY <2>1, <2>3, <3>1, <4>1
    <3>3. ASSUME NEW r \in Kinds
          PROVE  DueSum(k, listening, r) = DueSum(flight, listening, r)
      <4> DEFINE d == DueSum(flight, listening, r)
                 g == DueSum(k, listening, r)
      <4>1. d \in Nat /\ g = d + 0
        BY <1>2, <2>3, <3>1, DueType
      <4> HIDE DEF d, g
      <4>2. g = d
        BY <4>1
      <4> QED
        BY <4>2 DEF d, g
    <3>4. flight' = k
      BY <2>3 DEF p
    <3> HIDE DEF k
    <3> QED
      BY <3>1, <3>2, <3>3, <3>4
  <2> QED
    BY <2>2, <2>3
<1>5. DueCovered(book', flight', listening')
  BY <1>1, <1>3, <1>4 DEF DueCovered
<1>6. DeliveriesCount(book', rxBytes') /\ AddsUp(book', window', log', now')
  BY <1>1, <1>3
<1>7. AccountTypes'
  BY <1>1, <1>3, <1>4 DEF AccountTypes
<1>8. FlowsTraced'
  BY <1>1, <1>3, <1>4 DEF FlowsTraced
<1> QED
  BY <1>5, <1>6, <1>7, <1>8 DEF AccountsHold

LEMMA OutgoingInv ==
  ASSUME AccountsHold, now' = now, NEW f \in Flows, f[1] \in Tcp, NEW payload \in Nat,
         Accounts!Outgoing(f, payload), UNCHANGED <<Accounts!traceVars, rxBytes>>,
         \/ flight' = flight
         \/ /\ flight' = Append(flight, Accounts!Packet(f, payload)) /\ f[3] \in sinks
            /\ f[3] \in listening => traced[<<f[1], f[2]>>] = 1
  PROVE  AccountsHold'
<1>1. traced[<<f[1], f[2]>>] \in {0, 1}
  BY FlowFields DEF AccountsHold, AccountTypes
<1>2. CASE traced[<<f[1], f[2]>>] = 1
  <2>1. Accounts!AccountTx(f[1], f[2], payload + IpHeader, payload, 1)
        /\ log' = Append(log, Accounts!Entry(f, payload))
    <3>1. traced[<<f[1], f[2]>>] # 0
      BY <1>2
    <3> QED
      BY <1>2, <3>1, Zenon DEF Accounts!Outgoing
  <2>2. payload + IpHeader \in Nat
    BY AccountsConstants
  <2> QED
    BY <2>1, <2>2, SeenInv
<1>3. CASE traced[<<f[1], f[2]>>] = 0
  <2>1. Accounts!AccountTx(f[1], f[2], payload + IpHeader, payload, 0) /\ log' = log
    BY <1>3, Zenon DEF Accounts!Outgoing
  <2>2. book' = book /\ window' = window
    BY <2>1, AccountTxNever
  <2>3. UNCHANGED <<now, Accounts!traceVars, Accounts!bookVars, log>>
    BY <2>1, <2>2 DEF Accounts!bookVars
  <2>4. \/ flight' = flight
        \/ flight' = Append(flight, Accounts!Packet(f, payload)) /\ f[3] \in sinks \ listening
    BY <1>3
  <2> QED
    BY <2>3, <2>4, UnseenInv
<1> QED
  BY <1>1, <1>2, <1>3

LEMMA SendingsInv ==
  ASSUME AccountsHold, NEW f \in sources,
         \/ \E payload \in Payload : Accounts!SendUdp(f, payload)
         \/ \E payload \in Payload \cup {0} : Accounts!SendTcp(f, payload)
  PROVE  AccountsHold'
<1>1. /\ f \in Flows /\ f[3] \in sinks
      /\ f[1] \in Tcp /\ f[3] \in listening => <<f[1], f[2]>> \in registry
      /\ \A k \in Tcp \X Node : traced[k] = 1 <=> k \in registry
  BY DEF AccountsHold, AccountTypes, FlowsTraced
<1>2. Payload \subseteq Nat \ {0} /\ IpHeader \in Nat /\ RtpHeader \in Nat
  BY AccountsConstants
<1>3. CASE \E payload \in Payload : Accounts!SendUdp(f, payload)
  <2>1. PICK payload \in Payload : Accounts!SendUdp(f, payload)
    BY <1>3
  <2>2. payload \in Nat
    BY <1>2
  <2>3. /\ now' = now
        /\ Accounts!AccountTx(f[1], f[2], Accounts!WithHeader(f[1], payload) + IpHeader, payload, 1)
        /\ flight' = Append(flight, Accounts!Packet(f, payload))
        /\ log' = Append(log, Accounts!Entry(f, payload))
        /\ UNCHANGED <<Accounts!traceVars, rxBytes>>
    BY <2>1, Zenon DEF Accounts!SendUdp, Accounts!Event
  <2>4. Accounts!WithHeader(f[1], payload) + IpHeader \in Nat
    BY <1>2, <2>2, HeaderTaken
  <2> QED
    BY <1>1, <2>2, <2>3, <2>4, SeenInv
<1>4. CASE \E payload \in Payload \cup {0} : Accounts!SendTcp(f, payload)
  <2>1. PICK payload \in Payload \cup {0} : Accounts!SendTcp(f, payload)
    BY <1>4
  <2>2. payload \in Nat
    BY <1>2
  <2>3. /\ now' = now /\ f[1] \in Tcp /\ Accounts!Outgoing(f, payload)
        /\ flight' = (IF payload = 0 THEN flight ELSE Append(flight, Accounts!Packet(f, payload)))
        /\ UNCHANGED <<Accounts!traceVars, rxBytes>>
    BY <2>1, Zenon DEF Accounts!SendTcp, Accounts!Event
  <2>4. f[3] \in listening => traced[<<f[1], f[2]>>] = 1
    BY <1>1, <2>3, FlowFields
  <2> QED
    BY <1>1, <2>2, <2>3, <2>4, OutgoingInv
<1> QED
  BY <1>3, <1>4

LEMMA RetransmitInv ==
  ASSUME AccountsHold, NEW i \in DOMAIN flight, Accounts!Retransmit(i)
  PROVE  AccountsHold'
<1>1. flight \in Seq(Packets)
  BY DEF AccountsHold, AccountTypes
<1>2. i \in 1..Len(flight)
  BY <1>1
<1>3. flight[i].flow \in Flows /\ flight[i].size \in Nat
  BY <1>1, <1>2, FlightIndices
<1>4. /\ now' = now /\ flight[i].flow[1] \in Tcp
      /\ Accounts!Outgoing(flight[i].flow, flight[i].size)
      /\ UNCHANGED <<Accounts!traceVars, flight, rxBytes>>
  BY Zenon DEF Accounts!Retransmit, Accounts!Event
<1> QED
  BY <1>3, <1>4, OutgoingInv

-----------------------------------------------------------------------------
(* What is installed changes no book, and nothing is due for it.           *)

LEMMA InstalledInv ==
  ASSUME AccountsHold, Accounts!Installed, AccountTypes', FlowsTraced',
         listening \subseteq listening', \A n \in listening' : n \in sinks => n \in listening
  PROVE  AccountsHold'
<1>1. AccountTypes /\ FlowsTraced /\ AddsUp(book, window, log, now)
      /\ DeliveriesCount(book, rxBytes) /\ DueCovered(book, flight, listening)
  BY DEF AccountsHold
<1>2. UNCHANGED <<now, flight, book, window, rxBytes, log>>
  BY DEF Accounts!Installed, Accounts!bookVars
<1>3. ASSUME NEW s \in Kinds
      PROVE  DueSum(flight, listening', s) = DueSum(flight, listening, s)
  <2>1. flight \in Seq(Packets) /\ \A i \in 1..Len(flight) : flight[i].flow[3] \in sinks
    BY <1>1 DEF AccountTypes, FlowsTraced
  <2>2. \A i \in 1..Len(flight) : flight[i].flow[3] \in listening <=> flight[i].flow[3] \in listening'
    BY <2>1
  <2> QED
    BY <2>1, <2>2, DueSame
<1>4. DueCovered(book', flight', listening')
  BY <1>1, <1>2, <1>3 DEF DueCovered
<1> QED
  BY <1>1, <1>2, <1>4 DEF AccountsHold

LEMMA InstallInv ==
  ASSUME AccountsHold,
         \/ \E n \in Node : Accounts!InstallSink(n)
         \/ \E s \in Kinds, n, to \in Node :
              Accounts!InstallFtp(s, n, to) \/ Accounts!InstallUdp(s, n, to)
  PROVE  AccountsHold'
<1>1. AccountTypes /\ FlowsTraced
  BY DEF AccountsHold
<1>2. ASSUME Accounts!Installed
      PROVE  UNCHANGED <<now, flight, book, window, rxBytes, log>>
  BY <1>2 DEF Accounts!Installed, Accounts!bookVars
<1>3. CASE \E n \in Node : Accounts!InstallSink(n)
  <2>1. PICK n \in Node : Accounts!InstallSink(n)
    BY <1>3
  <2>2. /\ n \notin sinks /\ sinks' = sinks \cup {n} /\ listening' = listening \cup {n}
        /\ UNCHANGED <<sources, registry, traced>> /\ Accounts!Installed
    BY <2>1 DEF Accounts!InstallSink
  <2>3. UNCHANGED <<now, flight, book, window, rxBytes, log>>
    BY <1>2, <2>2
  <2>4. AccountTypes'
    BY <1>1, <2>2, <2>3 DEF AccountTypes
  <2>5. FlowsTraced'
    BY <1>1, <2>2, <2>3 DEF FlowsTraced
  <2> QED
    BY <2>2, <2>4, <2>5, InstalledInv
<1>4. CASE \E s \in Kinds, n, to \in Node : Accounts!InstallFtp(s, n, to)
  <2>1. PICK s \in Kinds, n \in Node, to \in Node : Accounts!InstallFtp(s, n, to)
    BY <1>4
  <2>2. /\ s \in Tcp /\ to \in sinks /\ sources' = sources \cup {<<s, n, to>>}
        /\ registry' = registry \cup {<<s, n>>}
        /\ traced' = [traced EXCEPT ![<<s, n>>] = @ + (IF <<s, n>> \in registry THEN 0 ELSE 1)]
        /\ UNCHANGED <<sinks, listening>> /\ Accounts!Installed
    BY <2>1 DEF Accounts!InstallFtp, Accounts!RegisterIpv4TcpTxTrace
  <2>3. UNCHANGED <<now, flight, book, window, rxBytes, log>>
    BY <1>2, <2>2
  <2>4. <<s, n>> \in Tcp \X Node /\ <<s, n, to>> \in Flows
    BY <2>2 DEF Flows
  <2>5. traced \in [Tcp \X Node -> {0, 1}] /\ \A k \in Tcp \X Node : traced[k] = 1 <=> k \in registry
    BY <1>1 DEF AccountTypes, FlowsTraced
  <2>6. traced' = [traced EXCEPT ![<<s, n>>] = 1]
    <3> DEFINE k == <<s, n>>
               x == traced[k] + (IF k \in registry THEN 0 ELSE 1)
    <3>1. traced' = [traced EXCEPT ![k] = x]
      BY <2>2
    <3>2. k \in Tcp \X Node
      BY <2>4
    <3> HIDE DEF k
    <3>3. x = 1
      <4>1. traced[k] \in {0, 1} /\ (traced[k] = 1 <=> k \in registry)
        BY <2>5, <3>2
      <4> QED
        BY ONLY <4>1
    <3> HIDE DEF x
    <3> QED
      BY <3>1, <3>3 DEF k
  <2>7. /\ traced' \in [Tcp \X Node -> {0, 1}]
        /\ \A k \in Tcp \X Node : traced'[k] = 1 <=> k \in registry'
    <3>1. traced' \in [Tcp \X Node -> {0, 1}]
      BY <2>4, <2>5, <2>6
    <3>2. \A k \in Tcp \X Node : traced'[k] = IF k = <<s, n>> THEN 1 ELSE traced[k]
      BY <2>5, <2>6
    <3> QED
      BY <2>2, <2>5, <3>1, <3>2
  <2>8. AccountTypes'
    BY <1>1, <2>2, <2>3, <2>4, <2>7 DEF AccountTypes
  <2>9. FlowsTraced'
    <3>1. ASSUME NEW f \in sources'
          PROVE  f[3] \in sinks /\ (f[1] \in Tcp /\ f[3] \in listening => <<f[1], f[2]>> \in registry')
      <4>1. CASE f \in sources
        BY <1>1, <2>2, <4>1 DEF FlowsTraced
      <4>2. CASE f = <<s, n, to>>
        BY <2>2, <4>2
      <4> QED
        BY <2>2, <4>1, <4>2
    <3> QED
      BY <1>1, <2>2, <2>3, <2>7, <3>1 DEF FlowsTraced
  <2> QED
    BY <2>2, <2>8, <2>9, InstalledInv
<1>5. CASE \E s \in Kinds, n, to \in Node : Accounts!InstallUdp(s, n, to)
  <2>1. PICK s \in Kinds, n \in Node, to \in Node : Accounts!InstallUdp(s, n, to)
    BY <1>5
  <2>2. /\ s \notin Tcp /\ to \in sinks /\ sources' = sources \cup {<<s, n, to>>}
        /\ UNCHANGED <<sinks, listening, registry, traced>> /\ Accounts!Installed
    BY <2>1 DEF Accounts!InstallUdp
  <2>3. UNCHANGED <<now, flight, book, window, rxBytes, log>>
    BY <1>2, <2>2
  <2>4. <<s, n, to>> \in Flows
    BY DEF Flows
  <2>5. AccountTypes'
    BY <1>1, <2>2, <2>3, <2>4 DEF AccountTypes
  <2>6. FlowsTraced'
    <3>1. ASSUME NEW f \in sources'
          PROVE  f[3] \in sinks /\ (f[1] \in Tcp /\ f[3] \in listening => <<f[1], f[2]>> \in registry)
      <4>1. CASE f \in sources
        BY <1>1, <4>1 DEF FlowsTraced
      <4>2. CASE f = <<s, n, to>>
        BY <2>2, <4>2
      <4> QED
        BY <2>2, <4>1, <4>2
    <3> QED
      BY <1>1, <2>2, <2>3, <3>1 DEF FlowsTraced
  <2> QED
    BY <2>2, <2>5, <2>6, InstalledInv
<1> QED
  BY <1>3, <1>4, <1>5

LEMMA ElapseInv ==
  ASSUME AccountsHold, Accounts!Elapse
  PROVE  AccountsHold'
<1>1. AccountTypes /\ FlowsTraced /\ AddsUp(book, window, log, now)
      /\ DeliveriesCount(book, rxBytes) /\ DueCovered(book, flight, listening)
  BY DEF AccountsHold
<1>2. now < AccountTime /\ now' = now + 1
      /\ UNCHANGED <<sinks, listening, sources, registry, traced, flight, book, window, rxBytes, log>>
  BY DEF Accounts!Elapse, Accounts!traceVars, Accounts!bookVars
<1>3. now \in Nat \ {0} /\ AccountTime \in Nat /\ LoggedBy(log, now) /\ window \in WindowTables
  BY <1>1, AccountsConstants DEF AccountTypes
<1>4. LoggedBy(log, now + 1)
  <2>1. log \in Seq(Sendings) /\ \A i \in 1..Len(log) : log[i].time <= now /\ log[i].time >= 1
    BY <1>3 DEF LoggedBy
  <2>2. \A i \in 1..Len(log) : log[i].time \in Nat
    BY <2>1, LogIndices
  <2> QED
    BY <1>3, <2>1, <2>2 DEF LoggedBy
<1>5. AccountTypes'
  BY <1>1, <1>2, <1>3, <1>4 DEF AccountTypes
<1>6. FlowsTraced'
  BY <1>1, <1>2 DEF FlowsTraced
<1>7. WindowsAreReal(window, log, now + 1)
  <2> SUFFICES ASSUME NEW a \in Accounts!Account, NEW n \in Node
               PROVE  WindowIsReal(window[<<a, n>>], log, a, n, now + 1)
    BY DEF WindowsAreReal
  <2>1. WindowIsReal(window[<<a, n>>], log, a, n, now) /\ window[<<a, n>>] \in WindowRecords
    BY <1>1, <1>3 DEF AddsUp, WindowsAreReal, WindowTables
  <2> QED
    BY <1>3, <2>1, WindowElapses
<1>8. AddsUp(book', window', log', now')
  BY <1>1, <1>2, <1>7 DEF AddsUp
<1> QED
  BY <1>1, <1>2, <1>5, <1>6, <1>8 DEF AccountsHold

-----------------------------------------------------------------------------
(* What changes an account of a service and that of all, and no sending.   *)

BothPut(b, s, x, y) == [[b EXCEPT !["total"] = x] EXCEPT ![s] = y]

LEMMA BooksPut ==
  ASSUME NEW b \in Books, NEW s \in Kinds, NEW x \in AccountRecords, NEW y \in AccountRecords,
         NEW c, c = BothPut(b, s, x, y)
  PROVE  c \in Books /\ c["total"] = x /\ c[s] = y /\ \A r \in Kinds : r # s => c[r] = b[r]
<1>1. "total" \in Accounts!Account /\ s \in Accounts!Account /\ "total" # s
      /\ Kinds \subseteq Accounts!Account /\ "total" \notin Kinds
  BY AccountsConstants
<1> DEFINE m == [b EXCEPT !["total"] = x]
<1>2. m \in Books /\ m["total"] = x /\ \A r \in Kinds : m[r] = b[r]
  BY <1>1 DEF Books
<1> HIDE DEF m
<1>3. c = [m EXCEPT ![s] = y]
  BY DEF m, BothPut
<1> QED
  BY <1>1, <1>2, <1>3 DEF Books

SentAsBefore(x, r) ==
  /\ r.generated = x.generated /\ r.sent = x.sent /\ r.packets = x.packets
  /\ r.userPeak = x.userPeak /\ r.peak = x.peak

LEMMA NothingSent ==
  ASSUME NEW b \in Books, NEW c \in Books, NEW w, NEW l, NEW t, AddsUp(b, w, l, t),
         \A a \in Accounts!Account : SentAsBefore(b[a], c[a]),
         FieldBalances(c, "blocked"), FieldBalances(c, "delivered")
  PROVE  AddsUp(c, w, l, t)
<1>1. "total" \in Accounts!Account /\ Kinds \subseteq Accounts!Account
  BY AccountsConstants
<1>2. FieldsBalance(c)
  <2> SUFFICES ASSUME NEW field \in {"generated", "sent", "packets"} PROVE FieldBalances(c, field)
    BY DEF FieldsBalance, TallyFields
  <2>1. field \in TallyFields /\ FieldBalances(b, field)
    BY DEF AddsUp, FieldsBalance, TallyFields
  <2>2. \A a \in Accounts!Account : c[a][field] = b[a][field]
    BY DEF SentAsBefore
  <2> QED
    BY <2>1, <2>2, FieldKept
<1>3. PeaksOfAccounts(c, w)
  BY DEF AddsUp, PeaksOfAccounts, SentAsBefore
<1>4. LogCounts(c, l)
  BY <1>1 DEF AddsUp, LogCounts, SentAsBefore
<1> QED
  BY <1>2, <1>3, <1>4 DEF AddsUp

BlockedOnce(x) ==
  [generated |-> x.generated, sent |-> x.sent, packets |-> x.packets, blocked |-> x.blocked + 1,
   delivered |-> x.delivered, user |-> x.user, userPeak |-> x.userPeak, peak |-> x.peak]

LEMMA BlockedFields ==
  ASSUME NEW x \in AccountRecords
  PROVE  /\ [x EXCEPT !.blocked = x.blocked + 1] = BlockedOnce(x)
         /\ BlockedOnce(x) \in AccountRecords /\ SentAsBefore(x, BlockedOnce(x))
         /\ BlockedOnce(x).blocked = x.blocked + 1 /\ BlockedOnce(x).delivered = x.delivered
         /\ BlockedOnce(x).user = x.user
<1>1. [x EXCEPT !.blocked = x.blocked + 1] = BlockedOnce(x)
  BY DEF AccountRecords, BlockedOnce
<1>2. /\ x.generated \in Nat /\ x.sent \in Nat /\ x.packets \in Nat /\ x.blocked + 1 \in Nat
      /\ x.delivered \in Nat /\ x.user \in [Node -> Nat] /\ x.userPeak \in [Node -> Nat]
      /\ x.peak \in Nat
  BY AccountFields
<1>3. BlockedOnce(x) \in AccountRecords
  BY <1>2 DEF AccountRecords, BlockedOnce
<1> QED
  BY <1>1, <1>3 DEF BlockedOnce, SentAsBefore

ReceivedAt(x, n, e) ==
  [generated |-> x.generated, sent |-> x.sent, packets |-> x.packets, blocked |-> x.blocked,
   delivered |-> x.delivered + e, user |-> [x.user EXCEPT ![n] = x.user[n] + e],
   userPeak |-> x.userPeak, peak |-> x.peak]

DeliveredTo(x, r, n, e) ==
  /\ r.delivered = x.delivered + e /\ r.user[n] = x.user[n] + e
  /\ \A m \in Node : m # n => r.user[m] = x.user[m]

LEMMA ReceivedFields ==
  ASSUME NEW x \in AccountRecords, NEW n \in Node, NEW e \in Nat
  PROVE  /\ [x EXCEPT !.delivered = @ + e, !.user[n] = @ + e] = ReceivedAt(x, n, e)
         /\ ReceivedAt(x, n, e) \in AccountRecords /\ SentAsBefore(x, ReceivedAt(x, n, e))
         /\ ReceivedAt(x, n, e).blocked = x.blocked
         /\ DeliveredTo(x, ReceivedAt(x, n, e), n, e)
<1> DEFINE up == [x.user EXCEPT ![n] = x.user[n] + e]
           m1 == [x EXCEPT !.delivered = x.delivered + e]
<1>1. x.user \in [Node -> Nat]
  BY AccountFields
<1>2. up \in [Node -> Nat] /\ up[n] = x.user[n] + e /\ \A m \in Node : m # n => up[m] = x.user[m]
  BY <1>1
<1>3. m1 = [generated |-> x.generated, sent |-> x.sent, packets |-> x.packets,
            blocked |-> x.blocked, delivered |-> x.delivered + e, user |-> x.user,
            userPeak |-> x.userPeak, peak |-> x.peak]
  BY DEF AccountRecords
<1>4. [x EXCEPT !.delivered = @ + e, !.user[n] = @ + e] = ReceivedAt(x, n, e)
  <2>0. m1.user = x.user
    <3> HIDE DEF m1
    <3> QED
      BY <1>3
  <2>1. [x EXCEPT !.delivered = @ + e, !.user[n] = @ + e] =
          [m1 EXCEPT !.user = [m1.user EXCEPT ![n] = m1.user[n] + e]]
    BY Zenon
  <2>2. [m1 EXCEPT !.user = [m1.user EXCEPT ![n] = m1.user[n] + e]] = [m1 EXCEPT !.user = up]
    BY <2>0
  <2> HIDE DEF m1, up
  <2>3. [m1 EXCEPT !.user = up] =
           [generated |-> x.generated, sent |-> x.sent, packets |-> x.packets,
            blocked |-> x.blocked, delivered |-> x.delivered + e, user |-> up,
            userPeak |-> x.userPeak, peak |-> x.peak]
    BY <1>3
  <2> QED
    BY <2>1, <2>2, <2>3 DEF ReceivedAt, up
<1>5. /\ x.generated \in Nat /\ x.sent \in Nat /\ x.packets \in Nat /\ x.blocked \in Nat
      /\ x.delivered + e \in Nat /\ x.userPeak \in [Node -> Nat] /\ x.peak \in Nat
  BY AccountFields
<1> DEFINE r == ReceivedAt(x, n, e)
<1>6. r = [generated |-> x.generated, sent |-> x.sent, packets |-> x.packets, blocked |-> x.blocked,
           delivered |-> x.delivered + e, user |-> up, userPeak |-> x.userPeak, peak |-> x.peak]
  BY DEF ReceivedAt
<1> HIDE DEF r, up
<1>7. r \in AccountRecords
  BY <1>2, <1>5, <1>6 DEF AccountRecords
<1>8. /\ SentAsBefore(x, r) /\ r.blocked = x.blocked /\ r.delivered = x.delivered + e /\ r.user = up
  BY <1>6 DEF SentAsBefore
<1>9. DeliveredTo(x, r, n, e)
  BY <1>2, <1>8 DEF DeliveredTo
<1> QED
  BY <1>4, <1>7, <1>8, <1>9 DEF r

LEMMA BlockedInv ==
  ASSUME AccountsHold, NEW f \in sources, Accounts!SendBlocked(f)
  PROVE  AccountsHold'
<1>1. AccountTypes /\ FlowsTraced /\ AddsUp(book, window, log, now)
      /\ DeliveriesCount(book, rxBytes) /\ DueCovered(book, flight, listening)
  BY DEF AccountsHold
<1>2. /\ now' = now /\ UNCHANGED <<sinks, listening, sources, registry, traced>>
      /\ UNCHANGED <<flight, window, rxBytes, log>>
  BY DEF Accounts!SendBlocked, Accounts!Event, Accounts!traceVars
<1> DEFINE s == f[1]
           x == book["total"]
           y == book[s]
           c == book'
<1>3. s \in Kinds /\ book \in Books /\ x \in AccountRecords /\ y \in AccountRecords
  <2>1. s \in Kinds /\ book \in Books
    BY <1>1, FlowFields DEF AccountTypes
  <2> QED
    BY <2>1, AccountsConstants DEF Books
<1>4. c = BothPut(book, s, BlockedOnce(x), BlockedOnce(y))
  <2> DEFINE m == [book EXCEPT !["total"] = [x EXCEPT !.blocked = x.blocked + 1]]
  <2>1. c = [m EXCEPT ![s] = [m[s] EXCEPT !.blocked = y.blocked + 1]]
    BY Zenon DEF Accounts!SendBlocked
  <2>2. m[s] = y
    BY <1>3, AccountsConstants DEF Books
  <2>3. [x EXCEPT !.blocked = x.blocked + 1] = BlockedOnce(x)
        /\ [y EXCEPT !.blocked = y.blocked + 1] = BlockedOnce(y)
    <3> HIDE DEF x, y
    <3> QED
      BY <1>3, BlockedFields
  <2>4. [m[s] EXCEPT !.blocked = y.blocked + 1] = [y EXCEPT !.blocked = y.blocked + 1]
    BY <2>2
  <2> HIDE DEF c, x, y, s
  <2>5. m = [book EXCEPT !["total"] = BlockedOnce(x)]
    BY <2>3
  <2> HIDE DEF m
  <2> QED
    BY <2>1, <2>3, <2>4, <2>5 DEF BothPut
<1> HIDE DEF s, x, y, c
<1>5. /\ BlockedOnce(x) \in AccountRecords /\ SentAsBefore(x, BlockedOnce(x))
      /\ BlockedOnce(x).blocked = x.blocked + 1 /\ BlockedOnce(x).delivered = x.delivered
      /\ BlockedOnce(x).user = x.user
      /\ BlockedOnce(y) \in AccountRecords /\ SentAsBefore(y, BlockedOnce(y))
      /\ BlockedOnce(y).blocked = y.blocked + 1 /\ BlockedOnce(y).delivered = y.delivered
      /\ BlockedOnce(y).user = y.user
  BY <1>3, BlockedFields
<1>6. /\ c \in Books /\ c["total"] = BlockedOnce(x) /\ c[s] = BlockedOnce(y)
      /\ \A r \in Kinds : r # s => c[r] = book[r]
  <2> DEFINE x2 == BlockedOnce(x)
             y2 == BlockedOnce(y)
  <2>1. c = BothPut(book, s, x2, y2) /\ x2 \in AccountRecords /\ y2 \in AccountRecords
    BY <1>4, <1>5
  <2>0. s \in Kinds /\ book \in Books
    BY <1>3
  <2> HIDE DEF x2, y2
  <2>2. c \in Books /\ c["total"] = x2 /\ c[s] = y2 /\ \A r \in Kinds : r # s => c[r] = book[r]
    BY ONLY <2>0, <2>1, BooksPut
  <2> QED
    BY <2>2 DEF x2, y2
<1>7. Accounts!Account = {"total"} \cup Kinds
  BY AccountsConstants
<1>8. \A a \in Accounts!Account :
        SentAsBefore(book[a], c[a]) /\ c[a].delivered = book[a].delivered /\ c[a].user = book[a].user
  <2> SUFFICES ASSUME NEW a \in Accounts!Account
               PROVE  SentAsBefore(book[a], c[a]) /\ c[a].delivered = book[a].delivered
                      /\ c[a].user = book[a].user
    OBVIOUS
  <2>1. CASE a = "total"
    BY <1>5, <1>6, <2>1 DEF x
  <2>2. CASE a = s
    BY <1>5, <1>6, <2>2 DEF y
  <2>3. CASE a \in Kinds /\ a # s
    BY <1>6, <2>3 DEF SentAsBefore
  <2> QED
    BY <1>7, <2>1, <2>2, <2>3
<1>9. FieldBalances(c, "blocked")
  <2>1. c["total"]["blocked"] = book["total"]["blocked"] + 1 /\ c[s]["blocked"] = book[s]["blocked"] + 1
        /\ \A r \in Kinds : r # s => c[r]["blocked"] = book[r]["blocked"]
    BY <1>5, <1>6 DEF x, y
  <2>2. FieldBalances(book, "blocked") /\ "blocked" \in TallyFields
    BY <1>1 DEF AddsUp, FieldsBalance, TallyFields
  <2> QED
    BY <1>3, <1>6, <2>1, <2>2, FieldPut
<1>10. FieldBalances(c, "delivered")
  <2>1. FieldBalances(book, "delivered") /\ "delivered" \in TallyFields
    BY <1>1 DEF AddsUp, FieldsBalance, TallyFields
  <2>2. \A a \in Accounts!Account : c[a]["delivered"] = book[a]["delivered"]
    BY <1>8
  <2> QED
    BY <1>3, <1>6, <2>1, <2>2, FieldKept
<1>11. AddsUp(c, window, log, now)
  BY <1>1, <1>3, <1>6, <1>8, <1>9, <1>10, NothingSent
<1>12. \A r \in Kinds : c[r].user = book[r].user /\ c[r].delivered = book[r].delivered
                        /\ c[r].generated = book[r].generated
  BY <1>7, <1>8 DEF SentAsBefore
<1>13. DeliveriesCount(c, rxBytes)
  BY <1>1, <1>12, DeliveriesKept
<1>14. DueCovered(c, flight, listening)
  BY <1>1, <1>12 DEF DueCovered
<1>15. AccountTypes'
  BY <1>1, <1>2, <1>6 DEF AccountTypes, c
<1>16. FlowsTraced'
  BY <1>1, <1>2 DEF FlowsTraced
<1> QED
  BY <1>2, <1>11, <1>13, <1>14, <1>15, <1>16 DEF AccountsHold, c

-----------------------------------------------------------------------------
(* What the reset leaves is empty.                                         *)

LEMMA EmptyBooks ==
  /\ Accounts!EmptyBook \in Books /\ Accounts!NoWindows \in WindowTables
  /\ Accounts!NothingReceived \in [Kinds \X Node -> Nat]
  /\ DeliveriesCount(Accounts!EmptyBook, Accounts!NothingReceived)
  /\ \A s \in Kinds : Accounts!EmptyBook[s].generated = 0 /\ Accounts!EmptyBook[s].delivered = 0
  /\ \A t \in Nat \ {0} : LoggedBy(<<>>, t) /\ AddsUp(Accounts!EmptyBook, Accounts!NoWindows, <<>>, t)
<1> DEFINE b == Accounts!EmptyBook
           w == Accounts!NoWindows
           x == Accounts!EmptyAccount
           z == [n \in Node |-> 0]
<1>0. IsFiniteSet(Kinds) /\ IsFiniteSet(Node) /\ Kinds \subseteq Accounts!Account
      /\ "total" \in Accounts!Account
  BY AccountsConstants
<1>1. z \in [Node -> Nat] /\ \A n \in Node : z[n] = 0
  OBVIOUS
<1>2. x = [generated |-> 0, sent |-> 0, packets |-> 0, blocked |-> 0, delivered |-> 0,
           user |-> z, userPeak |-> z, peak |-> 0]
  BY DEF Accounts!EmptyAccount
<1>3. b = [a \in Accounts!Account |-> x]
  BY DEF Accounts!EmptyBook
<1> HIDE DEF x, z, b
<1>4. x \in AccountRecords
  BY <1>1, <1>2 DEF AccountRecords
<1>5. /\ x.generated = 0 /\ x.sent = 0 /\ x.packets = 0 /\ x.blocked = 0 /\ x.delivered = 0
      /\ x.user = z /\ x.userPeak = z /\ x.peak = 0
  BY <1>2
<1>6. b \in Books /\ \A a \in Accounts!Account : b[a] = x
  BY <1>3, <1>4 DEF Books
<1>7. w \in WindowTables /\ \A a \in Accounts!Account, n \in Node :
        w[<<a, n>>].start = 0 /\ w[<<a, n>>].bytes = 0 /\ w[<<a, n>>].peak = 0
  BY DEF Accounts!NoWindows, Accounts!NoWindow, WindowTables, WindowRecords
<1> HIDE DEF w
<1>8. Accounts!NothingReceived \in [Kinds \X Node -> Nat]
      /\ \A s \in Kinds, n \in Node : Accounts!NothingReceived[<<s, n>>] = 0
  BY DEF Accounts!NothingReceived, Kinds
<1>9. DeliveriesCount(b, Accounts!NothingReceived)
  <2> SUFFICES ASSUME NEW s \in Kinds
               PROVE  /\ \A n \in Node : b[s].user[n] = Accounts!NothingReceived[<<s, n>>]
                      /\ b[s].delivered = SumOn([n \in Node |-> Accounts!NothingReceived[<<s, n>>]], Node)
    BY DEF DeliveriesCount
  <2>1. SumOn([n \in Node |-> Accounts!NothingReceived[<<s, n>>]], Node) = 0
    BY <1>0, <1>8, SumZero
  <2> QED
    BY <1>0, <1>1, <1>5, <1>6, <1>8, <2>1
<1>10. ASSUME NEW t \in Nat \ {0}
       PROVE  LoggedBy(<<>>, t) /\ AddsUp(b, w, <<>>, t)
  <2>1. <<>> \in Seq(Sendings) /\ Len(<<>>) = 0 /\ 1..0 = {}
    OBVIOUS
  <2>2. LoggedBy(<<>>, t)
    BY <2>1 DEF LoggedBy
  <2>3. FieldsBalance(b)
    <3> SUFFICES ASSUME NEW field \in TallyFields PROVE FieldBalances(b, field)
      BY DEF FieldsBalance
    <3>1. \A a \in Accounts!Account : b[a][field] = 0
      BY <1>5, <1>6 DEF TallyFields
    <3>2. \A s \in Kinds : Column(b, field)[s] = 0
      BY <1>0, <3>1 DEF Column
    <3>3. SumOn(Column(b, field), Kinds) = 0
      BY <1>0, <3>2, SumZero
    <3> QED
      BY <1>0, <3>1, <3>3 DEF FieldBalances
  <2>4. PeaksOfAccounts(b, w)
    <3>1. IsMost(x.peak, x.userPeak, Node)
      BY <1>1, <1>5 DEF IsMost
    <3> QED
      BY <1>1, <1>5, <1>6, <1>7, <3>1 DEF PeaksOfAccounts
  <2>5. LogCounts(b, <<>>)
    <3>1. ASSUME NEW s \in Kinds PROVE b[s].generated = SumOn(SentBy(<<>>, s), Node)
      <4>1. \A n \in Node : SentIn(<<>>, s, n, 0, AccountTime + 1) = 0
        BY <2>1, SentNothing
      <4>2. SumOn(SentBy(<<>>, s), Node) = 0
        BY <1>0, <4>1, SumZero DEF SentBy
      <4> QED
        BY <1>0, <1>5, <1>6, <4>2
    <3> QED
      BY <1>0, <1>5, <1>6, <2>1, <3>1 DEF LogCounts
  <2>6. WindowsAreReal(w, <<>>, t)
    <3> SUFFICES ASSUME NEW a \in Accounts!Account, NEW n \in Node
                 PROVE  WindowIsReal(w[<<a, n>>], <<>>, a, n, t)
      BY DEF WindowsAreReal
    <3> DEFINE v == w[<<a, n>>]
    <3>1. v.start = 0 /\ v.bytes = 0 /\ v.peak = 0
      BY <1>7
    <3> HIDE DEF v
    <3>2. PeakShown(v.peak, v.start, <<>>, a, n, t)
      BY <3>1 DEF PeakShown
    <3>3. 0 <= t
      OBVIOUS
    <3> QED
      BY <2>1, <3>1, <3>2, <3>3 DEF WindowIsReal, v
  <2> QED
    BY <2>2, <2>3, <2>4, <2>5, <2>6 DEF AddsUp
<1>11. \A s \in Kinds : b[s].generated = 0 /\ b[s].delivered = 0
  BY <1>0, <1>5, <1>6
<1> QED
  BY <1>6, <1>7, <1>8, <1>9, <1>10, <1>11 DEF b, w

LEMMA EmptyCovered ==
  ASSUME NEW fl \in Seq(Packets)
  PROVE  DueCovered(Accounts!EmptyBook, fl, {})
BY EmptyBooks, NothingDue DEF DueCovered

LEMMA ResetInv ==
  ASSUME AccountsHold, Accounts!ResetStats
  PROVE  AccountsHold'
<1>1. AccountTypes /\ FlowsTraced
  BY DEF AccountsHold
<1>2. /\ now' = now /\ sources' \subseteq sources /\ listening' = {} /\ registry' = {}
      /\ traced' = Accounts!NotTraced /\ book' = Accounts!EmptyBook /\ window' = Accounts!NoWindows
      /\ rxBytes' = Accounts!NothingReceived /\ log' = <<>> /\ sinks' = sinks /\ flight' = flight
  BY DEF Accounts!ResetStats, Accounts!Event
<1>3. now \in Nat \ {0} /\ flight \in Seq(Packets)
  BY <1>1 DEF AccountTypes
<1>4. Accounts!NotTraced \in [Tcp \X Node -> {0, 1}]
      /\ \A k \in Tcp \X Node : Accounts!NotTraced[k] = 0
  BY DEF Accounts!NotTraced
<1>5. LoggedBy(log', now) /\ AddsUp(book', window', log', now) /\ DeliveriesCount(book', rxBytes')
      /\ book' \in Books /\ window' \in WindowTables /\ rxBytes' \in [Kinds \X Node -> Nat]
  BY <1>2, <1>3, EmptyBooks
<1>6. DueCovered(book', flight', listening')
  BY <1>2, <1>3, EmptyCovered
<1>7. AccountTypes'
  BY <1>1, <1>2, <1>4, <1>5 DEF AccountTypes
<1>8. FlowsTraced'
  <2>1. \A k \in Tcp \X Node : traced'[k] = 1 <=> k \in registry'
    BY <1>2, <1>4
  <2>2. \A f \in sources' :
          /\ f[3] \in sinks'
          /\ f[1] \in Tcp /\ f[3] \in listening' => <<f[1], f[2]>> \in registry'
    BY <1>1, <1>2 DEF FlowsTraced
  <2>3. \A i \in 1..Len(flight') : flight'[i].flow[3] \in sinks'
    BY <1>1, <1>2 DEF FlowsTraced
  <2> QED
    BY <2>1, <2>2, <2>3, Zenon DEF FlowsTraced
<1> QED
  BY <1>2, <1>5, <1>6, <1>7, <1>8 DEF AccountsHold

(* Deliveries of a service to a node, in both tables.                      *)
CountedAt(rx, s, n, e) == [rx EXCEPT ![<<s, n>>] = rx[<<s, n>>] + e]

LEMMA DeliveryCounted ==
  ASSUME NEW b \in Books, NEW c \in Books, NEW rx \in [Kinds \X Node -> Nat],
         DeliveriesCount(b, rx), NEW s \in Kinds, NEW n \in Node, NEW e \in Nat,
         NEW ry, ry = CountedAt(rx, s, n, e),
         DeliveredTo(b[s], c[s], n, e),
         \A r \in Kinds : r # s => c[r] = b[r]
  PROVE  ry \in [Kinds \X Node -> Nat] /\ DeliveriesCount(c, ry)
<1>0. IsFiniteSet(Node) /\ <<s, n>> \in Kinds \X Node
  BY AccountsConstants
<1>1. ry \in [Kinds \X Node -> Nat]
  BY <1>0 DEF CountedAt
<1>2. /\ ry[<<s, n>>] = rx[<<s, n>>] + e
      /\ \A r \in Kinds, m \in Node : r # s \/ m # n => ry[<<r, m>>] = rx[<<r, m>>]
  BY <1>0 DEF CountedAt
<1>3. ASSUME NEW r \in Kinds, r # s
      PROVE  /\ \A m \in Node : c[r].user[m] = ry[<<r, m>>]
             /\ c[r].delivered = SumOn([m \in Node |-> ry[<<r, m>>]], Node)
  <2>1. [m \in Node |-> ry[<<r, m>>]] = [m \in Node |-> rx[<<r, m>>]]
    BY <1>2, <1>3
  <2>2. c[r] = b[r]
    BY <1>3
  <2> QED
    BY <1>2, <1>3, <2>1, <2>2 DEF DeliveriesCount
<1>4. \A m \in Node : c[s].user[m] = ry[<<s, m>>]
  <2>1. \A m \in Node : b[s].user[m] = rx[<<s, m>>]
    BY DEF DeliveriesCount
  <2> SUFFICES ASSUME NEW m \in Node PROVE c[s].user[m] = ry[<<s, m>>]
    OBVIOUS
  <2>0. c[s].user[n] = b[s].user[n] + e /\ (m # n => c[s].user[m] = b[s].user[m])
    BY DEF DeliveredTo
  <2>2. CASE m = n
    BY <1>2, <2>0, <2>1, <2>2
  <2>3. CASE m # n
    BY <1>2, <2>0, <2>1, <2>3
  <2> QED
    BY <2>2, <2>3
<1>5. c[s].delivered = SumOn([m \in Node |-> ry[<<s, m>>]], Node)
  <2> DEFINE f == [m \in Node |-> rx[<<s, m>>]]
             g == [m \in Node |-> ry[<<s, m>>]]
  <2>1. \A m \in Node : f[m] \in Nat /\ g[m] \in Nat
    BY <1>1
  <2>2. g[n] = f[n] + e /\ \A m \in Node \ {n} : g[m] = f[m]
    BY <1>2
  <2>3. b[s].delivered = SumOn(f, Node)
    BY DEF DeliveriesCount
  <2> HIDE DEF f, g
  <2>4. SumOn(g, Node) + f[n] = SumOn(f, Node) + g[n]
    <3>1. IsFiniteSet(Node) /\ n \in Node
      BY <1>0
    <3>2. \A m \in Node \ {n} : g[m] = f[m]
      BY <2>2
    <3> QED
      BY ONLY <2>1, <3>1, <3>2, SumPut
  <2>5. SumOn(g, Node) \in Nat /\ SumOn(f, Node) \in Nat
    BY <1>0, <2>1, SumType
  <2>6. f[n] \in Nat /\ g[n] = f[n] + e /\ e \in Nat
    BY <2>1, <2>2
  <2>7. SumOn(g, Node) = SumOn(f, Node) + e
    BY ONLY <2>4, <2>5, <2>6
  <2> QED
    BY <2>3, <2>7 DEF g, DeliveredTo
<1>6. DeliveriesCount(c, ry)
  <2> SUFFICES ASSUME NEW r \in Kinds
               PROVE  /\ \A m \in Node : c[r].user[m] = ry[<<r, m>>]
                      /\ c[r].delivered = SumOn([m \in Node |-> ry[<<r, m>>]], Node)
    BY DEF DeliveriesCount
  <2>1. CASE r = s
    BY <1>4, <1>5, <2>1
  <2>2. CASE r # s
    BY <1>3, <2>2
  <2> QED
    BY <2>1, <2>2
<1> QED
  BY <1>1, <1>6

LEMMA ArrivalInv ==
  ASSUME AccountsHold, NEW i \in DOMAIN flight, Accounts!Receive(i)
  PROVE  AccountsHold'
<1>1. AccountTypes /\ FlowsTraced /\ AddsUp(book, window, log, now)
      /\ DeliveriesCount(book, rxBytes) /\ DueCovered(book, flight, listening)
  BY DEF AccountsHold
<1>2. flight \in Seq(Packets) /\ book \in Books /\ rxBytes \in [Kinds \X Node -> Nat]
  BY <1>1 DEF AccountTypes
<1> DEFINE s == flight[i].flow[1]
           n == flight[i].flow[3]
           e == Accounts!WithoutHeader(s, flight[i].size)
           k == Accounts!RemoveAt(flight, i)
           x == book["total"]
           y == book[s]
           c == book'
<1>3. /\ UNCHANGED <<now, sinks, listening, sources, registry, traced, window, log>>
      /\ flight' = k
  BY DEF Accounts!Receive, Accounts!traceVars
<1>4. i \in 1..Len(flight) /\ s \in Kinds /\ n \in Node /\ e \in Nat
  <2>1. i \in 1..Len(flight)
    BY <1>2
  <2>2. flight[i].flow \in Flows /\ flight[i].size \in Nat
    BY <1>2, <2>1, FlightIndices
  <2>3. e \in Nat
    BY <2>2, HeaderTaken, AccountsConstants
  <2> HIDE DEF e
  <2> QED
    BY <2>1, <2>2, <2>3, FlowFields
<1>5. /\ k \in Seq(Packets) /\ \A j \in 1..Len(k) : k[j].flow[3] \in sinks
      /\ \A r \in Kinds : DueSum(k, listening, r) + Due(flight, listening, r)[i] =
                            DueSum(flight, listening, r)
  <2>1. /\ k \in Seq(Packets) /\ Len(k) = Len(flight) - 1 /\ Len(flight) \in Nat
        /\ \A j \in 1..(Len(flight) - 1) : k[j] = (IF j < i THEN flight[j] ELSE flight[j + 1])
    <3>1. flight \in Seq(Packets) /\ i \in 1..Len(flight)
      BY <1>2, <1>4
    <3>2. Len(flight) \in Nat
      BY <3>1
    <3> QED
      BY ONLY <3>1, <3>2, RemoveFields
  <2>2. \A r \in Kinds : DueSum(k, listening, r) + Due(flight, listening, r)[i] =
                           DueSum(flight, listening, r)
    BY <1>2, <1>4, DueRemove
  <2>3. \A j \in 1..Len(flight) : flight[j].flow[3] \in sinks
    BY <1>1 DEF FlowsTraced
  <2> HIDE DEF k
  <2>4. ASSUME NEW j \in 1..Len(k) PROVE k[j].flow[3] \in sinks
    <3>1. j \in 1..(Len(flight) - 1) /\ j \in 1..Len(flight) /\ j + 1 \in 1..Len(flight)
      BY <2>1
    <3>2. k[j] = flight[j] \/ k[j] = flight[j + 1]
      BY <2>1, <3>1
    <3> QED
      BY <2>3, <3>1, <3>2
  <2> QED
    BY <2>1, <2>2, <2>4
<1>6. \A r \in Kinds : /\ DueSum(k, listening, r) \in Nat
                       /\ DueSum(flight, listening, r) = DueSum(k, listening, r) +
                            (IF r = s /\ n \in listening THEN e ELSE 0)
  <2> SUFFICES ASSUME NEW r \in Kinds
               PROVE  /\ DueSum(k, listening, r) \in Nat
                      /\ DueSum(flight, listening, r) = DueSum(k, listening, r) +
                           (IF r = s /\ n \in listening THEN e ELSE 0)
    OBVIOUS
  <2>1. DueSum(k, listening, r) \in Nat
    BY <1>5, DueType
  <2>2. Due(flight, listening, r)[i] = IF r = s /\ n \in listening THEN e ELSE 0
    BY <1>4 DEF Due
  <2>3. DueSum(k, listening, r) + Due(flight, listening, r)[i] = DueSum(flight, listening, r)
    BY <1>5
  <2> QED
    BY ONLY <2>1, <2>2, <2>3
<1>7. FlowsTraced'
  BY <1>1, <1>3, <1>5 DEF FlowsTraced
<1>8. CASE n \notin listening
  <2>1. UNCHANGED <<book, rxBytes>>
    BY <1>8 DEF Accounts!Receive
  <2>2. AccountTypes'
    BY <1>1, <1>3, <1>5, <2>1 DEF AccountTypes
  <2>3. \A r \in Kinds : DueSum(k, listening, r) = DueSum(flight, listening, r)
    <3> HIDE DEF e, k, s, n
    <3>1. ASSUME NEW r \in Kinds PROVE DueSum(k, listening, r) = DueSum(flight, listening, r)
      <4> DEFINE d == DueSum(k, listening, r)
      <4>1. d \in Nat /\ DueSum(flight, listening, r) = d + 0
        BY <1>6, <1>8
      <4> HIDE DEF d
      <4>2. DueSum(flight, listening, r) = d
        BY <4>1
      <4> QED
        BY <4>2 DEF d
    <3> QED
      BY <3>1
  <2>4. DueCovered(book', flight', listening')
    BY <1>1, <1>3, <2>1, <2>3 DEF DueCovered
  <2>5. AddsUp(book', window', log', now') /\ DeliveriesCount(book', rxBytes')
    BY <1>1, <1>3, <2>1
  <2> QED
    BY <1>7, <2>2, <2>4, <2>5 DEF AccountsHold
<1>9. CASE n \in listening
  <2>0. x \in AccountRecords /\ y \in AccountRecords
    BY <1>2, <1>4, AccountsConstants DEF Books
  <2>1. Accounts!RecordReceivedPacket(n, s, flight[i].size)
    BY <1>9 DEF Accounts!Receive
  <2>2. rxBytes' = CountedAt(rxBytes, s, n, e)
    BY <2>1, Zenon DEF Accounts!RecordReceivedPacket, CountedAt
  <2>3. c = BothPut(book, s, ReceivedAt(x, n, e), ReceivedAt(y, n, e))
    <3>1. c = [[book EXCEPT !["total"] = [x EXCEPT !.delivered = @ + e, !.user[n] = @ + e]]
                    EXCEPT ![s] = [y EXCEPT !.delivered = @ + e, !.user[n] = @ + e]]
      BY <2>1, Zenon DEF Accounts!RecordReceivedPacket
    <3> HIDE DEF c, x, y, e, s, n
    <3>2. [x EXCEPT !.delivered = @ + e, !.user[n] = @ + e] = ReceivedAt(x, n, e)
          /\ [y EXCEPT !.delivered = @ + e, !.user[n] = @ + e] = ReceivedAt(y, n, e)
      BY <1>4, <2>0, ReceivedFields
    <3> QED
      BY <3>1, <3>2 DEF BothPut
  <2> HIDE DEF s, n, e, k, x, y, c
  <2> DEFINE rx == ReceivedAt(x, n, e)
             ry == ReceivedAt(y, n, e)
  <2>4. /\ rx \in AccountRecords /\ SentAsBefore(x, rx) /\ rx.blocked = x.blocked
        /\ DeliveredTo(x, rx, n, e)
        /\ ry \in AccountRecords /\ SentAsBefore(y, ry) /\ ry.blocked = y.blocked
        /\ DeliveredTo(y, ry, n, e)
    <3>1. x \in AccountRecords /\ y \in AccountRecords /\ n \in Node /\ e \in Nat
      BY <1>4, <2>0
    <3> QED
      BY ONLY <3>1, ReceivedFields DEF rx, ry
  <2> HIDE DEF rx, ry
  <2>5. c = BothPut(book, s, rx, ry) /\ s \in Kinds /\ book \in Books
        /\ rx \in AccountRecords /\ ry \in AccountRecords
    BY <1>2, <1>4, <2>3, <2>4 DEF rx, ry
  <2>6. c \in Books /\ c["total"] = rx /\ c[s] = ry /\ \A r \in Kinds : r # s => c[r] = book[r]
    BY ONLY <2>5, BooksPut
  <2>7. Accounts!Account = {"total"} \cup Kinds
    BY AccountsConstants
  <2>8. \A a \in Accounts!Account :
          SentAsBefore(book[a], c[a]) /\ c[a].blocked = book[a].blocked
    <3> SUFFICES ASSUME NEW a \in Accounts!Account
                 PROVE  SentAsBefore(book[a], c[a]) /\ c[a].blocked = book[a].blocked
      OBVIOUS
    <3>1. CASE a = "total"
      BY <2>4, <2>6, <3>1 DEF x
    <3>2. CASE a = s
      BY <2>4, <2>6, <3>2 DEF y
    <3>3. CASE a \in Kinds /\ a # s
      BY <2>6, <3>3 DEF SentAsBefore
    <3> QED
      BY <2>7, <3>1, <3>2, <3>3
  <2>9. FieldBalances(c, "delivered")
    <3>1. /\ c["total"]["delivered"] = book["total"]["delivered"] + e
          /\ c[s]["delivered"] = book[s]["delivered"] + e
          /\ \A r \in Kinds : r # s => c[r]["delivered"] = book[r]["delivered"]
      BY <2>4, <2>6 DEF x, y, DeliveredTo
    <3>2. FieldBalances(book, "delivered") /\ "delivered" \in TallyFields
      BY <1>1 DEF AddsUp, FieldsBalance, TallyFields
    <3> QED
      BY <1>4, <2>5, <2>6, <3>1, <3>2, FieldPut
  <2>10. FieldBalances(c, "blocked")
    <3>1. FieldBalances(book, "blocked") /\ "blocked" \in TallyFields
      BY <1>1 DEF AddsUp, FieldsBalance, TallyFields
    <3>2. \A a \in Accounts!Account : c[a]["blocked"] = book[a]["blocked"]
      BY <2>8
    <3> QED
      BY <2>5, <2>6, <3>1, <3>2, FieldKept
  <2>11. AddsUp(c, window, log, now)
    BY <1>1, <2>5, <2>6, <2>8, <2>9, <2>10, NothingSent
  <2>12. rxBytes' \in [Kinds \X Node -> Nat] /\ DeliveriesCount(c, rxBytes')
    <3>1. DeliveredTo(book[s], c[s], n, e)
      BY <2>4, <2>6 DEF y
    <3>2. /\ book \in Books /\ c \in Books /\ rxBytes \in [Kinds \X Node -> Nat]
          /\ DeliveriesCount(book, rxBytes) /\ s \in Kinds /\ n \in Node /\ e \in Nat
          /\ \A r \in Kinds : r # s => c[r] = book[r]
      BY <1>1, <1>2, <1>4, <2>6
    <3> QED
      BY ONLY <2>2, <3>1, <3>2, DeliveryCounted
  <2>13. DueCovered(c, k, listening)
    <3> SUFFICES ASSUME NEW r \in Kinds
                 PROVE  c[r].delivered + DueSum(k, listening, r) <= c[r].generated
      BY DEF DueCovered
    <3> DEFINE z == IF r = s THEN e ELSE 0
               d == DueSum(k, listening, r)
               q == DueSum(flight, listening, r)
               bd == book[r].delivered
               bg == book[r].generated
               cd == c[r].delivered
               cg == c[r].generated
    <3>1. bd \in Nat /\ bg \in Nat
      BY <1>2, CountsAreNat
    <3>2. bd + q <= bg
      BY <1>1 DEF DueCovered
    <3>3. d \in Nat /\ q = d + z
      BY <1>6, <1>9
    <3>4. z \in Nat
      BY <1>4
    <3>5. cg = bg
      BY <2>7, <2>8 DEF SentAsBefore
    <3>6. cd = bd + z
      <4>1. CASE r = s
        BY <2>4, <2>6, <4>1 DEF y, DeliveredTo
      <4>2. CASE r # s
        <5>1. c[r] = book[r]
          BY <2>6, <4>2
        <5> QED
          BY <3>1, <4>2, <5>1
      <4> QED
        BY <4>1, <4>2
    <3> HIDE DEF z, d, q, bd, bg, cd, cg
    <3>7. cd + d <= cg
      BY ONLY <3>1, <3>2, <3>3, <3>4, <3>5, <3>6
    <3> QED
      BY <3>7 DEF d, cd, cg
  <2>14. AccountTypes'
    BY <1>1, <1>3, <1>5, <2>6, <2>12 DEF AccountTypes, c
  <2> QED
    BY <1>3, <1>7, <2>11, <2>12, <2>13, <2>14 DEF AccountsHold, c
<1> QED
  BY <1>8, <1>9

LEMMA AccountsNextInv ==
  ASSUME AccountsInv, AccountStep(Accounts!Next)
  PROVE  AccountsInv'
<1>1. service = "accounts" /\ Accounts!Next
  BY DEF AccountStep
<1>2. AccountsHold
  BY <1>1 DEF AccountsInv
<1>3. AccountsHold'
  <2>1. CASE \/ \E n \in Node : Accounts!InstallSink(n)
             \/ \E s \in Kinds, n, to \in Node :
                  Accounts!InstallFtp(s, n, to) \/ Accounts!InstallUdp(s, n, to)
    BY <1>2, <2>1, InstallInv
  <2>2. ASSUME NEW f \in sources,
               \/ \E payload \in Payload : Accounts!SendUdp(f, payload)
               \/ \E payload \in Payload \cup {0} : Accounts!SendTcp(f, payload)
        PROVE  AccountsHold'
    BY <1>2, <2>2, SendingsInv
  <2>3. ASSUME NEW f \in sources, Accounts!SendBlocked(f) PROVE AccountsHold'
    BY <1>2, <2>3, BlockedInv
  <2>4. ASSUME NEW i \in DOMAIN flight, Accounts!Retransmit(i) PROVE AccountsHold'
    BY <1>2, <2>4, RetransmitInv
  <2>5. ASSUME NEW i \in DOMAIN flight, Accounts!Receive(i) PROVE AccountsHold'
    BY <1>2, <2>5, ArrivalInv
  <2>6. CASE Accounts!ResetStats
    BY <1>2, <2>6, ResetInv
  <2>7. CASE Accounts!Elapse
    BY <1>2, <2>7, ElapseInv
  <2> QED
    BY <1>1, <2>1, <2>2, <2>3, <2>4, <2>5, <2>6, <2>7 DEF Accounts!Next, Kinds
<1> QED
  BY <1>3 DEF AccountsInv

LEMMA AccountsInitInv ==
  ASSUME TrafficInit
  PROVE  AccountsInv
<1> SUFFICES ASSUME service = "accounts" PROVE AccountsHold
  BY DEF AccountsInv
<1>1. Accounts!Init
  BY DEF TrafficInit
<1>2. /\ now = 1 /\ sinks = {} /\ listening = {} /\ sources = {} /\ registry = {}
      /\ traced = Accounts!NotTraced /\ flight = <<>> /\ log = <<>>
      /\ book = Accounts!EmptyBook /\ window = Accounts!NoWindows
      /\ rxBytes = Accounts!NothingReceived
  BY <1>1 DEF Accounts!Init
<1>3. now \in Nat \ {0} /\ now <= AccountTime
  BY <1>2, AccountsConstants
<1>4. flight \in Seq(Packets) /\ 1..Len(flight) = {}
  BY <1>2
<1>5. Accounts!NotTraced \in [Tcp \X Node -> {0, 1}]
      /\ \A k \in Tcp \X Node : Accounts!NotTraced[k] = 0
  BY DEF Accounts!NotTraced
<1>6. LoggedBy(log, now) /\ AddsUp(book, window, log, now) /\ DeliveriesCount(book, rxBytes)
      /\ book \in Books /\ window \in WindowTables /\ rxBytes \in [Kinds \X Node -> Nat]
  BY <1>2, <1>3, EmptyBooks
<1>7. DueCovered(book, flight, listening)
  BY <1>2, <1>4, EmptyCovered
<1>8. AccountTypes
  BY <1>2, <1>3, <1>4, <1>5, <1>6 DEF AccountTypes
<1>9. FlowsTraced
  BY <1>2, <1>4, <1>5 DEF FlowsTraced
<1> QED
  BY <1>6, <1>7, <1>8, <1>9 DEF AccountsHold

LEMMA AccountsInvImplies ==
  ASSUME AccountsInv, service = "accounts"
  PROVE  Accounts!AccountsAreReal
<1>1. AccountTypes /\ FlowsTraced /\ AddsUp(book, window, log, now)
      /\ DeliveriesCount(book, rxBytes) /\ DueCovered(book, flight, listening)
  BY DEF AccountsInv, AccountsHold
<1>2. /\ book \in Books /\ log \in Seq(Sendings) /\ flight \in Seq(Packets)
      /\ window \in WindowTables
  BY <1>1 DEF AccountTypes, LoggedBy
<1>3. Accounts!Account = {"total"} \cup Kinds /\ IsFiniteSet(Node) /\ Kinds = Accounts!Service
  BY AccountsConstants DEF Kinds
<1>4. Accounts!AccountsBalance
  <2>1. ASSUME NEW field \in {"generated", "sent", "packets", "blocked", "delivered"}
        PROVE  Accounts!GetStats("total")[field] =
                 Accounts!SumOf(Accounts!Service, LAMBDA s : Accounts!GetStats(s)[field])
    <3>1. book["total"][field] = SumOn([s \in Kinds |-> book[s][field]], Kinds)
      BY <1>1 DEF AddsUp, FieldsBalance, FieldBalances, TallyFields, Column
    <3> QED
      BY <3>1, KindsSum DEF Accounts!GetStats
  <2>2. ASSUME NEW s \in Accounts!Service
        PROVE  /\ \A n \in Node : Accounts!GetStats(s).user[n] = Accounts!GetNodeReceivedBytes(n, s)
               /\ Accounts!GetStats(s).delivered =
                    Accounts!SumOf(Node, LAMBDA n : Accounts!GetNodeReceivedBytes(n, s))
               /\ Accounts!GetStats(s).delivered <= Accounts!GetStats(s).generated
    <3>0. s \in Kinds
      BY <1>3
    <3>1. \A n \in Node : book[s].user[n] = rxBytes[<<s, n>>]
      BY <1>1, <3>0 DEF DeliveriesCount
    <3>2. book[s].delivered = SumOn([n \in Node |-> rxBytes[<<s, n>>]], Node)
      BY <1>1, <3>0 DEF DeliveriesCount
    <3>3. book[s].delivered <= book[s].generated
      <4> DEFINE d == book[s].delivered
                 g == book[s].generated
                 q == DueSum(flight, listening, s)
      <4>1. d \in Nat /\ g \in Nat /\ q \in Nat
        BY <1>2, <3>0, CountsAreNat, DueType
      <4>2. d + q <= g
        BY <1>1, <3>0 DEF DueCovered
      <4> HIDE DEF d, g, q
      <4>3. d <= g
        BY <4>1, <4>2
      <4> QED
        BY <4>3 DEF d, g
    <3>4. Accounts!SumOf(Node, LAMBDA n : Accounts!GetNodeReceivedBytes(n, s)) =
            SumOn([n \in Node |-> rxBytes[<<s, n>>]], Node)
      BY NodesReceivedSum
    <3> QED
      BY <3>1, <3>2, <3>3, <3>4 DEF Accounts!GetStats, Accounts!GetNodeReceivedBytes
  <2> QED
    BY <2>1, <2>2, Zenon DEF Accounts!AccountsBalance
<1>5. Accounts!SentIsLogged
  <2>1. Accounts!GetStats("total").packets = Len(log)
    BY <1>1 DEF AddsUp, LogCounts, Accounts!GetStats
  <2>2. ASSUME NEW s \in Accounts!Service
        PROVE  Accounts!GetStats(s).generated =
                 Accounts!SumOf(Node, LAMBDA n : Accounts!Bytes(s, n, 0, AccountTime + 1))
    <3>1. book[s].generated = SumOn(SentBy(log, s), Node)
      BY <1>1, <1>3 DEF AddsUp, LogCounts
    <3>2. SentBy(log, s) = [n \in Node |-> Accounts!Bytes(s, n, 0, AccountTime + 1)]
      BY <1>2, BytesIsSent DEF SentBy
    <3> QED
      BY <3>1, <3>2, NodesSentSum DEF Accounts!GetStats
  <2> QED
    BY <2>1, <2>2, Zenon DEF Accounts!SentIsLogged
<1>6. Accounts!PeaksAreReal
  <2> SUFFICES ASSUME NEW a \in Accounts!Account
        PROVE  /\ Accounts!GetStats(a).peak =
                    Accounts!FoldSet(LAMBDA n, m : Accounts!Larger(m, Accounts!GetStats(a).userPeak[n]),
                                     0, Node)
               /\ \A n \in Node :
                    LET w == window[a, n] IN
                    /\ Accounts!GetStats(a).userPeak[n] = w.peak
                    /\ w.peak > 0 => \E t1, t2 \in 1..now :
                         /\ t2 - t1 >= Second /\ t2 <= w.start
                         /\ w.peak = Accounts!Rate(Accounts!Bytes(a, n, t1, t2), t2 - t1)
                    /\ w.start # 0 => w.bytes = Accounts!Bytes(a, n, w.start, now + 1)
    BY Zenon DEF Accounts!PeaksAreReal
  <2>1. IsMost(book[a].peak, book[a].userPeak, Node)
        /\ \A n \in Node : book[a].userPeak[n] = window[<<a, n>>].peak
    BY <1>1 DEF AddsUp, PeaksOfAccounts
  <2>2. book[a].userPeak \in [Node -> Nat]
    BY <1>2, AccountFields DEF Books
  <2>3. book[a].peak = MostOn([n \in Node |-> book[a].userPeak[n]], Node)
    <3> DEFINE f == book[a].userPeak
    <3>1. [n \in Node |-> f[n]] = f /\ \A n \in Node : f[n] \in Nat
      BY <2>2
    <3> HIDE DEF f
    <3>2. IsMost(MostOn(f, Node), f, Node)
      BY <1>3, <3>1, MostOnIsMost
    <3>3. IsMost(book[a].peak, f, Node)
      BY <2>1 DEF f
    <3>4. book[a].peak = MostOn(f, Node)
      BY <3>1, <3>2, <3>3, MostIsOne
    <3> QED
      BY <3>1, <3>4 DEF f
  <2>4. Accounts!GetStats(a).peak =
          Accounts!FoldSet(LAMBDA n, m : Accounts!Larger(m, Accounts!GetStats(a).userPeak[n]), 0, Node)
    BY <2>3, UserPeaksMost DEF Accounts!GetStats
  <2>5. ASSUME NEW n \in Node
        PROVE  LET w == window[a, n] IN
               /\ Accounts!GetStats(a).userPeak[n] = w.peak
               /\ w.peak > 0 => \E t1, t2 \in 1..now :
                    /\ t2 - t1 >= Second /\ t2 <= w.start
                    /\ w.peak = Accounts!Rate(Accounts!Bytes(a, n, t1, t2), t2 - t1)
               /\ w.start # 0 => w.bytes = Accounts!Bytes(a, n, w.start, now + 1)
    <3> DEFINE w == window[<<a, n>>]
    <3>1. WindowIsReal(w, log, a, n, now)
      BY <1>1 DEF AddsUp, WindowsAreReal
    <3>2. \A from, to : Accounts!Bytes(a, n, from, to) = SentIn(log, a, n, from, to)
      BY <1>2, BytesIsSent
    <3>3. Accounts!GetStats(a).userPeak[n] = w.peak
      BY <2>1 DEF Accounts!GetStats
    <3> HIDE DEF w
    <3>4. w.start # 0 => w.bytes = Accounts!Bytes(a, n, w.start, now + 1)
      BY <3>1, <3>2 DEF WindowIsReal
    <3>5. w.peak > 0 => \E t1, t2 \in 1..now :
            /\ t2 - t1 >= Second /\ t2 <= w.start
            /\ w.peak = Accounts!Rate(Accounts!Bytes(a, n, t1, t2), t2 - t1)
      BY <3>1, <3>2 DEF WindowIsReal, PeakShown
    <3> QED
      BY <3>3, <3>4, <3>5 DEF w
  <2> QED
    BY <2>4, <2>5
<1> QED
  BY <1>4, <1>5, <1>6 DEF Accounts!AccountsAreReal

(* Where nothing changes.                                                  *)
LEMMA StandsStill ==
  ASSUME RatesInv, AccountsInv, UNCHANGED allVars
  PROVE  RatesInv' /\ AccountsInv'
<1>1. UNCHANGED <<service, statsVars>>
  BY DEF allVars
<1>2. RatesInv'
  BY <1>1 DEF statsVars, clockVars, rateVars, RatesInv, RateTypes, RatesHeard,
    Rates!TalliesBalance, Rates!ReportAgrees, Rates!SumOver
<1>3. AccountsInv'
  BY <1>1 DEF statsVars, clockVars, accountVars, AccountsInv, AccountsHold, AccountTypes, FlowsTraced
<1> QED
  BY <1>2, <1>3

(* What the collector reports was received, no byte lost and no peak made  *)
(* up, one retransmission for each NACK; and the generator's accounts      *)
(* balance, in both tables, each packet in them once and each peak the     *)
(* rate of an interval, through resets and repeated installations.         *)
THEOREM RatesAreRealCorrect == TrafficSpec => []RatesAreReal
<1> DEFINE Inv == RatesInv /\ AccountsInv
<1>1. TrafficInit => Inv
  BY RatesInitInv, AccountsInitInv
<1>2. Inv /\ [TrafficNext]_allVars => Inv'
  <2> SUFFICES ASSUME Inv, [TrafficNext]_allVars PROVE Inv'
    OBVIOUS
  <2>1. CASE UNCHANGED allVars
    BY <2>1, StandsStill
  <2>2. CASE RateStep(Rates!Next)
    <3>1. service = "rates" /\ service' = service
      BY <2>2 DEF RateStep
    <3>2. AccountsInv'
      BY <3>1 DEF AccountsInv
    <3> QED
      BY <2>2, <3>2, RatesNextInv
  <2>3. CASE AccountStep(Accounts!Next)
    <3>1. service = "accounts" /\ service' = service
      BY <2>3 DEF AccountStep
    <3>2. RatesInv'
      BY <3>1 DEF RatesInv
    <3> QED
      BY <2>3, <3>2, AccountsNextInv
  <2>4. CASE \/ FtpStep(Ftp!Next) \/ UdpStep(UdpLegs!Next) \/ HttpStep(Http!Next)
             \/ LayerStep(Layers!Next)
    <3>1. service \notin {"rates", "accounts"} /\ service' = service
      BY <2>4 DEF FtpStep, UdpStep, HttpStep, LayerStep
    <3> QED
      BY <3>1 DEF RatesInv, AccountsInv
  <2> QED
    BY <2>1, <2>2, <2>3, <2>4 DEF TrafficNext
<1>3. Inv => RatesAreReal
  BY RatesInvImplies, AccountsInvImplies DEF RatesAreReal
<1> QED
  BY <1>1, <1>2, <1>3, PTL DEF TrafficSpec

-----------------------------------------------------------------------------
(* The collectors of the layers: their folds.                              *)

LEMMA LayersConstants ==
  /\ Ue \subseteq Nat /\ IsFiniteSet(Ue) /\ Qfi \subseteq Nat /\ IsFiniteSet(Qfi)
  /\ Size \subseteq Nat \ {0} /\ LayerTime \in Nat /\ MaxEvents \in Nat
BY TrafficAssumption DEF Layers!LayerStatsAssumption, Layers!IsFiniteSet, IsFiniteSet

LeftSumStep(f, it, s) ==
  IF s = {} THEN 0 ELSE LET x == CHOOSE x \in s : TRUE IN f[x] + it[s \ {x}]
LeftSumOn(f, S) == LET it[s \in SUBSET S] == LeftSumStep(f, it, s) IN it[S]

LeftMostStep(f, it, s) ==
  IF s = {} THEN 0 ELSE LET x == CHOOSE x \in s : TRUE IN Layers!Larger(f[x], it[s \ {x}])
LeftMostOn(f, S) == LET it[s \in SUBSET S] == LeftMostStep(f, it, s) IN it[S]

LEMMA LeftSumIsSum ==
  ASSUME NEW S, IsFiniteSet(S), NEW f, \A x \in S : f[x] \in Nat
  PROVE  LeftSumOn(f, S) = SumOn(f, S)
<1>0. PICK it : Adds(it, f, S)
  BY AdderExists
<1> DEFINE Eq(g) == g = [s \in SUBSET S |-> LeftSumStep(f, g, s)]
           g == CHOOSE g : Eq(g)
<1>1. Eq(it)
  <2>1. ASSUME NEW s \in SUBSET S PROVE it[s] = LeftSumStep(f, it, s)
    <3> DEFINE x == CHOOSE x \in s : TRUE
    <3>1. CASE s = {}
      BY <1>0, <3>1 DEF Adds, LeftSumStep
    <3>2. CASE s # {}
      <4>1. x \in s /\ s \ {x} \in SUBSET S
        BY <3>2
      <4>2. LeftSumStep(f, it, s) = f[x] + it[s \ {x}]
        BY <3>2 DEF LeftSumStep
      <4> HIDE DEF x
      <4>3. it[s] = it[s \ {x}] + f[x] /\ it[s \ {x}] \in Nat /\ f[x] \in Nat
        BY <1>0, <4>1 DEF Adds
      <4> QED
        BY <4>2, <4>3
    <3> QED
      BY <3>1, <3>2
  <2>2. it = [s \in SUBSET S |-> it[s]]
    BY <1>0 DEF Adds
  <2> QED
    BY <2>1, <2>2
<1>2. Eq(g)
  <2> HIDE DEF Eq
  <2> QED
    BY <1>1
<1>3. LeftSumOn(f, S) = g[S]
  BY DEF LeftSumOn
<1> HIDE DEF g
<1>4. g[{}] = it[{}]
  BY <1>0, <1>2 DEF LeftSumStep, Adds
<1>5. ASSUME NEW s \in SUBSET S, s # {}
      PROVE  \E x \in s : g[s \ {x}] = it[s \ {x}] => g[s] = it[s]
  <2> DEFINE x == CHOOSE x \in s : TRUE
  <2>1. x \in s /\ s \ {x} \in SUBSET S
    BY <1>5
  <2>2. g[s] = f[x] + g[s \ {x}]
    BY <1>2, <1>5 DEF LeftSumStep
  <2> HIDE DEF x
  <2>3. it[s] = it[s \ {x}] + f[x] /\ it[s \ {x}] \in Nat /\ f[x] \in Nat
    BY <1>0, <2>1 DEF Adds
  <2>4. g[s \ {x}] = it[s \ {x}] => g[s] = it[s]
    BY <2>2, <2>3
  <2> HIDE DEF Eq
  <2> QED
    BY <2>1, <2>4
<1> HIDE DEF Eq
<1>6. g[S] = it[S]
  BY <1>4, <1>5, AgreesUpTo
<1> QED
  BY <1>0, <1>3, <1>6, SumIsAdder

LEMMA LargerIsHigher ==
  ASSUME NEW a \in Nat, NEW b \in Nat
  PROVE  Layers!Larger(a, b) = Higher(b, a)
BY DEF Layers!Larger, Higher

LEMMA LeftMostIsMost ==
  ASSUME NEW S, IsFiniteSet(S), NEW f, \A x \in S : f[x] \in Nat
  PROVE  IsMost(LeftMostOn(f, S), f, S)
<1>0. PICK it : Tops(it, f, S)
  BY TopsExists
<1>s. ASSUME NEW s \in SUBSET S, NEW x \in s
      PROVE  it[s] = Layers!Larger(f[x], it[s \ {x}])
  <2>1. it[s] = Higher(it[s \ {x}], f[x])
    BY <1>0, TopsStep
  <2>2. it[s \ {x}] \in Nat /\ f[x] \in Nat
    BY <1>0 DEF Tops, IsMost
  <2> QED
    BY <2>1, <2>2, LargerIsHigher
<1>z. it[{}] = 0
  BY <1>0, TopsZero
<1> DEFINE Eq(g) == g = [s \in SUBSET S |-> LeftMostStep(f, g, s)]
           g == CHOOSE g : Eq(g)
<1>1. Eq(it)
  <2>1. ASSUME NEW s \in SUBSET S PROVE it[s] = LeftMostStep(f, it, s)
    <3>1. CASE s = {}
      BY <1>z, <3>1 DEF LeftMostStep
    <3>2. CASE s # {}
      <4> DEFINE x == CHOOSE x \in s : TRUE
      <4>1. x \in s
        BY <3>2
      <4>2. LeftMostStep(f, it, s) = Layers!Larger(f[x], it[s \ {x}])
        BY <3>2 DEF LeftMostStep
      <4> HIDE DEF x
      <4> QED
        BY <1>s, <4>1, <4>2
    <3> QED
      BY <3>1, <3>2
  <2>2. it = [s \in SUBSET S |-> it[s]]
    BY <1>0 DEF Tops
  <2> QED
    BY <2>1, <2>2
<1>2. Eq(g)
  <2> HIDE DEF Eq
  <2> QED
    BY <1>1
<1>3. LeftMostOn(f, S) = g[S]
  BY DEF LeftMostOn
<1> HIDE DEF g
<1>4. g[{}] = it[{}]
  BY <1>2, <1>z DEF LeftMostStep
<1>5. ASSUME NEW s \in SUBSET S, s # {}
      PROVE  \E x \in s : g[s \ {x}] = it[s \ {x}] => g[s] = it[s]
  <2> DEFINE x == CHOOSE x \in s : TRUE
  <2>1. x \in s
    BY <1>5
  <2>2. g[s] = Layers!Larger(f[x], g[s \ {x}])
    BY <1>2, <1>5 DEF LeftMostStep
  <2> HIDE DEF x
  <2>3. it[s] = Layers!Larger(f[x], it[s \ {x}])
    BY <1>s, <2>1
  <2> QED
    BY <2>1, <2>2, <2>3
<1> HIDE DEF Eq
<1>6. g[S] = it[S]
  BY <1>4, <1>5, AgreesUpTo
<1> QED
  BY <1>0, <1>3, <1>6 DEF Tops

LEMMA TotalIsSum ==
  ASSUME NEW stats, NEW field, NEW keys, IsFiniteSet(keys), \A k \in keys : stats[k][field] \in Nat
  PROVE  Layers!Total(stats, field, keys) = SumOn([k \in keys |-> stats[k][field]], keys)
<1> DEFINE f == [k \in keys |-> stats[k][field]]
<1>1. Layers!Total(stats, field, keys) = LeftSumOn(f, keys)
  BY DEF Layers!Total, Layers!FoldSet, Layers!MapThenFoldSet, LeftSumOn, LeftSumStep
<1>2. \A k \in keys : f[k] \in Nat
  OBVIOUS
<1> HIDE DEF f
<1> QED
  BY <1>1, <1>2, LeftSumIsSum DEF f

TransitionsOn(S) == Layers!FoldSet(LAMBDA k, n : rrcStats[k[1]].entries[k[2]] + n, 0, S)

LEMMA TransitionsIsSum ==
  ASSUME NEW S, IsFiniteSet(S), \A k \in S : rrcStats[k[1]].entries[k[2]] \in Nat
  PROVE  TransitionsOn(S) = SumOn([k \in S |-> rrcStats[k[1]].entries[k[2]]], S)
<1> DEFINE f == [k \in S |-> rrcStats[k[1]].entries[k[2]]]
<1>1. TransitionsOn(S) = LeftSumOn(f, S)
  BY DEF TransitionsOn, Layers!FoldSet, Layers!MapThenFoldSet, LeftSumOn, LeftSumStep
<1>2. \A k \in S : f[k] \in Nat
  OBVIOUS
<1> HIDE DEF f
<1> QED
  BY <1>1, <1>2, LeftSumIsSum DEF f

LEMMA TransitionsOfAll ==
  Layers!GetTotalTransitions = TransitionsOn(Ue \X Layers!RrcState)
BY DEF TransitionsOn, Layers!GetTotalTransitions, Layers!FoldSet, Layers!MapThenFoldSet

LEMMA TimesIsSum ==
  ASSUME NEW t, IsFiniteSet(Layers!RrcState), \A s \in Layers!RrcState : t.time[s] \in Nat
  PROVE  Layers!FoldSet(LAMBDA s, n : t.time[s] + n, 0, Layers!RrcState) =
           SumOn([s \in Layers!RrcState |-> t.time[s]], Layers!RrcState)
<1> DEFINE R == Layers!RrcState
           f == [s \in R |-> t.time[s]]
<1>1. Layers!FoldSet(LAMBDA s, n : t.time[s] + n, 0, R) = LeftSumOn(f, R)
  BY DEF Layers!FoldSet, Layers!MapThenFoldSet, LeftSumOn, LeftSumStep
<1>2. \A k \in R : f[k] \in Nat
  OBVIOUS
<1> HIDE DEF f
<1> QED
  BY <1>1, <1>2, LeftSumIsSum DEF f

LEMMA FlowCountsIsSum ==
  Layers!FoldSet(LAMBDA q, n : n + Layers!GetQfiStats(q, "rxPdus"), 0, Qfi) =
    SumOn([q \in Qfi |-> Layers!GetQfiStats(q, "rxPdus")], Qfi)
BY DEF Layers!FoldSet, Layers!MapThenFoldSet, SumOn, SumStep

LEMMA BearerCountsIsSum ==
  Layers!FoldSet(LAMBDA d, n : n + Layers!GetDrbStats(d, "rxPdus"), 0, Layers!Drb) =
    SumOn([d \in Layers!Drb |-> Layers!GetDrbStats(d, "rxPdus")], Layers!Drb)
BY DEF Layers!FoldSet, Layers!MapThenFoldSet, SumOn, SumStep

LEMMA SampleCountsIsSum ==
  Layers!FoldSet(LAMBDA u, n : n + Layers!ComputeStats(macSamples[u]).count, 0, Ue) =
    SumOn([u \in Ue |-> Layers!ComputeStats(macSamples[u]).count], Ue)
BY DEF Layers!FoldSet, Layers!MapThenFoldSet, SumOn, SumStep

DelaysOn(S) == Layers!FoldSet(LAMBDA k, m : Layers!Larger(qfiStats[k].maxDelay, m), 0, S)

LEMMA DelaysIsMost ==
  ASSUME NEW S, IsFiniteSet(S), \A k \in S : qfiStats[k].maxDelay \in Nat
  PROVE  IsMost(DelaysOn(S), [k \in S |-> qfiStats[k].maxDelay], S)
<1> DEFINE f == [k \in S |-> qfiStats[k].maxDelay]
<1>1. DelaysOn(S) = LeftMostOn(f, S)
  BY DEF DelaysOn, Layers!FoldSet, Layers!MapThenFoldSet, LeftMostOn, LeftMostStep, Layers!Larger
<1>2. \A k \in S : f[k] \in Nat
  OBVIOUS
<1> HIDE DEF f
<1>3. IsMost(LeftMostOn(f, S), f, S)
  BY <1>2, LeftMostIsMost
<1> QED
  BY <1>1, <1>3 DEF f

-----------------------------------------------------------------------------
(* Samples of all UEs, pooled: a fold whose order matters.                 *)

PoolStep(f, it, s) ==
  IF s = {} THEN <<>> ELSE LET x == CHOOSE x \in s : TRUE IN it[s \ {x}] \o f[x]
PoolOf(f, S) == LET it[s \in SUBSET S] == PoolStep(f, it, s) IN it[S]

Pools(it, f, A) == it = [s \in SUBSET A |-> it[s]] /\ \A s \in SUBSET A : it[s] = PoolStep(f, it, s)

LEMMA PoolsAgree ==
  ASSUME NEW A, NEW B, NEW C, C \subseteq A, C \subseteq B, IsFiniteSet(C), NEW f,
         NEW it, Pools(it, f, A), NEW jt, Pools(jt, f, B)
  PROVE  it[C] = jt[C]
<1>1. it[{}] = jt[{}]
  BY DEF Pools, PoolStep
<1>2. ASSUME NEW s \in SUBSET C, s # {}
      PROVE  \E x \in s : it[s \ {x}] = jt[s \ {x}] => it[s] = jt[s]
  <2> DEFINE x == CHOOSE x \in s : TRUE
  <2>0. s \in SUBSET A /\ s \in SUBSET B
    OBVIOUS
  <2>1. x \in s
    BY <1>2
  <2>2. it[s] = PoolStep(f, it, s) /\ jt[s] = PoolStep(f, jt, s)
    BY <2>0 DEF Pools
  <2>3. it[s] = it[s \ {x}] \o f[x] /\ jt[s] = jt[s \ {x}] \o f[x]
    BY <1>2, <2>2 DEF PoolStep
  <2>4. it[s \ {x}] = jt[s \ {x}] => it[s] = jt[s]
    BY <2>3
  <2> HIDE DEF x
  <2> QED
    BY <2>1, <2>4
<1> QED
  BY <1>1, <1>2, AgreesUpTo

LEMMA PoolsExist ==
  ASSUME NEW S, IsFiniteSet(S), NEW f
  PROVE  \E it : Pools(it, f, S)
<1> DEFINE T == {A \in SUBSET S : \E it : Pools(it, f, A)}
<1>1. {} \in T
  <2>1. Pools([s \in SUBSET {} |-> <<>>], f, {})
    BY DEF Pools, PoolStep
  <2> QED
    BY <2>1
<1>2. ASSUME NEW A \in SUBSET S, A # {}, \A x \in A : A \ {x} \in T
      PROVE  A \in T
  <2> DEFINE top == CHOOSE x \in A : TRUE
             part == [x \in A |-> CHOOSE it : Pools(it, f, A \ {x})]
             miss(B) == CHOOSE x \in A : x \notin B
             rest(B) == part[miss(B)][B]
             new == [B \in SUBSET A |-> IF B = A THEN rest(A \ {top}) \o f[top] ELSE rest(B)]
  <2>1. top \in A
    BY <1>2
  <2>2. ASSUME NEW x \in A PROVE Pools(part[x], f, A \ {x})
    <3>1. \E it : Pools(it, f, A \ {x})
      BY <1>2
    <3>2. part[x] = CHOOSE it : Pools(it, f, A \ {x})
      OBVIOUS
    <3> HIDE DEF part
    <3> QED
      BY <3>1, <3>2
  <2>3. ASSUME NEW B \in SUBSET A, B # A PROVE miss(B) \in A /\ miss(B) \notin B
    <3>1. \E x \in A : x \notin B
      BY <2>3
    <3> HIDE DEF part
    <3> QED
      BY <3>1
  <2> HIDE DEF part, miss
  <2>4. ASSUME NEW B \in SUBSET A, NEW x \in A, x \notin B PROVE part[x][B] = rest(B)
    <3>1. B # A /\ miss(B) \in A /\ miss(B) \notin B
      BY <2>3, <2>4
    <3> DEFINE y == miss(B)
    <3>2. Pools(part[x], f, A \ {x}) /\ Pools(part[y], f, A \ {y})
      BY <2>2, <3>1
    <3>3. IsFiniteSet(B) /\ B \subseteq A \ {x} /\ B \subseteq A \ {y}
      <4>1. IsFiniteSet(B)
        BY FS_Subset
      <4> QED
        BY <2>4, <3>1, <4>1
    <3> DEFINE K == A \ {x}  M == A \ {y}  g == part[x]  h == part[y]
    <3> HIDE DEF y, K, M, g, h
    <3>4. g[B] = h[B]
      <4>1. Pools(g, f, K) /\ Pools(h, f, M) /\ IsFiniteSet(B) /\ B \subseteq K /\ B \subseteq M
        BY <3>2, <3>3 DEF K, M, g, h
      <4> QED
        BY <4>1, PoolsAgree
    <3> QED
      BY <3>4 DEF y, g, h
  <2> HIDE DEF top
  <2>5. ASSUME NEW B \in SUBSET A, B # A PROVE new[B] = rest(B)
    BY <2>5
  <2>6. new[A] = rest(A \ {top}) \o f[top]
    OBVIOUS
  <2>7. new = [B \in SUBSET A |-> new[B]]
    OBVIOUS
  <2> HIDE DEF new
  <2>8. ASSUME NEW B \in SUBSET A PROVE new[B] = PoolStep(f, new, B)
    <3>1. CASE B = A
      <4>1. new[A \ {top}] = rest(A \ {top})
        BY <2>1, <2>5
      <4>2. PoolStep(f, new, A) = new[A \ {top}] \o f[top]
        BY <1>2 DEF PoolStep, top
      <4> QED
        BY <2>6, <3>1, <4>1, <4>2
    <3>2. CASE B # A
      <4> DEFINE y == miss(B)
                 g == part[y]
                 x == CHOOSE x \in B : TRUE
      <4>1. y \in A /\ y \notin B
        BY <2>3, <3>2
      <4>2. Pools(g, f, A \ {y}) /\ B \in SUBSET (A \ {y})
        BY <2>2, <4>1
      <4>3. g[B] = PoolStep(f, g, B)
        BY <4>2 DEF Pools
      <4>4. new[B] = g[B]
        BY <2>5, <3>2
      <4>5. CASE B = {}
        BY <4>3, <4>4, <4>5 DEF PoolStep
      <4>6. CASE B # {}
        <5>1. x \in B
          BY <4>6
        <5>2. g[B] = g[B \ {x}] \o f[x] /\ PoolStep(f, new, B) = new[B \ {x}] \o f[x]
          BY <4>3, <4>6 DEF PoolStep
        <5> HIDE DEF x, y
        <5>3. B \ {x} \in SUBSET A /\ B \ {x} # A /\ y \in A /\ y \notin B \ {x}
          BY <4>1, <5>1
        <5>4. new[B \ {x}] = rest(B \ {x})
          BY <2>5, <5>3
        <5>5. part[y][B \ {x}] = rest(B \ {x})
          BY <2>4, <5>3
        <5> QED
          BY <4>4, <5>2, <5>4, <5>5
      <4> QED
        BY <4>5, <4>6
    <3> QED
      BY <3>1, <3>2
  <2>9. Pools(new, f, A)
    BY <2>7, <2>8 DEF Pools
  <2> QED
    BY <2>9
<1>3. SUBSET S \subseteq T
  <2> HIDE DEF T
  <2> QED
    BY <1>1, <1>2, SubsetInduction
<1>4. S \in T
  BY <1>3
<1> QED
  BY <1>4

LEMMA PoolIsSolution ==
  ASSUME NEW S, IsFiniteSet(S), NEW f
  PROVE  \E it : Pools(it, f, S) /\ PoolOf(f, S) = it[S]
<1> DEFINE Eq(g) == g = [s \in SUBSET S |-> PoolStep(f, g, s)]
           g == CHOOSE g : Eq(g)
<1>1. PICK it : Pools(it, f, S)
  BY PoolsExist
<1>2. Eq(it)
  BY <1>1 DEF Pools
<1>3. Eq(g)
  <2> HIDE DEF Eq
  <2> QED
    BY <1>2
<1>4. PoolOf(f, S) = g[S]
  BY DEF PoolOf
<1>5. Pools(g, f, S)
  <2> HIDE DEF g
  <2> QED
    BY <1>3 DEF Pools
<1> QED
  BY <1>4, <1>5

IsIn(v, s) == \E i \in 1..Len(s) : s[i] = v

LEMMA Joined ==
  ASSUME NEW p \in Seq(Nat), NEW q \in Seq(Nat)
  PROVE  /\ p \o q \in Seq(Nat) /\ Len(p \o q) = Len(p) + Len(q)
         /\ \A v : IsIn(v, p \o q) <=> IsIn(v, p) \/ IsIn(v, q)
<1> DEFINE r == p \o q  k == Len(p)  n == Len(q)
<1>1. r \in Seq(Nat) /\ Len(r) = k + n /\ k \in Nat /\ n \in Nat
  OBVIOUS
<1>2. \A i \in 1..(k + n) : r[i] = IF i <= k THEN p[i] ELSE q[i - k]
  OBVIOUS
<1> HIDE DEF r, k, n
<1>3. ASSUME NEW v, IsIn(v, r) PROVE IsIn(v, p) \/ IsIn(v, q)
  <2>1. PICK i \in 1..(k + n) : r[i] = v
    BY <1>1, <1>3 DEF IsIn
  <2>2. CASE i <= k
    <3>1. i \in 1..k /\ p[i] = v
      BY <1>1, <1>2, <2>1, <2>2
    <3> QED
      BY <3>1 DEF IsIn, k
  <2>3. CASE ~(i <= k)
    <3>1. i - k \in 1..n /\ q[i - k] = v
      BY <1>1, <1>2, <2>1, <2>3
    <3> QED
      BY <3>1 DEF IsIn, n
  <2> QED
    BY <2>2, <2>3
<1>4. ASSUME NEW v, IsIn(v, p) PROVE IsIn(v, r)
  <2>1. PICK i \in 1..k : p[i] = v
    BY <1>4 DEF IsIn, k
  <2>2. i \in 1..(k + n) /\ r[i] = v
    BY <1>1, <1>2, <2>1
  <2> QED
    BY <1>1, <2>2 DEF IsIn
<1>5. ASSUME NEW v, IsIn(v, q) PROVE IsIn(v, r)
  <2>1. PICK i \in 1..n : q[i] = v
    BY <1>5 DEF IsIn, n
  <2>2. i + k \in 1..(k + n) /\ r[i + k] = v
    <3>1. i + k \in 1..(k + n) /\ ~(i + k <= k) /\ (i + k) - k = i
      BY <1>1
    <3> QED
      BY <1>2, <2>1, <3>1
  <2> QED
    BY <1>1, <2>2 DEF IsIn
<1> QED
  BY <1>1, <1>3, <1>4, <1>5 DEF r, k, n

(* What a pool holds: as many samples as its parts, and the same.          *)
Lengths(f, S) == [x \in S |-> Len(f[x])]

IsPool(p, f, S) ==
  /\ p \in Seq(Nat) /\ Len(p) = SumOn(Lengths(f, S), S)
  /\ \A v : IsIn(v, p) <=> \E x \in S : IsIn(v, f[x])

LEMMA PoolHolds ==
  ASSUME NEW S, IsFiniteSet(S), NEW f, \A x \in S : f[x] \in Seq(Nat)
  PROVE  IsPool(PoolOf(f, S), f, S)
<1>0. PICK g : Pools(g, f, S) /\ PoolOf(f, S) = g[S]
  BY PoolIsSolution
<1> DEFINE lens == Lengths(f, S)
           Holds(A) == /\ g[A] \in Seq(Nat) /\ Len(g[A]) = SumOn(lens, A)
                       /\ \A v : IsIn(v, g[A]) <=> \E x \in A : IsIn(v, f[x])
           T == {A \in SUBSET S : Holds(A)}
<1>l. \A x \in S : lens[x] = Len(f[x]) /\ lens[x] \in Nat
  BY DEF Lengths
<1> HIDE DEF lens
<1>1. {} \in T
  <2>1. g[{}] = <<>>
    BY <1>0 DEF Pools, PoolStep
  <2>2. ASSUME NEW v PROVE ~IsIn(v, <<>>)
    BY DEF IsIn
  <2>3. <<>> \in Seq(Nat) /\ Len(<<>>) = 0
    OBVIOUS
  <2> QED
    BY <2>1, <2>2, <2>3, SumEmpty
<1>2. ASSUME NEW A \in SUBSET S, A # {}, \A x \in A : A \ {x} \in T
      PROVE  A \in T
  <2> DEFINE x == CHOOSE x \in A : TRUE
             B == A \ {x}
  <2>1. x \in A
    BY <1>2
  <2>2. g[A] = g[B] \o f[x]
    BY <1>0, <1>2 DEF Pools, PoolStep
  <2> HIDE DEF x
  <2>3. Holds(B)
    BY <1>2, <2>1
  <2>4. f[x] \in Seq(Nat)
    BY <2>1
  <2>5. /\ g[A] \in Seq(Nat) /\ Len(g[A]) = Len(g[B]) + Len(f[x])
        /\ \A v : IsIn(v, g[A]) <=> IsIn(v, g[B]) \/ IsIn(v, f[x])
    <3> DEFINE p == g[B]  q == f[x]
    <3>1. p \in Seq(Nat) /\ q \in Seq(Nat) /\ g[A] = p \o q
      BY <2>2, <2>3, <2>4
    <3> HIDE DEF p, q
    <3> QED
      BY <3>1, Joined DEF p, q
  <2>6. SumOn(lens, A) = SumOn(lens, B) + lens[x]
    <3>1. IsFiniteSet(A) /\ \A y \in A : lens[y] \in Nat
      BY <1>l, FS_Subset
    <3> QED
      BY <2>1, <3>1, SumType
  <2>7. Len(g[A]) = SumOn(lens, A)
    BY <1>l, <2>1, <2>3, <2>5, <2>6
  <2>8. \A v : IsIn(v, g[A]) <=> \E y \in A : IsIn(v, f[y])
    <3>1. \A v : IsIn(v, g[B]) <=> \E y \in B : IsIn(v, f[y])
      BY <2>3
    <3>2. \A y : y \in A <=> y \in B \/ y = x
      BY <2>1
    <3> HIDE DEF B
    <3> QED
      BY <2>5, <3>1, <3>2
  <2> QED
    BY <2>5, <2>7, <2>8
<1>3. SUBSET S \subseteq T
  <2> HIDE DEF T
  <2> QED
    BY <1>1, <1>2, SubsetInduction
<1>4. Holds(S)
  <2> HIDE DEF Holds
  <2> QED
    BY <1>3
<1> QED
  BY <1>0, <1>4 DEF IsPool, lens

LEMMA PooledIsPool ==
  ASSUME NEW samples, \A u \in Ue : samples[u] \in Seq(Nat)
  PROVE  IsPool(Layers!Pooled(samples), samples, Ue)
<1>1. Layers!Pooled(samples) = PoolOf(samples, Ue)
  BY DEF Layers!Pooled, Layers!FoldSet, Layers!MapThenFoldSet, PoolOf, PoolStep
<1>2. IsPool(PoolOf(samples, Ue), samples, Ue)
  BY LayersConstants, PoolHolds
<1> QED
  BY <1>1, <1>2

-----------------------------------------------------------------------------
(* What the collectors compute of samples.                                 *)

LEMMA LayersCardinality ==
  ASSUME NEW S
  PROVE  Layers!Cardinality(S) = Cardinality(S)
BY DEF Layers!Cardinality, Cardinality

LEMMA SampleSet ==
  ASSUME NEW s \in Seq(Nat)
  PROVE  /\ Len(s) \in Nat /\ DOMAIN s = 1..Len(s) /\ IsFiniteSet(1..Len(s))
         /\ \A i \in 1..Len(s) : s[i] \in Nat
         /\ Layers!ToSet(s) \subseteq Nat /\ IsFiniteSet(Layers!ToSet(s))
         /\ \A v : IsIn(v, s) <=> v \in Layers!ToSet(s)
         /\ s # <<>> <=> Layers!ToSet(s) # {}
         /\ s # <<>> <=> Len(s) > 0
<1> DEFINE n == Len(s)  D == Layers!ToSet(s)
<1>1. n \in Nat /\ DOMAIN s = 1..n /\ (\A i \in 1..n : s[i] \in Nat) /\ (s # <<>> <=> n > 0)
  OBVIOUS
<1>2. IsFiniteSet(1..n)
  BY <1>1, FS_Interval
<1>3. D = {s[i] : i \in 1..n}
  BY <1>1 DEF Layers!ToSet
<1> HIDE DEF n
<1>4. IsFiniteSet(D)
  <2> DEFINE S == 1..n  f == [i \in S |-> s[i]]
  <2>1. f \in Surjection(S, D)
    BY <1>3 DEF Surjection
  <2> HIDE DEF S, f
  <2> QED
    BY <1>2, <2>1, FS_Surjection DEF S
<1> HIDE DEF D
<1>5. D \subseteq Nat /\ \A v : IsIn(v, s) <=> v \in D
  BY <1>1, <1>3 DEF IsIn, n
<1>6. s # <<>> <=> D # {}
  <2>1. n > 0 => 1 \in 1..n
    BY <1>1
  <2>2. n = 0 => 1..n = {}
    BY <1>1
  <2>3. n > 0 => s[1] \in D
    BY <1>3, <2>1
  <2>4. n = 0 => D = {}
    BY <1>3, <2>2
  <2>5. n > 0 \/ n = 0
    BY <1>1
  <2> QED
    BY <1>1, <2>3, <2>4, <2>5
<1> QED
  BY <1>1, <1>2, <1>4, <1>5, <1>6 DEF n, D

LEMMA SmallestSample ==
  ASSUME NEW s \in Seq(Nat), s # <<>>
  PROVE  LET m == Layers!Min(Layers!ToSet(s)) IN
         m \in Nat /\ IsIn(m, s) /\ \A v : IsIn(v, s) => m <= v
<1> DEFINE D == Layers!ToSet(s)
           Low(x) == \A y \in D : x <= y
           m == CHOOSE x \in D : Low(x)
<1>0. D \subseteq Nat /\ IsFiniteSet(D) /\ D # {} /\ \A v : IsIn(v, s) <=> v \in D
  BY SampleSet
<1>1. \E x \in D : Low(x)
  <2> HIDE DEF D
  <2> QED
    BY <1>0, LeastExists
<1>2. m \in D /\ Low(m)
  <2> HIDE DEF Low, D
  <2> QED
    BY <1>1
<1>3. Layers!Min(Layers!ToSet(s)) = m
  BY DEF Layers!Min
<1> HIDE DEF m, D
<1>4. m \in Nat /\ IsIn(m, s) /\ \A v : IsIn(v, s) => m <= v
  BY <1>0, <1>2
<1> QED
  BY <1>3, <1>4

LEMMA LargestSample ==
  ASSUME NEW s \in Seq(Nat), s # <<>>
  PROVE  LET m == Layers!Max(Layers!ToSet(s)) IN
         m \in Nat /\ IsIn(m, s) /\ \A v : IsIn(v, s) => v <= m
<1> DEFINE D == Layers!ToSet(s)
           High(x) == \A y \in D : x >= y
           m == CHOOSE x \in D : High(x)
<1>0. /\ D \subseteq Nat /\ IsFiniteSet(D) /\ D # {} /\ \A v : IsIn(v, s) <=> v \in D
      /\ IsFiniteSet(1..Len(s)) /\ \A i \in 1..Len(s) : s[i] \in Nat
  BY SampleSet
<1>1. \E x \in D : High(x)
  <2>1. PICK it : Tops(it, s, 1..Len(s))
    BY <1>0, TopsExists
  <2> DEFINE k == it[1..Len(s)]
  <2>2. IsMost(k, s, 1..Len(s))
    BY <2>1 DEF Tops
  <2> HIDE DEF k
  <2>3. k \in Nat /\ (\A i \in 1..Len(s) : s[i] <= k) /\ (k = 0 \/ \E i \in 1..Len(s) : s[i] = k)
    BY <2>2 DEF IsMost
  <2> HIDE DEF D
  <2>4. High(k)
    <3>1. ASSUME NEW y \in D PROVE k >= y
      <4>1. PICK i \in 1..Len(s) : s[i] = y
        BY <1>0 DEF IsIn
      <4> QED
        BY <1>0, <2>3, <4>1
    <3> QED
      BY <3>1
  <2>5. k \in D
    <3>1. CASE k = 0
      <4>1. PICK y : y \in D
        BY <1>0
      <4>2. y \in Nat /\ k >= y
        BY <1>0, <2>4, <4>1
      <4> QED
        BY <3>1, <4>1, <4>2
    <3>2. CASE \E i \in 1..Len(s) : s[i] = k
      BY <1>0, <3>2 DEF IsIn
    <3> QED
      BY <2>3, <3>1, <3>2
  <2> QED
    BY <2>4, <2>5
<1>2. m \in D /\ High(m)
  <2> HIDE DEF High, D
  <2> QED
    BY <1>1
<1>3. Layers!Max(Layers!ToSet(s)) = m
  BY DEF Layers!Max
<1> HIDE DEF m, D
<1>4. m \in Nat /\ IsIn(m, s) /\ \A v : IsIn(v, s) => v <= m
  <2>1. ASSUME NEW v, IsIn(v, s) PROVE v <= m
    <3>1. v \in D /\ v \in Nat /\ m \in Nat
      BY <1>0, <1>2, <2>1
    <3>2. m >= v
      BY <1>2, <3>1
    <3> QED
      BY <3>1, <3>2
  <2> QED
    BY <1>0, <1>2, <2>1
<1> QED
  BY <1>3, <1>4

(* There is a sample at each place of the sorted samples.                  *)
LEMMA SampleAtPlace ==
  ASSUME NEW s \in Seq(Nat), NEW k \in 1..Len(s)
  PROVE  IsIn(Layers!AtPlace(s, k), s)
<1> DEFINE D == Layers!ToSet(s)
           I == 1..Len(s)
           Below(x) == {i \in DOMAIN s : s[i] < x}
           UpTo(x) == {i \in DOMAIN s : s[i] <= x}
           Sits(x) == Layers!Cardinality(Below(x)) < k /\ Layers!Cardinality(UpTo(x)) >= k
           a == CHOOSE x \in D : Sits(x)
<1>0. /\ Len(s) \in Nat /\ DOMAIN s = I /\ IsFiniteSet(I) /\ \A i \in I : s[i] \in Nat
      /\ \A v : IsIn(v, s) <=> v \in D
  BY SampleSet
<1>m. PICK m : m \in Nat /\ \A v : IsIn(v, s) => v <= m
  <2>1. s # <<>>
    BY <1>0
  <2> QED
    BY <2>1, LargestSample
<1>c. \A x : Cardinality(UpTo(x)) \in Nat /\ Cardinality(Below(x)) \in Nat
  <2> SUFFICES ASSUME NEW x PROVE Cardinality(UpTo(x)) \in Nat /\ Cardinality(Below(x)) \in Nat
    OBVIOUS
  <2>1. UpTo(x) \subseteq I /\ Below(x) \subseteq I
    BY <1>0
  <2> HIDE DEF UpTo, Below, I
  <2>2. IsFiniteSet(UpTo(x)) /\ IsFiniteSet(Below(x))
    BY <1>0, <2>1, FS_Subset
  <2> QED
    BY <2>2, FS_CardinalityType
<1>1. \E x \in D : Sits(x)
  <2> DEFINE R == 0..m
             Q == {x \in R : Cardinality(UpTo(x)) >= k}
  <2>1. m \in Q
    <3>1. UpTo(m) = I
      <4>1. ASSUME NEW i \in I PROVE s[i] <= m
        BY <1>m DEF IsIn
      <4> QED
        BY <1>0, <4>1
    <3>2. Cardinality(I) = Len(s)
      <4> DEFINE n == Len(s)
      <4>1. n \in Int /\ 1 \in Int /\ ~(1 > n) /\ n - 1 + 1 = n
        BY <1>0
      <4> HIDE DEF n
      <4>2. Cardinality(1..n) = n
        BY <4>1, FS_Interval
      <4> QED
        BY <4>2 DEF n
    <3>3. m \in R
      BY <1>m
    <3> HIDE DEF UpTo, I, R
    <3> QED
      BY <1>0, <3>1, <3>2, <3>3
  <2>2. PICK x \in Q : \A y \in Q : x <= y
    <3>0. R \subseteq Nat
      BY <1>m
    <3>1. R \subseteq Nat /\ Q \in SUBSET R /\ Q # {}
      <4> HIDE DEF UpTo, R
      <4> QED
        BY <3>0, <2>1
    <3>2. IsFiniteSet(R)
      <4>1. 0 \in Int /\ m \in Int
        BY <1>m
      <4> QED
        BY <4>1, FS_Interval
    <3> HIDE DEF R, Q
    <3> QED
      BY <3>1, <3>2, LeastExists
  <2>x. x \in Nat /\ x <= m /\ Cardinality(UpTo(x)) >= k
    BY <1>m, <2>2
  <2>3. Cardinality(Below(x)) < k
    <3>1. CASE x = 0
      <4>1. Below(x) = {}
        BY <1>0, <3>1
      <4>2. Cardinality({}) = 0
        BY FS_EmptySet
      <4> QED
        BY <4>1, <4>2
    <3>2. CASE x > 0
      <4>1. Below(x) = UpTo(x - 1)
        BY <1>0, <2>x
      <4>2. x - 1 \notin Q /\ x - 1 \in R
        BY <1>m, <2>2, <2>x, <3>2
      <4>3. Cardinality(UpTo(x - 1)) \in Nat /\ ~(Cardinality(UpTo(x - 1)) >= k)
        <5> HIDE DEF UpTo, Below
        <5> QED
          BY <1>c, <4>2
      <4>4. k \in Nat
        OBVIOUS
      <4> HIDE DEF UpTo, Below
      <4> QED
        BY <4>1, <4>3, <4>4
    <3> QED
      BY <2>x, <3>1, <3>2
  <2>4. x \in D
    <3> SUFFICES ASSUME x \notin D PROVE FALSE
      OBVIOUS
    <3>1. ~IsIn(x, s)
      BY <1>0
    <3>2. Below(x) = UpTo(x)
      BY <1>0, <2>x, <3>1 DEF IsIn
    <3>3. Cardinality(UpTo(x)) \in Nat /\ k \in Nat
      <4> HIDE DEF UpTo, Below
      <4> QED
        BY <1>c
    <3> HIDE DEF UpTo, Below
    <3> QED
      BY <2>x, <2>3, <3>2, <3>3
  <2>5. Sits(x)
    <3> HIDE DEF UpTo, Below
    <3> QED
      BY <2>x, <2>3, LayersCardinality
  <2> QED
    BY <2>4, <2>5
<1>2. a \in D
  <2> HIDE DEF Sits, D
  <2> QED
    BY <1>1
<1>3. Layers!AtPlace(s, k) = a
  BY DEF Layers!AtPlace
<1> HIDE DEF a, D
<1> QED
  BY <1>0, <1>2, <1>3

(* What ComputeStats returns.                                              *)
LEMMA StatsOfSamples ==
  ASSUME NEW s \in Seq(Nat)
  PROVE  LET c == Layers!ComputeStats(s) IN
         /\ c.count = Len(s)
         /\ c.min \in Nat /\ c.max \in Nat /\ c.p95 \in Nat
         /\ s = <<>> => c.min = 0 /\ c.max = 0 /\ c.p95 = 0
         /\ s # <<>> => IsIn(c.min, s) /\ IsIn(c.max, s) /\ IsIn(c.p95, s)
         /\ \A v : IsIn(v, s) => c.min <= v /\ v <= c.max
<1> DEFINE c == Layers!ComputeStats(s)
<1>1. CASE s = <<>>
  <2>1. c.count = 0 /\ c.min = 0 /\ c.max = 0 /\ c.p95 = 0
    BY <1>1 DEF Layers!ComputeStats
  <2>2. Len(s) = 0 /\ \A v : ~IsIn(v, s)
    BY <1>1 DEF IsIn
  <2> HIDE DEF c
  <2>3. /\ c.count = Len(s) /\ c.min \in Nat /\ c.max \in Nat /\ c.p95 \in Nat
        /\ s = <<>> => c.min = 0 /\ c.max = 0 /\ c.p95 = 0
        /\ s # <<>> => IsIn(c.min, s) /\ IsIn(c.max, s) /\ IsIn(c.p95, s)
        /\ \A v : IsIn(v, s) => c.min <= v /\ v <= c.max
    BY <1>1, <2>1, <2>2
  <2> QED
    BY <2>3 DEF c
<1>2. CASE s # <<>>
  <2> DEFINE n == Len(s)
             k == (95 * n + 99) \div 100
             a == Layers!Min(Layers!ToSet(s))
             b == Layers!Max(Layers!ToSet(s))
             p == Layers!AtPlace(s, k)
  <2>1. c.count = n /\ c.min = a /\ c.max = b /\ c.p95 = p
    BY <1>2 DEF Layers!ComputeStats
  <2>2. a \in Nat /\ IsIn(a, s) /\ \A v : IsIn(v, s) => a <= v
    BY <1>2, SmallestSample
  <2>3. b \in Nat /\ IsIn(b, s) /\ \A v : IsIn(v, s) => v <= b
    BY <1>2, LargestSample
  <2>4. k \in 1..n
    <3>1. n \in Nat /\ n > 0
      BY <1>2, SampleSet
    <3> HIDE DEF n
    <3> QED
      BY <3>1
  <2>5. IsIn(p, s)
    <3> HIDE DEF k
    <3> QED
      BY <2>4, SampleAtPlace DEF n
  <2>6. p \in Nat
    <3> HIDE DEF p
    <3> QED
      BY <2>5, SampleSet
  <2> HIDE DEF a, b, p, c, k, n
  <2>7. /\ c.count = n /\ c.min \in Nat /\ c.max \in Nat /\ c.p95 \in Nat
        /\ s = <<>> => c.min = 0 /\ c.max = 0 /\ c.p95 = 0
        /\ s # <<>> => IsIn(c.min, s) /\ IsIn(c.max, s) /\ IsIn(c.p95, s)
        /\ \A v : IsIn(v, s) => c.min <= v /\ v <= c.max
    BY <1>2, <2>1, <2>2, <2>3, <2>5, <2>6
  <2> QED
    BY <2>7 DEF c, n
<1> QED
  BY <1>1, <1>2

LayersSumStep(f, it, s) == IF s = {} THEN 0 ELSE it[s \ {Layers!Max(s)}] + f[Layers!Max(s)]
LayersSumUpTo(f, S) == LET it[s \in SUBSET S] == LayersSumStep(f, it, s) IN it[S]

LEMMA LayersFolds ==
  ASSUME NEW f, NEW S
  PROVE  LayersSumUpTo(f, S) = SumUpTo(f, S)
BY DEF LayersSumUpTo, LayersSumStep, SumUpTo, TopSumStep, Top, Layers!Max

(* The largest index of a set is in it.                                    *)
LEMMA LayersTop ==
  ASSUME NEW n \in Nat, NEW A \in SUBSET (1..n), A # {}
  PROVE  Layers!Max(A) \in A
<1>1. Top(A) \in A
  BY TopType
<1>2. Layers!Max(A) = Top(A)
  BY DEF Layers!Max, Top
<1> QED
  BY <1>1, <1>2

(* Samples of 1 and 2, as RSRP has them here: the deviation is the product *)
(* of their numbers.                                                       *)
Ones(s) == [i \in 1..Len(s) |-> 2 - s[i]]
Twos(s) == [i \in 1..Len(s) |-> s[i] - 1]

LEMMA OneMoreSample ==
  ASSUME NEW a \in Nat, NEW b \in Nat
  PROVE  /\ a + 0 = a /\ b + 0 = b /\ a + 1 \in Nat /\ b + 1 \in Nat
         /\ (a + b) + 1 = (a + 1) + b /\ (a + b) + 1 = a + (b + 1)
         /\ (a + 2 * b) + 1 = (a + 1) + 2 * b /\ (a + 2 * b) + 2 = a + 2 * (b + 1)
         /\ (a + 4 * b) + 1 = (a + 1) + 4 * b /\ (a + 4 * b) + 4 = a + 4 * (b + 1)
OBVIOUS

LEMMA SumsOfSamples ==
  ASSUME NEW s, NEW n \in Nat, n = Len(s), DOMAIN s = 1..n, \A i \in 1..n : s[i] \in {1, 2}
  PROVE  LET a == SumOn(Ones(s), 1..n)
             b == SumOn(Twos(s), 1..n)
         IN  /\ a \in Nat /\ b \in Nat /\ n = a + b
             /\ SumOn(s, 1..n) = a + 2 * b
             /\ SumOn([i \in 1..n |-> s[i] * s[i]], 1..n) = a + 4 * b
<1> DEFINE f == Ones(s)  g == Twos(s)  h == [i \in 1..n |-> s[i] * s[i]]
           Holds(A) == /\ SumOn(f, A) \in Nat /\ SumOn(g, A) \in Nat
                       /\ Cardinality(A) = SumOn(f, A) + SumOn(g, A)
                       /\ SumOn(s, A) = SumOn(f, A) + 2 * SumOn(g, A)
                       /\ SumOn(h, A) = SumOn(f, A) + 4 * SumOn(g, A)
           T == {A \in SUBSET (1..n) : Holds(A)}
<1>0. IsFiniteSet(1..n) /\ Cardinality(1..n) = n
  <2>1. n \in Int /\ 1 \in Int /\ (IF 1 > n THEN 0 ELSE n - 1 + 1) = n
    OBVIOUS
  <2> QED
    BY <2>1, FS_Interval
<1>v. ASSUME NEW i \in 1..n
      PROVE  \/ s[i] = 1 /\ f[i] = 1 /\ g[i] = 0 /\ h[i] = 1
             \/ s[i] = 2 /\ f[i] = 0 /\ g[i] = 1 /\ h[i] = 4
  BY DEF Ones, Twos
<1> HIDE DEF f, g, h
<1>1. {} \in T
  BY SumEmpty, FS_EmptySet
<1>2. ASSUME NEW A \in SUBSET (1..n), A # {}, \A x \in A : A \ {x} \in T
      PROVE  A \in T
  <2>1. PICK x \in A : Holds(A \ {x})
    <3> HIDE DEF Holds
    <3> QED
      BY <1>2
  <2> DEFINE B == A \ {x}
  <2>2. IsFiniteSet(A) /\ \A i \in A : s[i] \in Nat /\ f[i] \in Nat /\ g[i] \in Nat /\ h[i] \in Nat
    <3>1. IsFiniteSet(A)
      BY <1>0, FS_Subset
    <3>2. ASSUME NEW i \in A PROVE s[i] \in Nat /\ f[i] \in Nat /\ g[i] \in Nat /\ h[i] \in Nat
      <4>1. i \in 1..n
        OBVIOUS
      <4> QED
        BY <1>v, <4>1
    <3> QED
      BY <3>1, <3>2
  <2>3. /\ SumOn(s, A) = SumOn(s, B) + s[x] /\ SumOn(f, A) = SumOn(f, B) + f[x]
        /\ SumOn(g, A) = SumOn(g, B) + g[x] /\ SumOn(h, A) = SumOn(h, B) + h[x]
    <3>1. SumOn(s, A) = SumOn(s, B) + s[x]
      BY <2>2, SumType
    <3>2. SumOn(f, A) = SumOn(f, B) + f[x]
      BY <2>2, SumType
    <3>3. SumOn(g, A) = SumOn(g, B) + g[x]
      BY <2>2, SumType
    <3>4. SumOn(h, A) = SumOn(h, B) + h[x]
      BY <2>2, SumType
    <3> QED
      BY <3>1, <3>2, <3>3, <3>4
  <2>4. Cardinality(A) = Cardinality(B) + 1 /\ Cardinality(B) \in Nat
    <3>1. IsFiniteSet(B) /\ x \notin B /\ A = B \cup {x}
      BY <2>2, FS_Subset
    <3> HIDE DEF B
    <3> QED
      BY <3>1, FS_AddElement, FS_CardinalityType
  <2>5. Holds(B)
    BY <2>1
  <2>6. \/ s[x] = 1 /\ f[x] = 1 /\ g[x] = 0 /\ h[x] = 1
        \/ s[x] = 2 /\ f[x] = 0 /\ g[x] = 1 /\ h[x] = 4
    BY <1>v
  <2> HIDE DEF B, T
  <2> DEFINE a == SumOn(f, B)  a2 == SumOn(f, A)  b == SumOn(g, B)  b2 == SumOn(g, A)
             p == SumOn(s, B)  p2 == SumOn(s, A)  q == SumOn(h, B)  q2 == SumOn(h, A)
             k == Cardinality(B)  k2 == Cardinality(A)
  <2>7. a2 \in Nat /\ b2 \in Nat /\ k2 = a2 + b2 /\ p2 = a2 + 2 * b2 /\ q2 = a2 + 4 * b2
    <3>1. a \in Nat /\ b \in Nat /\ k = a + b /\ p = a + 2 * b /\ q = a + 4 * b
      BY <2>5
    <3>2. k2 = k + 1 /\ a2 = a + f[x] /\ b2 = b + g[x] /\ p2 = p + s[x] /\ q2 = q + h[x]
      BY <2>3, <2>4
    <3> HIDE DEF a, b, p, q, k, a2, b2, p2, q2, k2, Holds
    <3>3. a \in Nat /\ b \in Nat
      BY <3>1
    <3>4. /\ a + 0 = a /\ b + 0 = b /\ a + 1 \in Nat /\ b + 1 \in Nat
          /\ (a + b) + 1 = (a + 1) + b /\ (a + b) + 1 = a + (b + 1)
          /\ (a + 2 * b) + 1 = (a + 1) + 2 * b /\ (a + 2 * b) + 2 = a + 2 * (b + 1)
          /\ (a + 4 * b) + 1 = (a + 1) + 4 * b /\ (a + 4 * b) + 4 = a + 4 * (b + 1)
      BY <3>3, OneMoreSample
    <3>5. CASE s[x] = 1 /\ f[x] = 1 /\ g[x] = 0 /\ h[x] = 1
      <4>1. a2 = a + 1 /\ b2 = b /\ k2 = (a + b) + 1 /\ p2 = (a + 2 * b) + 1
            /\ q2 = (a + 4 * b) + 1
        BY <3>1, <3>2, <3>4, <3>5, Zenon
      <4> QED
        BY <3>1, <3>4, <4>1, Zenon
    <3>6. CASE s[x] = 2 /\ f[x] = 0 /\ g[x] = 1 /\ h[x] = 4
      <4>1. a2 = a /\ b2 = b + 1 /\ k2 = (a + b) + 1 /\ p2 = (a + 2 * b) + 2
            /\ q2 = (a + 4 * b) + 4
        BY <3>1, <3>2, <3>4, <3>6, Zenon
      <4> QED
        BY <3>1, <3>4, <4>1, Zenon
    <3> QED
      BY <2>6, <3>5, <3>6
  <2> QED
    BY <2>7 DEF T
<1>3. SUBSET (1..n) \subseteq T
  <2> HIDE DEF T
  <2> QED
    BY <1>0, <1>1, <1>2, SubsetInduction
<1>4. Holds(1..n)
  <2> HIDE DEF Holds
  <2> QED
    BY <1>3
<1> QED
  BY <1>0, <1>4 DEF f, g, h

LEMMA Deviation ==
  ASSUME NEW a \in Nat, NEW b \in Nat
  PROVE  ((a + b) * (a + 4 * b) - (a + 2 * b) * (a + 2 * b) = 0) <=> (a = 0 \/ b = 0)
<1>1. (a + b) * (a + 4 * b) - (a + 2 * b) * (a + 2 * b) = a * b
  OBVIOUS
<1>2. a * b = 0 <=> a = 0 \/ b = 0
  OBVIOUS
<1> QED
  BY <1>1, <1>2

LEMMA SamplesVary ==
  ASSUME NEW s \in Seq(Nat), \A v : IsIn(v, s) => v \in {1, 2}
  PROVE  (Layers!PhyStats(s).variance = 0) = (\A v, w : IsIn(v, s) /\ IsIn(w, s) => v = w)
<1> DEFINE n == Len(s)
           a == SumOn(Ones(s), 1..n)
           b == SumOn(Twos(s), 1..n)
           q == [i \in 1..n |-> s[i] * s[i]]
<1>1. n \in Nat /\ DOMAIN s = 1..n /\ IsFiniteSet(1..n) /\ \A i \in 1..n : s[i] \in {1, 2}
  BY SampleSet DEF IsIn
<1>2. /\ a \in Nat /\ b \in Nat /\ n = a + b /\ SumOn(s, 1..n) = a + 2 * b
      /\ SumOn(q, 1..n) = a + 4 * b
  <2> HIDE DEF q, a, b
  <2> QED
    BY <1>1, SumsOfSamples DEF q, a, b
<1>3. Layers!FoldLeft(LAMBDA x, y : x + y, 0, s) = SumOn(s, 1..n)
  <2>1. Layers!FoldLeft(LAMBDA x, y : x + y, 0, s) = LayersSumUpTo(s, DOMAIN s)
    BY DEF Layers!FoldLeft, Layers!MapThenFoldSet, LayersSumUpTo, LayersSumStep
  <2>2. \A i \in 1..n : s[i] \in Nat
    BY <1>1
  <2> QED
    BY <1>1, <2>1, <2>2, LayersFolds, SumUpToIsSum
<1>4. Layers!FoldLeft(LAMBDA x, y : x + y * y, 0, s) = SumOn(q, 1..n)
  <2>1. Layers!FoldLeft(LAMBDA x, y : x + y * y, 0, s) = LayersSumUpTo(q, DOMAIN s)
    <3>1. \A A \in SUBSET DOMAIN s : A # {} => Layers!Max(A) \in DOMAIN s
      <4> HIDE DEF n
      <4> QED
        BY <1>1, LayersTop
    <3>2. q = [i \in DOMAIN s |-> s[i] * s[i]]
      BY <1>1
    <3> HIDE DEF q
    <3>3. Layers!FoldLeft(LAMBDA x, y : x + y * y, 0, s) =
            LayersSumUpTo([i \in DOMAIN s |-> s[i] * s[i]], DOMAIN s)
      BY <3>1 DEF Layers!FoldLeft, Layers!MapThenFoldSet, LayersSumUpTo, LayersSumStep
    <3> QED
      BY <3>2, <3>3
  <2>2. \A i \in 1..n : q[i] \in Nat
    BY <1>1
  <2> QED
    BY <1>1, <2>1, <2>2, LayersFolds, SumUpToIsSum
<1>5. Layers!PhyStats(s).variance = n * SumOn(q, 1..n) - SumOn(s, 1..n) * SumOn(s, 1..n)
  <2>1. Layers!PhyStats(s).variance =
          n * Layers!FoldLeft(LAMBDA x, y : x + y * y, 0, s) -
          Layers!FoldLeft(LAMBDA x, y : x + y, 0, s) * Layers!FoldLeft(LAMBDA x, y : x + y, 0, s)
    BY DEF Layers!PhyStats
  <2> QED
    BY <1>3, <1>4, <2>1
<1>6. (Layers!PhyStats(s).variance = 0) <=> (a = 0 \/ b = 0)
  <2> HIDE DEF n, a, b, q
  <2> QED
    BY <1>2, <1>5, Deviation
<1>7. a = 0 <=> \A i \in 1..n : s[i] = 2
  <2>1. \A i \in 1..n : Ones(s)[i] \in Nat /\ (Ones(s)[i] = 0 <=> s[i] = 2)
    BY <1>1 DEF Ones
  <2> QED
    BY <1>1, <2>1, SumIsZero
<1>8. b = 0 <=> \A i \in 1..n : s[i] = 1
  <2>1. \A i \in 1..n : Twos(s)[i] \in Nat /\ (Twos(s)[i] = 0 <=> s[i] = 1)
    BY <1>1 DEF Twos
  <2> QED
    BY <1>1, <2>1, SumIsZero
<1>9. (\A v, w : IsIn(v, s) /\ IsIn(w, s) => v = w) <=>
        (\A i \in 1..n : s[i] = 2) \/ (\A i \in 1..n : s[i] = 1)
  <2> HIDE DEF n
  <2>1. \A v : IsIn(v, s) <=> \E i \in 1..n : s[i] = v
    BY DEF IsIn, n
  <2>2. ASSUME \A v, w : IsIn(v, s) /\ IsIn(w, s) => v = w
        PROVE  (\A i \in 1..n : s[i] = 2) \/ (\A i \in 1..n : s[i] = 1)
    <3>1. \A i, j \in 1..n : s[i] = s[j]
      BY <2>1, <2>2
    <3> QED
      BY <1>1, <3>1
  <2>3. ASSUME (\A i \in 1..n : s[i] = 2) \/ (\A i \in 1..n : s[i] = 1),
               NEW v, NEW w, IsIn(v, s), IsIn(w, s)
        PROVE  v = w
    BY <2>1, <2>3
  <2> QED
    BY <2>2, <2>3
<1> HIDE DEF a, b, n
<1> QED
  BY <1>6, <1>7, <1>8, <1>9

-----------------------------------------------------------------------------
(* Accounts of flows and bearers.                                          *)

AccountFieldsOf == {"txBytes", "txPdus", "rxBytes", "rxPdus", "maxDelay"}
CountFieldsOf == AccountFieldsOf \ {"maxDelay"}
LayerAccounts == [txBytes : Nat, txPdus : Nat, rxBytes : Nat, rxPdus : Nat, maxDelay : Nat]
FlowTables == [Ue \X Qfi -> LayerAccounts]
BearerTables == [Ue \X Layers!Drb -> LayerAccounts]

Cells(u, d) == {u} \X {q \in Qfi : Layers!GetDrbForQfi(q) = d}
ValuesOf(t, field, S) == [k \in S |-> t[k][field]]
ValueSum(t, field, S) == SumOn(ValuesOf(t, field, S), S)

(* The field of one entry grew, the others' stayed.                        *)
RaisedAt(t2, t, S, key, field, inc) ==
  \A k \in S : /\ t[k][field] \in Nat
               /\ t2[k][field] = t[k][field] + (IF k = key THEN inc ELSE 0)

LEMMA AccountValues ==
  ASSUME NEW a \in LayerAccounts
  PROVE  \A field \in AccountFieldsOf : a[field] \in Nat
BY DEF LayerAccounts, AccountFieldsOf

LEMMA DrbFinite ==
  /\ IsFiniteSet(Layers!Drb)
  /\ \A q \in Qfi : Layers!GetDrbForQfi(q) \in Layers!Drb
  /\ IsFiniteSet(Ue \X Qfi) /\ IsFiniteSet(Ue \X Layers!Drb)
  /\ \A q : IsFiniteSet(Ue \X {q})
  /\ \A u \in Ue : \A d : IsFiniteSet(Cells(u, d)) /\ Cells(u, d) \subseteq Ue \X Qfi
<1>1. Layers!Drb \subseteq {3, 4}
  BY DEF Layers!Drb, Layers!GetDrbForQfi
<1>2. IsFiniteSet(Layers!Drb)
  <2>1. 3..4 = {3, 4} /\ 3 \in Int /\ 4 \in Int
    OBVIOUS
  <2>2. IsFiniteSet(3..4)
    BY <2>1, FS_Interval
  <2>3. Layers!Drb \in SUBSET (3..4)
    BY <1>1, <2>1
  <2> QED
    BY <2>2, <2>3, FS_Subset
<1>3. \A q \in Qfi : Layers!GetDrbForQfi(q) \in Layers!Drb
  BY DEF Layers!Drb
<1>4. IsFiniteSet(Ue \X Qfi) /\ IsFiniteSet(Ue \X Layers!Drb)
  BY <1>2, LayersConstants, FS_Product
<1>5. ASSUME NEW q PROVE IsFiniteSet(Ue \X {q})
  BY LayersConstants, FS_Singleton, FS_Product
<1>6. ASSUME NEW u \in Ue, NEW d
      PROVE  IsFiniteSet(Cells(u, d)) /\ Cells(u, d) \subseteq Ue \X Qfi
  <2>1. Cells(u, d) \in SUBSET (Ue \X Qfi)
    BY DEF Cells
  <2> QED
    BY <1>4, <2>1, FS_Subset
<1> QED
  BY <1>2, <1>3, <1>4, <1>5, <1>6

LEMMA SumRaised ==
  ASSUME NEW S, IsFiniteSet(S), NEW f, NEW g, NEW x, NEW inc \in Nat,
         \A y \in S : f[y] \in Nat /\ g[y] = f[y] + (IF y = x THEN inc ELSE 0)
  PROVE  /\ SumOn(f, S) \in Nat /\ SumOn(g, S) \in Nat
         /\ SumOn(g, S) = SumOn(f, S) + (IF x \in S THEN inc ELSE 0)
<1>1. SumOn(f, S) \in Nat
  BY SumType
<1>2. CASE x \in S
  <2>1. \A y \in S : f[y] \in Nat /\ g[y] \in Nat
    OBVIOUS
  <2>2. \A y \in S \ {x} : g[y] = f[y]
    <3> SUFFICES ASSUME NEW y \in S \ {x} PROVE g[y] = f[y]
      OBVIOUS
    <3>1. y \in S /\ y # x
      OBVIOUS
    <3> QED
      BY <3>1
  <2>3. SumOn(g, S) + f[x] = SumOn(f, S) + g[x]
    BY <1>2, <2>1, <2>2, SumPut
  <2>4. SumOn(g, S) \in Nat
    BY <2>1, SumType
  <2>5. f[x] \in Nat /\ g[x] = f[x] + inc
    BY <1>2
  <2> QED
    BY <1>1, <1>2, <2>3, <2>4, <2>5
<1>3. CASE x \notin S
  <2>1. \A y \in S : f[y] \in Nat /\ g[y] = f[y]
    <3> SUFFICES ASSUME NEW y \in S PROVE f[y] \in Nat /\ g[y] = f[y]
      OBVIOUS
    <3>1. y # x
      BY <1>3
    <3> QED
      BY <3>1
  <2>2. SumOn(g, S) = SumOn(f, S)
    BY <2>1, SumSame
  <2> QED
    BY <1>1, <1>3, <2>2
<1> QED
  BY <1>2, <1>3

LEMMA ValueSumRaised ==
  ASSUME NEW S, IsFiniteSet(S), NEW t, NEW t2, NEW key, NEW field, NEW inc \in Nat,
         RaisedAt(t2, t, S, key, field, inc)
  PROVE  /\ ValueSum(t, field, S) \in Nat /\ ValueSum(t2, field, S) \in Nat
         /\ ValueSum(t2, field, S) = ValueSum(t, field, S) + (IF key \in S THEN inc ELSE 0)
<1> DEFINE f == ValuesOf(t, field, S)
           g == ValuesOf(t2, field, S)
<1>1. \A y \in S : f[y] \in Nat /\ g[y] = f[y] + (IF y = key THEN inc ELSE 0)
  BY DEF ValuesOf, RaisedAt
<1> HIDE DEF f, g
<1>2. /\ SumOn(f, S) \in Nat /\ SumOn(g, S) \in Nat
      /\ SumOn(g, S) = SumOn(f, S) + (IF key \in S THEN inc ELSE 0)
  BY <1>1, SumRaised
<1> QED
  BY <1>2 DEF ValueSum, f, g

(* What one flow or bearer, or all of them, count for all UEs.             *)
ColumnSums(t, field, B) == [b \in B |-> ValueSum(t, field, Ue \X {b})]
GrandTotal(t, field, B) == SumOn(ColumnSums(t, field, B), B)

LEMMA GrandTotalRaised ==
  ASSUME NEW B, IsFiniteSet(B), NEW t, NEW t2, NEW u \in Ue, NEW b \in B, NEW field,
         NEW inc \in Nat, RaisedAt(t2, t, Ue \X B, <<u, b>>, field, inc)
  PROVE  /\ GrandTotal(t, field, B) \in Nat
         /\ GrandTotal(t2, field, B) = GrandTotal(t, field, B) + inc
<1> DEFINE f == ColumnSums(t, field, B)
           g == ColumnSums(t2, field, B)
<1>1. ASSUME NEW y \in B
      PROVE  f[y] \in Nat /\ g[y] = f[y] + (IF y = b THEN inc ELSE 0)
  <2> DEFINE S == Ue \X {y}
  <2>1. IsFiniteSet(S)
    BY DrbFinite
  <2>2. RaisedAt(t2, t, S, <<u, b>>, field, inc)
    <3>1. S \subseteq Ue \X B
      OBVIOUS
    <3> HIDE DEF S
    <3> QED
      BY <3>1 DEF RaisedAt
  <2>3. <<u, b>> \in S <=> y = b
    OBVIOUS
  <2>4. f[y] = ValueSum(t, field, S) /\ g[y] = ValueSum(t2, field, S)
    BY DEF ColumnSums
  <2> HIDE DEF S
  <2>5. /\ ValueSum(t, field, S) \in Nat
        /\ ValueSum(t2, field, S) = ValueSum(t, field, S) + (IF <<u, b>> \in S THEN inc ELSE 0)
    BY <2>1, <2>2, ValueSumRaised
  <2> HIDE DEF f, g
  <2> QED
    BY <2>3, <2>4, <2>5
<1> HIDE DEF f, g
<1>2. /\ SumOn(f, B) \in Nat
      /\ SumOn(g, B) = SumOn(f, B) + (IF b \in B THEN inc ELSE 0)
  <2>1. \A y \in B : f[y] \in Nat /\ g[y] = f[y] + (IF y = b THEN inc ELSE 0)
    BY <1>1
  <2>2. /\ SumOn(f, B) \in Nat /\ SumOn(g, B) \in Nat
        /\ SumOn(g, B) = SumOn(f, B) + (IF b \in B THEN inc ELSE 0)
    BY <2>1, SumRaised
  <2> QED
    BY <2>2
<1> QED
  BY <1>2 DEF GrandTotal, f, g

LEMMA GrandTotalCounted ==
  ASSUME NEW B, IsFiniteSet(B), NEW t, NEW t2, NEW u \in Ue, NEW b \in B, NEW field,
         RaisedAt(t2, t, Ue \X B, <<u, b>>, field, 1)
  PROVE  /\ GrandTotal(t, field, B) \in Nat
         /\ GrandTotal(t2, field, B) = GrandTotal(t, field, B) + 1
<1> DEFINE inc == 1
<1>1. inc \in Nat /\ RaisedAt(t2, t, Ue \X B, <<u, b>>, field, inc)
  OBVIOUS
<1> HIDE DEF inc
<1>2. /\ GrandTotal(t, field, B) \in Nat
      /\ GrandTotal(t2, field, B) = GrandTotal(t, field, B) + inc
  BY <1>1, GrandTotalRaised
<1> QED
  BY <1>2 DEF inc

-----------------------------------------------------------------------------
(* PDUs under way.                                                         *)

FlightPdus == [ue : Ue, qfi : Qfi, size : Nat \ {0}, time : Nat, sent : Nat \ {0}]

IsOnBearer(p, u, d) == p.ue = u /\ Layers!GetDrbForQfi(p.qfi) = d
SentOf(fl, u, d) == [i \in 1..Len(fl) |-> IF IsOnBearer(fl[i], u, d) THEN fl[i].sent ELSE 0]
OnWay(fl, u, d) == SumOn(SentOf(fl, u, d), 1..Len(fl))

LEMMA PduFields ==
  ASSUME NEW p \in FlightPdus
  PROVE  /\ p.ue \in Ue /\ p.qfi \in Qfi /\ p.size \in Nat \ {0} /\ p.time \in Nat
         /\ p.sent \in Nat \ {0} /\ p.sent - 1 \in Nat
         /\ Layers!GetDrbForQfi(p.qfi) \in Layers!Drb
BY DrbFinite DEF FlightPdus

LEMMA InFlight ==
  ASSUME NEW fl \in Seq(FlightPdus)
  PROVE  /\ Len(fl) \in Nat /\ DOMAIN fl = 1..Len(fl) /\ IsFiniteSet(1..Len(fl))
         /\ \A i \in 1..Len(fl) : fl[i] \in FlightPdus
<1>1. Len(fl) \in Nat /\ DOMAIN fl = 1..Len(fl) /\ \A i \in 1..Len(fl) : fl[i] \in FlightPdus
  OBVIOUS
<1> QED
  BY <1>1, FS_Interval

LEMMA OnWayType ==
  ASSUME NEW fl \in Seq(FlightPdus), NEW u, NEW d
  PROVE  (\A i \in 1..Len(fl) : SentOf(fl, u, d)[i] \in Nat) /\ OnWay(fl, u, d) \in Nat
<1>1. \A i \in 1..Len(fl) : SentOf(fl, u, d)[i] \in Nat
  BY InFlight, PduFields DEF SentOf
<1> QED
  BY <1>1, InFlight, SumType DEF OnWay

LEMMA OnWayAppend ==
  ASSUME NEW fl \in Seq(FlightPdus), NEW p \in FlightPdus, NEW u, NEW d
  PROVE  /\ Append(fl, p) \in Seq(FlightPdus)
         /\ OnWay(Append(fl, p), u, d) =
              OnWay(fl, u, d) + (IF IsOnBearer(p, u, d) THEN p.sent ELSE 0)
<1> DEFINE k == Append(fl, p)
           f == SentOf(fl, u, d)
           g == SentOf(k, u, d)
<1>1. /\ k \in Seq(FlightPdus) /\ Len(k) = Len(fl) + 1 /\ k[Len(fl) + 1] = p
      /\ \A i \in 1..Len(fl) : k[i] = fl[i]
  OBVIOUS
<1>2. Len(fl) \in Nat
  OBVIOUS
<1> HIDE DEF k
<1>3. \A i \in 1..Len(fl) : f[i] \in Nat /\ g[i] = f[i]
  <2>1. \A i \in 1..Len(fl) : i \in 1..Len(k)
    BY <1>1, <1>2
  <2> QED
    BY <1>1, <2>1, OnWayType DEF SentOf
<1>4. Len(fl) + 1 \in 1..Len(k)
  BY <1>1, <1>2
<1>5. g[Len(fl) + 1] = (IF IsOnBearer(p, u, d) THEN p.sent ELSE 0)
  BY <1>1, <1>4 DEF SentOf
<1>6. g[Len(fl) + 1] \in Nat
  BY <1>1, <1>4, OnWayType
<1> HIDE DEF f, g
<1>7. SumOn(g, 1..(Len(fl) + 1)) = SumOn(f, 1..Len(fl)) + g[Len(fl) + 1]
  BY <1>2, <1>3, <1>6, SumAppend
<1> QED
  BY <1>1, <1>5, <1>7 DEF OnWay, f, g, k

LEMMA OneRaised ==
  ASSUME NEW S, IsFiniteSet(S), NEW x \in S, NEW f, NEW g, NEW inc \in Nat,
         \A y \in S : f[y] \in Nat, g[x] = f[x] + inc, \A y \in S \ {x} : g[y] = f[y]
  PROVE  SumOn(g, S) = SumOn(f, S) + inc
<1>1. f[x] \in Nat /\ g[x] \in Nat
  OBVIOUS
<1>2. \A y \in S : f[y] \in Nat /\ g[y] \in Nat
  BY <1>1
<1>3. SumOn(g, S) + f[x] = SumOn(f, S) + g[x]
  BY <1>2, SumPut
<1>4. SumOn(f, S) \in Nat /\ SumOn(g, S) \in Nat
  BY <1>2, SumType
<1> QED
  BY <1>1, <1>3, <1>4

IsRepeat(k, fl, i) == k = [fl EXCEPT ![i].sent = @ + 1]

LEMMA OnWayRepeat ==
  ASSUME NEW fl \in Seq(FlightPdus), NEW i \in 1..Len(fl), NEW k, IsRepeat(k, fl, i),
         NEW u, NEW d
  PROVE  /\ k \in Seq(FlightPdus) /\ Len(k) = Len(fl)
         /\ \A j \in 1..Len(fl) : k[j].time = fl[j].time
         /\ OnWay(k, u, d) = OnWay(fl, u, d) + (IF IsOnBearer(fl[i], u, d) THEN 1 ELSE 0)
<1> DEFINE p == [fl[i] EXCEPT !.sent = @ + 1]
           f == SentOf(fl, u, d)
           g == SentOf(k, u, d)
           inc == IF IsOnBearer(fl[i], u, d) THEN 1 ELSE 0
<1>0. fl[i] \in FlightPdus /\ Len(fl) \in Nat
  OBVIOUS
<1>1. /\ p \in FlightPdus /\ p.ue = fl[i].ue /\ p.qfi = fl[i].qfi /\ p.sent = fl[i].sent + 1
      /\ p.time = fl[i].time
  <2> DEFINE r == fl[i]
  <2>1. r \in FlightPdus
    BY <1>0
  <2> HIDE DEF r
  <2>2. r.sent + 1 \in Nat \ {0}
    BY <2>1, PduFields
  <2>3. /\ [r EXCEPT !.sent = @ + 1] \in FlightPdus
        /\ [r EXCEPT !.sent = @ + 1].ue = r.ue /\ [r EXCEPT !.sent = @ + 1].qfi = r.qfi
        /\ [r EXCEPT !.sent = @ + 1].sent = r.sent + 1
        /\ [r EXCEPT !.sent = @ + 1].time = r.time
    BY <2>1, <2>2 DEF FlightPdus
  <2> QED
    BY <2>3 DEF r
<1>7. k = [fl EXCEPT ![i] = p]
  BY DEF IsRepeat
<1> HIDE DEF p
<1>2. /\ k \in Seq(FlightPdus) /\ Len(k) = Len(fl) /\ k[i] = p
      /\ \A j \in 1..Len(fl) : j # i => k[j] = fl[j]
  BY <1>0, <1>1, <1>7
<1>3. \A j \in 1..Len(fl) : k[j].time = fl[j].time
  BY <1>1, <1>2
<1>4. ASSUME NEW j \in 1..Len(fl)
      PROVE  f[j] \in Nat /\ g[j] = f[j] + (IF j = i THEN inc ELSE 0)
  <2>1. f[j] \in Nat /\ j \in 1..Len(k)
    BY <1>2, OnWayType
  <2>2. CASE j = i
    <3>1. IsOnBearer(p, u, d) <=> IsOnBearer(fl[i], u, d)
      BY <1>1 DEF IsOnBearer
    <3>2. fl[i].sent \in Nat
      BY <1>0, PduFields
    <3>3. f[j] = (IF IsOnBearer(fl[i], u, d) THEN fl[i].sent ELSE 0)
          /\ g[j] = (IF IsOnBearer(p, u, d) THEN p.sent ELSE 0)
      BY <1>2, <2>1, <2>2 DEF SentOf
    <3> HIDE DEF f, g
    <3> QED
      BY <1>1, <2>1, <2>2, <3>1, <3>2, <3>3
  <2>3. CASE j # i
    <3>1. g[j] = f[j]
      BY <1>2, <2>1, <2>3 DEF SentOf
    <3> HIDE DEF f, g
    <3> QED
      BY <2>1, <2>3, <3>1
  <2> QED
    BY <2>2, <2>3
<1>5. inc \in Nat
  OBVIOUS
<1> HIDE DEF f, g, inc
<1>6. SumOn(g, 1..Len(fl)) = SumOn(f, 1..Len(fl)) + inc
  <2> DEFINE S == 1..Len(fl)
  <2>1. IsFiniteSet(S) /\ i \in S
    BY InFlight
  <2>2. \A j \in S : f[j] \in Nat
    BY <1>4
  <2>3. g[i] = f[i] + inc
    BY <1>4
  <2>4. \A j \in S \ {i} : g[j] = f[j]
    <3> SUFFICES ASSUME NEW j \in S \ {i} PROVE g[j] = f[j]
      OBVIOUS
    <3>1. j \in 1..Len(fl) /\ j # i
      OBVIOUS
    <3>2. f[j] \in Nat /\ g[j] = f[j] + 0
      BY <1>4, <3>1
    <3> QED
      BY <3>2
  <2> HIDE DEF S
  <2>5. SumOn(g, S) = SumOn(f, S) + inc
    BY <1>5, <2>1, <2>2, <2>3, <2>4, OneRaised, Zenon
  <2> QED
    BY <2>5 DEF S
<1> QED
  BY <1>2, <1>3, <1>6 DEF OnWay, f, g, inc

LEMMA OnWayRemove ==
  ASSUME NEW fl \in Seq(FlightPdus), NEW i \in 1..Len(fl), NEW u, NEW d
  PROVE  LET k == Layers!RemoveAt(fl, i) IN
         /\ k \in Seq(FlightPdus) /\ Len(k) = Len(fl) - 1
         /\ \A j \in 1..Len(k) : \E h \in 1..Len(fl) : k[j] = fl[h]
         /\ OnWay(k, u, d) + (IF IsOnBearer(fl[i], u, d) THEN fl[i].sent ELSE 0) = OnWay(fl, u, d)
<1> DEFINE k == Layers!RemoveAt(fl, i)
           f == SentOf(fl, u, d)
           g == SentOf(k, u, d)
<1>1. /\ k \in Seq(FlightPdus) /\ Len(k) = Len(fl) - 1 /\ Len(fl) \in Nat
      /\ \A j \in 1..(Len(fl) - 1) : k[j] = (IF j < i THEN fl[j] ELSE fl[j + 1])
  <2> DEFINE T == FlightPdus
             c == SubSeq(fl, 1, i - 1) \o SubSeq(fl, i + 1, Len(fl))
  <2>1. k = c
    BY DEF Layers!RemoveAt
  <2>2. fl \in Seq(T) /\ Len(fl) \in Nat
    OBVIOUS
  <2> HIDE DEF T
  <2>3. /\ c \in Seq(T) /\ Len(c) = Len(fl) - 1
        /\ \A j \in 1..(Len(fl) - 1) : c[j] = (IF j < i THEN fl[j] ELSE fl[j + 1])
    BY <2>2, CutOut
  <2> HIDE DEF c, k
  <2> QED
    BY <2>1, <2>2, <2>3 DEF T
<1> HIDE DEF k
<1>2. \A j \in 1..Len(fl) : f[j] \in Nat
  BY OnWayType
<1>3. ASSUME NEW j \in 1..(Len(fl) - 1)
      PROVE  /\ g[j] = (IF j < i THEN f[j] ELSE f[j + 1])
             /\ \E h \in 1..Len(fl) : k[j] = fl[h]
  <2>1. j \in 1..Len(k) /\ j \in 1..Len(fl) /\ j + 1 \in 1..Len(fl)
    BY <1>1
  <2>2. CASE j < i
    BY <1>1, <2>1, <2>2 DEF SentOf
  <2>3. CASE ~(j < i)
    BY <1>1, <2>1, <2>3 DEF SentOf
  <2> QED
    BY <2>2, <2>3
<1>4. f[i] = (IF IsOnBearer(fl[i], u, d) THEN fl[i].sent ELSE 0)
  BY DEF SentOf
<1> HIDE DEF f, g
<1>5. SumOn(g, 1..(Len(fl) - 1)) + f[i] = SumOn(f, 1..Len(fl))
  <2>1. \A j \in 1..(Len(fl) - 1) : g[j] = (IF j < i THEN f[j] ELSE f[j + 1])
    BY <1>3
  <2> QED
    BY <1>1, <1>2, <2>1, SumRemove
<1>6. /\ \A j \in 1..Len(k) : \E h \in 1..Len(fl) : k[j] = fl[h]
      /\ OnWay(k, u, d) + (IF IsOnBearer(fl[i], u, d) THEN fl[i].sent ELSE 0) = OnWay(fl, u, d)
  BY <1>1, <1>3, <1>4, <1>5 DEF OnWay, f, g
<1> QED
  BY <1>1, <1>6 DEF k

-----------------------------------------------------------------------------
(* One PDU more in one entry.                                              *)

SentInc(p, field) ==
  IF field = "txBytes" THEN p.size ELSE IF field = "txPdus" THEN 1 ELSE 0
GotInc(p, field) ==
  IF field = "rxBytes" THEN p.size ELSE IF field = "rxPdus" THEN 1 ELSE 0

LEMMA IncType ==
  ASSUME NEW p \in FlightPdus, NEW field
  PROVE  SentInc(p, field) \in Nat /\ GotInc(p, field) \in Nat
BY PduFields DEF SentInc, GotInc

LEMMA SentAccount ==
  ASSUME NEW a \in LayerAccounts, NEW p \in FlightPdus
  PROVE  LET b == Layers!Sent(a, p) IN
         /\ b \in LayerAccounts /\ b.maxDelay = a.maxDelay
         /\ \A field \in CountFieldsOf : b[field] = a[field] + SentInc(p, field)
<1> DEFINE b == Layers!Sent(a, p)
           n == p.size
<1>1. n \in Nat
  BY PduFields
<1>2. b = [a EXCEPT !.txBytes = @ + n, !.txPdus = @ + 1]
  BY DEF Layers!Sent
<1> HIDE DEF b, n
<1>3. /\ a.txBytes + n \in Nat /\ a.txPdus + 1 \in Nat
      /\ a.rxBytes + 0 = a.rxBytes /\ a.rxPdus + 0 = a.rxPdus
  BY <1>1 DEF LayerAccounts
<1>4. b \in LayerAccounts
  BY <1>2, <1>3 DEF LayerAccounts
<1>5. /\ b.txBytes = a.txBytes + n /\ b.txPdus = a.txPdus + 1
      /\ b.rxBytes = a.rxBytes + 0 /\ b.rxPdus = a.rxPdus + 0 /\ b.maxDelay = a.maxDelay
  BY <1>2, <1>3 DEF LayerAccounts
<1>6. ASSUME NEW field \in CountFieldsOf PROVE b[field] = a[field] + SentInc(p, field)
  <2>1. field \in {"txBytes", "txPdus", "rxBytes", "rxPdus"}
    BY DEF CountFieldsOf, AccountFieldsOf
  <2> QED
    BY <1>5, <2>1 DEF SentInc, n
<1> QED
  BY <1>4, <1>5, <1>6 DEF b

LEMMA GotAccount ==
  ASSUME NEW a \in LayerAccounts, NEW p \in FlightPdus, Layers!Delay(p) \in Nat
  PROVE  LET b == Layers!Got(a, p) IN
         /\ b \in LayerAccounts /\ b.maxDelay = Layers!Larger(a.maxDelay, Layers!Delay(p))
         /\ \A field \in CountFieldsOf : b[field] = a[field] + GotInc(p, field)
<1> DEFINE b == Layers!Got(a, p)
           n == p.size
           m == Layers!Larger(a.maxDelay, Layers!Delay(p))
<1>1. n \in Nat
  BY PduFields
<1>2. b = [a EXCEPT !.rxBytes = @ + n, !.rxPdus = @ + 1, !.maxDelay = m]
  BY DEF Layers!Got
<1>m. m \in Nat
  BY DEF Layers!Larger, LayerAccounts
<1> HIDE DEF b, n, m
<1>3. /\ a.rxBytes + n \in Nat /\ a.rxPdus + 1 \in Nat
      /\ a.txBytes + 0 = a.txBytes /\ a.txPdus + 0 = a.txPdus
  BY <1>1 DEF LayerAccounts
<1>4. b \in LayerAccounts
  BY <1>2, <1>3, <1>m DEF LayerAccounts
<1>5. /\ b.txBytes = a.txBytes + 0 /\ b.txPdus = a.txPdus + 0
      /\ b.rxBytes = a.rxBytes + n /\ b.rxPdus = a.rxPdus + 1 /\ b.maxDelay = m
  BY <1>2, <1>3 DEF LayerAccounts
<1>6. ASSUME NEW field \in CountFieldsOf PROVE b[field] = a[field] + GotInc(p, field)
  <2>1. field \in {"txBytes", "txPdus", "rxBytes", "rxPdus"}
    BY DEF CountFieldsOf, AccountFieldsOf
  <2> QED
    BY <1>5, <2>1 DEF GotInc, n
<1> QED
  BY <1>4, <1>5, <1>6 DEF b, m

LaterAt(t2, t, S, key, delay) ==
  \A k \in S : /\ t[k].maxDelay \in Nat
               /\ t2[k].maxDelay = (IF k = key THEN Layers!Larger(t[k].maxDelay, delay)
                                    ELSE t[k].maxDelay)

LEMMA NothingCounted ==
  ASSUME NEW K, NEW t \in [K -> LayerAccounts], NEW key
  PROVE  /\ LaterAt(t, t, K, key, 0)
         /\ \A field \in CountFieldsOf : RaisedAt(t, t, K, key, field, 0)
<1>1. ASSUME NEW k \in K
      PROVE  \A field \in AccountFieldsOf : t[k][field] \in Nat /\ t[k][field] + 0 = t[k][field]
  <2>1. t[k] \in LayerAccounts
    OBVIOUS
  <2>2. \A field \in AccountFieldsOf : t[k][field] \in Nat
    BY <2>1, AccountValues
  <2> QED
    BY <2>2
<1>2. LaterAt(t, t, K, key, 0)
  <2> SUFFICES ASSUME NEW k \in K
        PROVE  /\ t[k].maxDelay \in Nat
               /\ t[k].maxDelay = (IF k = key THEN Layers!Larger(t[k].maxDelay, 0)
                                   ELSE t[k].maxDelay)
    BY DEF LaterAt
  <2>1. t[k]["maxDelay"] \in Nat
    BY <1>1 DEF AccountFieldsOf
  <2> QED
    BY <2>1 DEF Layers!Larger
<1>3. ASSUME NEW field \in CountFieldsOf PROVE RaisedAt(t, t, K, key, field, 0)
  <2>1. field \in AccountFieldsOf
    BY DEF CountFieldsOf
  <2>2. \A k \in K : t[k][field] \in Nat /\ t[k][field] = t[k][field] + 0
    BY <1>1, <2>1
  <2> QED
    BY <2>2 DEF RaisedAt
<1> QED
  BY <1>2, <1>3

IsSent(t2, t, key, p) == t2 = [t EXCEPT ![key] = Layers!Sent(@, p)]

LEMMA SentBooked ==
  ASSUME NEW K, NEW t \in [K -> LayerAccounts], NEW key \in K, NEW p \in FlightPdus, NEW t2,
         IsSent(t2, t, key, p)
  PROVE  /\ t2 \in [K -> LayerAccounts] /\ LaterAt(t2, t, K, key, 0)
         /\ \A field \in CountFieldsOf : RaisedAt(t2, t, K, key, field, SentInc(p, field))
         /\ RaisedAt(t2, t, K, key, "txPdus", 1) /\ RaisedAt(t2, t, K, key, "rxPdus", 0)
         /\ RaisedAt(t2, t, K, key, "rxBytes", 0)
<1> DEFINE b == Layers!Sent(t[key], p)
<1>0. t[key] \in LayerAccounts
  OBVIOUS
<1>1. /\ b \in LayerAccounts /\ b.maxDelay = t[key].maxDelay
      /\ \A field \in CountFieldsOf : b[field] = t[key][field] + SentInc(p, field)
  BY <1>0, SentAccount
<1>2. t2 = [t EXCEPT ![key] = b]
  BY DEF IsSent
<1> HIDE DEF b
<1>3. /\ t2 \in [K -> LayerAccounts] /\ t2[key] = b
      /\ \A k \in K : k # key => t2[k] = t[k]
  BY <1>1, <1>2
<1>4. \A k \in K : t2[k].maxDelay = t[k].maxDelay
  BY <1>1, <1>3
<1>5. ASSUME NEW field \in CountFieldsOf
      PROVE  RaisedAt(t2, t, K, key, field, SentInc(p, field))
  <2> SUFFICES ASSUME NEW k \in K
               PROVE  /\ t[k][field] \in Nat
                      /\ t2[k][field] = t[k][field] + (IF k = key THEN SentInc(p, field) ELSE 0)
    BY DEF RaisedAt
  <2>1. t[k] \in LayerAccounts /\ field \in AccountFieldsOf
    BY DEF CountFieldsOf
  <2>2. t[k][field] \in Nat
    BY <2>1, AccountValues
  <2> QED
    BY <1>1, <1>3, <2>2
<1>6. LaterAt(t2, t, K, key, 0)
  <2>1. LaterAt(t, t, K, key, 0)
    BY NothingCounted
  <2> QED
    BY <1>4, <2>1 DEF LaterAt
<1>7. /\ {"txPdus", "rxPdus", "rxBytes"} \subseteq CountFieldsOf
      /\ SentInc(p, "txPdus") = 1 /\ SentInc(p, "rxPdus") = 0 /\ SentInc(p, "rxBytes") = 0
  BY DEF CountFieldsOf, AccountFieldsOf, SentInc
<1>8. /\ RaisedAt(t2, t, K, key, "txPdus", SentInc(p, "txPdus"))
      /\ RaisedAt(t2, t, K, key, "rxPdus", SentInc(p, "rxPdus"))
      /\ RaisedAt(t2, t, K, key, "rxBytes", SentInc(p, "rxBytes"))
  BY <1>5, <1>7
<1>9. /\ RaisedAt(t2, t, K, key, "txPdus", 1) /\ RaisedAt(t2, t, K, key, "rxPdus", 0)
      /\ RaisedAt(t2, t, K, key, "rxBytes", 0)
  BY <1>7, <1>8
<1> QED
  BY <1>3, <1>5, <1>6, <1>9

IsGot(t2, t, key, p) == t2 = [t EXCEPT ![key] = Layers!Got(@, p)]

LEMMA GotBooked ==
  ASSUME NEW K, NEW t \in [K -> LayerAccounts], NEW key \in K, NEW p \in FlightPdus, NEW t2,
         IsGot(t2, t, key, p),
         Layers!Delay(p) \in Nat
  PROVE  /\ t2 \in [K -> LayerAccounts] /\ LaterAt(t2, t, K, key, Layers!Delay(p))
         /\ \A field \in CountFieldsOf : RaisedAt(t2, t, K, key, field, GotInc(p, field))
         /\ RaisedAt(t2, t, K, key, "txPdus", 0) /\ RaisedAt(t2, t, K, key, "rxPdus", 1)
         /\ RaisedAt(t2, t, K, key, "rxBytes", p.size)
<1> DEFINE b == Layers!Got(t[key], p)
<1>0. t[key] \in LayerAccounts
  OBVIOUS
<1>1. /\ b \in LayerAccounts /\ b.maxDelay = Layers!Larger(t[key].maxDelay, Layers!Delay(p))
      /\ \A field \in CountFieldsOf : b[field] = t[key][field] + GotInc(p, field)
  BY <1>0, GotAccount
<1>2. t2 = [t EXCEPT ![key] = b]
  BY DEF IsGot
<1> HIDE DEF b
<1>3. /\ t2 \in [K -> LayerAccounts] /\ t2[key] = b
      /\ \A k \in K : k # key => t2[k] = t[k]
  BY <1>1, <1>2
<1>4. /\ t2[key].maxDelay = Layers!Larger(t[key].maxDelay, Layers!Delay(p))
      /\ \A k \in K : k # key => t2[k].maxDelay = t[k].maxDelay
  BY <1>1, <1>3
<1>5. ASSUME NEW field \in CountFieldsOf
      PROVE  RaisedAt(t2, t, K, key, field, GotInc(p, field))
  <2> SUFFICES ASSUME NEW k \in K
               PROVE  /\ t[k][field] \in Nat
                      /\ t2[k][field] = t[k][field] + (IF k = key THEN GotInc(p, field) ELSE 0)
    BY DEF RaisedAt
  <2>1. t[k] \in LayerAccounts /\ field \in AccountFieldsOf
    BY DEF CountFieldsOf
  <2>2. t[k][field] \in Nat
    BY <2>1, AccountValues
  <2> QED
    BY <1>1, <1>3, <2>2
<1>6. LaterAt(t2, t, K, key, Layers!Delay(p))
  <2>1. LaterAt(t, t, K, key, 0)
    BY NothingCounted
  <2> QED
    BY <1>4, <2>1 DEF LaterAt
<1>7. /\ {"txPdus", "rxPdus", "rxBytes"} \subseteq CountFieldsOf
      /\ GotInc(p, "txPdus") = 0 /\ GotInc(p, "rxPdus") = 1 /\ GotInc(p, "rxBytes") = p.size
  BY DEF CountFieldsOf, AccountFieldsOf, GotInc
<1>8. /\ RaisedAt(t2, t, K, key, "txPdus", GotInc(p, "txPdus"))
      /\ RaisedAt(t2, t, K, key, "rxPdus", GotInc(p, "rxPdus"))
      /\ RaisedAt(t2, t, K, key, "rxBytes", GotInc(p, "rxBytes"))
  BY <1>5, <1>7
<1>9. /\ RaisedAt(t2, t, K, key, "txPdus", 0) /\ RaisedAt(t2, t, K, key, "rxPdus", 1)
      /\ RaisedAt(t2, t, K, key, "rxBytes", p.size)
  BY <1>7, <1>8
<1> QED
  BY <1>3, <1>5, <1>6, <1>9

-----------------------------------------------------------------------------
(* The invariant.                                                          *)

KeyOf(u, d) == <<Layers!Identity(u), d>>
KeysApart ==
  imsi = <<>> \/ (imsi \in [Ue -> Ue] /\ \A u, v \in Ue : imsi[u] = imsi[v] => u = v)

LEMMA KeysMade ==
  ASSUME KeysApart, NEW u \in Ue, NEW d
  PROVE  Layers!MakeKey(u, d) = KeyOf(u, d)
<1>1. CASE imsi = <<>>
  <2>1. DOMAIN imsi = {}
    BY <1>1
  <2> QED
    BY <1>1, <2>1 DEF KeyOf, Layers!MakeKey, Layers!Identity
<1>2. CASE imsi # <<>>
  BY <1>2 DEF KeysApart, KeyOf, Layers!MakeKey, Layers!Identity
<1> QED
  BY <1>1, <1>2

LEMMA KeysDiffer ==
  ASSUME KeysApart, NEW u \in Ue, NEW d \in Layers!Drb, NEW v \in Ue, NEW e \in Layers!Drb
  PROVE  /\ KeyOf(v, e) \in Ue \X Layers!Drb
         /\ KeyOf(v, e) = KeyOf(u, d) <=> v = u /\ e = d
<1>1. CASE imsi = <<>>
  BY <1>1 DEF KeyOf, Layers!Identity
<1>2. CASE imsi # <<>>
  <2>1. imsi \in [Ue -> Ue] /\ \A x, w \in Ue : imsi[x] = imsi[w] => x = w
    BY <1>2 DEF KeysApart
  <2>2. KeyOf(v, e) = <<imsi[v], e>> /\ KeyOf(u, d) = <<imsi[u], d>>
    BY <1>2 DEF KeyOf, Layers!Identity
  <2> QED
    BY <2>1, <2>2
<1> QED
  BY <1>1, <1>2

CountsAgree(q, dr, p, field) ==
  \A u \in Ue, d \in Layers!Drb :
    /\ ValueSum(q, field, Cells(u, d)) = dr[<<u, d>>][field]
    /\ dr[<<u, d>>][field] = p[KeyOf(u, d)][field]
ReceivedAgree(dr, p, r) ==
  \A u \in Ue, d \in Layers!Drb :
    /\ \A field \in {"rxBytes", "rxPdus", "maxDelay"} :
         p[KeyOf(u, d)][field] = r[KeyOf(u, d)][field]
    /\ p[KeyOf(u, d)].maxDelay = dr[<<u, d>>].maxDelay
RepeatsAreWaste(r, w, fl) ==
  \A u \in Ue, d \in Layers!Drb :
    r[KeyOf(u, d)].txPdus = r[KeyOf(u, d)].rxPdus + w[KeyOf(u, d)] + OnWay(fl, u, d)
DelaysCounted(e, q, dr) ==
  /\ SumOn(Lengths(e, Ue), Ue) = GrandTotal(q, "rxPdus", Qfi)
  /\ SumOn(Lengths(e, Ue), Ue) = GrandTotal(dr, "rxPdus", Layers!Drb)
DelaysShown(e, q) ==
  \A u \in Ue :
    /\ \A v : IsIn(v, e[u]) => \E f \in Qfi : v <= q[<<u, f>>].maxDelay
    /\ \A f \in Qfi : q[<<u, f>>].maxDelay = 0 \/ IsIn(q[<<u, f>>].maxDelay, e[u])

LEMMA CountsStay ==
  ASSUME KeysApart, NEW q, NEW dr, NEW p, NEW q2, NEW dr2, NEW p2, NEW field, NEW inc \in Nat,
         NEW u \in Ue, NEW f \in Qfi, NEW d, d = Layers!GetDrbForQfi(f),
         RaisedAt(q2, q, Ue \X Qfi, <<u, f>>, field, inc),
         RaisedAt(dr2, dr, Ue \X Layers!Drb, <<u, d>>, field, inc),
         RaisedAt(p2, p, Ue \X Layers!Drb, KeyOf(u, d), field, inc),
         CountsAgree(q, dr, p, field)
  PROVE  CountsAgree(q2, dr2, p2, field)
<1>0. d \in Layers!Drb
  BY DrbFinite
<1> SUFFICES ASSUME NEW v \in Ue, NEW e \in Layers!Drb
             PROVE  /\ ValueSum(q2, field, Cells(v, e)) = dr2[<<v, e>>][field]
                    /\ dr2[<<v, e>>][field] = p2[KeyOf(v, e)][field]
  BY DEF CountsAgree
<1> DEFINE add == IF v = u /\ e = d THEN inc ELSE 0
<1>1. /\ ValueSum(q, field, Cells(v, e)) = dr[<<v, e>>][field]
      /\ dr[<<v, e>>][field] = p[KeyOf(v, e)][field]
  BY DEF CountsAgree
<1>2. ValueSum(q2, field, Cells(v, e)) = ValueSum(q, field, Cells(v, e)) + add
  <2> DEFINE S == Cells(v, e)
  <2>1. IsFiniteSet(S) /\ S \subseteq Ue \X Qfi
    BY DrbFinite
  <2>2. <<u, f>> \in S <=> v = u /\ e = d
    BY DEF Cells
  <2> HIDE DEF S
  <2>3. RaisedAt(q2, q, S, <<u, f>>, field, inc)
    BY <2>1 DEF RaisedAt
  <2>4. ValueSum(q2, field, S) = ValueSum(q, field, S) + (IF <<u, f>> \in S THEN inc ELSE 0)
    BY <2>1, <2>3, ValueSumRaised
  <2> QED
    BY <2>2, <2>4 DEF S
<1>3. dr2[<<v, e>>][field] = dr[<<v, e>>][field] + add
  <2>1. <<v, e>> \in Ue \X Layers!Drb /\ (<<v, e>> = <<u, d>> <=> v = u /\ e = d)
    OBVIOUS
  <2> QED
    BY <2>1 DEF RaisedAt
<1>4. p2[KeyOf(v, e)][field] = p[KeyOf(v, e)][field] + add
  <2>1. KeyOf(v, e) \in Ue \X Layers!Drb /\ (KeyOf(v, e) = KeyOf(u, d) <=> v = u /\ e = d)
    BY <1>0, KeysDiffer
  <2> QED
    BY <2>1 DEF RaisedAt
<1> QED
  BY <1>1, <1>2, <1>3, <1>4

WastedMore(w2, w, key, lost) ==
  \A k \in Ue \X Layers!Drb : w[k] \in Nat /\ w2[k] = w[k] + (IF k = key THEN lost ELSE 0)
OnWayMoved(fl2, fl, u, d, in, out) ==
  \A v \in Ue, e \in Layers!Drb :
    /\ OnWay(fl, v, e) \in Nat /\ OnWay(fl2, v, e) \in Nat
    /\ OnWay(fl2, v, e) + (IF v = u /\ e = d THEN out ELSE 0) =
         OnWay(fl, v, e) + (IF v = u /\ e = d THEN in ELSE 0)

LEMMA RepeatsStay ==
  ASSUME KeysApart, NEW u \in Ue, NEW d \in Layers!Drb, NEW r, NEW r2, NEW w, NEW w2,
         NEW fl, NEW fl2, NEW tx \in Nat, NEW rx \in Nat, NEW lost \in Nat,
         NEW in \in Nat, NEW out \in Nat, tx + out = rx + lost + in,
         RaisedAt(r2, r, Ue \X Layers!Drb, KeyOf(u, d), "txPdus", tx),
         RaisedAt(r2, r, Ue \X Layers!Drb, KeyOf(u, d), "rxPdus", rx),
         WastedMore(w2, w, KeyOf(u, d), lost), OnWayMoved(fl2, fl, u, d, in, out),
         RepeatsAreWaste(r, w, fl)
  PROVE  RepeatsAreWaste(r2, w2, fl2)
<1> SUFFICES ASSUME NEW v \in Ue, NEW e \in Layers!Drb
             PROVE  r2[KeyOf(v, e)].txPdus =
                      r2[KeyOf(v, e)].rxPdus + w2[KeyOf(v, e)] + OnWay(fl2, v, e)
  BY DEF RepeatsAreWaste
<1> DEFINE k == KeyOf(v, e)
           here == v = u /\ e = d
<1>1. k \in Ue \X Layers!Drb /\ (k = KeyOf(u, d) <=> here)
  BY KeysDiffer
<1>2. r[k].txPdus = r[k].rxPdus + w[k] + OnWay(fl, v, e)
  BY DEF RepeatsAreWaste
<1>3. /\ OnWay(fl, v, e) \in Nat /\ OnWay(fl2, v, e) \in Nat
      /\ OnWay(fl2, v, e) + (IF here THEN out ELSE 0) =
           OnWay(fl, v, e) + (IF here THEN in ELSE 0)
  BY DEF OnWayMoved
<1> HIDE DEF k, here
<1>4. w[k] \in Nat /\ w2[k] = w[k] + (IF here THEN lost ELSE 0)
  BY <1>1 DEF WastedMore
<1>5. r[k]["txPdus"] \in Nat /\ r2[k]["txPdus"] = r[k]["txPdus"] + (IF here THEN tx ELSE 0)
  BY <1>1 DEF RaisedAt
<1>6. r[k]["rxPdus"] \in Nat /\ r2[k]["rxPdus"] = r[k]["rxPdus"] + (IF here THEN rx ELSE 0)
  BY <1>1 DEF RaisedAt
<1>7. r2[k].txPdus = r2[k].rxPdus + w2[k] + OnWay(fl2, v, e)
  BY <1>2, <1>3, <1>4, <1>5, <1>6
<1> QED
  BY <1>7 DEF k

(* What received PDUs count, where PDCP and RLC count the same.            *)
LEMMA ReceivedStay ==
  ASSUME KeysApart, NEW u \in Ue, NEW d \in Layers!Drb, NEW dr, NEW p, NEW r,
         NEW dr2, NEW p2, NEW r2, NEW bytes, NEW pdus, NEW delay,
         RaisedAt(p2, p, Ue \X Layers!Drb, KeyOf(u, d), "rxBytes", bytes),
         RaisedAt(r2, r, Ue \X Layers!Drb, KeyOf(u, d), "rxBytes", bytes),
         RaisedAt(p2, p, Ue \X Layers!Drb, KeyOf(u, d), "rxPdus", pdus),
         RaisedAt(r2, r, Ue \X Layers!Drb, KeyOf(u, d), "rxPdus", pdus),
         LaterAt(dr2, dr, Ue \X Layers!Drb, <<u, d>>, delay),
         LaterAt(p2, p, Ue \X Layers!Drb, KeyOf(u, d), delay),
         LaterAt(r2, r, Ue \X Layers!Drb, KeyOf(u, d), delay),
         ReceivedAgree(dr, p, r)
  PROVE  ReceivedAgree(dr2, p2, r2)
<1> SUFFICES ASSUME NEW v \in Ue, NEW e \in Layers!Drb
             PROVE  /\ \A field \in {"rxBytes", "rxPdus", "maxDelay"} :
                         p2[KeyOf(v, e)][field] = r2[KeyOf(v, e)][field]
                    /\ p2[KeyOf(v, e)].maxDelay = dr2[<<v, e>>].maxDelay
  BY DEF ReceivedAgree
<1> DEFINE k == KeyOf(v, e)
           K == Ue \X Layers!Drb
<1>1. k \in K /\ <<v, e>> \in K /\ (k = KeyOf(u, d) <=> <<v, e>> = <<u, d>>)
  BY KeysDiffer
<1>2. /\ p[k]["rxBytes"] = r[k]["rxBytes"] /\ p[k]["rxPdus"] = r[k]["rxPdus"]
      /\ p[k]["maxDelay"] = r[k]["maxDelay"] /\ p[k].maxDelay = dr[<<v, e>>].maxDelay
  BY DEF ReceivedAgree
<1> HIDE DEF k, K
<1>3. p2[k]["rxBytes"] = r2[k]["rxBytes"]
  BY <1>1, <1>2 DEF RaisedAt, K
<1>4. p2[k]["rxPdus"] = r2[k]["rxPdus"]
  BY <1>1, <1>2 DEF RaisedAt, K
<1>5. p2[k].maxDelay = r2[k].maxDelay /\ p2[k].maxDelay = dr2[<<v, e>>].maxDelay
  BY <1>1, <1>2 DEF LaterAt, K
<1> QED
  BY <1>3, <1>4, <1>5 DEF k

LEMMA ShownStay ==
  ASSUME NEW e, NEW q, NEW q2, NEW key, LaterAt(q2, q, Ue \X Qfi, key, 0), DelaysShown(e, q)
  PROVE  DelaysShown(e, q2)
<1>1. ASSUME NEW u \in Ue, NEW f \in Qfi PROVE q2[<<u, f>>].maxDelay = q[<<u, f>>].maxDelay
  <2>1. <<u, f>> \in Ue \X Qfi
    OBVIOUS
  <2> QED
    BY <2>1 DEF LaterAt, Layers!Larger
<1> SUFFICES ASSUME NEW u \in Ue
             PROVE  /\ \A v : IsIn(v, e[u]) => \E f \in Qfi : v <= q2[<<u, f>>].maxDelay
                    /\ \A f \in Qfi : q2[<<u, f>>].maxDelay = 0 \/ IsIn(q2[<<u, f>>].maxDelay, e[u])
  BY DEF DelaysShown
<1>2. /\ \A v : IsIn(v, e[u]) => \E f \in Qfi : v <= q[<<u, f>>].maxDelay
      /\ \A f \in Qfi : q[<<u, f>>].maxDelay = 0 \/ IsIn(q[<<u, f>>].maxDelay, e[u])
  BY DEF DelaysShown
<1>3. ASSUME NEW v, IsIn(v, e[u]) PROVE \E f \in Qfi : v <= q2[<<u, f>>].maxDelay
  <2>1. PICK f \in Qfi : v <= q[<<u, f>>].maxDelay
    BY <1>2, <1>3
  <2> QED
    BY <1>1, <2>1
<1>4. ASSUME NEW f \in Qfi
      PROVE  q2[<<u, f>>].maxDelay = 0 \/ IsIn(q2[<<u, f>>].maxDelay, e[u])
  BY <1>1, <1>2
<1> QED
  BY <1>3, <1>4

LEMMA Sampled ==
  ASSUME NEW s \in Seq(Nat), NEW x \in Nat
  PROVE  /\ Append(s, x) \in Seq(Nat) /\ Len(Append(s, x)) = Len(s) + 1
         /\ \A v : IsIn(v, Append(s, x)) <=> IsIn(v, s) \/ v = x
<1> DEFINE k == Append(s, x)
<1>1. /\ k \in Seq(Nat) /\ Len(k) = Len(s) + 1 /\ k[Len(s) + 1] = x /\ Len(s) \in Nat
      /\ \A i \in 1..Len(s) : k[i] = s[i]
  OBVIOUS
<1> HIDE DEF k
<1>2. ASSUME NEW v, IsIn(v, k) PROVE IsIn(v, s) \/ v = x
  <2>1. PICK i \in 1..Len(k) : k[i] = v
    BY <1>2 DEF IsIn
  <2>2. i \in 1..Len(s) \/ i = Len(s) + 1
    BY <1>1
  <2> QED
    BY <1>1, <2>1, <2>2 DEF IsIn
<1>3. ASSUME NEW v, IsIn(v, s) PROVE IsIn(v, k)
  <2>1. PICK i \in 1..Len(s) : s[i] = v
    BY <1>3 DEF IsIn
  <2>2. i \in 1..Len(k)
    BY <1>1
  <2> QED
    BY <1>1, <2>1, <2>2 DEF IsIn
<1>4. IsIn(x, k)
  <2>1. Len(s) + 1 \in 1..Len(k)
    BY <1>1
  <2> QED
    BY <1>1, <2>1 DEF IsIn
<1>5. \A v : IsIn(v, k) <=> IsIn(v, s) \/ v = x
  BY <1>2, <1>3, <1>4
<1> QED
  BY <1>1, <1>5 DEF k

IsRecorded(e2, e, u, x) == e2 = [e EXCEPT ![u] = Append(@, x)]

LEMMA ShownRaised ==
  ASSUME NEW e \in [Ue -> Seq(Nat)], NEW u \in Ue, NEW f \in Qfi, NEW x \in Nat,
         NEW e2, IsRecorded(e2, e, u, x),
         NEW q, NEW q2, LaterAt(q2, q, Ue \X Qfi, <<u, f>>, x), DelaysShown(e, q)
  PROVE  /\ e2 \in [Ue -> Seq(Nat)] /\ DelaysShown(e2, q2)
         /\ SumOn(Lengths(e, Ue), Ue) \in Nat
         /\ SumOn(Lengths(e2, Ue), Ue) = SumOn(Lengths(e, Ue), Ue) + 1
<1>1. /\ e[u] \in Seq(Nat) /\ Append(e[u], x) \in Seq(Nat)
      /\ Len(Append(e[u], x)) = Len(e[u]) + 1
      /\ \A v : IsIn(v, Append(e[u], x)) <=> IsIn(v, e[u]) \/ v = x
  BY Sampled
<1> DEFINE a == Append(e[u], x)
<1> HIDE DEF a
<1>2. /\ e2 \in [Ue -> Seq(Nat)] /\ e2[u] = a
      /\ \A w \in Ue : w # u => e2[w] = e[w]
  BY <1>1 DEF a, IsRecorded
<1>3. ASSUME NEW w \in Ue, NEW g \in Qfi
      PROVE  /\ q[<<w, g>>].maxDelay \in Nat
             /\ q2[<<w, g>>].maxDelay = (IF w = u /\ g = f
                  THEN Layers!Larger(q[<<w, g>>].maxDelay, x) ELSE q[<<w, g>>].maxDelay)
  <2>1. <<w, g>> \in Ue \X Qfi /\ (<<w, g>> = <<u, f>> <=> w = u /\ g = f)
    OBVIOUS
  <2> QED
    BY <2>1 DEF LaterAt
<1>4. ASSUME NEW w \in Ue
      PROVE  /\ \A v : IsIn(v, e[w]) => \E g \in Qfi : v <= q[<<w, g>>].maxDelay
             /\ \A g \in Qfi : q[<<w, g>>].maxDelay = 0 \/ IsIn(q[<<w, g>>].maxDelay, e[w])
             /\ \A v : IsIn(v, e[w]) => v \in Nat
  <2>1. e[w] \in Seq(Nat)
    OBVIOUS
  <2>2. \A v : IsIn(v, e[w]) => v \in Nat
    BY <2>1, SampleSet DEF IsIn
  <2> QED
    BY <2>2 DEF DelaysShown
<1>5. ASSUME NEW w \in Ue, NEW v, IsIn(v, e2[w])
      PROVE  \E g \in Qfi : v <= q2[<<w, g>>].maxDelay
  <2>1. CASE IsIn(v, e[w])
    <3>1. PICK g \in Qfi : v <= q[<<w, g>>].maxDelay
      BY <1>4, <2>1
    <3>2. v \in Nat
      BY <1>4, <2>1
    <3>3. v <= q2[<<w, g>>].maxDelay
      BY <1>3, <3>1, <3>2 DEF Layers!Larger
    <3> QED
      BY <3>3
  <2>2. CASE ~IsIn(v, e[w])
    <3>1. w = u /\ v = x
      BY <1>1, <1>2, <1>5, <2>2 DEF a
    <3>2. x <= q2[<<u, f>>].maxDelay
      <4>1. /\ q[<<u, f>>].maxDelay \in Nat
            /\ q2[<<u, f>>].maxDelay = Layers!Larger(q[<<u, f>>].maxDelay, x)
        BY <1>3
      <4> QED
        BY <4>1 DEF Layers!Larger
    <3> QED
      BY <3>1, <3>2
  <2> QED
    BY <2>1, <2>2
<1>6. ASSUME NEW w \in Ue, NEW g \in Qfi
      PROVE  q2[<<w, g>>].maxDelay = 0 \/ IsIn(q2[<<w, g>>].maxDelay, e2[w])
  <2>1. \A v : IsIn(v, e[w]) => IsIn(v, e2[w])
    BY <1>1, <1>2 DEF a
  <2>2. CASE q2[<<w, g>>].maxDelay = q[<<w, g>>].maxDelay
    BY <1>4, <2>1, <2>2
  <2>3. CASE q2[<<w, g>>].maxDelay # q[<<w, g>>].maxDelay
    <3>1. w = u /\ q2[<<w, g>>].maxDelay = x
      BY <1>3, <2>3 DEF Layers!Larger
    <3> QED
      BY <1>1, <1>2, <3>1 DEF a
  <2> QED
    BY <2>2, <2>3
<1>7. DelaysShown(e2, q2)
  BY <1>5, <1>6 DEF DelaysShown
<1>8. /\ SumOn(Lengths(e, Ue), Ue) \in Nat
      /\ SumOn(Lengths(e2, Ue), Ue) = SumOn(Lengths(e, Ue), Ue) + 1
  <2> DEFINE l == Lengths(e, Ue)
             l2 == Lengths(e2, Ue)
  <2>1. ASSUME NEW w \in Ue PROVE l[w] \in Nat /\ l2[w] = l[w] + (IF w = u THEN 1 ELSE 0)
    <3>1. l[w] = Len(e[w]) /\ l2[w] = Len(e2[w]) /\ Len(e[w]) \in Nat
      BY DEF Lengths
    <3> HIDE DEF l, l2
    <3> QED
      BY <1>1, <1>2, <3>1 DEF a
  <2> HIDE DEF l, l2
  <2>2. IsFiniteSet(Ue)
    BY LayersConstants
  <2>3. SumOn(l, Ue) \in Nat /\ SumOn(l2, Ue) = SumOn(l, Ue) + (IF u \in Ue THEN 1 ELSE 0)
    BY <2>1, <2>2, SumRaised
  <2> QED
    BY <2>3 DEF l, l2
<1> QED
  BY <1>2, <1>7, <1>8

LayerTypes ==
  /\ now \in Nat \ {0} /\ left \in Nat /\ KeysApart
  /\ flight \in Seq(FlightPdus) /\ \A i \in 1..Len(flight) : flight[i].time <= now
  /\ qfiStats \in FlowTables /\ drbStats \in BearerTables
  /\ pdcpStats \in BearerTables /\ rlcStats \in BearerTables
  /\ phySamples \in [Ue -> Seq(1..2)] /\ macSamples \in [Ue -> Seq(Nat)]
  /\ e2eSamples \in [Ue -> Seq(Nat)] /\ wasted \in [Ue \X Layers!Drb -> Nat]

FlowsCount(q, dr, p, r, w, fl, e) ==
  /\ \A field \in CountFieldsOf : CountsAgree(q, dr, p, field)
  /\ ReceivedAgree(dr, p, r)
  /\ RepeatsAreWaste(r, w, fl)
  /\ DelaysCounted(e, q, dr)
  /\ DelaysShown(e, q)
FlowsCounted ==
  FlowsCount(qfiStats, drbStats, pdcpStats, rlcStats, wasted, flight, e2eSamples)

StateTimes == [entries : [Layers!RrcState -> Nat], time : [Layers!RrcState -> Nat],
               last : Nat, paging : Nat]
TimesFit(t, state, seen, n) ==
  /\ seen = 0 <=> t.last = 0
  /\ t.last <= n
  /\ SumOn(t.time, Layers!RrcState) + seen = t.last
  /\ t.entries["RRC_INACTIVE"] = t.paging + (IF state = "RRC_INACTIVE" THEN 1 ELSE 0)
  /\ t.time["RRC_INACTIVE"] > 0 => t.paging > 0
Transitions(rs) ==
  SumOn([k \in Ue \X Layers!RrcState |-> rs[k[1]].entries[k[2]]], Ue \X Layers!RrcState)
TimesHold ==
  /\ rrcState \in [Ue -> Layers!RrcState] /\ rrcStats \in [Ue -> StateTimes]
  /\ firstSeen \in [Ue -> Nat]
  /\ \A u \in Ue : TimesFit(rrcStats[u], rrcState[u], firstSeen[u], now)
  /\ Transitions(rrcStats) + left <= MaxEvents

LayersHold == LayerTypes /\ FlowsCounted /\ TimesHold
LayersInv == service = "layers" => LayersHold

(* The keys of a bearer stay while the IMSIs do.                           *)
LEMMA FlowsCountedNext ==
  ASSUME imsi' = imsi,
         FlowsCount(qfiStats', drbStats', pdcpStats', rlcStats', wasted', flight', e2eSamples')
  PROVE  FlowsCounted'
BY DEF FlowsCounted, FlowsCount, CountsAgree, ReceivedAgree, RepeatsAreWaste, KeyOf,
       Layers!Identity

LEMMA KeysStay ==
  ASSUME KeysApart, imsi' = imsi
  PROVE  KeysApart'
BY DEF KeysApart

LEMMA StatesFinite ==
  /\ IsFiniteSet(Layers!RrcState) /\ IsFiniteSet(Ue \X Layers!RrcState)
  /\ "IDLE_RANDOM_ACCESS" \in Layers!RrcState /\ "CONNECTED_NORMALLY" \in Layers!RrcState
  /\ "RRC_INACTIVE" \in Layers!RrcState
<1>1. IsFiniteSet(Layers!RrcState)
  <2>1. IsFiniteSet({"IDLE_RANDOM_ACCESS"}) /\ IsFiniteSet({"CONNECTED_NORMALLY"})
        /\ IsFiniteSet({"RRC_INACTIVE"})
    BY FS_Singleton
  <2>2. IsFiniteSet({"IDLE_RANDOM_ACCESS"} \cup {"CONNECTED_NORMALLY"})
    BY <2>1, FS_Union
  <2>3. IsFiniteSet(({"IDLE_RANDOM_ACCESS"} \cup {"CONNECTED_NORMALLY"}) \cup {"RRC_INACTIVE"})
    BY <2>1, <2>2, FS_Union
  <2>4. Layers!RrcState =
          ({"IDLE_RANDOM_ACCESS"} \cup {"CONNECTED_NORMALLY"}) \cup {"RRC_INACTIVE"}
    BY DEF Layers!RrcState
  <2> QED
    BY <2>3, <2>4
<1> QED
  BY <1>1, LayersConstants, FS_Product DEF Layers!RrcState

LEMMA TransitionsType ==
  ASSUME NEW rs \in [Ue -> StateTimes]
  PROVE  Transitions(rs) \in Nat
<1> DEFINE S == Ue \X Layers!RrcState
           f == [k \in S |-> rs[k[1]].entries[k[2]]]
<1>1. \A k \in S : f[k] \in Nat
  BY DEF StateTimes
<1>2. IsFiniteSet(S)
  BY StatesFinite
<1> HIDE DEF f, S
<1>3. SumOn(f, S) \in Nat
  BY <1>1, <1>2, SumType
<1> QED
  BY <1>3 DEF Transitions, f, S

(* What is no transition costs an event at most.                           *)
LEMMA FewerEvents ==
  ASSUME TimesHold, left \in Nat, left' = left \/ (left > 0 /\ left' = left - 1),
         now' = now, rrcState' = rrcState, rrcStats' = rrcStats, firstSeen' = firstSeen
  PROVE  TimesHold'
<1>1. Transitions(rrcStats) + left' <= MaxEvents
  <2> DEFINE n == Transitions(rrcStats)
  <2>1. n + left <= MaxEvents /\ n \in Nat
    BY TransitionsType DEF TimesHold
  <2> HIDE DEF n
  <2>2. n + left' <= MaxEvents
    BY <2>1, LayersConstants
  <2> QED
    BY <2>2 DEF n
<1> QED
  BY <1>1 DEF TimesHold, TimesFit, Transitions

LEMMA LayersSendInv ==
  ASSUME LayersHold, NEW u \in Ue, NEW f \in Qfi, NEW size \in Size, Layers!Send(u, f, size)
  PROVE  LayersHold'
<1> DEFINE p == Layers!NewPdu(u, f, size)
           d == Layers!GetDrbForQfi(f)
<1>0. LayerTypes /\ FlowsCounted /\ TimesHold
  BY DEF LayersHold
<1>t. /\ now \in Nat \ {0} /\ left \in Nat /\ KeysApart
      /\ flight \in Seq(FlightPdus) /\ \A i \in 1..Len(flight) : flight[i].time <= now
      /\ qfiStats \in FlowTables /\ drbStats \in BearerTables
      /\ pdcpStats \in BearerTables /\ rlcStats \in BearerTables
      /\ wasted \in [Ue \X Layers!Drb -> Nat]
  BY <1>0 DEF LayerTypes
<1>1. /\ p \in FlightPdus /\ p.ue = u /\ p.qfi = f /\ p.time = now /\ p.sent = 1
      /\ d \in Layers!Drb
  BY <1>t, LayersConstants, DrbFinite DEF Layers!NewPdu, FlightPdus
<1>k. /\ Layers!MakeKey(u, d) = KeyOf(u, d)
      /\ KeyOf(u, d) \in Ue \X Layers!Drb /\ <<u, d>> \in Ue \X Layers!Drb
      /\ <<u, f>> \in Ue \X Qfi
  BY <1>1, <1>t, KeysMade, KeysDiffer
<1>2. /\ left > 0 /\ left' = left - 1 /\ now' = now /\ imsi' = imsi
      /\ flight' = Append(flight, p)
      /\ e2eSamples' = e2eSamples /\ wasted' = wasted
      /\ phySamples' = phySamples /\ macSamples' = macSamples
      /\ rrcState' = rrcState /\ rrcStats' = rrcStats /\ firstSeen' = firstSeen
  BY DEF Layers!Send, Layers!Event, Layers!sampleVars, Layers!rrcVars
<1>3. /\ IsSent(qfiStats', qfiStats, <<u, f>>, p)
      /\ IsSent(drbStats', drbStats, <<u, d>>, p)
      /\ IsSent(pdcpStats', pdcpStats, KeyOf(u, d), p)
      /\ IsSent(rlcStats', rlcStats, KeyOf(u, d), p)
  BY <1>1, <1>k DEF Layers!Send, Layers!OnTxSdap, Layers!PdcpTxPdu, Layers!RlcTxPdu, IsSent
<1> HIDE DEF p
<1>4. /\ qfiStats' \in FlowTables /\ LaterAt(qfiStats', qfiStats, Ue \X Qfi, <<u, f>>, 0)
      /\ \A field \in CountFieldsOf :
           RaisedAt(qfiStats', qfiStats, Ue \X Qfi, <<u, f>>, field, SentInc(p, field))
      /\ RaisedAt(qfiStats', qfiStats, Ue \X Qfi, <<u, f>>, "rxPdus", 0)
  BY <1>t, <1>1, <1>k, <1>3, SentBooked DEF FlowTables
<1>5. /\ drbStats' \in BearerTables
      /\ LaterAt(drbStats', drbStats, Ue \X Layers!Drb, <<u, d>>, 0)
      /\ \A field \in CountFieldsOf :
           RaisedAt(drbStats', drbStats, Ue \X Layers!Drb, <<u, d>>, field, SentInc(p, field))
      /\ RaisedAt(drbStats', drbStats, Ue \X Layers!Drb, <<u, d>>, "rxPdus", 0)
  BY <1>t, <1>1, <1>k, <1>3, SentBooked DEF BearerTables
<1>6. /\ pdcpStats' \in BearerTables
      /\ LaterAt(pdcpStats', pdcpStats, Ue \X Layers!Drb, KeyOf(u, d), 0)
      /\ \A field \in CountFieldsOf :
           RaisedAt(pdcpStats', pdcpStats, Ue \X Layers!Drb, KeyOf(u, d), field, SentInc(p, field))
      /\ RaisedAt(pdcpStats', pdcpStats, Ue \X Layers!Drb, KeyOf(u, d), "rxPdus", 0)
      /\ RaisedAt(pdcpStats', pdcpStats, Ue \X Layers!Drb, KeyOf(u, d), "rxBytes", 0)
  BY <1>t, <1>1, <1>k, <1>3, SentBooked DEF BearerTables
<1>7. /\ rlcStats' \in BearerTables
      /\ LaterAt(rlcStats', rlcStats, Ue \X Layers!Drb, KeyOf(u, d), 0)
      /\ RaisedAt(rlcStats', rlcStats, Ue \X Layers!Drb, KeyOf(u, d), "txPdus", 1)
      /\ RaisedAt(rlcStats', rlcStats, Ue \X Layers!Drb, KeyOf(u, d), "rxPdus", 0)
      /\ RaisedAt(rlcStats', rlcStats, Ue \X Layers!Drb, KeyOf(u, d), "rxBytes", 0)
  BY <1>t, <1>1, <1>k, <1>3, SentBooked DEF BearerTables
<1>c. /\ \A field \in CountFieldsOf : CountsAgree(qfiStats, drbStats, pdcpStats, field)
      /\ ReceivedAgree(drbStats, pdcpStats, rlcStats)
      /\ RepeatsAreWaste(rlcStats, wasted, flight)
      /\ DelaysCounted(e2eSamples, qfiStats, drbStats)
      /\ DelaysShown(e2eSamples, qfiStats)
  BY <1>0 DEF FlowsCounted, FlowsCount
<1>8. ASSUME NEW field \in CountFieldsOf
      PROVE  CountsAgree(qfiStats', drbStats', pdcpStats', field)
  <2>1. SentInc(p, field) \in Nat
    BY <1>1, IncType
  <2>2. d = Layers!GetDrbForQfi(f)
    OBVIOUS
  <2> HIDE DEF d
  <2> QED
    BY <1>t, <1>4, <1>5, <1>6, <1>c, <2>1, <2>2, CountsStay
<1> HIDE DEF d
<1>9. ReceivedAgree(drbStats', pdcpStats', rlcStats')
  BY <1>t, <1>1, <1>5, <1>6, <1>7, <1>c, ReceivedStay
<1>10. flight' \in Seq(FlightPdus) /\ \A i \in 1..Len(flight') : flight'[i].time <= now'
  <2>1. flight' \in Seq(FlightPdus)
    BY <1>t, <1>1, <1>2
  <2>2. ASSUME NEW i \in 1..Len(flight') PROVE flight'[i].time <= now'
    <3>1. /\ Len(flight) \in Nat /\ Len(flight') = Len(flight) + 1
          /\ flight'[Len(flight) + 1] = p
          /\ \A j \in 1..Len(flight) : flight'[j] = flight[j]
      BY <1>t, <1>2
    <3>2. CASE i \in 1..Len(flight)
      BY <1>t, <1>2, <3>1, <3>2
    <3>3. CASE i = Len(flight) + 1
      BY <1>t, <1>1, <1>2, <3>1, <3>3
    <3> QED
      BY <3>1, <3>2, <3>3
  <2> QED
    BY <2>1, <2>2
<1>11. RepeatsAreWaste(rlcStats', wasted', flight')
  <2>1. OnWayMoved(flight', flight, u, d, 1, 0)
    <3> SUFFICES ASSUME NEW v \in Ue, NEW e \in Layers!Drb
          PROVE  /\ OnWay(flight, v, e) \in Nat /\ OnWay(flight', v, e) \in Nat
                 /\ OnWay(flight', v, e) + (IF v = u /\ e = d THEN 0 ELSE 0) =
                      OnWay(flight, v, e) + (IF v = u /\ e = d THEN 1 ELSE 0)
      BY DEF OnWayMoved
    <3>1. OnWay(flight, v, e) \in Nat /\ OnWay(flight', v, e) \in Nat
      BY <1>t, <1>10, OnWayType
    <3>2. OnWay(flight', v, e) = OnWay(flight, v, e) + (IF IsOnBearer(p, v, e) THEN p.sent ELSE 0)
      BY <1>t, <1>1, <1>2, OnWayAppend
    <3>3. IsOnBearer(p, v, e) <=> v = u /\ e = d
      BY <1>1 DEF IsOnBearer, d
    <3> QED
      BY <1>1, <3>1, <3>2, <3>3
  <2>2. WastedMore(wasted', wasted, KeyOf(u, d), 0)
    BY <1>t, <1>2 DEF WastedMore
  <2>3. 1 + 0 = 0 + 0 + 1 /\ 0 \in Nat /\ 1 \in Nat
    OBVIOUS
  <2> QED
    BY <1>t, <1>1, <1>7, <1>c, <2>1, <2>2, <2>3, RepeatsStay
<1>12. DelaysCounted(e2eSamples', qfiStats', drbStats')
  <2>1. /\ GrandTotal(qfiStats, "rxPdus", Qfi) \in Nat
        /\ GrandTotal(qfiStats', "rxPdus", Qfi) = GrandTotal(qfiStats, "rxPdus", Qfi) + 0
    BY <1>4, LayersConstants, GrandTotalRaised
  <2>2. /\ GrandTotal(drbStats, "rxPdus", Layers!Drb) \in Nat
        /\ GrandTotal(drbStats', "rxPdus", Layers!Drb) = GrandTotal(drbStats, "rxPdus", Layers!Drb) + 0
    BY <1>1, <1>5, DrbFinite, GrandTotalRaised
  <2> QED
    BY <1>2, <1>c, <2>1, <2>2 DEF DelaysCounted
<1>13. DelaysShown(e2eSamples', qfiStats')
  BY <1>2, <1>4, <1>c, ShownStay
<1>14. FlowsCounted'
  BY <1>2, <1>8, <1>9, <1>11, <1>12, <1>13, FlowsCountedNext DEF FlowsCount
<1>15. LayerTypes'
  BY <1>0, <1>t, <1>2, <1>4, <1>5, <1>6, <1>7, <1>10, KeysStay DEF LayerTypes
<1>16. TimesHold'
  BY <1>0, <1>t, <1>2, FewerEvents
<1> QED
  BY <1>14, <1>15, <1>16 DEF LayersHold

LEMMA LayersRetransmitInv ==
  ASSUME LayersHold, NEW i \in DOMAIN flight, Layers!Retransmit(i)
  PROVE  LayersHold'
<1> DEFINE p == flight[i]
           u == p.ue
           d == Layers!GetDrbForQfi(p.qfi)
<1>0. LayerTypes /\ FlowsCounted /\ TimesHold
  BY DEF LayersHold
<1>t. /\ now \in Nat \ {0} /\ left \in Nat /\ KeysApart
      /\ flight \in Seq(FlightPdus) /\ \A j \in 1..Len(flight) : flight[j].time <= now
      /\ drbStats \in BearerTables /\ pdcpStats \in BearerTables /\ rlcStats \in BearerTables
      /\ wasted \in [Ue \X Layers!Drb -> Nat]
  BY <1>0 DEF LayerTypes
<1>1. i \in 1..Len(flight) /\ p \in FlightPdus /\ u \in Ue /\ d \in Layers!Drb
  BY <1>t, InFlight, PduFields
<1>k. Layers!MakeKey(u, d) = KeyOf(u, d) /\ KeyOf(u, d) \in Ue \X Layers!Drb
  BY <1>1, <1>t, KeysMade, KeysDiffer
<1>2. /\ left > 0 /\ left' = left - 1 /\ now' = now /\ imsi' = imsi
      /\ IsRepeat(flight', flight, i)
      /\ qfiStats' = qfiStats /\ drbStats' = drbStats /\ pdcpStats' = pdcpStats
      /\ e2eSamples' = e2eSamples /\ wasted' = wasted
      /\ phySamples' = phySamples /\ macSamples' = macSamples
      /\ rrcState' = rrcState /\ rrcStats' = rrcStats /\ firstSeen' = firstSeen
  BY DEF IsRepeat, Layers!Retransmit, Layers!Event, Layers!sampleVars, Layers!rrcVars
<1>3. IsSent(rlcStats', rlcStats, KeyOf(u, d), p)
  BY <1>k DEF Layers!Retransmit, Layers!RlcTxPdu, IsSent
<1>4. /\ flight' \in Seq(FlightPdus) /\ Len(flight') = Len(flight)
      /\ \A j \in 1..Len(flight) : flight'[j].time = flight[j].time
      /\ \A v, e : OnWay(flight', v, e) = OnWay(flight, v, e) + (IF IsOnBearer(p, v, e) THEN 1 ELSE 0)
  <2>1. ASSUME NEW v, NEW e
        PROVE  /\ flight' \in Seq(FlightPdus) /\ Len(flight') = Len(flight)
               /\ \A j \in 1..Len(flight) : flight'[j].time = flight[j].time
               /\ OnWay(flight', v, e) =
                    OnWay(flight, v, e) + (IF IsOnBearer(flight[i], v, e) THEN 1 ELSE 0)
    <3>1. i \in 1..Len(flight) /\ flight \in Seq(FlightPdus) /\ IsRepeat(flight', flight, i)
      BY <1>t, <1>1, <1>2
    <3>2. /\ flight' \in Seq(FlightPdus) /\ Len(flight') = Len(flight)
          /\ \A j \in 1..Len(flight) : flight'[j].time = flight[j].time
      BY ONLY <3>1, OnWayRepeat
    <3>3. OnWay(flight', v, e) =
            OnWay(flight, v, e) + (IF IsOnBearer(flight[i], v, e) THEN 1 ELSE 0)
      BY ONLY <3>1, OnWayRepeat
    <3> QED
      BY <3>2, <3>3
  <2> QED
    BY <2>1
<1>5. \A v, e : IsOnBearer(p, v, e) <=> v = u /\ e = d
  BY DEF IsOnBearer
<1> HIDE DEF p, u, d
<1>7. /\ rlcStats' \in BearerTables
      /\ LaterAt(rlcStats', rlcStats, Ue \X Layers!Drb, KeyOf(u, d), 0)
      /\ RaisedAt(rlcStats', rlcStats, Ue \X Layers!Drb, KeyOf(u, d), "txPdus", 1)
      /\ RaisedAt(rlcStats', rlcStats, Ue \X Layers!Drb, KeyOf(u, d), "rxPdus", 0)
      /\ RaisedAt(rlcStats', rlcStats, Ue \X Layers!Drb, KeyOf(u, d), "rxBytes", 0)
  BY <1>t, <1>1, <1>k, <1>3, SentBooked DEF BearerTables
<1>c. /\ \A field \in CountFieldsOf : CountsAgree(qfiStats, drbStats, pdcpStats, field)
      /\ ReceivedAgree(drbStats, pdcpStats, rlcStats)
      /\ RepeatsAreWaste(rlcStats, wasted, flight)
      /\ DelaysCounted(e2eSamples, qfiStats, drbStats)
      /\ DelaysShown(e2eSamples, qfiStats)
  BY <1>0 DEF FlowsCounted, FlowsCount
<1>9. ReceivedAgree(drbStats, pdcpStats, rlcStats')
  <2>1. LaterAt(drbStats, drbStats, Ue \X Layers!Drb, <<u, d>>, 0)
    BY <1>t, NothingCounted DEF BearerTables
  <2>2. /\ LaterAt(pdcpStats, pdcpStats, Ue \X Layers!Drb, KeyOf(u, d), 0)
        /\ RaisedAt(pdcpStats, pdcpStats, Ue \X Layers!Drb, KeyOf(u, d), "rxBytes", 0)
        /\ RaisedAt(pdcpStats, pdcpStats, Ue \X Layers!Drb, KeyOf(u, d), "rxPdus", 0)
    BY <1>t, NothingCounted DEF BearerTables, CountFieldsOf, AccountFieldsOf
  <2> QED
    BY <1>t, <1>1, <1>7, <1>c, <2>1, <2>2, ReceivedStay
<1>11. RepeatsAreWaste(rlcStats', wasted', flight')
  <2>1. OnWayMoved(flight', flight, u, d, 1, 0)
    <3> SUFFICES ASSUME NEW v \in Ue, NEW e \in Layers!Drb
          PROVE  /\ OnWay(flight, v, e) \in Nat /\ OnWay(flight', v, e) \in Nat
                 /\ OnWay(flight', v, e) + (IF v = u /\ e = d THEN 0 ELSE 0) =
                      OnWay(flight, v, e) + (IF v = u /\ e = d THEN 1 ELSE 0)
      BY DEF OnWayMoved
    <3>1. OnWay(flight, v, e) \in Nat /\ OnWay(flight', v, e) \in Nat
      BY <1>t, <1>4, OnWayType
    <3> QED
      BY <1>4, <1>5, <3>1
  <2>2. WastedMore(wasted', wasted, KeyOf(u, d), 0)
    BY <1>t, <1>2 DEF WastedMore
  <2>3. 1 + 0 = 0 + 0 + 1 /\ 0 \in Nat /\ 1 \in Nat
    OBVIOUS
  <2> QED
    BY <1>t, <1>1, <1>7, <1>c, <2>1, <2>2, <2>3, RepeatsStay
<1>14. FlowsCounted'
  BY <1>2, <1>c, <1>9, <1>11, FlowsCountedNext DEF FlowsCount
<1>15. LayerTypes'
  BY <1>0, <1>t, <1>2, <1>4, <1>7, KeysStay DEF LayerTypes
<1>16. TimesHold'
  BY <1>0, <1>t, <1>2, FewerEvents
<1> QED
  BY <1>14, <1>15, <1>16 DEF LayersHold

(* A PDU leaves.                                                           *)
LEMMA PduGone ==
  ASSUME NEW fl \in Seq(FlightPdus), NEW i \in 1..Len(fl), NEW fl2, fl2 = Layers!RemoveAt(fl, i),
         NEW n \in Nat, \A j \in 1..Len(fl) : fl[j].time <= n
  PROVE  /\ fl2 \in Seq(FlightPdus) /\ \A j \in 1..Len(fl2) : fl2[j].time <= n
         /\ OnWayMoved(fl2, fl, fl[i].ue, Layers!GetDrbForQfi(fl[i].qfi), 0, fl[i].sent)
<1>1. /\ fl2 \in Seq(FlightPdus) /\ Len(fl2) = Len(fl) - 1
      /\ \A j \in 1..Len(fl2) : \E h \in 1..Len(fl) : fl2[j] = fl[h]
      /\ \A v, e : OnWay(fl2, v, e) + (IF IsOnBearer(fl[i], v, e) THEN fl[i].sent ELSE 0) =
                     OnWay(fl, v, e)
  BY OnWayRemove
<1>2. \A v, e : OnWay(fl, v, e) \in Nat /\ OnWay(fl2, v, e) \in Nat
  BY <1>1, OnWayType
<1>3. OnWayMoved(fl2, fl, fl[i].ue, Layers!GetDrbForQfi(fl[i].qfi), 0, fl[i].sent)
  BY <1>1, <1>2 DEF OnWayMoved, IsOnBearer
<1> QED
  BY <1>1, <1>3

LEMMA LayersLoseInv ==
  ASSUME LayersHold, NEW i \in DOMAIN flight, Layers!Lose(i)
  PROVE  LayersHold'
<1> DEFINE p == flight[i]
           u == p.ue
           d == Layers!GetDrbForQfi(p.qfi)
<1>0. LayerTypes /\ FlowsCounted /\ TimesHold
  BY DEF LayersHold
<1>t. /\ now \in Nat \ {0} /\ left \in Nat /\ KeysApart
      /\ flight \in Seq(FlightPdus) /\ \A j \in 1..Len(flight) : flight[j].time <= now
      /\ rlcStats \in BearerTables /\ wasted \in [Ue \X Layers!Drb -> Nat]
  BY <1>0 DEF LayerTypes
<1>1. i \in 1..Len(flight) /\ p \in FlightPdus /\ u \in Ue /\ d \in Layers!Drb /\ p.sent \in Nat
  BY <1>t, InFlight, PduFields
<1>k. Layers!MakeKey(u, d) = KeyOf(u, d) /\ KeyOf(u, d) \in Ue \X Layers!Drb
  BY <1>1, <1>t, KeysMade, KeysDiffer
<1>2. /\ left' = left /\ now' = now /\ imsi' = imsi
      /\ flight' = Layers!RemoveAt(flight, i)
      /\ qfiStats' = qfiStats /\ drbStats' = drbStats /\ pdcpStats' = pdcpStats
      /\ rlcStats' = rlcStats /\ e2eSamples' = e2eSamples
      /\ wasted' = [wasted EXCEPT ![KeyOf(u, d)] = @ + p.sent]
      /\ phySamples' = phySamples /\ macSamples' = macSamples
      /\ rrcState' = rrcState /\ rrcStats' = rrcStats /\ firstSeen' = firstSeen
  BY <1>k DEF Layers!Lose, Layers!Waste, Layers!sampleVars, Layers!rrcVars
<1>4. /\ flight' \in Seq(FlightPdus) /\ \A j \in 1..Len(flight') : flight'[j].time <= now
      /\ OnWayMoved(flight', flight, u, d, 0, p.sent)
  BY <1>t, <1>1, <1>2, PduGone
<1> HIDE DEF p, u, d
<1>5. wasted' \in [Ue \X Layers!Drb -> Nat] /\ WastedMore(wasted', wasted, KeyOf(u, d), p.sent)
  BY <1>t, <1>1, <1>k, <1>2 DEF WastedMore
<1>c. /\ \A field \in CountFieldsOf : CountsAgree(qfiStats, drbStats, pdcpStats, field)
      /\ ReceivedAgree(drbStats, pdcpStats, rlcStats)
      /\ RepeatsAreWaste(rlcStats, wasted, flight)
      /\ DelaysCounted(e2eSamples, qfiStats, drbStats)
      /\ DelaysShown(e2eSamples, qfiStats)
  BY <1>0 DEF FlowsCounted, FlowsCount
<1>11. RepeatsAreWaste(rlcStats, wasted', flight')
  <2>1. /\ RaisedAt(rlcStats, rlcStats, Ue \X Layers!Drb, KeyOf(u, d), "txPdus", 0)
        /\ RaisedAt(rlcStats, rlcStats, Ue \X Layers!Drb, KeyOf(u, d), "rxPdus", 0)
    BY <1>t, NothingCounted DEF BearerTables, CountFieldsOf, AccountFieldsOf
  <2>2. 0 + p.sent = 0 + p.sent + 0 /\ 0 \in Nat
    BY <1>1
  <2> QED
    BY <1>t, <1>1, <1>4, <1>5, <1>c, <2>1, <2>2, RepeatsStay
<1>14. FlowsCounted'
  BY <1>2, <1>c, <1>11, FlowsCountedNext DEF FlowsCount
<1>15. LayerTypes'
  BY <1>0, <1>t, <1>2, <1>4, <1>5, KeysStay DEF LayerTypes
<1>16. TimesHold'
  BY <1>0, <1>t, <1>2, FewerEvents
<1> QED
  BY <1>14, <1>15, <1>16 DEF LayersHold

LEMMA LayersReceiveInv ==
  ASSUME LayersHold, NEW i \in DOMAIN flight, Layers!Receive(i)
  PROVE  LayersHold'
<1> DEFINE p == flight[i]
           u == p.ue
           f == p.qfi
           d == Layers!GetDrbForQfi(f)
           x == Layers!Delay(p)
<1>0. LayerTypes /\ FlowsCounted /\ TimesHold
  BY DEF LayersHold
<1>t. /\ now \in Nat \ {0} /\ left \in Nat /\ KeysApart
      /\ flight \in Seq(FlightPdus) /\ \A j \in 1..Len(flight) : flight[j].time <= now
      /\ qfiStats \in FlowTables /\ drbStats \in BearerTables
      /\ pdcpStats \in BearerTables /\ rlcStats \in BearerTables
      /\ e2eSamples \in [Ue -> Seq(Nat)] /\ wasted \in [Ue \X Layers!Drb -> Nat]
  BY <1>0 DEF LayerTypes
<1>1. /\ i \in 1..Len(flight) /\ p \in FlightPdus /\ u \in Ue /\ f \in Qfi /\ d \in Layers!Drb
      /\ p.sent \in Nat /\ p.sent - 1 \in Nat /\ p.time \in Nat
  BY <1>t, InFlight, PduFields
<1>x. x \in Nat
  BY <1>t, <1>1 DEF Layers!Delay
<1>k. /\ Layers!MakeKey(u, d) = KeyOf(u, d)
      /\ KeyOf(u, d) \in Ue \X Layers!Drb /\ <<u, d>> \in Ue \X Layers!Drb
      /\ <<u, f>> \in Ue \X Qfi
  BY <1>1, <1>t, KeysMade, KeysDiffer
<1>2. /\ left' = left /\ now' = now /\ imsi' = imsi
      /\ flight' = Layers!RemoveAt(flight, i)
      /\ IsRecorded(e2eSamples', e2eSamples, u, x)
      /\ wasted' = [wasted EXCEPT ![KeyOf(u, d)] = @ + (p.sent - 1)]
      /\ phySamples' = phySamples /\ macSamples' = macSamples
      /\ rrcState' = rrcState /\ rrcStats' = rrcStats /\ firstSeen' = firstSeen
  BY <1>k DEF Layers!Receive, Layers!Waste, Layers!RecordE2eDelay, IsRecorded,
              Layers!sampleVars, Layers!rrcVars
<1>3. /\ IsGot(qfiStats', qfiStats, <<u, f>>, p) /\ IsGot(drbStats', drbStats, <<u, d>>, p)
      /\ IsGot(pdcpStats', pdcpStats, KeyOf(u, d), p)
      /\ IsGot(rlcStats', rlcStats, KeyOf(u, d), p)
  BY <1>k DEF Layers!Receive, Layers!OnRxSdap, Layers!PdcpRxPdu, Layers!RlcRxPdu, IsGot
<1>4. /\ flight' \in Seq(FlightPdus) /\ \A j \in 1..Len(flight') : flight'[j].time <= now
      /\ OnWayMoved(flight', flight, u, d, 0, p.sent)
  BY <1>t, <1>1, <1>2, PduGone
<1>d. d = Layers!GetDrbForQfi(f)
  OBVIOUS
<1> HIDE DEF p, u, f, d
<1>5. /\ qfiStats' \in FlowTables /\ LaterAt(qfiStats', qfiStats, Ue \X Qfi, <<u, f>>, x)
      /\ \A field \in CountFieldsOf :
           RaisedAt(qfiStats', qfiStats, Ue \X Qfi, <<u, f>>, field, GotInc(p, field))
      /\ RaisedAt(qfiStats', qfiStats, Ue \X Qfi, <<u, f>>, "rxPdus", 1)
  BY <1>t, <1>1, <1>k, <1>x, <1>3, GotBooked DEF FlowTables
<1>6. /\ drbStats' \in BearerTables
      /\ LaterAt(drbStats', drbStats, Ue \X Layers!Drb, <<u, d>>, x)
      /\ \A field \in CountFieldsOf :
           RaisedAt(drbStats', drbStats, Ue \X Layers!Drb, <<u, d>>, field, GotInc(p, field))
      /\ RaisedAt(drbStats', drbStats, Ue \X Layers!Drb, <<u, d>>, "rxPdus", 1)
  BY <1>t, <1>1, <1>k, <1>x, <1>3, GotBooked DEF BearerTables
<1>7. /\ pdcpStats' \in BearerTables
      /\ LaterAt(pdcpStats', pdcpStats, Ue \X Layers!Drb, KeyOf(u, d), x)
      /\ \A field \in CountFieldsOf :
           RaisedAt(pdcpStats', pdcpStats, Ue \X Layers!Drb, KeyOf(u, d), field, GotInc(p, field))
      /\ RaisedAt(pdcpStats', pdcpStats, Ue \X Layers!Drb, KeyOf(u, d), "rxPdus", 1)
      /\ RaisedAt(pdcpStats', pdcpStats, Ue \X Layers!Drb, KeyOf(u, d), "rxBytes", p.size)
  BY <1>t, <1>1, <1>k, <1>x, <1>3, GotBooked DEF BearerTables
<1>8. /\ rlcStats' \in BearerTables
      /\ LaterAt(rlcStats', rlcStats, Ue \X Layers!Drb, KeyOf(u, d), x)
      /\ RaisedAt(rlcStats', rlcStats, Ue \X Layers!Drb, KeyOf(u, d), "txPdus", 0)
      /\ RaisedAt(rlcStats', rlcStats, Ue \X Layers!Drb, KeyOf(u, d), "rxPdus", 1)
      /\ RaisedAt(rlcStats', rlcStats, Ue \X Layers!Drb, KeyOf(u, d), "rxBytes", p.size)
  BY <1>t, <1>1, <1>k, <1>x, <1>3, GotBooked DEF BearerTables
<1>c. /\ \A field \in CountFieldsOf : CountsAgree(qfiStats, drbStats, pdcpStats, field)
      /\ ReceivedAgree(drbStats, pdcpStats, rlcStats)
      /\ RepeatsAreWaste(rlcStats, wasted, flight)
      /\ DelaysCounted(e2eSamples, qfiStats, drbStats)
      /\ DelaysShown(e2eSamples, qfiStats)
  BY <1>0 DEF FlowsCounted, FlowsCount
<1> HIDE DEF x
<1>9. ASSUME NEW field \in CountFieldsOf
      PROVE  CountsAgree(qfiStats', drbStats', pdcpStats', field)
  <2>1. GotInc(p, field) \in Nat
    BY <1>1, IncType
  <2> QED
    BY <1>t, <1>1, <1>5, <1>6, <1>7, <1>c, <1>d, <2>1, CountsStay
<1>10. ReceivedAgree(drbStats', pdcpStats', rlcStats')
  BY <1>t, <1>1, <1>6, <1>7, <1>8, <1>c, ReceivedStay
<1>w. /\ wasted' \in [Ue \X Layers!Drb -> Nat]
      /\ WastedMore(wasted', wasted, KeyOf(u, d), p.sent - 1)
  <2> DEFINE n == p.sent - 1
  <2>1. n \in Nat /\ wasted' = [wasted EXCEPT ![KeyOf(u, d)] = @ + n]
    BY <1>1, <1>2
  <2> HIDE DEF n
  <2>2. wasted' \in [Ue \X Layers!Drb -> Nat] /\ WastedMore(wasted', wasted, KeyOf(u, d), n)
    BY <1>t, <1>k, <2>1 DEF WastedMore
  <2> QED
    BY <2>2 DEF n
<1>11. RepeatsAreWaste(rlcStats', wasted', flight')
  <2> DEFINE m == p.sent
             n == p.sent - 1
  <2>1. 0 + m = 1 + n + 0 /\ 0 \in Nat /\ 1 \in Nat /\ m \in Nat /\ n \in Nat
    BY <1>1
  <2>2. OnWayMoved(flight', flight, u, d, 0, m) /\ WastedMore(wasted', wasted, KeyOf(u, d), n)
    BY <1>4, <1>w
  <2> HIDE DEF m, n
  <2> QED
    BY <1>t, <1>1, <1>8, <1>c, <2>1, <2>2, RepeatsStay
<1>12. /\ e2eSamples' \in [Ue -> Seq(Nat)] /\ DelaysShown(e2eSamples', qfiStats')
       /\ SumOn(Lengths(e2eSamples, Ue), Ue) \in Nat
       /\ SumOn(Lengths(e2eSamples', Ue), Ue) = SumOn(Lengths(e2eSamples, Ue), Ue) + 1
  BY <1>t, <1>1, <1>x, <1>2, <1>5, <1>c, ShownRaised
<1>13. DelaysCounted(e2eSamples', qfiStats', drbStats')
  <2>1. /\ GrandTotal(qfiStats, "rxPdus", Qfi) \in Nat
        /\ GrandTotal(qfiStats', "rxPdus", Qfi) = GrandTotal(qfiStats, "rxPdus", Qfi) + 1
    BY <1>1, <1>5, LayersConstants, GrandTotalCounted
  <2>2. /\ GrandTotal(drbStats, "rxPdus", Layers!Drb) \in Nat
        /\ GrandTotal(drbStats', "rxPdus", Layers!Drb) = GrandTotal(drbStats, "rxPdus", Layers!Drb) + 1
    BY <1>1, <1>6, DrbFinite, GrandTotalCounted
  <2> QED
    BY <1>12, <1>c, <2>1, <2>2 DEF DelaysCounted
<1>14. FlowsCounted'
  BY <1>2, <1>9, <1>10, <1>11, <1>12, <1>13, FlowsCountedNext DEF FlowsCount
<1>15. LayerTypes'
  BY <1>0, <1>t, <1>2, <1>4, <1>5, <1>6, <1>7, <1>8, <1>w, <1>12, KeysStay DEF LayerTypes
<1>16. TimesHold'
  BY <1>0, <1>t, <1>2, FewerEvents
<1> QED
  BY <1>14, <1>15, <1>16 DEF LayersHold

LEMMA LayersSampleInv ==
  ASSUME LayersHold, NEW u \in Ue, NEW x \in 1..2, Layers!OnRsrp(u, x) \/ Layers!OnQueueDelay(u, x)
  PROVE  LayersHold'
<1>0. LayerTypes /\ FlowsCounted /\ TimesHold
  BY DEF LayersHold
<1>1. /\ left > 0 /\ left' = left - 1 /\ now' = now /\ imsi' = imsi /\ flight' = flight
      /\ qfiStats' = qfiStats /\ drbStats' = drbStats /\ pdcpStats' = pdcpStats
      /\ rlcStats' = rlcStats /\ e2eSamples' = e2eSamples /\ wasted' = wasted
      /\ rrcState' = rrcState /\ rrcStats' = rrcStats /\ firstSeen' = firstSeen
  BY DEF Layers!OnRsrp, Layers!OnQueueDelay, Layers!Event, Layers!flowVars, Layers!rrcVars
<1>2. /\ now \in Nat \ {0} /\ left \in Nat /\ KeysApart
      /\ phySamples \in [Ue -> Seq(1..2)] /\ macSamples \in [Ue -> Seq(Nat)]
  BY <1>0 DEF LayerTypes
<1>3. phySamples' \in [Ue -> Seq(1..2)] /\ macSamples' \in [Ue -> Seq(Nat)]
  <2>1. CASE Layers!OnRsrp(u, x)
    <3>1. phySamples' = [phySamples EXCEPT ![u] = Append(@, x)] /\ macSamples' = macSamples
      BY <2>1 DEF Layers!OnRsrp
    <3>2. phySamples[u] \in Seq(1..2)
      BY <1>2
    <3>3. Append(phySamples[u], x) \in Seq(1..2)
      BY <3>2
    <3> QED
      BY <1>2, <3>1, <3>3
  <2>2. CASE Layers!OnQueueDelay(u, x)
    <3>1. macSamples' = [macSamples EXCEPT ![u] = Append(@, x)] /\ phySamples' = phySamples
      BY <2>2 DEF Layers!OnQueueDelay
    <3>2. macSamples[u] \in Seq(Nat) /\ x \in Nat
      BY <1>2
    <3>3. Append(macSamples[u], x) \in Seq(Nat)
      BY <3>2
    <3> QED
      BY <1>2, <3>1, <3>3
  <2> QED
    BY <2>1, <2>2
<1>4. FlowsCounted'
  BY <1>0, <1>1, FlowsCountedNext DEF FlowsCounted
<1>5. LayerTypes'
  BY <1>0, <1>1, <1>2, <1>3, KeysStay DEF LayerTypes
<1>6. TimesHold'
  BY <1>0, <1>1, <1>2, FewerEvents
<1> QED
  BY <1>4, <1>5, <1>6 DEF LayersHold

LEMMA LayersElapseInv ==
  ASSUME LayersHold, Layers!Elapse
  PROVE  LayersHold'
<1>0. LayerTypes /\ FlowsCounted /\ TimesHold
  BY DEF LayersHold
<1>1. /\ now' = now + 1 /\ left' = left /\ imsi' = imsi /\ flight' = flight
      /\ qfiStats' = qfiStats /\ drbStats' = drbStats /\ pdcpStats' = pdcpStats
      /\ rlcStats' = rlcStats /\ e2eSamples' = e2eSamples /\ wasted' = wasted
      /\ phySamples' = phySamples /\ macSamples' = macSamples
      /\ rrcState' = rrcState /\ rrcStats' = rrcStats /\ firstSeen' = firstSeen
  BY DEF Layers!Elapse, Layers!flowVars, Layers!sampleVars, Layers!rrcVars
<1>2. /\ now \in Nat \ {0} /\ KeysApart
      /\ flight \in Seq(FlightPdus) /\ \A j \in 1..Len(flight) : flight[j].time <= now
  BY <1>0 DEF LayerTypes
<1>3. FlowsCounted'
  BY <1>0, <1>1, FlowsCountedNext DEF FlowsCounted
<1>4. now' \in Nat \ {0} /\ \A j \in 1..Len(flight) : flight[j].time <= now'
  <2>1. \A j \in 1..Len(flight) : flight[j].time \in Nat
    BY <1>2, InFlight, PduFields
  <2> QED
    BY <1>1, <1>2, <2>1
<1>5. LayerTypes'
  BY <1>0, <1>1, <1>2, <1>4, KeysStay DEF LayerTypes
<1>6. ASSUME NEW u \in Ue PROVE TimesFit(rrcStats[u], rrcState[u], firstSeen[u], now')
  <2>1. TimesFit(rrcStats[u], rrcState[u], firstSeen[u], now) /\ rrcStats[u].last \in Nat
    BY <1>0 DEF TimesHold, StateTimes
  <2> QED
    BY <1>1, <1>2, <2>1 DEF TimesFit
<1>7. TimesHold'
  BY <1>0, <1>1, <1>6 DEF TimesHold, TimesFit, Transitions
<1> QED
  BY <1>3, <1>5, <1>7 DEF LayersHold

(* A transition in the times of a UE.                                      *)
LEMMA TransitionFits ==
  ASSUME NEW t \in StateTimes, NEW old \in Layers!RrcState, NEW seen \in Nat, now \in Nat \ {0},
         TimesFit(t, old, seen, now), NEW t2,
         t2 = Layers!AfterTransition(t, old, Layers!NextState(old))
  PROVE  /\ t2 \in StateTimes /\ Layers!NextState(old) \in Layers!RrcState
         /\ TimesFit(t2, Layers!NextState(old), IF seen = 0 THEN now ELSE seen, now)
         /\ \A s \in Layers!RrcState :
              t2.entries[s] = t.entries[s] + (IF s = Layers!NextState(old) THEN 1 ELSE 0)
<1> DEFINE new == Layers!NextState(old)
           S == Layers!RrcState
           time2 == IF t.last > 0 THEN [t.time EXCEPT ![old] = @ + now - t.last] ELSE t.time
           paged == IF old = "RRC_INACTIVE" /\ new = "IDLE_RANDOM_ACCESS" THEN 1 ELSE 0
<1>1. /\ t.entries \in [S -> Nat] /\ t.time \in [S -> Nat] /\ t.last \in Nat /\ t.paging \in Nat
      /\ seen = 0 <=> t.last = 0
      /\ t.last <= now /\ SumOn(t.time, S) + seen = t.last
      /\ t.entries["RRC_INACTIVE"] = t.paging + (IF old = "RRC_INACTIVE" THEN 1 ELSE 0)
      /\ t.time["RRC_INACTIVE"] > 0 => t.paging > 0
  BY DEF StateTimes, TimesFit
<1>2. new \in S /\ (new = "RRC_INACTIVE" => old # "RRC_INACTIVE")
      /\ paged = (IF old = "RRC_INACTIVE" THEN 1 ELSE 0)
  BY DEF Layers!NextState, Layers!RrcState
<1>3. /\ t2.entries = [t.entries EXCEPT ![new] = @ + 1] /\ t2.time = time2
      /\ t2.last = now /\ t2.paging = t.paging + paged
      /\ t2 = [entries |-> t2.entries, time |-> t2.time, last |-> t2.last, paging |-> t2.paging]
  BY DEF Layers!AfterTransition
<1> HIDE DEF new, paged
<1>4. /\ t2.entries \in [S -> Nat]
      /\ \A s \in S : t2.entries[s] = t.entries[s] + (IF s = new THEN 1 ELSE 0)
  BY <1>1, <1>2, <1>3
<1>5. /\ time2 \in [S -> Nat]
      /\ SumOn(time2, S) = SumOn(t.time, S) + (IF t.last > 0 THEN now - t.last ELSE 0)
      /\ time2["RRC_INACTIVE"] > 0 => t.time["RRC_INACTIVE"] > 0 \/ old = "RRC_INACTIVE"
  <2>1. CASE t.last > 0
    <3> DEFINE inc == now - t.last
               f == t.time
               g == time2
    <3>1. inc \in Nat
      BY <1>1
    <3>2. f \in [S -> Nat] /\ g = [f EXCEPT ![old] = @ + now - t.last]
      BY <1>1, <2>1
    <3>3. f[old] \in Nat /\ f[old] + now - t.last = f[old] + inc
      BY <1>1
    <3> HIDE DEF inc, f, g
    <3>4. /\ g \in [S -> Nat]
          /\ \A s \in S : f[s] \in Nat /\ g[s] = f[s] + (IF s = old THEN inc ELSE 0)
      BY <3>1, <3>2, <3>3
    <3>5. IsFiniteSet(S) /\ "RRC_INACTIVE" \in S
      BY StatesFinite
    <3>6. SumOn(g, S) = SumOn(f, S) + (IF old \in S THEN inc ELSE 0)
      BY <3>1, <3>4, <3>5, SumRaised
    <3>7. g["RRC_INACTIVE"] > 0 => f["RRC_INACTIVE"] > 0 \/ old = "RRC_INACTIVE"
      BY <3>4, <3>5
    <3> QED
      BY <2>1, <3>4, <3>6, <3>7 DEF inc, f, g
  <2>2. CASE ~(t.last > 0)
    <3>1. time2 = t.time
      BY <2>2
    <3>2. SumOn(t.time, S) \in Nat
      BY <1>1, StatesFinite, SumType
    <3> QED
      BY <1>1, <2>2, <3>1, <3>2
  <2> QED
    BY <2>1, <2>2
<1> HIDE DEF time2
<1>6. t2 \in StateTimes
  <2>1. t2.last \in Nat /\ t2.paging \in Nat
    BY <1>1, <1>3 DEF paged
  <2> QED
    BY <1>3, <1>4, <1>5, <2>1 DEF StateTimes
<1>7. TimesFit(t2, new, IF seen = 0 THEN now ELSE seen, now)
  <2>1. SumOn(t2.time, S) + (IF seen = 0 THEN now ELSE seen) = now
    <3>1. SumOn(t.time, S) \in Nat
      BY <1>1, StatesFinite, SumType
    <3> QED
      BY <1>1, <1>3, <1>5, <3>1
  <2>2. t2.entries["RRC_INACTIVE"] = t2.paging + (IF new = "RRC_INACTIVE" THEN 1 ELSE 0)
    <3>1. t2.entries["RRC_INACTIVE"] =
            t.entries["RRC_INACTIVE"] + (IF new = "RRC_INACTIVE" THEN 1 ELSE 0)
      BY <1>4, StatesFinite
    <3>2. t.paging \in Nat /\ t2.paging = t.paging + (IF old = "RRC_INACTIVE" THEN 1 ELSE 0)
      BY <1>1, <1>2, <1>3
    <3> QED
      BY <1>1, <1>2, <3>1, <3>2
  <2>3. t2.time["RRC_INACTIVE"] > 0 => t2.paging > 0
    BY <1>1, <1>2, <1>3, <1>5
  <2>4. /\ ((IF seen = 0 THEN now ELSE seen) = 0) <=> (t2.last = 0)
        /\ t2.last <= now
    BY <1>3
  <2> QED
    BY <1>3, <2>1, <2>2, <2>3, <2>4 DEF TimesFit
<1> QED
  BY <1>2, <1>4, <1>6, <1>7 DEF new

LEMMA LayersTransitionInv ==
  ASSUME LayersHold, NEW u \in Ue, Layers!OnStateTransition(u)
  PROVE  LayersHold'
<1> DEFINE old == rrcState[u]
           new == Layers!NextState(old)
           t == rrcStats[u]
           t2 == Layers!AfterTransition(t, old, new)
           seen == firstSeen[u]
<1>0. LayerTypes /\ FlowsCounted /\ TimesHold
  BY DEF LayersHold
<1>1. /\ left > 0 /\ left' = left - 1 /\ now' = now /\ imsi' = imsi /\ flight' = flight
      /\ qfiStats' = qfiStats /\ drbStats' = drbStats /\ pdcpStats' = pdcpStats
      /\ rlcStats' = rlcStats /\ e2eSamples' = e2eSamples /\ wasted' = wasted
      /\ phySamples' = phySamples /\ macSamples' = macSamples
      /\ rrcState' = [rrcState EXCEPT ![u] = new]
      /\ rrcStats' = [rrcStats EXCEPT ![u] = t2]
      /\ firstSeen' = [firstSeen EXCEPT ![u] = IF seen = 0 THEN now ELSE seen]
  BY DEF Layers!OnStateTransition, Layers!Event, Layers!flowVars, Layers!sampleVars
<1>2. /\ now \in Nat \ {0} /\ left \in Nat /\ KeysApart
      /\ rrcState \in [Ue -> Layers!RrcState] /\ rrcStats \in [Ue -> StateTimes]
      /\ firstSeen \in [Ue -> Nat]
      /\ \A v \in Ue : TimesFit(rrcStats[v], rrcState[v], firstSeen[v], now)
      /\ Transitions(rrcStats) + left <= MaxEvents
  BY <1>0 DEF LayerTypes, TimesHold
<1>3. t \in StateTimes /\ old \in Layers!RrcState /\ seen \in Nat /\ TimesFit(t, old, seen, now)
  BY <1>2
<1>4. /\ t2 \in StateTimes /\ new \in Layers!RrcState
      /\ TimesFit(t2, new, IF seen = 0 THEN now ELSE seen, now)
      /\ \A s \in Layers!RrcState : t2.entries[s] = t.entries[s] + (IF s = new THEN 1 ELSE 0)
  BY <1>2, <1>3, TransitionFits
<1> HIDE DEF old, new, t, t2, seen
<1>5. /\ rrcState' \in [Ue -> Layers!RrcState] /\ rrcStats' \in [Ue -> StateTimes]
      /\ firstSeen' \in [Ue -> Nat]
      /\ rrcState'[u] = new /\ rrcStats'[u] = t2
      /\ firstSeen'[u] = (IF seen = 0 THEN now ELSE seen)
      /\ \A v \in Ue : v # u => /\ rrcState'[v] = rrcState[v] /\ rrcStats'[v] = rrcStats[v]
                                /\ firstSeen'[v] = firstSeen[v]
  BY <1>1, <1>2, <1>3, <1>4
<1>6. ASSUME NEW v \in Ue PROVE TimesFit(rrcStats'[v], rrcState'[v], firstSeen'[v], now)
  <2>1. CASE v = u
    BY <1>4, <1>5, <2>1
  <2>2. CASE v # u
    BY <1>2, <1>5, <2>2
  <2> QED
    BY <2>1, <2>2
<1>7. Transitions(rrcStats') + left' <= MaxEvents
  <2> DEFINE S == Ue \X Layers!RrcState
             f == [k \in S |-> rrcStats[k[1]].entries[k[2]]]
             g == [k \in S |-> rrcStats'[k[1]].entries[k[2]]]
             key == <<u, new>>
  <2>1. ASSUME NEW k \in S PROVE f[k] \in Nat /\ g[k] = f[k] + (IF k = key THEN 1 ELSE 0)
    <3>1. /\ k[1] \in Ue /\ k[2] \in Layers!RrcState /\ (k = key <=> k[1] = u /\ k[2] = new)
      OBVIOUS
    <3>2. rrcStats[k[1]].entries[k[2]] \in Nat
      BY <1>2, <3>1 DEF StateTimes
    <3>3. rrcStats'[k[1]].entries[k[2]] =
            rrcStats[k[1]].entries[k[2]] + (IF k = key THEN 1 ELSE 0)
      <4>1. CASE k[1] = u
        BY <1>4, <1>5, <3>1, <4>1 DEF t
      <4>2. CASE k[1] # u
        BY <1>5, <3>1, <3>2, <4>2
      <4> QED
        BY <4>1, <4>2
    <3> QED
      BY <3>2, <3>3
  <2>2. IsFiniteSet(S) /\ key \in S
    BY <1>4, StatesFinite
  <2> HIDE DEF S, f, g, key
  <2>3. SumOn(f, S) \in Nat /\ SumOn(g, S) = SumOn(f, S) + 1
    <3> DEFINE inc == 1
    <3>1. inc \in Nat /\ \A k \in S : f[k] \in Nat /\ g[k] = f[k] + (IF k = key THEN inc ELSE 0)
      BY <2>1
    <3> HIDE DEF inc
    <3>2. SumOn(f, S) \in Nat /\ SumOn(g, S) = SumOn(f, S) + (IF key \in S THEN inc ELSE 0)
      BY <2>2, <3>1, SumRaised
    <3> QED
      BY <2>2, <3>2 DEF inc
  <2>4. Transitions(rrcStats) = SumOn(f, S) /\ Transitions(rrcStats') = SumOn(g, S)
    BY DEF Transitions, f, g, S
  <2> QED
    BY <1>1, <1>2, <2>3, <2>4, LayersConstants
<1>8. TimesHold'
  BY <1>1, <1>5, <1>6, <1>7 DEF TimesHold, TimesFit, Transitions
<1>9. FlowsCounted'
  BY <1>0, <1>1, FlowsCountedNext DEF FlowsCounted
<1>10. LayerTypes'
  BY <1>0, <1>1, <1>2, KeysStay DEF LayerTypes
<1> QED
  BY <1>8, <1>9, <1>10 DEF LayersHold

-----------------------------------------------------------------------------
(* What the invariant says of what the collectors report.                  *)

LEMMA FlightIsSum ==
  ASSUME flight \in Seq(FlightPdus), NEW u, NEW d
  PROVE  Layers!FoldLeft(LAMBDA n, p : n + (IF p.ue = u /\ Layers!GetDrbForQfi(p.qfi) = d
                                            THEN p.sent ELSE 0), 0, flight) = OnWay(flight, u, d)
<1> DEFINE f == SentOf(flight, u, d)
           g == [i \in DOMAIN flight |->
                   IF flight[i].ue = u /\ Layers!GetDrbForQfi(flight[i].qfi) = d
                   THEN flight[i].sent ELSE 0]
           n == Len(flight)
<1>1. n \in Nat /\ DOMAIN flight = 1..n
  BY InFlight
<1>2. \A i \in 1..n : f[i] \in Nat
  BY OnWayType
<1>3. f = g
  BY <1>1 DEF SentOf, IsOnBearer
<1>4. \A A \in SUBSET DOMAIN flight : A # {} => Layers!Max(A) \in DOMAIN flight
  <2> HIDE DEF n
  <2> QED
    BY <1>1, LayersTop
<1>5. Layers!FoldLeft(LAMBDA m, p : m + (IF p.ue = u /\ Layers!GetDrbForQfi(p.qfi) = d
                                         THEN p.sent ELSE 0), 0, flight) =
        LayersSumUpTo(g, DOMAIN flight)
  BY <1>4 DEF Layers!FoldLeft, Layers!MapThenFoldSet, LayersSumUpTo, LayersSumStep
<1> HIDE DEF f, g, n
<1>6. LayersSumUpTo(f, 1..n) = SumOn(f, 1..n)
  BY <1>1, <1>2, LayersFolds, SumUpToIsSum
<1> QED
  BY <1>1, <1>3, <1>5, <1>6 DEF OnWay, f, n

LEMMA LayersAccountsAgree ==
  ASSUME LayersHold
  PROVE  Layers!AccountsAgree
<1>1. /\ KeysApart /\ qfiStats \in FlowTables
      /\ \A field \in CountFieldsOf : CountsAgree(qfiStats, drbStats, pdcpStats, field)
      /\ ReceivedAgree(drbStats, pdcpStats, rlcStats)
  BY DEF LayersHold, LayerTypes, FlowsCounted, FlowsCount
<1>2. ASSUME NEW u \in Ue, NEW d \in Layers!Drb,
             NEW field \in {"txBytes", "txPdus", "rxBytes", "rxPdus"}
      PROVE  LET n == Layers!Total(qfiStats, field, Cells(u, d)) IN
             n = drbStats[<<u, d>>][field] /\ n = pdcpStats[KeyOf(u, d)][field]
  <2>1. field \in CountFieldsOf /\ field \in AccountFieldsOf
    BY DEF CountFieldsOf, AccountFieldsOf
  <2>2. IsFiniteSet(Cells(u, d)) /\ \A k \in Cells(u, d) : qfiStats[k][field] \in Nat
    <3>1. IsFiniteSet(Cells(u, d)) /\ Cells(u, d) \subseteq Ue \X Qfi
      BY DrbFinite
    <3>2. ASSUME NEW k \in Cells(u, d) PROVE qfiStats[k][field] \in Nat
      <4>1. qfiStats[k] \in LayerAccounts
        BY <1>1, <3>1 DEF FlowTables
      <4> QED
        BY <2>1, <4>1, AccountValues
    <3> QED
      BY <3>1, <3>2
  <2>3. Layers!Total(qfiStats, field, Cells(u, d)) = ValueSum(qfiStats, field, Cells(u, d))
    BY <2>2, TotalIsSum DEF ValueSum, ValuesOf
  <2> QED
    BY <1>1, <2>1, <2>3 DEF CountsAgree
<1>3. ASSUME NEW u \in Ue, NEW d \in Layers!Drb
      PROVE  /\ \A field \in {"rxBytes", "rxPdus", "maxDelay"} :
                  pdcpStats[KeyOf(u, d)][field] = rlcStats[KeyOf(u, d)][field]
             /\ pdcpStats[KeyOf(u, d)].maxDelay = drbStats[<<u, d>>].maxDelay
  BY <1>1 DEF ReceivedAgree
<1> SUFFICES ASSUME NEW u \in Ue, NEW d \in Layers!Drb
      PROVE  LET k == <<Layers!Identity(u), d>> IN
             /\ \A field \in {"txBytes", "txPdus", "rxBytes", "rxPdus"} :
                  LET ofFlows == Layers!Total(qfiStats, field,
                                              {u} \X {q \in Qfi : Layers!GetDrbForQfi(q) = d})
                  IN ofFlows = drbStats[u, d][field] /\ ofFlows = Layers!GetPdcpBearerStats(k, field)
             /\ \A field \in {"rxBytes", "rxPdus", "maxDelay"} :
                  Layers!GetPdcpBearerStats(k, field) = Layers!GetRlcBearerStats(k, field)
             /\ Layers!GetPdcpBearerStats(k, "maxDelay") = drbStats[u, d].maxDelay
  BY DEF Layers!AccountsAgree
<1>4. KeyOf(u, d) = <<Layers!Identity(u), d>>
      /\ Cells(u, d) = {u} \X {q \in Qfi : Layers!GetDrbForQfi(q) = d}
  BY DEF KeyOf, Cells
<1>5. ASSUME NEW field \in {"txBytes", "txPdus", "rxBytes", "rxPdus"}
      PROVE  LET ofFlows == Layers!Total(qfiStats, field,
                                         {u} \X {q \in Qfi : Layers!GetDrbForQfi(q) = d})
             IN /\ ofFlows = drbStats[u, d][field]
                /\ ofFlows = Layers!GetPdcpBearerStats(<<Layers!Identity(u), d>>, field)
  <2>1. LET n == Layers!Total(qfiStats, field, Cells(u, d)) IN
        n = drbStats[<<u, d>>][field] /\ n = pdcpStats[KeyOf(u, d)][field]
    BY <1>2
  <2> QED
    BY <1>4, <2>1 DEF Layers!GetPdcpBearerStats
<1>6. /\ \A field \in {"rxBytes", "rxPdus", "maxDelay"} :
           Layers!GetPdcpBearerStats(<<Layers!Identity(u), d>>, field) =
             Layers!GetRlcBearerStats(<<Layers!Identity(u), d>>, field)
      /\ Layers!GetPdcpBearerStats(<<Layers!Identity(u), d>>, "maxDelay") = drbStats[u, d].maxDelay
  BY <1>3, <1>4 DEF Layers!GetPdcpBearerStats, Layers!GetRlcBearerStats
<1> QED
  BY <1>5, <1>6, Zenon

LEMMA LayersRetransmissions ==
  ASSUME LayersHold
  PROVE  Layers!RetransmissionsAreWaste
<1>1. /\ KeysApart /\ flight \in Seq(FlightPdus) /\ rlcStats \in BearerTables
      /\ wasted \in [Ue \X Layers!Drb -> Nat]
      /\ RepeatsAreWaste(rlcStats, wasted, flight)
  BY DEF LayersHold, LayerTypes, FlowsCounted, FlowsCount
<1>2. ASSUME NEW u \in Ue, NEW d \in Layers!Drb
      PROVE  Layers!GetEstimatedRetxCount(<<Layers!Identity(u), d>>) =
               wasted[Layers!Identity(u), d] + OnWay(flight, u, d)
  <2> DEFINE k == KeyOf(u, d)
             a == rlcStats[k]
  <2>1. k \in Ue \X Layers!Drb
    BY <1>1, KeysDiffer
  <2>2. a \in LayerAccounts /\ wasted[k] \in Nat /\ OnWay(flight, u, d) \in Nat
    BY <1>1, <2>1, OnWayType DEF BearerTables
  <2>3. a.txPdus \in Nat /\ a.rxPdus \in Nat
    BY <2>2 DEF LayerAccounts
  <2>4. a.txPdus = a.rxPdus + wasted[k] + OnWay(flight, u, d)
    BY <1>1 DEF RepeatsAreWaste
  <2>5. Layers!GetEstimatedRetxCount(k) = IF a.txPdus > a.rxPdus THEN a.txPdus - a.rxPdus ELSE 0
    BY DEF Layers!GetEstimatedRetxCount
  <2>6. k = <<Layers!Identity(u), d>>
    BY DEF KeyOf
  <2> HIDE DEF a, k
  <2>7. Layers!GetEstimatedRetxCount(k) = wasted[k] + OnWay(flight, u, d)
    BY <2>2, <2>3, <2>4, <2>5
  <2> QED
    BY <2>6, <2>7
<1> QED
  BY <1>1, <1>2, FlightIsSum, Zenon DEF Layers!RetransmissionsAreWaste

LEMMA LayersDelaysAgree ==
  ASSUME LayersHold
  PROVE  Layers!DelaysAgree
<1> DEFINE p == Layers!Pooled(e2eSamples)
           c == Layers!ComputeStats(p)
<1>1. /\ qfiStats \in FlowTables /\ drbStats \in BearerTables /\ e2eSamples \in [Ue -> Seq(Nat)]
      /\ DelaysCounted(e2eSamples, qfiStats, drbStats)
      /\ DelaysShown(e2eSamples, qfiStats)
  BY DEF LayersHold, LayerTypes, FlowsCounted, FlowsCount
<1>2. /\ p \in Seq(Nat) /\ Len(p) = SumOn(Lengths(e2eSamples, Ue), Ue)
      /\ \A v : IsIn(v, p) <=> \E u \in Ue : IsIn(v, e2eSamples[u])
  BY <1>1, PooledIsPool DEF IsPool
<1> HIDE DEF p
<1>3. /\ c.count = Len(p) /\ c.max \in Nat
      /\ p = <<>> => c.max = 0
      /\ p # <<>> => IsIn(c.max, p)
      /\ \A v : IsIn(v, p) => v <= c.max
  BY <1>2, StatsOfSamples
<1>4. Layers!GetAggregateE2eStats = c
  BY DEF Layers!GetAggregateE2eStats, p
<1> HIDE DEF c
<1>v. ASSUME NEW k \in Ue \X Qfi
      PROVE  qfiStats[k]["rxPdus"] \in Nat /\ qfiStats[k].maxDelay \in Nat
  <2>1. qfiStats[k] \in LayerAccounts
    BY <1>1 DEF FlowTables
  <2> QED
    BY <2>1 DEF LayerAccounts
<1>5. Layers!FoldSet(LAMBDA q, n : n + Layers!GetQfiStats(q, "rxPdus"), 0, Qfi) =
        GrandTotal(qfiStats, "rxPdus", Qfi)
  <2>1. ASSUME NEW q \in Qfi
        PROVE  Layers!GetQfiStats(q, "rxPdus") = ValueSum(qfiStats, "rxPdus", Ue \X {q})
    <3>1. \A k \in Ue \X {q} : qfiStats[k]["rxPdus"] \in Nat
      BY <1>v
    <3>2. IsFiniteSet(Ue \X {q})
      BY DrbFinite
    <3> DEFINE S == Ue \X {q}
    <3>0. IsFiniteSet(S) /\ \A k \in S : qfiStats[k]["rxPdus"] \in Nat
      BY <3>1, <3>2
    <3> HIDE DEF S
    <3>3. Layers!Total(qfiStats, "rxPdus", S) = SumOn([k \in S |-> qfiStats[k]["rxPdus"]], S)
      BY <3>0, TotalIsSum
    <3> QED
      BY <3>3 DEF Layers!GetQfiStats, ValueSum, ValuesOf, S
  <2>2. [q \in Qfi |-> Layers!GetQfiStats(q, "rxPdus")] = ColumnSums(qfiStats, "rxPdus", Qfi)
    BY <2>1 DEF ColumnSums
  <2> QED
    BY <2>2, FlowCountsIsSum DEF GrandTotal
<1>6. Layers!FoldSet(LAMBDA d, n : n + Layers!GetDrbStats(d, "rxPdus"), 0, Layers!Drb) =
        GrandTotal(drbStats, "rxPdus", Layers!Drb)
  <2>1. ASSUME NEW d \in Layers!Drb
        PROVE  Layers!GetDrbStats(d, "rxPdus") = ValueSum(drbStats, "rxPdus", Ue \X {d})
    <3>1. ASSUME NEW k \in Ue \X {d} PROVE drbStats[k]["rxPdus"] \in Nat
      <4>1. drbStats[k] \in LayerAccounts
        BY <1>1 DEF BearerTables
      <4> QED
        BY <4>1 DEF LayerAccounts
    <3>2. IsFiniteSet(Ue \X {d})
      BY DrbFinite
    <3> DEFINE S == Ue \X {d}
    <3>0. IsFiniteSet(S) /\ \A k \in S : drbStats[k]["rxPdus"] \in Nat
      BY <3>1, <3>2
    <3> HIDE DEF S
    <3>3. Layers!Total(drbStats, "rxPdus", S) = SumOn([k \in S |-> drbStats[k]["rxPdus"]], S)
      BY <3>0, TotalIsSum
    <3> QED
      BY <3>3 DEF Layers!GetDrbStats, ValueSum, ValuesOf, S
  <2>2. [d \in Layers!Drb |-> Layers!GetDrbStats(d, "rxPdus")] =
          ColumnSums(drbStats, "rxPdus", Layers!Drb)
    BY <2>1 DEF ColumnSums
  <2> QED
    BY <2>2, BearerCountsIsSum DEF GrandTotal
<1>7. c.max = DelaysOn(Ue \X Qfi)
  <2> DEFINE S == Ue \X Qfi
             f == [k \in S |-> qfiStats[k].maxDelay]
             m == DelaysOn(S)
  <2>1. IsMost(m, f, S)
    <3>1. IsFiniteSet(S) /\ \A k \in S : qfiStats[k].maxDelay \in Nat
      BY <1>v, DrbFinite
    <3> HIDE DEF S
    <3> QED
      BY <3>1, DelaysIsMost
  <2>2. \A u \in Ue, q \in Qfi : <<u, q>> \in S /\ f[<<u, q>>] = qfiStats[<<u, q>>].maxDelay
                                 /\ f[<<u, q>>] \in Nat
    BY <1>v
  <2>3. \A k \in S : k = <<k[1], k[2]>> /\ k[1] \in Ue /\ k[2] \in Qfi
    OBVIOUS
  <2> HIDE DEF S, f, m
  <2>4. /\ m \in Nat /\ \A k \in S : f[k] <= m
        /\ m = 0 \/ \E k \in S : f[k] = m
    BY <2>1 DEF IsMost
  <2>5. m <= c.max
    <3>1. CASE m = 0
      BY <1>3, <3>1
    <3>2. CASE m # 0
      <4>1. PICK k \in S : f[k] = m
        BY <2>4, <3>2
      <4>2. PICK u \in Ue, q \in Qfi : k = <<u, q>>
        BY <2>3
      <4>3. qfiStats[<<u, q>>].maxDelay = m
        BY <2>2, <4>1, <4>2
      <4>4. IsIn(m, e2eSamples[u])
        BY <1>1, <3>2, <4>3 DEF DelaysShown
      <4> QED
        BY <1>2, <1>3, <4>4
    <3> QED
      BY <3>1, <3>2
  <2>6. c.max <= m
    <3>1. CASE p = <<>>
      BY <1>3, <2>4, <3>1
    <3>2. CASE p # <<>>
      <4>1. PICK u \in Ue : IsIn(c.max, e2eSamples[u])
        BY <1>2, <1>3, <3>2
      <4>2. PICK q \in Qfi : c.max <= qfiStats[<<u, q>>].maxDelay
        BY <1>1, <4>1 DEF DelaysShown
      <4>3. <<u, q>> \in S /\ f[<<u, q>>] = qfiStats[<<u, q>>].maxDelay /\ f[<<u, q>>] \in Nat
        BY <2>2
      <4>4. f[<<u, q>>] <= m
        BY <2>4, <4>3
      <4> QED
        BY <1>3, <2>4, <4>2, <4>3, <4>4
    <3> QED
      BY <3>1, <3>2
  <2>7. c.max = m
    BY <1>3, <2>4, <2>5, <2>6
  <2> QED
    BY <2>7 DEF m, S
<1> QED
  BY <1>1, <1>2, <1>3, <1>4, <1>5, <1>6, <1>7, Zenon
  DEF Layers!DelaysAgree, DelaysCounted, DelaysOn

LEMMA LayersPoolsAreWhole ==
  ASSUME LayersHold
  PROVE  Layers!PoolsAreWhole
<1> DEFINE p == Layers!Pooled(macSamples)
           r == Layers!Pooled(phySamples)
           c == Layers!ComputeStats(p)
<1>1. macSamples \in [Ue -> Seq(Nat)] /\ phySamples \in [Ue -> Seq(1..2)]
  BY DEF LayersHold, LayerTypes
<1>2. /\ p \in Seq(Nat) /\ Len(p) = SumOn(Lengths(macSamples, Ue), Ue)
      /\ \A v : IsIn(v, p) <=> \E u \in Ue : IsIn(v, macSamples[u])
  BY <1>1, PooledIsPool DEF IsPool
<1>3. Layers!GetAggregateQueueDelayStats = c /\ Layers!GetAggregateRsrpStats = Layers!PhyStats(r)
  BY DEF Layers!GetAggregateQueueDelayStats, Layers!GetAggregateRsrpStats
<1>4. /\ c.count = Len(p) /\ c.min \in Nat /\ c.max \in Nat /\ c.p95 \in Nat
      /\ p = <<>> => c.min = 0 /\ c.max = 0 /\ c.p95 = 0
      /\ p # <<>> => IsIn(c.p95, p)
      /\ \A v : IsIn(v, p) => c.min <= v /\ v <= c.max
  <2> HIDE DEF p
  <2> QED
    BY <1>2, StatsOfSamples
<1>5. ASSUME NEW u \in Ue
      PROVE  /\ Layers!ComputeStats(macSamples[u]).count = Len(macSamples[u])
             /\ macSamples[u] # <<>> =>
                  /\ IsIn(Layers!ComputeStats(macSamples[u]).min, macSamples[u])
                  /\ IsIn(Layers!ComputeStats(macSamples[u]).max, macSamples[u])
  <2>1. macSamples[u] \in Seq(Nat)
    BY <1>1
  <2> QED
    BY <2>1, StatsOfSamples
<1> HIDE DEF p, c
<1>6. c.count = Layers!FoldSet(LAMBDA u, n : n + Layers!ComputeStats(macSamples[u]).count, 0, Ue)
  <2>1. [u \in Ue |-> Layers!ComputeStats(macSamples[u]).count] = Lengths(macSamples, Ue)
    BY <1>5 DEF Lengths
  <2> QED
    BY <1>2, <1>4, <2>1, SampleCountsIsSum
<1>7. \A u \in Ue : macSamples[u] # <<>> =>
        /\ c.min <= Layers!ComputeStats(macSamples[u]).min
        /\ c.max >= Layers!ComputeStats(macSamples[u]).max
  <2> SUFFICES ASSUME NEW u \in Ue, macSamples[u] # <<>>
               PROVE  /\ c.min <= Layers!ComputeStats(macSamples[u]).min
                      /\ c.max >= Layers!ComputeStats(macSamples[u]).max
    OBVIOUS
  <2> DEFINE a == Layers!ComputeStats(macSamples[u]).min
             b == Layers!ComputeStats(macSamples[u]).max
  <2>1. IsIn(a, macSamples[u]) /\ IsIn(b, macSamples[u])
    BY <1>5
  <2> HIDE DEF a, b
  <2>2. IsIn(a, p) /\ IsIn(b, p)
    BY <1>2, <2>1
  <2>3. c.min <= a /\ b <= c.max /\ b \in Nat
    BY <1>2, <1>4, <2>2, SampleSet
  <2>4. c.max >= b
    BY <1>4, <2>3
  <2> QED
    BY <2>3, <2>4 DEF a, b
<1>8. c.min <= c.p95 /\ c.p95 <= c.max
  BY <1>4
<1>9. (Layers!GetAggregateRsrpStats.variance = 0) =
        (\A a, b \in UNION {Layers!ToSet(phySamples[u]) : u \in Ue} : a = b)
  <2>1. \A u \in Ue : phySamples[u] \in Seq(Nat) /\ \A v : IsIn(v, phySamples[u]) => v \in {1, 2}
    <3> SUFFICES ASSUME NEW u \in Ue
                 PROVE  phySamples[u] \in Seq(Nat) /\ \A v : IsIn(v, phySamples[u]) => v \in {1, 2}
      OBVIOUS
    <3>1. phySamples[u] \in Seq(1..2)
      BY <1>1
    <3>2. \A i \in 1..Len(phySamples[u]) : phySamples[u][i] \in 1..2
      BY <3>1
    <3>3. phySamples[u] \in Seq(Nat)
      BY <3>1
    <3>4. \A v : v \in 1..2 => v \in {1, 2}
      OBVIOUS
    <3> QED
      BY <3>2, <3>3, <3>4 DEF IsIn
  <2>2. r \in Seq(Nat) /\ \A v : IsIn(v, r) <=> \E u \in Ue : IsIn(v, phySamples[u])
    BY <2>1, PooledIsPool DEF IsPool
  <2> HIDE DEF r
  <2>3. \A v : IsIn(v, r) => v \in {1, 2}
    BY <2>1, <2>2
  <2>4. (Layers!PhyStats(r).variance = 0) = (\A v, w : IsIn(v, r) /\ IsIn(w, r) => v = w)
    BY <2>2, <2>3, SamplesVary
  <2>5. \A u \in Ue : \A v : IsIn(v, phySamples[u]) <=> v \in Layers!ToSet(phySamples[u])
    BY <2>1, SampleSet
  <2>6. \A v : IsIn(v, r) <=> v \in UNION {Layers!ToSet(phySamples[u]) : u \in Ue}
    BY <2>2, <2>5
  <2>7. (\A v, w : IsIn(v, r) /\ IsIn(w, r) => v = w) =
          (\A a, b \in UNION {Layers!ToSet(phySamples[u]) : u \in Ue} : a = b)
    BY <2>6, Zenon
  <2> QED
    BY <1>3, <2>4, <2>7, Zenon
<1> QED
  BY <1>3, <1>6, <1>7, <1>8, <1>9, Zenon DEF Layers!PoolsAreWhole

LEMMA LayersTimesAddUp ==
  ASSUME LayersHold
  PROVE  Layers!TimesAddUp
<1> DEFINE S == Layers!RrcState
<1>1. /\ left \in Nat /\ rrcStats \in [Ue -> StateTimes] /\ firstSeen \in [Ue -> Nat]
      /\ \A u \in Ue : TimesFit(rrcStats[u], rrcState[u], firstSeen[u], now)
      /\ Transitions(rrcStats) + left <= MaxEvents
  BY DEF LayersHold, LayerTypes, TimesHold
<1>2. IsFiniteSet(S) /\ IsFiniteSet(Ue \X S)
  BY StatesFinite
<1> HIDE DEF S
<1>3. ASSUME NEW u \in Ue
      PROVE  LET t == rrcStats[u] IN
             /\ Layers!FoldSet(LAMBDA s, n : t.time[s] + n, 0, Layers!RrcState) =
                  t.last - firstSeen[u]
             /\ t.entries["RRC_INACTIVE"] - t.paging =
                  (IF rrcState[u] = "RRC_INACTIVE" THEN 1 ELSE 0)
             /\ t.time["RRC_INACTIVE"] > 0 => t.paging > 0
  <2> DEFINE t == rrcStats[u]
             n == SumOn(t.time, S)
  <2>1. /\ t.time \in [S -> Nat] /\ t.last \in Nat /\ t.paging \in Nat /\ firstSeen[u] \in Nat
        /\ t.entries \in [S -> Nat]
    BY <1>1 DEF StateTimes, S
  <2>2. TimesFit(t, rrcState[u], firstSeen[u], now)
    BY <1>1
  <2> HIDE DEF t
  <2>3. /\ n + firstSeen[u] = t.last
        /\ t.entries["RRC_INACTIVE"] = t.paging + (IF rrcState[u] = "RRC_INACTIVE" THEN 1 ELSE 0)
        /\ t.time["RRC_INACTIVE"] > 0 => t.paging > 0
    BY <2>2 DEF TimesFit, S
  <2>4. n \in Nat
    BY <1>2, <2>1, SumType
  <2>5. Layers!FoldSet(LAMBDA s, m : t.time[s] + m, 0, Layers!RrcState) = n
    <3>1. [s \in S |-> t.time[s]] = t.time
      BY <2>1
    <3>2. IsFiniteSet(Layers!RrcState) /\ \A s \in Layers!RrcState : t.time[s] \in Nat
      BY <1>2, <2>1 DEF S
    <3> QED
      BY <3>1, <3>2, TimesIsSum DEF S
  <2> HIDE DEF n
  <2>6. n = t.last - firstSeen[u]
    BY <2>1, <2>3, <2>4
  <2>7. t.entries["RRC_INACTIVE"] - t.paging = (IF rrcState[u] = "RRC_INACTIVE" THEN 1 ELSE 0)
    BY <2>1, <2>3
  <2> QED
    BY <2>3, <2>5, <2>6, <2>7 DEF t
<1>4. Layers!GetTotalTransitions <= MaxEvents
  <2>1. \A k \in Ue \X S : rrcStats[k[1]].entries[k[2]] \in Nat
    BY <1>1 DEF StateTimes, S
  <2>2. TransitionsOn(Ue \X S) = Transitions(rrcStats)
    <3> DEFINE C == Ue \X S
    <3>1. IsFiniteSet(C) /\ \A k \in C : rrcStats[k[1]].entries[k[2]] \in Nat
      BY <1>2, <2>1
    <3> HIDE DEF C
    <3>2. TransitionsOn(C) = SumOn([k \in C |-> rrcStats[k[1]].entries[k[2]]], C)
      BY <3>1, TransitionsIsSum
    <3> QED
      BY <3>2 DEF Transitions, C, S
  <2>3. Layers!GetTotalTransitions = Transitions(rrcStats)
    BY <2>2, TransitionsOfAll DEF S
  <2> DEFINE n == Transitions(rrcStats)
  <2>4. n \in Nat /\ n + left <= MaxEvents
    BY <1>1, TransitionsType
  <2> HIDE DEF n
  <2>5. n <= MaxEvents
    BY <1>1, <2>4, LayersConstants
  <2> QED
    BY <2>3, <2>5 DEF n
<1> QED
  BY <1>3, <1>4, Zenon DEF Layers!TimesAddUp

LEMMA LayersInvImplies ==
  ASSUME LayersInv
  PROVE  MeasuredOnce
BY LayersAccountsAgree, LayersRetransmissions, LayersDelaysAgree, LayersPoolsAreWhole,
   LayersTimesAddUp
DEF LayersInv, MeasuredOnce, Layers!MeasuredOnce

LEMMA LayersInitInv ==
  ASSUME TrafficInit
  PROVE  LayersInv
<1> SUFFICES ASSUME service = "layers" PROVE LayersHold
  BY DEF LayersInv
<1> DEFINE Z == Layers!EmptyAccount
           B == Layers!Drb
           T == Layers!EmptyTimes
           R == Layers!RrcState
<1>1. Layers!Init
  BY DEF TrafficInit
<1>2. /\ now = 1 /\ left = MaxEvents /\ flight = <<>>
      /\ imsi \in {<<>>} \cup {f \in [Ue -> Ue] : \A u, v \in Ue : f[u] = f[v] => u = v}
      /\ qfiStats = [k \in Ue \X Qfi |-> Z] /\ drbStats = [k \in Ue \X B |-> Z]
      /\ pdcpStats = [k \in Ue \X B |-> Z] /\ rlcStats = [k \in Ue \X B |-> Z]
      /\ phySamples = [u \in Ue |-> <<>>] /\ macSamples = [u \in Ue |-> <<>>]
      /\ e2eSamples = [u \in Ue |-> <<>>]
      /\ rrcState = [u \in Ue |-> "IDLE_RANDOM_ACCESS"] /\ rrcStats = [u \in Ue |-> T]
      /\ wasted = [k \in Ue \X B |-> 0] /\ firstSeen = [u \in Ue |-> 0]
  BY <1>1 DEF Layers!Init
<1>3. Z \in LayerAccounts /\ \A field \in AccountFieldsOf : Z[field] = 0
  BY DEF Layers!EmptyAccount, LayerAccounts, AccountFieldsOf
<1>4. KeysApart
  BY <1>2 DEF KeysApart
<1> HIDE DEF Z, B
<1>5. LayerTypes
  <2>1. flight \in Seq(FlightPdus) /\ 1..Len(flight) = {}
    BY <1>2
  <2>2. /\ phySamples \in [Ue -> Seq(1..2)] /\ macSamples \in [Ue -> Seq(Nat)]
        /\ e2eSamples \in [Ue -> Seq(Nat)]
    BY <1>2
  <2> QED
    BY <1>2, <1>3, <1>4, <2>1, <2>2, LayersConstants DEF LayerTypes, FlowTables, BearerTables, B
<1>v. ASSUME NEW field \in AccountFieldsOf
      PROVE  /\ \A k \in Ue \X Qfi : qfiStats[k][field] = 0
             /\ \A k \in Ue \X B : /\ drbStats[k][field] = 0 /\ pdcpStats[k][field] = 0
                                   /\ rlcStats[k][field] = 0
  BY <1>2, <1>3
<1>6. ASSUME NEW t, NEW field, NEW S, IsFiniteSet(S), \A k \in S : t[k][field] = 0
      PROVE  ValueSum(t, field, S) = 0
  <2> DEFINE f == ValuesOf(t, field, S)
  <2>1. \A k \in S : f[k] = 0
    BY <1>6 DEF ValuesOf
  <2> HIDE DEF f
  <2>2. SumOn(f, S) = 0
    BY <1>6, <2>1, SumZero
  <2> QED
    BY <2>2 DEF ValueSum, f
<1>7. ASSUME NEW t, NEW C, IsFiniteSet(C), \A k \in Ue \X C : t[k]["rxPdus"] = 0
      PROVE  GrandTotal(t, "rxPdus", C) = 0
  <2> DEFINE f == ColumnSums(t, "rxPdus", C)
  <2>1. ASSUME NEW c \in C PROVE f[c] = 0
    <3>1. IsFiniteSet(Ue \X {c}) /\ \A k \in Ue \X {c} : t[k]["rxPdus"] = 0
      BY <1>7, DrbFinite
    <3>2. ValueSum(t, "rxPdus", Ue \X {c}) = 0
      BY <1>6, <3>1
    <3> QED
      BY <3>2 DEF ColumnSums
  <2> HIDE DEF f
  <2>2. SumOn(f, C) = 0
    BY <1>7, <2>1, SumZero
  <2> QED
    BY <2>2 DEF GrandTotal, f
<1>8. ASSUME NEW u \in Ue, NEW d \in B PROVE KeyOf(u, d) \in Ue \X B /\ <<u, d>> \in Ue \X B
  BY <1>4, <1>8, KeysDiffer DEF B
<1>9. ASSUME NEW field \in CountFieldsOf PROVE CountsAgree(qfiStats, drbStats, pdcpStats, field)
  <2> SUFFICES ASSUME NEW u \in Ue, NEW d \in B
        PROVE  /\ ValueSum(qfiStats, field, Cells(u, d)) = drbStats[<<u, d>>][field]
               /\ drbStats[<<u, d>>][field] = pdcpStats[KeyOf(u, d)][field]
    BY DEF CountsAgree, B
  <2>1. field \in AccountFieldsOf
    BY DEF CountFieldsOf
  <2>2. IsFiniteSet(Cells(u, d)) /\ Cells(u, d) \subseteq Ue \X Qfi
    BY DrbFinite
  <2>3. ValueSum(qfiStats, field, Cells(u, d)) = 0
    <3> DEFINE S == Cells(u, d)
    <3>1. IsFiniteSet(S) /\ \A k \in S : qfiStats[k][field] = 0
      BY <1>v, <2>1, <2>2
    <3> HIDE DEF S
    <3>2. ValueSum(qfiStats, field, S) = 0
      BY <1>6, <3>1
    <3> QED
      BY <3>2 DEF S
  <2> QED
    BY <1>v, <1>8, <2>1, <2>3
<1>10. ReceivedAgree(drbStats, pdcpStats, rlcStats)
  <2>1. "rxBytes" \in AccountFieldsOf /\ "rxPdus" \in AccountFieldsOf /\ "maxDelay" \in AccountFieldsOf
    BY DEF AccountFieldsOf
  <2>2. \A k \in Ue \X B : pdcpStats[k] = Z /\ rlcStats[k] = Z /\ drbStats[k] = Z
    BY <1>2
  <2> QED
    BY <1>8, <2>2 DEF ReceivedAgree, B
<1>11. RepeatsAreWaste(rlcStats, wasted, flight)
  <2> SUFFICES ASSUME NEW u \in Ue, NEW d \in B
        PROVE  rlcStats[KeyOf(u, d)].txPdus =
                 rlcStats[KeyOf(u, d)].rxPdus + wasted[KeyOf(u, d)] + OnWay(flight, u, d)
    BY DEF RepeatsAreWaste, B
  <2>1. OnWay(flight, u, d) = 0
    <3>1. 1..Len(flight) = {}
      BY <1>2
    <3> QED
      BY <3>1, SumEmpty DEF OnWay
  <2>2. rlcStats[KeyOf(u, d)] = Z /\ wasted[KeyOf(u, d)] = 0
    BY <1>2, <1>8
  <2>3. Z.txPdus = 0 /\ Z.rxPdus = 0
    BY DEF Z, Layers!EmptyAccount
  <2> QED
    BY <2>1, <2>2, <2>3
<1>12. DelaysCounted(e2eSamples, qfiStats, drbStats)
  <2>1. SumOn(Lengths(e2eSamples, Ue), Ue) = 0
    <3> DEFINE f == Lengths(e2eSamples, Ue)
    <3>1. \A u \in Ue : f[u] = 0
      BY <1>2 DEF Lengths
    <3> HIDE DEF f
    <3>2. SumOn(f, Ue) = 0
      BY <3>1, LayersConstants, SumZero
    <3> QED
      BY <3>2 DEF f
  <2>2. "rxPdus" \in AccountFieldsOf
    BY DEF AccountFieldsOf
  <2>3. GrandTotal(qfiStats, "rxPdus", Qfi) = 0
    BY <1>v, <1>7, <2>2, LayersConstants
  <2>4. GrandTotal(drbStats, "rxPdus", B) = 0
    BY <1>v, <1>7, <2>2, DrbFinite DEF B
  <2> QED
    BY <2>1, <2>3, <2>4 DEF DelaysCounted, B
<1>13. DelaysShown(e2eSamples, qfiStats)
  <2>1. \A u \in Ue : 1..Len(e2eSamples[u]) = {}
    BY <1>2
  <2>2. \A u \in Ue, f \in Qfi : qfiStats[<<u, f>>].maxDelay = 0
    <3>1. Z.maxDelay = 0
      BY DEF Z, Layers!EmptyAccount
    <3> QED
      BY <1>2, <3>1
  <2> QED
    BY <2>1, <2>2 DEF DelaysShown, IsIn
<1>14. FlowsCounted
  BY <1>9, <1>10, <1>11, <1>12, <1>13 DEF FlowsCounted, FlowsCount
<1>15. TimesHold
  <2>1. /\ T \in StateTimes /\ T.last = 0 /\ T.paging = 0
        /\ \A s \in R : T.entries[s] = 0 /\ T.time[s] = 0
    BY DEF Layers!EmptyTimes, StateTimes
  <2>2. "IDLE_RANDOM_ACCESS" \in R /\ "RRC_INACTIVE" \in R /\ IsFiniteSet(R) /\ IsFiniteSet(Ue \X R)
    BY StatesFinite
  <2> HIDE DEF T, R
  <2>3. SumOn(T.time, R) = 0
    BY <2>1, <2>2, SumZero
  <2>4. TimesFit(T, "IDLE_RANDOM_ACCESS", 0, now)
    BY <1>2, <2>1, <2>2, <2>3 DEF TimesFit, R
  <2>5. Transitions(rrcStats) = 0
    <3> DEFINE S == Ue \X R
               f == [k \in S |-> rrcStats[k[1]].entries[k[2]]]
    <3>1. \A k \in S : f[k] = 0
      BY <1>2, <2>1
    <3>2. IsFiniteSet(S)
      BY <2>2
    <3> HIDE DEF f, S
    <3>3. SumOn(f, S) = 0
      BY <3>1, <3>2, SumZero
    <3> QED
      BY <3>3 DEF Transitions, f, S, R
  <2>6. Transitions(rrcStats) + left <= MaxEvents
    BY <1>2, <2>5, LayersConstants
  <2> QED
    BY <1>2, <2>1, <2>2, <2>4, <2>6 DEF TimesHold, R
<1> QED
  BY <1>5, <1>14, <1>15 DEF LayersHold

LEMMA LayersNextInv ==
  ASSUME LayersInv, LayerStep(Layers!Next)
  PROVE  LayersInv'
<1>1. service = "layers" /\ Layers!Next /\ service' = service
  BY DEF LayerStep
<1>2. LayersHold
  BY <1>1 DEF LayersInv
<1>3. LayersHold'
  <2>1. ASSUME NEW u \in Ue, NEW f \in Qfi, NEW size \in Size, Layers!Send(u, f, size)
        PROVE  LayersHold'
    BY <1>2, <2>1, LayersSendInv
  <2>2. ASSUME NEW u \in Ue, NEW x \in 1..2, Layers!OnRsrp(u, x) \/ Layers!OnQueueDelay(u, x)
        PROVE  LayersHold'
    BY <1>2, <2>2, LayersSampleInv
  <2>3. ASSUME NEW u \in Ue, Layers!OnStateTransition(u) PROVE LayersHold'
    BY <1>2, <2>3, LayersTransitionInv
  <2>4. ASSUME NEW i \in DOMAIN flight, Layers!Receive(i) PROVE LayersHold'
    BY <1>2, <2>4, LayersReceiveInv
  <2>5. ASSUME NEW i \in DOMAIN flight, Layers!Lose(i) PROVE LayersHold'
    BY <1>2, <2>5, LayersLoseInv
  <2>6. ASSUME NEW i \in DOMAIN flight, Layers!Retransmit(i) PROVE LayersHold'
    BY <1>2, <2>6, LayersRetransmitInv
  <2>7. CASE Layers!Elapse
    BY <1>2, <2>7, LayersElapseInv
  <2> QED
    BY <1>1, <2>1, <2>2, <2>3, <2>4, <2>5, <2>6, <2>7, Zenon DEF Layers!Next
<1> QED
  BY <1>3 DEF LayersInv

(* Where nothing changes.                                                  *)
LEMMA LayersStandStill ==
  ASSUME LayersInv, UNCHANGED allVars
  PROVE  LayersInv'
<1>1. /\ service' = service /\ now' = now /\ left' = left /\ imsi' = imsi /\ flight' = flight
      /\ qfiStats' = qfiStats /\ drbStats' = drbStats /\ pdcpStats' = pdcpStats
      /\ rlcStats' = rlcStats /\ e2eSamples' = e2eSamples /\ wasted' = wasted
      /\ phySamples' = phySamples /\ macSamples' = macSamples
      /\ rrcState' = rrcState /\ rrcStats' = rrcStats /\ firstSeen' = firstSeen
  BY DEF allVars, statsVars, clockVars, layerVars
<1> SUFFICES ASSUME LayersHold PROVE LayersHold'
  BY <1>1 DEF LayersInv
<1>2. LayerTypes /\ FlowsCounted /\ TimesHold
  BY DEF LayersHold
<1>3. FlowsCounted'
  BY <1>1, <1>2, FlowsCountedNext DEF FlowsCounted
<1>4. LayerTypes'
  BY <1>1, <1>2, KeysStay DEF LayerTypes
<1>5. TimesHold'
  BY <1>1, <1>2, FewerEvents DEF LayerTypes
<1> QED
  BY <1>3, <1>4, <1>5 DEF LayersHold

(* The collectors of SDAP, PDCP and RLC count the same bytes, PDUs and      *)
(* delays of every bearer of every UE, what RLC counts twice is what was   *)
(* repeated or lost, the samples of all UEs are those of each, and the     *)
(* time in the states of RRC adds up.                                      *)
THEOREM MeasuredOnceCorrect == TrafficSpec => []MeasuredOnce
<1>1. TrafficInit => LayersInv
  BY LayersInitInv
<1>2. LayersInv /\ [TrafficNext]_allVars => LayersInv'
  <2> SUFFICES ASSUME LayersInv, [TrafficNext]_allVars PROVE LayersInv'
    OBVIOUS
  <2>1. CASE UNCHANGED allVars
    BY <2>1, LayersStandStill
  <2>2. CASE LayerStep(Layers!Next)
    BY <2>2, LayersNextInv
  <2>3. CASE \/ FtpStep(Ftp!Next) \/ UdpStep(UdpLegs!Next) \/ HttpStep(Http!Next)
             \/ RateStep(Rates!Next) \/ AccountStep(Accounts!Next)
    <3>1. service # "layers" /\ service' = service
      BY <2>3 DEF FtpStep, UdpStep, HttpStep, RateStep, AccountStep
    <3> QED
      BY <3>1 DEF LayersInv
  <2> QED
    BY <2>1, <2>2, <2>3 DEF TrafficNext
<1>3. LayersInv => MeasuredOnce
  BY LayersInvImplies
<1> QED
  BY <1>1, <1>2, <1>3, PTL DEF TrafficSpec
=============================================================================
