---------------------------------- MODULE Sums ----------------------------------
(***************************************************************************)
(* What SumFunction of the community modules computes, for every function  *)
(* from a finite set to the integers: how it changes with one value, and   *)
(* what a constant function adds up to.  That no money is made or lost in  *)
(* LaborEscrow and in Marketplace rests on these facts.                    *)
(*                                                                         *)
(* SumFunction folds a recursive function over the subsets of the domain.  *)
(* Induction is by minimal counterexample: the strict subset order on      *)
(* finite sets is well founded.                                            *)
(***************************************************************************)
EXTENDS Integers, Functions, FiniteSetTheorems, TLAPS

\* A nonempty set of finite sets has a minimal element.
LEMMA MinimalSet ==
    ASSUME NEW S, IsFiniteSet(S), NEW F \in SUBSET SUBSET S, F # {}
    PROVE  \E A \in F : \A B \in F : B \subseteq A => B = A
<1> DEFINE R == StrictSubsetOrdering(S)
<1>1. IsWellFoundedOn(R, FiniteSubsetsOf(S))
  BY FS_StrictSubsetOrderingWellFounded
<1>2. F \subseteq FiniteSubsetsOf(S)
  BY FS_FiniteSubsetsOfFinite
<1>3. \A A, B \in F : B \subseteq A /\ B # A => <<B, A>> \in R
  BY DEF StrictSubsetOrdering
<1> HIDE DEF R
<1>4. \E A \in F : \A B \in F : ~ (<<B, A>> \in R)
  BY <1>1, <1>2, WFMin
<1> QED
  BY <1>3, <1>4

Pick(A) == CHOOSE x \in A : TRUE

\* The equation of the recursive function in MapThenFoldSet.
Solves(g, f, S) ==
    g = [A \in SUBSET S |-> IF A = {} THEN 0 ELSE f[Pick(A)] + g[A \ {Pick(A)}]]
Partial(f, S) == CHOOSE g : Solves(g, f, S)

LEMMA SumIsPartial ==
    ASSUME NEW f
    PROVE  SumFunction(f) = Partial(f, DOMAIN f)[DOMAIN f]
BY DEF SumFunction, SumFunctionOnSet, FoldFunction, FoldFunctionOnSet, MapThenFoldSet,
       Partial, Solves, Pick

LEMMA SolvesAtNone ==
    ASSUME NEW f, NEW S, NEW g, Solves(g, f, S)
    PROVE  g[{}] = 0
BY DEF Solves

LEMMA SolvesAtSome ==
    ASSUME NEW f, NEW S, NEW g, Solves(g, f, S), NEW A \in SUBSET S, A # {}
    PROVE  /\ Pick(A) \in A
           /\ A \ {Pick(A)} \in SUBSET S /\ A \ {Pick(A)} # A
           /\ g[A] = f[Pick(A)] + g[A \ {Pick(A)}]
<1>1. g[A] = f[Pick(A)] + g[A \ {Pick(A)}]
  BY DEF Solves
<1>2. Pick(A) \in A
  BY DEF Pick
<1> QED
  BY <1>1, <1>2

\* Two solutions, on a set and on a part of it, agree on that part.
LEMMA PartialUnique ==
    ASSUME NEW f, NEW S, IsFiniteSet(S), NEW T \in SUBSET S,
           NEW g, Solves(g, f, S), NEW h, Solves(h, f, T)
    PROVE  g[T] = h[T]
<1> DEFINE F == {A \in SUBSET T : g[A] # h[A]}
<1>1. SUFFICES ASSUME F # {} PROVE FALSE
  OBVIOUS
<1>2. IsFiniteSet(T)
  BY FS_Subset
<1>3. PICK A \in F : \A B \in F : B \subseteq A => B = A
  <2>1. F \in SUBSET SUBSET T
    OBVIOUS
  <2> HIDE DEF F
  <2> QED
    BY <1>1, <1>2, <2>1, MinimalSet
<1>4. A \in SUBSET T /\ A \in SUBSET S /\ g[A] # h[A]
  BY <1>3
<1>5. A # {}
  BY <1>4, SolvesAtNone
<1>6. /\ g[A] = f[Pick(A)] + g[A \ {Pick(A)}]
      /\ h[A] = f[Pick(A)] + h[A \ {Pick(A)}]
      /\ A \ {Pick(A)} \in SUBSET T /\ A \ {Pick(A)} # A
  <2>1. g[A] = f[Pick(A)] + g[A \ {Pick(A)}]
    BY <1>4, <1>5, SolvesAtSome
  <2>2. /\ h[A] = f[Pick(A)] + h[A \ {Pick(A)}]
        /\ A \ {Pick(A)} \in SUBSET T /\ A \ {Pick(A)} # A
    BY <1>4, <1>5, SolvesAtSome
  <2> QED
    BY <2>1, <2>2
<1>7. g[A \ {Pick(A)}] = h[A \ {Pick(A)}]
  BY <1>3, <1>6
<1> QED
  BY <1>4, <1>6, <1>7

LEMMA PartialExists ==
    ASSUME NEW f, NEW S, IsFiniteSet(S)
    PROVE  Solves(Partial(f, S), f, S)
<1> DEFINE F == {A \in SUBSET S : ~ \E g : Solves(g, f, A)}
<1>1. SUFFICES ASSUME F # {} PROVE FALSE
  <2>1. F = {} => \E g : Solves(g, f, S)
    OBVIOUS
  <2> QED
    BY <2>1 DEF Partial
<1>2. PICK A \in F : \A B \in F : B \subseteq A => B = A
  <2>1. F \in SUBSET SUBSET S
    OBVIOUS
  <2> HIDE DEF F
  <2> QED
    BY <1>1, <2>1, MinimalSet
<1>3. \A B \in SUBSET A : B # A => Solves(Partial(f, B), f, B)
  BY <1>2 DEF Partial
<1>4. \A B \in SUBSET A : IsFiniteSet(B)
  BY <1>2, FS_Subset
<1> DEFINE Rest(B) == B \ {Pick(B)}
           Value(B) == IF B = {} THEN 0 ELSE f[Pick(B)] + Partial(f, Rest(B))[Rest(B)]
           g == [B \in SUBSET A |-> Value(B)]
<1>5. ASSUME NEW B \in SUBSET A, B # A PROVE Partial(f, B)[B] = Value(B)
  <2> DEFINE h == Partial(f, B)
  <2>1. Solves(h, f, B)
    BY <1>3, <1>5
  <2>2. CASE B = {}
    <3>1. h[B] = 0
      BY <2>1, <2>2, SolvesAtNone
    <3> QED
      BY <2>2, <3>1
  <2>3. CASE B # {}
    <3>1. /\ h[B] = f[Pick(B)] + h[Rest(B)]
          /\ Rest(B) \in SUBSET B /\ Rest(B) # A
      BY <2>1, <2>3, <1>5, SolvesAtSome
    <3>2. h[Rest(B)] = Partial(f, Rest(B))[Rest(B)]
      BY <2>1, <3>1, <1>3, <1>4, PartialUnique
    <3> QED
      BY <2>3, <3>1, <3>2
  <2> QED
    BY <2>2, <2>3
<1>6. \A B \in SUBSET A : B # {} => Rest(B) \in SUBSET A /\ Rest(B) # A
  BY DEF Pick
<1>7. \A B \in SUBSET A : B # {} => g[Rest(B)] = Partial(f, Rest(B))[Rest(B)]
  BY <1>5, <1>6
<1>8. Solves(g, f, A)
  BY <1>7 DEF Solves
<1> QED
  BY <1>2, <1>8

-----------------------------------------------------------------------------
(* The facts to cite. *)

\* Every partial sum of integers is an integer.
LEMMA SumIsInt ==
    ASSUME NEW S, IsFiniteSet(S), NEW f \in [S -> Int]
    PROVE  \A A \in SUBSET S : Partial(f, S)[A] \in Int
<1> DEFINE g == Partial(f, S)
           F == {A \in SUBSET S : g[A] \notin Int}
<1>1. SUFFICES ASSUME F # {} PROVE FALSE
  OBVIOUS
<1>2. Solves(g, f, S)
  BY PartialExists
<1> HIDE DEF g
<1>3. PICK A \in F : \A B \in F : B \subseteq A => B = A
  <2>1. F \in SUBSET SUBSET S
    OBVIOUS
  <2> HIDE DEF F
  <2> QED
    BY <1>1, <2>1, MinimalSet
<1>4. A # {}
  <2>1. g[A] \notin Int
    BY <1>3
  <2>2. g[{}] = 0
    BY <1>2, SolvesAtNone
  <2> QED
    BY <2>1, <2>2
<1>5. /\ Pick(A) \in S
      /\ A \ {Pick(A)} \in SUBSET A /\ A \ {Pick(A)} # A
      /\ g[A] = f[Pick(A)] + g[A \ {Pick(A)}]
  BY <1>2, <1>3, <1>4, SolvesAtSome
<1>6. g[A \ {Pick(A)}] \in Int
  BY <1>3, <1>5
<1> QED
  BY <1>3, <1>5, <1>6

\* Two functions that differ at one element have sums that differ by as much.
THEOREM SumChange ==
    ASSUME NEW S, IsFiniteSet(S), NEW f \in [S -> Int], NEW g \in [S -> Int],
           NEW x \in S, \A y \in S \ {x} : g[y] = f[y]
    PROVE  SumFunction(g) = SumFunction(f) + g[x] - f[x]
<1> DEFINE p == Partial(f, S)
           q == Partial(g, S)
           Change(A) == IF x \in A THEN g[x] - f[x] ELSE 0
           F == {A \in SUBSET S : q[A] # p[A] + Change(A)}
<1>1. Solves(p, f, S) /\ Solves(q, g, S)
  BY PartialExists
<1>2. \A A \in SUBSET S : p[A] \in Int /\ q[A] \in Int
  BY SumIsInt
<1> HIDE DEF p, q
<1>3. ASSUME F # {} PROVE FALSE
  <2>1. PICK A \in F : \A B \in F : B \subseteq A => B = A
    <3>1. F \in SUBSET SUBSET S
      OBVIOUS
    <3> HIDE DEF F
    <3> QED
      BY <1>3, <3>1, MinimalSet
  <2>2. A # {}
    <3>1. p[{}] = 0 /\ q[{}] = 0
      BY <1>1, SolvesAtNone
    <3>2. q[A] # p[A] + Change(A)
      BY <2>1
    <3>3. q[{}] = p[{}] + Change({})
      BY <3>1
    <3> HIDE DEF Change
    <3> QED
      BY <3>2, <3>3
  <2> DEFINE y == Pick(A)
             B == A \ {y}
  <2>3. /\ y \in A /\ B \in SUBSET S /\ B # A
        /\ p[A] = f[y] + p[B] /\ q[A] = g[y] + q[B]
    BY <1>1, <2>1, <2>2, SolvesAtSome
  <2>4. q[B] = p[B] + Change(B)
    BY <2>1, <2>3
  <2>5. f[x] \in Int /\ g[x] \in Int /\ f[y] \in Int /\ p[B] \in Int
    BY <1>2, <2>1, <2>3
  <2>6. CASE y = x
    <3>1. Change(B) = 0 /\ Change(A) = g[x] - f[x]
      BY <2>3, <2>6
    <3> QED
      BY <2>1, <2>3, <2>4, <2>5, <2>6, <3>1
  <2>7. CASE y # x
    <3>1. Change(B) = Change(A) /\ g[y] = f[y] /\ Change(A) \in Int
      BY <2>1, <2>3, <2>5, <2>7
    <3> QED
      BY <2>1, <2>3, <2>4, <2>5, <3>1
  <2> QED
    BY <2>6, <2>7
<1>4. q[S] = p[S] + (g[x] - f[x])
  <2>1. S \notin F
    BY <1>3
  <2> QED
    BY <2>1
<1>5. q[S] = p[S] + g[x] - f[x]
  BY <1>2, <1>4
<1>6. SumFunction(f) = p[S] /\ SumFunction(g) = q[S]
  BY SumIsPartial DEF p, q
<1> QED
  BY <1>5, <1>6

\* A function that is c everywhere adds up to c times the size of its domain.
THEOREM SumConstant ==
    ASSUME NEW S, IsFiniteSet(S), NEW c \in Int, NEW f \in [S -> Int], \A x \in S : f[x] = c
    PROVE  SumFunction(f) = c * Cardinality(S)
<1> DEFINE p == Partial(f, S)
           F == {A \in SUBSET S : p[A] # c * Cardinality(A)}
<1>1. Solves(p, f, S)
  BY PartialExists
<1> HIDE DEF p
<1>2. ASSUME F # {} PROVE FALSE
  <2>1. PICK A \in F : \A B \in F : B \subseteq A => B = A
    <3>1. F \in SUBSET SUBSET S
      OBVIOUS
    <3> HIDE DEF F
    <3> QED
      BY <1>2, <3>1, MinimalSet
  <2>2. A # {}
    <3>1. p[{}] = 0
      BY <1>1, SolvesAtNone
    <3>2. c * Cardinality({}) = 0
      BY FS_EmptySet
    <3>3. p[A] # c * Cardinality(A)
      BY <2>1
    <3> QED
      BY <3>1, <3>2, <3>3
  <2> DEFINE y == Pick(A)
             B == A \ {y}
  <2>3. /\ y \in A /\ y \in S /\ B \in SUBSET A /\ B # A
        /\ p[A] = f[y] + p[B]
    BY <1>1, <2>1, <2>2, SolvesAtSome
  <2>4. p[B] = c * Cardinality(B) /\ f[y] = c
    BY <2>1, <2>3
  <2>5. PICK n \in Nat : n = Cardinality(B) /\ Cardinality(A) = n + 1
    <3>1. IsFiniteSet(A) /\ IsFiniteSet(B)
      BY <2>1, <2>3, FS_Subset
    <3>2. Cardinality(B) \in Nat
      BY <3>1, FS_CardinalityType
    <3>3. A = B \cup {y} /\ y \notin B
      BY <2>3
    <3>4. Cardinality(A) = Cardinality(B) + 1
      <4> HIDE DEF y, B
      <4> QED BY <3>1, <3>3, FS_AddElement
    <3> QED
      BY <3>2, <3>4
  <2>6. p[A] = c + c * n
    BY <2>3, <2>4, <2>5
  <2>7. c + c * n = c * (n + 1)
    BY <2>5, SMT
  <2>8. p[A] # c * (n + 1)
    BY <2>1, <2>5
  <2> QED
    BY <2>6, <2>7, <2>8
<1>3. p[S] = c * Cardinality(S)
  BY <1>2
<1> QED
  BY <1>3, SumIsPartial DEF p

\* Such a sum is an integer.
LEMMA SumInInt ==
    ASSUME NEW S, IsFiniteSet(S), NEW f \in [S -> Int]
    PROVE  SumFunction(f) \in Int
BY SumIsInt, SumIsPartial

\* In particular a function that is 0 everywhere adds up to 0.
THEOREM SumZero ==
    ASSUME NEW S, IsFiniteSet(S), NEW f \in [S -> Int], \A x \in S : f[x] = 0
    PROVE  SumFunction(f) = 0
<1>1. SumFunction(f) = 0 * Cardinality(S)
  BY SumConstant
<1>2. Cardinality(S) \in Nat
  BY FS_CardinalityType
<1> QED
  BY <1>1, <1>2
=================================================================================
