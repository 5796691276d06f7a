-------------------------------- MODULE Sums -------------------------------
(***************************************************************************)
(* What a sum over a finite set is, for the modules that add up balances,  *)
(* fees and transfers: the community modules define it by recursion over   *)
(* the subsets, and the facts needed of it follow by induction on sets.    *)
(***************************************************************************)
EXTENDS Integers, Functions, FiniteSetsExt, FiniteSetTheorems, TLAPS

-----------------------------------------------------------------------------
(* Induction, as facts about sets of naturals and sets of subsets. *)

\* Every non-empty set of naturals has a least member.
LEMMA NatMinimum ==
    ASSUME NEW T, T \subseteq Nat, T # {}
    PROVE  \E x \in T : \A y \in T : x <= y
<1> DEFINE R == OpToRel(<, Nat)
<1>1. IsWellFoundedOn(R, Nat)
  BY NatLessThanWellFounded
<1>2. \A x, y \in Nat : <<y, x>> \in R <=> y < x
  BY DEF OpToRel
<1> HIDE DEF R
<1>3. PICK x \in T : \A y \in T : <<y, x>> \notin R
  BY <1>1, WFMin
<1>4. ASSUME NEW y \in T PROVE x <= y
  <2>1. x \in Nat /\ y \in Nat /\ ~ (y < x)
    BY <1>2, <1>3
  <2>2. QED
    BY <2>1
<1>5. QED
  BY <1>4

\* Counting up from zero reaches every natural.
LEMMA Counting ==
    ASSUME NEW T, 0 \in T, \A n \in Nat : n \in T => n + 1 \in T
    PROVE  Nat \subseteq T
<1> SUFFICES ASSUME Nat \ T # {} PROVE FALSE
  OBVIOUS
<1>1. PICK x \in Nat \ T : \A y \in Nat \ T : x <= y
  BY NatMinimum
<1>2. x # 0 /\ x - 1 \in Nat
  BY <1>1
<1>3. x - 1 \in T
  BY <1>1, <1>2
<1>4. QED
  BY <1>1, <1>2, <1>3

\* Min of a non-empty set of naturals is its least member.
LEMMA NatMin ==
    ASSUME NEW T, T \subseteq Nat, T # {}
    PROVE  Min(T) \in T /\ \A y \in T : Min(T) <= y
<1>1. \E x \in T : \A y \in T : x <= y
  BY NatMinimum
<1>2. QED
  BY <1>1 DEF Min

\* A set of integers with a bound has a greatest element, and Max is it.
LEMMA IntMaximum ==
    ASSUME NEW T, T \subseteq Int, T # {}, NEW b \in Int, \A x \in T : x <= b
    PROVE  Max(T) \in T /\ \A y \in T : y <= Max(T)
<1> DEFINE Below == {b - x : x \in T}
<1>1. Below \subseteq Nat /\ Below # {} /\ \A x \in T : b - x \in Below
  <2>1. \A x \in T : b - x \in Nat
    OBVIOUS
  <2>2. \A x \in T : b - x \in Below
    OBVIOUS
  <2>3. QED
    BY <2>1, <2>2, Zenon
<1>2. \A z \in Below : \E x \in T : z = b - x
  OBVIOUS
<1> HIDE DEF Below
<1>3. PICK z \in Below : \A y \in Below : z <= y
  BY <1>1, NatMinimum
<1>4. PICK m \in T : z = b - m
  BY <1>2, <1>3
<1>5. ASSUME NEW y \in T PROVE m >= y
  <2>1. b - m <= b - y
    BY <1>1, <1>3, <1>4
  <2>2. m \in Int /\ y \in Int
    BY <1>5
  <2>3. QED
    BY <2>1, <2>2
<1>6. Max(T) \in T /\ \A y \in T : Max(T) >= y
  BY <1>5 DEF Max
<1>7. \A y \in T : y \in Int
  OBVIOUS
<1>8. QED
  BY <1>6, <1>7

\* The first n values of a function of integers have a bound.
LEMMA FirstOnesBounded ==
    ASSUME NEW n \in Nat, NEW f, \A i \in 1 .. n : f[i] \in Int
    PROVE  \E b \in Int : \A i \in 1 .. n : f[i] <= b
<1> DEFINE Bounded(j) == \E b \in Int : \A i \in 1 .. j : f[i] <= b
           T == {j \in Nat : j <= n => Bounded(j)}
<1>1. 0 \in T
  OBVIOUS
<1>2. ASSUME NEW j \in Nat, j \in T PROVE j + 1 \in T
  <2>1. SUFFICES ASSUME j + 1 <= n PROVE Bounded(j + 1)
    OBVIOUS
  <2>2. PICK b \in Int : \A i \in 1 .. j : f[i] <= b
    BY <1>2, <2>1
  <2>3. PICK d \in Int : b <= d /\ f[j + 1] <= d
    <3>1. f[j + 1] \in Int
      BY <2>1
    <3>2. CASE b <= f[j + 1]
      BY <3>1, <3>2
    <3>3. CASE f[j + 1] <= b
      BY <3>1, <3>3
    <3>4. QED
      BY <3>1, <3>2, <3>3
  <2>4. ASSUME NEW i \in 1 .. j + 1 PROVE f[i] <= d
    <3>1. f[i] \in Int
      BY <2>1, <2>4
    <3>2. CASE i = j + 1
      BY <2>3, <3>2
    <3>3. CASE i # j + 1
      <4>1. i \in 1 .. j
        BY <2>4, <3>3
      <4>2. f[i] <= b
        BY <2>2, <4>1
      <4>3. QED
        BY <2>3, <3>1, <4>2
    <3>4. QED
      BY <3>2, <3>3
  <2>5. QED
    BY <2>4
<1> HIDE DEF T
<1>3. n \in T
  BY <1>1, <1>2, Counting
<1>4. QED
  BY <1>3 DEF T

\* What holds of a set once it holds of its proper subsets holds of every
\* subset of a finite set.
LEMMA SubsetInduction ==
    ASSUME NEW S, IsFiniteSet(S), NEW T,
           \A s \in SUBSET S :
              (\A u \in SUBSET s : u # s => u \in T) => s \in T
    PROVE  SUBSET S \subseteq T
<1> DEFINE R == StrictSubsetOrdering(S)
           B == (SUBSET S) \ T
<1>1. SUFFICES ASSUME B # {} PROVE FALSE
  OBVIOUS
<1>2. IsWellFoundedOn(R, SUBSET S)
  BY FS_StrictSubsetOrderingWellFounded, FS_FiniteSubsetsOfFinite
<1>3. \A s, u \in SUBSET S : u \subseteq s /\ u # s => <<u, s>> \in R
  BY DEF StrictSubsetOrdering
<1>4. B \subseteq SUBSET S /\ \A s \in SUBSET S : s \notin B => s \in T
  OBVIOUS
<1>5. \A s \in B : s \notin T
  OBVIOUS
<1> HIDE DEF R, B
<1>6. PICK s \in B : \A u \in B : ~ (<<u, s>> \in R)
  BY <1>1, <1>2, <1>4, WFMin
<1>7. ASSUME NEW u \in SUBSET s, u # s PROVE u \in T
  <2>1. u \in SUBSET S /\ s \in SUBSET S
    BY <1>4, <1>6, <1>7
  <2>2. u \notin B
    BY <1>3, <1>6, <1>7, <2>1
  <2>3. QED
    BY <1>4, <2>1, <2>2
<1>8. QED
  BY <1>4, <1>5, <1>6, <1>7

-----------------------------------------------------------------------------
(* The recursion. *)

Chosen(s) == CHOOSE x \in s : TRUE

\* it adds up f over the subsets of S, taking out the chosen element first.
Adds(it, f, S) ==
    it = [s \in SUBSET S |-> IF s = {} THEN 0
                             ELSE f[Chosen(s)] + it[s \ {Chosen(s)}]]

Adder(f, S) == CHOOSE it : Adds(it, f, S)

\* A sum is the last value of its own recursion over subsets.
LEMMA SumIsAdder ==
    ASSUME NEW f, NEW S
    PROVE  SumFunctionOnSet(f, S) = Adder(f, S)[S]
  BY DEF SumFunctionOnSet, FoldFunctionOnSet, MapThenFoldSet, Adder, Adds, Chosen

\* There is such a function: it is built for the subsets of at most n elements,
\* n by n.
LEMMA AdderExists ==
    ASSUME NEW S, IsFiniteSet(S), NEW f
    PROVE  \E it : Adds(it, f, S)
<1> DEFINE Small(n) == {s \in SUBSET S : Cardinality(s) <= n}
           Value(g, s) == IF s = {} THEN 0 ELSE f[Chosen(s)] + g[s \ {Chosen(s)}]
           Built(n) == \E g : g = [s \in Small(n) |-> Value(g, s)]
           T == {n \in Nat : Built(n)}
<1>1. \A s \in SUBSET S : Cardinality(s) \in Nat /\ Cardinality(s) <= Cardinality(S)
  BY FS_Subset, FS_CardinalityType
<1>2. \A n \in Nat : \A s \in Small(n + 1) : s # {} => s \ {Chosen(s)} \in Small(n)
  <2>1. SUFFICES ASSUME NEW n \in Nat, NEW s \in Small(n + 1), s # {}
                 PROVE  s \ {Chosen(s)} \in Small(n)
    OBVIOUS
  <2>2. Chosen(s) \in s /\ IsFiniteSet(s)
    BY <2>1, FS_Subset DEF Chosen
  <2>3. Cardinality(s \ {Chosen(s)}) = Cardinality(s) - 1
    BY <2>2, FS_RemoveElement
  <2>4. QED
    BY <1>1, <2>1, <2>3
<1>3. Built(0)
  <2> DEFINE g == [s \in Small(0) |-> 0]
  <2>1. \A s \in Small(0) : s = {}
    <3>1. SUFFICES ASSUME NEW s \in Small(0) PROVE s = {}
      OBVIOUS
    <3>2. IsFiniteSet(s) /\ Cardinality(s) = 0
      BY <1>1, FS_Subset
    <3>3. QED
      BY <3>2, FS_EmptySet
  <2>2. g = [s \in Small(0) |-> Value(g, s)]
    BY <2>1
  <2>3. QED
    BY <2>2
<1>4. ASSUME NEW n \in Nat, Built(n) PROVE Built(n + 1)
  <2>1. PICK g : g = [s \in Small(n) |-> Value(g, s)]
    BY <1>4
  <2> DEFINE h == [s \in Small(n + 1) |-> Value(g, s)]
  <2>2. \A u \in Small(n) : u \in Small(n + 1)
    BY <1>1
  <2>3. \A u \in Small(n) : h[u] = g[u]
    BY <2>1, <2>2
  <2>4. \A s \in Small(n + 1) : Value(g, s) = Value(h, s)
    BY <1>2, <2>3
  <2>5. h = [s \in Small(n + 1) |-> Value(h, s)]
    BY <2>4
  <2>6. QED
    BY <2>5
<1>5. Small(Cardinality(S)) = SUBSET S
  BY <1>1
<1>6. Built(Cardinality(S))
  <2> HIDE DEF Built
  <2>1. 0 \in T /\ \A n \in Nat : n \in T => n + 1 \in T
    BY <1>3, <1>4
  <2> HIDE DEF T
  <2>2. Nat \subseteq T
    BY <2>1, Counting
  <2>3. QED
    BY <2>2, FS_CardinalityType DEF T
<1>7. QED
  BY <1>5, <1>6 DEF Adds

\* That recursion takes one chosen member at a time.
LEMMA AdderUnfolds ==
    ASSUME NEW S, IsFiniteSet(S), NEW f, NEW s \in SUBSET S
    PROVE  Adder(f, S)[s] = IF s = {} THEN 0
                            ELSE f[Chosen(s)] + Adder(f, S)[s \ {Chosen(s)}]
<1> DEFINE it == Adder(f, S)
<1>1. Adds(it, f, S)
  BY AdderExists DEF Adder
<1>2. it = [u \in SUBSET S |-> IF u = {} THEN 0
                               ELSE f[Chosen(u)] + it[u \ {Chosen(u)}]]
  BY <1>1 DEF Adds
<1> HIDE DEF it
<1>3. QED
  BY <1>2 DEF it

\* The chosen member is a member.
LEMMA ChosenIn ==
    ASSUME NEW s, s # {}
    PROVE  Chosen(s) \in s
  BY DEF Chosen

\* A partial sum of naturals is a natural, of integers an integer.
LEMMA AdderTyped ==
    ASSUME NEW S, IsFiniteSet(S), NEW f, NEW V, V \in {Nat, Int},
           \A x \in S : f[x] \in V
    PROVE  \A s \in SUBSET S : Adder(f, S)[s] \in V
<1> DEFINE T == {s \in SUBSET S : Adder(f, S)[s] \in V}
<1>1. ASSUME NEW s \in SUBSET S, \A u \in SUBSET s : u # s => u \in T
      PROVE  Adder(f, S)[s] \in V
  <2>1. CASE s = {}
    <3>1. Adder(f, S)[s] = 0
      BY <2>1, AdderUnfolds
    <3>2. 0 \in V
      OBVIOUS
    <3>3. QED
      BY <3>1, <3>2
  <2>2. CASE s # {}
    <3> DEFINE x == Chosen(s)
    <3>1. x \in s /\ f[x] \in V
      BY <2>2, ChosenIn
    <3>2. s \ {x} \in SUBSET s /\ s \ {x} # s
      BY <3>1
    <3>3. Adder(f, S)[s \ {x}] \in V
      BY <1>1, <3>2
    <3>4. Adder(f, S)[s] = f[x] + Adder(f, S)[s \ {x}]
      BY <2>2, AdderUnfolds
    <3> HIDE DEF x
    <3>5. QED
      BY <3>1, <3>3, <3>4
  <2>3. QED
    BY <2>1, <2>2
<1>2. \A s \in SUBSET S : (\A u \in SUBSET s : u # s => u \in T) => s \in T
  BY <1>1
<1> HIDE DEF T
<1>3. SUBSET S \subseteq T
  BY <1>2, SubsetInduction
<1>4. QED
  BY <1>3 DEF T

\* The order does not matter: any element may be taken out first.
LEMMA AdderTakes ==
    ASSUME NEW S, IsFiniteSet(S), NEW f, \A x \in S : f[x] \in Int
    PROVE  \A s \in SUBSET S : \A x \in s :
              Adder(f, S)[s] = f[x] + Adder(f, S)[s \ {x}]
<1> DEFINE it == Adder(f, S)
           Takes(s) == \A x \in s : it[s] = f[x] + it[s \ {x}]
           T == {s \in SUBSET S : Takes(s)}
<1>1. \A s \in SUBSET S : it[s] \in Int
  BY AdderTyped
<1>2. \A s \in SUBSET S : s # {} =>
         Chosen(s) \in s /\ it[s] = f[Chosen(s)] + it[s \ {Chosen(s)}]
  BY AdderUnfolds, ChosenIn
<1> HIDE DEF it
<1>3. ASSUME NEW s \in SUBSET S, \A u \in SUBSET s : u # s => Takes(u)
      PROVE  Takes(s)
  <2> SUFFICES ASSUME NEW x \in s PROVE it[s] = f[x] + it[s \ {x}]
    OBVIOUS
  <2> DEFINE p == Chosen(s)
  <2>1. p \in s /\ it[s] = f[p] + it[s \ {p}]
    BY <1>2
  <2> HIDE DEF p
  <2>2. CASE x = p
    BY <2>1, <2>2
  <2>3. CASE x # p
    <3>1. it[s \ {p}] = f[x] + it[(s \ {p}) \ {x}]
      <4>1. s \ {p} \in SUBSET s /\ s \ {p} # s /\ x \in s \ {p}
        BY <2>1, <2>3
      <4>2. Takes(s \ {p})
        BY <1>3, <4>1
      <4>3. QED
        BY <4>1, <4>2
    <3>2. it[s \ {x}] = f[p] + it[(s \ {x}) \ {p}]
      <4>1. s \ {x} \in SUBSET s /\ s \ {x} # s /\ p \in s \ {x}
        BY <2>1, <2>3
      <4>2. Takes(s \ {x})
        BY <1>3, <4>1
      <4>3. QED
        BY <4>1, <4>2
    <3> DEFINE both == it[(s \ {p}) \ {x}]
    <3>3. it[s \ {x}] = f[p] + both
      <4>1. (s \ {x}) \ {p} = (s \ {p}) \ {x}
        OBVIOUS
      <4>2. QED
        BY <3>2, <4>1
    <3>4. /\ f[x] \in Int /\ f[p] \in Int /\ both \in Int
      BY <1>1, <2>1
    <3>5. it[s] = f[p] + (f[x] + both)
      BY <2>1, <3>1
    <3> HIDE DEF both
    <3>6. f[p] + (f[x] + both) = f[x] + (f[p] + both)
      BY <3>4
    <3>7. QED
      BY <3>3, <3>5, <3>6
  <2>4. QED
    BY <2>2, <2>3
<1>4. \A s \in SUBSET S : (\A u \in SUBSET s : u # s => u \in T) => s \in T
  <2> SUFFICES ASSUME NEW s \in SUBSET S, \A u \in SUBSET s : u # s => u \in T
               PROVE  s \in T
    OBVIOUS
  <2> HIDE DEF Takes
  <2>1. \A u \in SUBSET s : u # s => Takes(u)
    OBVIOUS
  <2>2. QED
    BY <1>3, <2>1
<1> HIDE DEF T
<1>5. SUBSET S \subseteq T
  BY <1>4, SubsetInduction
<1>6. QED
  BY <1>5 DEF T, it

\* Only the values added up matter.
LEMMA AdderAgrees ==
    ASSUME NEW S, IsFiniteSet(S), NEW R, IsFiniteSet(R), NEW f, NEW g,
           S \subseteq R, \A x \in S : f[x] = g[x]
    PROVE  \A s \in SUBSET S : Adder(f, S)[s] = Adder(g, R)[s]
<1> DEFINE T == {s \in SUBSET S : Adder(f, S)[s] = Adder(g, R)[s]}
<1>1. ASSUME NEW s \in SUBSET S, \A u \in SUBSET s : u # s => u \in T
      PROVE  Adder(f, S)[s] = Adder(g, R)[s]
  <2>1. s \in SUBSET R
    OBVIOUS
  <2>2. CASE s = {}
    BY <2>1, <2>2, AdderUnfolds
  <2>3. CASE s # {}
    <3> DEFINE x == Chosen(s)
    <3>1. x \in s /\ f[x] = g[x]
      BY <2>3, ChosenIn
    <3>2. s \ {x} \in SUBSET s /\ s \ {x} # s
      BY <3>1
    <3>3. Adder(f, S)[s \ {x}] = Adder(g, R)[s \ {x}]
      BY <1>1, <3>2
    <3>4. /\ Adder(f, S)[s] = f[x] + Adder(f, S)[s \ {x}]
          /\ Adder(g, R)[s] = g[x] + Adder(g, R)[s \ {x}]
      BY <2>1, <2>3, AdderUnfolds
    <3> HIDE DEF x
    <3>5. QED
      BY <3>1, <3>3, <3>4
  <2>4. QED
    BY <2>2, <2>3
<1>2. \A s \in SUBSET S : (\A u \in SUBSET s : u # s => u \in T) => s \in T
  BY <1>1
<1> HIDE DEF T
<1>3. SUBSET S \subseteq T
  BY <1>2, SubsetInduction
<1>4. QED
  BY <1>3 DEF T

-----------------------------------------------------------------------------
(* Sums of functions. *)

\* The sum over nothing is zero.
LEMMA SumEmpty ==
    ASSUME NEW f
    PROVE  SumFunctionOnSet(f, {}) = 0
  BY SumIsAdder, AdderUnfolds, FS_EmptySet

\* A sum of naturals is a natural, of integers an integer.
LEMMA SumTyped ==
    ASSUME NEW S, IsFiniteSet(S), NEW f, NEW V, V \in {Nat, Int},
           \A x \in S : f[x] \in V
    PROVE  SumFunctionOnSet(f, S) \in V
  BY SumIsAdder, AdderTyped

\* Any member may be added last.
LEMMA SumTakes ==
    ASSUME NEW S, IsFiniteSet(S), NEW f, \A y \in S : f[y] \in Int, NEW x \in S
    PROVE  SumFunctionOnSet(f, S) = f[x] + SumFunctionOnSet(f, S \ {x})
<1>1. Adder(f, S)[S] = f[x] + Adder(f, S)[S \ {x}]
  BY AdderTakes
<1>2. IsFiniteSet(S \ {x})
  BY FS_RemoveElement
<1>3. Adder(f, S \ {x})[S \ {x}] = Adder(f, S)[S \ {x}]
  BY <1>2, AdderAgrees
<1>4. QED
  BY <1>1, <1>3, SumIsAdder

\* Functions equal on a set have the same sum over it.
LEMMA SumAgrees ==
    ASSUME NEW S, IsFiniteSet(S), NEW f, NEW g, \A x \in S : f[x] = g[x]
    PROVE  SumFunctionOnSet(f, S) = SumFunctionOnSet(g, S)
  BY AdderAgrees, SumIsAdder

\* A sum of zeros is zero.
LEMMA SumZero ==
    ASSUME NEW S, IsFiniteSet(S), NEW f, \A x \in S : f[x] = 0
    PROVE  SumFunctionOnSet(f, S) = 0
<1> DEFINE T == {s \in SUBSET S : Adder(f, S)[s] = 0}
<1>1. ASSUME NEW s \in SUBSET S, \A u \in SUBSET s : u # s => u \in T
      PROVE  Adder(f, S)[s] = 0
  <2>1. CASE s = {}
    BY <2>1, AdderUnfolds
  <2>2. CASE s # {}
    <3> DEFINE x == Chosen(s)
    <3>1. x \in s /\ f[x] = 0
      BY <2>2, ChosenIn
    <3>2. s \ {x} \in SUBSET s /\ s \ {x} # s
      BY <3>1
    <3>3. Adder(f, S)[s \ {x}] = 0
      BY <1>1, <3>2
    <3>4. Adder(f, S)[s] = f[x] + Adder(f, S)[s \ {x}]
      BY <2>2, AdderUnfolds
    <3> HIDE DEF x
    <3>5. QED
      BY <3>1, <3>3, <3>4
  <2>3. QED
    BY <2>1, <2>2
<1>2. \A s \in SUBSET S : (\A u \in SUBSET s : u # s => u \in T) => s \in T
  BY <1>1
<1> HIDE DEF T
<1>3. SUBSET S \subseteq T
  BY <1>2, SubsetInduction
<1>4. QED
  BY <1>3, SumIsAdder DEF T

\* Changing one value changes the sum by as much.
LEMMA SumChanges ==
    ASSUME NEW S, IsFiniteSet(S), NEW f \in [S -> Int], NEW g \in [S -> Int],
           NEW x \in S, \A y \in S \ {x} : g[y] = f[y]
    PROVE  /\ SumFunction(f) \in Int
           /\ SumFunction(g) = SumFunction(f) + (g[x] - f[x])
<1> DEFINE rest == SumFunctionOnSet(f, S \ {x})
<1>1. IsFiniteSet(S \ {x})
  BY FS_RemoveElement
<1>2. SumFunctionOnSet(g, S \ {x}) = rest
  BY <1>1, SumAgrees
<1>3. rest \in Int
  BY <1>1, SumTyped
<1>4. /\ SumFunctionOnSet(f, S) = f[x] + rest
      /\ SumFunctionOnSet(g, S) = g[x] + rest
  BY <1>2, SumTakes
<1>5. DOMAIN f = S /\ DOMAIN g = S /\ f[x] \in Int /\ g[x] \in Int
  OBVIOUS
<1> HIDE DEF rest
<1>6. QED
  BY <1>3, <1>4, <1>5 DEF SumFunction
============================================================================
