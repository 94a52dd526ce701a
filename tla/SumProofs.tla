------------------------------ MODULE SumProofs ------------------------------
(***************************************************************************)
(* What SumFunctionOnSet of the community modules computes: the sum of the *)
(* values of a function over a finite set of its arguments.  Its recursion *)
(* chooses an element at a time; these lemmas say that the choice does not *)
(* matter.  Induction is over sets of naturals and of subsets.             *)
(***************************************************************************)
EXTENDS FiniteSetTheorems, TLAPS

----------------------------------------------------------------------------
\* Induction, stated of sets.

LEMMA NatSetInduction ==
    ASSUME NEW G, 0 \in G, \A n \in Nat : n \in G => n + 1 \in G
    PROVE  Nat \subseteq G
<1>. DEFINE R == OpToRel(<, Nat)
            Bad == Nat \ G
<1>1. SUFFICES ASSUME Bad # {} PROVE FALSE
  OBVIOUS
<1>2. PICK m \in Bad : \A y \in Bad : <<y, m>> \notin R
  <2>1. IsWellFoundedOn(R, Nat)
    BY NatLessThanWellFounded
  <2>. HIDE DEF R
  <2>. QED BY <1>1, <2>1, WFMin
<1>3. m # 0 /\ m \in Nat
  OBVIOUS
<1>4. m - 1 \in Nat /\ m - 1 < m /\ (m - 1) + 1 = m
  BY <1>3
<1>5. <<m - 1, m>> \in R
  BY <1>3, <1>4 DEF OpToRel
<1>6. m - 1 \in G
  BY <1>2, <1>4, <1>5
<1>. QED BY <1>3, <1>4, <1>6

\* A set of subsets that has the empty one and grows by single elements has them all.
LEMMA SubsetInduction ==
    ASSUME NEW S, IsFiniteSet(S), NEW G, {} \in G,
           \A T \in SUBSET S, x \in S : T \in G /\ x \notin T => T \cup {x} \in G
    PROVE  SUBSET S \subseteq G
<1>. DEFINE Sizes == {n \in Nat : \A T \in SUBSET S : Cardinality(T) = n => T \in G}
<1>1. 0 \in Sizes
  BY FS_Subset, FS_EmptySet
<1>2. ASSUME NEW n \in Nat, n \in Sizes PROVE n + 1 \in Sizes
  <2>1. SUFFICES ASSUME NEW T \in SUBSET S, Cardinality(T) = n + 1 PROVE T \in G
    OBVIOUS
  <2>2. IsFiniteSet(T)
    BY FS_Subset
  <2>3. T # {}
    <3>1. T = {} => Cardinality(T) = 0
      BY FS_EmptySet
    <3>. QED BY <2>1, <3>1
  <2>4. PICK x \in T : TRUE
    BY <2>3
  <2>5. Cardinality(T \ {x}) = (n + 1) - 1
    BY <2>1, <2>2, <2>4, FS_RemoveElement
  <2>6. T \ {x} \in G
    BY <1>2, <2>5
  <2>7. T = (T \ {x}) \cup {x}
    BY <2>4
  <2>. QED BY <2>6, <2>7
<1>3. Nat \subseteq Sizes
  <2>. HIDE DEF Sizes
  <2>. QED BY <1>1, <1>2, NatSetInduction
<1>4. ASSUME NEW T \in SUBSET S PROVE T \in G
  BY <1>3, FS_Subset, FS_CardinalityType
<1>. QED BY <1>4

----------------------------------------------------------------------------
\* The recursion has one solution.

Chosen(T) == CHOOSE x \in T : TRUE

\* g adds the values of f over each subset of S.
Adds(f, S, g) ==
    g = [T \in SUBSET S |-> IF T = {} THEN 0 ELSE f[Chosen(T)] + g[T \ {Chosen(T)}]]

LEMMA ChosenIn == \A T : T # {} => Chosen(T) \in T
BY DEF Chosen

\* Two functions that add over sets agree on what both know.
LEMMA AddsOnce ==
    ASSUME NEW f, NEW S, NEW U, IsFiniteSet(S), S \subseteq U,
           NEW g, NEW h, Adds(f, S, g), Adds(f, U, h)
    PROVE  \A T \in SUBSET S : g[T] = h[T]
<1>. DEFINE Sizes == {n \in Nat : \A T \in SUBSET S : Cardinality(T) = n => g[T] = h[T]}
<1>1. 0 \in Sizes
  <2>1. ASSUME NEW T \in SUBSET S, Cardinality(T) = 0 PROVE g[T] = h[T]
    <3>1. T = {}
      BY <2>1, FS_Subset, FS_EmptySet
    <3>. QED BY <3>1 DEF Adds
  <2>. QED BY <2>1
<1>2. ASSUME NEW n \in Nat, n \in Sizes PROVE n + 1 \in Sizes
  <2>1. SUFFICES ASSUME NEW T \in SUBSET S, Cardinality(T) = n + 1 PROVE g[T] = h[T]
    OBVIOUS
  <2>2. IsFiniteSet(T)
    BY FS_Subset
  <2>3. T # {}
    <3>1. T = {} => Cardinality(T) = 0
      BY FS_EmptySet
    <3>. QED BY <2>1, <3>1
  <2>4. Chosen(T) \in T
    BY <2>3, ChosenIn
  <2>. DEFINE Rest == T \ {Chosen(T)}
  <2>5. Cardinality(Rest) = (n + 1) - 1
    BY <2>1, <2>2, <2>4, FS_RemoveElement
  <2>6. g[Rest] = h[Rest]
    BY <1>2, <2>5
  <2>7. g[T] = f[Chosen(T)] + g[Rest]
    BY <2>3 DEF Adds
  <2>8. h[T] = f[Chosen(T)] + h[Rest]
    BY <2>3 DEF Adds
  <2>. QED BY <2>6, <2>7, <2>8
<1>3. Nat \subseteq Sizes
  <2>. HIDE DEF Sizes
  <2>. QED BY <1>1, <1>2, NatSetInduction
<1>4. ASSUME NEW T \in SUBSET S PROVE Cardinality(T) \in Nat
  BY FS_Subset, FS_CardinalityType
<1>. QED BY <1>3, <1>4

\* There is one: it extends to sets of one element more.
LEMMA AddsExists ==
    ASSUME NEW f, NEW S, IsFiniteSet(S)
    PROVE  \E g : Adds(f, S, g)
<1>. DEFINE Small(n) == {T \in SUBSET S : Cardinality(T) <= n}
            Step(g, T) == IF T = {} THEN 0 ELSE f[Chosen(T)] + g[T \ {Chosen(T)}]
            Upto(n, g) == g = [T \in Small(n) |-> Step(g, T)]
            Sizes == {n \in Nat : \E g : Upto(n, g)}
<1>1. ASSUME NEW T \in SUBSET S
      PROVE  /\ Cardinality(T) \in Nat
             /\ Cardinality(T) = 0 <=> T = {}
             /\ T # {} => T \ {Chosen(T)} \in SUBSET S
             /\ T # {} => Cardinality(T \ {Chosen(T)}) = Cardinality(T) - 1
  BY FS_Subset, FS_CardinalityType, FS_EmptySet, FS_RemoveElement, ChosenIn
<1>2. 0 \in Sizes
  <2>. DEFINE g == [T \in Small(0) |-> 0]
  <2>1. ASSUME NEW T \in Small(0) PROVE T = {}
    <3>1. Cardinality(T) <= 0 /\ Cardinality(T) \in Nat
      BY <1>1
    <3>2. Cardinality(T) = 0
      BY <3>1
    <3>. QED BY <1>1, <3>2
  <2>2. g = [T \in Small(0) |-> Step(g, T)]
    BY <2>1
  <2>3. Upto(0, g)
    BY <2>2
  <2>. HIDE DEF g, Upto
  <2>. QED BY <2>3
<1>3. ASSUME NEW n \in Nat, n \in Sizes PROVE n + 1 \in Sizes
  <2>1. PICK g : Upto(n, g)
    BY <1>3
  <2>. DEFINE h == [T \in Small(n + 1) |-> Step(g, T)]
  <2>2. ASSUME NEW T \in Small(n + 1) PROVE Step(g, T) = Step(h, T)
    <3>1. CASE T = {}
      BY <3>1
    <3>2. CASE T # {}
      <4>. DEFINE Rest == T \ {Chosen(T)}
      <4>1. Rest \in Small(n) /\ Rest \in Small(n + 1)
        BY <1>1, <3>2
      <4>2. g[Rest] = Step(g, Rest)
        BY <2>1, <4>1
      <4>3. h[Rest] = Step(g, Rest)
        BY <4>1
      <4>. QED BY <3>2, <4>2, <4>3
    <3>. QED BY <3>1, <3>2
  <2>3. h = [T \in Small(n + 1) |-> Step(h, T)]
    <3>. HIDE DEF Step
    <3>. QED BY <2>2
  <2>4. Upto(n + 1, h)
    BY <2>3
  <2>. HIDE DEF h, Upto
  <2>. QED BY <2>4
<1>4. Nat \subseteq Sizes
  <2>. HIDE DEF Sizes
  <2>. QED BY <1>2, <1>3, NatSetInduction
<1>5. PICK n \in Nat : n = Cardinality(S)
  BY FS_CardinalityType
<1>6. Small(n) = SUBSET S
  <2>1. ASSUME NEW T \in SUBSET S PROVE Cardinality(T) <= n
    BY <1>5, FS_Subset
  <2>. QED BY <2>1
<1>7. PICK g : Upto(n, g)
  BY <1>4
<1>8. Adds(f, S, g)
  BY <1>6, <1>7 DEF Adds
<1>. QED BY <1>8

\* What the community modules define is that solution.
LEMMA SumIsAdded ==
    ASSUME NEW f, NEW S, IsFiniteSet(S)
    PROVE  \E g : Adds(f, S, g) /\ SumFunctionOnSet(f, S) = g[S]
<1>. DEFINE G == CHOOSE g : Adds(f, S, g)
<1>1. Adds(f, S, G)
  BY AddsExists
<1>2. SumFunctionOnSet(f, S) = G[S]
  BY DEF SumFunctionOnSet, FoldFunctionOnSet, MapThenFoldSet, Adds, Chosen
<1>. QED BY <1>1, <1>2

----------------------------------------------------------------------------
\* Sums.


LEMMA SumEmpty == \A f : SumFunctionOnSet(f, {}) = 0
<1>1. ASSUME NEW f PROVE SumFunctionOnSet(f, {}) = 0
  <2>1. PICK g : Adds(f, {}, g) /\ SumFunctionOnSet(f, {}) = g[{}]
    BY SumIsAdded, FS_EmptySet
  <2>. QED BY <2>1 DEF Adds
<1>. QED BY <1>1

\* The sum takes the chosen element first.
LEMMA SumChosen ==
    ASSUME NEW f, NEW S, IsFiniteSet(S), S # {}
    PROVE  SumFunctionOnSet(f, S) = f[Chosen(S)] + SumFunctionOnSet(f, S \ {Chosen(S)})
<1>. DEFINE Rest == S \ {Chosen(S)}
<1>1. PICK g : Adds(f, S, g) /\ SumFunctionOnSet(f, S) = g[S]
  BY SumIsAdded
<1>2. IsFiniteSet(Rest)
  BY FS_Subset
<1>3. PICK h : Adds(f, Rest, h) /\ SumFunctionOnSet(f, Rest) = h[Rest]
  BY <1>2, SumIsAdded
<1>4. h[Rest] = g[Rest]
  <2>1. Rest \subseteq S /\ Rest \in SUBSET Rest
    OBVIOUS
  <2>2. \A T \in SUBSET Rest : h[T] = g[T]
    <3>. HIDE DEF Rest
    <3>. QED BY <1>1, <1>2, <1>3, <2>1, AddsOnce
  <2>. QED BY <2>1, <2>2
<1>5. g[S] = f[Chosen(S)] + g[Rest]
  BY <1>1 DEF Adds
<1>. QED BY <1>1, <1>3, <1>4, <1>5

LEMMA SumInt ==
    ASSUME NEW f, NEW S, IsFiniteSet(S), \A x \in S : f[x] \in Int
    PROVE  SumFunctionOnSet(f, S) \in Int
<1>1. PICK g : Adds(f, S, g) /\ SumFunctionOnSet(f, S) = g[S]
  BY SumIsAdded
<1>. DEFINE Sizes == {n \in Nat : \A T \in SUBSET S : Cardinality(T) = n => SumFunctionOnSet(f, T) \in Int}
<1>2. 0 \in Sizes
  <2>1. ASSUME NEW T \in SUBSET S, Cardinality(T) = 0 PROVE SumFunctionOnSet(f, T) \in Int
    <3>1. T = {}
      BY <2>1, FS_Subset, FS_EmptySet
    <3>. QED BY <3>1, SumEmpty
  <2>. QED BY <2>1
<1>3. ASSUME NEW n \in Nat, n \in Sizes PROVE n + 1 \in Sizes
  <2>1. SUFFICES ASSUME NEW T \in SUBSET S, Cardinality(T) = n + 1 PROVE SumFunctionOnSet(f, T) \in Int
    OBVIOUS
  <2>2. IsFiniteSet(T)
    BY FS_Subset
  <2>3. T # {}
    <3>1. T = {} => Cardinality(T) = 0
      BY FS_EmptySet
    <3>. QED BY <2>1, <3>1
  <2>4. Chosen(T) \in T
    BY <2>3, ChosenIn
  <2>5. Cardinality(T \ {Chosen(T)}) = (n + 1) - 1
    BY <2>1, <2>2, <2>4, FS_RemoveElement
  <2>6. SumFunctionOnSet(f, T \ {Chosen(T)}) \in Int
    BY <1>3, <2>5
  <2>. QED BY <2>2, <2>3, <2>4, <2>6, SumChosen
<1>4. Nat \subseteq Sizes
  <2>. HIDE DEF Sizes
  <2>. QED BY <1>2, <1>3, NatSetInduction
<1>5. Cardinality(S) \in Nat
  BY FS_CardinalityType
<1>. QED BY <1>4, <1>5

\* Any element may be taken first.
LEMMA SumRemove ==
    ASSUME NEW f, NEW S, IsFiniteSet(S), \A x \in S : f[x] \in Int, NEW x \in S
    PROVE  SumFunctionOnSet(f, S) = f[x] + SumFunctionOnSet(f, S \ {x})
<1>. DEFINE Splits(T) == \A y \in T : SumFunctionOnSet(f, T) = f[y] + SumFunctionOnSet(f, T \ {y})
            Sizes == {n \in Nat : \A T \in SUBSET S : Cardinality(T) = n => Splits(T)}
<1>1. 0 \in Sizes
  <2>1. ASSUME NEW T \in SUBSET S, Cardinality(T) = 0 PROVE Splits(T)
    <3>1. T = {}
      BY <2>1, FS_Subset, FS_EmptySet
    <3>. QED BY <3>1
  <2>. QED BY <2>1
<1>2. ASSUME NEW n \in Nat, n \in Sizes PROVE n + 1 \in Sizes
  <2>1. SUFFICES ASSUME NEW T \in SUBSET S, Cardinality(T) = n + 1, NEW y \in T
                 PROVE  SumFunctionOnSet(f, T) = f[y] + SumFunctionOnSet(f, T \ {y})
    OBVIOUS
  <2>2. IsFiniteSet(T)
    BY FS_Subset
  <2>. DEFINE c == Chosen(T)
              Both == (T \ {c}) \ {y}
  <2>3. c \in T
    BY ChosenIn
  <2>4. SumFunctionOnSet(f, T) = f[c] + SumFunctionOnSet(f, T \ {c})
    BY <2>2, SumChosen
  <2>5. CASE y = c
    BY <2>4, <2>5
  <2>6. CASE y # c
    <3>1. Cardinality(T \ {c}) = n /\ Cardinality(T \ {y}) = n
      <4>1. ASSUME NEW z \in T PROVE Cardinality(T \ {z}) = Cardinality(T) - 1
        BY <2>2, FS_RemoveElement
      <4>2. Cardinality(T) - 1 = n
        BY <2>1
      <4>. QED BY <2>3, <4>1, <4>2
    <3>2. Splits(T \ {c}) /\ Splits(T \ {y})
      BY <1>2, <3>1
    <3>. HIDE DEF c
    <3>3. SumFunctionOnSet(f, T \ {c}) = f[y] + SumFunctionOnSet(f, Both)
      BY <2>6, <3>2
    <3>4. (T \ {y}) \ {c} = Both
      OBVIOUS
    <3>5. SumFunctionOnSet(f, T \ {y}) = f[c] + SumFunctionOnSet(f, Both)
      BY <2>3, <2>6, <3>2, <3>4
    <3>6. IsFiniteSet(Both) /\ \A z \in Both : f[z] \in Int
      BY <2>2, FS_Subset
    <3>7. SumFunctionOnSet(f, Both) \in Int /\ f[c] \in Int /\ f[y] \in Int
      BY <2>3, <3>6, SumInt
    <3>. QED BY <2>4, <3>3, <3>5, <3>7
  <2>. QED BY <2>5, <2>6
<1>3. Nat \subseteq Sizes
  <2>. HIDE DEF Sizes
  <2>. QED BY <1>1, <1>2, NatSetInduction
<1>4. Cardinality(S) \in Nat
  BY FS_CardinalityType
<1>. QED BY <1>3, <1>4

LEMMA SumAdd ==
    ASSUME NEW f, NEW S, IsFiniteSet(S), \A x \in S : f[x] \in Int,
           NEW x, x \notin S, f[x] \in Int
    PROVE  SumFunctionOnSet(f, S \cup {x}) = SumFunctionOnSet(f, S) + f[x]
<1>1. IsFiniteSet(S \cup {x}) /\ (S \cup {x}) \ {x} = S
  BY FS_AddElement
<1>2. SumFunctionOnSet(f, S \cup {x}) = f[x] + SumFunctionOnSet(f, S)
  BY <1>1, SumRemove
<1>3. SumFunctionOnSet(f, S) \in Int
  BY SumInt
<1>. QED BY <1>2, <1>3

\* Functions that agree on a set have the same sum over it.
LEMMA SumAgrees ==
    ASSUME NEW f, NEW g, NEW S, IsFiniteSet(S), \A x \in S : f[x] = g[x]
    PROVE  SumFunctionOnSet(f, S) = SumFunctionOnSet(g, S)
<1>1. PICK p : Adds(f, S, p) /\ SumFunctionOnSet(f, S) = p[S]
  BY SumIsAdded
<1>2. PICK q : Adds(g, S, q) /\ SumFunctionOnSet(g, S) = q[S]
  BY SumIsAdded
<1>3. Adds(f, S, q)
  BY <1>2, ChosenIn DEF Adds
<1>. QED BY <1>1, <1>2, <1>3, AddsOnce

\* Induction over the subsets of a finite set, for sums of integers.
LEMMA SumNat ==
    ASSUME NEW f, NEW S, IsFiniteSet(S), \A x \in S : f[x] \in Nat
    PROVE  SumFunctionOnSet(f, S) \in Nat
<1>. DEFINE G == {T \in SUBSET S : SumFunctionOnSet(f, T) \in Nat}
<1>1. {} \in G
  BY SumEmpty
<1>2. ASSUME NEW T \in SUBSET S, NEW x \in S, T \in G, x \notin T PROVE T \cup {x} \in G
  <2>1. IsFiniteSet(T)
    BY FS_Subset
  <2>2. SumFunctionOnSet(f, T \cup {x}) = SumFunctionOnSet(f, T) + f[x]
    BY <1>2, <2>1, SumAdd
  <2>. QED BY <1>2, <2>2
<1>3. SUBSET S \subseteq G
  <2>. HIDE DEF G
  <2>. QED BY <1>1, <1>2, SubsetInduction
<1>. QED BY <1>3

LEMMA SumUnion ==
    ASSUME NEW f, NEW S, NEW R, IsFiniteSet(S), IsFiniteSet(R), S \cap R = {},
           \A x \in S \cup R : f[x] \in Int
    PROVE  SumFunctionOnSet(f, S \cup R) = SumFunctionOnSet(f, S) + SumFunctionOnSet(f, R)
<1>. DEFINE G == {T \in SUBSET R : SumFunctionOnSet(f, S \cup T) = SumFunctionOnSet(f, S) + SumFunctionOnSet(f, T)}
<1>0. SumFunctionOnSet(f, S) \in Int
  BY SumInt
<1>1. {} \in G
  <2>1. S \cup {} = S
    OBVIOUS
  <2>. QED BY <1>0, <2>1, SumEmpty
<1>2. ASSUME NEW T \in SUBSET R, NEW x \in R, T \in G, x \notin T PROVE T \cup {x} \in G
  <2>1. IsFiniteSet(T) /\ IsFiniteSet(S \cup T)
    BY FS_Subset, FS_Union
  <2>2. SumFunctionOnSet(f, T \cup {x}) = SumFunctionOnSet(f, T) + f[x]
    BY <1>2, <2>1, SumAdd
  <2>3. x \notin S \cup T
    BY <1>2
  <2>4. SumFunctionOnSet(f, (S \cup T) \cup {x}) = SumFunctionOnSet(f, S \cup T) + f[x]
    BY <1>2, <2>1, <2>3, SumAdd
  <2>5. (S \cup T) \cup {x} = S \cup (T \cup {x})
    OBVIOUS
  <2>6. SumFunctionOnSet(f, T) \in Int /\ f[x] \in Int
    BY <2>1, SumInt
  <2>7. SumFunctionOnSet(f, S \cup T) = SumFunctionOnSet(f, S) + SumFunctionOnSet(f, T)
    BY <1>2
  <2>8. SumFunctionOnSet(f, (S \cup T) \cup {x}) = SumFunctionOnSet(f, S) + SumFunctionOnSet(f, T \cup {x})
    BY <1>0, <2>2, <2>4, <2>6, <2>7
  <2>. QED BY <2>5, <2>8
<1>3. SUBSET R \subseteq G
  <2>1. \A T \in SUBSET R, x \in R : T \in G /\ x \notin T => T \cup {x} \in G
    BY <1>2
  <2>2. IsFiniteSet(R)
    OBVIOUS
  <2>. HIDE DEF G
  <2>. QED BY ONLY <1>1, <2>1, <2>2, SubsetInduction
<1>. QED BY <1>3

\* A part of a sum of naturals is no larger than the whole.
LEMMA SumPart ==
    ASSUME NEW f, NEW S, IsFiniteSet(S), \A x \in S : f[x] \in Nat, NEW T \in SUBSET S
    PROVE  SumFunctionOnSet(f, T) <= SumFunctionOnSet(f, S)
<1>1. IsFiniteSet(T) /\ IsFiniteSet(S \ T)
  BY FS_Subset
<1>2. SumFunctionOnSet(f, T) \in Nat /\ SumFunctionOnSet(f, S \ T) \in Nat
  BY <1>1, SumNat
<1>3. T \cup (S \ T) = S /\ T \cap (S \ T) = {}
  OBVIOUS
<1>4. SumFunctionOnSet(f, S) = SumFunctionOnSet(f, T) + SumFunctionOnSet(f, S \ T)
  BY <1>1, <1>3, SumUnion
<1>. QED BY <1>2, <1>4

----------------------------------------------------------------------------
\* Sums of which one part differs.

LEMMA SumZero ==
    ASSUME NEW f, NEW S, IsFiniteSet(S), \A x \in S : f[x] = 0
    PROVE  SumFunctionOnSet(f, S) = 0
<1>. DEFINE G == {T \in SUBSET S : SumFunctionOnSet(f, T) = 0}
<1>1. {} \in G
  BY SumEmpty
<1>2. ASSUME NEW T \in SUBSET S, NEW x \in S, T \in G, x \notin T PROVE T \cup {x} \in G
  <2>1. IsFiniteSet(T)
    BY FS_Subset
  <2>2. \A y \in T : f[y] \in Int
    OBVIOUS
  <2>3. SumFunctionOnSet(f, T \cup {x}) = SumFunctionOnSet(f, T) + f[x]
    BY <2>1, <2>2, SumAdd, <1>2
  <2>. QED BY <1>2, <2>3
<1>. HIDE DEF G
<1>3. SUBSET S \subseteq G
  BY <1>1, <1>2, SubsetInduction
<1>4. S \in G
  BY <1>3
<1>. QED BY <1>4 DEF G

LEMMA SumOnly ==
    ASSUME NEW f, NEW S, IsFiniteSet(S), NEW x \in S, f[x] \in Int,
           \A y \in S \ {x} : f[y] = 0
    PROVE  SumFunctionOnSet(f, S) = f[x]
<1>1. IsFiniteSet(S \ {x})
  BY FS_Subset
<1>2. SumFunctionOnSet(f, S \ {x}) = 0
  BY <1>1, SumZero
<1>3. \A y \in S : f[y] \in Int
  OBVIOUS
<1>4. SumFunctionOnSet(f, S) = f[x] + SumFunctionOnSet(f, S \ {x})
  BY <1>3, SumRemove
<1>. QED BY <1>2, <1>4

LEMMA SumChange ==
    ASSUME NEW f, NEW g, NEW S, IsFiniteSet(S), NEW x \in S, \A y \in S : f[y] \in Int,
           g[x] \in Int, \A y \in S \ {x} : g[y] = f[y]
    PROVE  SumFunctionOnSet(g, S) = SumFunctionOnSet(f, S) - f[x] + g[x]
<1>1. IsFiniteSet(S \ {x})
  BY FS_Subset
<1>2. SumFunctionOnSet(g, S \ {x}) = SumFunctionOnSet(f, S \ {x})
  BY <1>1, SumAgrees
<1>3. \A y \in S : g[y] \in Int
  OBVIOUS
<1>4. /\ SumFunctionOnSet(f, S) = f[x] + SumFunctionOnSet(f, S \ {x})
      /\ SumFunctionOnSet(g, S) = g[x] + SumFunctionOnSet(g, S \ {x})
  BY <1>3, SumRemove
<1>5. SumFunctionOnSet(f, S \ {x}) \in Int
  BY <1>1, SumInt
<1>. QED BY <1>2, <1>4, <1>5

=============================================================================
