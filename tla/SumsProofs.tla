----------------------------- MODULE SumsProofs -----------------------------
(***************************************************************************)
(* What SumOf computes: the library's fold removes the elements of a set   *)
(* in an order of its own, so the sum of a function that changed at one    *)
(* element is not evident.  The induction over finite sets that the facts  *)
(* need is made with WFMin: a set of counterexamples would have one that   *)
(* is minimal for inclusion.                                               *)
(***************************************************************************)
EXTENDS Sums, FiniteSetTheorems, TLAPS

Pick(s) == CHOOSE x \in s : TRUE

\* g is the table that the fold of f over the subsets of S fills.
Folds(f, S, g) ==
    g = [s \in SUBSET S |-> IF s = {} THEN 0
                            ELSE f[Pick(s)] + g[s \ {Pick(s)}]]

LEMMA SumOfUnfold ==
    ASSUME NEW f, NEW S
    PROVE  SumOf(f, S) = (CHOOSE g : Folds(f, S, g))[S]
  BY DEF SumOf, MapThenSumSet, MapThenFoldSet, Folds, Pick

LEMMA PickIn == ASSUME NEW s, s # {} PROVE Pick(s) \in s
  BY DEF Pick

\* A family of subsets of a finite set that is not empty has a minimal member.
LEMMA MinimalSubset ==
    ASSUME NEW S, IsFiniteSet(S), NEW F, F \subseteq SUBSET S, F # {}
    PROVE  \E T \in F : \A U \in F : U \subseteq T => U = T
<1>1. IsWellFoundedOn(StrictSubsetOrdering(S), SUBSET S)
  BY FS_StrictSubsetOrderingWellFounded, FS_FiniteSubsetsOfFinite
<1>2. PICK T \in F : \A U \in F : ~(<<U, T>> \in StrictSubsetOrdering(S))
  BY <1>1, WFMin
<1> QED
  BY <1>2 DEF StrictSubsetOrdering

LEMMA FoldsUnique ==
    ASSUME NEW f, NEW S, IsFiniteSet(S), NEW g, NEW h, NEW T \in SUBSET S,
           Folds(f, S, g), Folds(f, T, h)
    PROVE  \A s \in SUBSET T : h[s] = g[s]
<1> DEFINE F == {s \in SUBSET T : h[s] # g[s]}
<1> SUFFICES ASSUME F # {} PROVE FALSE
  OBVIOUS
<1>1. PICK s \in F : \A U \in F : U \subseteq s => U = s
  <2>1. F \subseteq SUBSET S
    OBVIOUS
  <2> HIDE DEF F
  <2> QED
    BY <2>1, MinimalSubset
<1>2. CASE s = {}
  BY <1>2 DEF Folds
<1>3. CASE s # {}
  <2>1. Pick(s) \in s
    BY <1>3, PickIn
  <2>2. h[s \ {Pick(s)}] = g[s \ {Pick(s)}]
    BY <1>1, <2>1
  <2>3. h[s] = f[Pick(s)] + h[s \ {Pick(s)}]
    BY <1>3 DEF Folds
  <2>4. g[s] = f[Pick(s)] + g[s \ {Pick(s)}]
    <3>1. s \in SUBSET S
      OBVIOUS
    <3> QED
      BY <1>3, <3>1 DEF Folds
  <2> QED
    BY <2>2, <2>3, <2>4
<1> QED
  BY <1>2, <1>3

LEMMA FoldsExists ==
    ASSUME NEW f, NEW S, IsFiniteSet(S)
    PROVE  \E g : Folds(f, S, g)
<1> DEFINE F == {T \in SUBSET S : ~ \E g : Folds(f, T, g)}
<1> SUFFICES ASSUME F # {} PROVE FALSE
  OBVIOUS
<1>1. PICK T \in F : \A U \in F : U \subseteq T => U = T
  <2>1. F \subseteq SUBSET S
    OBVIOUS
  <2> HIDE DEF F
  <2> QED
    BY <2>1, MinimalSubset
<1> DEFINE Less(s) == s \ {Pick(s)}
           of(s) == CHOOSE g : Folds(f, Less(s), g)
           G == [s \in SUBSET T |-> IF s = {} THEN 0 ELSE f[Pick(s)] + of(s)[Less(s)]]
<1>2. ASSUME NEW s \in SUBSET T, s # {} PROVE Folds(f, Less(s), of(s))
  <2>1. Pick(s) \in s
    BY <1>2, PickIn
  <2>2. Less(s) \in SUBSET S /\ Less(s) \subseteq T /\ Less(s) # T
    BY <2>1
  <2>3. Less(s) \notin F
    BY <1>1, <2>2
  <2>4. \E g : Folds(f, Less(s), g)
    BY <2>2, <2>3
  <2> QED
    BY <2>4
<1>3. ASSUME NEW s \in SUBSET T, s # {} PROVE of(s)[Less(s)] = G[Less(s)]
  <2>1. Pick(s) \in s /\ Less(s) \in SUBSET T
    BY <1>3, PickIn
  <2>2. CASE Less(s) = {}
    <3>1. Folds(f, Less(s), of(s))
      BY <1>2, <1>3
    <3>2. of(s)[Less(s)] = 0
      BY <2>2, <3>1 DEF Folds
    <3> QED
      BY <2>1, <2>2, <3>2
  <2>3. CASE Less(s) # {}
    <3> DEFINE u == Less(s)
    <3>1. Folds(f, u, of(s)) /\ Folds(f, Less(u), of(u)) /\ u \in SUBSET T
      BY <1>2, <1>3, <2>1, <2>3
    <3>2. of(s)[u] = f[Pick(u)] + of(s)[Less(u)]
      <4>1. u # {}
        BY <2>3
      <4> HIDE DEF u, of
      <4> QED
        BY <3>1, <4>1 DEF Folds
    <3>3. of(s)[Less(u)] = of(u)[Less(u)]
      <4>1. IsFiniteSet(u)
        BY <3>1, FS_Subset
      <4>2. Less(u) \in SUBSET u /\ Less(u) \in SUBSET Less(u)
        OBVIOUS
      <4> HIDE DEF u, of, Less
      <4> QED
        BY <3>1, <4>1, <4>2, FoldsUnique
    <3>4. G[u] = f[Pick(u)] + of(u)[Less(u)]
      BY <2>3, <3>1
    <3> QED
      BY <3>2, <3>3, <3>4
  <2> QED
    BY <2>2, <2>3
<1>4. Folds(f, T, G)
  <2>1. G = [s \in SUBSET T |-> IF s = {} THEN 0 ELSE f[Pick(s)] + G[Less(s)]]
    <3> HIDE DEF of
    <3>1. \A s \in SUBSET T : s # {} => of(s)[Less(s)] = G[Less(s)]
      BY <1>3
    <3> QED
      BY <3>1
  <2> QED
    BY <2>1 DEF Folds
<1> QED
  BY <1>1, <1>4

\* The library's definition, as a recursion on the set.
LEMMA SumOfPick ==
    ASSUME NEW f, NEW S, IsFiniteSet(S)
    PROVE  /\ S = {} => SumOf(f, S) = 0
           /\ S # {} => SumOf(f, S) = f[Pick(S)] + SumOf(f, S \ {Pick(S)})
<1> DEFINE fold(T) == CHOOSE g : Folds(f, T, g)
<1>1. ASSUME NEW T \in SUBSET S
      PROVE  Folds(f, T, fold(T)) /\ SumOf(f, T) = fold(T)[T]
  <2>1. \E g : Folds(f, T, g)
    BY FS_Subset, FoldsExists
  <2>2. Folds(f, T, fold(T))
    BY <2>1
  <2> QED
    BY <2>2, SumOfUnfold
<1>2. Folds(f, S, fold(S)) /\ SumOf(f, S) = fold(S)[S]
  BY <1>1
<1> HIDE DEF fold
<1>3. CASE S = {}
  <2>1. fold(S)[S] = 0
    BY <1>2, <1>3 DEF Folds
  <2> QED
    BY <1>2, <1>3, <2>1
<1>4. CASE S # {}
  <2> DEFINE T == S \ {Pick(S)}
  <2>1. fold(S)[S] = f[Pick(S)] + fold(S)[T]
    BY <1>2, <1>4 DEF Folds
  <2>2. Folds(f, T, fold(T)) /\ SumOf(f, T) = fold(T)[T]
    BY <1>1
  <2>3. T \in SUBSET S /\ T \in SUBSET T
    OBVIOUS
  <2> HIDE DEF T
  <2>4. fold(T)[T] = fold(S)[T]
    <3> DEFINE g == fold(S)
               h == fold(T)
    <3>1. Folds(f, S, g) /\ Folds(f, T, h)
      BY <1>2, <2>2
    <3> HIDE DEF g, h
    <3>2. \A s \in SUBSET T : h[s] = g[s]
      BY <2>3, <3>1, FoldsUnique
    <3> QED
      BY <2>3, <3>2 DEF g, h
  <2>5. SumOf(f, S) = f[Pick(S)] + SumOf(f, T)
    BY <1>2, <2>1, <2>2, <2>4
  <2> QED
    BY <1>4, <2>5 DEF T
<1> QED
  BY <1>3, <1>4

LEMMA SumOfEmpty == ASSUME NEW f PROVE SumOf(f, {}) = 0
  BY SumOfPick, FS_EmptySet

\* A sum of integers is an integer, of naturals a natural.
LEMMA SumOfType ==
    ASSUME NEW S, IsFiniteSet(S), NEW V \in {Int, Nat}, NEW f, \A x \in S : f[x] \in V
    PROVE  SumOf(f, S) \in V
<1> DEFINE F == {T \in SUBSET S : SumOf(f, T) \notin V}
<1> SUFFICES ASSUME F # {} PROVE FALSE
  OBVIOUS
<1>1. PICK T \in F : \A U \in F : U \subseteq T => U = T
  <2>1. F \subseteq SUBSET S
    OBVIOUS
  <2> HIDE DEF F
  <2> QED
    BY <2>1, MinimalSubset
<1>2. IsFiniteSet(T)
  BY FS_Subset
<1>3. T # {}
  <2>1. SumOf(f, T) \notin V /\ 0 \in V
    BY <1>1
  <2> HIDE DEF F
  <2> QED
    BY <2>1, SumOfEmpty
<1>4. Pick(T) \in T
  BY <1>3, PickIn
<1>5. SumOf(f, T) = f[Pick(T)] + SumOf(f, T \ {Pick(T)})
  BY <1>2, <1>3, SumOfPick
<1>6. SumOf(f, T \ {Pick(T)}) \in V
  BY <1>1, <1>4
<1> QED
  BY <1>1, <1>4, <1>5, <1>6

\* Functions with the same values have the same sum.
LEMMA SumOfSame ==
    ASSUME NEW S, IsFiniteSet(S), NEW f, NEW g, \A x \in S : f[x] = g[x]
    PROVE  SumOf(f, S) = SumOf(g, S)
<1> DEFINE F == {T \in SUBSET S : SumOf(f, T) # SumOf(g, T)}
<1> SUFFICES ASSUME F # {} PROVE FALSE
  OBVIOUS
<1>1. PICK T \in F : \A U \in F : U \subseteq T => U = T
  <2>1. F \subseteq SUBSET S
    OBVIOUS
  <2> HIDE DEF F
  <2> QED
    BY <2>1, MinimalSubset
<1>2. IsFiniteSet(T)
  BY FS_Subset
<1>3. T # {}
  BY <1>1, SumOfEmpty
<1>4. Pick(T) \in T
  BY <1>3, PickIn
<1>5. /\ SumOf(f, T) = f[Pick(T)] + SumOf(f, T \ {Pick(T)})
      /\ SumOf(g, T) = g[Pick(T)] + SumOf(g, T \ {Pick(T)})
  BY <1>2, <1>3, SumOfPick
<1>6. SumOf(f, T \ {Pick(T)}) = SumOf(g, T \ {Pick(T)})
  BY <1>1, <1>4
<1> QED
  BY <1>1, <1>4, <1>5, <1>6

\* Whatever element is taken out first, the sum is the same.
LEMMA SumOfRemove ==
    ASSUME NEW S, IsFiniteSet(S), NEW f, \A x \in S : f[x] \in Int, NEW a \in S
    PROVE  SumOf(f, S) = f[a] + SumOf(f, S \ {a})
<1> DEFINE F == {T \in SUBSET S : \E x \in T : SumOf(f, T) # f[x] + SumOf(f, T \ {x})}
<1> SUFFICES ASSUME F # {} PROVE FALSE
  OBVIOUS
<1>1. PICK T \in F : \A U \in F : U \subseteq T => U = T
  <2>1. F \subseteq SUBSET S
    OBVIOUS
  <2> HIDE DEF F
  <2> QED
    BY <2>1, MinimalSubset
<1>2. PICK x \in T : SumOf(f, T) # f[x] + SumOf(f, T \ {x})
  BY <1>1
<1> DEFINE p == Pick(T)
           U == T \ {p}
<1>3. p \in T /\ IsFiniteSet(T) /\ IsFiniteSet(U) /\ IsFiniteSet(T \ {x})
  BY <1>2, PickIn, FS_Subset
<1>4. SumOf(f, T) = f[p] + SumOf(f, U)
  BY <1>2, <1>3, SumOfPick
<1>5. x # p
  BY <1>2, <1>4
<1>a. ASSUME NEW W \in SUBSET T, W # T, NEW y \in W
      PROVE  SumOf(f, W) = f[y] + SumOf(f, W \ {y})
  BY <1>1, <1>a
<1>6. SumOf(f, U) = f[x] + SumOf(f, U \ {x})
  BY <1>a, <1>3, <1>5
<1>7. SumOf(f, T \ {x}) = f[p] + SumOf(f, (T \ {x}) \ {p})
  BY <1>a, <1>3, <1>5
<1>8. U \ {x} = (T \ {x}) \ {p}
  OBVIOUS
<1>9. f[p] \in Int /\ f[x] \in Int /\ SumOf(f, U \ {x}) \in Int
  <2>1. IsFiniteSet(U \ {x})
    BY <1>3, FS_Subset
  <2> QED
    BY <1>3, <2>1, SumOfType
<1> HIDE DEF p, U
<1> QED
  BY <1>2, <1>4, <1>6, <1>7, <1>8, <1>9

\* A function that changes at one element changes its sum by as much.
LEMMA SumOfUpdate ==
    ASSUME NEW S, IsFiniteSet(S), NEW f, NEW g, NEW a \in S,
           \A x \in S : f[x] \in Int /\ g[x] \in Int,
           \A x \in S \ {a} : g[x] = f[x]
    PROVE  SumOf(g, S) = SumOf(f, S) - f[a] + g[a]
<1>1. SumOf(f, S) = f[a] + SumOf(f, S \ {a})
  BY SumOfRemove
<1>2. SumOf(g, S) = g[a] + SumOf(g, S \ {a})
  BY SumOfRemove
<1>3. IsFiniteSet(S \ {a})
  BY FS_Subset
<1>4. SumOf(f, S \ {a}) = SumOf(g, S \ {a}) /\ SumOf(f, S \ {a}) \in Int
  BY <1>3, SumOfSame, SumOfType
<1> QED
  BY <1>1, <1>2, <1>4

\* The sum of a constant.
LEMMA SumOfConstant ==
    ASSUME NEW S, IsFiniteSet(S), NEW c \in Int, NEW f, \A x \in S : f[x] = c
    PROVE  SumOf(f, S) = Cardinality(S) * c
<1> DEFINE F == {T \in SUBSET S : SumOf(f, T) # Cardinality(T) * c}
<1> SUFFICES ASSUME F # {} PROVE FALSE
  OBVIOUS
<1>1. PICK T \in F : \A U \in F : U \subseteq T => U = T
  <2>1. F \subseteq SUBSET S
    OBVIOUS
  <2> HIDE DEF F
  <2> QED
    BY <2>1, MinimalSubset
<1>2. IsFiniteSet(T)
  BY FS_Subset
<1>3. T # {}
  <2>1. SumOf(f, T) # Cardinality(T) * c
    BY <1>1
  <2>2. 0 * c = 0
    OBVIOUS
  <2> HIDE DEF F
  <2> QED
    BY <2>1, <2>2, SumOfEmpty, FS_EmptySet
<1> DEFINE U == T \ {Pick(T)}
<1>4. Pick(T) \in T
  BY <1>3, PickIn
<1>5. SumOf(f, T) = c + SumOf(f, U)
  BY <1>2, <1>3, <1>4, SumOfPick
<1>6. SumOf(f, U) = Cardinality(U) * c
  BY <1>1, <1>4
<1>7. Cardinality(U) = Cardinality(T) - 1 /\ Cardinality(T) \in Nat
  BY <1>2, <1>4, FS_RemoveElement, FS_CardinalityType
<1>8. (Cardinality(T) - 1) * c = Cardinality(T) * c - c /\ Cardinality(T) * c \in Int
  BY <1>7
<1> QED
  BY <1>1, <1>5, <1>6, <1>7, <1>8

\* The sum of a pointwise sum.
LEMMA SumOfPlus ==
    ASSUME NEW S, IsFiniteSet(S), NEW f, NEW g, NEW h,
           \A x \in S : f[x] \in Int /\ g[x] \in Int /\ h[x] = f[x] + g[x]
    PROVE  SumOf(h, S) = SumOf(f, S) + SumOf(g, S)
<1> DEFINE F == {T \in SUBSET S : SumOf(h, T) # SumOf(f, T) + SumOf(g, T)}
<1> SUFFICES ASSUME F # {} PROVE FALSE
  OBVIOUS
<1>1. PICK T \in F : \A U \in F : U \subseteq T => U = T
  <2>1. F \subseteq SUBSET S
    OBVIOUS
  <2> HIDE DEF F
  <2> QED
    BY <2>1, MinimalSubset
<1>2. IsFiniteSet(T)
  BY FS_Subset
<1>3. T # {}
  <2>1. SumOf(h, T) # SumOf(f, T) + SumOf(g, T)
    BY <1>1
  <2>2. SumOf(h, {}) = 0 /\ SumOf(f, {}) = 0 /\ SumOf(g, {}) = 0
    BY SumOfEmpty
  <2> HIDE DEF F
  <2> SUFFICES ASSUME T = {} PROVE FALSE
    OBVIOUS
  <2>3. 0 # 0 + 0
    BY <2>1, <2>2
  <2> QED
    BY <2>3
<1> DEFINE p == Pick(T)
           U == T \ {p}
<1>4. p \in T
  BY <1>3, PickIn
<1>5. /\ SumOf(f, T) = f[p] + SumOf(f, U)
      /\ SumOf(g, T) = g[p] + SumOf(g, U)
      /\ SumOf(h, T) = h[p] + SumOf(h, U)
  BY <1>2, <1>3, SumOfPick
<1>6. SumOf(h, U) = SumOf(f, U) + SumOf(g, U)
  BY <1>1, <1>4
<1>7. SumOf(f, U) \in Int /\ SumOf(g, U) \in Int
  <2>1. IsFiniteSet(U) /\ \A x \in U : f[x] \in Int /\ g[x] \in Int
    BY <1>2, FS_Subset
  <2> HIDE DEF U
  <2> QED
    BY <2>1, SumOfType
<1>8. p \in S /\ SumOf(h, T) # SumOf(f, T) + SumOf(g, T)
  BY <1>1, <1>4
<1>9. f[p] \in Int /\ g[p] \in Int /\ h[p] = f[p] + g[p]
  BY <1>8
<1> HIDE DEF p, U, F
<1> QED
  BY <1>5, <1>6, <1>7, <1>8, <1>9

\* A function that is nowhere greater has no greater sum.
LEMMA SumOfLeq ==
    ASSUME NEW S, IsFiniteSet(S), NEW f, NEW g,
           \A x \in S : f[x] \in Int /\ g[x] \in Int /\ f[x] <= g[x]
    PROVE  SumOf(f, S) <= SumOf(g, S)
<1> DEFINE h == [x \in S |-> g[x] - f[x]]
<1>1. \A x \in S : h[x] \in Nat /\ g[x] = f[x] + h[x]
  OBVIOUS
<1> HIDE DEF h
<1>2. SumOf(g, S) = SumOf(f, S) + SumOf(h, S)
  BY <1>1, SumOfPlus
<1>3. SumOf(h, S) \in Nat /\ SumOf(f, S) \in Int
  BY <1>1, SumOfType
<1> QED
  BY <1>2, <1>3

\* One more element adds its value.
LEMMA SumOfAdd ==
    ASSUME NEW S, IsFiniteSet(S), NEW a, a \notin S, NEW f, NEW g,
           \A x \in S : f[x] \in Int /\ g[x] = f[x], g[a] \in Int
    PROVE  SumOf(g, S \cup {a}) = SumOf(f, S) + g[a]
<1> DEFINE T == S \cup {a}
<1>1. IsFiniteSet(T) /\ (\A x \in T : g[x] \in Int) /\ a \in T
  BY FS_AddElement
<1>2. T \ {a} = S
  OBVIOUS
<1> HIDE DEF T
<1>3. SumOf(g, T) = g[a] + SumOf(g, S)
  BY <1>1, <1>2, SumOfRemove
<1>4. SumOf(g, S) = SumOf(f, S) /\ SumOf(f, S) \in Int
  BY SumOfSame, SumOfType
<1> QED
  BY <1>1, <1>3, <1>4 DEF T

\* A sum of naturals is zero only when each of them is.
LEMMA SumOfZero ==
    ASSUME NEW S, IsFiniteSet(S), NEW f, \A x \in S : f[x] \in Nat, NEW a \in S,
           SumOf(f, S) = 0
    PROVE  f[a] = 0
<1>1. IsFiniteSet(S \ {a})
  BY FS_Subset
<1>2. SumOf(f, S \ {a}) \in Nat
  BY <1>1, SumOfType
<1>3. SumOf(f, S) = f[a] + SumOf(f, S \ {a})
  BY SumOfRemove
<1> QED
  BY <1>2, <1>3

\* A table is counted class by class.
LEMMA CardinalityByClass ==
    ASSUME NEW S, IsFiniteSet(S), NEW T, IsFiniteSet(T), NEW g, \A x \in S : g[x] \in T
    PROVE  Cardinality(S) = SumOf([t \in T |-> Cardinality({x \in S : g[x] = t})], T)
<1> DEFINE Class(U, t) == {x \in U : g[x] = t}
           count(U) == [t \in T |-> Cardinality(Class(U, t))]
           F == {U \in SUBSET S : Cardinality(U) # SumOf(count(U), T)}
<1> SUFFICES ASSUME F # {} PROVE FALSE
  OBVIOUS
<1>1. PICK U \in F : \A W \in F : W \subseteq U => W = U
  <2>1. F \subseteq SUBSET S
    OBVIOUS
  <2> HIDE DEF F
  <2> QED
    BY <2>1, MinimalSubset
<1>2. U \subseteq S /\ Cardinality(U) # SumOf(count(U), T)
  OBVIOUS
<1>3. U # {}
  <2> SUFFICES ASSUME U = {} PROVE FALSE
    OBVIOUS
  <2>1. \A t \in T : count(U)[t] = 0
    <3>1. \A t \in T : Class(U, t) = {}
      OBVIOUS
    <3> QED
      BY <3>1, FS_EmptySet
  <2> DEFINE f == count(U)
  <2> HIDE DEF f
  <2>2. SumOf(f, T) = Cardinality(T) * 0
    BY <2>1, SumOfConstant DEF f
  <2>3. Cardinality(T) * 0 = 0 /\ Cardinality(U) = 0
    BY FS_CardinalityType, FS_EmptySet
  <2> QED
    BY <1>2, <2>2, <2>3 DEF f
<1>4. PICK a : a \in U
  BY <1>3
<1> DEFINE W == U \ {a}
           c == g[a]
<1>5. a \in S /\ c \in T
  BY <1>2, <1>4
<1>6. IsFiniteSet(U) /\ IsFiniteSet(W) /\ Cardinality(U) = Cardinality(W) + 1
  <2>1. IsFiniteSet(U)
    BY <1>2, FS_Subset
  <2>2. IsFiniteSet(W) /\ Cardinality(W) = Cardinality(U) - 1
    BY <1>4, <2>1, FS_RemoveElement
  <2> QED
    BY <2>1, <2>2, FS_CardinalityType
<1>7. Cardinality(W) = SumOf(count(W), T)
  <2>1. W \notin F /\ W \in SUBSET S
    BY <1>1, <1>2, <1>4
  <2> QED
    BY <2>1
<1>8. \A t \in T : count(U)[t] \in Int /\ count(W)[t] \in Int
  <2> SUFFICES ASSUME NEW t \in T
               PROVE  Cardinality(Class(U, t)) \in Int /\ Cardinality(Class(W, t)) \in Int
    OBVIOUS
  <2>1. IsFiniteSet(Class(U, t)) /\ IsFiniteSet(Class(W, t))
    <3>1. Class(U, t) \subseteq U /\ Class(W, t) \subseteq W
      OBVIOUS
    <3> QED
      BY <1>6, <3>1, FS_Subset
  <2> QED
    BY <2>1, FS_CardinalityType
<1>9. \A t \in T \ {c} : count(U)[t] = count(W)[t]
  <2> SUFFICES ASSUME NEW t \in T \ {c} PROVE Class(U, t) = Class(W, t)
    OBVIOUS
  <2> QED
    OBVIOUS
<1>10. count(U)[c] = count(W)[c] + 1
  <2> DEFINE A == Class(U, c)
             B == Class(W, c)
  <2>1. B = A \ {a} /\ a \in A /\ A \subseteq U
    BY <1>4
  <2>2. count(U)[c] = Cardinality(A) /\ count(W)[c] = Cardinality(B)
    BY <1>5
  <2> HIDE DEF A, B
  <2>3. IsFiniteSet(A)
    BY <1>6, <2>1, FS_Subset
  <2>4. Cardinality(B) = Cardinality(A) - 1 /\ Cardinality(A) \in Nat
    BY <2>1, <2>3, FS_RemoveElement, FS_CardinalityType
  <2>5. Cardinality(A) = Cardinality(B) + 1
    BY <2>4
  <2> QED
    BY <2>2, <2>5
<1> DEFINE f == count(W)
           h == count(U)
<1>11. /\ \A t \in T : f[t] \in Int /\ h[t] \in Int
       /\ \A t \in T \ {c} : h[t] = f[t]
       /\ h[c] = f[c] + 1
  BY <1>8, <1>9, <1>10
<1>12. Cardinality(W) = SumOf(f, T) /\ Cardinality(U) # SumOf(h, T)
  BY <1>2, <1>7
<1> HIDE DEF f, h, W, c, F
<1>13. SumOf(h, T) = SumOf(f, T) - f[c] + h[c]
  <2>1. c \in T /\ \A t \in T \ {c} : h[t] = f[t]
    BY <1>5, <1>11
  <2>2. \A t \in T : f[t] \in Int /\ h[t] \in Int
    BY <1>11
  <2> QED
    BY <2>1, <2>2, SumOfUpdate
<1>14. SumOf(f, T) \in Int
  BY <1>11, SumOfType
<1> QED
  BY <1>5, <1>6, <1>11, <1>12, <1>13, <1>14
=============================================================================
