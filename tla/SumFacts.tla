------------------------------ MODULE SumFacts ------------------------------
(***************************************************************************)
(* What SumFunctionOnSet of the community modules computes: the lemmas by  *)
(* which sums over sets of goroutines enter the other proofs.  Induction   *)
(* over finite sets is by a smallest counterexample (WFMin), which needs   *)
(* no predicate as a parameter.                                            *)
(***************************************************************************)
EXTENDS Integers, FiniteSets, Functions, FiniteSetTheorems, TLAPS

LEMMA Smallest ==
  ASSUME NEW S, IsFiniteSet(S), NEW T \in SUBSET SUBSET S, T # {}
  PROVE  \E U \in T : \A V \in T : V \subseteq U => V = U
<1>1. FiniteSubsetsOf(S) = SUBSET S
  BY FS_FiniteSubsetsOfFinite
<1>2. IsWellFoundedOn(StrictSubsetOrdering(S), SUBSET S)
  BY <1>1, FS_StrictSubsetOrderingWellFounded
<1>3. \E U \in T : \A V \in T : <<V, U>> \notin StrictSubsetOrdering(S)
  BY <1>2, WFMin
<1>. QED BY <1>3 DEF StrictSubsetOrdering

------------------------------------------------------------------------------
(* The recursive function behind SumFunctionOnSet exists. *)

Pick(s) == CHOOSE x \in s : TRUE

Step(f, g, s) == IF s = {} THEN 0 ELSE f[Pick(s)] + g[s \ {Pick(s)}]

Adds(f, S, g) == g = [s \in SUBSET S |-> Step(f, g, s)]

LEMMA SumUnfolds ==
  ASSUME NEW f, NEW S
  PROVE  SumFunctionOnSet(f, S) = (CHOOSE g : Adds(f, S, g))[S]
BY DEF SumFunctionOnSet, FoldFunctionOnSet, MapThenFoldSet, Adds, Step, Pick

LEMMA PickIn == ASSUME NEW s, s # {} PROVE Pick(s) \in s
BY DEF Pick

LEMMA AddsUnique ==
  ASSUME NEW f, NEW S, IsFiniteSet(S), NEW V \in SUBSET S, NEW W \in SUBSET S,
         NEW g, NEW h, Adds(f, V, g), Adds(f, W, h)
  PROVE  \A s \in SUBSET (V \cap W) : g[s] = h[s]
<1>. DEFINE T == {s \in SUBSET (V \cap W) : g[s] # h[s]}
<1>. SUFFICES ASSUME T # {} PROVE FALSE
  OBVIOUS
<1>1. PICK s \in T : \A t \in T : t \subseteq s => t = s
  <2>1. T \in SUBSET SUBSET S
    OBVIOUS
  <2>. HIDE DEF T
  <2>. QED BY <2>1, Smallest
<1>2. s \in SUBSET V /\ s \in SUBSET W
  OBVIOUS
<1>3. g[s] = Step(f, g, s) /\ h[s] = Step(f, h, s)
  BY <1>2 DEF Adds
<1>4. s # {}
  BY <1>3, <1>1 DEF Step
<1>5. Pick(s) \in s
  BY <1>4, PickIn
<1>6. s \ {Pick(s)} \notin T
  BY <1>1, <1>5
<1>7. g[s \ {Pick(s)}] = h[s \ {Pick(s)}]
  BY <1>2, <1>6
<1>. QED BY <1>1, <1>3, <1>7 DEF Step

LEMMA AddsExists ==
  ASSUME NEW f, NEW S, IsFiniteSet(S)
  PROVE  \A U \in SUBSET S : \E g : Adds(f, U, g)
<1>. DEFINE T == {U \in SUBSET S : ~ \E g : Adds(f, U, g)}
<1>. SUFFICES ASSUME T # {} PROVE FALSE
  OBVIOUS
<1>1. PICK U \in T : \A V \in T : V \subseteq U => V = U
  <2>1. T \in SUBSET SUBSET S
    OBVIOUS
  <2>. HIDE DEF T
  <2>. QED BY <2>1, Smallest
<1>. DEFINE F(s) == CHOOSE g : Adds(f, s, g)
            val  == [s \in SUBSET U |-> F(s)[s]]
            h    == [s \in SUBSET U |-> Step(f, val, s)]
<1>2. \A s \in SUBSET U : s # U => Adds(f, s, F(s))
  <2>. SUFFICES ASSUME NEW s \in SUBSET U, s # U PROVE \E g : Adds(f, s, g)
    BY DEF F
  <2>. QED BY <1>1
<1>3. ASSUME NEW s \in SUBSET U, s # U PROVE h[s] = val[s]
  <2>1. Adds(f, s, F(s))
    BY <1>2, <1>3
  <2>2. F(s)[s] = Step(f, F(s), s)
    <3>. HIDE DEF F
    <3>. QED BY <2>1 DEF Adds
  <2>3. val[s] = Step(f, F(s), s)
    BY <2>2
  <2>4. CASE s = {}
    BY <2>3, <2>4 DEF Step
  <2>5. CASE s # {}
    <3>. DEFINE r == s \ {Pick(s)}
    <3>1. Pick(s) \in s
      BY <2>5, PickIn
    <3>2. r \in SUBSET U /\ r # U
      BY <3>1
    <3>3. Adds(f, r, F(r))
      BY <1>2, <3>2
    <3>4. F(s)[r] = F(r)[r]
      <4>. HIDE DEF F
      <4>1. r \in SUBSET (s \cap r) /\ s \in SUBSET S /\ r \in SUBSET S
        OBVIOUS
      <4>. HIDE DEF r
      <4>. QED BY <2>1, <3>3, <4>1, AddsUnique
    <3>5. val[r] = F(r)[r]
      BY <3>2
    <3>. QED BY <2>3, <3>4, <3>5, <2>5 DEF Step
  <2>. QED BY <2>4, <2>5
<1>4. ASSUME NEW s \in SUBSET U PROVE Step(f, val, s) = Step(f, h, s)
  <2>1. CASE s = {}
    BY <2>1 DEF Step
  <2>2. CASE s # {}
    <3>1. s \ {Pick(s)} \in SUBSET U /\ s \ {Pick(s)} # U
      BY <2>2, PickIn
    <3>2. h[s \ {Pick(s)}] = val[s \ {Pick(s)}]
      BY <1>3, <3>1
    <3>. HIDE DEF h, val
    <3>. QED BY <3>2, <2>2 DEF Step
  <2>. QED BY <2>1, <2>2
<1>5. Adds(f, U, h)
  <2>1. h = [s \in SUBSET U |-> Step(f, h, s)]
    <3>1. h = [s \in SUBSET U |-> Step(f, val, s)]
      OBVIOUS
    <3>. HIDE DEF h, val
    <3>. QED BY <1>4, <3>1
  <2>. HIDE DEF h
  <2>. QED BY <2>1 DEF Adds
<1>. QED BY <1>1, <1>5

------------------------------------------------------------------------------
(* Sums. *)

LEMMA SumEmpty == ASSUME NEW f PROVE SumFunctionOnSet(f, {}) = 0
<1>1. PICK g : Adds(f, {}, g)
  BY AddsExists, FS_EmptySet
<1>2. Adds(f, {}, CHOOSE h : Adds(f, {}, h))
  BY <1>1
<1>. DEFINE G == CHOOSE h : Adds(f, {}, h)
<1>3. G[{}] = Step(f, G, {})
  <2>. HIDE DEF G
  <2>1. Adds(f, {}, G)
    BY <1>2 DEF G
  <2>. QED BY <2>1 DEF Adds
<1>. QED BY <1>3, SumUnfolds DEF Step

\* The sum takes its elements in the order of Pick.
LEMMA SumPick ==
  ASSUME NEW f, NEW S, IsFiniteSet(S), S # {}
  PROVE  SumFunctionOnSet(f, S) = f[Pick(S)] + SumFunctionOnSet(f, S \ {Pick(S)})
<1>. DEFINE R == S \ {Pick(S)}
            G == CHOOSE g : Adds(f, S, g)
            H == CHOOSE g : Adds(f, R, g)
<1>1. Adds(f, S, G) /\ Adds(f, R, H)
  <2>1. (\E g : Adds(f, S, g)) /\ (\E g : Adds(f, R, g))
    BY AddsExists
  <2>. QED BY <2>1
<1>2. SumFunctionOnSet(f, S) = G[S] /\ SumFunctionOnSet(f, R) = H[R]
  BY SumUnfolds
<1>3. R \in SUBSET S /\ S \in SUBSET S /\ R \in SUBSET (S \cap R)
  OBVIOUS
<1>. HIDE DEF G, H
<1>4. G[S] = f[Pick(S)] + G[R]
  BY <1>1 DEF Adds, Step
<1>5. G[R] = H[R]
  <2>. HIDE DEF R
  <2>1. \A s \in SUBSET (S \cap R) : G[s] = H[s]
    BY <1>1, <1>3, AddsUnique
  <2>. QED BY <1>3, <2>1
<1>. QED BY <1>2, <1>4, <1>5

\* A sum of naturals is one, and a sum of integers an integer.
LEMMA SumType ==
  ASSUME NEW f, NEW S, IsFiniteSet(S), \A x \in S : f[x] \in Int
  PROVE  /\ SumFunctionOnSet(f, S) \in Int
         /\ (\A x \in S : f[x] >= 0) => SumFunctionOnSet(f, S) >= 0
<1>. DEFINE Good(U) == /\ SumFunctionOnSet(f, U) \in Int
                       /\ (\A x \in S : f[x] >= 0) => SumFunctionOnSet(f, U) >= 0
            T == {U \in SUBSET S : ~Good(U)}
<1>. SUFFICES ASSUME T # {} PROVE FALSE
  OBVIOUS
<1>1. PICK U \in T : \A V \in T : V \subseteq U => V = U
  <2>1. T \in SUBSET SUBSET S
    OBVIOUS
  <2>. HIDE DEF T
  <2>. QED BY <2>1, Smallest
<1>2. U # {}
  <2>1. Good({})
    BY SumEmpty
  <2>. HIDE DEF Good
  <2>. QED BY <2>1
<1>3. Pick(U) \in U
  BY <1>2, PickIn
<1>4. Good(U \ {Pick(U)})
  BY <1>1, <1>3
<1>5. IsFiniteSet(U)
  BY FS_Subset
<1>6. SumFunctionOnSet(f, U) = f[Pick(U)] + SumFunctionOnSet(f, U \ {Pick(U)})
  BY <1>2, <1>5, SumPick
<1>7. Pick(U) \in S
  BY <1>3
<1>8. Good(U)
  BY <1>4, <1>6, <1>7
<1>. QED BY <1>8

\* The order does not matter.
LEMMA SumRemove ==
  ASSUME NEW f, NEW S, IsFiniteSet(S), \A x \in S : f[x] \in Int, NEW y \in S
  PROVE  SumFunctionOnSet(f, S) = f[y] + SumFunctionOnSet(f, S \ {y})
<1>. DEFINE Sum(U) == SumFunctionOnSet(f, U)
            T == {U \in SUBSET S : \E x \in U : Sum(U) # f[x] + Sum(U \ {x})}
<1>. SUFFICES ASSUME T # {} PROVE FALSE
  OBVIOUS
<1>1. PICK U \in T : \A V \in T : V \subseteq U => V = U
  <2>1. T \in SUBSET SUBSET S
    OBVIOUS
  <2>. HIDE DEF T
  <2>. QED BY <2>1, Smallest
<1>2. PICK x \in U : Sum(U) # f[x] + Sum(U \ {x})
  OBVIOUS
<1>. DEFINE p == Pick(U)
<1>3. p \in U /\ Sum(U) = f[p] + Sum(U \ {p})
  BY <1>2, FS_Subset, SumPick, PickIn
<1>4. p # x
  BY <1>2, <1>3
<1>5. /\ Sum(U \ {p}) = f[x] + Sum((U \ {p}) \ {x})
      /\ Sum(U \ {x}) = f[p] + Sum((U \ {x}) \ {p})
  <2>1. U \ {p} \notin T /\ U \ {x} \notin T
    BY <1>1, <1>2, <1>3
  <2>. HIDE DEF p, Sum
  <2>. QED BY <1>2, <1>3, <1>4, <2>1
<1>6. (U \ {p}) \ {x} = (U \ {x}) \ {p}
  OBVIOUS
<1>7. Sum((U \ {x}) \ {p}) \in Int /\ f[x] \in Int /\ f[p] \in Int
  <2>1. (U \ {x}) \ {p} \in SUBSET S /\ x \in S /\ p \in S
    BY <1>3
  <2>. HIDE DEF p
  <2>2. IsFiniteSet((U \ {x}) \ {p})
    BY <2>1, FS_Subset
  <2>. QED BY <2>1, <2>2, SumType
<1>8. Sum(U) = f[x] + Sum(U \ {x})
  <2>. DEFINE rest == Sum((U \ {x}) \ {p})
  <2>1. Sum(U) = f[p] + (f[x] + rest) /\ Sum(U \ {x}) = f[p] + rest
    BY <1>3, <1>5, <1>6
  <2>2. rest \in Int /\ f[x] \in Int /\ f[p] \in Int
    BY <1>7
  <2>. HIDE DEF rest, Sum, p
  <2>. QED BY <2>1, <2>2
<1>. QED BY <1>2, <1>8

\* One more element adds its value.
LEMMA SumAdd ==
  ASSUME NEW f, NEW S, IsFiniteSet(S), NEW y, y \notin S,
         \A x \in S \cup {y} : f[x] \in Int
  PROVE  SumFunctionOnSet(f, S \cup {y}) = f[y] + SumFunctionOnSet(f, S)
<1>1. IsFiniteSet(S \cup {y}) /\ (S \cup {y}) \ {y} = S
  BY FS_AddElement
<1>. QED BY <1>1, SumRemove

\* Only the values on the set matter.
LEMMA SumSame ==
  ASSUME NEW f, NEW g, NEW S, IsFiniteSet(S), \A x \in S : f[x] = g[x]
  PROVE  SumFunctionOnSet(f, S) = SumFunctionOnSet(g, S)
<1>. DEFINE T == {U \in SUBSET S : SumFunctionOnSet(f, U) # SumFunctionOnSet(g, U)}
<1>. SUFFICES ASSUME T # {} PROVE FALSE
  OBVIOUS
<1>1. PICK U \in T : \A V \in T : V \subseteq U => V = U
  <2>1. T \in SUBSET SUBSET S
    OBVIOUS
  <2>. HIDE DEF T
  <2>. QED BY <2>1, Smallest
<1>2. U # {} /\ IsFiniteSet(U)
  BY <1>1, SumEmpty, FS_Subset
<1>3. Pick(U) \in U
  BY <1>2, PickIn
<1>4. U \ {Pick(U)} \notin T
  BY <1>1, <1>3
<1>5. /\ SumFunctionOnSet(f, U) = f[Pick(U)] + SumFunctionOnSet(f, U \ {Pick(U)})
      /\ SumFunctionOnSet(g, U) = g[Pick(U)] + SumFunctionOnSet(g, U \ {Pick(U)})
  BY <1>2, SumPick
<1>. QED BY <1>1, <1>3, <1>4, <1>5

\* A sum grows with its set, if nothing it adds is negative.
LEMMA SumMonotonic ==
  ASSUME NEW f, NEW S, IsFiniteSet(S), \A x \in S : f[x] \in Nat, NEW R \in SUBSET S
  PROVE  SumFunctionOnSet(f, R) <= SumFunctionOnSet(f, S)
<1>. DEFINE Sum(U) == SumFunctionOnSet(f, U)
            T == {U \in SUBSET S : R \subseteq U /\ ~(Sum(R) <= Sum(U))}
<1>0. IsFiniteSet(R) /\ Sum(R) \in Int
  BY FS_Subset, SumType
<1>. SUFFICES ASSUME T # {} PROVE FALSE
  BY <1>0
<1>1. PICK U \in T : \A V \in T : V \subseteq U => V = U
  <2>1. T \in SUBSET SUBSET S
    OBVIOUS
  <2>. HIDE DEF T
  <2>. QED BY <2>1, Smallest
<1>2. PICK y \in U \ R : TRUE
  <2>1. U # R
    BY <1>0, <1>1
  <2>. QED BY <1>1, <2>1
<1>3. Sum(R) <= Sum(U \ {y})
  BY <1>1, <1>2
<1>4. IsFiniteSet(U) /\ y \in S /\ U \ {y} \in SUBSET S
  BY FS_Subset
<1>5. Sum(U) = f[y] + Sum(U \ {y}) /\ Sum(U \ {y}) \in Int
  BY <1>2, <1>4, SumRemove, SumType, FS_Subset
<1>. QED BY <1>0, <1>1, <1>3, <1>4, <1>5
=============================================================================
