----------------------------- MODULE SumTheorems -----------------------------
(***************************************************************************)
(* Facts about SumFunctionOnSet, the sum of a function over a finite set,  *)
(* and about Max, for the totals this project's modules keep: received     *)
(* quantities, amounts matched, costs of line items.                       *)
(*                                                                         *)
(* The sum is a function defined by recursion on subsets.  That the        *)
(* recursion has a solution, and what follows by induction on the size of  *)
(* the set, is proved from the smallest counterexample there would be.     *)
(***************************************************************************)
EXTENDS FiniteSetsExt, FiniteSetTheorems, WellFoundedInduction, TLAPS

(***************************************************************************)
(* The recursion behind the sum, and its solution.                         *)
(***************************************************************************)
Pick(s) == CHOOSE x \in s : TRUE

Body(f, g, s) == IF s = {} THEN 0 ELSE f[Pick(s)] + g[s \ {Pick(s)}]

Solves(g, f, S) == g = [s \in SUBSET S |-> Body(f, g, s)]

Iter(f, S) == CHOOSE g : g = [s \in SUBSET S |-> Body(f, g, s)]

\* A sum is the value at the whole set of the recursion's chosen solution.
LEMMA SumIter == \A f, S : SumFunctionOnSet(f, S) = Iter(f, S)[S]
BY DEF SumFunctionOnSet, FoldFunctionOnSet, MapThenFoldSet, Iter, Body, Pick

\* A nonempty set has a picked element.
LEMMA PickIn == \A s : s # {} => Pick(s) \in s
BY DEF Pick

\* A nonempty collection of subsets of a finite set has a minimal one.
LEMMA Minimal ==
    ASSUME NEW S, IsFiniteSet(S), NEW T, T \subseteq SUBSET S, T # {}
    PROVE  \E U \in T : \A V \in SUBSET U : V # U => V \notin T
<1> DEFINE R == StrictSubsetOrdering(S)
<1>1. IsWellFoundedOn(R, FiniteSubsetsOf(S))
  BY FS_StrictSubsetOrderingWellFounded
<1>2. T \subseteq FiniteSubsetsOf(S)
  BY FS_Subset DEF FiniteSubsetsOf
<1>3. PICK U \in T : \A V \in T : ~ (<<V, U>> \in R)
  <2> HIDE DEF R
  <2> QED
    BY <1>1, <1>2, WFMin
<1>4. ASSUME NEW V \in SUBSET U, V # U, V \in T PROVE FALSE
  <2>1. <<V, U>> \in R
    BY <1>4 DEF StrictSubsetOrdering
  <2> QED
    BY <2>1, <1>3, <1>4
<1> QED
  BY <1>4

\* Two solutions, of one function on two sets, agree where both are defined.
LEMMA Unique ==
    ASSUME NEW f, NEW A, NEW B, NEW g, NEW h, Solves(g, f, A), Solves(h, f, B),
           IsFiniteSet(A), NEW s \in SUBSET A, s \in SUBSET B
    PROVE  g[s] = h[s]
<1> DEFINE T == {u \in SUBSET A : u \in SUBSET B /\ g[u] # h[u]}
<1> SUFFICES ASSUME T # {} PROVE FALSE
  OBVIOUS
<1>1. PICK u \in T : \A v \in SUBSET u : v # u => v \notin T
  <2>1. T \subseteq SUBSET A
    OBVIOUS
  <2> HIDE DEF T
  <2> QED
    BY <2>1, Minimal
<1>2. g[u] = Body(f, g, u) /\ h[u] = Body(f, h, u)
  BY DEF Solves
<1>3. CASE u = {}
  BY <1>2, <1>3 DEF Body
<1>4. CASE u # {}
  <2> DEFINE v == u \ {Pick(u)}
  <2>1. v \in SUBSET u /\ v # u
    BY <1>4, PickIn
  <2>2. g[v] = h[v]
    BY <1>1, <2>1
  <2> QED
    BY <1>2, <1>4, <2>2 DEF Body
<1> QED
  BY <1>3, <1>4

\* The recursion has a solution on every finite set.
LEMMA Exists ==
    ASSUME NEW f, NEW S, IsFiniteSet(S)
    PROVE  Solves(Iter(f, S), f, S)
<1> DEFINE T == {U \in SUBSET S : ~ Solves(Iter(f, U), f, U)}
<1> SUFFICES ASSUME T # {} PROVE FALSE
  OBVIOUS
<1>1. PICK U \in T : \A V \in SUBSET U : V # U => V \notin T
  <2>1. T \subseteq SUBSET S
    OBVIOUS
  <2> HIDE DEF T
  <2> QED
    BY <2>1, Minimal
<1>2. ASSUME NEW V \in SUBSET U, V # U PROVE Solves(Iter(f, V), f, V)
  BY <1>1, <1>2
<1> DEFINE part(V) == Iter(f, V)[V]
           g == [s \in SUBSET U |-> IF s = {} THEN 0 ELSE f[Pick(s)] + part(s \ {Pick(s)})]
<1>3. ASSUME NEW s \in SUBSET U, s # U PROVE g[s] = part(s)
  <2> DEFINE v == s \ {Pick(s)}
  <2>1. Solves(Iter(f, s), f, s)
    BY <1>2, <1>3
  <2>2. part(s) = Body(f, Iter(f, s), s)
    BY <2>1 DEF Solves
  <2>3. CASE s = {}
    BY <2>2, <2>3 DEF Body
  <2>4. CASE s # {}
    <3>1. v \in SUBSET s /\ v # U
      BY <1>3, <2>4
    <3>2. Solves(Iter(f, v), f, v)
      BY <1>2, <3>1
    <3>3. IsFiniteSet(s) /\ v \in SUBSET v
      BY FS_Subset
    <3>4. Iter(f, s)[v] = part(v)
      BY <2>1, <3>1, <3>2, <3>3, Unique
    <3>5. part(s) = f[Pick(s)] + Iter(f, s)[v]
      BY <2>2, <2>4 DEF Body
    <3>6. g[s] = f[Pick(s)] + part(v)
      BY <2>4
    <3> QED
      BY <3>4, <3>5, <3>6
  <2> QED
    BY <2>3, <2>4
<1>4. ASSUME NEW s \in SUBSET U PROVE g[s] = Body(f, g, s)
  <2>1. CASE s = {}
    BY <2>1 DEF Body
  <2>2. CASE s # {}
    <3> DEFINE v == s \ {Pick(s)}
    <3>1. v \in SUBSET U /\ v # U
      BY <2>2, PickIn
    <3>2. g[v] = part(v)
      BY <3>1, <1>3
    <3> QED
      BY <2>2, <3>2 DEF Body
  <2> QED
    BY <2>1, <2>2
<1>5. g = [s \in SUBSET U |-> Body(f, g, s)]
  <2> HIDE DEF part
  <2>1. g = [s \in SUBSET U |-> g[s]]
    OBVIOUS
  <2> HIDE DEF g
  <2> QED
    BY <1>4, <2>1
<1>6. Solves(Iter(f, U), f, U)
  <2>1. \E h : h = [s \in SUBSET U |-> Body(f, h, s)]
    <3> HIDE DEF g
    <3> QED
      BY <1>5
  <2> QED
    BY <2>1 DEF Iter, Solves
<1> QED
  BY <1>6

(***************************************************************************)
(* What a sum is, however it was computed.                                 *)
(***************************************************************************)
\* Nothing adds up to zero.
LEMMA SumEmpty == \A f : SumFunctionOnSet(f, {}) = 0
<1> TAKE f
<1>1. Solves(Iter(f, {}), f, {})
  BY Exists, FS_EmptySet
<1> QED
  BY <1>1, SumIter DEF Solves, Body

\* A sum is its picked element and the sum of the rest.
LEMMA SumUnfold ==
    ASSUME NEW f, NEW S, IsFiniteSet(S), S # {}
    PROVE  SumFunctionOnSet(f, S) = f[Pick(S)] + SumFunctionOnSet(f, S \ {Pick(S)})
<1> DEFINE V == S \ {Pick(S)}
<1>1. Solves(Iter(f, S), f, S)
  BY Exists
<1>2. IsFiniteSet(V)
  BY FS_Subset
<1>3. Solves(Iter(f, V), f, V)
  BY <1>2, Exists
<1>4. Iter(f, S)[V] = Iter(f, V)[V]
  <2>1. V \in SUBSET S /\ V \in SUBSET V
    OBVIOUS
  <2> QED
    BY <1>1, <1>3, <2>1, Unique
<1>5. Iter(f, S)[S] = f[Pick(S)] + Iter(f, S)[V]
  BY <1>1 DEF Solves, Body
<1> QED
  BY <1>4, <1>5, SumIter

\* A sum of integers is an integer.
LEMMA SumInt ==
    ASSUME NEW f, NEW S, IsFiniteSet(S), \A x \in S : f[x] \in Int
    PROVE  SumFunctionOnSet(f, S) \in Int
<1> DEFINE T == {U \in SUBSET S : SumFunctionOnSet(f, U) \notin Int}
<1> SUFFICES ASSUME T # {} PROVE FALSE
  OBVIOUS
<1>1. PICK U \in T : \A V \in SUBSET U : V # U => V \notin T
  <2>1. T \subseteq SUBSET S
    OBVIOUS
  <2> HIDE DEF T
  <2> QED
    BY <2>1, Minimal
<1>2. U # {}
  BY SumEmpty
<1>3. Pick(U) \in U /\ IsFiniteSet(U)
  BY <1>2, PickIn, FS_Subset
<1>4. SumFunctionOnSet(f, U \ {Pick(U)}) \in Int
  BY <1>1, <1>3
<1>5. SumFunctionOnSet(f, U) = f[Pick(U)] + SumFunctionOnSet(f, U \ {Pick(U)})
  BY <1>2, <1>3, SumUnfold
<1> QED
  BY <1>3, <1>4, <1>5

\* Any element may be taken out of a sum.
LEMMA SumRemove ==
    ASSUME NEW f, NEW S, IsFiniteSet(S), \A x \in S : f[x] \in Int, NEW r \in S
    PROVE  SumFunctionOnSet(f, S) = f[r] + SumFunctionOnSet(f, S \ {r})
<1> DEFINE Sum(U) == SumFunctionOnSet(f, U)
           T == {U \in SUBSET S : \E x \in U : Sum(U) # f[x] + Sum(U \ {x})}
<1> SUFFICES ASSUME T # {} PROVE FALSE
  BY DEF T
<1>1. PICK U \in T : \A V \in SUBSET U : V # U => V \notin T
  <2>1. T \subseteq SUBSET S
    OBVIOUS
  <2> HIDE DEF T
  <2> QED
    BY <2>1, Minimal
<1>2. PICK x \in U : Sum(U) # f[x] + Sum(U \ {x})
  OBVIOUS
<1> DEFINE p == Pick(U)
<1>3. p \in U /\ IsFiniteSet(U) /\ IsFiniteSet(U \ {p, x})
  BY PickIn, FS_Subset
<1>4. Sum(U) = f[p] + Sum(U \ {p})
  BY <1>3, SumUnfold
<1>5. p # x
  BY <1>2, <1>4
<1>6. Sum(U \ {p}) = f[x] + Sum(U \ {p, x})
  <2>1. (U \ {p}) \ {x} = U \ {p, x} /\ U \ {p} # U /\ x \in U \ {p}
    BY <1>3, <1>5
  <2>2. U \ {p} \notin T
    BY <1>1, <2>1
  <2> QED
    BY <2>1, <2>2
<1>7. Sum(U \ {x}) = f[p] + Sum(U \ {p, x})
  <2>1. (U \ {x}) \ {p} = U \ {p, x} /\ U \ {x} # U /\ p \in U \ {x}
    BY <1>3, <1>5
  <2>2. U \ {x} \notin T
    BY <1>1, <2>1
  <2> QED
    BY <2>1, <2>2
<1>8. Sum(U \ {p, x}) \in Int /\ f[p] \in Int /\ f[x] \in Int
  BY <1>3, SumInt
<1> QED
  <2> HIDE DEF Sum
  <2> QED
    BY <1>2, <1>4, <1>6, <1>7, <1>8

\* Element by element at most as much is at most as much in all.
LEMMA SumMonotone ==
    ASSUME NEW f, NEW g, NEW S, IsFiniteSet(S),
           \A x \in S : f[x] \in Int /\ g[x] \in Int /\ f[x] <= g[x]
    PROVE  SumFunctionOnSet(f, S) <= SumFunctionOnSet(g, S)
<1> DEFINE T == {U \in SUBSET S : ~ (SumFunctionOnSet(f, U) <= SumFunctionOnSet(g, U))}
<1> SUFFICES ASSUME T # {} PROVE FALSE
  OBVIOUS
<1>1. PICK U \in T : \A V \in SUBSET U : V # U => V \notin T
  <2>1. T \subseteq SUBSET S
    OBVIOUS
  <2> HIDE DEF T
  <2> QED
    BY <2>1, Minimal
<1>2. U # {}
  BY SumEmpty
<1> DEFINE p == Pick(U)
           V == U \ {p}
<1>3. p \in U /\ IsFiniteSet(U) /\ IsFiniteSet(V)
  BY <1>2, PickIn, FS_Subset
<1>4. SumFunctionOnSet(f, V) <= SumFunctionOnSet(g, V)
  BY <1>1, <1>3
<1>5. /\ SumFunctionOnSet(f, U) = f[p] + SumFunctionOnSet(f, V)
      /\ SumFunctionOnSet(g, U) = g[p] + SumFunctionOnSet(g, V)
  BY <1>2, <1>3, SumUnfold
<1>6. SumFunctionOnSet(f, V) \in Int /\ SumFunctionOnSet(g, V) \in Int
  BY <1>3, SumInt
<1>7. f[p] \in Int /\ g[p] \in Int /\ f[p] <= g[p]
  BY <1>3
<1> QED
  BY <1>4, <1>5, <1>6, <1>7

\* Functions that agree on a set add up to the same on it.
LEMMA SumEqual ==
    ASSUME NEW f, NEW g, NEW S, IsFiniteSet(S), \A x \in S : f[x] \in Int /\ f[x] = g[x]
    PROVE  SumFunctionOnSet(f, S) = SumFunctionOnSet(g, S)
<1>1. SumFunctionOnSet(f, S) <= SumFunctionOnSet(g, S)
  BY SumMonotone
<1>2. SumFunctionOnSet(g, S) <= SumFunctionOnSet(f, S)
  BY SumMonotone
<1>3. SumFunctionOnSet(f, S) \in Int /\ SumFunctionOnSet(g, S) \in Int
  BY SumInt
<1> QED
  BY <1>1, <1>2, <1>3

\* Zeros add up to zero.
LEMMA SumOfZeros ==
    ASSUME NEW f, NEW S, IsFiniteSet(S), \A x \in S : f[x] = 0
    PROVE  SumFunctionOnSet(f, S) = 0
<1> DEFINE T == {U \in SUBSET S : SumFunctionOnSet(f, U) # 0}
<1> SUFFICES ASSUME T # {} PROVE FALSE
  OBVIOUS
<1>1. PICK U \in T : \A V \in SUBSET U : V # U => V \notin T
  <2>1. T \subseteq SUBSET S
    OBVIOUS
  <2> HIDE DEF T
  <2> QED
    BY <2>1, Minimal
<1>2. U # {}
  BY SumEmpty
<1>3. Pick(U) \in U /\ IsFiniteSet(U)
  BY <1>2, PickIn, FS_Subset
<1>4. SumFunctionOnSet(f, U \ {Pick(U)}) = 0
  BY <1>1, <1>3
<1>5. SumFunctionOnSet(f, U) = f[Pick(U)] + SumFunctionOnSet(f, U \ {Pick(U)})
  BY <1>2, <1>3, SumUnfold
<1> QED
  BY <1>3, <1>4, <1>5

\* Natural numbers add up to a natural number, at least each of them.
LEMMA SumNat ==
    ASSUME NEW f, NEW S, IsFiniteSet(S), \A x \in S : f[x] \in Nat
    PROVE  /\ SumFunctionOnSet(f, S) \in Nat
           /\ \A x \in S : f[x] <= SumFunctionOnSet(f, S)
<1>1. ASSUME NEW U \in SUBSET S PROVE SumFunctionOnSet(f, U) \in Nat
  <2> DEFINE z == [x \in U |-> 0]
  <2>1. IsFiniteSet(U) /\ \A x \in U : f[x] \in Int /\ z[x] \in Int /\ z[x] <= f[x]
    BY FS_Subset
  <2>2. SumFunctionOnSet(z, U) = 0
    BY <2>1, SumOfZeros
  <2>3. SumFunctionOnSet(z, U) <= SumFunctionOnSet(f, U) /\ SumFunctionOnSet(f, U) \in Int
    <3> HIDE DEF z
    <3> QED
      BY <2>1, SumMonotone, SumInt
  <2> QED
    BY <2>2, <2>3
<1>2. ASSUME NEW x \in S PROVE f[x] <= SumFunctionOnSet(f, S)
  <2>1. SumFunctionOnSet(f, S) = f[x] + SumFunctionOnSet(f, S \ {x})
    BY SumRemove
  <2>2. SumFunctionOnSet(f, S \ {x}) \in Nat /\ f[x] \in Nat
    BY <1>1
  <2> QED
    BY <2>1, <2>2
<1> QED
  BY <1>1, <1>2

\* A sum of natural numbers is positive exactly if one of them is.
LEMMA SumPositive ==
    ASSUME NEW f, NEW S, IsFiniteSet(S), \A x \in S : f[x] \in Nat
    PROVE  SumFunctionOnSet(f, S) > 0 <=> \E x \in S : f[x] > 0
<1>1. ASSUME NEW x \in S, f[x] > 0 PROVE SumFunctionOnSet(f, S) > 0
  BY <1>1, SumNat
<1>2. ASSUME \A x \in S : ~ (f[x] > 0) PROVE SumFunctionOnSet(f, S) = 0
  BY <1>2, SumOfZeros
<1> QED
  BY <1>1, <1>2

\* Changing a function at one place changes its sum by as much.
LEMMA SumUpdate ==
    ASSUME NEW f, NEW g, NEW S, IsFiniteSet(S), NEW r \in S,
           \A x \in S : f[x] \in Int /\ g[x] \in Int,
           \A x \in S \ {r} : g[x] = f[x]
    PROVE  SumFunctionOnSet(g, S) = SumFunctionOnSet(f, S) - f[r] + g[r]
<1>1. IsFiniteSet(S \ {r})
  BY FS_Subset
<1>2. SumFunctionOnSet(f, S \ {r}) = SumFunctionOnSet(g, S \ {r})
  BY <1>1, SumEqual
<1>3. SumFunctionOnSet(f, S \ {r}) \in Int
  BY <1>1, SumInt
<1>4. /\ SumFunctionOnSet(f, S) = f[r] + SumFunctionOnSet(f, S \ {r})
      /\ SumFunctionOnSet(g, S) = g[r] + SumFunctionOnSet(g, S \ {r})
  BY SumRemove
<1> QED
  BY <1>2, <1>3, <1>4

\* What adds nothing may be left out of a sum.
LEMMA SumSupport ==
    ASSUME NEW f, NEW S, IsFiniteSet(S), NEW U \in SUBSET S,
           \A x \in S : f[x] \in Int, \A x \in S \ U : f[x] = 0
    PROVE  SumFunctionOnSet(f, U) = SumFunctionOnSet(f, S)
<1> DEFINE T == {V \in SUBSET S : U \subseteq V /\ SumFunctionOnSet(f, V) # SumFunctionOnSet(f, U)}
<1> SUFFICES ASSUME T # {} PROVE FALSE
  OBVIOUS
<1>1. PICK V \in T : \A W \in SUBSET V : W # V => W \notin T
  <2>1. T \subseteq SUBSET S
    OBVIOUS
  <2> HIDE DEF T
  <2> QED
    BY <2>1, Minimal
<1>2. PICK x \in V : x \notin U
  OBVIOUS
<1>3. IsFiniteSet(V)
  BY FS_Subset
<1>4. SumFunctionOnSet(f, V) = f[x] + SumFunctionOnSet(f, V \ {x})
  BY <1>3, SumRemove
<1>5. SumFunctionOnSet(f, V \ {x}) = SumFunctionOnSet(f, U)
  BY <1>1, <1>2
<1>6. SumFunctionOnSet(f, V \ {x}) \in Int /\ f[x] = 0
  BY <1>2, <1>3, FS_Subset, SumInt
<1> QED
  BY <1>4, <1>5, <1>6

\* A finite nonempty set of integers has a greatest element.
LEMMA MaxIsGreatest ==
    ASSUME NEW S \in SUBSET Int, IsFiniteSet(S), S # {}
    PROVE  Max(S) \in S /\ \A y \in S : y <= Max(S)
<1> DEFINE HasMax(U) == \E x \in U : \A y \in U : x >= y
           T == {U \in SUBSET S : U # {} /\ ~ HasMax(U)}
<1>1. T = {}
  <2> SUFFICES ASSUME T # {} PROVE FALSE
    OBVIOUS
  <2>1. PICK U \in T : \A V \in SUBSET U : V # U => V \notin T
    <3>1. T \subseteq SUBSET S
      OBVIOUS
    <3> HIDE DEF T
    <3> QED
      BY <3>1, Minimal
  <2>2. PICK p \in U : TRUE
    OBVIOUS
  <2> DEFINE V == U \ {p}
  <2>3. CASE V = {}
    <3>1. U = {p} /\ p >= p
      BY <2>2, <2>3
    <3> QED
      BY <3>1
  <2>4. CASE V # {}
    <3>1. PICK x \in V : \A y \in V : x >= y
      BY <2>1, <2>2, <2>4
    <3>2. x \in Int /\ p \in Int /\ V \subseteq Int
      OBVIOUS
    <3>3. CASE x >= p
      BY <3>1, <3>2, <3>3
    <3>4. CASE p >= x
      <4>1. \A y \in U : p >= y
        BY <3>1, <3>2, <3>4
      <4> QED
        BY <4>1
    <3> QED
      BY <3>2, <3>3, <3>4
  <2> QED
    BY <2>3, <2>4
<1>2. HasMax(S)
  BY <1>1
<1>3. Max(S) \in S /\ \A y \in S : Max(S) >= y
  BY <1>2 DEF Max
<1> QED
  BY <1>3
=============================================================================
