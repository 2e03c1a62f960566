-------------------------------- MODULE Sums --------------------------------
(***************************************************************************)
(* Facts about the sums of the community modules, SumFunctionOnSet(f, S),  *)
(* over finite sets S.  The sum is a recursive function over the subsets   *)
(* of S that takes away some element at each step; here it is shown that   *)
(* there is such a function, that it matters not which element is taken,   *)
(* and what follows for sums of which one summand changes.                 *)
(*                                                                         *)
(* Induction is over sets of sets, by the least of the counterexamples     *)
(* (WFMin), so that no fact with an operator as its parameter is needed.   *)
(***************************************************************************)
EXTENDS FiniteSetsExt, FiniteSetTheorems, TLAPS

\* What holds of a set as soon as it holds of all its proper subsets holds of
\* every subset of a finite set.
LEMMA SubsetInduction ==
    ASSUME NEW S, IsFiniteSet(S), NEW D,
           \A T \in SUBSET S : (\A U \in SUBSET T : U # T => U \in D) => T \in D
    PROVE  SUBSET S \subseteq D
<1> DEFINE C == (SUBSET S) \ D
<1> SUFFICES ASSUME C # {} PROVE FALSE
  OBVIOUS
<1>1. IsWellFoundedOn(StrictSubsetOrdering(S), FiniteSubsetsOf(S))
  BY FS_StrictSubsetOrderingWellFounded
<1>2. C \subseteq FiniteSubsetsOf(S)
  BY FS_FiniteSubsetsOfFinite
<1>3. \E T \in C : \A U \in C : ~ (<<U, T>> \in StrictSubsetOrdering(S))
  <2> HIDE DEF C
  <2>1. QED
    BY <1>1, <1>2, WFMin
<1>4. PICK T \in C : \A U \in C : ~ (<<U, T>> \in StrictSubsetOrdering(S))
  BY <1>3
<1>5. \A U \in SUBSET T : U # T => U \in D
  BY <1>4 DEF StrictSubsetOrdering
<1>6. QED
  BY <1>4, <1>5

-----------------------------------------------------------------------------
(* The recursive function behind a sum. *)

Some(T) == CHOOSE x \in T : TRUE

\* g is that function, for the subsets of T.
Sums(f, g, T) ==
    g = [s \in SUBSET T |-> IF s = {} THEN 0 ELSE f[Some(s)] + g[s \ {Some(s)}]]

SumsTo(f, T) == CHOOSE g : Sums(f, g, T)

\* Of a set that is not empty, some element is one of it.
LEMMA SomeIn == \A T : T # {} => Some(T) \in T
BY DEF Some

\* What the function gives for one of the subsets.
LEMMA SumsAt ==
    ASSUME NEW f, NEW g, NEW T, Sums(f, g, T), NEW s \in SUBSET T
    PROVE  g[s] = IF s = {} THEN 0 ELSE f[Some(s)] + g[s \ {Some(s)}]
<1> DEFINE G == [t \in SUBSET T |-> IF t = {} THEN 0 ELSE f[Some(t)] + g[t \ {Some(t)}]]
<1>1. g = G
  BY Zenon DEF Sums
<1>2. G[s] = IF s = {} THEN 0 ELSE f[Some(s)] + g[s \ {Some(s)}]
  OBVIOUS
<1> HIDE DEF G
<1>3. QED
  BY <1>1, <1>2, Zenon

\* And for the whole set.
LEMMA SumsTop ==
    ASSUME NEW f, NEW T, Sums(f, SumsTo(f, T), T)
    PROVE  SumsTo(f, T)[T] = IF T = {} THEN 0 ELSE f[Some(T)] + SumsTo(f, T)[T \ {Some(T)}]
<1> DEFINE g == SumsTo(f, T)
<1>1. Sums(f, g, T)
  OBVIOUS
<1> HIDE DEF g
<1>2. g[T] = IF T = {} THEN 0 ELSE f[Some(T)] + g[T \ {Some(T)}]
  BY <1>1, SumsAt
<1> USE DEF g
<1>3. QED
  BY <1>2

\* Two such functions agree where both are defined.
LEMMA SumsUnique ==
    ASSUME NEW f, NEW S, IsFiniteSet(S), NEW g, NEW h, NEW T, S \subseteq T,
           Sums(f, g, S), Sums(f, h, T)
    PROVE  g[S] = h[S]
<1> DEFINE D == {s \in SUBSET S : g[s] = h[s]}
<1>1. ASSUME NEW s \in SUBSET S, \A u \in SUBSET s : u # s => u \in D
      PROVE  s \in D
  <2>1. g[s] = (IF s = {} THEN 0 ELSE f[Some(s)] + g[s \ {Some(s)}])
    BY SumsAt
  <2>2. h[s] = (IF s = {} THEN 0 ELSE f[Some(s)] + h[s \ {Some(s)}])
    BY SumsAt
  <2>3. CASE s = {}
    BY <2>1, <2>2, <2>3
  <2>4. CASE s # {}
    <3>1. s \ {Some(s)} \in SUBSET s /\ s \ {Some(s)} # s
      BY <2>4, SomeIn
    <3>2. g[s \ {Some(s)}] = h[s \ {Some(s)}]
      BY <1>1, <3>1
    <3>3. QED
      BY <2>1, <2>2, <2>4, <3>2
  <2>5. QED
    BY <2>3, <2>4
<1>2. SUBSET S \subseteq D
  <2> HIDE DEF D
  <2>1. QED
    BY <1>1, SubsetInduction
<1>3. QED
  BY <1>2

\* There is such a function.
LEMMA SumsExist ==
    ASSUME NEW f, NEW S, IsFiniteSet(S)
    PROVE  Sums(f, SumsTo(f, S), S)
<1> DEFINE D == {T \in SUBSET S : Sums(f, SumsTo(f, T), T)}
<1>1. ASSUME NEW T \in SUBSET S, \A U \in SUBSET T : U # T => U \in D
      PROVE  T \in D
  <2> DEFINE Less(s) == s \ {Some(s)}
             Value(s) == IF s = {} THEN 0 ELSE f[Some(s)] + SumsTo(f, Less(s))[Less(s)]
             g == [s \in SUBSET T |-> Value(s)]
  <2>1. ASSUME NEW s \in SUBSET T, s # {}
        PROVE  SumsTo(f, Less(s))[Less(s)] = g[Less(s)]
    <3>1. Less(s) \in SUBSET T /\ Less(s) # T /\ Less(s) \in SUBSET S
      BY <2>1, SomeIn
    <3>2. g[Less(s)] = Value(Less(s))
      BY <3>1
    <3>3. Sums(f, SumsTo(f, Less(s)), Less(s))
      BY <1>1, <3>1
    <3>4. SumsTo(f, Less(s))[Less(s)] =
             IF Less(s) = {} THEN 0
             ELSE f[Some(Less(s))] + SumsTo(f, Less(s))[Less(Less(s))]
      <4>1. \A L : Sums(f, SumsTo(f, L), L) =>
               SumsTo(f, L)[L] = IF L = {} THEN 0 ELSE f[Some(L)] + SumsTo(f, L)[L \ {Some(L)}]
        BY SumsTop
      <4>2. QED
        BY <3>3, <4>1
    <3>5. ASSUME Less(s) # {}
          PROVE  SumsTo(f, Less(s))[Less(Less(s))] = SumsTo(f, Less(Less(s)))[Less(Less(s))]
      <4>1. Less(Less(s)) \subseteq Less(s) /\ Less(Less(s)) \in SUBSET T /\ Less(Less(s)) # T
        BY <3>1, <3>5, SomeIn
      <4>2. Sums(f, SumsTo(f, Less(Less(s))), Less(Less(s)))
        BY <1>1, <4>1
      <4>3. IsFiniteSet(Less(Less(s)))
        BY <4>1, FS_Subset
      <4> HIDE DEF Less
      <4>4. QED
        BY <3>3, <4>1, <4>2, <4>3, SumsUnique
    <3>6. QED
      BY <3>2, <3>4, <3>5
  <2>2. \A s \in SUBSET T : g[s] = IF s = {} THEN 0 ELSE f[Some(s)] + g[Less(s)]
    <3> SUFFICES ASSUME NEW s \in SUBSET T
                 PROVE  g[s] = IF s = {} THEN 0 ELSE f[Some(s)] + g[Less(s)]
      OBVIOUS
    <3>1. g[s] = Value(s)
      OBVIOUS
    <3> HIDE DEF g
    <3>2. QED
      BY <2>1, <3>1
  <2>3. g = [s \in SUBSET T |-> g[s]]
    OBVIOUS
  <2>4. Sums(f, g, T)
    <3> HIDE DEF g
    <3>1. QED
      BY <2>2, <2>3 DEF Sums
  <2>5. QED
    BY <2>4, Zenon DEF SumsTo
<1>2. SUBSET S \subseteq D
  <2> HIDE DEF D
  <2>1. QED
    BY <1>1, SubsetInduction
<1>3. QED
  BY <1>2

\* The sum of the community modules is the value of that function.
LEMMA SumIs == \A f, S : SumFunctionOnSet(f, S) = SumsTo(f, S)[S]
BY DEF SumFunctionOnSet, FoldFunctionOnSet, MapThenFoldSet, SumsTo, Sums, Some

-----------------------------------------------------------------------------
(* Sums over finite sets. *)

\* Nothing sums up to zero.
THEOREM SumEmpty == \A f : SumFunctionOnSet(f, {}) = 0
<1> TAKE f
<1>1. Sums(f, SumsTo(f, {}), {})
  BY FS_EmptySet, SumsExist
<1>2. QED
  BY <1>1, SumsAt, SumIs

\* The element that is taken first.
LEMMA SumUnfold ==
    ASSUME NEW f, NEW S, IsFiniteSet(S), S # {}
    PROVE  SumFunctionOnSet(f, S) = f[Some(S)] + SumFunctionOnSet(f, S \ {Some(S)})
<1> DEFINE Less == S \ {Some(S)}
<1>1. Less \in SUBSET S /\ Less \subseteq S /\ IsFiniteSet(Less)
  BY FS_Subset
<1>2. Sums(f, SumsTo(f, S), S) /\ Sums(f, SumsTo(f, Less), Less)
  BY <1>1, SumsExist
<1>3. SumsTo(f, S)[S] = f[Some(S)] + SumsTo(f, S)[Less]
  BY <1>2, SumsAt
<1> HIDE DEF Less
<1>4. SumsTo(f, Less)[Less] = SumsTo(f, S)[Less]
  BY <1>1, <1>2, SumsUnique
<1> USE DEF Less
<1>5. QED
  BY <1>3, <1>4, SumIs

\* Sums of natural numbers are natural numbers.
THEOREM SumNat ==
    ASSUME NEW S, IsFiniteSet(S), NEW f, \A x \in S : f[x] \in Nat
    PROVE  SumFunctionOnSet(f, S) \in Nat
<1> DEFINE D == {T \in SUBSET S : SumFunctionOnSet(f, T) \in Nat}
<1>1. ASSUME NEW T \in SUBSET S, \A U \in SUBSET T : U # T => U \in D
      PROVE  T \in D
  <2>1. CASE T = {}
    BY <2>1, SumEmpty
  <2>2. CASE T # {}
    <3>1. Some(T) \in T /\ IsFiniteSet(T) /\ T \ {Some(T)} \in SUBSET T /\ T \ {Some(T)} # T
      BY <2>2, SomeIn, FS_Subset
    <3>2. SumFunctionOnSet(f, T \ {Some(T)}) \in Nat /\ f[Some(T)] \in Nat
      BY <1>1, <3>1
    <3>3. SumFunctionOnSet(f, T) = f[Some(T)] + SumFunctionOnSet(f, T \ {Some(T)})
      BY <2>2, <3>1, SumUnfold
    <3>4. QED
      BY <3>2, <3>3
  <2>3. QED
    BY <2>1, <2>2
<1>2. SUBSET S \subseteq D
  <2> HIDE DEF D
  <2>1. QED
    BY <1>1, SubsetInduction
<1>3. QED
  BY <1>2

\* Any of the elements may be taken first.
THEOREM SumElement ==
    ASSUME NEW S, IsFiniteSet(S), NEW f, \A x \in S : f[x] \in Nat, NEW e \in S
    PROVE  SumFunctionOnSet(f, S) = f[e] + SumFunctionOnSet(f, S \ {e})
<1> DEFINE Taken(T, x) == SumFunctionOnSet(f, T) = f[x] + SumFunctionOnSet(f, T \ {x})
           D == {T \in SUBSET S : \A x \in T : Taken(T, x)}
<1>1. ASSUME NEW T \in SUBSET S, \A U \in SUBSET T : U # T => U \in D
      PROVE  T \in D
  <2> SUFFICES ASSUME NEW x \in T PROVE Taken(T, x)
    OBVIOUS
  <2>1. Some(T) \in T /\ IsFiniteSet(T)
    BY SomeIn, FS_Subset
  <2>2. Taken(T, Some(T))
    BY <2>1, SumUnfold
  <2>3. CASE x # Some(T)
    <3> DEFINE A == T \ {x}
               B == T \ {Some(T)}
               AB == T \ {x, Some(T)}
    <3>1. /\ A \in SUBSET T /\ A # T /\ Some(T) \in A /\ A \ {Some(T)} = AB
          /\ B \in SUBSET T /\ B # T /\ x \in B /\ B \ {x} = AB
      BY <2>1, <2>3
    <3>2. Taken(A, Some(T)) /\ Taken(B, x)
      BY <1>1, <3>1
    <3>3. IsFiniteSet(AB) /\ \A y \in AB : f[y] \in Nat
      BY <2>1, FS_Subset
    <3>4. SumFunctionOnSet(f, AB) \in Nat /\ f[x] \in Nat /\ f[Some(T)] \in Nat
      <4> HIDE DEF AB
      <4>1. QED
        BY <2>1, <3>3, SumNat
    <3>5. /\ SumFunctionOnSet(f, T) = f[Some(T)] + SumFunctionOnSet(f, B)
          /\ SumFunctionOnSet(f, A) = f[Some(T)] + SumFunctionOnSet(f, AB)
          /\ SumFunctionOnSet(f, B) = f[x] + SumFunctionOnSet(f, AB)
      BY <2>2, <3>1, <3>2
    <3>6. SumFunctionOnSet(f, T) = f[x] + SumFunctionOnSet(f, A)
      <4> HIDE DEF A, B, AB
      <4>1. QED
        BY <3>4, <3>5
    <3>7. QED
      BY <3>6
  <2>4. QED
    BY <2>2, <2>3
<1>2. SUBSET S \subseteq D
  <2> HIDE DEF D
  <2>1. QED
    BY <1>1, SubsetInduction
<1>3. QED
  BY <1>2

\* Greater summands make no smaller sum.
THEOREM SumMonotonic ==
    ASSUME NEW S, IsFiniteSet(S), NEW f, NEW g,
           \A x \in S : f[x] \in Nat /\ g[x] \in Nat /\ f[x] <= g[x]
    PROVE  SumFunctionOnSet(f, S) <= SumFunctionOnSet(g, S)
<1> DEFINE D == {T \in SUBSET S : SumFunctionOnSet(f, T) <= SumFunctionOnSet(g, T)}
<1>1. ASSUME NEW T \in SUBSET S, \A U \in SUBSET T : U # T => U \in D
      PROVE  T \in D
  <2>1. CASE T = {}
    BY <2>1, SumEmpty
  <2>2. CASE T # {}
    <3> DEFINE Less == T \ {Some(T)}
    <3>1. Some(T) \in T /\ IsFiniteSet(T) /\ Less \in SUBSET T /\ Less # T /\ IsFiniteSet(Less)
      BY <2>2, SomeIn, FS_Subset
    <3>2. SumFunctionOnSet(f, Less) <= SumFunctionOnSet(g, Less)
      BY <1>1, <3>1
    <3>3. SumFunctionOnSet(f, Less) \in Nat /\ SumFunctionOnSet(g, Less) \in Nat
      BY <3>1, SumNat
    <3>4. /\ SumFunctionOnSet(f, T) = f[Some(T)] + SumFunctionOnSet(f, Less)
          /\ SumFunctionOnSet(g, T) = g[Some(T)] + SumFunctionOnSet(g, Less)
      BY <2>2, <3>1, SumUnfold
    <3>5. f[Some(T)] \in Nat /\ g[Some(T)] \in Nat /\ f[Some(T)] <= g[Some(T)]
      BY <3>1
    <3>6. SumFunctionOnSet(f, T) <= SumFunctionOnSet(g, T)
      <4> HIDE DEF Less
      <4>1. QED
        BY <3>2, <3>3, <3>4, <3>5
    <3>7. QED
      BY <3>6
  <2>3. QED
    BY <2>1, <2>2
<1>2. SUBSET S \subseteq D
  <2> HIDE DEF D
  <2>1. QED
    BY <1>1, SubsetInduction
<1>3. QED
  BY <1>2

\* Only what is summed counts.
THEOREM SumEqual ==
    ASSUME NEW S, IsFiniteSet(S), NEW f, NEW g, \A x \in S : f[x] \in Nat /\ f[x] = g[x]
    PROVE  SumFunctionOnSet(f, S) = SumFunctionOnSet(g, S)
<1>1. /\ SumFunctionOnSet(f, S) <= SumFunctionOnSet(g, S)
      /\ SumFunctionOnSet(g, S) <= SumFunctionOnSet(f, S)
  BY SumMonotonic
<1>2. SumFunctionOnSet(f, S) \in Nat /\ SumFunctionOnSet(g, S) \in Nat
  BY SumNat
<1>3. QED
  BY <1>1, <1>2

\* More summands make no smaller sum.
THEOREM SumSubset ==
    ASSUME NEW S, IsFiniteSet(S), NEW f, \A x \in S : f[x] \in Nat, NEW T \in SUBSET S
    PROVE  SumFunctionOnSet(f, T) <= SumFunctionOnSet(f, S)
<1> DEFINE D == {R \in SUBSET S : \A Q \in SUBSET R :
                                    SumFunctionOnSet(f, Q) <= SumFunctionOnSet(f, R)}
<1>1. ASSUME NEW R \in SUBSET S, \A U \in SUBSET R : U # R => U \in D
      PROVE  R \in D
  <2> SUFFICES ASSUME NEW Q \in SUBSET R
               PROVE  SumFunctionOnSet(f, Q) <= SumFunctionOnSet(f, R)
    OBVIOUS
  <2>1. IsFiniteSet(R) /\ IsFiniteSet(Q) /\ \A x \in R : f[x] \in Nat
    BY FS_Subset
  <2>2. SumFunctionOnSet(f, Q) \in Nat /\ SumFunctionOnSet(f, R) \in Nat
    BY <2>1, SumNat
  <2>3. CASE Q = R
    BY <2>2, <2>3
  <2>4. CASE Q # R
    <3>1. PICK x \in R : x \notin Q
      BY <2>4
    <3> DEFINE Less == R \ {x}
    <3>2. Less \in SUBSET R /\ Less # R /\ Q \in SUBSET Less /\ IsFiniteSet(Less)
      BY <2>1, <3>1, FS_Subset
    <3>3. SumFunctionOnSet(f, Q) <= SumFunctionOnSet(f, Less)
      BY <1>1, <3>2
    <3>4. SumFunctionOnSet(f, R) = f[x] + SumFunctionOnSet(f, Less) /\ f[x] \in Nat
      BY <2>1, <3>1, SumElement
    <3>5. SumFunctionOnSet(f, Less) \in Nat
      BY <2>1, <3>2, SumNat
    <3>6. QED
      <4> HIDE DEF Less
      <4>1. QED
        BY <2>2, <3>3, <3>4, <3>5
  <2>5. QED
    BY <2>3, <2>4
<1>2. SUBSET S \subseteq D
  <2> HIDE DEF D
  <2>1. QED
    BY <1>1, SubsetInduction
<1>3. QED
  BY <1>2

\* One summand changes, and the sum by as much.
THEOREM SumUpdate ==
    ASSUME NEW S, IsFiniteSet(S), NEW f, NEW g, NEW e \in S,
           \A x \in S : f[x] \in Nat /\ g[x] \in Nat,
           \A x \in S : x # e => f[x] = g[x]
    PROVE  SumFunctionOnSet(g, S) = SumFunctionOnSet(f, S) - f[e] + g[e]
<1> DEFINE Less == S \ {e}
<1>1. IsFiniteSet(Less) /\ \A x \in Less : f[x] \in Nat /\ f[x] = g[x]
  BY FS_Subset
<1>2. SumFunctionOnSet(f, Less) = SumFunctionOnSet(g, Less) /\ SumFunctionOnSet(f, Less) \in Nat
  <2> HIDE DEF Less
  <2>1. QED
    BY <1>1, SumEqual, SumNat
<1>3. /\ SumFunctionOnSet(f, S) = f[e] + SumFunctionOnSet(f, Less)
      /\ SumFunctionOnSet(g, S) = g[e] + SumFunctionOnSet(g, Less)
  BY SumElement
<1>4. f[e] \in Nat /\ g[e] \in Nat
  OBVIOUS
<1> HIDE DEF Less
<1>5. QED
  BY <1>2, <1>3, <1>4

\* If every summand grows by at most k, the sum grows by at most k for each.
THEOREM SumGrows ==
    ASSUME NEW S, IsFiniteSet(S), NEW f, NEW g, NEW k \in Nat,
           \A x \in S : f[x] \in Nat /\ g[x] \in Nat /\ g[x] <= f[x] + k
    PROVE  SumFunctionOnSet(g, S) <= SumFunctionOnSet(f, S) + Cardinality(S) * k
<1> DEFINE D == {T \in SUBSET S :
                   SumFunctionOnSet(g, T) <= SumFunctionOnSet(f, T) + Cardinality(T) * k}
<1>1. ASSUME NEW T \in SUBSET S, \A U \in SUBSET T : U # T => U \in D
      PROVE  T \in D
  <2>1. CASE T = {}
    <3>1. 0 * k = 0
      OBVIOUS
    <3>2. SumFunctionOnSet(g, T) <= SumFunctionOnSet(f, T) + Cardinality(T) * k
      BY <2>1, <3>1, SumEmpty, FS_EmptySet
    <3>3. QED
      BY <3>2
  <2>2. CASE T # {}
    <3> DEFINE Less == T \ {Some(T)}
               c == Cardinality(Less)
    <3>1. Some(T) \in T /\ IsFiniteSet(T) /\ Less \in SUBSET T /\ Less # T /\ IsFiniteSet(Less)
      BY <2>2, SomeIn, FS_Subset
    <3>2. SumFunctionOnSet(g, Less) <= SumFunctionOnSet(f, Less) + c * k
      BY <1>1, <3>1
    <3>3. SumFunctionOnSet(f, Less) \in Nat /\ SumFunctionOnSet(g, Less) \in Nat
      BY <3>1, SumNat
    <3>4. /\ SumFunctionOnSet(f, T) = f[Some(T)] + SumFunctionOnSet(f, Less)
          /\ SumFunctionOnSet(g, T) = g[Some(T)] + SumFunctionOnSet(g, Less)
      BY <2>2, <3>1, SumUnfold
    <3>5. f[Some(T)] \in Nat /\ g[Some(T)] \in Nat /\ g[Some(T)] <= f[Some(T)] + k
      BY <3>1
    <3>6. c \in Nat /\ Cardinality(T) = c + 1
      BY <3>1, FS_CardinalityType, FS_RemoveElement
    <3> HIDE DEF c
    <3>7. c * k \in Nat /\ (c + 1) * k = c * k + k
      BY <3>6
    <3>8. SumFunctionOnSet(g, T) <= SumFunctionOnSet(f, T) + Cardinality(T) * k
      <4> HIDE DEF Less
      <4>1. QED
        BY <3>2, <3>3, <3>4, <3>5, <3>6, <3>7
    <3>9. QED
      BY <3>8
  <2>3. QED
    BY <2>1, <2>2
<1>2. SUBSET S \subseteq D
  <2> HIDE DEF D
  <2>1. QED
    BY <1>1, SubsetInduction
<1>3. QED
  BY <1>2

\* A sum of nothing but zeros.
THEOREM SumZero ==
    ASSUME NEW S, IsFiniteSet(S), NEW f, \A x \in S : f[x] = 0
    PROVE  SumFunctionOnSet(f, S) = 0
<1> DEFINE D == {T \in SUBSET S : SumFunctionOnSet(f, T) = 0}
<1>1. ASSUME NEW T \in SUBSET S, \A U \in SUBSET T : U # T => U \in D
      PROVE  T \in D
  <2>1. CASE T = {}
    BY <2>1, SumEmpty
  <2>2. CASE T # {}
    <3>1. /\ Some(T) \in T /\ IsFiniteSet(T)
          /\ T \ {Some(T)} \in SUBSET T /\ T \ {Some(T)} # T
      BY <2>2, SomeIn, FS_Subset
    <3>2. SumFunctionOnSet(f, T \ {Some(T)}) = 0 /\ f[Some(T)] = 0
      BY <1>1, <3>1
    <3>3. QED
      BY <2>2, <3>1, <3>2, SumUnfold
  <2>3. QED
    BY <2>1, <2>2
<1>2. SUBSET S \subseteq D
  <2> HIDE DEF D
  <2>1. QED
    BY <1>1, SubsetInduction
<1>3. QED
  BY <1>2

\* A sum of summands that are at most k.
THEOREM SumBounded ==
    ASSUME NEW S, IsFiniteSet(S), NEW f, NEW k \in Nat,
           \A x \in S : f[x] \in Nat /\ f[x] <= k
    PROVE  SumFunctionOnSet(f, S) <= Cardinality(S) * k
<1> DEFINE zero == [x \in S |-> 0]
<1>1. SumFunctionOnSet(zero, S) = 0
  <2>1. \A x \in S : zero[x] = 0
    OBVIOUS
  <2> HIDE DEF zero
  <2>2. QED
    BY <2>1, SumZero
<1>2. \A x \in S : f[x] \in Nat /\ zero[x] \in Nat /\ f[x] <= zero[x] + k
  OBVIOUS
<1>3. Cardinality(S) * k \in Nat
  BY FS_CardinalityType
<1> HIDE DEF zero
<1>4. SumFunctionOnSet(f, S) <= SumFunctionOnSet(zero, S) + Cardinality(S) * k
  BY <1>2, SumGrows
<1>5. QED
  BY <1>1, <1>3, <1>4
=============================================================================
