--------------------------------- MODULE Sums ---------------------------------
(***************************************************************************)
(* Lemmas about SumFunction for functions from a finite set to the natural *)
(* numbers: the ring sums the occurrences of its positions, the wire the   *)
(* sizes of strings.  Each is proved by a least counterexample.            *)
(***************************************************************************)
EXTENDS Integers, Functions, FiniteSetTheorems, WellFoundedInduction, TLAPS

\* The member the sum takes next.
Taken(s) == CHOOSE x \in s : TRUE

AddsUp(f, s, g) == IF s = {} THEN 0 ELSE f[Taken(s)] + g[s \ {Taken(s)}]

LEMMA SumIsChosen ==
  ASSUME NEW f
  PROVE  SumFunction(f) =
           (CHOOSE g : g = [s \in SUBSET DOMAIN f |->
                             IF s = {} THEN 0
                             ELSE f[CHOOSE x \in s : TRUE]
                                  + g[s \ {CHOOSE x \in s : TRUE}]])[DOMAIN f]
BY Zenon DEF SumFunction, SumFunctionOnSet, FoldFunctionOnSet, MapThenFoldSet

\* A property of numbers that holds of 0 and is passed on holds of all.
LEMMA Climb ==
  ASSUME NEW N \in SUBSET Nat, 0 \in N, \A n \in N : n + 1 \in N
  PROVE  N = Nat
<1> DEFINE T == Nat \ N
<1>1. ASSUME T # {} PROVE FALSE
  <2>1. PICK n \in T : \A m \in T : ~ (<<m, n>> \in OpToRel(<, Nat))
    BY <1>1, NatLessThanWellFounded, WFMin
  <2>2. n \in Nat /\ n \notin N /\ n # 0
    OBVIOUS
  <2>3. n - 1 \in Nat /\ n - 1 < n /\ (n - 1) + 1 = n
    BY <2>2
  <2>4. n - 1 \notin N
    BY <2>2, <2>3
  <2>5. n - 1 \in T /\ <<n - 1, n>> \in OpToRel(<, Nat)
    BY <2>2, <2>3, <2>4 DEF OpToRel
  <2>. QED  BY <2>1, <2>5
<1>. QED  BY <1>1

\* The sums of the subsets of a finite set exist: they are defined size by size.
Small(S, n) == {s \in SUBSET S : Cardinality(s) <= n}

LEMMA SumsExist ==
  ASSUME NEW S, IsFiniteSet(S), NEW f \in [S -> Nat]
  PROVE  \E g \in [SUBSET S -> Nat] : \A s \in SUBSET S : g[s] = AddsUp(f, s, g)
<1> DEFINE N == {n \in Nat : \E g \in [Small(S, n) -> Nat] :
                               \A s \in Small(S, n) : g[s] = AddsUp(f, s, g)}
<1>1. \A s \in SUBSET S : IsFiniteSet(s) /\ Cardinality(s) \in Nat /\ (Cardinality(s) = 0 <=> s = {})
  BY FS_Subset, FS_CardinalityType, FS_EmptySet
<1>2. \A s \in SUBSET S : s # {} =>
        /\ Taken(s) \in s /\ s \ {Taken(s)} \in SUBSET S
        /\ Cardinality(s \ {Taken(s)}) = Cardinality(s) - 1
  BY <1>1, FS_RemoveElement DEF Taken
<1>3. 0 \in N
  <2> DEFINE g == [s \in Small(S, 0) |-> 0]
  <2>1. g \in [Small(S, 0) -> Nat]
    OBVIOUS
  <2>2. \A s \in Small(S, 0) : s = {}
    BY <1>1 DEF Small
  <2>3. \A s \in Small(S, 0) : g[s] = AddsUp(f, s, g)
    BY <2>2 DEF AddsUp
  <2> HIDE DEF g
  <2>. QED  BY <2>1, <2>3
<1>4. ASSUME NEW n \in N PROVE n + 1 \in N
  <2>1. PICK g \in [Small(S, n) -> Nat] : \A s \in Small(S, n) : g[s] = AddsUp(f, s, g)
    OBVIOUS
  <2>2. n \in Nat /\ n + 1 \in Nat
    OBVIOUS
  <2> HIDE DEF N
  <2> DEFINE h == [s \in Small(S, n + 1) |-> AddsUp(f, s, g)]
  <2>3. \A s \in Small(S, n + 1) : s # {} => s \ {Taken(s)} \in Small(S, n)
    BY <1>1, <1>2, <2>2 DEF Small
  <2>4. h \in [Small(S, n + 1) -> Nat]
    <3>1. ASSUME NEW s \in Small(S, n + 1) PROVE AddsUp(f, s, g) \in Nat
      <4>1. CASE s = {}
        BY <4>1 DEF AddsUp
      <4>2. CASE s # {}
        <5>1. f[Taken(s)] \in Nat /\ g[s \ {Taken(s)}] \in Nat
          BY <4>2, <1>2, <2>3 DEF Small
        <5>. QED  BY <4>2, <5>1 DEF AddsUp
      <4>. QED  BY <4>1, <4>2
    <3>. QED  BY <3>1
  <2>5. \A s \in Small(S, n) : s \in Small(S, n + 1) /\ h[s] = g[s]
    BY <1>1, <2>1, <2>2 DEF Small
  <2>6. \A s \in Small(S, n + 1) : h[s] = AddsUp(f, s, g)
    OBVIOUS
  <2> HIDE DEF h
  <2>7. \A s \in Small(S, n + 1) : h[s] = AddsUp(f, s, h)
    BY <2>3, <2>5, <2>6 DEF AddsUp
  <2>. QED  BY <2>2, <2>4, <2>7 DEF N
<1>5. N \in SUBSET Nat
  OBVIOUS
<1> HIDE DEF N
<1>6. Cardinality(S) \in N
  BY <1>3, <1>4, <1>5, Climb, FS_CardinalityType
<1>7. Small(S, Cardinality(S)) = SUBSET S
  BY FS_Subset DEF Small
<1>8. PICK g \in [SUBSET S -> Nat] : \A s \in SUBSET S : g[s] = AddsUp(f, s, g)
  BY <1>6, <1>7 DEF N
<1>. QED  BY <1>8

\* The sum is that of all members, where each subset's sum adds one of its members to
\* the sum of the others.
LEMMA SumByParts ==
  ASSUME NEW S, IsFiniteSet(S), NEW f \in [S -> Nat]
  PROVE  \E g : /\ SumFunction(f) = g[S]
                /\ \A s \in SUBSET S : g[s] = AddsUp(f, s, g)
<1> DEFINE Sums == CHOOSE g : g = [s \in SUBSET S |-> AddsUp(f, s, g)]
<1>1. \E g : g = [s \in SUBSET S |-> AddsUp(f, s, g)]
  <2>1. PICK g \in [SUBSET S -> Nat] : \A s \in SUBSET S : g[s] = AddsUp(f, s, g)
    BY SumsExist
  <2>2. g = [s \in SUBSET S |-> AddsUp(f, s, g)]
    BY <2>1
  <2>. QED  BY <2>2, Zenon
<1>2. Sums = [s \in SUBSET S |-> AddsUp(f, s, Sums)]
  BY <1>1, Zenon
<1>3. SumFunction(f) = Sums[S]
  <2>1. DOMAIN f = S
    OBVIOUS
  <2>. QED  BY <2>1, SumIsChosen, Zenon DEF AddsUp, Taken
<1> HIDE DEF Sums
<1>4. \A s \in SUBSET S : Sums[s] = AddsUp(f, s, Sums)
  BY <1>2
<1>. QED  BY <1>3, <1>4

\* What holds of the empty set, and of a set as soon as it holds without the member
\* taken, holds of all.
LEMMA SubsetsClimb ==
  ASSUME NEW S, IsFiniteSet(S), NEW G \in SUBSET SUBSET S, {} \in G,
         \A s \in SUBSET S : s # {} /\ s \ {Taken(s)} \in G => s \in G
  PROVE  S \in G
<1> DEFINE N == {n \in Nat : Small(S, n) \subseteq G}
<1>1. \A s \in SUBSET S : IsFiniteSet(s) /\ Cardinality(s) \in Nat /\ (Cardinality(s) = 0 <=> s = {})
  BY FS_Subset, FS_CardinalityType, FS_EmptySet
<1>2. \A s \in SUBSET S : s # {} =>
        s \ {Taken(s)} \in SUBSET S /\ Cardinality(s \ {Taken(s)}) = Cardinality(s) - 1
  BY <1>1, FS_RemoveElement DEF Taken
<1>3. 0 \in N
  BY <1>1 DEF Small
<1>4. ASSUME NEW n \in N PROVE n + 1 \in N
  <2>1. ASSUME NEW s \in Small(S, n + 1), s # {} PROVE s \ {Taken(s)} \in Small(S, n)
    BY <2>1, <1>1, <1>2 DEF Small
  <2>2. ASSUME NEW s \in Small(S, n + 1) PROVE s \in G
    BY <2>1 DEF Small
  <2>. QED  BY <2>2
<1>5. N \in SUBSET Nat
  OBVIOUS
<1> HIDE DEF N
<1>6. Cardinality(S) \in N
  BY <1>3, <1>4, <1>5, Climb, FS_CardinalityType
<1>7. S \in Small(S, Cardinality(S))
  BY FS_CardinalityType DEF Small
<1>. QED  BY <1>6, <1>7 DEF N

\* A sum is at least each of its members and any two of them, and at least the number
\* of those that are not 0; it is their number if none is more than 1.
LEMMA SumAtLeast ==
  ASSUME NEW S, IsFiniteSet(S), NEW f \in [S -> Nat]
  PROVE  /\ SumFunction(f) \in Nat
         /\ \A x \in S : f[x] <= SumFunction(f)
         /\ \A x, y \in S : x # y => f[x] + f[y] <= SumFunction(f)
         /\ SumFunction(f) >= Cardinality({x \in S : f[x] > 0})
         /\ (\A x \in S : f[x] <= 1) => SumFunction(f) = Cardinality({x \in S : f[x] > 0})
<1>1. PICK g : /\ SumFunction(f) = g[S]
               /\ \A s \in SUBSET S : g[s] = AddsUp(f, s, g)
  BY SumByParts
<1> DEFINE Some(s) == {x \in s : f[x] > 0}
           G == {s \in SUBSET S : /\ g[s] \in Nat
                                  /\ \A x \in s : f[x] <= g[s]
                                  /\ \A x, y \in s : x # y => f[x] + f[y] <= g[s]
                                  /\ g[s] >= Cardinality(Some(s))
                                  /\ (\A x \in S : f[x] <= 1) => g[s] = Cardinality(Some(s))}
<1>2. {} \in G
  <2>1. g[{}] = 0
    BY <1>1 DEF AddsUp
  <2>2. Cardinality(Some({})) = 0
    <3>1. Some({}) = {}
      OBVIOUS
    <3>. QED  BY <3>1, FS_EmptySet
  <2> HIDE DEF Some
  <2>. QED  BY <2>1, <2>2
<1>3. ASSUME NEW s \in SUBSET S, s # {}, s \ {Taken(s)} \in G
      PROVE  s \in G
  <2> DEFINE x == Taken(s)
             r == s \ {x}
  <2>1. x \in s /\ x \notin r /\ x \in S
    BY <1>3 DEF Taken
  <2>2. f[x] \in Nat /\ g[s] = f[x] + g[r]
    BY <1>1, <1>3, <2>1 DEF AddsUp
  <2>3. /\ g[r] \in Nat /\ \A y \in r : f[y] <= g[r]
        /\ \A y, z \in r : y # z => f[y] + f[z] <= g[r]
        /\ g[r] >= Cardinality(Some(r))
        /\ (\A y \in S : f[y] <= 1) => g[r] = Cardinality(Some(r))
    BY <1>3
  <2>4. IsFiniteSet(Some(r)) /\ Cardinality(Some(r)) \in Nat
    BY FS_Subset, FS_CardinalityType
  <2>5. Cardinality(Some(s)) = Cardinality(Some(r)) + (IF f[x] > 0 THEN 1 ELSE 0)
    <3>1. CASE f[x] > 0
      <4>1. Some(s) = Some(r) \cup {x} /\ x \notin Some(r)
        BY <2>1, <3>1
      <4>. QED  BY <3>1, <4>1, <2>4, FS_AddElement
    <3>2. CASE ~ (f[x] > 0)
      <4>1. Some(s) = Some(r)
        BY <2>1, <3>2
      <4>. QED  BY <3>2, <4>1, <2>4
    <3>. QED  BY <3>1, <3>2
  <2>6. \A y \in s : f[y] <= g[s]
    <3>1. \A y \in r : f[y] \in Nat
      OBVIOUS
    <3>2. \A y \in s : y = x \/ y \in r
      OBVIOUS
    <3> HIDE DEF r, x
    <3>. QED  BY <2>2, <2>3, <3>1, <3>2
  <2>9. \A y, z \in s : y # z => f[y] + f[z] <= g[s]
    <3>1. \A y \in r : f[y] \in Nat
      OBVIOUS
    <3>2. \A y \in s : y = x \/ y \in r
      OBVIOUS
    <3> HIDE DEF r, x
    <3>. QED  BY <2>2, <2>3, <3>1, <3>2
  <2> HIDE DEF r, x, Some
  <2>7. g[s] \in Nat /\ g[s] >= Cardinality(Some(s))
    BY <2>2, <2>3, <2>4, <2>5
  <2>8. (\A y \in S : f[y] <= 1) => g[s] = Cardinality(Some(s))
    BY <2>1, <2>2, <2>3, <2>4, <2>5
  <2>. QED  BY <2>6, <2>7, <2>8, <2>9
<1>4. G \in SUBSET SUBSET S
  OBVIOUS
<1> HIDE DEF G
<1>5. S \in G
  BY <1>2, <1>3, <1>4, SubsetsClimb
<1>. QED  BY <1>1, <1>5 DEF G

\* Sums of one number and of two.
LEMMA SumOfOne ==
  ASSUME NEW i, NEW f \in [{i} -> Nat]
  PROVE  SumFunction(f) = f[i]
<1>1. IsFiniteSet({i})
  BY FS_Singleton
<1>2. PICK g : /\ SumFunction(f) = g[{i}]
               /\ \A s \in SUBSET {i} : g[s] = AddsUp(f, s, g)
  BY <1>1, SumByParts
<1>3. g[{}] = 0
  BY <1>2 DEF AddsUp
<1>4. Taken({i}) = i /\ {i} \ {i} = {}
  BY DEF Taken
<1>5. g[{i}] = f[i] + g[{}]
  BY <1>2, <1>4 DEF AddsUp
<1>. QED  BY <1>2, <1>3, <1>5

LEMMA SumOfTwo ==
  ASSUME NEW i, NEW j, i # j, NEW f \in [{i, j} -> Nat]
  PROVE  SumFunction(f) = f[i] + f[j]
<1>1. IsFiniteSet({i, j})
  <2>1. IsFiniteSet({i}) /\ {i, j} = {i} \cup {j}
    BY FS_Singleton
  <2> DEFINE T == {i}
  <2>2. IsFiniteSet(T \cup {j})
    <3>1. IsFiniteSet(T)
      BY <2>1
    <3> HIDE DEF T
    <3>. QED  BY <3>1, FS_AddElement
  <2>. QED  BY <2>1, <2>2
<1>2. PICK g : /\ SumFunction(f) = g[{i, j}]
               /\ \A s \in SUBSET {i, j} : g[s] = AddsUp(f, s, g)
  BY <1>1, SumByParts
<1>3. g[{}] = 0
  BY <1>2 DEF AddsUp
<1>4. ASSUME NEW k \in {i, j} PROVE g[{k}] = f[k]
  <2>1. Taken({k}) = k /\ {k} \ {k} = {}
    BY DEF Taken
  <2>2. g[{k}] = f[k] + g[{}]
    BY <1>2, <2>1 DEF AddsUp
  <2>. QED  BY <2>2, <1>3
<1>5. Taken({i, j}) \in {i, j}
  BY DEF Taken
<1>6. g[{i, j}] = f[Taken({i, j})] + g[{i, j} \ {Taken({i, j})}]
  BY <1>2 DEF AddsUp
<1>7. CASE Taken({i, j}) = i
  <2>1. {i, j} \ {i} = {j}
    OBVIOUS
  <2>. QED  BY <1>2, <1>4, <1>6, <1>7, <2>1
<1>8. CASE Taken({i, j}) = j
  <2>1. {i, j} \ {j} = {i}
    OBVIOUS
  <2>2. g[{i, j}] = f[j] + f[i]
    BY <1>4, <1>6, <1>8, <2>1
  <2>. QED  BY <1>2, <2>2
<1>. QED  BY <1>5, <1>7, <1>8
===============================================================================
