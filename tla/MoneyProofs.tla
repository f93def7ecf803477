----------------------------- MODULE MoneyProofs -----------------------------
(***************************************************************************)
(* Theorems about what an administrator reads and moves of the money, for  *)
(* any number of payments, members, browsers and runs: the reports, the    *)
(* page that refunds and the migration, each an instance in MCReports.     *)
(***************************************************************************)
EXTENDS MCReports, Sequences, FiniteSetTheorems, WellFoundedInduction, TLAPS

-----------------------------------------------------------------------------
(* Sums over finite sets                                                   *)

\* Of sets of things that are finitely many, one has no other inside.
LEMMA Smallest ==
  ASSUME NEW S, IsFiniteSet(S), NEW Sets \in SUBSET SUBSET S, Sets # {}
  PROVE  \E x \in Sets : \A y \in Sets : y \subseteq x => y = x
<1>1. IsWellFoundedOn(StrictSubsetOrdering(S), SUBSET S)
  BY FS_StrictSubsetOrderingWellFounded, FS_FiniteSubsetsOfFinite
<1>2. PICK x \in Sets : \A y \in Sets : ~ (<<y, x>> \in StrictSubsetOrdering(S))
  BY <1>1, WFMin
<1> QED BY <1>2 DEF StrictSubsetOrdering

First(s) == CHOOSE x \in s : TRUE

\* The function that a sum is read off: on every part of S the sum of fn.
Adds(g, fn, S) ==
    g = [s \in SUBSET S |-> IF s = {} THEN 0 ELSE fn[First(s)] + g[s \ {First(s)}]]

Total(fn, S) == R!SumFunctionOnSet(fn, S)

LEMMA TotalIs == \A fn, S : Total(fn, S) = (CHOOSE h : Adds(h, fn, S))[S]
BY DEF Total, R!SumFunctionOnSet, R!FoldFunctionOnSet, R!MapThenFoldSet, Adds, First

LEMMA FirstIn == \A s : s # {} => First(s) \in s
BY DEF First

LEMMA AddsStep ==
  ASSUME NEW fn, NEW S, NEW g, Adds(g, fn, S), NEW s \in SUBSET S
  PROVE  g[s] = IF s = {} THEN 0 ELSE fn[First(s)] + g[s \ {First(s)}]
<1>1. PICK F : F = [t \in SUBSET S |-> IF t = {} THEN 0 ELSE fn[First(t)] + g[t \ {First(t)}]]
  OBVIOUS
<1>2. g = F
  BY <1>1 DEF Adds
<1>3. F[s] = IF s = {} THEN 0 ELSE fn[First(s)] + g[s \ {First(s)}]
  BY <1>1
<1> QED BY <1>2, <1>3

LEMMA AddsUnique ==
  ASSUME NEW fn, NEW S, IsFiniteSet(S), NEW g, NEW h, Adds(g, fn, S), Adds(h, fn, S)
  PROVE  g = h
<1>1. ASSUME NEW t \in SUBSET S PROVE g[t] = h[t]
  <2> DEFINE Bad == {s \in SUBSET S : g[s] # h[s]}
  <2>1. SUFFICES ASSUME Bad # {} PROVE FALSE
    OBVIOUS
  <2>2. PICK s \in Bad : \A u \in Bad : u \subseteq s => u = s
    <3> HIDE DEF Bad
    <3>1. Bad \in SUBSET SUBSET S
      BY DEF Bad
    <3> QED BY <2>1, <3>1, Smallest
  <2>3. s # {}
    BY AddsStep
  <2>4. s \ {First(s)} \in SUBSET S /\ s \ {First(s)} \notin Bad
    BY <2>2, <2>3, FirstIn
  <2>5. g[s \ {First(s)}] = h[s \ {First(s)}]
    BY <2>4
  <2>6. g[s] = fn[First(s)] + g[s \ {First(s)}] /\ h[s] = fn[First(s)] + h[s \ {First(s)}]
    BY <2>3, AddsStep
  <2> QED BY <2>5, <2>6
<1>2. g = [t \in SUBSET S |-> g[t]] /\ h = [t \in SUBSET S |-> h[t]]
  BY DEF Adds
<1> QED BY <1>1, <1>2

LEMMA AddsPart ==
  ASSUME NEW fn, NEW S, NEW g, Adds(g, fn, S), NEW P \in SUBSET S
  PROVE  Adds([t \in SUBSET P |-> g[t]], fn, P)
<1> DEFINE h == [t \in SUBSET P |-> g[t]]
<1>1. ASSUME NEW t \in SUBSET P
      PROVE  h[t] = IF t = {} THEN 0 ELSE fn[First(t)] + h[t \ {First(t)}]
  <2>1. t \in SUBSET S /\ h[t] = g[t] /\ h[t \ {First(t)}] = g[t \ {First(t)}]
    OBVIOUS
  <2> QED BY <2>1, AddsStep
<1>2. h = [t \in SUBSET P |-> h[t]]
  OBVIOUS
<1>3. h = [t \in SUBSET P |-> IF t = {} THEN 0 ELSE fn[First(t)] + h[t \ {First(t)}]]
  <2>1. PICK H : H = h
    OBVIOUS
  <2>2. \A t \in SUBSET P : H[t] = IF t = {} THEN 0 ELSE fn[First(t)] + H[t \ {First(t)}]
    BY <1>1, <2>1
  <2>3. H = [t \in SUBSET P |-> H[t]]
    BY <1>2, <2>1
  <2>4. H = [t \in SUBSET P |-> IF t = {} THEN 0 ELSE fn[First(t)] + H[t \ {First(t)}]]
    BY <2>2, <2>3
  <2> QED BY <2>1, <2>4
<1> QED BY <1>3 DEF Adds

LEMMA AddsExists ==
  ASSUME NEW fn, NEW S, IsFiniteSet(S)
  PROVE  \E g : Adds(g, fn, S)
<1> DEFINE Bad == {s \in SUBSET S : ~ \E g : Adds(g, fn, s)}
<1>1. SUFFICES ASSUME Bad # {} PROVE FALSE
  OBVIOUS
<1>2. PICK s \in Bad : \A u \in Bad : u \subseteq s => u = s
  <2> HIDE DEF Bad
  <2>1. Bad \in SUBSET SUBSET S
    BY DEF Bad
  <2> QED BY <1>1, <2>1, Smallest
<1> DEFINE Of(u) == (CHOOSE h : Adds(h, fn, u))[u]
           g == [t \in SUBSET s |-> IF t = {} THEN 0 ELSE fn[First(t)] + Of(t \ {First(t)})]
<1> HIDE DEF Of
<1>3. ASSUME NEW u \in SUBSET s, u # s PROVE g[u] = Of(u)
  <2>1. PICK h : h = CHOOSE k : Adds(k, fn, u)
    OBVIOUS
  <2>2. Adds(h, fn, u) /\ Of(u) = h[u]
    BY <1>2, <1>3, <2>1 DEF Of
  <2>3. CASE u = {}
    BY <2>2, <2>3, AddsStep
  <2>4. CASE u # {}
    <3>1. PICK v : v = u \ {First(u)}
      OBVIOUS
    <3>2. v \in SUBSET u /\ v \in SUBSET s /\ v # s
      BY <2>4, <3>1, FirstIn
    <3>3. PICK k : k = CHOOSE j : Adds(j, fn, v)
      OBVIOUS
    <3>4. Adds(k, fn, v) /\ Of(v) = k[v]
      BY <1>2, <3>2, <3>3 DEF Of
    <3>5. IsFiniteSet(v)
      BY <3>2, FS_Subset
    <3>6. k = [t \in SUBSET v |-> h[t]]
      <4>1. PICK j : j = [t \in SUBSET v |-> h[t]]
        OBVIOUS
      <4>2. Adds(j, fn, v)
        BY <2>2, <3>2, <4>1, AddsPart
      <4>3. k = j
        BY <3>4, <3>5, <4>2, AddsUnique
      <4> QED BY <4>1, <4>3
    <3>7. k[v] = h[v]
      BY <3>6
    <3>8. h[u] = fn[First(u)] + h[v]
      BY <2>2, <2>4, <3>1, AddsStep
    <3>9. g[u] = fn[First(u)] + Of(v)
      BY <2>4, <3>1
    <3> QED BY <2>2, <3>4, <3>7, <3>8, <3>9
  <2> QED BY <2>3, <2>4
<1>4. Adds(g, fn, s)
  <2>1. ASSUME NEW t \in SUBSET s
        PROVE  (IF t = {} THEN 0 ELSE fn[First(t)] + Of(t \ {First(t)}))
               = (IF t = {} THEN 0 ELSE fn[First(t)] + g[t \ {First(t)}])
    <3>1. CASE t = {}
      BY <3>1
    <3>2. CASE t # {}
      <4>1. t \ {First(t)} \in SUBSET s /\ t \ {First(t)} # s
        BY <3>2, FirstIn
      <4>2. g[t \ {First(t)}] = Of(t \ {First(t)})
        BY <1>3, <4>1
      <4> HIDE DEF g
      <4> QED BY <4>2
    <3> QED BY <3>1, <3>2
  <2>2. PICK G : G = g
    OBVIOUS
  <2>3. G = [t \in SUBSET s |-> IF t = {} THEN 0 ELSE fn[First(t)] + Of(t \ {First(t)})]
    BY <2>2
  <2>4. \A t \in SUBSET s : (IF t = {} THEN 0 ELSE fn[First(t)] + Of(t \ {First(t)}))
                            = (IF t = {} THEN 0 ELSE fn[First(t)] + G[t \ {First(t)}])
    BY <2>1, <2>2
  <2>5. G = [t \in SUBSET s |-> IF t = {} THEN 0 ELSE fn[First(t)] + G[t \ {First(t)}]]
    BY <2>3, <2>4, Zenon
  <2>6. Adds(G, fn, s)
    BY <2>5 DEF Adds
  <2> QED BY <2>2, <2>6
<1> QED BY <1>2, <1>4

LEMMA TotalAdds ==
  ASSUME NEW fn, NEW S, IsFiniteSet(S), NEW s \in SUBSET S, NEW g, Adds(g, fn, S)
  PROVE  Total(fn, s) = g[s]
<1>1. PICK h : h = CHOOSE k : Adds(k, fn, s)
  OBVIOUS
<1>2. IsFiniteSet(s)
  BY FS_Subset
<1>3. Adds(h, fn, s)
  BY <1>1, <1>2, AddsExists
<1>4. h = [t \in SUBSET s |-> g[t]]
  <2>1. PICK j : j = [t \in SUBSET s |-> g[t]]
    OBVIOUS
  <2>2. Adds(j, fn, s)
    BY <2>1, AddsPart
  <2>3. h = j
    BY <1>2, <1>3, <2>2, AddsUnique
  <2> QED BY <2>1, <2>3
<1>5. h[s] = g[s]
  BY <1>4
<1> QED BY <1>1, <1>5, TotalIs

\* What a sum is: nothing over nothing, else one and the sum over the others.
LEMMA TotalFirst ==
  ASSUME NEW fn, NEW S, IsFiniteSet(S)
  PROVE  /\ S = {} => Total(fn, S) = 0
         /\ S # {} => Total(fn, S) = fn[First(S)] + Total(fn, S \ {First(S)})
<1>1. PICK g : Adds(g, fn, S)
  BY AddsExists
<1>2. Total(fn, S) = g[S] /\ Total(fn, S \ {First(S)}) = g[S \ {First(S)}]
  <2>1. S \in SUBSET S /\ S \ {First(S)} \in SUBSET S
    OBVIOUS
  <2> QED BY <1>1, <2>1, TotalAdds
<1>3. g[S] = IF S = {} THEN 0 ELSE fn[First(S)] + g[S \ {First(S)}]
  <2>1. S \in SUBSET S
    OBVIOUS
  <2> QED BY <1>1, <2>1, AddsStep
<1> QED BY <1>2, <1>3

LEMMA TotalNothing == \A fn : Total(fn, {}) = 0
BY TotalFirst, FS_EmptySet

\* The sum over a finite set is the same whichever is added first.
LEMMA TotalSplit ==
  ASSUME NEW S, IsFiniteSet(S), NEW fn \in [S -> Int]
  PROVE  \A s \in SUBSET S : /\ Total(fn, s) \in Int
                             /\ \A x \in s : Total(fn, s) = fn[x] + Total(fn, s \ {x})
<1> DEFINE Good(s) == /\ Total(fn, s) \in Int
                      /\ \A x \in s : Total(fn, s) = fn[x] + Total(fn, s \ {x})
           Bad == {s \in SUBSET S : ~ Good(s)}
<1>1. SUFFICES ASSUME Bad # {} PROVE FALSE
  OBVIOUS
<1>2. PICK s \in Bad : \A u \in Bad : u \subseteq s => u = s
  <2> HIDE DEF Bad
  <2>1. Bad \in SUBSET SUBSET S
    BY DEF Bad
  <2> QED BY <1>1, <2>1, Smallest
<1> HIDE DEF Good
<1>3. \A u \in SUBSET s : u # s => Good(u)
  BY <1>2
<1>4. s # {}
  <2>1. Good({})
    BY TotalNothing DEF Good
  <2> QED BY <1>2, <2>1
<1>5. PICK c : c = First(s)
  OBVIOUS
<1>6. c \in s /\ s \subseteq S /\ IsFiniteSet(s)
  BY <1>2, <1>4, <1>5, FirstIn, FS_Subset
<1>7. Total(fn, s) = fn[c] + Total(fn, s \ {c})
  BY <1>4, <1>5, <1>6, TotalFirst
<1>8. Good(s \ {c})
  <2>1. s \ {c} \in SUBSET s /\ s \ {c} # s
    BY <1>6
  <2> QED BY <1>3, <2>1
<1>9. Total(fn, s \ {c}) \in Int /\ fn[c] \in Int
  BY <1>6, <1>8 DEF Good
<1>10. ASSUME NEW x \in s PROVE Total(fn, s) = fn[x] + Total(fn, s \ {x})
  <2>1. CASE x = c
    BY <1>7, <2>1
  <2>2. CASE x # c
    <3>1. Good(s \ {x})
      <4>1. s \ {x} \in SUBSET s /\ s \ {x} # s
        OBVIOUS
      <4> QED BY <1>3, <4>1
    <3>2. PICK u : u = (s \ {x}) \ {c}
      OBVIOUS
    <3>3. Total(fn, s \ {x}) = fn[c] + Total(fn, u)
      <4>1. c \in s \ {x}
        BY <1>6, <2>2
      <4> QED BY <3>1, <3>2, <4>1 DEF Good
    <3>4. Total(fn, s \ {c}) = fn[x] + Total(fn, u)
      <4>1. x \in s \ {c} /\ (s \ {c}) \ {x} = u
        BY <2>2, <3>2
      <4> QED BY <1>8, <4>1 DEF Good
    <3>5. Total(fn, u) \in Int
      <4>1. u \in SUBSET s /\ u # s
        BY <3>2
      <4> QED BY <1>3, <4>1 DEF Good
    <3>6. fn[x] \in Int
      BY <1>6
    <3> QED BY <1>7, <1>9, <3>3, <3>4, <3>5, <3>6
  <2> QED BY <2>1, <2>2
<1>11. Good(s)
  BY <1>7, <1>9, <1>10 DEF Good
<1> QED BY <1>2, <1>11

LEMMA TotalInt ==
  ASSUME NEW P, IsFiniteSet(P), NEW fn \in [P -> Int], NEW S \in SUBSET P
  PROVE  Total(fn, S) \in Int /\ IsFiniteSet(S)
BY TotalSplit, FS_Subset

LEMMA TotalLess ==
  ASSUME NEW P, IsFiniteSet(P), NEW fn \in [P -> Int], NEW S \in SUBSET P, NEW x \in S
  PROVE  /\ Total(fn, S) = fn[x] + Total(fn, S \ {x})
         /\ Total(fn, S \ {x}) \in Int /\ fn[x] \in Int
<1>1. S \ {x} \in SUBSET P
  OBVIOUS
<1> QED BY <1>1, TotalSplit

\* What is true of nothing, and of a set when it is of all smaller ones.
LEMMA Induct ==
  ASSUME NEW P, IsFiniteSet(P), NEW Good \in SUBSET SUBSET P,
         {} \in Good,
         \A s \in SUBSET P, x \in P : x \notin s /\ s \in Good => s \cup {x} \in Good
  PROVE  \A s \in SUBSET P : s \in Good
<1> DEFINE Bad == (SUBSET P) \ Good
<1>1. SUFFICES ASSUME Bad # {} PROVE FALSE
  OBVIOUS
<1>2. PICK s \in Bad : \A u \in Bad : u \subseteq s => u = s
  <2> HIDE DEF Bad
  <2>1. Bad \in SUBSET SUBSET P
    BY DEF Bad
  <2> QED BY <1>1, <2>1, Smallest
<1>3. PICK x : x \in s
  BY <1>2
<1>4. PICK u : u = s \ {x}
  OBVIOUS
<1>5. u \in SUBSET P /\ x \in P /\ x \notin u /\ s = u \cup {x} /\ u # s
  BY <1>2, <1>3, <1>4
<1>6. u \in Good
  BY <1>2, <1>4, <1>5
<1> QED BY <1>2, <1>5, <1>6

\* A sum and one more.
LEMMA TotalMore ==
  ASSUME NEW P, IsFiniteSet(P), NEW fn \in [P -> Int], NEW S \in SUBSET P, NEW x \in P, x \notin S
  PROVE  /\ Total(fn, S \cup {x}) = fn[x] + Total(fn, S)
         /\ Total(fn, S) \in Int /\ fn[x] \in Int
<1>1. PICK U : U = S \cup {x}
  OBVIOUS
<1>2. U \in SUBSET P /\ x \in U /\ U \ {x} = S
  BY <1>1
<1>3. Total(fn, U) = fn[x] + Total(fn, S)
  BY <1>2, TotalLess
<1> QED BY <1>1, <1>3, TotalInt

LEMMA TotalSame ==
  ASSUME NEW P, IsFiniteSet(P), NEW fn, NEW gn, fn \in [P -> Int], gn \in [P -> Int],
         NEW S \in SUBSET P, \A x \in S : fn[x] = gn[x]
  PROVE  Total(fn, S) = Total(gn, S)
<1> DEFINE Good == {s \in SUBSET P : s \subseteq S => Total(fn, s) = Total(gn, s)}
<1>1. {} \in Good
  BY TotalNothing
<1>2. ASSUME NEW s \in SUBSET P, NEW x \in P, x \notin s, s \in Good PROVE s \cup {x} \in Good
  <2>1. SUFFICES ASSUME s \cup {x} \subseteq S PROVE Total(fn, s \cup {x}) = Total(gn, s \cup {x})
    OBVIOUS
  <2>2. Total(fn, s) = Total(gn, s) /\ fn[x] = gn[x]
    BY <1>2, <2>1
  <2> QED BY <1>2, <2>2, TotalMore
<1>3. \A s \in SUBSET P : s \in Good
  <2> HIDE DEF Good
  <2>1. Good \in SUBSET SUBSET P
    BY DEF Good
  <2> QED BY <1>1, <1>2, <2>1, Induct
<1> QED BY <1>3

LEMMA TotalUnion ==
  ASSUME NEW P, IsFiniteSet(P), NEW fn \in [P -> Int], NEW A \in SUBSET P, NEW B \in SUBSET P,
         A \cap B = {}
  PROVE  /\ Total(fn, A \cup B) = Total(fn, A) + Total(fn, B)
         /\ Total(fn, A) \in Int /\ Total(fn, B) \in Int
<1> DEFINE Good == {s \in SUBSET P : s \cap B = {} => Total(fn, s \cup B) = Total(fn, s) + Total(fn, B)}
<1>0. Total(fn, A) \in Int /\ Total(fn, B) \in Int
  BY TotalInt
<1>1. {} \in Good
  <2>1. {} \cup B = B
    OBVIOUS
  <2> QED BY <1>0, <2>1, TotalNothing
<1>2. ASSUME NEW s \in SUBSET P, NEW x \in P, x \notin s, s \in Good PROVE s \cup {x} \in Good
  <2>1. SUFFICES ASSUME (s \cup {x}) \cap B = {}
                 PROVE  Total(fn, (s \cup {x}) \cup B) = Total(fn, s \cup {x}) + Total(fn, B)
    OBVIOUS
  <2>2. Total(fn, s \cup B) = Total(fn, s) + Total(fn, B)
    BY <1>2, <2>1
  <2>3. PICK u : u = s \cup B
    OBVIOUS
  <2>4. u \in SUBSET P /\ x \notin u
    BY <1>2, <2>1, <2>3
  <2>7. PICK v : v = (s \cup {x}) \cup B
    OBVIOUS
  <2>8. v = u \cup {x}
    BY <2>3, <2>7
  <2>5. Total(fn, u \cup {x}) = fn[x] + Total(fn, u) /\ Total(fn, u) \in Int
    BY <2>4, TotalMore
  <2>6. Total(fn, s \cup {x}) = fn[x] + Total(fn, s) /\ Total(fn, s) \in Int /\ fn[x] \in Int
    BY <1>2, TotalMore
  <2>9. Total(fn, v) = Total(fn, s \cup {x}) + Total(fn, B)
    BY <1>0, <2>2, <2>3, <2>5, <2>6, <2>8
  <2> QED BY <2>7, <2>9
<1>3. \A s \in SUBSET P : s \in Good
  <2> HIDE DEF Good
  <2>1. Good \in SUBSET SUBSET P
    BY DEF Good
  <2> QED BY <1>1, <1>2, <2>1, Induct
<1> QED BY <1>0, <1>3

LEMMA TotalBounded ==
  ASSUME NEW P, IsFiniteSet(P), NEW c \in Nat, NEW fn, fn \in [P -> 0..c], NEW S \in SUBSET P
  PROVE  /\ Total(fn, S) \in Nat /\ Total(fn, S) <= c * Cardinality(S)
         /\ Cardinality(S) \in Nat
<1> DEFINE Good == {s \in SUBSET P : Total(fn, s) \in Nat /\ Total(fn, s) <= c * Cardinality(s)}
<1>0. fn \in [P -> Int]
  OBVIOUS
<1>1. {} \in Good
  BY TotalNothing, FS_EmptySet
<1>2. ASSUME NEW s \in SUBSET P, NEW x \in P, x \notin s, s \in Good PROVE s \cup {x} \in Good
  <2>1. Total(fn, s \cup {x}) = fn[x] + Total(fn, s) /\ fn[x] \in 0..c
    BY <1>0, <1>2, TotalMore
  <2>2. IsFiniteSet(s) /\ Cardinality(s) \in Nat /\ Cardinality(s \cup {x}) = Cardinality(s) + 1
    BY <1>2, FS_Subset, FS_AddElement, FS_CardinalityType
  <2>3. Total(fn, s) \in Nat /\ Total(fn, s) <= c * Cardinality(s)
    BY <1>2
  <2>4. PICK k \in Nat, t \in Nat, v \in 0..c : k = Cardinality(s) /\ t = Total(fn, s) /\ v = fn[x]
    BY <2>1, <2>2, <2>3
  <2>5. t <= c * k => v + t <= c * (k + 1)
    <3>1. c * (k + 1) = c * k + c /\ c * k \in Nat
      OBVIOUS
    <3> QED BY <3>1
  <2> QED BY <2>1, <2>2, <2>3, <2>4, <2>5
<1>3. \A s \in SUBSET P : s \in Good
  <2> HIDE DEF Good
  <2>1. Good \in SUBSET SUBSET P
    BY DEF Good
  <2> QED BY <1>1, <1>2, <2>1, Induct
<1> QED BY <1>3, FS_Subset, FS_CardinalityType

\* The parts of a whole that is not negative.
LEMMA TotalPart ==
  ASSUME NEW P, IsFiniteSet(P), NEW c \in Nat, NEW fn, fn \in [P -> 0..c],
         NEW B \in SUBSET P, NEW A \in SUBSET B
  PROVE  Total(fn, A) <= Total(fn, B) /\ Total(fn, A) \in Nat /\ Total(fn, B) \in Nat
<1>1. PICK C : C = B \ A
  OBVIOUS
<1>2. C \in SUBSET P /\ A \in SUBSET P /\ A \cap C = {} /\ A \cup C = B
  BY <1>1
<1>3. fn \in [P -> Int]
  OBVIOUS
<1>4. Total(fn, A) \in Nat /\ Total(fn, C) \in Nat /\ Total(fn, B) \in Nat
  BY <1>2, TotalBounded
<1> QED BY <1>2, <1>3, <1>4, TotalUnion

LEMMA TotalOfZero ==
  ASSUME NEW P, IsFiniteSet(P), NEW fn, fn \in [P -> 0..0], NEW S \in SUBSET P
  PROVE  Total(fn, S) = 0
<1>1. Total(fn, S) \in Nat /\ Total(fn, S) <= 0 * Cardinality(S) /\ Cardinality(S) \in Nat
  BY TotalBounded
<1> QED BY <1>1

\* The figures gn are the sums of fn by key, of the keys in I.
ByKey(P, fn, K, key, I, gn) ==
    /\ IsFiniteSet(P) /\ fn \in [P -> Int] /\ key \in [P -> K] /\ IsFiniteSet(I)
    /\ gn = [i \in I |-> Total(fn, {p \in P : key[p] = i})]

\* Sums of sums: each thing is in the part of its key.
LEMMA TotalByKey ==
  ASSUME NEW P, NEW fn, NEW K, NEW key, NEW I, NEW gn, ByKey(P, fn, K, key, I, gn),
         NEW S \in SUBSET I
  PROVE  Total(gn, S) = Total(fn, {p \in P : key[p] \in S})
<1>f. /\ IsFiniteSet(P) /\ fn \in [P -> Int] /\ key \in [P -> K] /\ IsFiniteSet(I)
      /\ gn = [i \in I |-> Total(fn, {p \in P : key[p] = i})]
  BY DEF ByKey
<1> USE <1>f
<1> DEFINE Of(s) == {p \in P : key[p] \in s}
           Good == {s \in SUBSET I : Total(gn, s) = Total(fn, Of(s))}
<1>0. gn \in [I -> Int]
  <2>1. \A i \in I : Total(fn, {p \in P : key[p] = i}) \in Int
    BY TotalInt
  <2> QED BY <2>1
<1>1. {} \in Good
  <2>1. Of({}) = {}
    OBVIOUS
  <2> QED BY <2>1, TotalNothing
<1>2. ASSUME NEW s \in SUBSET I, NEW i \in I, i \notin s, s \in Good PROVE s \cup {i} \in Good
  <2>1. PICK A, B : A = Of(s) /\ B = {p \in P : key[p] = i}
    OBVIOUS
  <2>2. A \in SUBSET P /\ B \in SUBSET P /\ A \cap B = {}
    BY <1>2, <2>1
  <2>9. A \cup B = Of(s \cup {i})
    BY <2>1
  <2>8. s \in SUBSET I /\ i \in I /\ i \notin s
    BY <1>2
  <2> HIDE DEF Of, Good
  <2>3. Total(fn, A \cup B) = Total(fn, A) + Total(fn, B) /\ Total(fn, A) \in Int /\ Total(fn, B) \in Int
    BY ONLY IsFiniteSet(P), fn \in [P -> Int], <2>2, TotalUnion
  <2>4. Total(gn, s \cup {i}) = gn[i] + Total(gn, s)
    BY ONLY IsFiniteSet(I), <1>0, <2>8, TotalMore
  <2> USE DEF Of, Good
  <2>5. gn[i] = Total(fn, B)
    BY <2>1
  <2>6. Total(gn, s) = Total(fn, A)
    BY <1>2, <2>1
  <2>7. Total(gn, s \cup {i}) = Total(fn, Of(s \cup {i}))
    <3> HIDE DEF Of, Good
    <3>1. PICK D : D = A \cup B
      OBVIOUS
    <3>2. Total(gn, s \cup {i}) = Total(fn, D)
      BY <2>3, <2>4, <2>5, <2>6, <3>1
    <3>3. D = Of(s \cup {i})
      BY <2>9, <3>1
    <3> QED BY <3>2, <3>3
  <2> QED BY <2>7
<1>3. \A s \in SUBSET I : s \in Good
  <2> HIDE DEF Good
  <2>1. Good \in SUBSET SUBSET I
    BY DEF Good
  <2> QED BY <1>1, <1>2, <2>1, Induct
<1> QED BY <1>3

\* Only one thing changes: its share, and whether it counts.
Share(fn, S, p) == IF p \in S THEN fn[p] ELSE 0

LEMMA TotalChange ==
  ASSUME NEW P, IsFiniteSet(P), NEW fn, NEW gn, fn \in [P -> Int], gn \in [P -> Int], NEW p \in P,
         NEW A \in SUBSET P, NEW B \in SUBSET P,
         \A q \in P \ {p} : fn[q] = gn[q] /\ (q \in A <=> q \in B)
  PROVE  /\ Total(gn, B) = Total(fn, A) - Share(fn, A, p) + Share(gn, B, p)
         /\ Total(fn, A) \in Int /\ Total(gn, B) \in Int
         /\ Share(fn, A, p) \in Int /\ Share(gn, B, p) \in Int
<1>1. PICK C : C = A \ {p}
  OBVIOUS
<1>2. C = B \ {p} /\ C \in SUBSET P
  BY <1>1
<1>3. Total(fn, C) = Total(gn, C)
  BY <1>1, <1>2, TotalSame
<1>4. Total(fn, A) = Share(fn, A, p) + Total(fn, C)
  <2>1. CASE p \in A
    BY <1>1, <2>1, TotalLess DEF Share
  <2>2. CASE p \notin A
    <3>1. C = A
      BY <1>1, <2>2
    <3> QED BY <2>2, <3>1, TotalInt DEF Share
  <2> QED BY <2>1, <2>2
<1>5. Total(gn, B) = Share(gn, B, p) + Total(gn, C)
  <2>1. CASE p \in B
    BY <1>2, <2>1, TotalLess DEF Share
  <2>2. CASE p \notin B
    <3>1. C = B
      BY <1>2, <2>2
    <3> QED BY <2>2, <3>1, TotalInt DEF Share
  <2> QED BY <2>1, <2>2
<1>6. Total(fn, A) \in Int /\ Total(gn, B) \in Int /\ Total(fn, C) \in Int
  BY <1>2, TotalInt
<1>7. Share(fn, A, p) \in Int /\ Share(gn, B, p) \in Int
  BY DEF Share
<1> QED BY <1>3, <1>4, <1>5, <1>6, <1>7

\* A finite set of numbers that is not empty has a greatest one.
LEMMA Greatest ==
  ASSUME NEW S \in SUBSET Nat, IsFiniteSet(S), S # {}
  PROVE  \E x \in S : \A y \in S : x >= y
<1> DEFINE Above(x) == {y \in S : y > x}
           Tails == {Above(x) : x \in S}
<1>1. Tails \in SUBSET SUBSET S /\ Tails # {}
  OBVIOUS
<1>2. PICK least \in Tails : \A s \in Tails : s \subseteq least => s = least
  <2>1. PICK all, tails : all = S /\ tails = Tails
    OBVIOUS
  <2>2. IsFiniteSet(all) /\ tails \in SUBSET SUBSET all /\ tails # {}
    BY <1>1, <2>1
  <2>3. \E least \in tails : \A s \in tails : s \subseteq least => s = least
    BY <2>2, Smallest
  <2> QED BY <2>1, <2>3
<1>3. PICK x \in S : least = Above(x)
  OBVIOUS
<1>4. ASSUME NEW y \in S PROVE x >= y
  <2>1. SUFFICES ASSUME y > x PROVE FALSE
    OBVIOUS
  <2>2. Above(y) \in Tails /\ Above(y) \subseteq Above(x)
    <3>1. \A z \in S : z > y => z > x
      BY <2>1
    <3> QED BY <3>1
  <2>3. y \in Above(x) /\ y \notin Above(y)
    BY <2>1
  <2> QED BY <1>2, <1>3, <2>2, <2>3
<1> QED BY <1>4

-----------------------------------------------------------------------------
(* The reports: the inductive invariant                                    *)

\* A figure as the report will show it if no money moves any more.
Shown(q, known, now) == IF q \in finances.left THEN now ELSE known

TotalNow == Shown("total", finances.total, R!Sum(Receipts))
MonthNow == Shown("month", finances.month, R!Since(finances.now))
BarNow == Shown("series", finances.series[0], R!Sum({p \in Receipts : paid[p].created = finances.now}))
BarsNow(n) == Shown("series", R!LastBars(n),
                    R!Sum({p \in Receipts : finances.now - paid[p].created \in 0..n - 1}))
EventsNow == Shown("events", R!SumFunctionOnSet(finances.events, Events),
                   R!Sum({p \in Receipts : paid[p].event \in Events}))

\* What a payment can still move of the money.
Left(r) == IF r.status \in {"none", "pending"} THEN 2 * R!Max(Prices) ELSE R!Net(r)
Movable == [p \in Receipts |-> Left(paid[p])]

PaidOK(r) ==
    /\ r.status = "none" => r = R!NoRow
    /\ r.refunded <= r.amount
    /\ r.created <= month

RowsPaid ==
    /\ paid \in [Receipts -> R!PaidRow] /\ month \in 0..LastMonth
    /\ \A p \in Receipts : PaidOK(paid[p])

FinancesTyped ==
    finances \in [left : SUBSET R!Queries, now : 0..LastMonth, total : R!Cents, month : R!Cents,
                 events : [Events -> R!Cents], series : [0..Bars - 1 -> R!Cents]]

FinancesInv ==
    /\ RowsPaid /\ FinancesTyped
    /\ finances.now <= month
    /\ moved \in Nat
    /\ moved + R!SumFunctionOnSet(Movable, Receipts) <= 2 * R!Max(Prices) * Cardinality(Receipts)
    /\ MonthNow <= BarNow + moved /\ BarNow <= MonthNow + moved
    /\ \A n \in 1..Bars : BarsNow(n) <= TotalNow + moved
    /\ EventsNow <= TotalNow + moved

GrowthInv ==
    /\ joins \in [People -> [status : {"none", "pending", "active"}, recent : BOOLEAN]]
    /\ growth \in [pc : {"days", "total", "read"}, joined : 0..Cardinality(People),
                   total : 0..Cardinality(People), pending : 0..Cardinality(People)]
    /\ moves \in [all : 0..MaxMoves, since : 0..MaxMoves] /\ moves.since <= moves.all
    /\ growth.pc = "total" =>
          growth.joined <= Cardinality(R!Is("active")) + growth.pending + moves.since
    /\ growth.pc = "read" => growth.joined <= growth.total + growth.pending + moves.since

Top == R!Max(Prices)
Nets == [p \in Receipts |-> R!Net(paid[p])]

LEMMA CountsR == \A S : R!Cardinality(S) = Cardinality(S)
BY DEF R!Cardinality, Cardinality

LEMMA ReportConstants ==
  /\ IsFiniteSet(Receipts) /\ IsFiniteSet(Events) /\ IsFiniteSet(People) /\ NoEvent \notin Events
  /\ Bars \in Nat \ {0} /\ LastMonth \in Nat /\ MaxMoves \in Nat
  /\ Top \in Nat \ {0} /\ Prices \subseteq 1..Top
<1>1. /\ IsFiniteSet(Receipts) /\ IsFiniteSet(Events) /\ IsFiniteSet(People) /\ IsFiniteSet(Prices)
  BY PartsAssumption DEF R!ReportsAssumption, R!IsFiniteSet, IsFiniteSet
<1>2. /\ NoEvent \notin Events /\ Bars \in Nat \ {0} /\ LastMonth \in Nat /\ MaxMoves \in Nat
      /\ Prices \subseteq Nat \ {0} /\ Prices # {}
  BY PartsAssumption DEF R!ReportsAssumption
<1>3. PICK x \in Prices : \A y \in Prices : x >= y
  BY <1>1, <1>2, Greatest
<1>4. Top \in Prices /\ \A y \in Prices : Top >= y
  BY <1>3 DEF Top, R!Max
<1> QED BY <1>1, <1>2, <1>4

LEMMA SumIs == \A ps : R!Sum(ps) = Total(Nets, ps)
BY DEF R!Sum, Nets, Total

\* Where an amount lies, and what a payment adds to a sum.
LEMMA RowNet ==
  ASSUME NEW r \in R!PaidRow, r.refunded <= r.amount
  PROVE  /\ r.amount \in 0..Top /\ r.refunded \in 0..Top /\ R!Net(r) \in 0..Top
         /\ R!Net(r) <= r.amount
BY ReportConstants DEF R!PaidRow, R!Amounts, R!Net, Top

LEMMA NetsTyped ==
  ASSUME RowsPaid
  PROVE  /\ Nets \in [Receipts -> 0..Top] /\ Nets \in [Receipts -> Int]
         /\ Movable \in [Receipts -> 0..2 * Top]
<1>1. ASSUME NEW p \in Receipts PROVE R!Net(paid[p]) \in 0..Top
  BY RowNet DEF RowsPaid, PaidOK
<1>2. Nets \in [Receipts -> 0..Top]
  BY <1>1 DEF Nets
<1>3. \A n \in 0..Top : n \in 0..2 * Top /\ n \in Int /\ 2 * Top \in 0..2 * Top
  BY ReportConstants
<1>4. Nets \in [Receipts -> Int]
  BY <1>2, <1>3
<1>5. Movable \in [Receipts -> 0..2 * Top]
  BY <1>1, <1>3 DEF Movable, Left, Top
<1> QED BY <1>2, <1>4, <1>5

LEMMA SumTyped ==
  ASSUME RowsPaid, NEW S \in SUBSET Receipts
  PROVE  Total(Nets, S) \in R!Cents /\ Total(Nets, S) <= Total(Nets, Receipts) /\ Total(Nets, S) \in Nat
<1>1. IsFiniteSet(Receipts) /\ Top \in Nat
  BY ReportConstants
<1>2. /\ Total(Nets, Receipts) \in Nat /\ Total(Nets, Receipts) <= Top * Cardinality(Receipts)
      /\ Cardinality(Receipts) \in Nat
  <2>1. Receipts \in SUBSET Receipts
    OBVIOUS
  <2> QED BY <1>1, <2>1, NetsTyped, TotalBounded
<1>3. Total(Nets, S) <= Total(Nets, Receipts) /\ Total(Nets, S) \in Nat
  <2>1. Receipts \in SUBSET Receipts
    OBVIOUS
  <2> QED BY <1>1, <2>1, NetsTyped, TotalPart
<1>4. Top * Cardinality(Receipts) \in Nat
  BY <1>1, <1>2
<1>5. R!Cents = 0..Top * Cardinality(Receipts)
  BY CountsR DEF R!Cents, Top
<1> QED BY <1>2, <1>3, <1>4, <1>5

-----------------------------------------------------------------------------
(* A payment moves                                                         *)

\* The figure of a set that the payment may enter, or be in, moves with it or
\* stays.
LEMMA SumMoves ==
  ASSUME FinancesInv, NEW p \in Receipts, NEW r \in R!PaidRow, r.refunded <= r.amount,
         paid' = [paid EXCEPT ![p] = r],
         NEW A \in SUBSET Receipts, NEW B \in SUBSET Receipts,
         \A q \in Receipts \ {p} : q \in A <=> q \in B,
         (p \in A <=> p \in B) \/ R!Net(paid[p]) = 0
  PROVE  /\ Total(Nets, A) \in Int /\ R!Net(r) \in Int /\ R!Net(paid[p]) \in Int
         /\ \/ Total(Nets', B) = Total(Nets, A)
            \/ Total(Nets', B) = Total(Nets, A) + (R!Net(r) - R!Net(paid[p]))
<1>1. IsFiniteSet(Receipts)
  BY ReportConstants
<1>2. PICK f, g : f = Nets /\ g = Nets'
  OBVIOUS
<1>3. f \in [Receipts -> Int] /\ R!Net(r) \in Int
  BY <1>2, NetsTyped, RowNet DEF FinancesInv, RowsPaid, FinancesTyped
<1>4. g = [f EXCEPT ![p] = R!Net(r)]
  <2>1. g = [q \in Receipts |-> R!Net(paid'[q])]
    BY <1>2 DEF Nets
  <2>2. \A q \in Receipts : paid'[q] = IF q = p THEN r ELSE paid[q]
    BY DEF FinancesInv, RowsPaid, FinancesTyped
  <2>3. f = [q \in Receipts |-> R!Net(paid[q])]
    BY <1>2 DEF Nets
  <2> QED BY <2>1, <2>2, <2>3
<1>5. g \in [Receipts -> Int] /\ g[p] = R!Net(r) /\ \A q \in Receipts \ {p} : f[q] = g[q]
  BY <1>3, <1>4
<1>6. /\ Total(g, B) = Total(f, A) - Share(f, A, p) + Share(g, B, p)
      /\ Total(f, A) \in Int /\ Share(f, A, p) \in Int /\ Share(g, B, p) \in Int
  BY <1>1, <1>3, <1>5, TotalChange
<1>7. f[p] = R!Net(paid[p]) /\ f[p] \in Int
  BY <1>2, <1>3 DEF Nets
<1>8. \/ Share(g, B, p) = Share(f, A, p)
      \/ Share(g, B, p) = Share(f, A, p) + (R!Net(r) - R!Net(paid[p]))
  BY <1>3, <1>5, <1>7 DEF Share
<1>9. Total(Nets', B) = Total(g, B)
  BY <1>2
<1> QED BY <1>2, <1>3, <1>6, <1>7, <1>8, <1>9

\* What every step of a payment keeps to.
PaysSo(p, r) ==
    /\ r \in R!PaidRow /\ r.refunded <= r.amount /\ r.created <= month /\ r.status # "none"
    /\ R!Becomes(p, r) /\ month' = month /\ finances' = finances
    /\ \/ r.created = paid[p].created /\ r.event = paid[p].event
       \/ R!Net(paid[p]) = 0
    /\ \/ R!Net(r) > R!Net(paid[p]) /\ R!Net(r) - R!Net(paid[p]) + Left(r) <= Left(paid[p])
       \/ R!Net(r) <= R!Net(paid[p]) /\ R!Net(paid[p]) - R!Net(r) + Left(r) <= Left(paid[p])

\* A figure moves with the payment, or stays.
Follows(before, after, d) == before \in Int /\ (after = before \/ after = before + d)

LEMMA FiguresMove ==
  ASSUME FinancesInv, NEW p \in Receipts, NEW r, PaysSo(p, r), NEW d, d = R!Net(r) - R!Net(paid[p])
  PROVE  /\ Follows(TotalNow, TotalNow', IF finances.left = {} THEN 0 ELSE d)
         /\ Follows(MonthNow, MonthNow', IF finances.left = {} THEN 0 ELSE d)
         /\ Follows(BarNow, BarNow', IF finances.left = {} THEN 0 ELSE d)
         /\ \A n \in 1..Bars : Follows(BarsNow(n), BarsNow(n)', IF finances.left = {} THEN 0 ELSE d)
         /\ Follows(EventsNow, EventsNow', IF finances.left = {} THEN 0 ELSE d)
<1>1. PICK e : e = IF finances.left = {} THEN 0 ELSE d
  OBVIOUS
<1>2. /\ r \in R!PaidRow /\ r.refunded <= r.amount /\ finances' = finances
      /\ paid' = [paid EXCEPT ![p] = r] /\ \A q \in Receipts : paid'[q] = IF q = p THEN r ELSE paid[q]
  BY DEF PaysSo, R!Becomes, FinancesInv, RowsPaid, FinancesTyped
<1>3. \/ r.created = paid[p].created /\ r.event = paid[p].event
      \/ R!Net(paid[p]) = 0
  BY DEF PaysSo
<1>4. \A S : R!Sum(S) = Total(Nets, S) /\ R!Sum(S)' = Total(Nets', S)
  <2>1. \A S : R!Sum(S)' = Total(Nets', S)
    BY DEF R!Sum, Nets, Total
  <2> QED BY <2>1, SumIs
<1>5. ASSUME NEW q \in {"total", "month", "events", "series"}, NEW known \in Int,
             NEW A \in SUBSET Receipts, NEW B \in SUBSET Receipts,
             \A j \in Receipts \ {p} : j \in A <=> j \in B,
             (p \in A <=> p \in B) \/ R!Net(paid[p]) = 0
      PROVE  Follows(IF q \in finances.left THEN Total(Nets, A) ELSE known,
                     IF q \in finances.left THEN Total(Nets', B) ELSE known, e)
  <2>1. /\ Total(Nets, A) \in Int
        /\ \/ Total(Nets', B) = Total(Nets, A)
           \/ Total(Nets', B) = Total(Nets, A) + d
    BY <1>2, <1>5, SumMoves
  <2>2. CASE q \in finances.left
    <3>1. e = d
      BY <1>1, <2>2
    <3> QED BY <2>1, <2>2, <3>1 DEF Follows
  <2>3. CASE q \notin finances.left
    BY <2>3 DEF Follows
  <2> QED BY <2>2, <2>3
<1>6. /\ finances.total \in Int /\ finances.month \in Int /\ finances.series[0] \in Int
      /\ finances.series \in [0..Bars - 1 -> Int] /\ finances.events \in [Events -> Int]
  <2>1. R!Cents \subseteq Int /\ 0 \in 0..Bars - 1
    BY ReportConstants DEF R!Cents
  <2>2. /\ finances.total \in R!Cents /\ finances.month \in R!Cents
        /\ finances.series \in [0..Bars - 1 -> R!Cents] /\ finances.events \in [Events -> R!Cents]
    BY DEF FinancesInv, RowsPaid, FinancesTyped
  <2> QED BY <2>1, <2>2
<1>7. Follows(TotalNow, TotalNow', e)
  BY <1>2, <1>4, <1>5, <1>6 DEF TotalNow, Shown
<1>8. Follows(MonthNow, MonthNow', e)
  <2>1. PICK A, B : /\ A = {j \in Receipts : paid[j].created >= finances.now}
                    /\ B = {j \in Receipts : paid'[j].created >= finances.now}
    OBVIOUS
  <2>2. /\ A \in SUBSET Receipts /\ B \in SUBSET Receipts
        /\ \A j \in Receipts \ {p} : j \in A <=> j \in B
        /\ (p \in A <=> p \in B) \/ R!Net(paid[p]) = 0
    BY <1>2, <1>3, <2>1
  <2>3. R!Since(finances.now) = Total(Nets, A) /\ R!Since(finances.now)' = Total(Nets', B)
    BY <1>2, <1>4, <2>1 DEF R!Since
  <2> QED BY <1>2, <1>5, <1>6, <2>2, <2>3 DEF MonthNow, Shown
<1>9. Follows(BarNow, BarNow', e)
  <2>1. PICK A, B : /\ A = {j \in Receipts : paid[j].created = finances.now}
                    /\ B = {j \in Receipts : paid'[j].created = finances.now}
    OBVIOUS
  <2>2. /\ A \in SUBSET Receipts /\ B \in SUBSET Receipts
        /\ \A j \in Receipts \ {p} : j \in A <=> j \in B
        /\ (p \in A <=> p \in B) \/ R!Net(paid[p]) = 0
    BY <1>2, <1>3, <2>1
  <2>3. /\ R!Sum({j \in Receipts : paid[j].created = finances.now}) = Total(Nets, A)
        /\ R!Sum({j \in Receipts : paid[j].created = finances.now})' = Total(Nets', B)
    BY <1>2, <1>4, <2>1
  <2> QED BY <1>2, <1>5, <1>6, <2>2, <2>3 DEF BarNow, Shown
<1>10. Follows(EventsNow, EventsNow', e)
  <2>1. PICK A, B : /\ A = {j \in Receipts : paid[j].event \in Events}
                    /\ B = {j \in Receipts : paid'[j].event \in Events}
    OBVIOUS
  <2>2. /\ A \in SUBSET Receipts /\ B \in SUBSET Receipts
        /\ \A j \in Receipts \ {p} : j \in A <=> j \in B
        /\ (p \in A <=> p \in B) \/ R!Net(paid[p]) = 0
    BY <1>2, <1>3, <2>1
  <2>3. /\ R!Sum({j \in Receipts : paid[j].event \in Events}) = Total(Nets, A)
        /\ R!Sum({j \in Receipts : paid[j].event \in Events})' = Total(Nets', B)
    BY <1>2, <1>4, <2>1
  <2>4. R!SumFunctionOnSet(finances.events, Events) \in Int
    <3>1. Events \in SUBSET Events
      OBVIOUS
    <3> QED BY <1>6, <3>1, ReportConstants, TotalInt DEF Total
  <2>5. R!SumFunctionOnSet(finances.events, Events)' = R!SumFunctionOnSet(finances.events, Events)
    BY <1>2 DEF R!SumFunctionOnSet, R!FoldFunctionOnSet, R!MapThenFoldSet
  <2> QED BY <1>2, <1>5, <2>2, <2>3, <2>4, <2>5 DEF EventsNow, Shown
<1>11. ASSUME NEW n \in 1..Bars PROVE Follows(BarsNow(n), BarsNow(n)', e)
  <2>1. PICK A, B : /\ A = {j \in Receipts : finances.now - paid[j].created \in 0..n - 1}
                    /\ B = {j \in Receipts : finances.now - paid'[j].created \in 0..n - 1}
    OBVIOUS
  <2>2. /\ A \in SUBSET Receipts /\ B \in SUBSET Receipts
        /\ \A j \in Receipts \ {p} : j \in A <=> j \in B
        /\ (p \in A <=> p \in B) \/ R!Net(paid[p]) = 0
    BY <1>2, <1>3, <2>1
  <2>3. /\ R!Sum({j \in Receipts : finances.now - paid[j].created \in 0..n - 1}) = Total(Nets, A)
        /\ R!Sum({j \in Receipts : finances.now - paid[j].created \in 0..n - 1})' = Total(Nets', B)
    BY <1>2, <1>4, <2>1
  <2>4. R!LastBars(n) \in Int
    <3>1. 0..n - 1 \in SUBSET (0..Bars - 1) /\ IsFiniteSet(0..Bars - 1)
      BY ReportConstants, FS_Interval
    <3> QED BY <1>6, <3>1, TotalInt DEF Total, R!LastBars
  <2>5. R!LastBars(n)' = R!LastBars(n)
    BY <1>2 DEF R!LastBars, R!SumFunctionOnSet, R!FoldFunctionOnSet, R!MapThenFoldSet
  <2> QED BY <1>2, <1>5, <2>2, <2>3, <2>4, <2>5 DEF BarsNow, Shown
<1> QED BY <1>1, <1>7, <1>8, <1>9, <1>10, <1>11

LEMMA PaymentMoves ==
  ASSUME FinancesInv, NEW p \in Receipts, NEW r, PaysSo(p, r)
  PROVE  FinancesInv'
<1>1. PICK d : d = R!Net(r) - R!Net(paid[p])
  OBVIOUS
<1>2. PICK e : e = IF finances.left = {} THEN 0 ELSE d
  OBVIOUS
<1>3. /\ r \in R!PaidRow /\ r.refunded <= r.amount /\ r.created <= month /\ r.status # "none"
      /\ month' = month /\ finances' = finances
      /\ paid' = [paid EXCEPT ![p] = r] /\ \A q \in Receipts : paid'[q] = IF q = p THEN r ELSE paid[q]
      /\ moved' = IF finances.left = {} THEN moved
                  ELSE IF R!Net(r) > R!Net(paid[p]) THEN moved + R!Net(r) - R!Net(paid[p])
                  ELSE moved + R!Net(paid[p]) - R!Net(r)
  BY DEF PaysSo, R!Becomes, FinancesInv, RowsPaid, FinancesTyped
<1>4. /\ R!Net(r) \in Nat /\ R!Net(paid[p]) \in Nat /\ Left(r) \in Nat /\ Left(paid[p]) \in Nat /\ moved \in Nat
  <2>1. R!Net(r) \in Nat /\ R!Net(paid[p]) \in Nat
    BY <1>3, RowNet DEF FinancesInv, RowsPaid, FinancesTyped, PaidOK
  <2> QED BY <2>1, ReportConstants DEF Left, Top, FinancesInv, RowsPaid, FinancesTyped
<1>5. \/ R!Net(r) > R!Net(paid[p]) /\ R!Net(r) - R!Net(paid[p]) + Left(r) <= Left(paid[p])
      \/ R!Net(r) <= R!Net(paid[p]) /\ R!Net(paid[p]) - R!Net(r) + Left(r) <= Left(paid[p])
  BY DEF PaysSo
<1>6. /\ d \in Int /\ e \in Int /\ moved' \in Nat
      /\ moved + e <= moved' /\ moved - e <= moved' /\ moved <= moved'
      /\ moved' - moved + Left(r) <= Left(paid[p])
  BY <1>1, <1>2, <1>3, <1>4, <1>5
<1>7. /\ Follows(TotalNow, TotalNow', e) /\ Follows(MonthNow, MonthNow', e) /\ Follows(BarNow, BarNow', e)
      /\ \A n \in 1..Bars : Follows(BarsNow(n), BarsNow(n)', e)
      /\ Follows(EventsNow, EventsNow', e)
  BY <1>1, <1>2, FiguresMove
<1>8. /\ MonthNow <= BarNow + moved /\ BarNow <= MonthNow + moved
      /\ \A n \in 1..Bars : BarsNow(n) <= TotalNow + moved
      /\ EventsNow <= TotalNow + moved
  BY DEF FinancesInv, RowsPaid, FinancesTyped
<1>9. MonthNow' <= BarNow' + moved' /\ BarNow' <= MonthNow' + moved'
  BY <1>4, <1>6, <1>7, <1>8 DEF Follows
<1>10. ASSUME NEW n \in 1..Bars PROVE BarsNow(n)' <= TotalNow' + moved'
  <2>1. Follows(BarsNow(n), BarsNow(n)', e) /\ BarsNow(n) <= TotalNow + moved
    BY <1>7, <1>8
  <2>2. PICK x, y : x = BarsNow(n) /\ y = BarsNow(n)'
    OBVIOUS
  <2>3. Follows(x, y, e) /\ x <= TotalNow + moved
    BY <2>1, <2>2
  <2>4. y <= TotalNow' + moved'
    BY <1>4, <1>6, <1>7, <2>3 DEF Follows
  <2> QED BY <2>2, <2>4
<1>11. EventsNow' <= TotalNow' + moved'
  BY <1>4, <1>6, <1>7, <1>8 DEF Follows
<1>12. moved' + R!SumFunctionOnSet(Movable, Receipts)' <= 2 * R!Max(Prices) * Cardinality(Receipts)
  <2>1. PICK f, g : f = Movable /\ g = Movable'
    OBVIOUS
  <2>2. f \in [Receipts -> Int] /\ f = [q \in Receipts |-> Left(paid[q])]
    BY <2>1, NetsTyped, ReportConstants DEF Movable, FinancesInv, RowsPaid, FinancesTyped
  <2>3. g = [q \in Receipts |-> Left(paid'[q])]
    BY <2>1 DEF Movable, Left
  <2>4. g \in [Receipts -> Int] /\ g[p] = Left(r) /\ f[p] = Left(paid[p]) /\ \A q \in Receipts \ {p} : f[q] = g[q]
    BY <1>3, <1>4, <2>2, <2>3
  <2>5. /\ Total(g, Receipts) = Total(f, Receipts) - Share(f, Receipts, p) + Share(g, Receipts, p)
        /\ Total(f, Receipts) \in Int /\ Total(g, Receipts) \in Int
    <3>1. Receipts \in SUBSET Receipts
      OBVIOUS
    <3> QED BY <2>2, <2>4, <3>1, ReportConstants, TotalChange
  <2>6. Share(f, Receipts, p) = Left(paid[p]) /\ Share(g, Receipts, p) = Left(r)
    BY <2>4 DEF Share
  <2>7. moved + Total(f, Receipts) <= 2 * R!Max(Prices) * Cardinality(Receipts)
    BY <2>1 DEF FinancesInv, RowsPaid, FinancesTyped, Total
  <2>8. R!SumFunctionOnSet(Movable, Receipts)' = Total(g, Receipts)
    BY <2>1 DEF Total
  <2>9. 2 * R!Max(Prices) * Cardinality(Receipts) \in Nat
    BY ReportConstants, FS_CardinalityType DEF Top
  <2> QED BY <1>4, <1>6, <2>5, <2>6, <2>7, <2>8, <2>9
<1>13. /\ paid' \in [Receipts -> R!PaidRow] /\ \A q \in Receipts : PaidOK(paid[q])'
  <2>1. paid' \in [Receipts -> R!PaidRow]
    BY <1>3 DEF FinancesInv, RowsPaid, FinancesTyped
  <2>2. ASSUME NEW q \in Receipts PROVE PaidOK(paid[q])'
    BY <1>3 DEF PaidOK, FinancesInv, RowsPaid, FinancesTyped
  <2> QED BY <2>1, <2>2
<1> QED BY <1>3, <1>6, <1>9, <1>10, <1>11, <1>12, <1>13 DEF FinancesInv, RowsPaid, FinancesTyped

-----------------------------------------------------------------------------
(* The reports are read                                                    *)

LEMMA MovableBounded ==
  ASSUME RowsPaid
  PROVE  /\ R!SumFunctionOnSet(Movable, Receipts) \in Nat
         /\ R!SumFunctionOnSet(Movable, Receipts) <= 2 * R!Max(Prices) * Cardinality(Receipts)
<1>1. Receipts \in SUBSET Receipts /\ IsFiniteSet(Receipts) /\ 2 * Top \in Nat
  BY ReportConstants
<1>2. /\ Total(Movable, Receipts) \in Nat
      /\ Total(Movable, Receipts) <= 2 * Top * Cardinality(Receipts)
  BY <1>1, NetsTyped, TotalBounded
<1> QED BY <1>2 DEF Total, Top

\* Nothing read adds up to nothing.
LEMMA NothingAdds ==
  /\ \A s : s = [i \in 0..Bars - 1 |-> 0] => \A n \in 1..Bars : Total(s, 0..n - 1) = 0
  /\ \A s : s = [e \in Events |-> 0] => Total(s, Events) = 0
<1>1. ASSUME NEW s, s = [i \in 0..Bars - 1 |-> 0], NEW n \in 1..Bars PROVE Total(s, 0..n - 1) = 0
  <2>1. s \in [0..Bars - 1 -> 0..0] /\ 0..n - 1 \in SUBSET (0..Bars - 1) /\ IsFiniteSet(0..Bars - 1)
    BY <1>1, ReportConstants, FS_Interval
  <2> QED BY <2>1, TotalOfZero
<1>2. ASSUME NEW s, s = [e \in Events |-> 0] PROVE Total(s, Events) = 0
  <2>1. s \in [Events -> 0..0] /\ Events \in SUBSET Events
    BY <1>2
  <2> QED BY <2>1, ReportConstants, TotalOfZero
<1> QED BY <1>1, <1>2

LEMMA NothingTyped ==
  R!NoFinances \in [left : SUBSET R!Queries, now : 0..LastMonth, total : R!Cents, month : R!Cents,
                    events : [Events -> R!Cents], series : [0..Bars - 1 -> R!Cents]]
<1>1. Top * Cardinality(Receipts) \in Nat
  BY ReportConstants, FS_CardinalityType
<1>2. 0 \in R!Cents /\ 0 \in 0..LastMonth
  BY <1>1, ReportConstants, CountsR DEF R!Cents, Top
<1> QED BY <1>2 DEF R!NoFinances

LEMMA FinancesInit == R!Init => FinancesInv
<1> SUFFICES ASSUME R!Init PROVE FinancesInv
  OBVIOUS
<1>1. /\ paid = [p \in Receipts |-> R!NoRow] /\ month = 0 /\ finances = R!NoFinances /\ moved = 0
  BY DEF R!Init
<1>2. R!NoRow \in R!PaidRow
  BY ReportConstants DEF R!NoRow, R!PaidRow, R!Amounts, Top
<1>3. RowsPaid
  BY <1>1, <1>2, ReportConstants DEF RowsPaid, PaidOK, R!NoRow
<1>4. FinancesTyped
  BY <1>1, NothingTyped DEF FinancesTyped
<1>5. moved + R!SumFunctionOnSet(Movable, Receipts) <= 2 * R!Max(Prices) * Cardinality(Receipts)
  BY <1>1, <1>3, MovableBounded
<1>6. /\ finances.left = {} /\ finances.total = 0 /\ finances.month = 0 /\ finances.now = 0
      /\ finances.series = [i \in 0..Bars - 1 |-> 0] /\ finances.events = [e \in Events |-> 0]
  BY <1>1 DEF R!NoFinances
<1>7. /\ TotalNow = 0 /\ MonthNow = 0 /\ BarNow = 0 /\ EventsNow = 0
      /\ \A n \in 1..Bars : BarsNow(n) = 0
  <2>1. finances.series[0] = 0
    BY <1>6, ReportConstants
  <2>2. \A n \in 1..Bars : R!LastBars(n) = 0
    BY <1>6, NothingAdds DEF R!LastBars, Total
  <2>3. R!SumFunctionOnSet(finances.events, Events) = 0
    BY <1>6, NothingAdds DEF Total
  <2> QED BY <1>6, <2>1, <2>2, <2>3 DEF TotalNow, MonthNow, BarNow, EventsNow, BarsNow, Shown
<1> QED BY <1>1, <1>3, <1>4, <1>5, <1>6, <1>7 DEF FinancesInv

LEMMA MonthPassesOK == ASSUME FinancesInv, R!MonthPasses PROVE FinancesInv'
<1>1. /\ month < LastMonth /\ month' = month + 1 /\ paid' = paid /\ finances' = finances /\ moved' = moved
  BY DEF R!MonthPasses
<1>2. RowsPaid'
  BY <1>1, ReportConstants DEF FinancesInv, RowsPaid, PaidOK, R!PaidRow
<1>3. /\ TotalNow' = TotalNow /\ MonthNow' = MonthNow /\ BarNow' = BarNow /\ EventsNow' = EventsNow
      /\ \A n : BarsNow(n)' = BarsNow(n)
      /\ R!SumFunctionOnSet(Movable, Receipts)' = R!SumFunctionOnSet(Movable, Receipts)
  BY <1>1 DEF TotalNow, MonthNow, BarNow, EventsNow, BarsNow, Shown, Movable, Left,
              R!Since, R!Sum, R!Net, R!LastBars, R!SumFunctionOnSet, R!FoldFunctionOnSet, R!MapThenFoldSet
<1>4. month \in Nat /\ finances.now \in Nat
  BY ReportConstants DEF FinancesInv, RowsPaid, FinancesTyped
<1> QED BY <1>1, <1>2, <1>3, <1>4 DEF FinancesInv, FinancesTyped

LEMMA FinancesKept ==
  ASSUME FinancesInv, paid' = paid, month' = month, finances' = finances, moved' = moved
  PROVE  FinancesInv'
<1>1. RowsPaid'
  BY DEF FinancesInv, RowsPaid, PaidOK
<1>2. /\ TotalNow' = TotalNow /\ MonthNow' = MonthNow /\ BarNow' = BarNow /\ EventsNow' = EventsNow
      /\ \A n : BarsNow(n)' = BarsNow(n)
      /\ R!SumFunctionOnSet(Movable, Receipts)' = R!SumFunctionOnSet(Movable, Receipts)
  BY DEF TotalNow, MonthNow, BarNow, EventsNow, BarsNow, Shown, Movable, Left,
         R!Since, R!Sum, R!Net, R!LastBars, R!SumFunctionOnSet, R!FoldFunctionOnSet, R!MapThenFoldSet
<1> QED BY <1>1, <1>2 DEF FinancesInv, FinancesTyped

LEMMA BeginFinancesOK == ASSUME FinancesInv, R!BeginFinances PROVE FinancesInv'
<1>1. /\ finances' = [R!NoFinances EXCEPT !.left = R!Queries, !.now = month]
      /\ moved' = 0 /\ paid' = paid /\ month' = month
  BY DEF R!BeginFinances
<1>2. RowsPaid /\ RowsPaid' /\ month \in 0..LastMonth
  BY <1>1 DEF FinancesInv, RowsPaid, PaidOK
<1>3. /\ FinancesTyped' /\ finances'.left = R!Queries /\ finances'.now = month
  <2>1. PICK f, g : f = R!NoFinances /\ g = finances'
    OBVIOUS
  <2>2. /\ f \in [left : SUBSET R!Queries, now : 0..LastMonth, total : R!Cents, month : R!Cents,
                  events : [Events -> R!Cents], series : [0..Bars - 1 -> R!Cents]]
        /\ g = [f EXCEPT !.left = R!Queries, !.now = month]
    BY <1>1, <2>1, NothingTyped
  <2>3. /\ g \in [left : SUBSET R!Queries, now : 0..LastMonth, total : R!Cents, month : R!Cents,
                  events : [Events -> R!Cents], series : [0..Bars - 1 -> R!Cents]]
        /\ g.left = R!Queries /\ g.now = month
    BY <1>2, <2>2
  <2> QED BY <2>1, <2>3 DEF FinancesTyped
<1>4. \A S : R!Sum(S)' = Total(Nets, S)
  BY <1>1 DEF R!Sum, Nets, Total
<1>5. {"total", "month", "events", "series"} = finances'.left
  BY <1>3 DEF R!Queries
<1>6. TotalNow' = Total(Nets, Receipts)
  BY <1>4, <1>5 DEF TotalNow, Shown
<1>7. MonthNow' = Total(Nets, {p \in Receipts : paid[p].created >= month})
  BY <1>1, <1>3, <1>4, <1>5 DEF MonthNow, Shown, R!Since
<1>8. BarNow' = Total(Nets, {p \in Receipts : paid[p].created = month})
  BY <1>1, <1>3, <1>4, <1>5 DEF BarNow, Shown
<1>9. {p \in Receipts : paid[p].created >= month} = {p \in Receipts : paid[p].created = month}
  <2>1. \A p \in Receipts : paid[p].created \in Nat /\ paid[p].created <= month /\ month \in Nat
    BY <1>2, ReportConstants DEF RowsPaid, PaidOK, R!PaidRow
  <2>2. \A p \in Receipts : paid[p].created >= month <=> paid[p].created = month
    BY <2>1
  <2> QED BY <2>2
<1>10. MonthNow' = BarNow' /\ BarNow' \in Nat
  <2>1. PICK A : A = {p \in Receipts : paid[p].created = month}
    OBVIOUS
  <2>2. A \in SUBSET Receipts /\ MonthNow' = Total(Nets, A) /\ BarNow' = Total(Nets, A)
    BY <1>7, <1>8, <1>9, <2>1
  <2> QED BY <1>2, <2>2, SumTyped
<1>11. TotalNow' \in Nat
  <2>1. Receipts \in SUBSET Receipts
    OBVIOUS
  <2> QED BY <1>2, <1>6, <2>1, SumTyped
<1>12. ASSUME NEW n \in 1..Bars PROVE BarsNow(n)' <= TotalNow'
  <2>1. PICK A : A = {p \in Receipts : month - paid[p].created \in 0..n - 1}
    OBVIOUS
  <2>2. A \in SUBSET Receipts
    BY <2>1
  <2>3. BarsNow(n)' = Total(Nets, A)
    BY <1>1, <1>3, <1>4, <1>5, <2>1 DEF BarsNow, Shown
  <2> QED BY <1>2, <1>6, <2>2, <2>3, SumTyped
<1>13. EventsNow' <= TotalNow'
  <2>1. PICK A : A = {p \in Receipts : paid[p].event \in Events}
    OBVIOUS
  <2>2. A \in SUBSET Receipts
    BY <2>1
  <2>3. EventsNow' = Total(Nets, A)
    BY <1>1, <1>3, <1>4, <1>5, <2>1 DEF EventsNow, Shown
  <2> QED BY <1>2, <1>6, <2>2, <2>3, SumTyped
<1>14. moved' + R!SumFunctionOnSet(Movable, Receipts)' <= 2 * R!Max(Prices) * Cardinality(Receipts)
  <2>1. R!SumFunctionOnSet(Movable, Receipts)' = R!SumFunctionOnSet(Movable, Receipts)
    BY <1>1 DEF Movable, Left, R!Net, R!SumFunctionOnSet, R!FoldFunctionOnSet, R!MapThenFoldSet
  <2> QED BY <1>1, <1>2, <2>1, MovableBounded
<1>15. /\ MonthNow' <= BarNow' + moved' /\ BarNow' <= MonthNow' + moved'
       /\ \A n \in 1..Bars : BarsNow(n)' <= TotalNow' + moved'
       /\ EventsNow' <= TotalNow' + moved'
  <2>1. TotalNow' + moved' = TotalNow' /\ BarNow' + moved' = BarNow' /\ MonthNow' + moved' = MonthNow'
    BY <1>1, <1>10, <1>11
  <2> QED BY <1>10, <1>12, <1>13, <2>1
<1>16. finances'.now <= month' /\ moved' \in Nat
  BY <1>1, <1>2, <1>3, ReportConstants
<1> QED BY <1>2, <1>3, <1>14, <1>15, <1>16 DEF FinancesInv

LEMMA AnswerFinancesOK == ASSUME FinancesInv, R!AnswerFinances PROVE FinancesInv'
<1>1. finances' = R!NoFinances /\ moved' = 0 /\ paid' = paid /\ month' = month
  BY DEF R!AnswerFinances
<1>2. RowsPaid /\ RowsPaid' /\ month \in 0..LastMonth
  BY <1>1 DEF FinancesInv, RowsPaid, PaidOK
<1>3. FinancesTyped'
  BY <1>1, NothingTyped DEF FinancesTyped
<1>4. moved' + R!SumFunctionOnSet(Movable, Receipts)' <= 2 * R!Max(Prices) * Cardinality(Receipts)
  <2>1. R!SumFunctionOnSet(Movable, Receipts)' = R!SumFunctionOnSet(Movable, Receipts)
    BY <1>1 DEF Movable, Left, R!Net, R!SumFunctionOnSet, R!FoldFunctionOnSet, R!MapThenFoldSet
  <2> QED BY <1>1, <1>2, <2>1, MovableBounded
<1>6. /\ finances'.left = {} /\ finances'.total = 0 /\ finances'.month = 0 /\ finances'.now = 0
      /\ finances'.series = [i \in 0..Bars - 1 |-> 0] /\ finances'.events = [e \in Events |-> 0]
  BY <1>1 DEF R!NoFinances
<1>7. /\ TotalNow' = 0 /\ MonthNow' = 0 /\ BarNow' = 0 /\ EventsNow' = 0
      /\ \A n \in 1..Bars : BarsNow(n)' = 0
  <2>1. finances'.series[0] = 0
    BY <1>6, ReportConstants
  <2>2. \A n \in 1..Bars : R!LastBars(n)' = 0
    BY <1>6, NothingAdds DEF R!LastBars, Total
  <2>3. R!SumFunctionOnSet(finances.events, Events)' = 0
    BY <1>6, NothingAdds DEF Total
  <2> QED BY <1>6, <2>1, <2>2, <2>3 DEF TotalNow, MonthNow, BarNow, EventsNow, BarsNow, Shown
<1> QED BY <1>1, <1>2, <1>3, <1>4, <1>6, <1>7, ReportConstants DEF FinancesInv

\* A query puts on the report what it would show: no figure changes.
LEMMA ReadOK == ASSUME FinancesInv, NEW q \in R!Queries, R!Read(q) PROVE FinancesInv'
<1>1. /\ q \in finances.left /\ paid' = paid /\ month' = month /\ moved' = moved
      /\ finances' = [finances EXCEPT !.left = finances.left \ {q},
            !.total = IF q = "total" THEN R!Sum(Receipts) ELSE finances.total,
            !.month = IF q = "month" THEN R!Since(finances.now) ELSE finances.month,
            !.events = IF q = "events" THEN [e \in Events |-> R!OfEvent(e)] ELSE finances.events,
            !.series = IF q = "series" THEN R!Series(finances.now) ELSE finances.series]
  BY DEF R!Read
<1>2. RowsPaid /\ RowsPaid' /\ FinancesTyped
  BY <1>1 DEF FinancesInv, RowsPaid, PaidOK
<1>3. /\ finances'.left = finances.left \ {q} /\ finances'.now = finances.now
      /\ finances'.total = IF q = "total" THEN R!Sum(Receipts) ELSE finances.total
      /\ finances'.month = IF q = "month" THEN R!Since(finances.now) ELSE finances.month
      /\ finances'.events = IF q = "events" THEN [e \in Events |-> R!OfEvent(e)] ELSE finances.events
      /\ finances'.series = IF q = "series" THEN R!Series(finances.now) ELSE finances.series
  BY <1>1, <1>2 DEF FinancesTyped
<1>4. \A S : R!Sum(S) = Total(Nets, S) /\ R!Sum(S)' = R!Sum(S)
  <2>1. \A S : R!Sum(S)' = R!Sum(S)
    BY <1>1 DEF R!Sum, R!Net, R!SumFunctionOnSet, R!FoldFunctionOnSet, R!MapThenFoldSet
  <2> QED BY <2>1, SumIs
<1>5. /\ [e \in Events |-> R!OfEvent(e)] = [e \in Events |-> Total(Nets, {p \in Receipts : paid[p].event = e})]
      /\ R!Series(finances.now)
         = [i \in 0..Bars - 1 |-> Total(Nets, {p \in Receipts : paid[p].created = finances.now - i})]
  BY <1>4 DEF R!OfEvent, R!Series
<1>6. FinancesTyped'
  <2>1. R!Sum(Receipts) \in R!Cents /\ R!Since(finances.now) \in R!Cents
    BY <1>2, <1>4, SumTyped DEF R!Since
  <2>2. [e \in Events |-> R!OfEvent(e)] \in [Events -> R!Cents]
    BY <1>2, <1>5, SumTyped
  <2>3. R!Series(finances.now) \in [0..Bars - 1 -> R!Cents]
    BY <1>2, <1>5, SumTyped
  <2>4. PICK f, g, a, b, c, d : /\ f = finances /\ g = finances'
                                /\ a = (IF q = "total" THEN R!Sum(Receipts) ELSE finances.total)
                                /\ b = (IF q = "month" THEN R!Since(finances.now) ELSE finances.month)
                                /\ c = (IF q = "events" THEN [e \in Events |-> R!OfEvent(e)] ELSE finances.events)
                                /\ d = (IF q = "series" THEN R!Series(finances.now) ELSE finances.series)
    OBVIOUS
  <2>5. /\ f \in [left : SUBSET R!Queries, now : 0..LastMonth, total : R!Cents, month : R!Cents,
                  events : [Events -> R!Cents], series : [0..Bars - 1 -> R!Cents]]
        /\ a \in R!Cents /\ b \in R!Cents /\ c \in [Events -> R!Cents] /\ d \in [0..Bars - 1 -> R!Cents]
    BY <1>2, <2>1, <2>2, <2>3, <2>4 DEF FinancesTyped
  <2>6. g = [f EXCEPT !.left = f.left \ {q}, !.total = a, !.month = b, !.events = c, !.series = d]
    BY <1>1, <2>4
  <2>7. g \in [left : SUBSET R!Queries, now : 0..LastMonth, total : R!Cents, month : R!Cents,
               events : [Events -> R!Cents], series : [0..Bars - 1 -> R!Cents]]
    BY <2>5, <2>6
  <2> QED BY <2>4, <2>7 DEF FinancesTyped
<1>7. TotalNow' = TotalNow
  BY <1>1, <1>3, <1>4 DEF TotalNow, Shown
<1>8. MonthNow' = MonthNow
  <2>1. R!Since(finances.now)' = R!Since(finances.now)
    BY <1>1, <1>3, <1>4 DEF R!Since
  <2> QED BY <1>1, <1>3, <2>1 DEF MonthNow, Shown
<1>9. finances.now \in 0..LastMonth /\ \A p \in Receipts : paid[p].created \in 0..LastMonth
  BY <1>2 DEF FinancesTyped, RowsPaid, R!PaidRow
<1>10. BarNow' = BarNow
  <2>1. R!Sum({p \in Receipts : paid[p].created = finances.now})'
        = R!Sum({p \in Receipts : paid[p].created = finances.now})
    BY <1>1, <1>3, <1>4
  <2>2. q = "series" => finances'.series[0] = R!Sum({p \in Receipts : paid[p].created = finances.now})
    <3>1. finances.now - 0 = finances.now /\ 0 \in 0..Bars - 1
      BY <1>9, ReportConstants
    <3> QED BY <1>3, <1>4, <1>5, <3>1
  <2>3. q # "series" => finances'.series[0] = finances.series[0]
    BY <1>3
  <2> QED BY <1>1, <1>3, <2>1, <2>2, <2>3 DEF BarNow, Shown
<1>11. ASSUME NEW n \in 1..Bars PROVE BarsNow(n)' = BarsNow(n)
  <2>1. PICK A : A = {p \in Receipts : finances.now - paid[p].created \in 0..n - 1}
    OBVIOUS
  <2>2. /\ R!Sum({p \in Receipts : finances.now - paid[p].created \in 0..n - 1})' = Total(Nets, A)
        /\ R!Sum({p \in Receipts : finances.now - paid[p].created \in 0..n - 1}) = Total(Nets, A)
    BY <1>1, <1>3, <1>4, <2>1
  <2>3. q = "series" => R!LastBars(n)' = Total(Nets, A)
    <3> SUFFICES ASSUME q = "series" PROVE Total(finances'.series, 0..n - 1) = Total(Nets, A)
      BY DEF R!LastBars, Total
    <3>1. PICK I, key, g, S : /\ I = 0..Bars - 1 /\ key = [p \in Receipts |-> finances.now - paid[p].created]
                              /\ g = finances'.series /\ S = 0..n - 1
      OBVIOUS
    <3>2. key \in [Receipts -> Int]
      BY <1>9, <3>1, ReportConstants
    <3>3. g = [i \in I |-> Total(Nets, {p \in Receipts : paid[p].created = finances.now - i})]
      BY <1>3, <1>5, <3>1
    <3>4. ASSUME NEW i \in I
          PROVE  {p \in Receipts : paid[p].created = finances.now - i} = {p \in Receipts : key[p] = i}
      <4>1. \A p \in Receipts : paid[p].created = finances.now - i <=> key[p] = i
        BY <1>9, <3>1, ReportConstants
      <4> QED BY <4>1
    <3>5. g = [i \in I |-> Total(Nets, {p \in Receipts : key[p] = i})]
      BY <3>3, <3>4
    <3>6. S \in SUBSET I /\ IsFiniteSet(I) /\ IsFiniteSet(Receipts) /\ Nets \in [Receipts -> Int]
      <4>1. IsFiniteSet(0..Bars - 1)
        BY ReportConstants, FS_Interval
      <4>2. 0..n - 1 \in SUBSET (0..Bars - 1)
        BY ReportConstants
      <4> QED BY <1>2, <3>1, <4>1, <4>2, NetsTyped, ReportConstants
    <3>7. Total(g, S) = Total(Nets, {p \in Receipts : key[p] \in S})
      <4>1. ByKey(Receipts, Nets, Int, key, I, g)
        BY <3>2, <3>5, <3>6 DEF ByKey
      <4> QED BY <3>6, <4>1, TotalByKey
    <3>8. {p \in Receipts : key[p] \in S} = A
      BY <2>1, <3>1
    <3> QED BY <3>1, <3>7, <3>8
  <2>4. q # "series" => R!LastBars(n)' = R!LastBars(n)
    BY <1>3 DEF R!LastBars, R!SumFunctionOnSet, R!FoldFunctionOnSet, R!MapThenFoldSet
  <2> QED BY <1>1, <1>3, <2>2, <2>3, <2>4 DEF BarsNow, Shown
<1>12. EventsNow' = EventsNow
  <2>1. PICK A : A = {p \in Receipts : paid[p].event \in Events}
    OBVIOUS
  <2>2. /\ R!Sum({p \in Receipts : paid[p].event \in Events})' = Total(Nets, A)
        /\ R!Sum({p \in Receipts : paid[p].event \in Events}) = Total(Nets, A)
    BY <1>1, <1>3, <1>4, <2>1
  <2>3. q = "events" => R!SumFunctionOnSet(finances.events, Events)' = Total(Nets, A)
    <3> SUFFICES ASSUME q = "events" PROVE Total(finances'.events, Events) = Total(Nets, A)
      BY DEF Total
    <3>1. PICK key, g, K : /\ key = [p \in Receipts |-> paid[p].event] /\ K = Events \cup {NoEvent}
                           /\ g = finances'.events
      OBVIOUS
    <3>2. key \in [Receipts -> K]
      BY <1>2, <3>1 DEF RowsPaid, R!PaidRow
    <3>3. g = [e \in Events |-> Total(Nets, {p \in Receipts : paid[p].event = e})]
      BY <1>3, <1>5, <3>1
    <3>4. ASSUME NEW e \in Events
          PROVE  {p \in Receipts : paid[p].event = e} = {p \in Receipts : key[p] = e}
      BY <3>1
    <3>5. g = [e \in Events |-> Total(Nets, {p \in Receipts : key[p] = e})]
      BY <3>3, <3>4
    <3>6. /\ Events \in SUBSET Events /\ IsFiniteSet(Events) /\ IsFiniteSet(Receipts)
          /\ Nets \in [Receipts -> Int]
      BY <1>2, NetsTyped, ReportConstants
    <3>7. Total(g, Events) = Total(Nets, {p \in Receipts : key[p] \in Events})
      <4>1. ByKey(Receipts, Nets, K, key, Events, g)
        BY <3>2, <3>5, <3>6 DEF ByKey
      <4> QED BY <3>6, <4>1, TotalByKey
    <3>8. {p \in Receipts : key[p] \in Events} = A
      BY <2>1, <3>1
    <3> QED BY <3>1, <3>7, <3>8
  <2>4. q # "events" => R!SumFunctionOnSet(finances.events, Events)' = R!SumFunctionOnSet(finances.events, Events)
    BY <1>3 DEF R!SumFunctionOnSet, R!FoldFunctionOnSet, R!MapThenFoldSet
  <2> QED BY <1>1, <1>3, <2>2, <2>3, <2>4 DEF EventsNow, Shown
<1>13. R!SumFunctionOnSet(Movable, Receipts)' = R!SumFunctionOnSet(Movable, Receipts)
  BY <1>1 DEF Movable, Left, R!Net, R!SumFunctionOnSet, R!FoldFunctionOnSet, R!MapThenFoldSet
<1> QED BY <1>1, <1>2, <1>3, <1>6, <1>7, <1>8, <1>10, <1>11, <1>12, <1>13 DEF FinancesInv

-----------------------------------------------------------------------------
(* Payments                                                                *)

LEMMA PaymentOK ==
  ASSUME FinancesInv, NEW p \in Receipts,
         R!Checkout(p) \/ R!Succeed(p) \/ R!Renew(p) \/ R!Refund(p)
  PROVE  FinancesInv'
<1>1. /\ month' = month /\ finances' = finances
      /\ paid[p] \in R!PaidRow /\ PaidOK(paid[p]) /\ month \in 0..LastMonth
  BY DEF R!Checkout, R!Succeed, R!Renew, R!Refund, FinancesInv, RowsPaid
<1>2. PICK b : b = paid[p]
  OBVIOUS
<1>3. /\ b \in R!PaidRow /\ b.refunded <= b.amount /\ b.created <= month
      /\ b.status = "none" => b = R!NoRow
      /\ b.amount \in 0..Top /\ b.refunded \in 0..Top /\ R!Net(b) \in 0..Top /\ R!Net(b) <= b.amount
  BY <1>1, <1>2, RowNet DEF PaidOK
<1>4. R!NoRow \in R!PaidRow /\ R!Amounts = 0..Top /\ Top \in Nat \ {0}
  BY ReportConstants DEF R!NoRow, R!PaidRow, R!Amounts, Top
<1>5. CASE R!Checkout(p)
  <2>1. PICK a \in Prices, e \in Events :
           R!Becomes(p, [R!NoRow EXCEPT !.status = "pending", !.amount = a, !.event = e, !.created = month])
        /\ b.status = "none"
    BY <1>2, <1>5 DEF R!Checkout
  <2>2. PICK r : r = [R!NoRow EXCEPT !.status = "pending", !.amount = a, !.event = e, !.created = month]
    OBVIOUS
  <2>3. /\ r \in R!PaidRow /\ r.status = "pending" /\ r.amount = a /\ r.refunded = 0 /\ r.created = month
    <3>1. r = [status |-> "pending", amount |-> a, refunded |-> 0, event |-> e, created |-> month]
      BY <2>2 DEF R!NoRow
    <3>2. a \in R!Amounts /\ 0 \in R!Amounts
      BY <1>4, ReportConstants
    <3> QED BY <1>1, <3>1, <3>2 DEF R!PaidRow
  <2>4. R!Net(r) = 0 /\ R!Net(b) = 0 /\ Left(r) = 2 * Top /\ Left(b) = 2 * Top
    BY <2>1, <2>3 DEF R!Net, Left, Top
  <2>5. PaysSo(p, r)
    <3>1. r.refunded <= r.amount /\ r.created <= month
      BY <1>1, <2>3, ReportConstants
    <3>2. R!Net(r) <= R!Net(b) /\ R!Net(b) - R!Net(r) + Left(r) <= Left(b)
      BY <1>4, <2>4
    <3> QED BY <1>1, <1>2, <2>1, <2>2, <2>3, <2>4, <3>1, <3>2 DEF PaysSo
  <2> QED BY <2>5, PaymentMoves
<1>6. CASE R!Renew(p)
  <2>1. PICK a \in Prices :
           R!Becomes(p, [R!NoRow EXCEPT !.status = "succeeded", !.amount = a, !.created = month])
        /\ b.status = "none"
    BY <1>2, <1>6 DEF R!Renew
  <2>2. PICK r : r = [R!NoRow EXCEPT !.status = "succeeded", !.amount = a, !.created = month]
    OBVIOUS
  <2>3. /\ r \in R!PaidRow /\ r.status = "succeeded" /\ r.amount = a /\ r.refunded = 0 /\ r.created = month
    <3>1. r = [status |-> "succeeded", amount |-> a, refunded |-> 0, event |-> NoEvent, created |-> month]
      BY <2>2 DEF R!NoRow
    <3>2. a \in R!Amounts /\ 0 \in R!Amounts
      BY <1>4, ReportConstants
    <3> QED BY <1>1, <3>1, <3>2 DEF R!PaidRow
  <2>4. R!Net(r) = a /\ R!Net(b) = 0 /\ Left(r) = a /\ Left(b) = 2 * Top /\ a \in 1..Top
    BY <1>4, <2>1, <2>3, ReportConstants DEF R!Net, Left, Top
  <2>5. PaysSo(p, r)
    <3>1. r.refunded <= r.amount /\ r.created <= month
      BY <1>1, <2>3, <2>4, ReportConstants
    <3>2. R!Net(r) > R!Net(b) /\ R!Net(r) - R!Net(b) + Left(r) <= Left(b)
      BY <1>4, <2>4
    <3> QED BY <1>1, <1>2, <2>1, <2>2, <2>3, <2>4, <3>1, <3>2 DEF PaysSo
  <2> QED BY <2>5, PaymentMoves
<1>7. CASE R!Succeed(p)
  <2>1. R!Becomes(p, [b EXCEPT !.status = "succeeded"]) /\ b.status = "pending"
    BY <1>2, <1>7 DEF R!Succeed
  <2>2. PICK r : r = [b EXCEPT !.status = "succeeded"]
    OBVIOUS
  <2>3. /\ r \in R!PaidRow /\ r.status = "succeeded" /\ r.amount = b.amount /\ r.refunded = b.refunded
        /\ r.created = b.created /\ r.event = b.event
    BY <1>3, <2>2 DEF R!PaidRow
  <2>4. R!Net(r) = b.amount - b.refunded /\ R!Net(b) = 0 /\ Left(r) = R!Net(r) /\ Left(b) = 2 * Top
    BY <2>1, <2>3 DEF R!Net, Left, Top
  <2>5. PaysSo(p, r)
    <3>1. r.refunded <= r.amount /\ r.created <= month
      BY <1>3, <2>3
    <3>2. \/ R!Net(r) > R!Net(b) /\ R!Net(r) - R!Net(b) + Left(r) <= Left(b)
          \/ R!Net(r) <= R!Net(b) /\ R!Net(b) - R!Net(r) + Left(r) <= Left(b)
      BY <1>3, <1>4, <2>4
    <3> QED BY <1>1, <1>2, <2>1, <2>2, <2>3, <2>4, <3>1, <3>2 DEF PaysSo
  <2> QED BY <2>5, PaymentMoves
<1>8. CASE R!Refund(p)
  <2>1. PICK back \in 1..R!Net(b) :
           R!Becomes(p, [b EXCEPT !.refunded = b.refunded + back,
                           !.status = IF b.refunded + back >= b.amount THEN "refunded" ELSE "partial_refund"])
    BY <1>2, <1>8 DEF R!Refund
  <2>2. PICK r, s : /\ s = (IF b.refunded + back >= b.amount THEN "refunded" ELSE "partial_refund")
                    /\ r = [b EXCEPT !.refunded = b.refunded + back, !.status = s]
    OBVIOUS
  <2>3. /\ b.status \in {"succeeded", "partial_refund"} /\ R!Net(b) = b.amount - b.refunded
        /\ back \in 1..b.amount - b.refunded
    <3>1. R!Net(b) > 0
      BY <1>2, <1>8 DEF R!Refund
    <3>2. b.status \in {"succeeded", "partial_refund"}
      BY <3>1 DEF R!Net
    <3> QED BY <2>1, <3>2 DEF R!Net
  <2>4. /\ r \in R!PaidRow /\ r.status = s /\ r.amount = b.amount /\ r.refunded = b.refunded + back
        /\ r.created = b.created /\ r.event = b.event
    <3>1. b.refunded + back \in R!Amounts
      BY <1>3, <1>4, <2>3
    <3> QED BY <1>3, <2>2, <3>1 DEF R!PaidRow
  <2>5. R!Net(r) = R!Net(b) - back /\ Left(r) = R!Net(r) /\ Left(b) = R!Net(b)
    <3>1. CASE b.refunded + back >= b.amount
      BY <1>3, <2>2, <2>3, <2>4, <3>1 DEF R!Net, Left
    <3>2. CASE ~ (b.refunded + back >= b.amount)
      BY <1>3, <2>2, <2>3, <2>4, <3>2 DEF R!Net, Left
    <3> QED BY <3>1, <3>2
  <2>6. PaysSo(p, r)
    <3>1. r.refunded <= r.amount /\ r.created <= month /\ r.status # "none"
      BY <1>3, <2>2, <2>3, <2>4
    <3>2. R!Net(r) <= R!Net(b) /\ R!Net(b) - R!Net(r) + Left(r) <= Left(b)
      BY <1>3, <2>3, <2>5
    <3> QED BY <1>1, <1>2, <2>1, <2>2, <2>4, <3>1, <3>2 DEF PaysSo
  <2> QED BY <2>6, PaymentMoves
<1> QED BY <1>5, <1>6, <1>7, <1>8

LEMMA FinancesNext == FinancesInv /\ R!Next => FinancesInv'
<1> SUFFICES ASSUME FinancesInv, R!Next PROVE FinancesInv'
  OBVIOUS
<1>1. CASE \E p \in Receipts : R!Checkout(p) \/ R!Succeed(p) \/ R!Renew(p) \/ R!Refund(p)
  BY <1>1, PaymentOK
<1>2. CASE R!MonthPasses \/ R!BeginFinances \/ R!AnswerFinances
  BY <1>2, MonthPassesOK, BeginFinancesOK, AnswerFinancesOK
<1>3. CASE \E q \in R!Queries : R!Read(q)
  BY <1>3, ReadOK
<1>4. CASE (\E u \in People : R!Join(u) \/ R!Approve(u) \/ R!Leave(u) \/ R!Age(u))
           \/ R!BeginGrowth \/ R!ReadDays \/ R!ReadTotal
  <2>1. paid' = paid /\ month' = month /\ finances' = finances /\ moved' = moved
    BY <1>4 DEF R!Join, R!Approve, R!Leave, R!Age, R!Move, R!BeginGrowth, R!ReadDays, R!ReadTotal, R!ownPayments
  <2> QED BY <2>1, FinancesKept
<1> QED BY <1>1, <1>2, <1>3, <1>4 DEF R!Next

LEMMA FinancesImply ==
  FinancesInv => /\ R!FinancesAgree
                 /\ paid \in [Receipts -> R!PaidRow] /\ month \in 0..LastMonth
                 /\ FinancesTyped
                 /\ moved \in 0..2 * R!Max(Prices) * Cardinality(Receipts)
<1> SUFFICES ASSUME FinancesInv
             PROVE  /\ R!FinancesAgree
                    /\ paid \in [Receipts -> R!PaidRow] /\ month \in 0..LastMonth
                    /\ FinancesTyped
                    /\ moved \in 0..2 * R!Max(Prices) * Cardinality(Receipts)
  OBVIOUS
<1>1. RowsPaid /\ FinancesTyped /\ moved \in Nat
  BY DEF FinancesInv
<1>2. moved \in 0..2 * R!Max(Prices) * Cardinality(Receipts)
  <2>1. R!SumFunctionOnSet(Movable, Receipts) \in Nat
    BY <1>1, MovableBounded
  <2>2. moved + R!SumFunctionOnSet(Movable, Receipts) <= 2 * R!Max(Prices) * Cardinality(Receipts)
    BY DEF FinancesInv
  <2>3. 2 * R!Max(Prices) * Cardinality(Receipts) \in Nat
    BY ReportConstants, FS_CardinalityType DEF Top
  <2> QED BY <1>1, <2>1, <2>2, <2>3
<1>3. ASSUME finances.left = {}
      PROVE  /\ TotalNow = finances.total /\ MonthNow = finances.month /\ BarNow = finances.series[0]
             /\ EventsNow = R!SumFunctionOnSet(finances.events, Events)
             /\ \A n \in 1..Bars : BarsNow(n) = R!LastBars(n)
  BY <1>3 DEF TotalNow, MonthNow, BarNow, EventsNow, BarsNow, Shown
<1>4. R!FinancesAgree
  BY <1>3 DEF FinancesInv, R!FinancesAgree
<1> QED BY <1>1, <1>2, <1>4 DEF RowsPaid

-----------------------------------------------------------------------------
(* The growth of a community                                               *)

LEMMA Heads ==
  \A S \in SUBSET People : /\ IsFiniteSet(S) /\ Cardinality(S) \in Nat
                           /\ Cardinality(S) <= Cardinality(People) /\ Cardinality(People) \in Nat
BY ReportConstants, FS_Subset, FS_CardinalityType

LEMMA GrowthInit == R!Init => GrowthInv
<1> SUFFICES ASSUME R!Init PROVE GrowthInv
  OBVIOUS
<1>1. /\ joins = [u \in People |-> R!NoJoin]
      /\ growth = [pc |-> "read", joined |-> 0, total |-> 0, pending |-> 0]
      /\ moves = [all |-> 0, since |-> 0]
  BY DEF R!Init
<1>2. 0 \in 0..Cardinality(People) /\ 0 \in 0..MaxMoves
  BY ReportConstants, FS_CardinalityType
<1> QED BY <1>1, <1>2 DEF GrowthInv, R!NoJoin

\* A member who moves takes one from those who are active, at the most.
LEMMA MoveOK ==
  ASSUME GrowthInv, NEW u \in People, NEW r \in [status : {"none", "pending", "active"}, recent : BOOLEAN],
         R!Move(u, r)
  PROVE  GrowthInv'
<1>1. /\ moves.all < MaxMoves /\ joins' = [joins EXCEPT ![u] = r]
      /\ moves' = [all |-> moves.all + 1, since |-> moves.since + 1] /\ growth' = growth
  BY DEF R!Move
<1>2. joins' \in [People -> [status : {"none", "pending", "active"}, recent : BOOLEAN]]
  BY <1>1 DEF GrowthInv
<1>3. /\ moves' \in [all : 0..MaxMoves, since : 0..MaxMoves]
      /\ moves'.since <= moves'.all /\ moves'.since = moves.since + 1
      /\ moves.since \in Nat
  <2>1. moves.all \in 0..MaxMoves /\ moves.since \in 0..MaxMoves /\ moves.since <= moves.all
    BY DEF GrowthInv
  <2> QED BY <1>1, <2>1, ReportConstants
<1>4. PICK A, B : A = R!Is("active") /\ B = R!Is("active")'
  OBVIOUS
<1>5. A \subseteq B \cup {u} /\ B \in SUBSET People /\ A \in SUBSET People
  BY <1>1, <1>2, <1>4 DEF R!Is, GrowthInv
<1>6. Cardinality(A) <= Cardinality(B) + 1 /\ Cardinality(A) \in Nat /\ Cardinality(B) \in Nat
  <2>1. IsFiniteSet(B) /\ Cardinality(B) \in Nat /\ Cardinality(A) \in Nat
    BY <1>5, Heads
  <2>2. PICK C : C = B \cup {u}
    OBVIOUS
  <2>3. IsFiniteSet(C) /\ Cardinality(C) <= Cardinality(B) + 1 /\ Cardinality(C) \in Nat
    <3>1. IsFiniteSet(C) /\ Cardinality(C) = IF u \in B THEN Cardinality(B) ELSE Cardinality(B) + 1
      BY <2>1, <2>2, FS_AddElement
    <3> QED BY <2>1, <3>1
  <2>4. Cardinality(A) <= Cardinality(C)
    BY <1>5, <2>2, <2>3, FS_Subset
  <2> QED BY <2>1, <2>3, <2>4
<1>7. /\ growth.joined \in Nat /\ growth.pending \in Nat /\ growth.total \in Nat
      /\ growth \in [pc : {"days", "total", "read"}, joined : 0..Cardinality(People),
                     total : 0..Cardinality(People), pending : 0..Cardinality(People)]
  BY Heads DEF GrowthInv
<1>8. growth.pc = "total" => growth.joined <= Cardinality(B) + growth.pending + moves'.since
  <2>1. growth.pc = "total" => growth.joined <= Cardinality(A) + growth.pending + moves.since
    BY <1>4 DEF GrowthInv
  <2> QED BY <1>3, <1>6, <1>7, <2>1
<1>9. growth.pc = "read" => growth.joined <= growth.total + growth.pending + moves'.since
  <2>1. growth.pc = "read" => growth.joined <= growth.total + growth.pending + moves.since
    BY DEF GrowthInv
  <2> QED BY <1>3, <1>7, <2>1
<1> QED BY <1>1, <1>2, <1>3, <1>4, <1>7, <1>8, <1>9 DEF GrowthInv

LEMMA MembersMove ==
  ASSUME GrowthInv, NEW u \in People, R!Join(u) \/ R!Approve(u) \/ R!Leave(u) \/ R!Age(u)
  PROVE  GrowthInv'
<1>1. joins[u] \in [status : {"none", "pending", "active"}, recent : BOOLEAN]
  BY DEF GrowthInv
<1>2. R!NoJoin \in [status : {"none", "pending", "active"}, recent : BOOLEAN]
  BY DEF R!NoJoin
<1>3. PICK r \in [status : {"none", "pending", "active"}, recent : BOOLEAN] : R!Move(u, r)
  <2>1. CASE R!Join(u)
    BY <2>1 DEF R!Join
  <2>2. CASE R!Approve(u)
    BY <1>1, <2>2 DEF R!Approve
  <2>3. CASE R!Leave(u)
    BY <1>2, <2>3 DEF R!Leave
  <2>4. CASE R!Age(u)
    BY <1>1, <2>4 DEF R!Age
  <2> QED BY <2>1, <2>2, <2>3, <2>4
<1> QED BY <1>3, MoveOK

LEMMA BeginGrowthOK == ASSUME GrowthInv, R!BeginGrowth PROVE GrowthInv'
<1>1. /\ growth' = [pc |-> "days", joined |-> 0, total |-> 0, pending |-> 0] /\ joins' = joins
      /\ moves' = [moves EXCEPT !.since = 0]
  BY DEF R!BeginGrowth
<1>2. 0 \in 0..Cardinality(People) /\ 0 \in 0..MaxMoves
  BY ReportConstants, FS_CardinalityType
<1> QED BY <1>1, <1>2 DEF GrowthInv

LEMMA ReadDaysOK == ASSUME GrowthInv, R!ReadDays PROVE GrowthInv'
<1>1. PICK A, P, N : /\ A = R!Is("active") /\ P = R!Is("pending")
                     /\ N = R!Recent \cap (R!Is("active") \cup R!Is("pending"))
  OBVIOUS
<1>2. /\ growth' = [growth EXCEPT !.pc = "total", !.joined = Cardinality(N), !.pending = Cardinality(P)]
      /\ joins' = joins /\ moves' = moves
  BY <1>1, CountsR DEF R!ReadDays
<1>3. A \in SUBSET People /\ P \in SUBSET People /\ N \in SUBSET People /\ N \subseteq A \cup P
  BY <1>1 DEF R!Is, R!Recent
<1>4. /\ Cardinality(N) \in 0..Cardinality(People) /\ Cardinality(P) \in 0..Cardinality(People)
      /\ Cardinality(A) \in Nat /\ IsFiniteSet(A) /\ IsFiniteSet(P)
  BY <1>3, Heads
<1>5. Cardinality(N) <= Cardinality(A) + Cardinality(P)
  <2>1. PICK U, I : U = A \cup P /\ I = A \cap P
    OBVIOUS
  <2>2. /\ IsFiniteSet(U) /\ Cardinality(U) = Cardinality(A) + Cardinality(P) - Cardinality(I)
        /\ Cardinality(U) \in Nat /\ Cardinality(I) \in Nat
    BY <1>3, <1>4, <2>1, FS_Union, FS_Intersection, FS_CardinalityType
  <2>3. Cardinality(N) <= Cardinality(U)
    BY <1>3, <2>1, <2>2, FS_Subset
  <2> QED BY <1>4, <2>2, <2>3
<1>6. /\ growth' \in [pc : {"days", "total", "read"}, joined : 0..Cardinality(People),
                      total : 0..Cardinality(People), pending : 0..Cardinality(People)]
      /\ growth'.pc = "total" /\ growth'.joined = Cardinality(N) /\ growth'.pending = Cardinality(P)
  BY <1>2, <1>4 DEF GrowthInv
<1>7. growth'.joined <= Cardinality(R!Is("active")') + growth'.pending + moves'.since
  <2>1. R!Is("active")' = A
    BY <1>1, <1>2 DEF R!Is
  <2>2. moves.since \in 0..MaxMoves /\ MaxMoves \in Nat
    BY ReportConstants DEF GrowthInv
  <2>3. PICK a \in Nat, n \in Nat, p \in Nat : a = Cardinality(A) /\ n = Cardinality(N) /\ p = Cardinality(P)
    BY <1>4, Heads
  <2>4. n <= a + p + moves.since
    BY <1>5, <2>2, <2>3
  <2> QED BY <1>2, <1>6, <2>1, <2>3, <2>4
<1> QED BY <1>2, <1>6, <1>7 DEF GrowthInv

LEMMA ReadTotalOK == ASSUME GrowthInv, R!ReadTotal PROVE GrowthInv'
<1>1. PICK A : A = R!Is("active")
  OBVIOUS
<1>2. /\ growth.pc = "total"
      /\ growth' = [growth EXCEPT !.pc = "read", !.total = Cardinality(A)]
      /\ joins' = joins /\ moves' = moves
  BY <1>1, CountsR DEF R!ReadTotal
<1>3. Cardinality(A) \in 0..Cardinality(People)
  BY <1>1, Heads DEF R!Is
<1>4. /\ growth' \in [pc : {"days", "total", "read"}, joined : 0..Cardinality(People),
                      total : 0..Cardinality(People), pending : 0..Cardinality(People)]
      /\ growth'.pc = "read" /\ growth'.joined = growth.joined /\ growth'.pending = growth.pending
      /\ growth'.total = Cardinality(A)
  BY <1>2, <1>3 DEF GrowthInv
<1>5. growth.joined <= Cardinality(A) + growth.pending + moves.since
  BY <1>1, <1>2 DEF GrowthInv
<1> QED BY <1>2, <1>4, <1>5 DEF GrowthInv

LEMMA GrowthKept == ASSUME GrowthInv, joins' = joins, growth' = growth, moves' = moves PROVE GrowthInv'
<1>1. R!Is("active")' = R!Is("active")
  BY DEF R!Is
<1> QED BY <1>1 DEF GrowthInv

LEMMA GrowthNext == GrowthInv /\ R!Next => GrowthInv'
<1> SUFFICES ASSUME GrowthInv, R!Next PROVE GrowthInv'
  OBVIOUS
<1>1. CASE \E u \in People : R!Join(u) \/ R!Approve(u) \/ R!Leave(u) \/ R!Age(u)
  BY <1>1, MembersMove
<1>2. CASE R!BeginGrowth \/ R!ReadDays \/ R!ReadTotal
  BY <1>2, BeginGrowthOK, ReadDaysOK, ReadTotalOK
<1>3. CASE \/ \E p \in Receipts : R!Checkout(p) \/ R!Succeed(p) \/ R!Renew(p) \/ R!Refund(p)
           \/ R!MonthPasses \/ R!BeginFinances \/ R!AnswerFinances
           \/ \E q \in R!Queries : R!Read(q)
  <2>1. joins' = joins /\ growth' = growth /\ moves' = moves
    BY <1>3 DEF R!Checkout, R!Succeed, R!Renew, R!Refund, R!MonthPasses, R!BeginFinances,
                R!AnswerFinances, R!Read, R!ownPeople
  <2> QED BY <2>1, GrowthKept
<1> QED BY <1>1, <1>2, <1>3 DEF R!Next

LEMMA GrowthImplies == GrowthInv => R!CurveEndsAtMembers
<1> SUFFICES ASSUME GrowthInv, growth.pc = "read"
             PROVE  /\ R!CurveEnds >= growth.total
                    /\ R!CurveEnds <= growth.total + growth.pending + moves.since
  BY DEF R!CurveEndsAtMembers
<1>1. growth.total \in Nat /\ growth.joined \in Nat /\ growth.pending \in Nat /\ moves.since \in Nat
  BY Heads, ReportConstants DEF GrowthInv
<1>2. growth.joined <= growth.total + growth.pending + moves.since
  BY DEF GrowthInv
<1> QED BY <1>1, <1>2 DEF R!CurveEnds, R!CurveBegins

ReportsInv == FinancesInv /\ GrowthInv

LEMMA ReportsInit == R!Init => ReportsInv
BY FinancesInit, GrowthInit DEF ReportsInv

LEMMA ReportsNext == ReportsInv /\ R!Next => ReportsInv'
BY FinancesNext, GrowthNext DEF ReportsInv

LEMMA ReportsStutter == ReportsInv /\ UNCHANGED reportVars => ReportsInv'
BY FinancesKept, GrowthKept DEF ReportsInv, reportVars

LEMMA ReportsImply == ReportsInv => R!TypeOK /\ R!FiguresAgree
<1> SUFFICES ASSUME ReportsInv PROVE R!TypeOK /\ R!FiguresAgree
  OBVIOUS
<1>1. R!FiguresAgree
  BY FinancesImply, GrowthImplies DEF ReportsInv, R!FiguresAgree
<1>2. R!TypeOK
  BY FinancesImply, CountsR DEF ReportsInv, GrowthInv, FinancesTyped, R!TypeOK
<1> QED BY <1>1, <1>2

\* The figures of a report of the finances differ by no more than what was
\* booked or given back since it was begun, and the curve of growth ends at the
\* number of members but for those who waited or moved meanwhile: for any
\* number of payments, events, months and members (computeFinancials() in
\* payment.service.ts, the growth in admin.controller.ts).
THEOREM FiguresRight == R!Spec => [](R!TypeOK /\ R!FiguresAgree)
<1>1. ReportsInv /\ [R!Next]_R!vars => ReportsInv'
  BY ReportsNext, ReportsStutter DEF R!vars, reportVars
<1> QED BY <1>1, ReportsInit, ReportsImply, PTL DEF R!Spec
-----------------------------------------------------------------------------
(* The page that refunds                                                   *)

Back == returned.total

\* A request, from the button to the answer.
TillRequestOK(n) ==
    LET q == asked[n] IN
    /\ q.pc = "none" => q = T!NoRequest
    /\ q.pc # "none" => /\ q.by \in Browsers /\ q.visit < n
                        /\ q.full => Price <= q.shown + Back
                        /\ ~ q.full => q.shown = q.amount
    /\ q.pc \in {"none", "check", "ask"} => q.gave = 0
    /\ q.pc = "ask" => /\ q.amount > 0 /\ q.loaded <= Back
                       /\ q.full => q.amount = Price - q.loaded
    /\ q.pc = "save" => q.loaded + q.amount <= Back
    /\ q.pc \in {"save", "ok", "told"} => q.gave = q.amount /\ q.gave > 0
    /\ q.gave > 0 /\ q.full => Back = Price
    /\ q.gave <= q.shown

\* What a page still waits for is the request of its own visit.
TillWaitOK(n) ==
    LET q == asked[n] IN
    q.pc # "none" /\ page[q.by].at \in {"form", "dialog"} /\ page[q.by].visit = q.visit =>
       /\ q.pc # "told"
       /\ q.awaited /\ q.pc # "failed" => page[q.by].waits = n

TillPageOK(b) ==
    /\ page[b].seen # T!Unknown => page[b].seen <= Back
    /\ page[b].at \in {"form", "dialog"} => page[b].visit <= Cardinality(T!Sent)
    /\ page[b].at = "dialog" => page[b].seen # T!Unknown
    /\ page[b].at = "issued" => page[b].visit \in T!Presses /\ asked[page[b].visit].pc = "told"

\* Of two requests of a visit the first is over when the second is sent, and no
\* two full refunds are given.
TillPairOK(n, m) ==
    /\ /\ asked[n].pc # "none" /\ asked[m].pc # "none"
       /\ asked[n].visit = asked[m].visit /\ asked[n].by = asked[m].by
       => /\ asked[n].pc # "told"
          /\ asked[n].awaited => asked[n].pc = "failed"
    /\ ~ (asked[n].full /\ asked[m].full /\ asked[n].gave > 0 /\ asked[m].gave > 0)

\* The requests sent are the first ones.
SentFirst == \A n, m \in T!Presses : asked[m].pc # "none" /\ n < m => asked[n].pc # "none"

TillInv ==
    /\ T!TypeOK
    /\ refunded <= Back /\ \A c \in returned.notices : c <= Back
    /\ SentFirst
    /\ \A n \in T!Presses : TillRequestOK(n) /\ TillWaitOK(n)
    /\ \A b \in Browsers : TillPageOK(b)
    /\ \A n, m \in T!Presses : n < m => TillPairOK(n, m)

LEMMA TillConstants == Price \in Nat \ {0} /\ MaxPresses \in Nat /\ NoBrowser \notin Browsers
BY PartsAssumption DEF T!TillAssumption

LEMMA CountsT == \A S : T!Cardinality(S) = Cardinality(S)
BY DEF T!Cardinality, Cardinality

LEMMA SentAre ==
  ASSUME SentFirst, NEW c, c = Cardinality(T!Sent)
  PROVE  c \in 0..MaxPresses /\ \A n \in T!Presses : n \in T!Sent <=> n <= c
<1>1. T!Sent \in SUBSET (1..MaxPresses)
  BY DEF T!Sent, T!Presses
<1>2. IsFiniteSet(1..MaxPresses) /\ Cardinality(1..MaxPresses) = MaxPresses
  BY TillConstants, FS_Interval
<1>3. c \in 0..MaxPresses
  <2>1. PICK all, some : all = 1..MaxPresses /\ some = T!Sent
    OBVIOUS
  <2>2. IsFiniteSet(all) /\ some \subseteq all /\ Cardinality(all) = MaxPresses
    BY <1>1, <1>2, <2>1
  <2>3. Cardinality(some) <= MaxPresses /\ Cardinality(some) \in Nat
    BY <2>2, FS_Subset, FS_CardinalityType
  <2> QED BY <2>1, <2>3, TillConstants
<1>4. ASSUME NEW n \in T!Presses, n \in T!Sent PROVE n <= c
  <2>1. 1..n \subseteq T!Sent
    <3> SUFFICES ASSUME NEW i \in 1..n PROVE i \in T!Sent
      OBVIOUS
    <3>1. i \in T!Presses /\ (i < n \/ i = n)
      BY TillConstants DEF T!Presses
    <3> QED BY <1>4, <3>1 DEF T!Sent, SentFirst
  <2>2. Cardinality(1..n) = n /\ n \in Nat
    BY TillConstants, FS_Interval DEF T!Presses
  <2>3. IsFiniteSet(T!Sent)
    BY <1>1, <1>2, FS_Subset
  <2> QED BY <2>1, <2>2, <2>3, FS_Subset
<1>5. ASSUME NEW n \in T!Presses, n <= c PROVE n \in T!Sent
  <2>1. SUFFICES ASSUME n \notin T!Sent PROVE FALSE
    OBVIOUS
  <2>2. T!Sent \subseteq 1..n - 1
    <3> SUFFICES ASSUME NEW i \in T!Sent PROVE i \in 1..n - 1
      OBVIOUS
    <3>1. i \in T!Presses /\ ~ n < i /\ i # n
      BY <2>1 DEF T!Sent, SentFirst
    <3> QED BY <3>1, TillConstants DEF T!Presses
  <2>3. Cardinality(1..n - 1) = n - 1 /\ IsFiniteSet(1..n - 1) /\ n \in Nat
    BY TillConstants, FS_Interval DEF T!Presses
  <2>4. Cardinality(T!Sent) <= n - 1
    BY <2>2, <2>3, FS_Subset
  <2> QED BY <1>3, <1>5, <2>3, <2>4
<1> QED BY <1>3, <1>4, <1>5

LEMMA TillInit == T!Init => TillInv
<1> SUFFICES ASSUME T!Init PROVE TillInv
  OBVIOUS
<1>1. /\ refunded = 0 /\ returned = [total |-> 0, notices |-> {}]
      /\ page = [b \in Browsers |-> T!Away] /\ asked = [n \in T!Presses |-> T!NoRequest]
  BY DEF T!Init
<1>2. 0 \in T!Cents /\ 0 \in 0..MaxPresses
  BY TillConstants DEF T!Cents
<1>3. T!Away \in T!Page /\ T!NoRequest \in T!Request
  BY <1>2 DEF T!Away, T!Page, T!NoRequest, T!Request
<1>4. T!TypeOK
  BY <1>1, <1>2, <1>3 DEF T!TypeOK
<1>5. ASSUME NEW n \in T!Presses PROVE TillRequestOK(n) /\ TillWaitOK(n) /\ asked[n].pc = "none" /\ asked[n].gave = 0
  BY <1>1 DEF TillRequestOK, TillWaitOK, T!NoRequest, Back
<1>6. ASSUME NEW b \in Browsers PROVE TillPageOK(b)
  BY <1>1 DEF TillPageOK, T!Away
<1>7. \A n, m \in T!Presses : TillPairOK(n, m)
  BY <1>5 DEF TillPairOK
<1> QED BY <1>1, <1>4, <1>5, <1>6, <1>7 DEF TillInv, Back, SentFirst

\* What the invariant says of a request, a page and the money, typed.
LEMMA TillThere ==
  ASSUME TillInv
  PROVE  /\ refunded \in 0..Price /\ Back \in 0..Price /\ refunded <= Back
         /\ \A c \in returned.notices : c \in 0..Price /\ c <= Back
         /\ page \in [Browsers -> T!Page] /\ asked \in [T!Presses -> T!Request]
         /\ \A n \in T!Presses : TillRequestOK(n) /\ TillWaitOK(n) /\ n \in 1..MaxPresses
         /\ \A b \in Browsers : TillPageOK(b)
         /\ \A n, m \in T!Presses : n < m => TillPairOK(n, m)
         /\ SentFirst
<1>1. T!TypeOK
  BY DEF TillInv
<1>2. /\ refunded \in 0..Price /\ Back \in 0..Price
      /\ page \in [Browsers -> T!Page] /\ asked \in [T!Presses -> T!Request]
      /\ returned.notices \subseteq 0..Price
  BY <1>1 DEF T!TypeOK, T!Cents, Back
<1> QED BY <1>2 DEF TillInv, T!Presses

\* A step of the server, which no page sees: the request goes on and money may
\* have come back, never less.
LEMMA ServedOK ==
  ASSUME TillInv, page' = page, NEW n \in T!Presses, NEW q \in T!Request,
         asked' = [asked EXCEPT ![n] = q], asked[n].pc # "none",
         returned' \in [total : T!Cents, notices : SUBSET T!Cents],
         Back <= Back', \A c \in returned'.notices : c <= Back',
         refunded' \in T!Cents, refunded' <= Back',
         q.pc \notin {"none", "told", "failed"},
         asked[n].pc \notin {"told", "failed"},
         q.by = asked[n].by, q.visit = asked[n].visit, q.full <=> asked[n].full,
         q.awaited <=> asked[n].awaited, q.shown = asked[n].shown,
         ~ q.full => q.amount = asked[n].amount,
         TillRequestOK(n)',
         q.full /\ q.gave > 0 =>
            \/ asked[n].gave > 0
            \/ Back < Price
  PROVE  TillInv'
<1>1. /\ asked' \in [T!Presses -> T!Request] /\ asked'[n] = q
      /\ \A m \in T!Presses \ {n} : asked'[m] = asked[m]
  BY TillThere
<1>2. T!TypeOK'
  BY <1>1 DEF TillInv, T!TypeOK
<1>3. \A m \in T!Presses : asked'[m].pc # "none" <=> asked[m].pc # "none"
  BY <1>1
<1>4. Back \in 0..Price /\ Back' \in 0..Price
  BY <1>2, TillThere DEF T!TypeOK, T!Cents, Back
<1>5. ASSUME NEW m \in T!Presses PROVE TillRequestOK(m)'
  <2>1. CASE m # n
    <3>1. asked'[m] = asked[m] /\ TillRequestOK(m)
      BY <1>1, <2>1, TillThere
    <3>2. asked[m] \in T!Request
      BY TillThere
    <3>3. \A k \in 0..Price : k <= Back => k <= Back'
      BY <1>4
    <3> QED BY <1>4, <3>1, <3>2, TillConstants DEF TillRequestOK, T!Request, T!Cents
  <2> QED BY <2>1
<1>6. ASSUME NEW m \in T!Presses PROVE TillWaitOK(m)'
  <2>1. TillWaitOK(m)
    BY TillThere
  <2>2. CASE m = n
    BY <1>1, <2>1, <2>2 DEF TillWaitOK
  <2>3. CASE m # n
    BY <1>1, <2>1, <2>3 DEF TillWaitOK
  <2> QED BY <2>2, <2>3
<1>7. Cardinality(T!Sent)' = Cardinality(T!Sent)
  <2>1. T!Sent' = T!Sent
    BY <1>3 DEF T!Sent
  <2> QED BY <2>1
<1>8. ASSUME NEW b \in Browsers PROVE TillPageOK(b)'
  <2>1. TillPageOK(b) /\ page[b] \in T!Page
    BY TillThere
  <2>2. page[b].seen # T!Unknown => page[b].seen <= Back'
    <3>1. page[b].seen # T!Unknown => page[b].seen \in 0..Price
      BY <2>1 DEF T!Page, T!Cents
    <3> QED BY <1>4, <2>1, <3>1 DEF TillPageOK
  <2>3. page[b].at = "issued" => page[b].visit \in T!Presses /\ asked'[page[b].visit].pc = "told"
    BY <1>1, <2>1 DEF TillPageOK
  <2> QED BY <1>7, <2>1, <2>2, <2>3 DEF TillPageOK, T!Unknown
<1>9. ASSUME NEW i \in T!Presses, NEW j \in T!Presses, i < j PROVE TillPairOK(i, j)'
  <2>1. TillPairOK(i, j) /\ i # j
    BY <1>9, TillThere DEF T!Presses
  <2>2. \A m \in T!Presses : /\ asked'[m].by = asked[m].by /\ asked'[m].visit = asked[m].visit
                             /\ asked'[m].full <=> asked[m].full
                             /\ asked'[m].awaited <=> asked[m].awaited
                             /\ (asked'[m].pc = "told" => asked[m].pc = "told")
                             /\ (asked[m].pc = "failed" => asked'[m].pc = "failed")
    BY <1>1
  <2>3. /\ asked'[i].pc # "none" /\ asked'[j].pc # "none"
        /\ asked'[i].visit = asked'[j].visit /\ asked'[i].by = asked'[j].by
        => /\ asked'[i].pc # "told"
           /\ asked'[i].awaited => asked'[i].pc = "failed"
    BY <1>3, <2>1, <2>2 DEF TillPairOK
  <2>4. ~ (asked'[i].full /\ asked'[j].full /\ asked'[i].gave > 0 /\ asked'[j].gave > 0)
    <3>1. CASE i # n /\ j # n
      BY <1>1, <2>1, <3>1 DEF TillPairOK
    <3>2. ASSUME NEW m \in T!Presses, m # n, asked[m].full, asked[m].gave > 0 PROVE ~ (q.full /\ q.gave > 0) \/ asked[n].gave > 0
      <4>1. Back = Price
        BY <3>2, TillThere DEF TillRequestOK
      <4> QED BY <1>4, <4>1, TillConstants
    <3>3. CASE i = n
      BY <1>1, <2>1, <2>2, <3>2, <3>3 DEF TillPairOK
    <3>4. CASE j = n
      BY <1>1, <2>1, <2>2, <3>2, <3>4 DEF TillPairOK
    <3> QED BY <3>1, <3>3, <3>4
  <2> QED BY <2>3, <2>4 DEF TillPairOK
<1>10. SentFirst'
  BY <1>3, TillThere DEF SentFirst
<1> QED BY <1>2, <1>5, <1>6, <1>8, <1>9, <1>10 DEF TillInv

LEMMA RequestKept ==
  ASSUME TillInv, NEW m \in T!Presses, asked'[m] = asked[m], Back' \in 0..Price, Back <= Back'
  PROVE  TillRequestOK(m)'
<1>1. TillRequestOK(m) /\ asked[m] \in T!Request /\ Back \in 0..Price
  BY TillThere
<1>2. \A k \in 0..Price : k <= Back => k <= Back'
  BY <1>1, TillConstants
<1> QED BY <1>1, <1>2, TillConstants DEF TillRequestOK, T!Request, T!Cents

LEMMA TillCheck == ASSUME TillInv, NEW n \in T!Presses, T!Check(n) PROVE TillInv'
<1>1. /\ asked[n] \in T!Request /\ TillRequestOK(n) /\ asked[n].pc = "check" /\ n \in 1..MaxPresses
      /\ asked \in [T!Presses -> T!Request] /\ refunded \in 0..Price /\ Back \in 0..Price /\ refunded <= Back
  BY TillThere DEF T!Check
<1>2. page' = page /\ refunded' = refunded /\ returned' = returned /\ Back' = Back
  BY DEF T!Check, Back
<1>3. /\ returned' \in [total : T!Cents, notices : SUBSET T!Cents] /\ \A c \in returned'.notices : c <= Back'
      /\ refunded' \in T!Cents /\ refunded' <= Back' /\ Back <= Back'
  BY <1>1, <1>2, TillThere DEF TillInv, T!TypeOK
<1>4. ASSUME NEW amount \in 1..Price - refunded, amount = IF asked[n].full THEN Price - refunded ELSE asked[n].amount,
             asked' = [asked EXCEPT ![n] = [asked[n] EXCEPT !.pc = "ask", !.amount = amount, !.loaded = refunded]]
      PROVE TillInv'
  <2>1. PICK q : q = [asked[n] EXCEPT !.pc = "ask", !.amount = amount, !.loaded = refunded]
    OBVIOUS
  <2>2. amount \in 0..Price /\ amount > 0
    BY <1>1, TillConstants
  <2>3. /\ q \in T!Request /\ q.pc = "ask" /\ q.amount = amount /\ q.loaded = refunded
        /\ q.by = asked[n].by /\ q.visit = asked[n].visit /\ (q.full <=> asked[n].full)
        /\ (q.awaited <=> asked[n].awaited) /\ q.shown = asked[n].shown /\ q.gave = asked[n].gave
    BY <1>1, <2>1, <2>2 DEF T!Request, T!Cents
  <2>4. asked' = [asked EXCEPT ![n] = q] /\ asked'[n] = q
    BY <1>1, <1>4, <2>1
  <2>5. q.gave = 0 /\ (~ q.full => q.amount = asked[n].amount) /\ (q.full => q.amount = Price - q.loaded)
    BY <1>1, <1>4, <2>3 DEF TillRequestOK
  <2>6. /\ asked[n].by \in Browsers /\ asked[n].visit < n
        /\ asked[n].full => Price <= asked[n].shown + Back
        /\ ~ asked[n].full => asked[n].shown = asked[n].amount
    BY <1>1 DEF TillRequestOK
  <2>7. q.shown \in 0..Price
    BY <2>3 DEF T!Request, T!Cents
  <2>8. TillRequestOK(n)'
    BY <1>1, <1>2, <2>2, <2>3, <2>4, <2>5, <2>6, <2>7 DEF TillRequestOK
  <2>9. ~ (q.gave > 0)
    BY <2>5
  <2> QED BY <1>1, <1>2, <1>3, <2>3, <2>4, <2>5, <2>8, <2>9, ServedOK
<1>5. CASE asked' = [asked EXCEPT ![n] = [asked[n] EXCEPT !.pc = "error"]]
  <2>1. PICK q : q = [asked[n] EXCEPT !.pc = "error"]
    OBVIOUS
  <2>3. /\ q \in T!Request /\ q.pc = "error" /\ q.amount = asked[n].amount
        /\ q.by = asked[n].by /\ q.visit = asked[n].visit /\ (q.full <=> asked[n].full)
        /\ (q.awaited <=> asked[n].awaited) /\ q.shown = asked[n].shown /\ q.gave = asked[n].gave
    BY <1>1, <2>1 DEF T!Request, T!Cents
  <2>4. asked' = [asked EXCEPT ![n] = q] /\ asked'[n] = q
    BY <1>1, <1>5, <2>1
  <2>5. q.gave = 0
    BY <1>1, <2>3 DEF TillRequestOK
  <2>6. TillRequestOK(n)'
    BY <1>1, <1>2, <2>3, <2>4, <2>5 DEF TillRequestOK
  <2>7. ~ (q.gave > 0)
    BY <2>5
  <2> QED BY <1>1, <1>2, <1>3, <2>3, <2>4, <2>6, <2>7, ServedOK
<1> QED BY <1>4, <1>5 DEF T!Check, T!Becomes, T!To

LEMMA TillGive == ASSUME TillInv, NEW n \in T!Presses, T!Give(n) PROVE TillInv'
<1>1. /\ asked[n] \in T!Request /\ TillRequestOK(n) /\ asked[n].pc = "ask" /\ n \in 1..MaxPresses
      /\ asked \in [T!Presses -> T!Request] /\ refunded \in 0..Price /\ Back \in 0..Price /\ refunded <= Back
      /\ Back + asked[n].amount <= Price
  BY TillThere DEF T!Give, Back
<1>2. /\ page' = page /\ refunded' = refunded
      /\ returned' = [total |-> Back + asked[n].amount, notices |-> returned.notices \cup {asked[n].amount}]
  BY DEF T!Give, Back
<1>3. /\ asked[n].amount \in 0..Price /\ asked[n].amount > 0 /\ asked[n].loaded \in 0..Price /\ asked[n].shown \in 0..Price
      /\ asked[n].loaded <= Back /\ (asked[n].full => asked[n].amount = Price - asked[n].loaded)
      /\ asked[n].by \in Browsers /\ asked[n].visit < n
      /\ (asked[n].full => Price <= asked[n].shown + Back)
      /\ (~ asked[n].full => asked[n].shown = asked[n].amount)
  BY <1>1 DEF TillRequestOK, T!Request, T!Cents
<1>4. Back' = Back + asked[n].amount /\ returned'.notices = returned.notices \cup {asked[n].amount}
  BY <1>2 DEF Back
<1>5. Back' \in 0..Price /\ Back < Back' /\ Back <= Back'
  BY <1>1, <1>3, <1>4, TillConstants
<1>6. returned.notices \subseteq 0..Price /\ \A c \in returned.notices : c <= Back
  BY TillThere
<1>7. \A c \in returned'.notices : c <= Back'
  BY <1>1, <1>3, <1>4, <1>5, <1>6, TillConstants
<1>8. /\ returned' \in [total : T!Cents, notices : SUBSET T!Cents]
      /\ refunded' \in T!Cents /\ refunded' <= Back'
  BY <1>1, <1>2, <1>3, <1>4, <1>5, <1>6 DEF T!Cents
<1>9. PICK pc \in {"save", "error"} : asked' = [asked EXCEPT ![n] = [asked[n] EXCEPT !.pc = pc, !.gave = asked[n].amount]]
  BY DEF T!Give, T!Becomes
<1>10. PICK q : q = [asked[n] EXCEPT !.pc = pc, !.gave = asked[n].amount]
  OBVIOUS
<1>11. /\ q \in T!Request /\ q.pc = pc /\ q.amount = asked[n].amount /\ q.loaded = asked[n].loaded
       /\ q.by = asked[n].by /\ q.visit = asked[n].visit /\ (q.full <=> asked[n].full)
       /\ (q.awaited <=> asked[n].awaited) /\ q.shown = asked[n].shown /\ q.gave = asked[n].amount
  BY <1>1, <1>3, <1>10 DEF T!Request, T!Cents
<1>12. asked' = [asked EXCEPT ![n] = q] /\ asked'[n] = q
  BY <1>1, <1>9, <1>10
<1>13. q.full => Back' = Price /\ Back < Price /\ Price <= q.shown + Back' /\ q.gave <= q.shown
  BY <1>1, <1>3, <1>4, <1>11, TillConstants
<1>14. ~ q.full => q.shown = q.amount /\ q.gave <= q.shown
  BY <1>3, <1>11
<1>15. q.loaded + q.amount <= Back'
  BY <1>1, <1>3, <1>4, <1>11
<1>16. TillRequestOK(n)'
  BY <1>3, <1>11, <1>12, <1>13, <1>14, <1>15 DEF TillRequestOK
<1> QED BY <1>1, <1>2, <1>5, <1>7, <1>8, <1>11, <1>12, <1>13, <1>16, ServedOK

LEMMA TillTo ==
  ASSUME TillInv, NEW n \in T!Presses, NEW pc \in {"error", "ok"}, asked[n].pc \in {"ask", "save"},
         asked' = [asked EXCEPT ![n] = [asked[n] EXCEPT !.pc = pc]], page' = page, returned' = returned,
         pc = "ok" => asked[n].pc = "save",
         refunded' \in T!Cents, refunded' <= Back
  PROVE  TillInv'
<1>1. /\ asked[n] \in T!Request /\ TillRequestOK(n) /\ n \in 1..MaxPresses
      /\ asked \in [T!Presses -> T!Request] /\ Back \in 0..Price
  BY TillThere
<1>2. Back' = Back
  BY DEF Back
<1>3. /\ returned' \in [total : T!Cents, notices : SUBSET T!Cents] /\ \A c \in returned'.notices : c <= Back'
      /\ refunded' <= Back' /\ Back <= Back'
  BY <1>1, <1>2, TillThere DEF TillInv, T!TypeOK
<1>4. PICK q : q = [asked[n] EXCEPT !.pc = pc]
  OBVIOUS
<1>5. /\ q \in T!Request /\ q.pc = pc /\ q.amount = asked[n].amount /\ q.loaded = asked[n].loaded
      /\ q.by = asked[n].by /\ q.visit = asked[n].visit /\ (q.full <=> asked[n].full)
      /\ (q.awaited <=> asked[n].awaited) /\ q.shown = asked[n].shown /\ q.gave = asked[n].gave
  BY <1>1, <1>4 DEF T!Request, T!Cents
<1>6. asked' = [asked EXCEPT ![n] = q] /\ asked'[n] = q
  BY <1>1, <1>4
<1>7. TillRequestOK(n)'
  BY <1>1, <1>2, <1>5, <1>6 DEF TillRequestOK
<1>8. q.full /\ q.gave > 0 => asked[n].gave > 0
  BY <1>5
<1>9. asked[n].pc \notin {"told", "failed"} /\ asked[n].pc # "none" /\ q.pc \notin {"none", "told", "failed"}
  BY <1>5
<1> QED BY <1>1, <1>2, <1>3, <1>5, <1>6, <1>7, <1>8, <1>9, ServedOK

LEMMA TillServes ==
  ASSUME TillInv, NEW n \in T!Presses, T!Refuse(n) \/ T!Save(n) \/ T!Crash(n)
  PROVE  TillInv'
<1>1. asked[n] \in T!Request /\ TillRequestOK(n) /\ refunded \in T!Cents /\ refunded <= Back /\ Back \in 0..Price
  BY TillThere DEF T!Cents
<1>2. CASE T!Refuse(n) \/ T!Crash(n)
  BY <1>1, <1>2, TillTo DEF T!Refuse, T!Crash, T!To, T!Becomes
<1>3. CASE T!Save(n)
  <2>1. asked[n].pc = "save" /\ refunded' = asked[n].loaded + asked[n].amount /\ asked[n].loaded + asked[n].amount <= Back
    BY <1>1, <1>3 DEF T!Save, TillRequestOK
  <2>2. asked[n].loaded \in 0..Price /\ asked[n].amount \in 0..Price
    BY <1>1 DEF T!Request, T!Cents
  <2>3. refunded' \in T!Cents /\ refunded' <= Back
    BY <1>1, <2>1, <2>2, TillConstants DEF T!Cents
  <2>4. /\ asked' = [asked EXCEPT ![n] = [asked[n] EXCEPT !.pc = "ok"]] /\ page' = page /\ returned' = returned
    BY <1>3 DEF T!Save, T!To, T!Becomes
  <2> QED BY <2>1, <2>3, <2>4, TillTo
<1> QED BY <1>2, <1>3

LEMMA TillMoney ==
  ASSUME TillInv, NEW amount \in T!Cents, T!Return(amount) \/ T!Notice(amount)
  PROVE  TillInv'
<1>1. /\ refunded \in 0..Price /\ Back \in 0..Price /\ refunded <= Back /\ amount \in 0..Price
      /\ returned.notices \subseteq 0..Price /\ \A c \in returned.notices : c <= Back
  BY TillThere DEF T!Cents
<1>2. page' = page /\ asked' = asked
  BY DEF T!Return, T!Notice
<1>3. /\ Back' \in 0..Price /\ Back <= Back' /\ refunded' \in T!Cents /\ refunded' <= Back'
      /\ returned' \in [total : T!Cents, notices : SUBSET T!Cents] /\ \A c \in returned'.notices : c <= Back'
  <2>1. CASE T!Return(amount)
    <3>1. /\ refunded' = refunded /\ amount > 0 /\ Back + amount <= Price
          /\ returned' = [total |-> Back + amount, notices |-> returned.notices \cup {amount}]
      BY <2>1 DEF T!Return, Back
    <3>2. Back' = Back + amount /\ returned'.notices = returned.notices \cup {amount}
      BY <3>1 DEF Back
    <3>3. Back' \in 0..Price /\ Back <= Back' /\ amount <= Back'
      BY <1>1, <3>1, <3>2, TillConstants
    <3>4. \A c \in returned'.notices : c <= Back'
      BY <1>1, <3>2, <3>3, TillConstants
    <3> QED BY <1>1, <3>1, <3>2, <3>3, <3>4, TillConstants DEF T!Cents
  <2>2. CASE T!Notice(amount)
    <3>1. returned' = returned /\ refunded' = amount /\ amount \in returned.notices
      BY <2>2 DEF T!Notice
    <3> QED BY <1>1, <3>1 DEF T!Cents, Back, TillInv, T!TypeOK
  <2> QED BY <2>1, <2>2
<1>4. T!TypeOK'
  BY <1>2, <1>3 DEF TillInv, T!TypeOK
<1>5. ASSUME NEW m \in T!Presses PROVE TillRequestOK(m)' /\ TillWaitOK(m)'
  BY <1>2, <1>3, RequestKept, TillThere DEF TillWaitOK
<1>6. ASSUME NEW b \in Browsers PROVE TillPageOK(b)'
  <2>1. TillPageOK(b) /\ page[b] \in T!Page
    BY TillThere
  <2>2. page[b].seen # T!Unknown => page[b].seen <= Back'
    <3>1. page[b].seen # T!Unknown => page[b].seen \in 0..Price
      BY <2>1 DEF T!Page, T!Cents
    <3> QED BY <1>1, <1>3, <2>1, <3>1 DEF TillPageOK
  <2>3. T!Sent' = T!Sent
    BY <1>2 DEF T!Sent
  <2> QED BY <1>2, <2>1, <2>2, <2>3 DEF TillPageOK, T!Unknown
<1>7. \A i, j \in T!Presses : i < j => TillPairOK(i, j)'
  BY <1>2, TillThere DEF TillPairOK
<1>8. SentFirst'
  BY <1>2, TillThere DEF SentFirst
<1> QED BY <1>3, <1>4, <1>5, <1>6, <1>7, <1>8 DEF TillInv

\* A step of one page, and perhaps of a request of its administrator: the other
\* pages, requests and the money stay.
LEMMA PageStepOK ==
  ASSUME TillInv, NEW b \in Browsers, NEW p \in T!Page, NEW n \in T!Presses, NEW q \in T!Request,
         refunded' = refunded, returned' = returned, page' = [page EXCEPT ![b] = p],
         asked' = [asked EXCEPT ![n] = q], asked[n].pc # "told" \/ q = asked[n],
         asked[n].pc # "none" => q.pc # "none",
         SentFirst', TillRequestOK(n)', TillPageOK(b)',
         \A m \in T!Presses : asked[m].by = b \/ m = n => TillWaitOK(m)',
         \A m \in T!Presses : /\ n < m => TillPairOK(n, m)'
                              /\ m < n => TillPairOK(m, n)'
  PROVE  TillInv'
<1>1. /\ asked' \in [T!Presses -> T!Request] /\ asked'[n] = q
      /\ \A m \in T!Presses \ {n} : asked'[m] = asked[m]
      /\ page' \in [Browsers -> T!Page] /\ page'[b] = p
      /\ \A c \in Browsers \ {b} : page'[c] = page[c]
  BY TillThere
<1>2. Back' = Back /\ T!TypeOK'
  BY <1>1 DEF TillInv, T!TypeOK, Back
<1>3. refunded' <= Back' /\ \A c \in returned'.notices : c <= Back'
  BY <1>2 DEF TillInv
<1>4. ASSUME NEW m \in T!Presses PROVE TillRequestOK(m)'
  <2>1. CASE m = n
    BY <2>1
  <2>2. CASE m # n
    <3>1. asked'[m] = asked[m] /\ Back' \in 0..Price /\ Back <= Back'
      BY <1>1, <1>2, <2>2, TillThere
    <3> QED BY <3>1, RequestKept
  <2> QED BY <2>1, <2>2
<1>5. ASSUME NEW m \in T!Presses PROVE TillWaitOK(m)'
  <2>1. CASE asked[m].by = b \/ m = n
    BY <2>1
  <2>2. CASE asked[m].by # b /\ m # n
    <3>1. asked'[m] = asked[m] /\ TillWaitOK(m) /\ TillRequestOK(m)
      BY <1>1, <2>2, TillThere
    <3>2. asked[m].pc # "none" => asked[m].by \in Browsers \ {b}
      BY <2>2, <3>1 DEF TillRequestOK
    <3> QED BY <1>1, <3>1, <3>2 DEF TillWaitOK
  <2> QED BY <2>1, <2>2
<1>6. Cardinality(T!Sent) <= Cardinality(T!Sent') /\ Cardinality(T!Sent) \in Nat /\ Cardinality(T!Sent') \in Nat
  <2>1. T!Sent \subseteq T!Sent'
    BY <1>1 DEF T!Sent
  <2>2. T!Sent' \subseteq 1..MaxPresses
    BY DEF T!Sent, T!Presses
  <2>3. IsFiniteSet(1..MaxPresses)
    BY TillConstants, FS_Interval
  <2>4. PICK some, more : some = T!Sent /\ more = T!Sent'
    OBVIOUS
  <2>5. IsFiniteSet(more) /\ some \subseteq more
    BY <2>1, <2>2, <2>3, <2>4, FS_Subset
  <2>6. Cardinality(some) <= Cardinality(more) /\ IsFiniteSet(some)
    BY <2>5, FS_Subset
  <2> QED BY <2>4, <2>5, <2>6, FS_CardinalityType
<1>7. ASSUME NEW c \in Browsers PROVE TillPageOK(c)'
  <2>1. CASE c = b
    BY <2>1
  <2>2. CASE c # b
    <3>1. page'[c] = page[c] /\ TillPageOK(c) /\ page[c] \in T!Page
      BY <1>1, <2>2, TillThere
    <3>2. page[c].visit \in Nat
      BY <3>1, TillConstants DEF T!Page
    <3>3. page[c].at \in {"form", "dialog"} => page[c].visit <= Cardinality(T!Sent')
      BY <1>6, <3>1, <3>2 DEF TillPageOK
    <3>4. page[c].at = "issued" => page[c].visit \in T!Presses /\ asked'[page[c].visit].pc = "told"
      <4>1. \A m \in T!Presses : asked[m].pc = "told" => asked'[m].pc = "told"
        BY <1>1
      <4> QED BY <3>1, <4>1 DEF TillPageOK
    <3> QED BY <1>2, <3>1, <3>3, <3>4 DEF TillPageOK, T!Unknown
  <2> QED BY <2>1, <2>2
<1>8. ASSUME NEW i \in T!Presses, NEW j \in T!Presses, i < j PROVE TillPairOK(i, j)'
  <2>1. CASE i = n \/ j = n
    BY <1>8, <2>1
  <2>2. CASE i # n /\ j # n
    BY <1>1, <1>8, <2>2, TillThere DEF TillPairOK
  <2> QED BY <2>1, <2>2
<1> QED BY <1>2, <1>3, <1>4, <1>5, <1>7, <1>8 DEF TillInv

\* A step of the page alone.
LEMMA PageAloneOK ==
  ASSUME TillInv, NEW b \in Browsers, NEW p \in T!Page,
         refunded' = refunded, returned' = returned, asked' = asked, page' = [page EXCEPT ![b] = p],
         p.seen # T!Unknown => p.seen <= Back,
         p.at = "dialog" => p.seen # T!Unknown,
         p.at # "issued",
         \/ p.at = "elsewhere"
         \/ p.visit = Cardinality(T!Sent)
         \/ /\ page[b].at \in {"form", "dialog"}
            /\ p.visit = page[b].visit /\ p.waits = page[b].waits
  PROVE  TillInv'
<1>1. /\ page' \in [Browsers -> T!Page] /\ page'[b] = p
      /\ \A c \in Browsers \ {b} : page'[c] = page[c]
  BY TillThere
<1>2. Back' = Back /\ T!TypeOK' /\ T!Sent' = T!Sent
  BY <1>1 DEF TillInv, T!TypeOK, Back, T!Sent
<1>3. refunded' <= Back' /\ \A c \in returned'.notices : c <= Back'
  BY <1>2 DEF TillInv
<1>4. ASSUME NEW m \in T!Presses PROVE TillRequestOK(m)'
  BY <1>2, TillThere, RequestKept
<1>5. ASSUME NEW m \in T!Presses PROVE TillWaitOK(m)'
  <2>1. TillWaitOK(m) /\ TillRequestOK(m) /\ m \in 1..MaxPresses /\ asked[m] \in T!Request
    BY TillThere
  <2>2. CASE asked[m].by # b \/ asked[m].pc = "none"
    BY <1>1, <2>1, <2>2 DEF TillWaitOK, TillRequestOK
  <2>3. CASE asked[m].by = b /\ asked[m].pc # "none"
    <3>1. CASE p.at = "elsewhere"
      BY <1>1, <2>3, <3>1 DEF TillWaitOK
    <3>2. CASE p.visit = Cardinality(T!Sent)
      <4>1. PICK c : c = Cardinality(T!Sent)
        OBVIOUS
      <4>2. m <= c /\ c \in 0..MaxPresses
        BY <2>3, <4>1, SentAre, TillThere DEF T!Sent
      <4>3. asked[m].visit < m /\ asked[m].visit \in 0..MaxPresses
        BY <2>1, <2>3 DEF TillRequestOK, T!Request
      <4>4. p.visit # asked[m].visit
        BY <2>1, <3>2, <4>1, <4>2, <4>3, TillConstants
      <4> QED BY <1>1, <2>3, <4>4 DEF TillWaitOK
    <3>3. CASE page[b].at \in {"form", "dialog"} /\ p.visit = page[b].visit /\ p.waits = page[b].waits
      BY <1>1, <2>1, <2>3, <3>3 DEF TillWaitOK
    <3> QED BY <3>1, <3>2, <3>3
  <2> QED BY <2>2, <2>3
<1>6. ASSUME NEW c \in Browsers PROVE TillPageOK(c)'
  <2>1. TillPageOK(c)
    BY TillThere
  <2>2. CASE c # b
    BY <1>1, <1>2, <2>1, <2>2 DEF TillPageOK, T!Unknown
  <2>3. CASE c = b
    <3>1. p.at \in {"form", "dialog"} => p.visit <= Cardinality(T!Sent)
      <4>1. p.visit \in Nat
        BY TillConstants DEF T!Page
      <4> QED BY <2>1, <2>3, <4>1 DEF TillPageOK, T!Page
    <3> QED BY <1>1, <1>2, <2>3, <3>1 DEF TillPageOK, T!Unknown
  <2> QED BY <2>2, <2>3
<1>7. \A i, j \in T!Presses : i < j => TillPairOK(i, j)'
  BY TillThere DEF TillPairOK
<1>8. SentFirst'
  BY TillThere DEF SentFirst
<1> QED BY <1>2, <1>3, <1>4, <1>5, <1>6, <1>7, <1>8 DEF TillInv

LEMMA TillTurns ==
  ASSUME TillInv, NEW b \in Browsers,
         T!Open(b) \/ T!Leave(b) \/ T!Load(b) \/ T!Confirm(b) \/ T!Dismiss(b)
  PROVE  TillInv'
<1>1. /\ page[b] \in T!Page /\ TillPageOK(b) /\ refunded \in 0..Price /\ refunded <= Back /\ Back \in 0..Price
  BY TillThere
<1>2. refunded' = refunded /\ returned' = returned /\ asked' = asked
  BY DEF T!Open, T!Leave, T!Load, T!Confirm, T!Dismiss, T!Stays
<1>3. 0 \in T!Cents /\ 0 \in 0..MaxPresses /\ Price \in Nat
  BY TillConstants DEF T!Cents
<1>4. CASE T!Open(b)
  <2>1. PICK c : c = Cardinality(T!Sent)
    OBVIOUS
  <2>2. c \in 0..MaxPresses
    BY <2>1, SentAre, TillThere
  <2>3. PICK seen \in {page[b].seen, T!Unknown} :
           page' = [page EXCEPT ![b] = [T!Away EXCEPT !.at = "form", !.seen = seen, !.visit = c]]
    BY <1>4, <2>1, CountsT DEF T!Open, T!Turn
  <2>4. PICK p : p = [T!Away EXCEPT !.at = "form", !.seen = seen, !.visit = c]
    OBVIOUS
  <2>5. seen \in T!Cents \cup {T!Unknown}
    BY <1>1 DEF T!Page
  <2>6. p \in T!Page /\ p.at = "form" /\ p.seen = seen /\ p.visit = c
    BY <1>3, <2>2, <2>4, <2>5 DEF T!Page, T!Away
  <2>7. p.seen # T!Unknown => p.seen <= Back
    BY <1>1, <2>6 DEF TillPageOK
  <2>8. page' = [page EXCEPT ![b] = p] /\ p.visit = Cardinality(T!Sent) /\ p.at \notin {"dialog", "issued"}
    BY <2>1, <2>3, <2>4, <2>6
  <2> QED BY <1>2, <2>6, <2>7, <2>8, PageAloneOK
<1>5. CASE T!Leave(b)
  <2>1. PICK p : p = [page[b] EXCEPT !.at = "elsewhere", !.waits = 0]
    OBVIOUS
  <2>2. p \in T!Page /\ p.at = "elsewhere" /\ p.seen = page[b].seen
    BY <1>1, <1>3, <2>1 DEF T!Page
  <2>3. page' = [page EXCEPT ![b] = p]
    BY <1>5, <2>1 DEF T!Leave, T!Turn
  <2>4. p.seen # T!Unknown => p.seen <= Back
    BY <1>1, <2>2 DEF TillPageOK
  <2>5. p.at \notin {"dialog", "issued"}
    BY <2>2
  <2> QED BY <1>2, <2>2, <2>3, <2>4, <2>5, PageAloneOK
<1>6. CASE T!Load(b)
  <2>1. PICK p : p = [page[b] EXCEPT !.seen = refunded]
    OBVIOUS
  <2>2. p \in T!Page /\ p.at = page[b].at /\ p.seen = refunded /\ p.visit = page[b].visit /\ p.waits = page[b].waits
    BY <1>1, <2>1 DEF T!Page, T!Cents
  <2>3. page' = [page EXCEPT ![b] = p] /\ page[b].at \in {"form", "dialog"}
    BY <1>6, <2>1 DEF T!Load, T!Turn
  <2>4. p.seen # T!Unknown /\ p.seen <= Back /\ p.at # "issued"
    BY <1>1, <2>2, <2>3, TillConstants DEF T!Unknown
  <2> QED BY <1>2, <2>2, <2>3, <2>4, PageAloneOK
<1>7. CASE T!Confirm(b)
  <2>1. PICK amount \in T!Cents :
           /\ T!Figure([page[b] EXCEPT !.at = "dialog", !.amount = amount]) > 0
           /\ page' = [page EXCEPT ![b] = [page[b] EXCEPT !.at = "dialog", !.amount = amount]]
    BY <1>7 DEF T!Confirm, T!Turn
  <2>2. PICK p : p = [page[b] EXCEPT !.at = "dialog", !.amount = amount]
    OBVIOUS
  <2>3. p \in T!Page /\ p.at = "dialog" /\ p.seen = page[b].seen /\ p.visit = page[b].visit /\ p.waits = page[b].waits
    BY <1>1, <2>2 DEF T!Page
  <2>4. p.seen # T!Unknown
    BY <2>1, <2>2 DEF T!Figure
  <2>5. page' = [page EXCEPT ![b] = p] /\ page[b].at \in {"form", "dialog"} /\ p.at # "issued"
    BY <1>7, <2>1, <2>2, <2>3 DEF T!Confirm
  <2>6. p.seen <= Back
    BY <1>1, <2>3, <2>4 DEF TillPageOK
  <2> QED BY <1>2, <2>3, <2>4, <2>5, <2>6, PageAloneOK
<1>8. CASE T!Dismiss(b)
  <2>1. PICK p : p = [page[b] EXCEPT !.at = "form"]
    OBVIOUS
  <2>2. p \in T!Page /\ p.at = "form" /\ p.seen = page[b].seen /\ p.visit = page[b].visit /\ p.waits = page[b].waits
    BY <1>1, <2>1 DEF T!Page
  <2>3. page' = [page EXCEPT ![b] = p] /\ page[b].at \in {"form", "dialog"} /\ p.at \notin {"dialog", "issued"}
    BY <1>8, <2>1, <2>2 DEF T!Dismiss, T!Turn
  <2>4. p.seen # T!Unknown => p.seen <= Back
    BY <1>1, <2>2 DEF TillPageOK
  <2> QED BY <1>2, <2>2, <2>3, <2>4, PageAloneOK
<1> QED BY <1>4, <1>5, <1>6, <1>7, <1>8

\* The request whose answer, failure or timeout the page learns of.
LEMMA TillAwaited ==
  ASSUME TillInv, NEW n \in T!Presses, T!Answer(n) \/ T!Error(n) \/ T!Timeout(n)
  PROVE  TillInv'
<1>1. /\ asked[n] \in T!Request /\ TillRequestOK(n) /\ TillWaitOK(n) /\ n \in 1..MaxPresses
      /\ asked \in [T!Presses -> T!Request] /\ page \in [Browsers -> T!Page] /\ Back \in 0..Price
  BY TillThere
<1>2. /\ refunded' = refunded /\ returned' = returned /\ Back' = Back /\ asked[n].awaited
      /\ asked[n].pc \in {"check", "ask", "save", "ok", "error"}
  BY DEF T!Answer, T!Error, T!Timeout, Back
<1>3. PICK b : b = asked[n].by
  OBVIOUS
<1>4. b \in Browsers /\ page[b] \in T!Page /\ TillPageOK(b)
  BY <1>1, <1>2, <1>3, TillThere DEF TillRequestOK
<1>5. PICK w \in 0..MaxPresses : w = IF page[b].waits = n THEN 0 ELSE page[b].waits
  BY <1>4, TillConstants DEF T!Page
<1>6. PICK s : s = T!Settled(n)
  OBVIOUS
<1>7. s \in T!Page /\ s = [page[b] EXCEPT !.waits = w]
  BY <1>3, <1>4, <1>5, <1>6 DEF T!Settled, T!Page
<1>8. s.at = page[b].at /\ s.seen = page[b].seen /\ s.visit = page[b].visit /\ s.waits = w /\ s.amount = page[b].amount
  BY <1>4, <1>7 DEF T!Page
<1>9. PICK p \in T!Page, q \in T!Request :
         /\ page' = [page EXCEPT ![b] = p] /\ asked' = [asked EXCEPT ![n] = q]
         /\ q.by = b /\ q.visit = asked[n].visit /\ (q.full <=> asked[n].full)
         /\ q.gave = asked[n].gave /\ q.amount = asked[n].amount /\ q.shown = asked[n].shown /\ q.loaded = asked[n].loaded
         /\ p.seen = page[b].seen /\ p.waits = w
         /\ \/ asked[n].pc = "ok" /\ q.pc = "told" /\ (q.awaited <=> TRUE) /\ p.at = "issued" /\ p.visit = n
            \/ /\ p.at = page[b].at /\ p.visit = page[b].visit
               /\ \/ q.pc = "failed" /\ asked[n].pc = "error"
                  \/ q.pc = asked[n].pc /\ (q.awaited <=> FALSE)
  <2>1. CASE T!Answer(n)
    <3>7. PICK p : p = [s EXCEPT !.at = "issued", !.visit = n]
      OBVIOUS
    <3>1. PICK q : q = [asked[n] EXCEPT !.pc = "told"]
      OBVIOUS
    <3>6. s \in T!Page
      BY <1>7
    <3>8. n \in 0..MaxPresses
      BY <1>1, TillConstants
    <3>5. p \in T!Page
      BY <3>6, <3>7, <3>8 DEF T!Page
    <3>2. /\ q \in T!Request
          /\ q.by = asked[n].by /\ q.visit = asked[n].visit /\ (q.full <=> asked[n].full)
          /\ q.gave = asked[n].gave /\ q.amount = asked[n].amount /\ q.shown = asked[n].shown /\ q.loaded = asked[n].loaded
          /\ q.pc = "told" /\ (q.awaited <=> asked[n].awaited)
      BY <1>1, <3>1 DEF T!Request
    <3>3. p.seen = page[b].seen /\ p.waits = w /\ p.at = "issued" /\ p.visit = n
      BY <1>8, <3>6, <3>7 DEF T!Page
    <3>4. page' = [page EXCEPT ![b] = p] /\ asked' = [asked EXCEPT ![n] = q] /\ asked[n].pc = "ok"
      BY <1>3, <1>6, <2>1, <3>1, <3>7 DEF T!Answer, T!Turn, T!To, T!Becomes
    <3> QED BY <1>2, <1>3, <3>2, <3>3, <3>4, <3>5
  <2>2. CASE T!Error(n)
    <3>1. PICK q : q = [asked[n] EXCEPT !.pc = "failed"]
      OBVIOUS
    <3>2. /\ q \in T!Request
          /\ q.by = asked[n].by /\ q.visit = asked[n].visit /\ (q.full <=> asked[n].full)
          /\ q.gave = asked[n].gave /\ q.amount = asked[n].amount /\ q.shown = asked[n].shown /\ q.loaded = asked[n].loaded
          /\ q.pc = "failed"
      BY <1>1, <3>1 DEF T!Request
    <3>4. page' = [page EXCEPT ![b] = s] /\ asked' = [asked EXCEPT ![n] = q] /\ asked[n].pc = "error"
      BY <1>3, <1>6, <2>2, <3>1 DEF T!Error, T!Turn, T!To, T!Becomes
    <3> QED BY <1>3, <1>7, <1>8, <3>2, <3>4
  <2>3. CASE T!Timeout(n)
    <3>1. PICK q : q = [asked[n] EXCEPT !.awaited = FALSE]
      OBVIOUS
    <3>2. /\ q \in T!Request
          /\ q.by = asked[n].by /\ q.visit = asked[n].visit /\ (q.full <=> asked[n].full)
          /\ q.gave = asked[n].gave /\ q.amount = asked[n].amount /\ q.shown = asked[n].shown /\ q.loaded = asked[n].loaded
          /\ q.pc = asked[n].pc /\ (q.awaited <=> FALSE)
      BY <1>1, <3>1 DEF T!Request
    <3>4. page' = [page EXCEPT ![b] = s] /\ asked' = [asked EXCEPT ![n] = q]
      BY <1>3, <1>6, <2>3, <3>1 DEF T!Timeout, T!Turn, T!Becomes
    <3> QED BY <1>3, <1>7, <1>8, <3>2, <3>4
  <2> QED BY <2>1, <2>2, <2>3
<1>10. /\ asked'[n] = q /\ \A m \in T!Presses \ {n} : asked'[m] = asked[m]
       /\ page'[b] = p
  BY <1>1, <1>4, <1>9
<1>11. asked[n].pc # "told" /\ asked[n].pc # "none" /\ q.pc # "none"
  BY <1>2, <1>9
<1>12. SentFirst' /\ T!Sent' = T!Sent
  BY <1>10, <1>11, TillThere DEF SentFirst, T!Sent
<1>13. TillRequestOK(n)'
  BY <1>1, <1>2, <1>3, <1>4, <1>9, <1>10 DEF TillRequestOK
<1>14. TillPageOK(b)'
  <2>1. p.at = "issued" => p.visit \in T!Presses /\ asked'[p.visit].pc = "told"
    BY <1>2, <1>4, <1>9, <1>10, <1>11 DEF TillPageOK
  <2> QED BY <1>2, <1>4, <1>9, <1>10, <1>12, <2>1 DEF TillPageOK, T!Unknown
<1>15. ASSUME NEW m \in T!Presses, asked[m].by = b \/ m = n PROVE TillWaitOK(m)'
  <2>1. TillWaitOK(m) /\ m \in 1..MaxPresses
    BY TillThere
  <2>2. CASE m = n
    BY <1>1, <1>2, <1>3, <1>9, <1>10, <2>2 DEF TillWaitOK
  <2>3. CASE m # n
    <3>1. page[b].waits = m => w = m
      BY <1>5, <2>3
    <3> QED BY <1>3, <1>9, <1>10, <1>15, <2>1, <2>3, <3>1 DEF TillWaitOK
  <2> QED BY <2>2, <2>3
<1>16. ASSUME NEW m \in T!Presses
       PROVE (n < m => TillPairOK(n, m)') /\ (m < n => TillPairOK(m, n)')
  <2>1. CASE n < m
    <3>1. TillPairOK(n, m) /\ asked'[m] = asked[m]
      BY <1>1, <1>10, <2>1, TillThere
    <3> QED BY <1>2, <1>3, <1>9, <1>10, <2>1, <1>1, <3>1, TillThere DEF TillPairOK
  <2>2. CASE m < n
    <3>1. TillPairOK(m, n) /\ asked'[m] = asked[m]
      BY <1>1, <1>10, <2>2, TillThere
    <3> QED BY <1>2, <1>3, <1>9, <1>10, <2>2, <1>1, <3>1, TillThere DEF TillPairOK
  <2> QED BY <2>1, <2>2
<1> QED BY <1>2, <1>4, <1>9, <1>11, <1>12, <1>13, <1>14, <1>15, <1>16, PageStepOK

\* The button: the request is the next one.
LEMMA TillPress == ASSUME TillInv, NEW b \in Browsers, T!Press(b) PROVE TillInv'
<1>1. PICK c : c = Cardinality(T!Sent)
  OBVIOUS
<1>2. c \in 0..MaxPresses /\ \A n \in T!Presses : n \in T!Sent <=> n <= c
  BY <1>1, SentAre, TillThere
<1>3. PICK n : n = c + 1
  OBVIOUS
<1>4. /\ n \in T!Presses /\ n \in 1..MaxPresses /\ page[b].at = "dialog" /\ page[b].waits = 0
      /\ refunded' = refunded /\ returned' = returned /\ Back' = Back
      /\ page' = [page EXCEPT ![b] = [page[b] EXCEPT !.waits = n]]
  BY <1>1, <1>3, CountsT DEF T!Press, T!Turn, T!Presses, Back
<1>22. asked' = [asked EXCEPT ![n] =
                   [T!NoRequest EXCEPT !.pc = "check", !.by = b, !.full = page[b].amount = 0,
                                       !.amount = page[b].amount, !.awaited = TRUE,
                                       !.shown = T!Figure(page[b]), !.visit = page[b].visit]]
  BY <1>1, <1>3, CountsT DEF T!Press, T!Turn, T!Presses, Back
<1>5. /\ page[b] \in T!Page /\ TillPageOK(b) /\ Back \in 0..Price
      /\ asked \in [T!Presses -> T!Request] /\ page \in [Browsers -> T!Page]
      /\ page[b].amount \in 0..Price /\ page[b].visit \in 0..MaxPresses
  BY TillThere DEF T!Page, T!Cents
<1>6. /\ page[b].seen \in 0..Price /\ page[b].seen <= Back /\ page[b].visit <= c
  BY <1>1, <1>4, <1>5 DEF TillPageOK, T!Page, T!Cents
<1>7. PICK f \in 0..Price : /\ f = T!Figure(page[b])
                            /\ page[b].amount = 0 => f = Price - page[b].seen
                            /\ page[b].amount # 0 => f = page[b].amount
  <2>1. page[b].seen # T!Unknown
    BY <1>6, TillConstants DEF T!Unknown
  <2>2. T!Figure(page[b]) = IF page[b].amount = 0 THEN Price - page[b].seen ELSE page[b].amount
    BY <2>1 DEF T!Figure
  <2>3. Price - page[b].seen \in 0..Price
    BY <1>6, TillConstants
  <2> QED BY <1>5, <2>2, <2>3
<1>8. PICK v \in BOOLEAN : v <=> page[b].amount = 0
  OBVIOUS
<1>9. PICK q : q = [T!NoRequest EXCEPT !.pc = "check", !.by = b, !.full = page[b].amount = 0,
                                       !.amount = page[b].amount, !.awaited = TRUE,
                                       !.shown = T!Figure(page[b]), !.visit = page[b].visit]
  OBVIOUS
<1>10. q = [pc |-> "check", by |-> b, full |-> page[b].amount = 0, amount |-> page[b].amount, loaded |-> 0,
            awaited |-> TRUE, shown |-> f, gave |-> 0, visit |-> page[b].visit]
  BY <1>7, <1>9 DEF T!NoRequest
<1>11. /\ q \in T!Request /\ q.pc = "check" /\ q.by = b /\ (q.full <=> page[b].amount = 0)
       /\ q.amount = page[b].amount /\ q.loaded = 0 /\ (q.awaited <=> TRUE) /\ q.shown = f
       /\ q.gave = 0 /\ q.visit = page[b].visit
  BY <1>5, <1>7, <1>8, <1>10, TillConstants DEF T!Request, T!Cents
<1>12. PICK p : p = [page[b] EXCEPT !.waits = n]
  OBVIOUS
<1>13. /\ p \in T!Page /\ p.at = "dialog" /\ p.seen = page[b].seen /\ p.visit = page[b].visit /\ p.waits = n
  BY <1>4, <1>5, <1>12 DEF T!Page
<1>14. /\ asked' = [asked EXCEPT ![n] = q] /\ asked'[n] = q /\ \A m \in T!Presses \ {n} : asked'[m] = asked[m]
       /\ page' = [page EXCEPT ![b] = p] /\ page'[b] = p
  BY <1>4, <1>5, <1>9, <1>12, <1>22
<1>15. asked[n].pc = "none" /\ asked[n].gave = 0
  <2>1. asked[n].pc = "none"
    BY <1>2, <1>3, <1>4 DEF T!Sent
  <2> QED BY <1>4, <2>1, TillThere DEF TillRequestOK
<1>16. SentFirst'
  <2> SUFFICES ASSUME NEW i \in T!Presses, NEW m \in T!Presses, asked'[m].pc # "none", i < m
               PROVE  asked'[i].pc # "none"
    BY DEF SentFirst
  <2>1. CASE i = n
    BY <1>11, <1>14, <2>1
  <2>2. CASE i # n
    <3>1. m \in T!Sent \/ m = n
      BY <1>14 DEF T!Sent
    <3>2. i <= c
      BY <1>2, <1>3, <3>1, TillConstants DEF T!Presses
    <3> QED BY <1>2, <1>14, <2>2, <3>2 DEF T!Sent
  <2> QED BY <2>1, <2>2
<1>17. TillRequestOK(n)'
  <2>1. q.full => Price <= q.shown + Back
    BY <1>5, <1>6, <1>7, <1>11, TillConstants
  <2>2. ~ q.full => q.shown = q.amount
    BY <1>7, <1>11
  <2>3. q.visit < n
    BY <1>2, <1>3, <1>5, <1>6, <1>11
  <2> QED BY <1>4, <1>7, <1>11, <1>14, <2>1, <2>2, <2>3 DEF TillRequestOK
<1>18. TillPageOK(b)'
  <2>1. T!Sent \subseteq T!Sent' /\ T!Sent' \subseteq 1..MaxPresses
    BY <1>11, <1>14 DEF T!Sent, T!Presses
  <2>2. PICK some, more : some = T!Sent /\ more = T!Sent'
    OBVIOUS
  <2>3. IsFiniteSet(1..MaxPresses)
    BY TillConstants, FS_Interval
  <2>4. IsFiniteSet(more) /\ some \subseteq more
    BY <2>1, <2>2, <2>3, FS_Subset
  <2>5. Cardinality(some) <= Cardinality(more) /\ Cardinality(more) \in Nat
    BY <2>4, FS_Subset, FS_CardinalityType
  <2>6. page[b].visit <= Cardinality(T!Sent')
    BY <1>1, <1>2, <1>5, <1>6, <2>2, <2>5
  <2>7. p.seen # T!Unknown /\ p.seen <= Back'
    BY <1>4, <1>6, <1>13, TillConstants DEF T!Unknown
  <2> QED BY <1>13, <1>14, <2>6, <2>7 DEF TillPageOK, T!Unknown
<1>19. ASSUME NEW m \in T!Presses, asked[m].by = b \/ m = n PROVE TillWaitOK(m)'
  <2>1. CASE m = n
    BY <1>11, <1>13, <1>14, <2>1 DEF TillWaitOK
  <2>2. CASE m # n
    <3>1. TillWaitOK(m) /\ m \in 1..MaxPresses
      BY TillThere
    <3> QED BY <1>4, <1>13, <1>14, <1>19, <2>2, <3>1 DEF TillWaitOK
  <2> QED BY <2>1, <2>2
<1>20. ASSUME NEW m \in T!Presses
       PROVE (n < m => TillPairOK(n, m)') /\ (m < n => TillPairOK(m, n)')
  <2>1. CASE n < m
    <3>1. asked'[m] = asked[m] /\ asked[m].pc = "none"
      <4>1. asked'[m] = asked[m] /\ ~ m <= c
        BY <1>2, <1>3, <1>4, <1>14, <2>1 DEF T!Presses
      <4> QED BY <1>2, <4>1 DEF T!Sent
    <3> QED BY <1>4, <1>11, <1>14, <2>1, <3>1 DEF TillPairOK
  <2>2. CASE m < n
    <3>1. asked'[m] = asked[m] /\ TillWaitOK(m) /\ m \in 1..MaxPresses /\ m # n
      BY <1>4, <1>14, <2>2, TillThere
    <3>2. asked[m].pc # "none" /\ asked[m].visit = q.visit /\ asked[m].by = q.by
          => asked[m].pc # "told" /\ (asked[m].awaited => asked[m].pc = "failed")
      BY <1>4, <1>11, <3>1 DEF TillWaitOK
    <3>3. ~ (q.gave > 0)
      BY <1>11
    <3>4. asked'[n] = q
      BY <1>14
    <3>5. /\ asked'[m].pc # "none" /\ asked'[n].pc # "none"
          /\ asked'[m].visit = asked'[n].visit /\ asked'[m].by = asked'[n].by
          => /\ asked'[m].pc # "told"
             /\ asked'[m].awaited => asked'[m].pc = "failed"
      BY <3>1, <3>2, <3>4
    <3>6. ~ (asked'[m].full /\ asked'[n].full /\ asked'[m].gave > 0 /\ asked'[n].gave > 0)
      BY <3>3, <3>4
    <3> QED BY <1>4, <2>2, <3>1, <3>5, <3>6 DEF TillPairOK
  <2> QED BY <2>1, <2>2
<1>21. asked[n].pc # "told" /\ (asked[n].pc # "none" => q.pc # "none")
  BY <1>15
<1> QED BY <1>4, <1>11, <1>13, <1>14, <1>16, <1>17, <1>18, <1>19, <1>20, <1>21, PageStepOK

LEMMA TillNext == TillInv /\ T!Next => TillInv'
BY TillTurns, TillPress, TillCheck, TillGive, TillServes, TillAwaited, TillMoney DEF T!Next

LEMMA TillStutter == TillInv /\ UNCHANGED tillVars => TillInv'
<1> SUFFICES ASSUME TillInv, UNCHANGED tillVars PROVE TillInv'
  OBVIOUS
<1>1. refunded' = refunded /\ returned' = returned /\ page' = page /\ asked' = asked
  BY DEF tillVars
<1>2. T!Sent' = T!Sent /\ Back' = Back
  BY <1>1 DEF T!Sent, Back
<1> QED BY <1>1, <1>2 DEF TillInv, T!TypeOK, SentFirst, TillRequestOK, TillWaitOK, TillPageOK, TillPairOK

LEMMA TillImply == TillInv => T!TypeOK /\ T!RefundsAsAsked
<1> SUFFICES ASSUME TillInv PROVE T!TypeOK /\ T!RefundsAsAsked
  OBVIOUS
<1>1. T!TypeOK
  BY DEF TillInv
<1>2. T!NoMoreThanShown
  BY TillThere DEF T!NoMoreThanShown, TillRequestOK
<1>3. ASSUME NEW b \in Browsers, page[b].at = "issued"
      PROVE  LET n == page[b].visit IN
             IF asked[n].full THEN returned.total = T!Claim(n) ELSE asked[n].gave = T!Claim(n)
  <2>1. PICK n \in T!Presses : n = page[b].visit /\ asked[n].pc = "told"
    BY <1>3, TillThere DEF TillPageOK
  <2>2. TillRequestOK(n) /\ asked[n].gave = asked[n].amount /\ asked[n].gave > 0
    BY <2>1, TillThere DEF TillRequestOK
  <2>3. asked[n].full => Back = Price
    BY <2>2 DEF TillRequestOK
  <2> QED BY <2>1, <2>2, <2>3 DEF T!Claim, Back
<1>4. T!ConfirmationTrue
  BY <1>3 DEF T!ConfirmationTrue
<1>5. ASSUME NEW n \in T!Presses, NEW m \in T!Presses,
             n < m, asked[n].visit = asked[m].visit, asked[n].by = asked[m].by,
             asked[n].gave > 0, asked[m].gave > 0
      PROVE  asked[n].pc # "told" /\ ~ (asked[n].full /\ asked[m].full)
  <2>1. TillPairOK(n, m) /\ TillRequestOK(n) /\ TillRequestOK(m)
    BY <1>5, TillThere
  <2>2. asked[n].pc # "none" /\ asked[m].pc # "none"
    BY <1>5, <2>1 DEF TillRequestOK
  <2> QED BY <1>5, <2>1, <2>2 DEF TillPairOK
<1>6. T!OncePerVisit
  BY <1>5 DEF T!OncePerVisit
<1> QED BY <1>1, <1>2, <1>4, <1>6 DEF T!RefundsAsAsked

\* A press gives back no more than its dialog has shown, the confirmation is true,
\* and a visit that was told of its refund makes no second one: for any price and
\* any number of browsers and presses (IssueRefundScreen.tsx and issueRefund()).
THEOREM RefundsRight == T!Spec => [](T!TypeOK /\ T!RefundsAsAsked)
<1>1. TillInv /\ [T!Next]_T!vars => TillInv'
  BY TillNext, TillStutter DEF T!vars, tillVars
<1> QED BY <1>1, TillInit, TillImply, PTL DEF T!Spec
-----------------------------------------------------------------------------
(* The migration: the inductive invariant                                  *)

\* The columns the steps take from a row of a kind, and those they give it.
Taken(k) == CASE k = "payment" -> {"stripePaymentIntentId", "stripeCheckoutSessionId"}
              [] k = "subscription" -> {"stripeSubscriptionId", "stripeCustomerId"}
              [] k = "community" -> {"stripeAccountId"}
              [] k = "event" -> {}
Given(k) == CASE k = "payment" -> {"gateway", "installments"}
              [] k = "subscription" -> {"gateway", "failedAttempts"}
              [] k = "community" -> {}
              [] k = "event" -> {"maxInstallments"}

InDollars(f) == M!Has(f, "currency") /\ f["currency"] = "USD"

\* Whatever step is done with f is done with g.
AsFar(k, f, g) ==
    /\ \A field \in Taken(k) : M!Has(g, field) => M!Has(f, field)
    /\ \A field \in Given(k) : M!Has(f, field) => M!Has(g, field)
    /\ InDollars(g) => InDollars(f)

Values == {"stripe", "default", "counted", "USD", "ILS"}
RowValues(f) == \A field \in DOMAIN f : f[field] \in Values

\* No step of a run finds the row.
RowDone(k, f) == \A i \in 1..12 : ~ M!Concerns(M!Steps[i], k, f)

\* An id is under its old name, or under the new one.
IdOK(i, f) ==
    LET s == M!Steps[i] IN
    \/ M!Has(f, s.field) /\ f[s.field] = "stripe" /\ ~ M!Has(f, s.to)
    \/ runs.wet /\ ~ M!Has(f, s.field) /\ M!Has(f, s.to) /\ f[s.to] = "stripe"

IdsOK == \A i \in had : IdOK(i, oldRows[M!Steps[i].on])

MigrationInv ==
    /\ M!TypeOK /\ IdsOK
    /\ newRows = written
    /\ migration.step > 0 /\ ~ migration.dry => runs.wet
    /\ ~ migration.dry => \A i \in 1..12 : i < migration.step =>
                             \A k \in M!Kinds : ~ M!Concerns(M!Steps[i], k, oldRows[k])
    /\ runs.ended => \A k \in M!Kinds : RowDone(k, oldRows[k])
    /\ \A k \in DOMAIN M!Made : newRows[k] = M!Missing \/ RowDone(k, newRows[k])

LEMMA StepsAre ==
  /\ Len(M!Steps) = 12
  /\ M!Steps[1] = [on |-> "payment", does |-> "rename", field |-> "stripePaymentIntentId", to |-> "gatewayTransactionId"]
  /\ M!Steps[2] = [on |-> "payment", does |-> "rename", field |-> "stripeCheckoutSessionId", to |-> "gatewayPaymentPageId"]
  /\ M!Steps[3] = [on |-> "payment", does |-> "set", field |-> "gateway", to |-> "gateway"]
  /\ M!Steps[4] = [on |-> "payment", does |-> "set", field |-> "installments", to |-> "installments"]
  /\ M!Steps[5] = [on |-> "payment", does |-> "convert", field |-> "currency", to |-> "currency"]
  /\ M!Steps[6] = [on |-> "subscription", does |-> "rename", field |-> "stripeSubscriptionId", to |-> "gatewaySubscriptionId"]
  /\ M!Steps[7] = [on |-> "subscription", does |-> "unset", field |-> "stripeCustomerId", to |-> "stripeCustomerId"]
  /\ M!Steps[8] = [on |-> "subscription", does |-> "set", field |-> "gateway", to |-> "gateway"]
  /\ M!Steps[9] = [on |-> "subscription", does |-> "set", field |-> "failedAttempts", to |-> "failedAttempts"]
  /\ M!Steps[10] = [on |-> "community", does |-> "unset", field |-> "stripeAccountId", to |-> "stripeAccountId"]
  /\ M!Steps[11] = [on |-> "event", does |-> "convert", field |-> "currency", to |-> "currency"]
  /\ M!Steps[12] = [on |-> "event", does |-> "set", field |-> "maxInstallments", to |-> "maxInstallments"]
BY DEF M!Steps, M!Renames, M!FillsIn, M!Converts, M!Drops

LEMMA EachStep ==
  ASSUME NEW i \in 1..12
  PROVE  i = 1 \/ i = 2 \/ i = 3 \/ i = 4 \/ i = 5 \/ i = 6 \/ i = 7 \/ i = 8 \/ i = 9 \/ i = 10 \/ i = 11 \/ i = 12
OBVIOUS

LEMMA IdsAre == M!Ids = {1, 2, 6}
<1>1. \A i : i \in M!Ids <=> i \in 1..12 /\ M!Steps[i].does = "rename"
  BY StepsAre DEF M!Ids
<1>2. ASSUME NEW i \in 1..12 PROVE M!Steps[i].does = "rename" <=> i \in {1, 2, 6}
  BY EachStep, StepsAre
<1> QED BY <1>1, <1>2

\* What a step takes and gives, and that it leaves the others' ids alone.
LEMMA StepOK ==
  ASSUME NEW j \in 1..12
  PROVE  LET s == M!Steps[j] IN
         /\ s.on \in M!Kinds /\ s.does \in {"rename", "unset", "set", "convert"}
         /\ s.does \in {"rename", "unset"} => s.field \in Taken(s.on)
         /\ s.does = "set" => s.field \in Given(s.on) /\ s.field \notin Taken(s.on)
         /\ s.does = "rename" => s.to \notin Taken(s.on) \cup Given(s.on)
         /\ s.does = "convert" <=> s.field = "currency"
         /\ s.to = "currency" => s.field = "currency"
<1> HIDE DEF M!Kinds
<1>1. M!Kinds = {"payment", "subscription", "community", "event"}
  BY DEF M!Kinds
<1>2. /\ Taken("payment") = {"stripePaymentIntentId", "stripeCheckoutSessionId"}
      /\ Taken("subscription") = {"stripeSubscriptionId", "stripeCustomerId"}
      /\ Taken("community") = {"stripeAccountId"} /\ Taken("event") = {}
      /\ Given("payment") = {"gateway", "installments"}
      /\ Given("subscription") = {"gateway", "failedAttempts"}
      /\ Given("community") = {} /\ Given("event") = {"maxInstallments"}
  BY DEF Taken, Given
<1>3. CASE j = 1
  BY StepsAre, <1>1, <1>2, <1>3
<1>4. CASE j = 2
  BY StepsAre, <1>1, <1>2, <1>4
<1>5. CASE j = 3
  BY StepsAre, <1>1, <1>2, <1>5
<1>6. CASE j = 4
  BY StepsAre, <1>1, <1>2, <1>6
<1>7. CASE j = 5
  BY StepsAre, <1>1, <1>2, <1>7
<1>8. CASE j = 6
  BY StepsAre, <1>1, <1>2, <1>8
<1>9. CASE j = 7
  BY StepsAre, <1>1, <1>2, <1>9
<1>10. CASE j = 8
  BY StepsAre, <1>1, <1>2, <1>10
<1>11. CASE j = 9
  BY StepsAre, <1>1, <1>2, <1>11
<1>12. CASE j = 10
  BY StepsAre, <1>1, <1>2, <1>12
<1>13. CASE j = 11
  BY StepsAre, <1>1, <1>2, <1>13
<1>14. CASE j = 12
  BY StepsAre, <1>1, <1>2, <1>14
<1> QED BY EachStep, <1>3, <1>4, <1>5, <1>6, <1>7, <1>8, <1>9, <1>10, <1>11, <1>12, <1>13, <1>14

\* Only the step of an id has its names.
LEMMA StepIds ==
  ASSUME NEW j \in 1..12
  PROVE  LET t == M!Steps[j] IN
         /\ t.field \notin {"gatewayTransactionId", "gatewayPaymentPageId", "gatewaySubscriptionId"}
         /\ t.to \notin {"stripePaymentIntentId", "stripeCheckoutSessionId", "stripeSubscriptionId"}
         /\ t.field = "stripePaymentIntentId" \/ t.to = "gatewayTransactionId" => j = 1
         /\ t.field = "stripeCheckoutSessionId" \/ t.to = "gatewayPaymentPageId" => j = 2
         /\ t.field = "stripeSubscriptionId" \/ t.to = "gatewaySubscriptionId" => j = 6
<1>1. CASE j = 1
  BY StepsAre, <1>1
<1>2. CASE j = 2
  BY StepsAre, <1>2
<1>3. CASE j = 3
  BY StepsAre, <1>3
<1>4. CASE j = 4
  BY StepsAre, <1>4
<1>5. CASE j = 5
  BY StepsAre, <1>5
<1>6. CASE j = 6
  BY StepsAre, <1>6
<1>7. CASE j = 7
  BY StepsAre, <1>7
<1>8. CASE j = 8
  BY StepsAre, <1>8
<1>9. CASE j = 9
  BY StepsAre, <1>9
<1>10. CASE j = 10
  BY StepsAre, <1>10
<1>11. CASE j = 11
  BY StepsAre, <1>11
<1>12. CASE j = 12
  BY StepsAre, <1>12
<1> QED BY EachStep, <1>1, <1>2, <1>3, <1>4, <1>5, <1>6, <1>7, <1>8, <1>9, <1>10, <1>11, <1>12

LEMMA StepsApart ==
  ASSUME NEW i \in {1, 2, 6}, NEW j \in 1..12
  PROVE  LET s == M!Steps[i]
             t == M!Steps[j] IN
         /\ s.on \in M!Kinds /\ s.does = "rename" /\ s.field # s.to
         /\ s.to \notin {"failedAttempts", "currency"} /\ s.field \notin {"failedAttempts", "currency"}
         /\ s.to \notin Given(s.on) /\ s.field \notin Given(s.on)
         /\ t.field # s.to /\ t.to # s.field
         /\ i # j => t.field # s.field /\ t.to # s.to
<1>1. /\ M!Steps[i].on \in {"payment", "subscription"} /\ M!Steps[i].does = "rename"
      /\ M!Steps[i].field \in {"stripePaymentIntentId", "stripeCheckoutSessionId", "stripeSubscriptionId"}
      /\ M!Steps[i].to \in {"gatewayTransactionId", "gatewayPaymentPageId", "gatewaySubscriptionId"}
  BY StepsAre
<1>2. Given("payment") = {"gateway", "installments"} /\ Given("subscription") = {"gateway", "failedAttempts"}
  BY DEF Given
<1>3. M!Steps[j].field # M!Steps[i].to /\ M!Steps[j].to # M!Steps[i].field
  BY <1>1, StepIds
<1>4. i # j => M!Steps[j].field # M!Steps[i].field /\ M!Steps[j].to # M!Steps[i].to
  BY StepsAre, StepIds
<1>5. M!Steps[i].on \in M!Kinds
  BY <1>1 DEF M!Kinds
<1> QED BY <1>1, <1>2, <1>3, <1>4, <1>5

LEMMA AndIs ==
  ASSUME NEW f, NEW g
  PROVE  /\ DOMAIN M!And(f, g) = DOMAIN f \cup DOMAIN g
         /\ \A x \in DOMAIN f : M!And(f, g)[x] = f[x]
         /\ \A x \in DOMAIN g \ DOMAIN f : M!And(f, g)[x] = g[x]
BY DEF M!And, M!Has

LEMMA OnlyIs ==
  ASSUME NEW field, NEW value
  PROVE  DOMAIN M!Only(field, value) = {field} /\ M!Only(field, value)[field] = value
BY DEF M!Only

LEMMA WithoutIs ==
  ASSUME NEW f, NEW field
  PROVE  /\ DOMAIN M!Without(f, field) = DOMAIN f \ {field}
         /\ \A x \in DOMAIN f \ {field} : M!Without(f, field)[x] = f[x]
BY DEF M!Without, M!Restrict

\* Given values are put before the fields of a row.
IsPut(f, field, value, g) ==
    /\ DOMAIN g = DOMAIN f \cup {field} /\ g[field] = value
    /\ \A x \in DOMAIN f \ {field} : g[x] = f[x]

LEMMA PutIs ==
  ASSUME NEW f, NEW field, NEW value
  PROVE  IsPut(f, field, value, M!And(M!Only(field, value), f))
BY DEF M!And, M!Only, M!Has, IsPut

IsUpdated(s, f, g) ==
    /\ s.does = "rename" =>
          /\ DOMAIN g = (DOMAIN f \ {s.field}) \cup {s.to} /\ g[s.to] = f[s.field]
          /\ \A x \in DOMAIN f \ {s.field, s.to} : g[x] = f[x]
    /\ s.does = "unset" => DOMAIN g = DOMAIN f \ {s.field} /\ \A x \in DOMAIN g : g[x] = f[x]
    /\ s.does = "set" => IsPut(f, s.field, "default", g)
    /\ s.does = "convert" => IsPut(f, "currency", "ILS", g)

LEMMA UpdatedIs == ASSUME NEW s, NEW f PROVE IsUpdated(s, f, M!Updated(s, f))
<1>1. PICK g : g = M!Updated(s, f)
  OBVIOUS
<1>2. PICK field, to : field = s.field /\ to = s.to
  OBVIOUS
<1>3. ASSUME s.does = "rename"
      PROVE  /\ DOMAIN g = (DOMAIN f \ {s.field}) \cup {s.to} /\ g[s.to] = f[s.field]
             /\ \A x \in DOMAIN f \ {s.field, s.to} : g[x] = f[x]
  <2>1. PICK h, value : h = M!Without(f, field) /\ value = f[field]
    OBVIOUS
  <2>2. DOMAIN h = DOMAIN f \ {field} /\ \A x \in DOMAIN f \ {field} : h[x] = f[x]
    BY <2>1, WithoutIs
  <2>3. g = M!And(M!Only(to, value), h)
    BY <1>1, <1>2, <1>3, <2>1 DEF M!Updated
  <2>4. IsPut(h, to, value, M!And(M!Only(to, value), h))
    BY PutIs
  <2>5. DOMAIN g = DOMAIN h \cup {to} /\ g[to] = value /\ \A x \in DOMAIN h \ {to} : g[x] = h[x]
    BY <2>3, <2>4 DEF IsPut
  <2> QED BY <1>2, <2>1, <2>2, <2>5
<1>4. ASSUME s.does = "unset"
      PROVE  DOMAIN g = DOMAIN f \ {s.field} /\ \A x \in DOMAIN g : g[x] = f[x]
  <2>1. g = M!Without(f, field)
    BY <1>1, <1>2, <1>4 DEF M!Updated
  <2>2. DOMAIN g = DOMAIN f \ {field} /\ \A x \in DOMAIN f \ {field} : g[x] = f[x]
    BY <2>1, WithoutIs
  <2> QED BY <1>2, <2>2
<1>5. ASSUME s.does = "set" PROVE IsPut(f, s.field, "default", g)
  <2>1. g = M!And(M!Only(field, "default"), f)
    BY <1>1, <1>2, <1>5 DEF M!Updated
  <2>2. IsPut(f, field, "default", M!And(M!Only(field, "default"), f))
    BY PutIs
  <2> QED BY <1>2, <2>1, <2>2
<1>6. ASSUME s.does = "convert" PROVE IsPut(f, "currency", "ILS", g)
  <2>1. g = M!And(M!Only("currency", "ILS"), f)
    BY <1>1, <1>6 DEF M!Updated
  <2>2. IsPut(f, "currency", "ILS", M!And(M!Only("currency", "ILS"), f))
    BY PutIs
  <2> QED BY <2>1, <2>2
<1> QED BY <1>1, <1>3, <1>4, <1>5, <1>6 DEF IsUpdated

\* A step that finds no row of a kind finds none that is as far.
LEMMA AsFarDone ==
  ASSUME NEW k \in M!Kinds, NEW f, NEW g, AsFar(k, f, g),
         NEW i \in 1..12, ~ M!Concerns(M!Steps[i], k, f)
  PROVE  ~ M!Concerns(M!Steps[i], k, g)
<1>1. PICK s : s = M!Steps[i]
  OBVIOUS
<1>2. /\ s.on \in M!Kinds /\ s.does \in {"rename", "unset", "set", "convert"}
      /\ s.does \in {"rename", "unset"} => s.field \in Taken(s.on)
      /\ s.does = "set" => s.field \in Given(s.on) /\ s.field \notin Taken(s.on)
  BY <1>1, StepOK
<1>3. ~ M!Concerns(s, k, f)
  BY <1>1
<1>4. CASE s.on # k
  BY <1>1, <1>4 DEF M!Concerns
<1>5. CASE s.on = k /\ s.does \in {"rename", "unset"}
  BY <1>1, <1>2, <1>3, <1>5 DEF M!Concerns, AsFar
<1>6. CASE s.on = k /\ s.does = "set"
  BY <1>1, <1>2, <1>3, <1>6 DEF M!Concerns, AsFar
<1>7. CASE s.on = k /\ s.does = "convert"
  BY <1>1, <1>2, <1>3, <1>7 DEF M!Concerns, AsFar, InDollars
<1> QED BY <1>2, <1>4, <1>5, <1>6, <1>7

LEMMA GivenApart ==
  ASSUME NEW k \in M!Kinds
  PROVE  Given(k) \cap Taken(k) = {} /\ "currency" \notin Given(k) \cup Taken(k)
BY DEF M!Kinds, Given, Taken

\* A step takes a row on, and changes no other id.
LEMMA UpdatedOK ==
  ASSUME NEW j \in 1..12, NEW k \in M!Kinds, NEW f, M!Concerns(M!Steps[j], k, f), RowValues(f),
         NEW g, g = M!Updated(M!Steps[j], f)
  PROVE  /\ AsFar(k, f, g) /\ RowValues(g)
         /\ \A i \in {1, 2, 6} : M!Steps[i].on = k /\ IdOK(i, f) /\ runs.wet => IdOK(i, g)
<1>1. PICK s : s = M!Steps[j]
  OBVIOUS
<1>2. /\ s.on \in M!Kinds /\ s.does \in {"rename", "unset", "set", "convert"}
      /\ s.does \in {"rename", "unset"} => s.field \in Taken(s.on)
      /\ s.does = "set" => s.field \in Given(s.on) /\ s.field \notin Taken(s.on)
      /\ s.does = "rename" => s.to \notin Taken(s.on) \cup Given(s.on)
      /\ s.does = "convert" <=> s.field = "currency"
      /\ s.to = "currency" => s.field = "currency"
  BY <1>1, StepOK
<1>3. s.on = k /\ M!Concerns(s, k, f)
  BY <1>1 DEF M!Concerns
<1>4. Given(k) \cap Taken(k) = {} /\ "currency" \notin Given(k) \cup Taken(k)
  BY GivenApart
<1>5. /\ s.does = "rename" =>
               /\ DOMAIN g = (DOMAIN f \ {s.field}) \cup {s.to} /\ g[s.to] = f[s.field]
               /\ \A x \in DOMAIN f \ {s.field, s.to} : g[x] = f[x]
      /\ s.does = "unset" => DOMAIN g = DOMAIN f \ {s.field} /\ \A x \in DOMAIN g : g[x] = f[x]
      /\ s.does = "set" => /\ DOMAIN g = DOMAIN f \cup {s.field} /\ g[s.field] = "default"
                           /\ \A x \in DOMAIN f \ {s.field} : g[x] = f[x]
      /\ s.does = "convert" => /\ DOMAIN g = DOMAIN f \cup {"currency"} /\ g["currency"] = "ILS"
                               /\ \A x \in DOMAIN f \ {"currency"} : g[x] = f[x]
  <2>1. IsUpdated(s, f, M!Updated(s, f))
    BY UpdatedIs
  <2>2. IsUpdated(s, f, g)
    BY <1>1, <2>1
  <2> QED BY <2>2 DEF IsUpdated, IsPut
<1>6. s.does \in {"rename", "unset"} => s.field \in DOMAIN f
  BY <1>3 DEF M!Concerns, M!Has
<1>7. AsFar(k, f, g) /\ RowValues(g)
  <2>1. CASE s.does = "rename"
    <3>1. /\ DOMAIN g = (DOMAIN f \ {s.field}) \cup {s.to} /\ g[s.to] = f[s.field]
          /\ \A x \in DOMAIN f \ {s.field, s.to} : g[x] = f[x]
      BY <1>5, <2>1
    <3>2. s.field # "currency" /\ s.to # "currency" /\ s.field \in Taken(k) /\ s.to \notin Taken(k) \cup Given(k)
      BY <1>2, <1>3, <2>1
    <3>3. \A x \in Taken(k) : x \in DOMAIN g => x \in DOMAIN f
      BY <3>1, <3>2
    <3>4. \A x \in Given(k) : x \in DOMAIN f => x \in DOMAIN g
      BY <1>4, <3>1, <3>2
    <3>5. InDollars(g) => InDollars(f)
      BY <3>1, <3>2 DEF InDollars, M!Has
    <3>6. RowValues(g)
      BY <1>6, <2>1, <3>1 DEF RowValues
    <3> QED BY <3>3, <3>4, <3>5, <3>6 DEF AsFar, M!Has
  <2>2. CASE s.does = "unset"
    BY <1>2, <1>3, <1>4, <1>5, <2>2 DEF AsFar, RowValues, M!Has, InDollars
  <2>3. CASE s.does = "set"
    <3>1. /\ DOMAIN g = DOMAIN f \cup {s.field} /\ g[s.field] = "default"
          /\ \A x \in DOMAIN f \ {s.field} : g[x] = f[x]
      BY <1>5, <2>3
    <3>2. s.field # "currency" /\ s.field \notin Taken(k)
      BY <1>2, <1>3, <2>3
    <3>3. AsFar(k, f, g)
      BY <3>1, <3>2 DEF AsFar, M!Has, InDollars
    <3> QED BY <3>1, <3>3 DEF RowValues, Values
  <2>4. CASE s.does = "convert"
    <3>1. /\ DOMAIN g = DOMAIN f \cup {"currency"} /\ g["currency"] = "ILS"
          /\ \A x \in DOMAIN f \ {"currency"} : g[x] = f[x]
      BY <1>5, <2>4
    <3>3. AsFar(k, f, g)
      BY <1>4, <3>1 DEF AsFar, M!Has, InDollars
    <3> QED BY <3>1, <3>3 DEF RowValues, Values
  <2> QED BY <1>2, <2>1, <2>2, <2>3, <2>4
<1>8. ASSUME NEW i \in {1, 2, 6}, M!Steps[i].on = k, IdOK(i, f), runs.wet PROVE IdOK(i, g)
  <2>1. PICK t : t = M!Steps[i]
    OBVIOUS
  <2>2. /\ t.field # t.to /\ t.to # "currency" /\ t.field # "currency"
        /\ s.field # t.to /\ s.to # t.field
        /\ i # j => s.field # t.field /\ s.to # t.to
    BY <1>1, <2>1, StepsApart
  <2>3. \/ t.field \in DOMAIN f /\ f[t.field] = "stripe" /\ t.to \notin DOMAIN f
        \/ t.field \notin DOMAIN f /\ t.to \in DOMAIN f /\ f[t.to] = "stripe"
    BY <1>8, <2>1 DEF IdOK, M!Has
  <2>4. \/ t.field \in DOMAIN g /\ g[t.field] = "stripe" /\ t.to \notin DOMAIN g
        \/ t.field \notin DOMAIN g /\ t.to \in DOMAIN g /\ g[t.to] = "stripe"
    <3>1. CASE i = j
      <4>1. s = t /\ s.does = "rename"
        BY <1>1, <1>8, <2>1, <3>1, StepsApart
      <4> QED BY <1>5, <1>6, <2>2, <2>3, <4>1
    <3>2. CASE i # j /\ s.does = "rename"
      BY <1>5, <1>6, <2>2, <2>3, <3>2
    <3>3. CASE i # j /\ s.does = "unset"
      BY <1>5, <1>6, <2>2, <2>3, <3>3
    <3>4. CASE i # j /\ s.does = "set"
      BY <1>5, <2>2, <2>3, <3>4
    <3>5. CASE i # j /\ s.does = "convert"
      BY <1>5, <2>2, <2>3, <3>5
    <3> QED BY <1>2, <3>1, <3>2, <3>3, <3>4, <3>5
  <2> QED BY <1>8, <2>1, <2>4 DEF IdOK, M!Has
<1> QED BY <1>7, <1>8

LEMMA KindsAre == M!Kinds = {"payment", "subscription", "community", "event"}
BY DEF M!Kinds

LEMMA GivenAre == ASSUME NEW k \in M!Kinds PROVE M!Columns(k, "set") = Given(k)
<1>1. \A x : x \in M!Columns(k, "set") <=> \E i \in 1..12 : M!Steps[i].on = k /\ M!Steps[i].does = "set" /\ x = M!Steps[i].field
  BY StepsAre DEF M!Columns
<1>2. ASSUME NEW x \in M!Columns(k, "set") PROVE x \in Given(k)
  BY <1>1, StepOK
<1>3. ASSUME NEW x \in Given(k) PROVE \E i \in 1..12 : M!Steps[i].on = k /\ M!Steps[i].does = "set" /\ x = M!Steps[i].field
  <2>1. CASE k = "payment"
    <3>1. x = "gateway" \/ x = "installments"
      BY <1>3, <2>1 DEF Given
    <3> QED BY <2>1, <3>1, StepsAre
  <2>2. CASE k = "subscription"
    <3>1. x = "gateway" \/ x = "failedAttempts"
      BY <1>3, <2>2 DEF Given
    <3> QED BY <2>2, <3>1, StepsAre
  <2>3. CASE k = "community"
    BY <1>3, <2>3 DEF Given
  <2>4. CASE k = "event"
    <3>1. x = "maxInstallments"
      BY <1>3, <2>4 DEF Given
    <3> QED BY <2>4, <3>1, StepsAre
  <2> QED BY <2>1, <2>2, <2>3, <2>4, KindsAre
<1> QED BY <1>1, <1>2, <1>3

\* A row that the server saves gets the columns it lacks.
LEMMA SavedIs ==
  ASSUME NEW k \in M!Kinds, NEW f
  PROVE  /\ DOMAIN M!Saved(k, f) = DOMAIN f \cup Given(k)
         /\ \A x \in DOMAIN f : M!Saved(k, f)[x] = f[x]
         /\ \A x \in Given(k) \ DOMAIN f : M!Saved(k, f)[x] = "default"
<1>1. PICK columns : columns = M!Columns(k, "set")
  OBVIOUS
<1>2. columns = Given(k)
  BY <1>1, GivenAre
<1>3. PICK d : d = [field \in columns |-> "default"]
  OBVIOUS
<1>4. DOMAIN d = Given(k) /\ \A x \in Given(k) : d[x] = "default"
  BY <1>2, <1>3
<1>5. M!Saved(k, f) = M!And(f, d)
  BY <1>1, <1>3 DEF M!Saved
<1>6. /\ DOMAIN M!And(f, d) = DOMAIN f \cup DOMAIN d
      /\ \A x \in DOMAIN f : M!And(f, d)[x] = f[x]
      /\ \A x \in DOMAIN d \ DOMAIN f : M!And(f, d)[x] = d[x]
  BY DEF M!And, M!Has
<1> QED BY <1>4, <1>5, <1>6

LEMMA SavedOK ==
  ASSUME NEW k \in M!Kinds, NEW f, RowValues(f), NEW g, g = M!Saved(k, f)
  PROVE  /\ AsFar(k, f, g) /\ RowValues(g)
         /\ \A i \in {1, 2, 6} : M!Steps[i].on = k /\ IdOK(i, f) => IdOK(i, g)
<1>1. /\ DOMAIN g = DOMAIN f \cup Given(k) /\ \A x \in DOMAIN f : g[x] = f[x]
      /\ \A x \in Given(k) \ DOMAIN f : g[x] = "default"
  BY SavedIs
<1>2. Given(k) \cap Taken(k) = {} /\ "currency" \notin Given(k) \cup Taken(k)
  BY GivenApart
<1>3. AsFar(k, f, g)
  BY <1>1, <1>2 DEF AsFar, M!Has, InDollars
<1>4. RowValues(g)
  BY <1>1 DEF RowValues, Values
<1>5. ASSUME NEW i \in {1, 2, 6}, M!Steps[i].on = k, IdOK(i, f) PROVE IdOK(i, g)
  <2>1. M!Steps[i].to \notin Given(k) /\ M!Steps[i].field \notin Given(k)
    BY <1>5, StepsApart
  <2> QED BY <1>1, <1>5, <2>1 DEF IdOK, M!Has
<1> QED BY <1>3, <1>4, <1>5

LEMMA CountedOK ==
  ASSUME NEW f, RowValues(f), M!Has(f, "failedAttempts"), NEW g, g = [f EXCEPT !["failedAttempts"] = "counted"]
  PROVE  /\ AsFar("subscription", f, g) /\ RowValues(g)
         /\ \A i \in {1, 2, 6} : IdOK(i, f) => IdOK(i, g)
<1>1. /\ DOMAIN g = DOMAIN f /\ g["failedAttempts"] = "counted"
      /\ \A x \in DOMAIN f : x # "failedAttempts" => g[x] = f[x]
  BY DEF M!Has
<1>2. AsFar("subscription", f, g)
  BY <1>1 DEF AsFar, M!Has, InDollars
<1>3. RowValues(g)
  BY <1>1 DEF RowValues, Values
<1>4. ASSUME NEW i \in {1, 2, 6}, IdOK(i, f) PROVE IdOK(i, g)
  <2>1. M!Steps[i].to # "failedAttempts" /\ M!Steps[i].field # "failedAttempts"
    BY StepsApart
  <2> QED BY <1>1, <1>4, <2>1 DEF IdOK, M!Has
<1> QED BY <1>2, <1>3, <1>4

\* Rows the server makes are as the steps would leave them.
LEMMA DoneIf ==
  ASSUME NEW k \in M!Kinds, NEW f, Taken(k) \cap DOMAIN f = {}, Given(k) \subseteq DOMAIN f, ~ InDollars(f)
  PROVE  RowDone(k, f)
<1> SUFFICES ASSUME NEW i \in 1..12, M!Concerns(M!Steps[i], k, f) PROVE FALSE
  BY DEF RowDone
<1>1. PICK s : s = M!Steps[i]
  OBVIOUS
<1>2. /\ s.does \in {"rename", "unset", "set", "convert"}
      /\ s.does \in {"rename", "unset"} => s.field \in Taken(s.on)
      /\ s.does = "set" => s.field \in Given(s.on)
  BY <1>1, StepOK
<1>3. s.on = k /\ M!Concerns(s, k, f)
  BY <1>1 DEF M!Concerns
<1>4. CASE s.does \in {"rename", "unset"}
  BY <1>2, <1>3, <1>4 DEF M!Concerns, M!Has
<1>5. CASE s.does = "set"
  BY <1>2, <1>3, <1>5 DEF M!Concerns, M!Has
<1>6. CASE s.does = "convert"
  BY <1>3, <1>6 DEF M!Concerns, InDollars
<1> QED BY <1>2, <1>4, <1>5, <1>6

LEMMA MadeAre ==
  /\ DOMAIN M!Made = {"payment", "subscription"}
  /\ \A k \in DOMAIN M!Made : k \in M!Kinds /\ RowDone(k, M!And(M!Made[k], M!Missing))
<1>1. DOMAIN M!Made = {"payment", "subscription"}
  BY DEF M!Made
<1>2. ASSUME NEW k \in {"payment", "subscription"} PROVE k \in M!Kinds /\ RowDone(k, M!And(M!Made[k], M!Missing))
  <2>1. k \in M!Kinds
    BY KindsAre
  <2>2. PICK base : base = IF k = "payment" THEN M!Only("currency", "ILS") ELSE M!Missing
    OBVIOUS
  <2>3. DOMAIN base \subseteq {"currency"} /\ ("currency" \in DOMAIN base => base["currency"] = "ILS")
    BY <2>2 DEF M!Only, M!Missing
  <2>4. PICK f : f = M!Saved(k, base)
    OBVIOUS
  <2>5. M!Made[k] = f
    BY <2>2, <2>4 DEF M!Made
  <2>6. /\ DOMAIN f = DOMAIN base \cup Given(k) /\ \A x \in DOMAIN base : f[x] = base[x]
        /\ \A x \in Given(k) \ DOMAIN base : f[x] = "default"
    <3>1. /\ DOMAIN M!Saved(k, base) = DOMAIN base \cup Given(k)
          /\ \A x \in DOMAIN base : M!Saved(k, base)[x] = base[x]
          /\ \A x \in Given(k) \ DOMAIN base : M!Saved(k, base)[x] = "default"
      BY <2>1, SavedIs
    <3> QED BY <2>4, <3>1
  <2>7. PICK g : g = M!And(f, M!Missing)
    OBVIOUS
  <2>8. DOMAIN g = DOMAIN f /\ \A x \in DOMAIN f : g[x] = f[x]
    BY <2>7 DEF M!And, M!Has, M!Missing
  <2>9. Given(k) \cap Taken(k) = {} /\ "currency" \notin Given(k) \cup Taken(k)
    BY <2>1, GivenApart
  <2>10. Taken(k) \cap DOMAIN g = {} /\ Given(k) \subseteq DOMAIN g
    BY <2>3, <2>6, <2>8, <2>9
  <2>11. ~ InDollars(g)
    BY <2>3, <2>6, <2>8, <2>9 DEF InDollars, M!Has
  <2>12. RowDone(k, g)
    BY <2>1, <2>10, <2>11, DoneIf
  <2> QED BY <2>1, <2>5, <2>7, <2>12
<1> QED BY <1>1, <1>2

LEMMA SettledOK ==
  ASSUME NEW i \in {1, 2, 6}, NEW k, k = M!Steps[i].on, NEW f, RowDone(k, f)
  PROVE  RowDone(k, M!And(M!Only(M!Steps[i].to, "payplus"), f))
<1>1. PICK to : to = M!Steps[i].to
  OBVIOUS
<1>2. k \in M!Kinds /\ to # "currency" /\ to \notin Taken(k)
  <2>1. M!Steps[i].on \in M!Kinds /\ M!Steps[i].does = "rename" /\ M!Steps[i].to \notin {"failedAttempts", "currency"}
    BY StepsApart
  <2>2. i \in 1..12
    OBVIOUS
  <2>3. M!Steps[i].to \notin Taken(M!Steps[i].on) \cup Given(M!Steps[i].on)
    BY <2>1, <2>2, StepOK
  <2> QED BY <1>1, <2>1, <2>3
<1>3. PICK g : g = M!And(M!Only(to, "payplus"), f)
  OBVIOUS
<1>4. DOMAIN g = DOMAIN f \cup {to} /\ \A x \in DOMAIN f \ {to} : g[x] = f[x]
  <2>1. IsPut(f, to, "payplus", M!And(M!Only(to, "payplus"), f))
    BY PutIs
  <2> QED BY <1>3, <2>1 DEF IsPut
<1>5. AsFar(k, f, g)
  BY <1>2, <1>4 DEF AsFar, M!Has, InDollars
<1>6. \A j \in 1..12 : ~ M!Concerns(M!Steps[j], k, g)
  BY <1>2, <1>5, AsFarDone DEF RowDone
<1> QED BY <1>1, <1>3, <1>6 DEF RowDone

LEMMA MigrationInit == M!Init => MigrationInv
<1> SUFFICES ASSUME M!Init PROVE MigrationInv
  OBVIOUS
<1>1. PICK settled \in BOOLEAN : oldRows = [kind \in M!Kinds |-> M!OfStripe(kind, settled)]
  BY DEF M!Init
<1>2. /\ had = {i \in M!Ids : M!Has(oldRows[M!Steps[i].on], M!Steps[i].field)}
      /\ newRows = [k \in DOMAIN M!Made |-> M!Missing] /\ written = newRows
      /\ migration = [step |-> 0, dry |-> FALSE]
      /\ runs = [begun |-> 0, wet |-> FALSE, ended |-> FALSE]
  BY DEF M!Init
<1>3. MaxRuns \in Nat
  BY PartsAssumption
<1>4. DOMAIN oldRows = M!Kinds /\ \A k \in M!Kinds : oldRows[k] = M!OfStripe(k, settled)
  BY <1>1
<1>5. /\ DOMAIN oldRows["payment"] \subseteq {"currency", "stripeCheckoutSessionId", "stripePaymentIntentId"}
      /\ \A x \in DOMAIN oldRows["payment"] : oldRows["payment"][x] = IF x = "currency" THEN "USD" ELSE "stripe"
  BY <1>4, KindsAre DEF M!OfStripe
<1>6. /\ DOMAIN oldRows["subscription"] \subseteq {"stripeCustomerId", "stripeSubscriptionId"}
      /\ \A x \in DOMAIN oldRows["subscription"] : oldRows["subscription"][x] = "stripe"
  BY <1>4, KindsAre DEF M!OfStripe
<1>7. /\ \A x \in DOMAIN oldRows["community"] : oldRows["community"][x] = "stripe"
      /\ \A x \in DOMAIN oldRows["event"] : oldRows["event"][x] = "USD"
  BY <1>4, KindsAre DEF M!OfStripe, M!Only
<1>8. \A k \in M!Kinds : RowValues(oldRows[k])
  BY <1>5, <1>6, <1>7, KindsAre DEF RowValues, Values
<1>9. M!TypeOK
  <2>1. DOMAIN newRows = DOMAIN M!Made /\ DOMAIN written = DOMAIN M!Made
    BY <1>2
  <2>2. migration \in [step : 0..Len(M!Steps) + 1, dry : BOOLEAN]
    BY <1>2, StepsAre
  <2>3. runs \in [begun : 0..MaxRuns, wet : BOOLEAN, ended : BOOLEAN]
    BY <1>2, <1>3
  <2>4. had \in SUBSET M!Ids
    BY <1>2
  <2>5. \A k \in M!Kinds : \A field \in DOMAIN oldRows[k] : oldRows[k][field] \in {"stripe", "default", "counted", "USD", "ILS"}
    BY <1>8 DEF RowValues, Values
  <2> QED BY <1>4, <2>1, <2>2, <2>3, <2>4, <2>5 DEF M!TypeOK
<1>10. ASSUME NEW i \in had PROVE IdOK(i, oldRows[M!Steps[i].on])
  <2>1. i \in {1, 2, 6} /\ M!Steps[i].field \in DOMAIN oldRows[M!Steps[i].on]
    BY <1>2, IdsAre DEF M!Has
  <2>2. CASE i \in {1, 2}
    <3>1. M!Steps[i].on = "payment" /\ M!Steps[i].field # "currency" /\ M!Steps[i].to \in {"gatewayTransactionId", "gatewayPaymentPageId"}
      BY <2>2, StepsAre
    <3> QED BY <1>5, <2>1, <3>1 DEF IdOK, M!Has
  <2>3. CASE i = 6
    <3>1. M!Steps[i].on = "subscription" /\ M!Steps[i].to = "gatewaySubscriptionId"
      BY <2>3, StepsAre
    <3> QED BY <1>6, <2>1, <3>1 DEF IdOK, M!Has
  <2> QED BY <2>1, <2>2, <2>3
<1>11. \A k \in DOMAIN M!Made : newRows[k] = M!Missing
  BY <1>2
<1>12. migration.step = 0 /\ ~ runs.ended
  BY <1>2
<1>13. ~ migration.dry => \A i \in 1..12 : i < migration.step =>
                            \A k \in M!Kinds : ~ M!Concerns(M!Steps[i], k, oldRows[k])
  BY <1>12
<1> QED BY <1>2, <1>9, <1>10, <1>11, <1>12, <1>13 DEF MigrationInv, IdsOK

\* What the invariant says, typed.
LEMMA MigrationThere ==
  ASSUME MigrationInv
  PROVE  /\ DOMAIN oldRows = M!Kinds /\ \A k \in M!Kinds : RowValues(oldRows[k])
         /\ DOMAIN newRows = {"payment", "subscription"} /\ newRows = written
         /\ migration \in [step : 0..13, dry : BOOLEAN]
         /\ runs \in [begun : 0..MaxRuns, wet : BOOLEAN, ended : BOOLEAN]
         /\ had \subseteq {1, 2, 6} /\ \A i \in had : IdOK(i, oldRows[M!Steps[i].on])
         /\ migration.step > 0 /\ ~ migration.dry => runs.wet
         /\ \A i \in 1..12 : i < migration.step /\ ~ migration.dry =>
               \A k \in M!Kinds : ~ M!Concerns(M!Steps[i], k, oldRows[k])
         /\ runs.ended => \A k \in M!Kinds : RowDone(k, oldRows[k])
         /\ \A k \in {"payment", "subscription"} : newRows[k] = M!Missing \/ RowDone(k, newRows[k])
<1>1. M!TypeOK
  BY DEF MigrationInv
<1>2. /\ DOMAIN oldRows = M!Kinds /\ DOMAIN newRows = {"payment", "subscription"}
      /\ migration \in [step : 0..13, dry : BOOLEAN]
      /\ runs \in [begun : 0..MaxRuns, wet : BOOLEAN, ended : BOOLEAN]
      /\ had \subseteq {1, 2, 6}
  BY <1>1, StepsAre, MadeAre, IdsAre DEF M!TypeOK
<1>3. \A k \in M!Kinds : RowValues(oldRows[k])
  BY <1>1 DEF M!TypeOK, RowValues, Values
<1>4. \A k \in {"payment", "subscription"} : newRows[k] = M!Missing \/ RowDone(k, newRows[k])
  BY MadeAre DEF MigrationInv
<1> QED BY <1>2, <1>3, <1>4 DEF MigrationInv, IdsOK

\* A step on an old row, of the migration or of the server.
LEMMA OldRowOK ==
  ASSUME MigrationInv, NEW k \in M!Kinds, NEW g, oldRows' = [oldRows EXCEPT ![k] = g],
         AsFar(k, oldRows[k], g), RowValues(g),
         \A i \in {1, 2, 6} : M!Steps[i].on = k /\ IdOK(i, oldRows[k]) => IdOK(i, g),
         newRows' = newRows, written' = written, migration' = migration, runs' = runs, had' = had
  PROVE  MigrationInv'
<1>1. DOMAIN oldRows' = M!Kinds /\ oldRows'[k] = g /\ \A x \in M!Kinds \ {k} : oldRows'[x] = oldRows[x]
  BY MigrationThere
<1>2. \A x \in M!Kinds : RowValues(oldRows'[x])
  BY <1>1, MigrationThere
<1>3. M!TypeOK'
  <2>1. M!TypeOK
    BY DEF MigrationInv
  <2>2. \A x \in M!Kinds : \A field \in DOMAIN oldRows'[x] : oldRows'[x][field] \in {"stripe", "default", "counted", "USD", "ILS"}
    BY <1>2 DEF RowValues, Values
  <2> QED BY <1>1, <2>1, <2>2 DEF M!TypeOK
<1>4. IdsOK'
  <2> SUFFICES ASSUME NEW i \in had PROVE IdOK(i, oldRows[M!Steps[i].on])'
    BY DEF IdsOK
  <2>1. i \in {1, 2, 6} /\ IdOK(i, oldRows[M!Steps[i].on]) /\ M!Steps[i].on \in M!Kinds
    BY MigrationThere, StepsApart
  <2>2. PICK f : f = oldRows'[M!Steps[i].on]
    OBVIOUS
  <2>3. IdOK(i, f)
    <3>1. CASE M!Steps[i].on = k
      BY <1>1, <2>1, <2>2, <3>1
    <3>2. CASE M!Steps[i].on # k
      BY <1>1, <2>1, <2>2, <3>2
    <3> QED BY <3>1, <3>2
  <2> QED BY <2>2, <2>3 DEF IdOK
<1>5. ASSUME NEW i \in 1..12, NEW x \in M!Kinds, ~ M!Concerns(M!Steps[i], x, oldRows[x])
      PROVE  ~ M!Concerns(M!Steps[i], x, oldRows'[x])
  <2>1. CASE x = k
    <3>1. ~ M!Concerns(M!Steps[i], k, g)
      BY <1>5, <2>1, AsFarDone
    <3> QED BY <1>1, <2>1, <3>1
  <2>2. CASE x # k
    BY <1>1, <1>5, <2>2
  <2> QED BY <2>1, <2>2
<1>6. ASSUME NEW i \in 1..12, i < migration.step, ~ migration.dry, NEW x \in M!Kinds
      PROVE  ~ M!Concerns(M!Steps[i], x, oldRows'[x])
  BY <1>5, <1>6, MigrationThere
<1>7. ASSUME runs.ended, NEW x \in M!Kinds PROVE RowDone(x, oldRows'[x])
  BY <1>5, <1>7, MigrationThere DEF RowDone
<1>8. /\ newRows' = written' /\ (migration'.step > 0 /\ ~ migration'.dry => runs'.wet)
      /\ \A x \in DOMAIN M!Made : newRows'[x] = M!Missing \/ RowDone(x, newRows'[x])
  BY DEF MigrationInv
<1> QED BY <1>3, <1>4, <1>6, <1>7, <1>8 DEF MigrationInv

\* The server writes to a row of its own.
LEMMA NewRowOK ==
  ASSUME MigrationInv, NEW k \in {"payment", "subscription"}, NEW f, M!Write(k, f),
         RowDone(k, M!And(f, newRows[k]))
  PROVE  MigrationInv'
<1>1. PICK g : g = M!And(f, newRows[k])
  OBVIOUS
<1>2. /\ newRows' = [newRows EXCEPT ![k] = g] /\ written' = [written EXCEPT ![k] = g]
      /\ oldRows' = oldRows /\ migration' = migration /\ runs' = runs /\ had' = had
  BY <1>1, MigrationThere DEF M!Write
<1>3. /\ newRows' = written' /\ DOMAIN newRows' = {"payment", "subscription"} /\ newRows'[k] = g
      /\ \A x \in {"payment", "subscription"} \ {k} : newRows'[x] = newRows[x]
  BY <1>2, MigrationThere
<1>4. M!TypeOK'
  <2>1. M!TypeOK /\ DOMAIN newRows' = DOMAIN M!Made /\ DOMAIN written' = DOMAIN M!Made
    BY <1>3, MadeAre DEF MigrationInv
  <2> QED BY <1>2, <2>1 DEF M!TypeOK
<1>5. \A x \in DOMAIN M!Made : newRows'[x] = M!Missing \/ RowDone(x, newRows'[x])
  BY <1>1, <1>3, MigrationThere, MadeAre
<1> QED BY <1>2, <1>3, <1>4, <1>5 DEF MigrationInv, IdsOK, IdOK

\* A step of the run itself, which changes no row.
LEMMA RunOK ==
  ASSUME MigrationInv, M!Begin(TRUE) \/ M!Begin(FALSE) \/ M!GoOn \/ M!End \/ M!Crash
  PROVE  MigrationInv'
<1>1. oldRows' = oldRows /\ newRows' = newRows /\ written' = written /\ had' = had
  BY DEF M!Begin, M!GoOn, M!End, M!Crash
<1>2. /\ migration \in [step : 0..13, dry : BOOLEAN] /\ runs \in [begun : 0..MaxRuns, wet : BOOLEAN, ended : BOOLEAN]
      /\ (migration.step > 0 /\ ~ migration.dry => runs.wet) /\ MaxRuns \in Nat
  BY MigrationThere, PartsAssumption
<1>3. /\ migration' \in [step : 0..13, dry : BOOLEAN] /\ runs' \in [begun : 0..MaxRuns, wet : BOOLEAN, ended : BOOLEAN]
      /\ (runs.wet => runs'.wet) /\ (migration'.step > 0 /\ ~ migration'.dry => runs'.wet)
      /\ \A i \in 1..12 : i < migration'.step /\ ~ migration'.dry =>
            \A k \in M!Kinds : ~ M!Concerns(M!Steps[i], k, oldRows[k])
      /\ runs'.ended => \A k \in M!Kinds : RowDone(k, oldRows[k])
  <2>1. ASSUME NEW dry \in BOOLEAN, M!Begin(dry)
        PROVE  /\ migration' \in [step : 0..13, dry : BOOLEAN] /\ runs' \in [begun : 0..MaxRuns, wet : BOOLEAN, ended : BOOLEAN]
               /\ (runs.wet => runs'.wet) /\ (migration'.step > 0 /\ ~ migration'.dry => runs'.wet)
               /\ migration'.step = 1 /\ (runs'.ended <=> runs.ended)
    <3>1. /\ migration' = [step |-> 1, dry |-> dry] /\ runs.begun < MaxRuns
      BY <2>1 DEF M!Begin
    <3>2. PICK wet \in BOOLEAN : wet <=> runs.wet \/ ~ dry
      OBVIOUS
    <3>3. runs' = [runs EXCEPT !.begun = runs.begun + 1, !.wet = runs.wet \/ ~ dry]
      BY <2>1 DEF M!Begin
    <3>4. (runs.wet \/ ~ dry) = wet
      BY <3>2
    <3>5. runs' = [runs EXCEPT !.begun = runs.begun + 1, !.wet = wet]
      BY <3>3, <3>4, Zenon
    <3>6. /\ runs' \in [begun : 0..MaxRuns, wet : BOOLEAN, ended : BOOLEAN]
          /\ (runs'.wet <=> wet) /\ (runs'.ended <=> runs.ended)
      <4>1. runs.begun \in 0..MaxRuns
        BY <1>2
      <4>2. PICK b \in 0..MaxRuns : b = runs.begun + 1
        BY <1>2, <3>1, <4>1
      <4>3. runs' = [runs EXCEPT !.begun = b, !.wet = wet]
        BY <3>5, <4>2
      <4> QED BY <1>2, <4>3
    <3>7. migration' \in [step : 0..13, dry : BOOLEAN] /\ migration'.step = 1 /\ (migration'.dry <=> dry)
      BY <3>1
    <3> QED BY <3>2, <3>6, <3>7
  <2>2. CASE M!Begin(TRUE) \/ M!Begin(FALSE)
    <3>1. /\ migration' \in [step : 0..13, dry : BOOLEAN] /\ runs' \in [begun : 0..MaxRuns, wet : BOOLEAN, ended : BOOLEAN]
          /\ (runs.wet => runs'.wet) /\ (migration'.step > 0 /\ ~ migration'.dry => runs'.wet)
          /\ migration'.step = 1 /\ (runs'.ended <=> runs.ended)
      BY <2>1, <2>2
    <3> QED BY <3>1, MigrationThere
  <2>3. CASE M!GoOn
    <3>1. PICK j : j = migration.step
      OBVIOUS
    <3>2. /\ j \in 1..12 /\ runs' = runs /\ migration' = [migration EXCEPT !.step = j + 1]
          /\ (migration.dry \/ ~ M!Concerns(M!Steps[j], M!Steps[j].on, oldRows[M!Steps[j].on]))
      BY <2>3, <3>1, StepsAre DEF M!GoOn, M!Now
    <3>3. /\ migration' \in [step : 0..13, dry : BOOLEAN] /\ migration'.step = j + 1
          /\ (migration'.dry <=> migration.dry)
      BY <1>2, <3>2
    <3>4. ASSUME ~ migration.dry, NEW k \in M!Kinds PROVE ~ M!Concerns(M!Steps[j], k, oldRows[k])
      <4>1. CASE M!Steps[j].on = k
        BY <3>2, <3>4, <4>1
      <4>2. CASE M!Steps[j].on # k
        BY <4>2 DEF M!Concerns
      <4> QED BY <4>1, <4>2
    <3>5. ASSUME NEW i \in 1..12, i < migration'.step, ~ migration'.dry, NEW k \in M!Kinds
          PROVE  ~ M!Concerns(M!Steps[i], k, oldRows[k])
      <4>1. CASE i = j
        BY <3>3, <3>4, <3>5, <4>1
      <4>2. CASE i # j
        <5>1. i < migration.step /\ ~ migration.dry
          BY <3>1, <3>2, <3>3, <3>5, <4>2
        <5> QED BY <5>1, <3>5, MigrationThere
      <4> QED BY <4>1, <4>2
    <3>6. migration.step > 0
      BY <3>1, <3>2
    <3> QED BY <1>2, <3>2, <3>3, <3>5, <3>6, MigrationThere
  <2>4. CASE M!End
    <3>1. /\ migration.step = 13 /\ migration' = [migration EXCEPT !.step = 0]
          /\ runs' = [runs EXCEPT !.ended = runs.ended \/ ~ migration.dry]
      BY <2>4, StepsAre DEF M!End
    <3>2. PICK ended \in BOOLEAN : ended <=> runs.ended \/ ~ migration.dry
      OBVIOUS
    <3>3. (runs.ended \/ ~ migration.dry) = ended
      BY <3>2
    <3>4. runs' = [runs EXCEPT !.ended = ended]
      BY <3>1, <3>3, Zenon
    <3>5. /\ runs' \in [begun : 0..MaxRuns, wet : BOOLEAN, ended : BOOLEAN]
          /\ (runs'.wet <=> runs.wet) /\ (runs'.ended <=> ended)
      BY <1>2, <3>4
    <3>6. migration' \in [step : 0..13, dry : BOOLEAN] /\ migration'.step = 0
      BY <1>2, <3>1
    <3>7. ASSUME ~ migration.dry, NEW k \in M!Kinds PROVE RowDone(k, oldRows[k])
      BY <3>1, <3>7, MigrationThere DEF RowDone
    <3> QED BY <3>2, <3>5, <3>6, <3>7, MigrationThere
  <2>5. CASE M!Crash
    <3>1. runs' = runs /\ migration' = [migration EXCEPT !.step = 0]
      BY <2>5 DEF M!Crash
    <3>2. migration' \in [step : 0..13, dry : BOOLEAN] /\ migration'.step = 0
      BY <1>2, <3>1
    <3> QED BY <1>2, <3>1, <3>2, MigrationThere
  <2> QED BY <2>2, <2>3, <2>4, <2>5
<1>4. M!TypeOK'
  <2>1. M!TypeOK
    BY DEF MigrationInv
  <2> QED BY <1>1, <1>3, <2>1, StepsAre DEF M!TypeOK
<1>5. IdsOK'
  BY <1>1, <1>3, MigrationThere DEF IdsOK, IdOK
<1>6. newRows' = written' /\ \A x \in DOMAIN M!Made : newRows'[x] = M!Missing \/ RowDone(x, newRows'[x])
  BY <1>1 DEF MigrationInv
<1> QED BY <1>1, <1>3, <1>4, <1>5, <1>6 DEF MigrationInv

LEMMA UpdateOK == ASSUME MigrationInv, M!Update PROVE MigrationInv'
<1>1. PICK j, s : j = migration.step /\ s = M!Steps[j]
  OBVIOUS
<1>2. /\ j \in 1..12 /\ ~ migration.dry /\ s = M!Now /\ runs.wet
  <2>1. j \in 1..12 /\ ~ migration.dry /\ s = M!Now
    BY <1>1, StepsAre DEF M!Update, M!Now
  <2> QED BY <1>1, <2>1, MigrationThere
<1>3. PICK k : k = s.on
  OBVIOUS
<1>4. k \in M!Kinds
  BY <1>1, <1>2, <1>3, StepOK
<1>5. migration' = migration /\ runs' = runs /\ had' = had /\ written' = written
  BY DEF M!Update
<1>6. CASE M!Concerns(s, k, oldRows[k]) /\ oldRows' = [oldRows EXCEPT ![k] = M!Updated(s, oldRows[k])] /\ newRows' = newRows
  <2>1. PICK f, g : f = oldRows[k] /\ g = M!Updated(M!Steps[j], f)
    OBVIOUS
  <2>2. M!Concerns(M!Steps[j], k, f) /\ RowValues(f)
    BY <1>1, <1>4, <1>6, <2>1, MigrationThere
  <2>3. /\ AsFar(k, f, g) /\ RowValues(g)
        /\ \A i \in {1, 2, 6} : M!Steps[i].on = k /\ IdOK(i, f) /\ runs.wet => IdOK(i, g)
    BY <1>2, <1>4, <2>1, <2>2, UpdatedOK
  <2>4. oldRows' = [oldRows EXCEPT ![k] = g]
    BY <1>1, <1>6, <2>1
  <2>5. /\ AsFar(k, oldRows[k], g)
        /\ \A i \in {1, 2, 6} : M!Steps[i].on = k /\ IdOK(i, oldRows[k]) => IdOK(i, g)
    BY <1>2, <2>1, <2>3
  <2> QED BY <1>4, <1>5, <1>6, <2>3, <2>4, <2>5, OldRowOK
<1>7. CASE k \in DOMAIN M!Made /\ newRows[k] # M!Missing /\ M!Concerns(s, k, newRows[k])
  <2>1. RowDone(k, newRows[k])
    BY <1>7, MigrationThere, MadeAre
  <2> QED BY <1>1, <1>2, <1>7, <2>1 DEF RowDone
<1> QED BY <1>1, <1>2, <1>3, <1>6, <1>7 DEF M!Update

LEMMA ServerOK ==
  ASSUME MigrationInv,
         \/ \E kind \in DOMAIN M!Made : M!MakeRow(kind) \/ M!Settle(kind)
         \/ \E kind \in M!Kinds : M!Save(kind)
         \/ M!CountFailure
  PROVE  MigrationInv'
<1>1. ASSUME NEW k \in DOMAIN M!Made, M!MakeRow(k) PROVE MigrationInv'
  <2>1. k \in {"payment", "subscription"} /\ newRows[k] = M!Missing /\ M!Write(k, M!Made[k])
    BY <1>1, MadeAre DEF M!MakeRow
  <2>2. RowDone(k, M!And(M!Made[k], newRows[k]))
    BY <2>1, MadeAre
  <2> QED BY <2>1, <2>2, NewRowOK
<1>2. ASSUME NEW k \in DOMAIN M!Made, M!Settle(k) PROVE MigrationInv'
  <2>1. PICK i \in {1, 2, 6} : M!Steps[i].on = k /\ M!Write(k, M!Only(M!Steps[i].to, "payplus"))
    BY <1>2, IdsAre DEF M!Settle
  <2>2. k \in {"payment", "subscription"} /\ RowDone(k, newRows[k])
    BY <1>2, MigrationThere, MadeAre DEF M!Settle
  <2>3. PICK f : f = newRows[k]
    OBVIOUS
  <2>4. RowDone(k, M!And(M!Only(M!Steps[i].to, "payplus"), f))
    BY <2>1, <2>2, <2>3, SettledOK
  <2>5. PICK h : h = M!Only(M!Steps[i].to, "payplus")
    OBVIOUS
  <2>6. M!Write(k, h) /\ RowDone(k, M!And(h, newRows[k]))
    BY <2>1, <2>3, <2>4, <2>5
  <2> QED BY <2>2, <2>6, NewRowOK
<1>3. ASSUME NEW k \in M!Kinds, M!Save(k) PROVE MigrationInv'
  <2>1. PICK f, g : f = oldRows[k] /\ g = M!Saved(k, f)
    OBVIOUS
  <2>2. /\ oldRows' = [oldRows EXCEPT ![k] = g]
        /\ newRows' = newRows /\ written' = written /\ migration' = migration /\ runs' = runs /\ had' = had
    BY <1>3, <2>1, MigrationThere DEF M!Save
  <2>3. RowValues(f)
    BY <2>1, MigrationThere
  <2>4. /\ AsFar(k, f, g) /\ RowValues(g)
        /\ \A i \in {1, 2, 6} : M!Steps[i].on = k /\ IdOK(i, f) => IdOK(i, g)
    BY <2>1, <2>3, SavedOK
  <2>5. /\ AsFar(k, oldRows[k], g)
        /\ \A i \in {1, 2, 6} : M!Steps[i].on = k /\ IdOK(i, oldRows[k]) => IdOK(i, g)
    BY <2>1, <2>4
  <2> QED BY <2>2, <2>4, <2>5, OldRowOK
<1>4. CASE M!CountFailure
  <2>1. PICK k, f, g : k = "subscription" /\ f = oldRows["subscription"] /\ g = [f EXCEPT !["failedAttempts"] = "counted"]
    OBVIOUS
  <2>2. /\ M!Has(f, "failedAttempts") /\ oldRows' = [oldRows EXCEPT ![k] = g]
        /\ newRows' = newRows /\ written' = written /\ migration' = migration /\ runs' = runs /\ had' = had
    BY <1>4, <2>1, MigrationThere DEF M!CountFailure
  <2>3. RowValues(f) /\ k \in M!Kinds
    BY <2>1, MigrationThere, KindsAre
  <2>4. /\ AsFar(k, f, g) /\ RowValues(g)
        /\ \A i \in {1, 2, 6} : IdOK(i, f) => IdOK(i, g)
    BY <2>1, <2>2, <2>3, CountedOK
  <2>5. /\ AsFar(k, oldRows[k], g)
        /\ \A i \in {1, 2, 6} : M!Steps[i].on = k /\ IdOK(i, oldRows[k]) => IdOK(i, g)
    BY <2>1, <2>4
  <2> QED BY <2>2, <2>3, <2>4, <2>5, OldRowOK
<1> QED BY <1>1, <1>2, <1>3, <1>4

LEMMA MigrationNext == MigrationInv /\ M!Next => MigrationInv'
BY RunOK, UpdateOK, ServerOK DEF M!Next

LEMMA MigrationStutter == MigrationInv /\ UNCHANGED rowVars => MigrationInv'
<1> SUFFICES ASSUME MigrationInv, UNCHANGED rowVars PROVE MigrationInv'
  OBVIOUS
<1>1. /\ oldRows' = oldRows /\ newRows' = newRows /\ written' = written
      /\ migration' = migration /\ runs' = runs /\ had' = had
  BY DEF rowVars
<1> QED BY <1>1 DEF MigrationInv, M!TypeOK, IdsOK, IdOK

LEMMA MigrationImply == MigrationInv => M!TypeOK /\ M!MigrationWorks
<1> SUFFICES ASSUME MigrationInv PROVE M!TypeOK /\ M!MigrationWorks
  OBVIOUS
<1>1. M!TypeOK /\ M!NewRowsKept
  BY DEF MigrationInv, M!NewRowsKept
<1>2. M!IdsKept
  BY MigrationThere DEF M!IdsKept, IdOK
<1>3. M!NothingLeft
  BY MigrationThere, StepsAre DEF M!NothingLeft, RowDone
<1> QED BY <1>1, <1>2, <1>3 DEF M!MigrationWorks

\* However often the migration dies and is run again, beside a server that goes
\* on: no id is lost, a run that has come to its end leaves nothing to do, and
\* the server's own rows stay as written (migrateStripeToPayplus.ts).
THEOREM MigrationRight == M!Spec => [](M!TypeOK /\ M!MigrationWorks)
<1>1. MigrationInv /\ [M!Next]_M!vars => MigrationInv'
  BY MigrationNext, MigrationStutter DEF M!vars, rowVars
<1> QED BY <1>1, MigrationInit, MigrationImply, PTL DEF M!Spec

-----------------------------------------------------------------------------
(* The parts together                                                      *)

MoneyInv ==
    /\ part \in {"finances", "growth"} => ReportsInv
    /\ part = "till" => TillInv
    /\ part = "migration" => MigrationInv

\* The reports agree with the money that moves, refunds are as asked, and the
\* migration loses nothing, in every behaviour of the parts together.
THEOREM MoneyInTurn == AllSpec => []MoneyAddsUp
<1>1. AllInit => MoneyInv
  <2> SUFFICES ASSUME AllInit PROVE MoneyInv
    OBVIOUS
  <2>1. R!Init /\ T!Init /\ M!Init
    BY DEF AllInit
  <2> QED BY <2>1, ReportsInit, TillInit, MigrationInit DEF MoneyInv
<1>2. MoneyInv /\ [AllNext]_allVars => MoneyInv'
  <2> SUFFICES ASSUME MoneyInv, [AllNext]_allVars PROVE MoneyInv'
    OBVIOUS
  <2>1. part' = part
    BY DEF AllNext, allVars
  <2>2. part \in {"finances", "growth"} => ReportsInv'
    BY ReportsNext, ReportsStutter DEF MoneyInv, AllNext, allVars
  <2>3. part = "till" => TillInv'
    BY TillNext, TillStutter DEF MoneyInv, AllNext, allVars
  <2>4. part = "migration" => MigrationInv'
    BY MigrationNext, MigrationStutter DEF MoneyInv, AllNext, allVars
  <2> QED BY <2>1, <2>2, <2>3, <2>4 DEF MoneyInv
<1>3. MoneyInv => MoneyAddsUp
  BY ReportsImply, TillImply, MigrationImply DEF MoneyInv, MoneyAddsUp
<1> QED BY <1>1, <1>2, <1>3, PTL DEF AllSpec
=============================================================================
