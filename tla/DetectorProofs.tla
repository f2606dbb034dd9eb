--------------------------- MODULE DetectorProofs ---------------------------
(***************************************************************************)
(* What the totals of the reconciler say: sums over finite sets, and what  *)
(* it means that two of them are equal.                                    *)
(*                                                                         *)
(* The sums are recursive functions.  An induction over finite sets is     *)
(* stated here with the set of the sets that have the property, not with   *)
(* the property as an operator.                                            *)
(***************************************************************************)
EXTENDS CounterGhostProofs, FiniteSetTheorems

---------------------------------------------------------------------------
(* Induction.                                                              *)

LEMMA LeastNumber ==
    ASSUME NEW T \in SUBSET Nat, T # {}
    PROVE  \E n \in T : \A m \in T : n <= m
<1>1. PICK n \in T : \A m \in T : ~(<<m, n>> \in OpToRel(<, Nat))
  BY WFMin, NatLessThanWellFounded
<1>2. ASSUME NEW m \in T PROVE n <= m
  <2>1. n \in Nat /\ m \in Nat
    OBVIOUS
  <2>2. ~(m < n)
    BY <1>1, <2>1 DEF OpToRel
  <2> QED BY <2>1, <2>2
<1> QED BY <1>2

LEMMA FromZero ==
    ASSUME NEW Q \in SUBSET Nat, 0 \in Q, \A n \in Q : n + 1 \in Q
    PROVE  Q = Nat
<1> SUFFICES ASSUME Nat \ Q # {} PROVE FALSE
  OBVIOUS
<1>1. PICK n \in Nat \ Q : \A m \in Nat \ Q : n <= m
  BY LeastNumber
<1>2. n - 1 \in Nat /\ ~(n <= n - 1)
  BY <1>1
<1>3. n - 1 \in Q
  BY <1>1, <1>2
<1> QED BY <1>1, <1>2, <1>3

\* If a set has the property when all sets with one element less have it, all
\* subsets of a finite set have it.
LEMMA SmallerSets ==
    ASSUME NEW S, IsFiniteSet(S), NEW Q,
           \A s \in SUBSET S : (\A x \in s : s \ {x} \in Q) => s \in Q
    PROVE  \A s \in SUBSET S : s \in Q
<1> SUFFICES ASSUME NEW r \in SUBSET S, r \notin Q PROVE FALSE
  OBVIOUS
<1> DEFINE T == {Cardinality(s) : s \in {t \in SUBSET S : t \notin Q}}
<1>1. \A s \in SUBSET S : IsFiniteSet(s) /\ Cardinality(s) \in Nat
  BY FS_Subset, FS_CardinalityType
<1>2. T \in SUBSET Nat /\ T # {}
  BY <1>1
<1> HIDE DEF T
<1>3. PICK n \in T : \A m \in T : n <= m
  BY <1>2, LeastNumber
<1>4. PICK s \in SUBSET S : s \notin Q /\ n = Cardinality(s)
  BY <1>3 DEF T
<1>5. ASSUME NEW x \in s PROVE s \ {x} \in Q
  <2>1. Cardinality(s \ {x}) = n - 1 /\ n \in Nat
    BY <1>1, <1>4, FS_RemoveElement
  <2>2. Cardinality(s \ {x}) \notin T
    BY <1>3, <2>1
  <2> QED BY <2>2 DEF T
<1> QED BY <1>4, <1>5

---------------------------------------------------------------------------
(* Sums.                                                                   *)

Pick(s) == CHOOSE x \in s : TRUE

\* g sums F over the subsets of S.
IsSum(g, F, S) ==
    g = [s \in SUBSET S |-> IF s = {} THEN 0 ELSE F[Pick(s)] + g[s \ {Pick(s)}]]

\* F has integers over S, and G is F on P and zero elsewhere.
IntsOn(F, S) == \A x \in S : F[x] \in Int

Filtered(G, F, P, S) == \A x \in S : G[x] = IF x \in P THEN F[x] ELSE 0

LEMMA PickIn == ASSUME NEW s, s # {} PROVE Pick(s) \in s
BY DEF Pick

\* There is such a function.
LEMMA SumExists ==
    ASSUME NEW S, IsFiniteSet(S), NEW F
    PROVE  \E g : IsSum(g, F, S)
<1> DEFINE Level(n) == {s \in SUBSET S : Cardinality(s) <= n}
           Summed(g, n) ==
               g = [s \in Level(n) |-> IF s = {} THEN 0 ELSE F[Pick(s)] + g[s \ {Pick(s)}]]
           Q == {n \in Nat : \E g : Summed(g, n)}
<1>0. \A s \in SUBSET S : IsFiniteSet(s) /\ Cardinality(s) \in Nat
  BY FS_Subset, FS_CardinalityType
<1>1. 0 \in Q
  <2>1. \A s \in Level(0) : s = {}
    BY <1>0, FS_EmptySet
  <2>2. Summed([s \in Level(0) |-> 0], 0)
    BY <2>1
  <2> QED BY <2>2
<1>2. ASSUME NEW n \in Q PROVE n + 1 \in Q
  <2>1. PICK g : Summed(g, n)
    OBVIOUS
  <2> DEFINE h == [s \in Level(n + 1) |->
                      IF s = {} THEN 0 ELSE F[Pick(s)] + g[s \ {Pick(s)}]]
  <2>2. ASSUME NEW s \in Level(n) PROVE s \in Level(n + 1) /\ h[s] = g[s]
    <3>1. s \in Level(n + 1)
      BY <1>0
    <3>2. g[s] = IF s = {} THEN 0 ELSE F[Pick(s)] + g[s \ {Pick(s)}]
      BY <2>1
    <3> QED BY <3>1, <3>2
  <2>3. ASSUME NEW s \in Level(n + 1), s # {}
        PROVE  h[s \ {Pick(s)}] = g[s \ {Pick(s)}]
    <3>1. Cardinality(s \ {Pick(s)}) = Cardinality(s) - 1
      BY <1>0, <2>3, PickIn, FS_RemoveElement
    <3>2. s \ {Pick(s)} \in Level(n)
      BY <1>0, <3>1
    <3> QED BY <2>2, <3>2
  <2>4. Summed(h, n + 1)
    BY <2>3
  <2> HIDE DEF h, Summed
  <2>5. n + 1 \in Nat /\ \E f : Summed(f, n + 1)
    BY <2>4
  <2> QED BY <2>5
<1>3. Q = Nat
  BY <1>1, <1>2, FromZero
<1>4. Level(Cardinality(S)) = SUBSET S /\ Cardinality(S) \in Nat
  BY <1>0, FS_Subset
<1>5. PICK g : Summed(g, Cardinality(S))
  BY <1>3, <1>4
<1>6. IsSum(g, F, S)
  BY <1>4, <1>5 DEF IsSum
<1> QED BY <1>6

LEMMA SumStep ==
    ASSUME NEW S, NEW F, NEW g, IsSum(g, F, S)
    PROVE  /\ g[{}] = 0
           /\ \A s \in SUBSET S : s # {} => g[s] = F[Pick(s)] + g[s \ {Pick(s)}]
BY DEF IsSum

LEMMA SumInt ==
    ASSUME NEW S, IsFiniteSet(S), NEW F, IntsOn(F, S), NEW g, IsSum(g, F, S)
    PROVE  \A s \in SUBSET S : g[s] \in Int
<1> USE DEF IntsOn
<1> DEFINE Q == {s \in SUBSET S : g[s] \in Int}
<1>1. ASSUME NEW s \in SUBSET S, \A x \in s : s \ {x} \in Q PROVE s \in Q
  <2>1. CASE s = {}
    BY <2>1, SumStep
  <2>2. CASE s # {}
    <3>1. Pick(s) \in s
      BY <2>2, PickIn
    <3>2. g[s \ {Pick(s)}] \in Int /\ F[Pick(s)] \in Int
      BY <1>1, <3>1
    <3> QED BY <2>2, <3>2, SumStep
  <2> QED BY <2>1, <2>2
<1>2. \A s \in SUBSET S : s \in Q
  BY <1>1, SmallerSets
<1> QED BY <1>2

\* The sum over a subset does not depend on the set the function is for.
LEMMA SumSame ==
    ASSUME NEW S, IsFiniteSet(S), NEW T \in SUBSET S, NEW F,
           NEW g, IsSum(g, F, S), NEW h, IsSum(h, F, T)
    PROVE  \A s \in SUBSET T : h[s] = g[s]
<1> DEFINE Q == {s \in SUBSET T : h[s] = g[s]}
<1>1. ASSUME NEW s \in SUBSET T, \A x \in s : s \ {x} \in Q PROVE s \in Q
  <2>1. CASE s = {}
    BY <2>1, SumStep
  <2>2. CASE s # {}
    <3>1. h[s \ {Pick(s)}] = g[s \ {Pick(s)}]
      BY <1>1, <2>2, PickIn
    <3>2. g[s] = F[Pick(s)] + g[s \ {Pick(s)}] /\ h[s] = F[Pick(s)] + h[s \ {Pick(s)}]
      BY <2>2, SumStep
    <3> QED BY <3>1, <3>2
  <2> QED BY <2>1, <2>2
<1>2. IsFiniteSet(T)
  BY FS_Subset
<1>3. \A s \in SUBSET T : s \in Q
  BY <1>1, <1>2, SmallerSets
<1> QED BY <1>3

\* Any element may come first.
LEMMA SumPeel ==
    ASSUME NEW S, IsFiniteSet(S), NEW F, IntsOn(F, S), NEW g, IsSum(g, F, S)
    PROVE  \A s \in SUBSET S : \A y \in s : g[s] = F[y] + g[s \ {y}]
<1> USE DEF IntsOn
<1> DEFINE Q == {s \in SUBSET S : \A y \in s : g[s] = F[y] + g[s \ {y}]}
<1>1. ASSUME NEW s \in SUBSET S, \A x \in s : s \ {x} \in Q PROVE s \in Q
  <2> SUFFICES ASSUME NEW y \in s PROVE g[s] = F[y] + g[s \ {y}]
    OBVIOUS
  <2>0. s # {}
    OBVIOUS
  <2>1. PICK x \in s : g[s] = F[x] + g[s \ {x}]
    <3>1. Pick(s) \in s
      BY <2>0, PickIn
    <3>2. g[s] = F[Pick(s)] + g[s \ {Pick(s)}]
      BY <2>0, SumStep
    <3> QED BY <3>1, <3>2
  <2>2. CASE x # y
    <3>1. g[s \ {x}] = F[y] + g[(s \ {x}) \ {y}]
      BY <1>1, <2>1, <2>2
    <3>2. g[s \ {y}] = F[x] + g[(s \ {y}) \ {x}]
      BY <1>1, <2>1, <2>2
    <3>3. (s \ {x}) \ {y} = (s \ {y}) \ {x}
      OBVIOUS
    <3>4. F[x] \in Int /\ F[y] \in Int /\ g[(s \ {y}) \ {x}] \in Int
      BY SumInt
    <3>5. PICK a \in Int, b \in Int, c \in Int :
                 a = F[x] /\ b = F[y] /\ c = g[(s \ {y}) \ {x}]
      BY <3>4
    <3>6. g[s] = a + (b + c) /\ g[s \ {y}] = a + c
      BY <2>1, <3>1, <3>2, <3>3, <3>5
    <3> QED BY <3>5, <3>6
  <2> QED BY <2>1, <2>2
<1>2. \A s \in SUBSET S : s \in Q
  BY <1>1, SmallerSets
<1> QED BY <1>2

LEMMA SumUnion ==
    ASSUME NEW S, IsFiniteSet(S), NEW F, IntsOn(F, S), NEW g, IsSum(g, F, S),
           NEW X \in SUBSET S
    PROVE  \A Y \in SUBSET (S \ X) : g[X \cup Y] = g[X] + g[Y]
<1> USE DEF IntsOn
<1> DEFINE Q == {Y \in SUBSET (S \ X) : g[X \cup Y] = g[X] + g[Y]}
<1>1. ASSUME NEW Y \in SUBSET (S \ X), \A y \in Y : Y \ {y} \in Q PROVE Y \in Q
  <2>1. CASE Y = {}
    <3>1. g[X] \in Int /\ g[Y] = 0 /\ X \cup Y = X
      BY <2>1, SumInt, SumStep
    <3>2. PICK a \in Int : a = g[X]
      BY <3>1
    <3>3. g[X \cup Y] = a /\ g[X] + g[Y] = a + 0
      BY <3>1, <3>2
    <3>4. g[X \cup Y] = g[X] + g[Y]
      BY <3>2, <3>3
    <3> QED BY <3>4
  <2>2. ASSUME NEW y \in Y PROVE Y \in Q
    <3> DEFINE Z == Y \ {y}
    <3>1. g[X \cup Z] = g[X] + g[Z] /\ Z \in SUBSET S
      BY <1>1, <2>2
    <3>2. g[Y] = F[y] + g[Z] /\ Y \in SUBSET S
      BY <2>2, SumPeel
    <3>3. (X \cup Y) \ {y} = X \cup Z /\ X \cup Y \in SUBSET S /\ y \in X \cup Y /\ y \in S
      BY <2>2
    <3> HIDE DEF Z
    <3>0. g[X \cup Y] = F[y] + g[(X \cup Y) \ {y}]
      BY <3>3, SumPeel
    <3>4. g[X \cup Y] = F[y] + g[X \cup Z]
      BY <3>0, <3>3
    <3>5. PICK a \in Int, b \in Int, c \in Int : a = g[X] /\ b = F[y] /\ c = g[Z]
      BY <3>1, <3>3, SumInt
    <3>6. g[X \cup Y] = b + (a + c) /\ g[X] + g[Y] = a + (b + c)
      BY <3>1, <3>2, <3>4, <3>5
    <3>7. g[X \cup Y] = g[X] + g[Y]
      BY <3>5, <3>6
    <3> QED BY <3>7
  <2> QED BY <2>1, <2>2
<1>2. IsFiniteSet(S \ X)
  BY FS_Subset
<1>3. \A Y \in SUBSET (S \ X) : Y \in Q
  <2> DEFINE R == S \ X
  <2>1. \A Y \in SUBSET R : (\A y \in Y : Y \ {y} \in Q) => Y \in Q
    BY <1>1
  <2>2. IsFiniteSet(R)
    BY <1>2
  <2> HIDE DEF Q, R
  <2>3. \A Y \in SUBSET R : Y \in Q
    BY ONLY <2>1, <2>2, SmallerSets
  <2> QED BY <2>3 DEF R
<1> QED BY <1>3

\* What is zero may be left out.
LEMMA SumFiltered ==
    ASSUME NEW S, IsFiniteSet(S), NEW F, IntsOn(F, S), NEW g, IsSum(g, F, S),
           NEW P, NEW G, Filtered(G, F, P, S),
           NEW h, IsSum(h, G, S)
    PROVE  \A s \in SUBSET S : h[s] = g[s \cap P]
<1> USE DEF IntsOn, Filtered
<1> DEFINE Q == {s \in SUBSET S : h[s] = g[s \cap P]}
<1>1. ASSUME NEW s \in SUBSET S, \A x \in s : s \ {x} \in Q PROVE s \in Q
  <2>1. CASE s = {}
    <3>1. s \cap P = {} /\ h[{}] = 0 /\ g[{}] = 0
      BY <2>1, SumStep
    <3> QED BY <2>1, <3>1
  <2>2. CASE s # {}
    <3> DEFINE x == Pick(s)
    <3>1. x \in s /\ h[s] = G[x] + h[s \ {x}]
      BY <2>2, PickIn, SumStep
    <3> HIDE DEF x
    <3>2. h[s \ {x}] = g[(s \ {x}) \cap P]
      BY <1>1, <3>1
    <3>3. g[(s \ {x}) \cap P] \in Int
      BY SumInt
    <3>4. CASE x \in P
      <4>1. x \in s \cap P /\ (s \cap P) \ {x} = (s \ {x}) \cap P
        BY <3>1, <3>4
      <4>2. g[s \cap P] = F[x] + g[(s \ {x}) \cap P]
        BY <4>1, SumPeel
      <4>3. G[x] = F[x]
        BY <3>1, <3>4
      <4> QED BY <3>1, <3>2, <4>2, <4>3
    <3>5. CASE x \notin P
      <4>1. (s \ {x}) \cap P = s \cap P /\ G[x] = 0
        BY <3>1, <3>5
      <4>2. PICK a \in Int : a = g[s \cap P]
        BY <3>3, <4>1
      <4>3. h[s] = 0 + a
        BY <3>1, <3>2, <4>1, <4>2
      <4>4. h[s] = g[s \cap P]
        BY <4>2, <4>3
      <4> QED BY <4>4
    <3> QED BY <3>4, <3>5
  <2> QED BY <2>1, <2>2
<1>2. \A s \in SUBSET S : s \in Q
  BY <1>1, SmallerSets
<1> QED BY <1>2

\* Amounts of one sign do not cancel out.
LEMMA SumNotZero ==
    ASSUME NEW S, IsFiniteSet(S), NEW F, IntsOn(F, S), NEW g, IsSum(g, F, S),
           (\A x \in S : F[x] > 0) \/ (\A x \in S : F[x] < 0)
    PROVE  \A s \in SUBSET S : s # {} => g[s] # 0
<1> USE DEF IntsOn
<1> DEFINE Up == {s \in SUBSET S : s = {} \/ g[s] > 0}
           Down == {s \in SUBSET S : s = {} \/ g[s] < 0}
<1>1. ASSUME NEW s \in SUBSET S, s # {}
      PROVE  \E x \in s : /\ g[s] = F[x] + g[s \ {x}]
                          /\ F[x] \in Int /\ g[s \ {x}] \in Int
  <2>1. Pick(s) \in s
    BY <1>1, PickIn
  <2>2. g[s] = F[Pick(s)] + g[s \ {Pick(s)}]
    BY <1>1, SumStep
  <2> QED BY <2>1, <2>2, SumInt
<1>2. g[{}] = 0
  BY SumStep
<1>3. CASE \A x \in S : F[x] > 0
  <2>1. ASSUME NEW s \in SUBSET S, \A x \in s : s \ {x} \in Up PROVE s \in Up
    <3> SUFFICES ASSUME s # {} PROVE g[s] > 0
      OBVIOUS
    <3>1. PICK x \in s : g[s] = F[x] + g[s \ {x}] /\ F[x] \in Int /\ g[s \ {x}] \in Int
      BY <1>1
    <3>2. F[x] > 0 /\ (s \ {x} = {} \/ g[s \ {x}] > 0)
      BY <1>3, <2>1
    <3> QED BY <1>2, <3>1, <3>2
  <2>2. \A s \in SUBSET S : s \in Up
    BY <2>1, SmallerSets
  <2> QED BY <2>2
<1>4. CASE \A x \in S : F[x] < 0
  <2>1. ASSUME NEW s \in SUBSET S, \A x \in s : s \ {x} \in Down PROVE s \in Down
    <3> SUFFICES ASSUME s # {} PROVE g[s] < 0
      OBVIOUS
    <3>1. PICK x \in s : g[s] = F[x] + g[s \ {x}] /\ F[x] \in Int /\ g[s \ {x}] \in Int
      BY <1>1
    <3>2. F[x] < 0 /\ (s \ {x} = {} \/ g[s \ {x}] < 0)
      BY <1>4, <2>1
    <3> QED BY <1>2, <3>1, <3>2
  <2>2. \A s \in SUBSET S : s \in Down
    BY <2>1, SmallerSets
  <2> QED BY <2>2
<1> QED BY <1>3, <1>4

---------------------------------------------------------------------------
(* The totals.                                                             *)

Amount == [u \in Uuid |-> info[u].amount]

\* The value of node n, given what the nodes contain.
Value(values, n) == MapThenSumSet(LAMBDA u : values[n][u] * info[u].amount, Issued)

\* The sum over a table.
LEMMA AmountSum ==
    ASSUME NEW T \in SUBSET Uuid, IsFiniteSet(T)
    PROVE  \E h : IsSum(h, Amount, T) /\ SumAmounts(T) = h[T]
<1> DEFINE Is(g) == g = [s \in SUBSET T |->
                           IF s = {} THEN 0 ELSE info[Pick(s)].amount + g[s \ {Pick(s)}]]
           h == CHOOSE g : Is(g)
<1>1. PICK g : IsSum(g, Amount, T)
  BY SumExists
<1>2. \A s \in SUBSET T : s # {} => Amount[Pick(s)] = info[Pick(s)].amount
  BY PickIn DEF Amount
<1>3. \A f : Is(f) <=> IsSum(f, Amount, T)
  BY <1>2 DEF IsSum
<1>4. Is(h)
  BY <1>1, <1>3
<1>5. SumAmounts(T) = h[T]
  BY DEF SumAmounts, MapThenSumSet, MapThenFoldSet, Pick
<1> HIDE DEF Is, h
<1> QED BY <1>3, <1>4, <1>5

\* The sum over what a node contains.
LEMMA ValueSum ==
    ASSUME NEW values, NEW n \in Nodes, IsFiniteSet(Issued)
    PROVE  \E h : /\ IsSum(h, [u \in Uuid |-> values[n][u] * info[u].amount], Issued)
                  /\ Value(values, n) = h[Issued]
<1> DEFINE F == [u \in Uuid |-> values[n][u] * info[u].amount]
           Is(g) == g = [s \in SUBSET Issued |->
                           IF s = {} THEN 0
                           ELSE values[n][Pick(s)] * info[Pick(s)].amount + g[s \ {Pick(s)}]]
           h == CHOOSE g : Is(g)
<1>1. PICK g : IsSum(g, F, Issued)
  BY SumExists
<1>2. ASSUME NEW s \in SUBSET Issued, s # {}
      PROVE  F[Pick(s)] = values[n][Pick(s)] * info[Pick(s)].amount
  <2>1. Pick(s) \in Uuid
    BY <1>2, PickIn DEF Issued
  <2> QED BY <2>1
<1> HIDE DEF F
<1>3. \A f : Is(f) <=> IsSum(f, F, Issued)
  BY <1>2 DEF IsSum
<1>4. Is(h)
  BY <1>1, <1>3
<1>5. Value(values, n) = h[Issued]
  BY DEF Value, MapThenSumSet, MapThenFoldSet, Pick
<1> HIDE DEF Is, h
<1>6. IsSum(h, F, Issued) /\ Value(values, n) = h[Issued]
  BY <1>3, <1>4, <1>5
<1> QED BY <1>6 DEF F

\* The sum over the nodes.
LEMMA NodesSum ==
    ASSUME NEW values
    PROVE  \E h : /\ IsSum(h, [n \in Nodes |-> Value(values, n)], Nodes)
                  /\ Total(values) = h[Nodes]
<1> DEFINE F == [n \in Nodes |-> Value(values, n)]
           Is(g) == g = [s \in SUBSET Nodes |->
                           IF s = {} THEN 0
                           ELSE Value(values, Pick(s)) + g[s \ {Pick(s)}]]
           h == CHOOSE g : Is(g)
<1>1. PICK g : IsSum(g, F, Nodes)
  BY SumExists, SumAssumption
<1>2. ASSUME NEW s \in SUBSET Nodes, s # {} PROVE F[Pick(s)] = Value(values, Pick(s))
  <2>1. Pick(s) \in Nodes
    BY <1>2, PickIn
  <2> QED BY <2>1
<1> HIDE DEF F
<1>3. \A f : Is(f) <=> IsSum(f, F, Nodes)
  BY <1>2 DEF IsSum
<1>4. Is(h)
  BY <1>1, <1>3
<1>5. Total(values) = MapThenSumSet(LAMBDA n : Value(values, n), Nodes)
  BY DEF Total, Value
<1>6. MapThenSumSet(LAMBDA n : Value(values, n), Nodes) = h[Nodes]
  BY DEF MapThenSumSet, MapThenFoldSet, Pick
<1> HIDE DEF Is, h
<1>7. IsSum(h, F, Nodes) /\ Total(values) = h[Nodes]
  BY <1>3, <1>4, <1>5, <1>6
<1> QED BY <1>7 DEF F

\* Values that contain every operation once at most, and on its own node.
Proper(values) ==
    /\ values \in [Nodes -> [Uuid -> Nat]]
    /\ \A n \in Nodes, u \in Uuid :
          /\ values[n][u] <= 1
          /\ values[n][u] = 1 => u \in Issued /\ info[u].node = n

\* Their total is the sum over the operations they contain.
LEMMA TotalIsSum ==
    ASSUME TypeOK, NEW values, Proper(values), NEW g, IsSum(g, Amount, Issued)
    PROVE  Total(values) = g[Contained(values)]
<1> DEFINE Part(n) == {u \in Issued : values[n][u] = 1}
           Cont(N) == {u \in Issued : \E n \in N : values[n][u] = 1}
<1>1. /\ IsFiniteSet(Issued) /\ Issued \subseteq Uuid
      /\ \A u \in Issued : Amount[u] \in Int /\ Amount[u] = info[u].amount
      /\ \A u \in Issued : info[u].node \in Nodes
  <2>1. Issued \subseteq Uuid
    BY DEF Issued
  <2>2. \A u \in Issued : info[u] \in Operation
    BY DEF TypeOK, StorageTypeOK, Issued
  <2> QED BY <2>1, <2>2, SumAssumption, FS_Subset DEF Amount, Operation
<1>2. IsFiniteSet(Issued)
  BY <1>1
<1>3. IntsOn(Amount, Issued)
  BY <1>1 DEF IntsOn
<1>4. ASSUME NEW n \in Nodes PROVE Value(values, n) = g[Part(n)]
  <2> DEFINE G == [u \in Uuid |-> values[n][u] * info[u].amount]
  <2>1. PICK h : IsSum(h, G, Issued) /\ Value(values, n) = h[Issued]
    BY <1>1, ValueSum
  <2>2. ASSUME NEW u \in Issued PROVE G[u] = IF u \in Part(n) THEN Amount[u] ELSE 0
    <3>1. values[n][u] \in {0, 1} /\ info[u].amount \in Int /\ Amount[u] = info[u].amount
      <4>1. values[n][u] \in Nat /\ values[n][u] <= 1
        BY <1>1 DEF Proper
      <4> QED BY <1>1, <4>1
    <3>2. G[u] = values[n][u] * info[u].amount
      BY <1>1
    <3> QED BY <3>1, <3>2
  <2> DEFINE P == Part(n)
  <2>3. Issued \cap P = P
    OBVIOUS
  <2> HIDE DEF G, P
  <2>4. Filtered(G, Amount, P, Issued)
    BY <2>2 DEF P, Filtered
  <2>5. IsSum(h, G, Issued)
    BY <2>1
  <2>6. \A s \in SUBSET Issued : h[s] = g[s \cap P]
    <3>1. IsSum(g, Amount, Issued)
      OBVIOUS
    <3> QED BY ONLY <1>2, <1>3, <2>4, <2>5, <3>1, SumFiltered
  <2>7. h[Issued] = g[Issued \cap P]
    BY <2>6
  <2>8. Value(values, n) = g[P]
    BY <2>1, <2>3, <2>7
  <2> QED BY <2>8 DEF P
<1> DEFINE F == [n \in Nodes |-> Value(values, n)]
<1>5. PICK k : IsSum(k, F, Nodes) /\ Total(values) = k[Nodes]
  BY NodesSum
<1>6. \A n \in Nodes : F[n] = g[Part(n)] /\ F[n] \in Int
  <2>1. \A n \in Nodes : Part(n) \in SUBSET Issued
    OBVIOUS
  <2>2. \A s \in SUBSET Issued : g[s] \in Int
    BY <1>2, <1>3, SumInt
  <2> HIDE DEF Part
  <2>3. ASSUME NEW n \in Nodes PROVE F[n] = g[Part(n)] /\ F[n] \in Int
    <3>1. F[n] = Value(values, n)
      OBVIOUS
    <3>2. g[Part(n)] \in Int
      BY <2>1, <2>2
    <3> QED BY <1>4, <3>1, <3>2
  <2> QED BY <2>3
<1> HIDE DEF F
<1>7. ASSUME NEW N \in SUBSET Nodes, NEW n \in N PROVE k[N] = F[n] + k[N \ {n}]
  <2>1. IntsOn(F, Nodes)
    BY <1>6 DEF IntsOn
  <2>2. PICK f : f = F
    OBVIOUS
  <2>3. IsFiniteSet(Nodes)
    BY SumAssumption
  <2>4. IsSum(k, f, Nodes) /\ IntsOn(f, Nodes)
    BY <1>5, <2>1, <2>2
  <2>5. k[N] = f[n] + k[N \ {n}]
    BY <2>3, <2>4, SumPeel
  <2> QED BY <2>2, <2>5
<1>8. ASSUME NEW X \in SUBSET Issued
      PROVE  \A Y \in SUBSET (Issued \ X) : g[X \cup Y] = g[X] + g[Y]
  BY <1>2, <1>3, SumUnion
<1> DEFINE Q == {N \in SUBSET Nodes : k[N] = g[Cont(N)]}
<1>9. ASSUME NEW N \in SUBSET Nodes, \A n \in N : N \ {n} \in Q PROVE N \in Q
  <2>1. CASE N = {}
    <3>1. Cont(N) = {} /\ k[{}] = 0 /\ g[{}] = 0
      BY <1>5, <2>1, SumStep
    <3> QED BY <2>1, <3>1
  <2>2. ASSUME NEW n \in N PROVE N \in Q
    <3>1. k[N] = F[n] + k[N \ {n}]
      BY <1>7, <2>2
    <3>2. k[N \ {n}] = g[Cont(N \ {n})]
      BY <1>9, <2>2
    <3>3. Cont(N) = Part(n) \cup Cont(N \ {n})
      BY <2>2
    <3>4. Part(n) \cap Cont(N \ {n}) = {}
      BY <1>1, <2>2 DEF Proper
    <3>5. Part(n) \in SUBSET Issued /\ Cont(N \ {n}) \in SUBSET (Issued \ Part(n))
      BY <3>4
    <3>6. g[Part(n) \cup Cont(N \ {n})] = g[Part(n)] + g[Cont(N \ {n})]
      BY <1>8, <3>5
    <3>7. F[n] = g[Part(n)]
      BY <1>6, <2>2
    <3>8. k[N] = g[Part(n)] + g[Cont(N \ {n})]
      BY <3>1, <3>2, <3>7
    <3>9. k[N] = g[Cont(N)]
      BY <3>3, <3>6, <3>8
    <3> QED BY <3>9
  <2> QED BY <2>1, <2>2
<1>10. \A N \in SUBSET Nodes : N \in Q
  BY <1>9, SumAssumption, SmallerSets
<1>11. k[Nodes] = g[Cont(Nodes)]
  BY <1>10
<1>12. Cont(Nodes) = Contained(values)
  <2>1. \A n \in Nodes, u \in Uuid : values[n][u] \in Nat /\ values[n][u] <= 1
    BY DEF Proper
  <2>2. \A n \in Nodes, u \in Uuid : values[n][u] # 0 <=> values[n][u] = 1
    BY <2>1
  <2> QED BY <1>1, <2>2 DEF Contained, Proper
<1> QED BY <1>5, <1>11, <1>12

\* Equal totals and equal contents.
LEMMA TotalsCompared ==
    ASSUME TypeOK, coord \subseteq Issued, NEW values, Proper(values)
    PROVE  /\ Contained(values) = coord => AuthoritativeGlobalValue = Total(values)
           /\ AuthoritativeGlobalValue = Total(values) /\ OneSign
              /\ Contained(values) \subseteq coord => Contained(values) = coord
<1>0. /\ IsFiniteSet(Issued) /\ Issued \subseteq Uuid /\ IsFiniteSet(coord)
      /\ \A u \in Issued : Amount[u] \in Int /\ Amount[u] = info[u].amount
  <2>1. Issued \subseteq Uuid
    BY DEF Issued
  <2>2. \A u \in Issued : info[u] \in Operation
    BY DEF TypeOK, StorageTypeOK, Issued
  <2>3. IsFiniteSet(Issued) /\ IsFiniteSet(coord)
    BY <2>1, SumAssumption, FS_Subset
  <2> QED BY <2>1, <2>2, <2>3 DEF Amount, Operation
<1>1. PICK g : IsSum(g, Amount, Issued)
  BY <1>0, SumExists
<1>2. Total(values) = g[Contained(values)]
  BY <1>1, TotalIsSum
<1>3. AuthoritativeGlobalValue = g[coord]
  <2>1. PICK h : IsSum(h, Amount, coord) /\ SumAmounts(coord) = h[coord]
    BY <1>0, AmountSum
  <2>2. h[coord] = g[coord]
    BY <1>0, <1>1, <2>1, SumSame
  <2> QED BY <2>1, <2>2 DEF AuthoritativeGlobalValue
<1>4. ASSUME g[coord] = g[Contained(values)], OneSign, Contained(values) \subseteq coord
      PROVE  Contained(values) = coord
  <2> DEFINE C == Contained(values)
             D == coord \ C
  <2>1. C \in SUBSET Issued /\ D \in SUBSET (Issued \ C) /\ coord = C \cup D
    BY <1>4
  <2> HIDE DEF C, D
  <2>2. IntsOn(Amount, Issued)
    BY <1>0 DEF IntsOn
  <2>3. \A Y \in SUBSET (Issued \ C) : g[C \cup Y] = g[C] + g[Y]
    <3>1. IsFiniteSet(Issued)
      BY <1>0
    <3>2. IsSum(g, Amount, Issued)
      BY <1>1
    <3>3. C \in SUBSET Issued
      BY <2>1
    <3> QED BY ONLY <2>2, <3>1, <3>2, <3>3, SumUnion
  <2>4. g[coord] = g[C] + g[D]
    BY <2>1, <2>3
  <2>5. g[C] \in Int /\ g[D] \in Int
    BY <1>0, <1>1, <2>1, <2>2, SumInt
  <2>6. g[D] = 0
    <3>1. g[coord] = g[C]
      BY <1>4 DEF C
    <3>2. PICK a \in Int, b \in Int : a = g[C] /\ b = g[D]
      BY <2>5
    <3>3. a = a + b
      BY <2>4, <3>1, <3>2
    <3> QED BY <3>2, <3>3
  <2>7. (\A u \in Issued : Amount[u] > 0) \/ (\A u \in Issued : Amount[u] < 0)
    BY <1>0, <1>4 DEF OneSign
  <2>8. D = {}
    <3>1. \A s \in SUBSET Issued : s # {} => g[s] # 0
      BY <1>0, <1>1, <2>2, <2>7, SumNotZero
    <3> QED BY <2>1, <2>6, <3>1
  <2> QED BY <2>1, <2>8 DEF C
<1> QED BY <1>2, <1>3, <1>4

---------------------------------------------------------------------------
(* What the reconciler remembers.                                          *)

LEMMA SeenStep == ASSUME DetectorInv, [Next]_vars PROVE SeenOnce'
<1>0. TypeOK /\ OneContribution /\ SeenOnce /\ Tables /\ rec \in Agent
  BY DEF DetectorInv, IndInv, CoreInv, TypeOK, RecTypeOK
<1>1. \A u \in Issued : u \in Issued' /\ info'[u] = info[u]
  BY <1>0, OwnKept
<1>2. ASSUME rec'.seen = rec.seen PROVE SeenOnce'
  BY <1>0, <1>1, <1>2 DEF SeenOnce
<1>3. ASSUME rec'.seen = localVal PROVE SeenOnce'
  BY <1>0, <1>1, <1>3 DEF SeenOnce, OneContribution
<1>4. ASSUME rec' = IdleAgent PROVE SeenOnce'
  BY <1>4 DEF SeenOnce, IdleAgent, Once
<1>5. CASE RunReconciler
  <2>1. ASSUME RecReadNaive PROVE rec'.seen = localVal
    BY <1>0, <2>1 DEF RecReadNaive, Agent
  <2>2. ASSUME RecCompare PROVE rec' = IdleAgent \/ rec'.seen = IdleAgent.seen
    BY <2>2 DEF RecCompare, IdleAgent
  <2>3. ASSUME rec'.seen = IdleAgent.seen PROVE SeenOnce'
    BY <2>3 DEF SeenOnce, IdleAgent, Once
  <2>4. ASSUME RecAllStates \/ \E n \in Nodes : RecReconcile(n) PROVE rec'.seen = rec.seen
    BY <1>0, <2>4 DEF RecAllStates, RecReconcile, Agent
  <2>5. ASSUME RecReturn PROVE rec' = IdleAgent
    BY <2>5 DEF RecReturn
  <2> QED BY <1>2, <1>3, <1>4, <1>5, <2>1, <2>2, <2>3, <2>4, <2>5 DEF RunReconciler, RecStep
<1>6. CASE Restart
  BY <1>4, <1>6 DEF Restart
<1>7. CASE ~RunReconciler /\ ~Restart
  <2>1. rec' = rec
    BY <1>7 DEF Next, Apply, Request, RunJob, RunSyncer, vars
  <2> QED BY <1>2, <2>1
<1> QED BY <1>5, <1>6, <1>7

---------------------------------------------------------------------------
(* The theorems.                                                           *)

\* Beside the invariant of the program, what the reconciler has read contains no
\* operation twice.
THEOREM DetectorInvariance == Spec => []DetectorInv
<1>1. Init => DetectorInv
  <2>1. ASSUME Init PROVE SeenOnce
    BY <2>1 DEF Init, RecInit, SeenOnce, IdleAgent, Once
  <2> QED BY <2>1, InitInv DEF DetectorInv
<1>2. DetectorInv /\ [Next]_vars => DetectorInv'
  BY CoreStep, OutboxStep, SeenStep DEF DetectorInv, IndInv
<1> QED BY <1>1, <1>2, PTL DEF Spec

\* The comparison of the totals is exact: for any number of nodes, operations
\* and amounts it starts no repair of what agrees, and with amounts of one sign
\* it overlooks no loss of what the log has.
THEOREM ComparisonIsExact == Spec => DetectorExact
<1>1. ASSUME DetectorInv, RecCompare, Works
      PROVE  /\ rec'.pc = "states" => Contained(rec.seen) # coord
             /\ rec'.pc = "idle" /\ OneSign /\ Contained(rec.seen) \subseteq coord =>
                   Contained(rec.seen) = coord
  <2>1. TypeOK /\ coord \subseteq Issued /\ SeenOnce
    BY <1>1 DEF DetectorInv, IndInv, CoreInv, Tables
  <2>2. Proper(rec.seen)
    BY <2>1 DEF TypeOK, RecTypeOK, Agent, SeenOnce, Proper
  <2> DEFINE log == AuthoritativeGlobalValue
             held == Total(rec.seen)
  <2>3. /\ Contained(rec.seen) = coord => log = held
        /\ log = held /\ OneSign /\ Contained(rec.seen) \subseteq coord =>
              Contained(rec.seen) = coord
    BY <2>1, <2>2, TotalsCompared
  <2>4. ~Fails("coord")
    BY <1>1, <2>1 DEF Fails, Works, TypeOK, NodeTypeOK, StorageTypeOK, SimTypeOK
  <2>5. rec' = IF log = held THEN IdleAgent ELSE [IdleAgent EXCEPT !.pc = "states"]
    BY <1>1, <2>4 DEF RecCompare
  <2> HIDE DEF log, held
  <2>6. rec'.pc = IF log = held THEN "idle" ELSE "states"
    BY <2>5 DEF IdleAgent
  <2> QED BY <2>3, <2>6
<1>2. DetectorInv => [RecCompare /\ Works =>
          /\ rec'.pc = "states" => Contained(rec.seen) # coord
          /\ rec'.pc = "idle" /\ OneSign /\ Contained(rec.seen) \subseteq coord =>
                Contained(rec.seen) = coord]_vars
  BY <1>1
<1> QED BY <1>2, DetectorInvariance, PTL DEF DetectorExact
=============================================================================
