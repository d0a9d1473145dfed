-------------------------- MODULE AccessTreeProofs --------------------------
(***************************************************************************)
(* What the walks over a tree compute.  A tree of one level more than n is *)
(* a leaf or a gate over trees of at most n levels; that is how trees are  *)
(* reasoned about here, by induction in the set of trees, and how the      *)
(* functions that walk over them are shown to exist.                       *)
(***************************************************************************)
EXTENDS AccessTree, NaturalSets, FiniteSetTheorems

LeafTrees == [kind : {"leaf"}, attribute : Name]
GatesOver(S) == [kind : {"gate"}, threshold : Nat, children : Seq(S)]

-----------------------------------------------------------------------------
(* The levels.                                                             *)

Levels(n, L) ==
  L = [i \in 0 .. n |-> LeafTrees \cup (IF i = 0 THEN {} ELSE GatesOver(L[i - 1]))]

LEMMA LevelsNext ==
  ASSUME NEW n \in Nat, NEW L, Levels(n, L)
  PROVE  \E M : Levels(n + 1, M)
<1> DEFINE last == LeafTrees \cup GatesOver(L[n])
           M == [i \in 0 .. n + 1 |-> IF i <= n THEN L[i] ELSE last]
<1>1. \A i \in 0 .. n : M[i] = L[i]
  OBVIOUS
<1>2. \A i \in 0 .. n : L[i] = LeafTrees \cup (IF i = 0 THEN {} ELSE GatesOver(L[i - 1]))
  BY DEF Levels
<1>3. M[n + 1] = last
  OBVIOUS
<1>4. ASSUME NEW i \in 0 .. n + 1
      PROVE  M[i] = LeafTrees \cup (IF i = 0 THEN {} ELSE GatesOver(M[i - 1]))
  <2>1. CASE i \in 0 .. n
    <3>1. i # 0 => i - 1 \in 0 .. n
      BY <2>1
    <3> HIDE DEF M, last
    <3> QED
      BY <1>1, <1>2, <2>1, <3>1
  <2>2. CASE i = n + 1
    <3>1. M[i - 1] = L[n] /\ i # 0
      BY <1>1, <2>2
    <3> QED
      BY <1>3, <2>2, <3>1
  <2> QED
    BY <2>1, <2>2
<1>5. Levels(n + 1, M)
  <2>1. M = [i \in 0 .. n + 1 |-> M[i]]
    OBVIOUS
  <2> HIDE DEF M
  <2> QED
    BY <1>4, <2>1 DEF Levels
<1> QED
  BY <1>5

LEMMA LevelsExist ==
  ASSUME NEW n \in Nat
  PROVE  \E L : Levels(n, L)
<1> DEFINE S == {m \in Nat : \E L : Levels(m, L)}
<1>1. 0 \in S
  <2>1. Levels(0, [i \in 0 .. 0 |-> LeafTrees])
    BY DEF Levels
  <2> QED
    BY <2>1
<1>2. \A m \in S : m + 1 \in S
  BY LevelsNext
<1>3. S = Nat
  <2> HIDE DEF S
  <2>1. S \in SUBSET Nat
    BY DEF S
  <2> QED
    BY <1>1, <1>2, <2>1, InductionInSet
<1> QED
  BY <1>3

\* The trees of at most n gates on the way to a leaf.
Level == CHOOSE L : Levels(MaxDepth, L)

LEMMA LevelEq ==
  /\ AnyTree = Level[MaxDepth]
  /\ Level[0] = LeafTrees
  /\ \A n \in 0 .. MaxDepth : n # 0 => Level[n] = LeafTrees \cup GatesOver(Level[n - 1])
<1>1. Levels(MaxDepth, Level)
  BY DepthAssumption, LevelsExist DEF Level
<1>2. AnyTree = Level[MaxDepth]
  BY DEF AnyTree, Level, Levels, LeafTrees, GatesOver
<1>3. \A n \in 0 .. MaxDepth :
        Level[n] = LeafTrees \cup (IF n = 0 THEN {} ELSE GatesOver(Level[n - 1]))
  <2> DEFINE L == Level
  <2>1. Levels(MaxDepth, L)
    BY <1>1
  <2> HIDE DEF L
  <2>2. \A n \in 0 .. MaxDepth :
          L[n] = LeafTrees \cup (IF n = 0 THEN {} ELSE GatesOver(L[n - 1]))
    BY <2>1 DEF Levels
  <2> QED
    BY <2>2 DEF L
<1>4. 0 \in 0 .. MaxDepth
  BY DepthAssumption
<1>5. Level[0] = LeafTrees
  BY <1>3, <1>4
<1>6. ASSUME NEW n \in 0 .. MaxDepth, n # 0
      PROVE  Level[n] = LeafTrees \cup GatesOver(Level[n - 1])
  BY <1>3, <1>6
<1> QED
  BY <1>2, <1>5, <1>6

LEMMA LevelUp ==
  ASSUME NEW n \in Nat, n < MaxDepth
  PROVE  Level[n + 1] = LeafTrees \cup GatesOver(Level[n])
<1>1. n + 1 \in 0 .. MaxDepth /\ n + 1 # 0 /\ (n + 1) - 1 = n
  BY DepthAssumption
<1> QED
  BY <1>1, LevelEq

LEMMA GatesGrow ==
  ASSUME NEW S, NEW T, S \subseteq T
  PROVE  GatesOver(S) \subseteq GatesOver(T)
<1>1. Seq(S) \subseteq Seq(T)
  OBVIOUS
<1> QED
  BY <1>1 DEF GatesOver

LEMMA LevelGrows ==
  ASSUME NEW n \in Nat, n < MaxDepth
  PROVE  Level[n] \subseteq Level[n + 1]
<1> DEFINE S == {m \in Nat : m < MaxDepth => Level[m] \subseteq Level[m + 1]}
<1>1. 0 \in S
  <2>1. 0 < MaxDepth => Level[0 + 1] = LeafTrees \cup GatesOver(Level[0])
    BY LevelUp
  <2> QED
    BY <2>1, LevelEq
<1>2. ASSUME NEW m \in S PROVE m + 1 \in S
  <2> SUFFICES ASSUME m + 1 < MaxDepth PROVE Level[m + 1] \subseteq Level[(m + 1) + 1]
    OBVIOUS
  <2>1. m \in Nat /\ m < MaxDepth /\ m + 1 \in Nat
    BY DepthAssumption
  <2>2. Level[m] \subseteq Level[m + 1]
    BY <2>1
  <2>3. GatesOver(Level[m]) \subseteq GatesOver(Level[m + 1])
    BY <2>2, GatesGrow
  <2>4. Level[m + 1] = LeafTrees \cup GatesOver(Level[m])
    BY <2>1, LevelUp
  <2>5. Level[(m + 1) + 1] = LeafTrees \cup GatesOver(Level[m + 1])
    BY <2>1, LevelUp
  <2> QED
    BY <2>3, <2>4, <2>5
<1>3. S = Nat
  <2> HIDE DEF S
  <2>1. S \in SUBSET Nat
    BY DEF S
  <2> QED
    BY <1>1, <1>2, <2>1, InductionInSet
<1> QED
  BY <1>3

LEMMA LevelsNested ==
  ASSUME NEW n \in 0 .. MaxDepth, NEW m \in 0 .. MaxDepth, n <= m
  PROVE  Level[n] \subseteq Level[m]
<1> DEFINE S == {d \in Nat : n + d <= MaxDepth => Level[n] \subseteq Level[n + d]}
<1>1. 0 \in S
  OBVIOUS
<1>2. ASSUME NEW d \in S PROVE d + 1 \in S
  <2> SUFFICES ASSUME n + (d + 1) <= MaxDepth PROVE Level[n] \subseteq Level[n + (d + 1)]
    OBVIOUS
  <2>1. n + d \in Nat /\ n + d < MaxDepth /\ n + (d + 1) = (n + d) + 1
    BY DepthAssumption
  <2>2. Level[n] \subseteq Level[n + d] /\ Level[n + d] \subseteq Level[(n + d) + 1]
    BY <2>1, LevelGrows, DepthAssumption
  <2> QED
    BY <2>1, <2>2
<1>3. S = Nat
  <2> HIDE DEF S
  <2>1. S \in SUBSET Nat
    BY DEF S
  <2> QED
    BY <1>1, <1>2, <2>1, InductionInSet
<1>4. m - n \in Nat /\ n + (m - n) = m
  BY DepthAssumption
<1>5. m - n \in S
  BY <1>3, <1>4
<1> QED
  BY <1>4, <1>5

-----------------------------------------------------------------------------
(* The trees.                                                              *)

LEMMA LevelIsTrees ==
  ASSUME NEW n \in 0 .. MaxDepth
  PROVE  Level[n] \subseteq AnyTree
<1>1. MaxDepth \in 0 .. MaxDepth /\ n <= MaxDepth
  BY DepthAssumption
<1> QED
  BY <1>1, LevelsNested, LevelEq

LEMMA LeafIsTree ==
  ASSUME NEW a \in Name
  PROVE  Leaf(a) \in AnyTree
<1>1. Leaf(a) \in LeafTrees
  BY DEF Leaf, LeafTrees
<1>2. 0 \in 0 .. MaxDepth
  BY DepthAssumption
<1> QED
  BY <1>1, <1>2, LevelEq, LevelIsTrees

LEMMA GateIsAtLevel ==
  ASSUME NEW n \in Nat, n < MaxDepth, NEW k \in Nat, NEW children \in Seq(Level[n])
  PROVE  Gate(k, children) \in Level[n + 1]
<1>1. Gate(k, children) \in GatesOver(Level[n])
  BY DEF Gate, GatesOver
<1> QED
  BY <1>1, LevelUp

\* A tree is a leaf or a gate over trees.
LEMMA TreeShape ==
  ASSUME NEW t \in AnyTree
  PROVE  \/ t.kind = "leaf" /\ t.attribute \in Name /\ t = Leaf(t.attribute)
         \/ /\ t.kind = "gate" /\ t.threshold \in Nat /\ t.children \in Seq(AnyTree)
            /\ t = Gate(t.threshold, t.children)
<1>1. CASE t \in LeafTrees
  BY <1>1 DEF LeafTrees, Leaf
<1>2. CASE t \notin LeafTrees
  <2>1. MaxDepth # 0 /\ MaxDepth \in 0 .. MaxDepth
    BY <1>2, LevelEq, DepthAssumption
  <2>2. t \in GatesOver(Level[MaxDepth - 1])
    BY <1>2, <2>1, LevelEq
  <2>3. Level[MaxDepth - 1] \subseteq AnyTree
    BY <2>1, LevelIsTrees, DepthAssumption
  <2>4. t \in GatesOver(AnyTree)
    BY <2>2, <2>3, GatesGrow
  <2> QED
    BY <2>4 DEF GatesOver, Gate
<1> QED
  BY <1>1, <1>2

\* Induction on trees: all are in a set that has the leaves, and a gate if it has
\* its children.
HasLeaves(S) == \A a \in Name : Leaf(a) \in S
HasGates(S) ==
  \A k \in Nat, c \in Seq(AnyTree) :
    Gate(k, c) \in AnyTree /\ (\A i \in DOMAIN c : c[i] \in S) => Gate(k, c) \in S

LEMMA TreeInduction ==
  ASSUME NEW S, HasLeaves(S), HasGates(S)
  PROVE  AnyTree \subseteq S
<1> DEFINE P == {n \in Nat : n <= MaxDepth => Level[n] \subseteq S}
<1>0. LeafTrees \subseteq S
  <2> SUFFICES ASSUME NEW t \in LeafTrees PROVE t \in S
    OBVIOUS
  <2>1. t = Leaf(t.attribute) /\ t.attribute \in Name
    BY DEF LeafTrees, Leaf
  <2> QED
    BY <2>1 DEF HasLeaves
<1>1. 0 \in P
  BY <1>0, LevelEq
<1>2. ASSUME NEW n \in P PROVE n + 1 \in P
  <2> SUFFICES ASSUME n + 1 <= MaxDepth PROVE Level[n + 1] \subseteq S
    OBVIOUS
  <2>1. n \in Nat /\ n < MaxDepth /\ n + 1 \in 0 .. MaxDepth /\ n \in 0 .. MaxDepth
    BY DepthAssumption
  <2>2. Level[n] \subseteq S
    BY <2>1
  <2>3. Level[n + 1] = LeafTrees \cup GatesOver(Level[n])
    BY <2>1, LevelUp
  <2>4. Level[n + 1] \subseteq AnyTree /\ Level[n] \subseteq AnyTree
    BY <2>1, LevelIsTrees
  <2> SUFFICES ASSUME NEW t \in GatesOver(Level[n]) PROVE t \in S
    BY <1>0, <2>3
  <2>5. /\ t.threshold \in Nat /\ t.children \in Seq(Level[n])
        /\ t = Gate(t.threshold, t.children)
    BY DEF GatesOver, Gate
  <2>6. t.children \in Seq(AnyTree) /\ t \in AnyTree
    BY <2>3, <2>4, <2>5
  <2>7. \A i \in DOMAIN t.children : t.children[i] \in S
    BY <2>2, <2>5
  <2> QED
    BY <2>5, <2>6, <2>7 DEF HasGates
<1>3. P = Nat
  <2> HIDE DEF P
  <2>1. P \in SUBSET Nat
    BY DEF P
  <2> QED
    BY <1>1, <1>2, <2>1, InductionInSet
<1> QED
  BY <1>3, LevelEq, DepthAssumption

-----------------------------------------------------------------------------
(* Folds: what a function computes of a tree from what it computes of the  *)
(* names at its leaves and, at every gate, of the threshold and of what it *)
(* has computed of the children.                                           *)

Folded(t, leaf, gate, f) ==
  IF t.kind = "leaf" THEN leaf[t.attribute]
  ELSE gate[<<t.threshold, [i \in DOMAIN t.children |-> f[t.children[i]]]>>]
Folds(n, leaf, gate, f) == f = [t \in Level[n] |-> Folded(t, leaf, gate, f)]
Foldable(n, leaf, gate, V) == \E f \in [Level[n] -> V] : Folds(n, leaf, gate, f)

LEMMA FoldedType ==
  ASSUME NEW V, NEW leaf \in [Name -> V], NEW gate \in [Nat \X Seq(V) -> V],
         NEW S, NEW f \in [S -> V], NEW t \in LeafTrees \cup GatesOver(S)
  PROVE  Folded(t, leaf, gate, f) \in V
<1>1. CASE t \in LeafTrees
  BY <1>1 DEF LeafTrees, Folded
<1>2. CASE t \in GatesOver(S)
  <2>1. t.kind # "leaf" /\ t.threshold \in Nat /\ t.children \in Seq(S)
    BY <1>2 DEF GatesOver
  <2> DEFINE r == [i \in DOMAIN t.children |-> f[t.children[i]]]
  <2>2. r \in Seq(V)
    <3>1. DOMAIN t.children = 1 .. Len(t.children) /\ Len(t.children) \in Nat
      BY <2>1
    <3>2. \A i \in 1 .. Len(t.children) : f[t.children[i]] \in V
      BY <2>1
    <3> QED
      BY <3>1, <3>2
  <2>3. <<t.threshold, r>> \in Nat \X Seq(V)
    BY <2>1, <2>2
  <2> HIDE DEF r
  <2>4. gate[<<t.threshold, r>>] \in V
    BY <2>3
  <2> QED
    BY <2>1, <2>4 DEF Folded, r
<1> QED
  BY <1>1, <1>2

LEMMA FoldsNext ==
  ASSUME NEW V, NEW leaf \in [Name -> V], NEW gate \in [Nat \X Seq(V) -> V],
         NEW n \in Nat, n < MaxDepth, NEW f \in [Level[n] -> V], Folds(n, leaf, gate, f)
  PROVE  \E h \in [Level[n + 1] -> V] : Folds(n + 1, leaf, gate, h)
<1> DEFINE h == [t \in Level[n + 1] |-> Folded(t, leaf, gate, f)]
<1>1. Level[n + 1] = LeafTrees \cup GatesOver(Level[n]) /\ Level[n] \subseteq Level[n + 1]
  BY LevelUp, LevelGrows
<1>2. h \in [Level[n + 1] -> V]
  BY <1>1, FoldedType
<1>3. \A t \in Level[n] : h[t] = f[t]
  <2>1. \A t \in Level[n] : f[t] = Folded(t, leaf, gate, f)
    BY DEF Folds
  <2> QED
    BY <1>1, <2>1
<1>4. ASSUME NEW t \in Level[n + 1]
      PROVE  Folded(t, leaf, gate, f) = Folded(t, leaf, gate, h)
  <2>1. CASE t \in LeafTrees
    BY <2>1 DEF LeafTrees, Folded
  <2>2. CASE t \in GatesOver(Level[n])
    <3>1. t.children \in Seq(Level[n])
      BY <2>2 DEF GatesOver
    <3>2. \A i \in DOMAIN t.children : t.children[i] \in Level[n]
      BY <3>1
    <3> HIDE DEF h
    <3>3. [i \in DOMAIN t.children |-> f[t.children[i]]] =
            [i \in DOMAIN t.children |-> h[t.children[i]]]
      BY <1>3, <3>2
    <3> QED
      BY <3>3 DEF Folded
  <2> QED
    BY <1>1, <2>1, <2>2
<1>5. Folds(n + 1, leaf, gate, h)
  <2>1. \A t \in Level[n + 1] : h[t] = Folded(t, leaf, gate, h)
    BY <1>4
  <2>2. h = [t \in Level[n + 1] |-> h[t]]
    OBVIOUS
  <2> HIDE DEF h
  <2> QED
    BY <2>1, <2>2 DEF Folds
<1> QED
  BY <1>2, <1>5

\* A fold exists and computes what it is to compute.
LEMMA FoldExists ==
  ASSUME NEW V, NEW leaf \in [Name -> V], NEW gate \in [Nat \X Seq(V) -> V]
  PROVE  \E f \in [AnyTree -> V] : \A t \in AnyTree : f[t] = Folded(t, leaf, gate, f)
<1> DEFINE S == {n \in Nat : n <= MaxDepth => Foldable(n, leaf, gate, V)}
<1>1. 0 \in S
  <2> DEFINE f == [t \in Level[0] |-> leaf[t.attribute]]
  <2>1. \A t \in Level[0] : t.kind = "leaf" /\ t.attribute \in Name
    BY LevelEq DEF LeafTrees
  <2>2. f \in [Level[0] -> V]
    BY <2>1
  <2>3. Folds(0, leaf, gate, f)
    BY <2>1 DEF Folds, Folded
  <2> QED
    BY <2>2, <2>3 DEF Foldable
<1>2. ASSUME NEW n \in S PROVE n + 1 \in S
  <2> SUFFICES ASSUME n + 1 <= MaxDepth PROVE Foldable(n + 1, leaf, gate, V)
    OBVIOUS
  <2>1. n \in Nat /\ n < MaxDepth /\ n <= MaxDepth
    BY DepthAssumption
  <2>2. PICK f \in [Level[n] -> V] : Folds(n, leaf, gate, f)
    <3>1. Foldable(n, leaf, gate, V)
      BY <2>1
    <3> QED
      BY <3>1 DEF Foldable
  <2> QED
    BY <2>1, <2>2, FoldsNext DEF Foldable
<1>3. S = Nat
  <2> HIDE DEF S
  <2>1. S \in SUBSET Nat
    BY DEF S
  <2> QED
    BY <1>1, <1>2, <2>1, InductionInSet
<1>4. PICK f \in [Level[MaxDepth] -> V] : Folds(MaxDepth, leaf, gate, f)
  <2>1. Foldable(MaxDepth, leaf, gate, V)
    BY <1>3, DepthAssumption
  <2> QED
    BY <2>1 DEF Foldable
<1>5. \A t \in Level[MaxDepth] : f[t] = Folded(t, leaf, gate, f)
  BY <1>4 DEF Folds
<1> QED
  BY <1>4, <1>5, LevelEq

\* The children of a gate are trees, and what a fold gives for them a sequence.
LEMMA GateParts ==
  ASSUME NEW k, NEW c, Gate(k, c) \in AnyTree
  PROVE  k \in Nat /\ c \in Seq(AnyTree) /\ \A i \in DOMAIN c : c[i] \in AnyTree
<1>1. /\ Gate(k, c).kind = "gate" /\ Gate(k, c).threshold = k /\ Gate(k, c).children = c
  BY DEF Gate
<1>2. k \in Nat /\ c \in Seq(AnyTree)
  BY <1>1, TreeShape
<1> QED
  BY <1>2

LEMMA FoldOfChildren ==
  ASSUME NEW V, NEW f \in [AnyTree -> V], NEW c \in Seq(AnyTree)
  PROVE  /\ [i \in DOMAIN c |-> f[c[i]]] \in Seq(V)
         /\ Len([i \in DOMAIN c |-> f[c[i]]]) = Len(c)
<1>1. DOMAIN c = 1 .. Len(c) /\ Len(c) \in Nat
  OBVIOUS
<1>2. \A i \in 1 .. Len(c) : f[c[i]] \in V
  OBVIOUS
<1>3. [i \in 1 .. Len(c) |-> f[c[i]]] \in Seq(V)
  BY <1>1, <1>2
<1> QED
  BY <1>1, <1>3

-----------------------------------------------------------------------------
(* AccessTree::is_satisfied_by.                                            *)

Satisfies(attrs, f) ==
  f = [t \in AnyTree |->
         IF t.kind = "leaf" THEN t.attribute \in attrs
         ELSE Cardinality({i \in DOMAIN t.children : f[t.children[i]]}) >= t.threshold]

LEMMA SatisfiesExists ==
  ASSUME NEW attrs
  PROVE  \E f \in [AnyTree -> BOOLEAN] : Satisfies(attrs, f)
<1> DEFINE leaf == [a \in Name |-> a \in attrs]
           gate == [x \in Nat \X Seq(BOOLEAN) |->
                      Cardinality({i \in DOMAIN x[2] : x[2][i]}) >= x[1]]
<1>1. leaf \in [Name -> BOOLEAN] /\ gate \in [Nat \X Seq(BOOLEAN) -> BOOLEAN]
  OBVIOUS
<1>2. \A a \in Name : leaf[a] <=> a \in attrs
  OBVIOUS
<1>3. ASSUME NEW k \in Nat, NEW r \in Seq(BOOLEAN)
      PROVE  gate[<<k, r>>] <=> Cardinality({i \in DOMAIN r : r[i]}) >= k
  <2>1. <<k, r>> \in Nat \X Seq(BOOLEAN) /\ <<k, r>>[1] = k /\ <<k, r>>[2] = r
    OBVIOUS
  <2> QED
    BY <2>1
<1> HIDE DEF leaf, gate
<1>4. PICK f \in [AnyTree -> BOOLEAN] : \A t \in AnyTree : f[t] = Folded(t, leaf, gate, f)
  BY <1>1, FoldExists
<1>5. ASSUME NEW t \in AnyTree
      PROVE  f[t] = IF t.kind = "leaf" THEN t.attribute \in attrs
                    ELSE Cardinality({i \in DOMAIN t.children : f[t.children[i]]}) >= t.threshold
  <2>1. CASE t.kind = "leaf"
    <3>1. t.attribute \in Name
      BY <2>1, TreeShape
    <3>2. f[t] = leaf[t.attribute]
      BY <1>4, <2>1 DEF Folded
    <3>3. f[t] \in BOOLEAN
      OBVIOUS
    <3> QED
      BY <1>2, <2>1, <3>1, <3>2, <3>3
  <2>2. CASE t.kind # "leaf"
    <3> DEFINE r == [i \in DOMAIN t.children |-> f[t.children[i]]]
    <3>1. t.threshold \in Nat /\ t.children \in Seq(AnyTree)
      BY <2>2, TreeShape
    <3>2. r \in Seq(BOOLEAN)
      BY <3>1, FoldOfChildren
    <3>3. {i \in DOMAIN r : r[i]} = {i \in DOMAIN t.children : f[t.children[i]]}
      OBVIOUS
    <3>4. f[t] = gate[<<t.threshold, r>>]
      BY <1>4, <2>2 DEF Folded
    <3>5. f[t] \in BOOLEAN
      OBVIOUS
    <3> HIDE DEF r
    <3>6. f[t] <=> Cardinality({i \in DOMAIN r : r[i]}) >= t.threshold
      BY <1>3, <3>1, <3>2, <3>4
    <3> QED
      BY <2>2, <3>3, <3>5, <3>6
  <2> QED
    BY <2>1, <2>2
<1>6. f = [t \in AnyTree |-> f[t]]
  OBVIOUS
<1>7. Satisfies(attrs, f)
  BY <1>5, <1>6 DEF Satisfies
<1> QED
  BY <1>7

LEMMA SatisfiedLeaf ==
  ASSUME NEW attrs, NEW a \in Name
  PROVE  IsSatisfiedBy(Leaf(a), attrs) <=> a \in attrs
<1> DEFINE f == CHOOSE f : Satisfies(attrs, f)
<1>1. Satisfies(attrs, f)
  BY SatisfiesExists
<1>2. IsSatisfiedBy(Leaf(a), attrs) = f[Leaf(a)]
  BY DEF IsSatisfiedBy, Satisfies
<1>3. Leaf(a) \in AnyTree /\ Leaf(a).kind = "leaf" /\ Leaf(a).attribute = a
  BY LeafIsTree DEF Leaf
<1> HIDE DEF f
<1>4. f[Leaf(a)] = (a \in attrs)
  BY <1>1, <1>3 DEF Satisfies
<1> QED
  BY <1>2, <1>4

LEMMA SatisfiedGate ==
  ASSUME NEW attrs, NEW k, NEW c, Gate(k, c) \in AnyTree
  PROVE  IsSatisfiedBy(Gate(k, c), attrs)
           <=> Cardinality({i \in DOMAIN c : IsSatisfiedBy(c[i], attrs)}) >= k
<1> DEFINE f == CHOOSE f : Satisfies(attrs, f)
<1>1. Satisfies(attrs, f)
  BY SatisfiesExists
<1>2. \A t : IsSatisfiedBy(t, attrs) = f[t]
  BY DEF IsSatisfiedBy, Satisfies
<1>3. /\ Gate(k, c).kind # "leaf" /\ Gate(k, c).threshold = k /\ Gate(k, c).children = c
  BY DEF Gate
<1> HIDE DEF f
<1>4. f[Gate(k, c)] = (Cardinality({i \in DOMAIN c : f[c[i]]}) >= k)
  BY <1>1, <1>3 DEF Satisfies
<1>5. {i \in DOMAIN c : f[c[i]]} = {i \in DOMAIN c : IsSatisfiedBy(c[i], attrs)}
  BY <1>2
<1> QED
  BY <1>2, <1>4, <1>5

-----------------------------------------------------------------------------
(* FlattenSeq.                                                             *)

Flattens(s, n, g) == g = [i \in 1 .. n |-> IF i = 1 THEN s[i] ELSE g[i - 1] \o s[i]]

LEMMA FlattensNext ==
  ASSUME NEW s, NEW n \in Nat, NEW g, Flattens(s, n, g)
  PROVE  \E h : Flattens(s, n + 1, h)
<1> DEFINE last == IF n = 0 THEN s[n + 1] ELSE g[n] \o s[n + 1]
           h == [i \in 1 .. n + 1 |-> IF i <= n THEN g[i] ELSE last]
<1>1. \A i \in 1 .. n : h[i] = g[i]
  OBVIOUS
<1>2. \A i \in 1 .. n : g[i] = IF i = 1 THEN s[i] ELSE g[i - 1] \o s[i]
  BY DEF Flattens
<1>3. h[n + 1] = last
  OBVIOUS
<1>4. ASSUME NEW i \in 1 .. n + 1
      PROVE  h[i] = IF i = 1 THEN s[i] ELSE h[i - 1] \o s[i]
  <2>1. CASE i \in 1 .. n
    <3>1. i # 1 => i - 1 \in 1 .. n
      BY <2>1
    <3> HIDE DEF h, last
    <3> QED
      BY <1>1, <1>2, <2>1, <3>1
  <2>2. CASE i = n + 1
    <3>1. i # 1 => h[i - 1] = g[n] /\ n # 0
      BY <1>1, <2>2
    <3>2. i = 1 <=> n = 0
      BY <2>2
    <3> HIDE DEF h
    <3> QED
      BY <1>3, <2>2, <3>1, <3>2
  <2> QED
    BY <2>1, <2>2
<1>5. Flattens(s, n + 1, h)
  <2>1. h = [i \in 1 .. n + 1 |-> h[i]]
    OBVIOUS
  <2> HIDE DEF h
  <2> QED
    BY <1>4, <2>1 DEF Flattens
<1> QED
  BY <1>5

LEMMA FlattensExist ==
  ASSUME NEW s, NEW n \in Nat
  PROVE  \E g : Flattens(s, n, g)
<1> DEFINE S == {m \in Nat : \E g : Flattens(s, m, g)}
<1>1. 0 \in S
  <2>1. Flattens(s, 0, [i \in 1 .. 0 |-> s])
    BY DEF Flattens
  <2> QED
    BY <2>1
<1>2. \A m \in S : m + 1 \in S
  BY FlattensNext
<1>3. S = Nat
  <2> HIDE DEF S
  <2>1. S \in SUBSET Nat
    BY DEF S
  <2> QED
    BY <1>1, <1>2, <2>1, InductionInSet
<1> QED
  BY <1>3

LEMMA EmptyConcat ==
  ASSUME NEW V, NEW x \in Seq(V)
  PROVE  << >> \o x = x /\ x \o << >> = x
<1>1. << >> \in Seq(V) /\ << >> \o x \in Seq(V) /\ x \o << >> \in Seq(V)
  OBVIOUS
<1>2. Len(<< >> \o x) = Len(x) /\ \A i \in 1 .. Len(x) : (<< >> \o x)[i] = x[i]
  OBVIOUS
<1>3. Len(x \o << >>) = Len(x) /\ \A i \in 1 .. Len(x) : (x \o << >>)[i] = x[i]
  OBVIOUS
<1> QED
  BY <1>1, <1>2, <1>3

\* What has been flattened after each of the sequences.
LEMMA FlattenRun ==
  ASSUME NEW V, NEW s \in Seq(Seq(V))
  PROVE  \E g \in [0 .. Len(s) -> Seq(V)] :
           /\ g[0] = << >>
           /\ \A n \in 1 .. Len(s) : g[n] = g[n - 1] \o s[n]
           /\ FlattenSeq(s) = g[Len(s)]
<1>1. Len(s) \in Nat
  OBVIOUS
<1>2. CASE Len(s) = 0
  <2>1. s = << >>
    BY <1>2
  <2>2. FlattenSeq(s) = << >>
    BY <1>2, <2>1 DEF FlattenSeq
  <2> DEFINE g == [i \in 0 .. 0 |-> << >>]
  <2>3. g \in [0 .. Len(s) -> Seq(V)] /\ g[0] = << >>
    BY <1>2
  <2> HIDE DEF g
  <2>4. \A n \in 1 .. Len(s) : g[n] = g[n - 1] \o s[n]
    BY <1>2
  <2> QED
    BY <1>2, <2>2, <2>3, <2>4
<1>3. CASE Len(s) > 0
  <2> DEFINE f == CHOOSE f : Flattens(s, Len(s), f)
             g == [i \in 0 .. Len(s) |-> IF i = 0 THEN << >> ELSE f[i]]
  <2>1. Flattens(s, Len(s), f)
    BY <1>1, FlattensExist
  <2>2. FlattenSeq(s) = f[Len(s)]
    BY <1>3 DEF FlattenSeq, Flattens
  <2> HIDE DEF f
  <2>3. \A n \in 1 .. Len(s) : f[n] = IF n = 1 THEN s[n] ELSE f[n - 1] \o s[n]
    BY <2>1 DEF Flattens
  <2> DEFINE S == {n \in Nat : n + 1 <= Len(s) => f[n + 1] \in Seq(V)}
  <2>4. 0 \in S
    BY <2>3
  <2>5. ASSUME NEW n \in S PROVE n + 1 \in S
    <3> SUFFICES ASSUME (n + 1) + 1 <= Len(s) PROVE f[(n + 1) + 1] \in Seq(V)
      OBVIOUS
    <3>1. n \in Nat /\ (n + 1) + 1 \in 1 .. Len(s) /\ (n + 1) + 1 # 1
      BY <1>1
    <3>2. f[n + 1] \in Seq(V) /\ s[(n + 1) + 1] \in Seq(V)
      BY <3>1
    <3>3. f[(n + 1) + 1] = f[n + 1] \o s[(n + 1) + 1]
      <4>1. ((n + 1) + 1) - 1 = n + 1
        BY <3>1
      <4> QED
        BY <2>3, <3>1, <4>1
    <3> QED
      BY <3>2, <3>3
  <2>6. S = Nat
    <3> HIDE DEF S
    <3>1. S \in SUBSET Nat
      BY DEF S
    <3> QED
      BY <2>4, <2>5, <3>1, InductionInSet
  <2>7. \A n \in 1 .. Len(s) : f[n] \in Seq(V)
    <3> SUFFICES ASSUME NEW n \in 1 .. Len(s) PROVE f[n] \in Seq(V)
      OBVIOUS
    <3>1. n - 1 \in Nat /\ (n - 1) + 1 = n /\ n <= Len(s)
      BY <1>1
    <3>2. n - 1 \in S
      BY <2>6, <3>1
    <3> QED
      BY <3>1, <3>2
  <2>8. g \in [0 .. Len(s) -> Seq(V)]
    BY <2>7
  <2>9. g[0] = << >> /\ \A n \in 1 .. Len(s) : g[n] = f[n]
    BY <1>1
  <2>10. ASSUME NEW n \in 1 .. Len(s) PROVE g[n] = g[n - 1] \o s[n]
    <3> HIDE DEF g
    <3>1. CASE n = 1
      <4>1. s[n] \in Seq(V) /\ << >> \o s[n] = s[n]
        BY EmptyConcat
      <4>2. n - 1 = 0 /\ g[n] = s[n]
        BY <2>3, <2>9, <3>1
      <4>3. g[n - 1] = << >>
        BY <2>9, <4>2
      <4> HIDE DEF S
      <4> QED
        BY <4>1, <4>2, <4>3, Zenon
    <3>2. CASE n # 1
      <4>1. n - 1 \in 1 .. Len(s)
        BY <3>2
      <4> QED
        BY <2>3, <2>9, <3>2, <4>1
    <3> QED
      BY <3>1, <3>2
  <2>11. FlattenSeq(s) = g[Len(s)]
    BY <1>3, <2>2, <2>9
  <2> HIDE DEF g
  <2> QED
    BY <2>8, <2>9, <2>10, <2>11
<1>4. Len(s) = 0 \/ Len(s) > 0
  BY <1>1
<1> QED
  BY <1>2, <1>3, <1>4

LEMMA ConcatElements ==
  ASSUME NEW V, NEW x \in Seq(V), NEW y \in Seq(V)
  PROVE  ToSet(x \o y) = ToSet(x) \cup ToSet(y)
<1>1. /\ x \o y \in Seq(V) /\ Len(x) \in Nat /\ Len(y) \in Nat
      /\ Len(x \o y) = Len(x) + Len(y)
      /\ DOMAIN x = 1 .. Len(x) /\ DOMAIN y = 1 .. Len(y)
      /\ DOMAIN (x \o y) = 1 .. Len(x) + Len(y)
  OBVIOUS
<1>2. \A i \in 1 .. Len(x) : i \in 1 .. Len(x) + Len(y) /\ (x \o y)[i] = x[i]
  OBVIOUS
<1>3. \A i \in 1 .. Len(y) : /\ Len(x) + i \in 1 .. Len(x) + Len(y)
                              /\ (x \o y)[Len(x) + i] = y[i]
  OBVIOUS
<1>4. ToSet(x) \cup ToSet(y) \subseteq ToSet(x \o y)
  BY <1>1, <1>2, <1>3 DEF ToSet
<1>5. ASSUME NEW i \in 1 .. Len(x) + Len(y)
      PROVE  (x \o y)[i] \in ToSet(x) \cup ToSet(y)
  <2>1. CASE i \in 1 .. Len(x)
    BY <1>1, <1>2, <2>1 DEF ToSet
  <2>2. CASE i \notin 1 .. Len(x)
    <3>1. i - Len(x) \in 1 .. Len(y) /\ Len(x) + (i - Len(x)) = i
      BY <1>1, <2>2
    <3>2. (x \o y)[i] = y[i - Len(x)]
      BY <1>3, <3>1
    <3> QED
      BY <1>1, <3>1, <3>2 DEF ToSet
  <2> QED
    BY <2>1, <2>2
<1>6. ToSet(x \o y) \subseteq ToSet(x) \cup ToSet(y)
  BY <1>1, <1>5 DEF ToSet
<1> QED
  BY <1>4, <1>6

\* The elements are those of all the sequences.
LEMMA FlattenElements ==
  ASSUME NEW V, NEW s \in Seq(Seq(V))
  PROVE  /\ FlattenSeq(s) \in Seq(V)
         /\ ToSet(FlattenSeq(s)) = UNION {ToSet(s[i]) : i \in DOMAIN s}
<1>1. PICK g \in [0 .. Len(s) -> Seq(V)] :
           /\ g[0] = << >>
           /\ \A n \in 1 .. Len(s) : g[n] = g[n - 1] \o s[n]
           /\ FlattenSeq(s) = g[Len(s)]
  BY FlattenRun
<1>2. Len(s) \in Nat /\ DOMAIN s = 1 .. Len(s)
  OBVIOUS
<1> DEFINE S == {n \in Nat : n <= Len(s) => ToSet(g[n]) = UNION {ToSet(s[i]) : i \in 1 .. n}}
<1>3. 0 \in S
  <2>1. ToSet(g[0]) = {}
    BY <1>1 DEF ToSet
  <2>2. UNION {ToSet(s[i]) : i \in 1 .. 0} = {}
    OBVIOUS
  <2> QED
    BY <2>1, <2>2
<1>4. ASSUME NEW n \in S PROVE n + 1 \in S
  <2> SUFFICES ASSUME n + 1 <= Len(s)
               PROVE  ToSet(g[n + 1]) = UNION {ToSet(s[i]) : i \in 1 .. n + 1}
    OBVIOUS
  <2>1. n \in Nat /\ n + 1 \in 1 .. Len(s) /\ (n + 1) - 1 = n /\ n \in 0 .. Len(s) /\ n <= Len(s)
    BY <1>2
  <2>2. ToSet(g[n]) = UNION {ToSet(s[i]) : i \in 1 .. n}
    BY <2>1
  <2>3. g[n + 1] = g[n] \o s[n + 1]
    BY <1>1, <2>1
  <2>4. g[n] \in Seq(V) /\ s[n + 1] \in Seq(V)
    BY <2>1
  <2>5. ToSet(g[n] \o s[n + 1]) = ToSet(g[n]) \cup ToSet(s[n + 1])
    BY <2>4, ConcatElements
  <2>6. 1 .. n + 1 = (1 .. n) \cup {n + 1}
    BY <2>1
  <2>7. UNION {ToSet(s[i]) : i \in 1 .. n + 1}
          = (UNION {ToSet(s[i]) : i \in 1 .. n}) \cup ToSet(s[n + 1])
    BY <2>6
  <2> QED
    BY <2>2, <2>3, <2>5, <2>7
<1>5. S = Nat
  <2> HIDE DEF S
  <2>1. S \in SUBSET Nat
    BY DEF S
  <2> QED
    BY <1>3, <1>4, <2>1, InductionInSet
<1>6. Len(s) \in S
  BY <1>2, <1>5
<1>7. ToSet(g[Len(s)]) = UNION {ToSet(s[i]) : i \in 1 .. Len(s)}
  BY <1>2, <1>6
<1>8. g[Len(s)] \in Seq(V)
  BY <1>2
<1> QED
  BY <1>1, <1>2, <1>7, <1>8

\* A function of the elements, before and after.
Mapped(s, h) == [i \in DOMAIN s |-> h[s[i]]]

LEMMA MappedType ==
  ASSUME NEW V, NEW W, NEW h \in [V -> W]
  PROVE  \A s \in Seq(V) : /\ Mapped(s, h) \in Seq(W)
                           /\ Len(Mapped(s, h)) = Len(s)
                           /\ \A i \in 1 .. Len(s) : Mapped(s, h)[i] = h[s[i]]
<1> SUFFICES ASSUME NEW s \in Seq(V)
             PROVE  /\ Mapped(s, h) \in Seq(W)
                    /\ Len(Mapped(s, h)) = Len(s)
                    /\ \A i \in 1 .. Len(s) : Mapped(s, h)[i] = h[s[i]]
  OBVIOUS
<1>1. DOMAIN s = 1 .. Len(s) /\ Len(s) \in Nat
  OBVIOUS
<1>2. \A i \in 1 .. Len(s) : h[s[i]] \in W
  OBVIOUS
<1> QED
  BY <1>1, <1>2 DEF Mapped

\* Two sequences that are put together alike are the same.
Joins(l, x, y) ==
  /\ Len(l) = Len(x) + Len(y)
  /\ \A i \in 1 .. Len(x) : l[i] = x[i]
  /\ \A i \in 1 .. Len(y) : l[Len(x) + i] = y[i]

LEMMA JoinIsConcat ==
  ASSUME NEW V, NEW x \in Seq(V), NEW y \in Seq(V), NEW l \in Seq(V), Joins(l, x, y)
  PROVE  l = x \o y
<1>1. /\ Len(x) \in Nat /\ Len(y) \in Nat /\ x \o y \in Seq(V)
      /\ Len(x \o y) = Len(x) + Len(y) /\ Len(l) = Len(x) + Len(y)
  BY DEF Joins
<1>2. ASSUME NEW i \in 1 .. Len(x) + Len(y) PROVE l[i] = (x \o y)[i]
  <2>1. CASE i <= Len(x)
    <3>1. (x \o y)[i] = x[i]
      BY <1>1, <2>1
    <3> QED
      BY <1>1, <2>1, <3>1 DEF Joins
  <2>2. CASE i > Len(x)
    <3>1. i - Len(x) \in 1 .. Len(y) /\ Len(x) + (i - Len(x)) = i
      BY <1>1, <2>2
    <3>2. l[i] = y[i - Len(x)]
      BY <3>1 DEF Joins
    <3>3. (x \o y)[i] = y[i - Len(x)]
      BY <1>1, <2>2, <3>1
    <3> QED
      BY <3>2, <3>3
  <2> QED
    BY <1>1, <2>1, <2>2
<1> DEFINE r == x \o y
<1>3. /\ r \in Seq(V) /\ Len(r) = Len(l) /\ \A i \in 1 .. Len(l) : l[i] = r[i]
  BY <1>1, <1>2
<1> HIDE DEF r
<1>4. l = r
  BY <1>3
<1> QED
  BY <1>4 DEF r

LEMMA MappedConcat ==
  ASSUME NEW V, NEW W, NEW h \in [V -> W], NEW x \in Seq(V), NEW y \in Seq(V)
  PROVE  Mapped(x \o y, h) = Mapped(x, h) \o Mapped(y, h)
<1>0. \A s \in Seq(V) : /\ Mapped(s, h) \in Seq(W)
                        /\ Len(Mapped(s, h)) = Len(s)
                        /\ \A i \in 1 .. Len(s) : Mapped(s, h)[i] = h[s[i]]
  BY MappedType
<1>1. /\ x \o y \in Seq(V) /\ Len(x \o y) = Len(x) + Len(y)
      /\ Len(x) \in Nat /\ Len(y) \in Nat
  OBVIOUS
<1>2. \A i \in 1 .. Len(x) : (x \o y)[i] = x[i] /\ i \in 1 .. Len(x) + Len(y)
  OBVIOUS
<1>3. \A i \in 1 .. Len(y) : (x \o y)[Len(x) + i] = y[i] /\ Len(x) + i \in 1 .. Len(x) + Len(y)
  OBVIOUS
<1>4. \A i \in 1 .. Len(x) : Mapped(x \o y, h)[i] = Mapped(x, h)[i]
  BY <1>1, <1>2 DEF Mapped
<1>5. \A i \in 1 .. Len(y) : Mapped(x \o y, h)[Len(x) + i] = Mapped(y, h)[i]
  BY <1>1, <1>3 DEF Mapped
<1>6. /\ Mapped(x, h) \in Seq(W) /\ Mapped(y, h) \in Seq(W) /\ Mapped(x \o y, h) \in Seq(W)
      /\ Len(Mapped(x, h)) = Len(x) /\ Len(Mapped(y, h)) = Len(y)
      /\ Len(Mapped(x \o y, h)) = Len(x) + Len(y)
  BY <1>0, <1>1
<1>7. Joins(Mapped(x \o y, h), Mapped(x, h), Mapped(y, h))
  BY <1>4, <1>5, <1>6 DEF Joins
<1> QED
  BY <1>6, <1>7, JoinIsConcat, Zenon

LEMMA FlattenMapped ==
  ASSUME NEW V, NEW W, NEW h \in [V -> W], NEW s \in Seq(Seq(V))
  PROVE  FlattenSeq([i \in DOMAIN s |-> Mapped(s[i], h)]) = Mapped(FlattenSeq(s), h)
<1> DEFINE r == [i \in DOMAIN s |-> Mapped(s[i], h)]
<1>1. PICK g \in [0 .. Len(s) -> Seq(V)] :
           /\ g[0] = << >>
           /\ \A n \in 1 .. Len(s) : g[n] = g[n - 1] \o s[n]
           /\ FlattenSeq(s) = g[Len(s)]
  BY FlattenRun
<1>2. Len(s) \in Nat /\ DOMAIN s = 1 .. Len(s)
  OBVIOUS
<1>3. r \in Seq(Seq(W)) /\ Len(r) = Len(s)
  <2>1. \A x \in Seq(V) : Mapped(x, h) \in Seq(W)
    BY MappedType, Zenon
  <2> QED
    BY <1>2, <2>1
<1>4. \A i \in 1 .. Len(s) : r[i] = Mapped(s[i], h)
  BY <1>2
<1> HIDE DEF r
<1>0. (\A n \in 0 .. Len(s) : g[n] \in Seq(V)) /\ \A n \in 1 .. Len(s) : s[n] \in Seq(V)
  <2>1. \A n \in 0 .. Len(s) : g[n] \in Seq(V)
    BY Zenon
  <2>2. \A n \in 1 .. Len(s) : s[n] \in Seq(V)
    BY <1>2
  <2> QED
    BY <2>1, <2>2
<1>m. \A x, y \in Seq(V) : Mapped(x \o y, h) = Mapped(x, h) \o Mapped(y, h)
  BY MappedConcat, Zenon
<1>5. PICK f \in [0 .. Len(r) -> Seq(W)] :
           /\ f[0] = << >>
           /\ \A n \in 1 .. Len(r) : f[n] = f[n - 1] \o r[n]
           /\ FlattenSeq(r) = f[Len(r)]
  BY <1>3, FlattenRun
<1> DEFINE S == {n \in Nat : n <= Len(s) => f[n] = Mapped(g[n], h)}
<1>6. 0 \in S
  <2>1. Mapped(<< >>, h) = << >>
    BY DEF Mapped
  <2> QED
    BY <1>1, <1>5, <2>1
<1>7. ASSUME NEW n \in S PROVE n + 1 \in S
  <2> SUFFICES ASSUME n + 1 <= Len(s) PROVE f[n + 1] = Mapped(g[n + 1], h)
    OBVIOUS
  <2>1. n \in Nat /\ n + 1 \in 1 .. Len(s) /\ (n + 1) - 1 = n /\ n \in 0 .. Len(s) /\ n <= Len(s)
    BY <1>2
  <2>2. f[n] = Mapped(g[n], h)
    BY <2>1
  <2>3. g[n + 1] = g[n] \o s[n + 1] /\ f[n + 1] = f[n] \o r[n + 1]
    BY <1>1, <1>3, <1>5, <2>1
  <2>4. g[n] \in Seq(V) /\ s[n + 1] \in Seq(V)
    BY <1>0, <2>1
  <2>5. Mapped(g[n] \o s[n + 1], h) = Mapped(g[n], h) \o Mapped(s[n + 1], h)
    BY <1>m, <2>4
  <2> QED
    BY <1>4, <2>1, <2>2, <2>3, <2>5
<1>8. S = Nat
  <2> HIDE DEF S
  <2>1. S \in SUBSET Nat
    BY DEF S
  <2> QED
    BY <1>6, <1>7, <2>1, InductionInSet
<1>9. f[Len(s)] = Mapped(g[Len(s)], h)
  <2>1. Len(s) \in S /\ Len(s) <= Len(s)
    BY <1>2, <1>8
  <2> QED
    BY <2>1
<1> QED
  BY <1>1, <1>3, <1>5, <1>9 DEF r

\* Sequences of two elements each.
LEMMA FlattenPairs ==
  ASSUME NEW V, NEW s \in Seq(Seq(V)), \A i \in DOMAIN s : Len(s[i]) = 2
  PROVE  Len(FlattenSeq(s)) = 2 * Len(s)
<1>1. PICK g \in [0 .. Len(s) -> Seq(V)] :
           /\ g[0] = << >>
           /\ \A n \in 1 .. Len(s) : g[n] = g[n - 1] \o s[n]
           /\ FlattenSeq(s) = g[Len(s)]
  BY FlattenRun
<1>2. Len(s) \in Nat /\ DOMAIN s = 1 .. Len(s)
  OBVIOUS
<1>0. (\A n \in 0 .. Len(s) : g[n] \in Seq(V)) /\ \A n \in 1 .. Len(s) : s[n] \in Seq(V)
  OBVIOUS
<1> DEFINE S == {n \in Nat : n <= Len(s) => Len(g[n]) = 2 * n}
<1>3. 0 \in S
  BY <1>1
<1>4. ASSUME NEW n \in S PROVE n + 1 \in S
  <2> SUFFICES ASSUME n + 1 <= Len(s) PROVE Len(g[n + 1]) = 2 * (n + 1)
    OBVIOUS
  <2>1. n \in Nat /\ n + 1 \in 1 .. Len(s) /\ (n + 1) - 1 = n /\ n \in 0 .. Len(s) /\ n <= Len(s)
    BY <1>2
  <2>2. g[n + 1] = g[n] \o s[n + 1] /\ Len(g[n]) = 2 * n /\ Len(s[n + 1]) = 2
    BY <1>1, <1>2, <2>1
  <2>3. g[n] \in Seq(V) /\ s[n + 1] \in Seq(V)
    BY <1>0, <2>1
  <2>4. Len(g[n] \o s[n + 1]) = Len(g[n]) + Len(s[n + 1])
    BY <2>3
  <2> QED
    BY <2>1, <2>2, <2>4
<1>5. S = Nat
  <2> HIDE DEF S
  <2>1. S \in SUBSET Nat
    BY DEF S
  <2> QED
    BY <1>3, <1>4, <2>1, InductionInSet
<1>6. Len(s) \in S /\ Len(s) <= Len(s)
  BY <1>2, <1>5
<1> QED
  BY <1>1, <1>6

\* Sequences of one element each.
LEMMA FlattenSingles ==
  ASSUME NEW V, NEW w \in Seq(V)
  PROVE  FlattenSeq([i \in DOMAIN w |-> <<w[i]>>]) = w
<1> DEFINE s == [i \in DOMAIN w |-> <<w[i]>>]
<1>0. s \in Seq(Seq(V)) /\ Len(s) = Len(w) /\ \A i \in 1 .. Len(w) : s[i] = <<w[i]>>
  <2>1. \A i \in 1 .. Len(w) : <<w[i]>> \in Seq(V)
    OBVIOUS
  <2>2. DOMAIN w = 1 .. Len(w) /\ Len(w) \in Nat
    OBVIOUS
  <2>3. [i \in 1 .. Len(w) |-> <<w[i]>>] \in Seq(Seq(V))
    BY <2>1, <2>2
  <2> QED
    BY <2>2, <2>3
<1> HIDE DEF s
<1>1. PICK g \in [0 .. Len(s) -> Seq(V)] :
           /\ g[0] = << >>
           /\ \A n \in 1 .. Len(s) : g[n] = g[n - 1] \o s[n]
           /\ FlattenSeq(s) = g[Len(s)]
  BY <1>0, FlattenRun
<1>2. Len(w) \in Nat
  OBVIOUS
<1> DEFINE S == {n \in Nat : n <= Len(w) => Len(g[n]) = n /\ \A i \in 1 .. n : g[n][i] = w[i]}
<1>3. 0 \in S
  BY <1>1
<1>4. ASSUME NEW n \in S PROVE n + 1 \in S
  <2> SUFFICES ASSUME n + 1 <= Len(w)
               PROVE  Len(g[n + 1]) = n + 1 /\ \A i \in 1 .. n + 1 : g[n + 1][i] = w[i]
    OBVIOUS
  <2>1. n \in Nat /\ n + 1 \in 1 .. Len(w) /\ (n + 1) - 1 = n /\ n \in 0 .. Len(w) /\ n <= Len(w)
    BY <1>2
  <2>2. Len(g[n]) = n /\ \A i \in 1 .. n : g[n][i] = w[i]
    BY <2>1
  <2>3. g[n + 1] = g[n] \o <<w[n + 1]>>
    BY <1>0, <1>1, <2>1
  <2>4. g[n] \in Seq(V) /\ <<w[n + 1]>> \in Seq(V)
    BY <1>0, <2>1
  <2> DEFINE x == g[n]
             y == w[n + 1]
  <2>a. x \in Seq(V) /\ <<y>> \in Seq(V) /\ Len(x) = n /\ n \in Nat
    BY <2>1, <2>2, <2>4
  <2> HIDE DEF S, x, y
  <2>b. /\ Len(x \o <<y>>) = n + 1 /\ (x \o <<y>>)[n + 1] = y
        /\ \A i \in 1 .. n : (x \o <<y>>)[i] = x[i]
    BY <2>a
  <2>5. Len(g[n + 1]) = n + 1
    BY <2>3, <2>b DEF x, y
  <2>6. \A i \in 1 .. n : g[n + 1][i] = w[i]
    BY <2>2, <2>3, <2>b DEF x, y
  <2>7. g[n + 1][n + 1] = w[n + 1]
    BY <2>3, <2>b DEF x, y
  <2> QED
    BY <2>1, <2>5, <2>6, <2>7
<1>5. S = Nat
  <2> HIDE DEF S
  <2>1. S \in SUBSET Nat
    BY DEF S
  <2> QED
    BY <1>3, <1>4, <2>1, InductionInSet
<1>6. Len(w) \in S /\ Len(w) <= Len(w)
  BY <1>2, <1>5
<1>7. Len(g[Len(w)]) = Len(w) /\ \A i \in 1 .. Len(w) : g[Len(w)][i] = w[i]
  BY <1>6
<1>8. g[Len(w)] \in Seq(V)
  BY <1>0, <1>2
<1>9. g[Len(w)] = w
  BY <1>7, <1>8
<1> QED
  BY <1>0, <1>1, <1>9 DEF s

-----------------------------------------------------------------------------
(* AccessTree::leaves.                                                     *)

Lists(f) ==
  f = [t \in AnyTree |->
         IF t.kind = "leaf" THEN <<t.attribute>>
         ELSE FlattenSeq([i \in DOMAIN t.children |-> f[t.children[i]]])]

LEMMA ListsExists == \E f \in [AnyTree -> Seq(Name)] : Lists(f)
<1> DEFINE V    == Seq(Name)
           leaf == [a \in Name |-> <<a>>]
           gate == [x \in Nat \X Seq(V) |-> FlattenSeq(x[2])]
<1>1. leaf \in [Name -> V]
  OBVIOUS
<1>2. gate \in [Nat \X Seq(V) -> V]
  <2>1. \A r \in Seq(V) : FlattenSeq(r) \in V
    BY FlattenElements
  <2> HIDE DEF V
  <2> QED
    BY <2>1
<1>3. ASSUME NEW k \in Nat, NEW r \in Seq(V)
      PROVE  gate[<<k, r>>] = FlattenSeq(r)
  <2> HIDE DEF V
  <2>1. <<k, r>> \in Nat \X Seq(V) /\ <<k, r>>[2] = r
    OBVIOUS
  <2> QED
    BY <2>1
<1>4. \A a \in Name : leaf[a] = <<a>>
  OBVIOUS
<1> HIDE DEF leaf, gate, V
<1>5. PICK f \in [AnyTree -> V] : \A t \in AnyTree : f[t] = Folded(t, leaf, gate, f)
  BY <1>1, <1>2, FoldExists
<1>6. ASSUME NEW t \in AnyTree
      PROVE  f[t] = IF t.kind = "leaf" THEN <<t.attribute>>
                    ELSE FlattenSeq([i \in DOMAIN t.children |-> f[t.children[i]]])
  <2>1. CASE t.kind = "leaf"
    <3>1. t.attribute \in Name
      BY <2>1, TreeShape
    <3> QED
      BY <1>4, <1>5, <2>1, <3>1 DEF Folded
  <2>2. CASE t.kind # "leaf"
    <3> DEFINE r == [i \in DOMAIN t.children |-> f[t.children[i]]]
    <3>1. t.threshold \in Nat /\ t.children \in Seq(AnyTree)
      BY <2>2, TreeShape
    <3>2. r \in Seq(V)
      BY <3>1, FoldOfChildren
    <3>3. f[t] = gate[<<t.threshold, r>>]
      BY <1>5, <2>2 DEF Folded
    <3> HIDE DEF r
    <3>4. f[t] = FlattenSeq(r)
      BY <1>3, <3>1, <3>2, <3>3
    <3> QED
      BY <2>2, <3>4 DEF r
  <2> QED
    BY <2>1, <2>2
<1>7. f = [t \in AnyTree |-> f[t]]
  OBVIOUS
<1>8. Lists(f)
  BY <1>6, <1>7 DEF Lists
<1> QED
  BY <1>8 DEF V

LEMMA LeavesOfLeaf ==
  ASSUME NEW a \in Name
  PROVE  LeavesOf(Leaf(a)) = <<a>>
<1> DEFINE f == CHOOSE f : Lists(f)
<1>1. Lists(f)
  BY ListsExists
<1>2. LeavesOf(Leaf(a)) = f[Leaf(a)]
  BY DEF LeavesOf, Lists
<1>3. Leaf(a) \in AnyTree /\ Leaf(a).kind = "leaf" /\ Leaf(a).attribute = a
  BY LeafIsTree DEF Leaf
<1> HIDE DEF f
<1> QED
  BY <1>1, <1>2, <1>3 DEF Lists

LEMMA LeavesOfGate ==
  ASSUME NEW k, NEW c, Gate(k, c) \in AnyTree
  PROVE  LeavesOf(Gate(k, c)) = FlattenSeq([i \in DOMAIN c |-> LeavesOf(c[i])])
<1> DEFINE f == CHOOSE f : Lists(f)
<1>1. Lists(f)
  BY ListsExists
<1>2. \A t : LeavesOf(t) = f[t]
  BY DEF LeavesOf, Lists
<1>3. Gate(k, c).kind # "leaf" /\ Gate(k, c).children = c
  BY DEF Gate
<1> HIDE DEF f
<1>4. f[Gate(k, c)] = FlattenSeq([i \in DOMAIN c |-> f[c[i]]])
  BY <1>1, <1>3 DEF Lists
<1>5. [i \in DOMAIN c |-> f[c[i]]] = [i \in DOMAIN c |-> LeavesOf(c[i])]
  BY <1>2
<1> QED
  BY <1>2, <1>4, <1>5

LEMMA LeavesOfType ==
  ASSUME NEW t \in AnyTree
  PROVE  LeavesOf(t) \in Seq(Name)
<1> DEFINE S == {u \in AnyTree : LeavesOf(u) \in Seq(Name)}
<1>1. HasLeaves(S)
  <2> SUFFICES ASSUME NEW a \in Name PROVE Leaf(a) \in S
    BY DEF HasLeaves
  <2>1. LeavesOf(Leaf(a)) = <<a>> /\ <<a>> \in Seq(Name)
    BY LeavesOfLeaf
  <2> QED
    BY <2>1, LeafIsTree
<1>2. ASSUME NEW k \in Nat, NEW c \in Seq(AnyTree), Gate(k, c) \in AnyTree,
             \A i \in DOMAIN c : c[i] \in S
      PROVE  Gate(k, c) \in S
  <2> DEFINE r == [i \in DOMAIN c |-> LeavesOf(c[i])]
  <2>1. DOMAIN c = 1 .. Len(c) /\ Len(c) \in Nat
    OBVIOUS
  <2>2. \A i \in 1 .. Len(c) : LeavesOf(c[i]) \in Seq(Name)
    BY <1>2, <2>1
  <2>3. r \in Seq(Seq(Name))
    BY <2>1, <2>2
  <2> HIDE DEF r
  <2>4. FlattenSeq(r) \in Seq(Name)
    BY <2>3, FlattenElements
  <2> QED
    BY <1>2, <2>4, LeavesOfGate DEF r
<1> HIDE DEF S
<1>3. HasGates(S)
  BY <1>2 DEF HasGates
<1>4. AnyTree \subseteq S
  BY <1>1, <1>3, TreeInduction
<1> QED
  BY <1>4 DEF S

-----------------------------------------------------------------------------
(* retag_tree: it keeps the gates, and so the level of a tree.             *)

TagsAreNames(epochs) == \A a \in Name : Tag(a, epochs) \in Name

Retags(epochs, f) ==
  f = [t \in AnyTree |->
         IF t.kind = "leaf" THEN Leaf(Tag(t.attribute, epochs))
         ELSE Gate(t.threshold, [i \in DOMAIN t.children |-> f[t.children[i]]])]

\* What the induction on trees goes through for.
KeepsLevels(f) == \A n \in 0 .. MaxDepth : \A t \in Level[n] : f[t] \in Level[n]

LEMMA KeepsLevelsIfFolded ==
  ASSUME NEW leaf \in [Name -> AnyTree], NEW gate, NEW f,
         \A a \in Name : \E b \in Name : leaf[a] = Leaf(b),
         \A k \in Nat, r \in Seq(AnyTree) :
           Gate(k, r) \in AnyTree => gate[<<k, r>>] = Gate(k, r),
         \A t \in AnyTree : f[t] = Folded(t, leaf, gate, f)
  PROVE  KeepsLevels(f)
<1> DEFINE S == {n \in Nat : n <= MaxDepth => \A t \in Level[n] : f[t] \in Level[n]}
<1>1. ASSUME NEW t \in LeafTrees PROVE f[t] \in LeafTrees
  <2>1. t.kind = "leaf" /\ t.attribute \in Name /\ t = Leaf(t.attribute)
    BY DEF LeafTrees, Leaf
  <2>2. t \in AnyTree
    BY <2>1, LeafIsTree
  <2>3. f[t] = leaf[t.attribute]
    BY <2>1, <2>2 DEF Folded
  <2>4. PICK b \in Name : leaf[t.attribute] = Leaf(b)
    BY <2>1
  <2>5. Leaf(b) \in LeafTrees
    BY DEF LeafTrees, Leaf
  <2> QED
    BY <2>3, <2>4, <2>5
<1>2. 0 \in S
  BY <1>1, LevelEq
<1>3. ASSUME NEW n \in S PROVE n + 1 \in S
  <2> SUFFICES ASSUME n + 1 <= MaxDepth, NEW t \in Level[n + 1] PROVE f[t] \in Level[n + 1]
    OBVIOUS
  <2>1. n \in Nat /\ n < MaxDepth /\ n <= MaxDepth /\ n \in 0 .. MaxDepth /\ n + 1 \in 0 .. MaxDepth
    BY DepthAssumption
  <2>2. \A u \in Level[n] : f[u] \in Level[n]
    BY <2>1
  <2>3. Level[n + 1] = LeafTrees \cup GatesOver(Level[n])
    BY <2>1, LevelUp
  <2>4. CASE t \in LeafTrees
    BY <1>1, <2>3, <2>4
  <2>5. CASE t \in GatesOver(Level[n])
    <3> DEFINE k == t.threshold
               c == t.children
               r == [i \in DOMAIN c |-> f[c[i]]]
    <3>1. t.kind # "leaf" /\ k \in Nat /\ c \in Seq(Level[n])
      BY <2>5 DEF GatesOver
    <3>2. t \in AnyTree
      BY <2>1, LevelIsTrees
    <3>3. r \in Seq(Level[n])
      <4>1. DOMAIN c = 1 .. Len(c) /\ Len(c) \in Nat
        BY <3>1
      <4>2. \A i \in 1 .. Len(c) : f[c[i]] \in Level[n]
        BY <2>2, <3>1
      <4> HIDE DEF c
      <4>3. [i \in 1 .. Len(c) |-> f[c[i]]] \in Seq(Level[n])
        BY <4>1, <4>2
      <4> QED
        BY <4>1, <4>3
    <3>4. f[t] = gate[<<k, r>>]
      BY <3>1, <3>2 DEF Folded
    <3> HIDE DEF k, c, r, S
    <3>5. Gate(k, r) \in Level[n + 1]
      BY <2>1, <3>1, <3>3, GateIsAtLevel
    <3>6. Gate(k, r) \in AnyTree /\ r \in Seq(AnyTree)
      <4>1. Level[n] \subseteq AnyTree /\ Level[n + 1] \subseteq AnyTree
        BY <2>1, LevelIsTrees
      <4>2. Gate(k, r) \in AnyTree
        BY <3>5, <4>1
      <4> QED
        BY <4>2, GateParts
    <3>7. gate[<<k, r>>] = Gate(k, r)
      BY <3>1, <3>6
    <3> QED
      BY <3>4, <3>5, <3>7
  <2> QED
    BY <2>3, <2>4, <2>5
<1>4. S = Nat
  <2> HIDE DEF S
  <2>1. S \in SUBSET Nat
    BY DEF S
  <2> QED
    BY <1>2, <1>3, <2>1, InductionInSet
<1>5. \A n \in 0 .. MaxDepth : n \in S /\ n <= MaxDepth
  BY <1>4, DepthAssumption
<1> QED
  BY <1>5 DEF KeepsLevels

LEMMA RetaggedGate ==
  ASSUME NEW f, KeepsLevels(f), NEW t \in AnyTree, t.kind # "leaf"
  PROVE  Gate(t.threshold, [i \in DOMAIN t.children |-> f[t.children[i]]]) \in AnyTree
<1> DEFINE k == t.threshold
           c == t.children
           r == [i \in DOMAIN c |-> f[c[i]]]
           n == MaxDepth - 1
<1>1. t \notin LeafTrees
  BY DEF LeafTrees
<1>2. MaxDepth # 0 /\ MaxDepth \in 0 .. MaxDepth
  BY <1>1, LevelEq, DepthAssumption
<1>3. n \in Nat /\ n \in 0 .. MaxDepth /\ n < MaxDepth /\ n + 1 = MaxDepth
  BY <1>2, DepthAssumption
<1>4. t \in GatesOver(Level[n])
  BY <1>1, <1>2, LevelEq
<1> HIDE DEF n
<1>5. k \in Nat /\ c \in Seq(Level[n])
  BY <1>4 DEF GatesOver
<1>6. \A u \in Level[n] : f[u] \in Level[n]
  BY <1>3 DEF KeepsLevels
<1> HIDE DEF c
<1>7. DOMAIN c = 1 .. Len(c) /\ Len(c) \in Nat
  BY <1>5
<1>8. \A i \in 1 .. Len(c) : f[c[i]] \in Level[n]
  BY <1>5, <1>6
<1>9. [i \in 1 .. Len(c) |-> f[c[i]]] \in Seq(Level[n])
  BY <1>7, <1>8
<1>10. r \in Seq(Level[n])
  BY <1>7, <1>9
<1> HIDE DEF r, k
<1>11. Gate(k, r) \in Level[n + 1]
  BY <1>3, <1>5, <1>10, GateIsAtLevel
<1> QED
  BY <1>3, <1>11, LevelEq DEF r, k, c

LEMMA RetagsExists ==
  ASSUME NEW epochs, TagsAreNames(epochs)
  PROVE  \E f : Retags(epochs, f) /\ KeepsLevels(f)
<1> DEFINE V    == AnyTree \cup {<< >>}
           leaf == [a \in Name |-> Leaf(Tag(a, epochs))]
           gate == [x \in Nat \X Seq(V) |->
                      IF Gate(x[1], x[2]) \in AnyTree THEN Gate(x[1], x[2]) ELSE << >>]
<1>1. \A a \in Name : Tag(a, epochs) \in Name /\ leaf[a] = Leaf(Tag(a, epochs))
  BY DEF TagsAreNames
<1>2. leaf \in [Name -> AnyTree] /\ leaf \in [Name -> V]
  BY <1>1, LeafIsTree
<1>3. gate \in [Nat \X Seq(V) -> V]
  OBVIOUS
<1>4. ASSUME NEW k \in Nat, NEW r \in Seq(AnyTree), Gate(k, r) \in AnyTree
      PROVE  gate[<<k, r>>] = Gate(k, r)
  <2>1. r \in Seq(V)
    <3>1. AnyTree \subseteq V
      OBVIOUS
    <3> HIDE DEF V
    <3> QED
      BY <3>1
  <2> HIDE DEF V
  <2>2. <<k, r>> \in Nat \X Seq(V) /\ <<k, r>>[1] = k /\ <<k, r>>[2] = r
    BY <2>1
  <2> QED
    BY <1>4, <2>2
<1> HIDE DEF V, leaf, gate
<1>5. PICK f \in [AnyTree -> V] : \A t \in AnyTree : f[t] = Folded(t, leaf, gate, f)
  BY <1>2, <1>3, FoldExists
<1>6. KeepsLevels(f)
  <2>1. \A a \in Name : \E b \in Name : leaf[a] = Leaf(b)
    BY <1>1
  <2>2. \A k \in Nat, r \in Seq(AnyTree) : Gate(k, r) \in AnyTree => gate[<<k, r>>] = Gate(k, r)
    BY <1>4
  <2> QED
    BY <1>2, <1>5, <2>1, <2>2, KeepsLevelsIfFolded
<1>7. \A t \in AnyTree : f[t] \in AnyTree
  <2>1. MaxDepth \in 0 .. MaxDepth
    BY DepthAssumption
  <2> QED
    BY <1>6, <2>1, LevelEq DEF KeepsLevels
<1>8. ASSUME NEW t \in AnyTree
      PROVE  f[t] = IF t.kind = "leaf" THEN Leaf(Tag(t.attribute, epochs))
                    ELSE Gate(t.threshold, [i \in DOMAIN t.children |-> f[t.children[i]]])
  <2>1. CASE t.kind = "leaf"
    <3>1. t.attribute \in Name
      BY <2>1, TreeShape
    <3> QED
      BY <1>1, <1>5, <2>1, <3>1 DEF Folded
  <2>2. CASE t.kind # "leaf"
    <3> DEFINE r == [i \in DOMAIN t.children |-> f[t.children[i]]]
    <3>1. t.threshold \in Nat /\ t.children \in Seq(AnyTree)
      BY <2>2, TreeShape
    <3>2. f[t] = gate[<<t.threshold, r>>]
      BY <1>5, <2>2 DEF Folded
    <3>3. Gate(t.threshold, r) \in AnyTree
      BY <1>6, <2>2, RetaggedGate
    <3>4. r \in Seq(AnyTree)
      BY <3>3, GateParts
    <3> HIDE DEF r
    <3>5. f[t] = Gate(t.threshold, r)
      BY <1>4, <3>1, <3>2, <3>3, <3>4
    <3> QED
      BY <2>2, <3>5 DEF r
  <2> QED
    BY <2>1, <2>2
<1>9. f = [t \in AnyTree |-> f[t]]
  OBVIOUS
<1>10. Retags(epochs, f)
  BY <1>8, <1>9 DEF Retags
<1> QED
  BY <1>6, <1>10

LEMMA RetagTreeIs ==
  ASSUME NEW epochs, TagsAreNames(epochs)
  PROVE  \E f : Retags(epochs, f) /\ KeepsLevels(f) /\ \A t : RetagTree(t, epochs) = f[t]
<1> DEFINE f == CHOOSE f : Retags(epochs, f)
<1>1. Retags(epochs, f)
  BY RetagsExists
<1>2. \A t : RetagTree(t, epochs) = f[t]
  BY DEF RetagTree, Retags
<1>3. PICK g : Retags(epochs, g) /\ KeepsLevels(g)
  BY RetagsExists
<1> HIDE DEF f
<1> DEFINE S == {t \in AnyTree : f[t] = g[t]}
<1>4. HasLeaves(S)
  <2> SUFFICES ASSUME NEW a \in Name PROVE Leaf(a) \in S
    BY DEF HasLeaves
  <2>1. Leaf(a) \in AnyTree /\ Leaf(a).kind = "leaf"
    BY LeafIsTree DEF Leaf
  <2> QED
    BY <1>1, <1>3, <2>1 DEF Retags
<1>5. HasGates(S)
  <2> SUFFICES ASSUME NEW k \in Nat, NEW c \in Seq(AnyTree), Gate(k, c) \in AnyTree,
                      \A i \in DOMAIN c : c[i] \in S
               PROVE  Gate(k, c) \in S
    BY DEF HasGates
  <2>1. Gate(k, c).kind # "leaf" /\ Gate(k, c).threshold = k /\ Gate(k, c).children = c
    BY DEF Gate
  <2>2. [i \in DOMAIN c |-> f[c[i]]] = [i \in DOMAIN c |-> g[c[i]]]
    OBVIOUS
  <2>3. f[Gate(k, c)] = Gate(k, [i \in DOMAIN c |-> f[c[i]]])
    BY <1>1, <2>1 DEF Retags
  <2>4. g[Gate(k, c)] = Gate(k, [i \in DOMAIN c |-> g[c[i]]])
    BY <1>3, <2>1 DEF Retags
  <2> QED
    BY <2>2, <2>3, <2>4
<1>6. \A t \in AnyTree : f[t] = g[t]
  <2> HIDE DEF S
  <2>1. AnyTree \subseteq S
    BY <1>4, <1>5, TreeInduction
  <2> QED
    BY <2>1 DEF S
<1>7. KeepsLevels(f)
  <2>1. \A n \in 0 .. MaxDepth : Level[n] \subseteq AnyTree
    BY LevelIsTrees
  <2> QED
    BY <1>3, <1>6, <2>1 DEF KeepsLevels
<1> QED
  BY <1>1, <1>2, <1>7

LEMMA RetagLeaf ==
  ASSUME NEW epochs, TagsAreNames(epochs), NEW a \in Name
  PROVE  RetagTree(Leaf(a), epochs) = Leaf(Tag(a, epochs))
<1>1. PICK f : Retags(epochs, f) /\ \A t : RetagTree(t, epochs) = f[t]
  BY RetagTreeIs
<1>2. Leaf(a) \in AnyTree /\ Leaf(a).kind = "leaf" /\ Leaf(a).attribute = a
  BY LeafIsTree DEF Leaf
<1> QED
  BY <1>1, <1>2 DEF Retags

LEMMA RetagGate ==
  ASSUME NEW epochs, TagsAreNames(epochs), NEW k, NEW c, Gate(k, c) \in AnyTree
  PROVE  /\ RetagTree(Gate(k, c), epochs)
              = Gate(k, [i \in DOMAIN c |-> RetagTree(c[i], epochs)])
         /\ Gate(k, [i \in DOMAIN c |-> RetagTree(c[i], epochs)]) \in AnyTree
<1>1. PICK f : Retags(epochs, f) /\ KeepsLevels(f) /\ \A t : RetagTree(t, epochs) = f[t]
  BY RetagTreeIs
<1>2. Gate(k, c).kind # "leaf" /\ Gate(k, c).threshold = k /\ Gate(k, c).children = c
  BY DEF Gate
<1>3. f[Gate(k, c)] = Gate(k, [i \in DOMAIN c |-> f[c[i]]])
  BY <1>1, <1>2 DEF Retags
<1>4. Gate(k, [i \in DOMAIN c |-> f[c[i]]]) \in AnyTree
  BY <1>1, <1>2, RetaggedGate
<1>5. [i \in DOMAIN c |-> f[c[i]]] = [i \in DOMAIN c |-> RetagTree(c[i], epochs)]
  BY <1>1
<1> QED
  BY <1>1, <1>3, <1>4, <1>5

-----------------------------------------------------------------------------
(* Combine and Ways.                                                       *)

NameSets == SUBSET Name

LEMMA CombineElements ==
  ASSUME NEW s \in Seq(NameSets), NEW t \in Seq(NameSets)
  PROVE  /\ Combine(s, t) \in Seq(NameSets)
         /\ \A u : u \in ToSet(Combine(s, t))
                    <=> \E x \in ToSet(s), y \in ToSet(t) : u = x \cup y
<1> DEFINE r == [i \in DOMAIN s |-> [j \in DOMAIN t |-> s[i] \cup t[j]]]
<1>1. /\ DOMAIN s = 1 .. Len(s) /\ Len(s) \in Nat
      /\ DOMAIN t = 1 .. Len(t) /\ Len(t) \in Nat
  OBVIOUS
<1>2. \A i \in 1 .. Len(s) : s[i] \in NameSets
  OBVIOUS
<1>3. \A j \in 1 .. Len(t) : t[j] \in NameSets
  OBVIOUS
<1>4. \A i \in 1 .. Len(s), j \in 1 .. Len(t) : s[i] \cup t[j] \in NameSets
  BY <1>2, <1>3 DEF NameSets
<1>5. \A i \in 1 .. Len(s) : [j \in 1 .. Len(t) |-> s[i] \cup t[j]] \in Seq(NameSets)
  BY <1>1, <1>4
<1>6. [i \in 1 .. Len(s) |-> [j \in 1 .. Len(t) |-> s[i] \cup t[j]]] \in Seq(Seq(NameSets))
  BY <1>1, <1>5
<1>7. r \in Seq(Seq(NameSets))
  BY <1>1, <1>6
<1>8. DOMAIN r = 1 .. Len(s) /\ \A i \in 1 .. Len(s) :
        ToSet(r[i]) = {s[i] \cup t[j] : j \in 1 .. Len(t)}
  BY <1>1 DEF ToSet
<1>9. Combine(s, t) = FlattenSeq(r)
  BY DEF Combine
<1> HIDE DEF r
<1>10. /\ FlattenSeq(r) \in Seq(NameSets)
       /\ ToSet(FlattenSeq(r)) = UNION {ToSet(r[i]) : i \in DOMAIN r}
  BY <1>7, FlattenElements
<1>11. ToSet(s) = {s[i] : i \in 1 .. Len(s)} /\ ToSet(t) = {t[j] : j \in 1 .. Len(t)}
  BY <1>1 DEF ToSet
<1>12. ASSUME NEW u
       PROVE  u \in UNION {ToSet(r[i]) : i \in DOMAIN r}
                <=> \E i \in 1 .. Len(s), j \in 1 .. Len(t) : u = s[i] \cup t[j]
  BY <1>8
<1>13. ASSUME NEW u, NEW x \in ToSet(s), NEW y \in ToSet(t), u = x \cup y
       PROVE  \E i \in 1 .. Len(s), j \in 1 .. Len(t) : u = s[i] \cup t[j]
  <2>1. PICK i \in 1 .. Len(s) : x = s[i]
    BY <1>11
  <2>2. PICK j \in 1 .. Len(t) : y = t[j]
    BY <1>11
  <2> QED
    BY <1>13, <2>1, <2>2
<1>14. ASSUME NEW i \in 1 .. Len(s), NEW j \in 1 .. Len(t)
       PROVE  s[i] \in ToSet(s) /\ t[j] \in ToSet(t)
  BY <1>11
<1> QED
  BY <1>9, <1>10, <1>12, <1>13, <1>14

\* A function of sets that goes through unions, e.g. one that tags every name.
Additive(h) ==
  /\ h \in [NameSets -> NameSets]
  /\ h[{}] = {}
  /\ \A X, Y \in NameSets : h[X \cup Y] = h[X] \cup h[Y]

LEMMA CombineMapped ==
  ASSUME NEW h, Additive(h), NEW s \in Seq(NameSets), NEW t \in Seq(NameSets)
  PROVE  Combine(Mapped(s, h), Mapped(t, h)) = Mapped(Combine(s, t), h)
<1> DEFINE r == [i \in DOMAIN s |-> [j \in DOMAIN t |-> s[i] \cup t[j]]]
<1>1. /\ DOMAIN s = 1 .. Len(s) /\ Len(s) \in Nat
      /\ DOMAIN t = 1 .. Len(t) /\ Len(t) \in Nat
  OBVIOUS
<1>2. \A i \in 1 .. Len(s) : s[i] \in NameSets
  OBVIOUS
<1>3. \A j \in 1 .. Len(t) : t[j] \in NameSets
  OBVIOUS
<1>4. \A i \in 1 .. Len(s), j \in 1 .. Len(t) :
        /\ s[i] \cup t[j] \in NameSets
        /\ h[s[i] \cup t[j]] = h[s[i]] \cup h[t[j]]
  <2>1. \A X, Y \in NameSets : X \cup Y \in NameSets
    BY DEF NameSets
  <2>2. \A X, Y \in NameSets : h[X \cup Y] = h[X] \cup h[Y]
    BY DEF Additive
  <2> QED
    BY <1>2, <1>3, <2>1, <2>2
<1>5. \A i \in 1 .. Len(s) : [j \in 1 .. Len(t) |-> s[i] \cup t[j]] \in Seq(NameSets)
  <2> SUFFICES ASSUME NEW i \in 1 .. Len(s)
               PROVE  [j \in 1 .. Len(t) |-> s[i] \cup t[j]] \in Seq(NameSets)
    OBVIOUS
  <2>1. \A j \in 1 .. Len(t) : s[i] \cup t[j] \in NameSets
    BY <1>4
  <2> HIDE DEF r
  <2> QED
    BY <1>1, <2>1
<1>6. [i \in 1 .. Len(s) |-> [j \in 1 .. Len(t) |-> s[i] \cup t[j]]] \in Seq(Seq(NameSets))
  BY <1>1, <1>5
<1>7. r \in Seq(Seq(NameSets))
  BY <1>1, <1>6
<1>8. \A i \in 1 .. Len(s) :
        Mapped(r[i], h) = [j \in 1 .. Len(t) |-> Mapped(s, h)[i] \cup Mapped(t, h)[j]]
  BY <1>1, <1>4 DEF Mapped
<1>9. [i \in DOMAIN r |-> Mapped(r[i], h)]
        = [i \in DOMAIN Mapped(s, h) |->
             [j \in DOMAIN Mapped(t, h) |-> Mapped(s, h)[i] \cup Mapped(t, h)[j]]]
  <2>1. DOMAIN r = 1 .. Len(s) /\ DOMAIN Mapped(s, h) = 1 .. Len(s)
        /\ DOMAIN Mapped(t, h) = 1 .. Len(t)
    BY <1>1 DEF Mapped
  <2> HIDE DEF r
  <2> QED
    BY <1>8, <2>1
<1>10. Combine(s, t) = FlattenSeq(r)
  BY DEF Combine
<1>11. Combine(Mapped(s, h), Mapped(t, h)) = FlattenSeq([i \in DOMAIN r |-> Mapped(r[i], h)])
  <2> HIDE DEF r
  <2> QED
    BY <1>9 DEF Combine
<1> HIDE DEF r
<1>12. h \in [NameSets -> NameSets]
  BY DEF Additive
<1>13. FlattenSeq([i \in DOMAIN r |-> Mapped(r[i], h)]) = Mapped(FlattenSeq(r), h)
  BY <1>7, <1>12, FlattenMapped
<1> QED
  BY <1>10, <1>11, <1>13

\* What Ways computes for the last i children, i = 0, 1, ..., n.
WaysOfLast(k, w, n, g) ==
  g = [i \in 0 .. n |->
        [m \in 0 .. k |->
           IF m = 0 THEN <<{}>>
           ELSE IF i < m THEN << >>
           ELSE Combine(w[Len(w) + 1 - i], g[i - 1][m - 1]) \o g[i - 1][m]]]

LEMMA WaysNext ==
  ASSUME NEW k, NEW w, NEW n \in Nat, NEW g, WaysOfLast(k, w, n, g)
  PROVE  \E h : WaysOfLast(k, w, n + 1, h)
<1> DEFINE row(f, i) ==
             [m \in 0 .. k |->
                IF m = 0 THEN <<{}>>
                ELSE IF i < m THEN << >>
                ELSE Combine(w[Len(w) + 1 - i], f[i - 1][m - 1]) \o f[i - 1][m]]
           last == [m \in 0 .. k |->
                IF m = 0 THEN <<{}>>
                ELSE IF n + 1 < m THEN << >>
                ELSE Combine(w[Len(w) + 1 - (n + 1)], g[n][m - 1]) \o g[n][m]]
           h == [i \in 0 .. n + 1 |-> IF i <= n THEN g[i] ELSE last]
<1> HIDE DEF last
<1>1. \A i \in 0 .. n : h[i] = g[i]
  OBVIOUS
<1>2. h[n + 1] = last
  OBVIOUS
<1>3. \A i \in 0 .. n : g[i] = row(g, i)
  BY DEF WaysOfLast
<1> HIDE DEF h
<1>4. ASSUME NEW i \in 0 .. n + 1
      PROVE  h[i] = row(h, i)
  <2>1. CASE i \in 0 .. n
    <3>1. ASSUME NEW m \in 0 .. k, m # 0, ~ (i < m)
          PROVE  h[i - 1] = g[i - 1]
      <4>1. i - 1 \in 0 .. n
        BY <2>1, <3>1
      <4> QED
        BY <1>1, <4>1
    <3>2. row(g, i) = row(h, i)
      BY <3>1
    <3> QED
      BY <1>1, <1>3, <2>1, <3>2
  <2>2. CASE i = n + 1
    <3>1. h[i - 1] = g[n]
      BY <1>1, <2>2
    <3>2. last = row(h, i)
      BY <2>2, <3>1 DEF last
    <3> QED
      BY <1>2, <2>2, <3>2
  <2> QED
    BY <2>1, <2>2
<1>5. h = [i \in 0 .. n + 1 |-> h[i]]
  BY DEF h
<1>6. WaysOfLast(k, w, n + 1, h)
  BY <1>4, <1>5 DEF WaysOfLast
<1> QED
  BY <1>6

LEMMA WaysExist ==
  ASSUME NEW k, NEW w, NEW n \in Nat
  PROVE  \E g : WaysOfLast(k, w, n, g)
<1> DEFINE S == {m \in Nat : \E g : WaysOfLast(k, w, m, g)}
<1>1. 0 \in S
  <2> DEFINE g == [i \in 0 .. 0 |-> [m \in 0 .. k |-> IF m = 0 THEN <<{}>> ELSE << >>]]
  <2>1. WaysOfLast(k, w, 0, g)
    <3>1. \A i \in 0 .. 0, m \in 0 .. k : m # 0 => i < m
      OBVIOUS
    <3> QED
      BY <3>1 DEF WaysOfLast
  <2> QED
    BY <2>1
<1>2. \A m \in S : m + 1 \in S
  BY WaysNext
<1>3. S = Nat
  <2> HIDE DEF S
  <2>1. S \in SUBSET Nat
    BY DEF S
  <2> QED
    BY <1>1, <1>2, <2>1, InductionInSet
<1> QED
  BY <1>3

Run(k, w, g) ==
  /\ \A i \in 0 .. Len(w), m \in 0 .. k : g[i][m] \in Seq(NameSets)
  /\ \A i \in 0 .. Len(w) : g[i][0] = <<{}>>
  /\ \A i \in 0 .. Len(w), m \in 1 .. k : i < m => g[i][m] = << >>
  /\ \A i \in 1 .. Len(w), m \in 1 .. k :
       m <= i => g[i][m] = Combine(w[Len(w) + 1 - i], g[i - 1][m - 1]) \o g[i - 1][m]

LEMMA WaysRun ==
  ASSUME NEW k \in Nat, NEW w \in Seq(Seq(NameSets))
  PROVE  \E g : Run(k, w, g) /\ Ways(k, w) = g[Len(w)][k]
<1>0. Len(w) \in Nat /\ \A i \in 1 .. Len(w) : w[i] \in Seq(NameSets)
  OBVIOUS
<1> DEFINE n == Len(w)
           g == CHOOSE g : WaysOfLast(k, w, n, g)
<1>1. n \in Nat /\ \A i \in 1 .. n : w[i] \in Seq(NameSets)
  <2> HIDE DEF g
  <2> QED
    BY <1>0
<1>2. WaysOfLast(k, w, n, g)
  BY <1>1, WaysExist
<1>3. Ways(k, w) = g[n][k]
  BY DEF Ways, WaysOfLast
<1> HIDE DEF g, n
<1>4. \A i \in 0 .. n, m \in 0 .. k :
        g[i][m] = IF m = 0 THEN <<{}>>
                  ELSE IF i < m THEN << >>
                  ELSE Combine(w[Len(w) + 1 - i], g[i - 1][m - 1]) \o g[i - 1][m]
  <2> SUFFICES ASSUME NEW i \in 0 .. n, NEW m \in 0 .. k
               PROVE  g[i][m] = IF m = 0 THEN <<{}>>
                                ELSE IF i < m THEN << >>
                                ELSE Combine(w[Len(w) + 1 - i], g[i - 1][m - 1]) \o g[i - 1][m]
    OBVIOUS
  <2>1. g[i] = [l \in 0 .. k |->
                  IF l = 0 THEN <<{}>>
                  ELSE IF i < l THEN << >>
                  ELSE Combine(w[Len(w) + 1 - i], g[i - 1][l - 1]) \o g[i - 1][l]]
    BY <1>2, Zenon DEF WaysOfLast
  <2> QED
    BY <2>1, Zenon
<1>5. \A i \in 0 .. n : g[i][0] = <<{}>>
  <2>1. 0 \in 0 .. k
    OBVIOUS
  <2> QED
    BY <1>4, <2>1
<1>6. \A i \in 0 .. n, m \in 1 .. k : i < m => g[i][m] = << >>
  <2>1. \A m \in 1 .. k : m \in 0 .. k /\ m # 0
    OBVIOUS
  <2> QED
    BY <1>4, <2>1
<1>7. ASSUME NEW i \in 1 .. n, NEW m \in 1 .. k, m <= i
      PROVE  g[i][m] = Combine(w[Len(w) + 1 - i], g[i - 1][m - 1]) \o g[i - 1][m]
  <2>1. i \in 0 .. n /\ m \in 0 .. k /\ m # 0 /\ ~ (i < m)
    BY <1>1, <1>7
  <2> QED
    BY <1>4, <2>1
<1> DEFINE S == {i \in Nat : i <= n => \A m \in 0 .. k : g[i][m] \in Seq(NameSets)}
<1>8. <<{}>> \in Seq(NameSets) /\ << >> \in Seq(NameSets)
  BY DEF NameSets
<1>9. 0 \in S
  <2> SUFFICES ASSUME NEW m \in 0 .. k PROVE g[0][m] \in Seq(NameSets)
    OBVIOUS
  <2>1. 0 \in 0 .. n
    BY <1>1
  <2>2. CASE m = 0
    BY <1>5, <1>8, <2>1, <2>2
  <2>3. CASE m # 0
    <3>1. m \in 1 .. k /\ 0 < m
      BY <2>3
    <3> QED
      BY <1>6, <1>8, <2>1, <3>1
  <2> QED
    BY <2>2, <2>3
<1>10. ASSUME NEW i \in S PROVE i + 1 \in S
  <2> SUFFICES ASSUME i + 1 <= n, NEW m \in 0 .. k PROVE g[i + 1][m] \in Seq(NameSets)
    OBVIOUS
  <2>1. i \in Nat /\ i <= n /\ i + 1 \in 0 .. n /\ i + 1 \in 1 .. n /\ (i + 1) - 1 = i
    BY <1>1
  <2>2. \A l \in 0 .. k : g[i][l] \in Seq(NameSets)
    BY <2>1
  <2> HIDE DEF S
  <2>3. CASE m = 0
    BY <1>5, <1>8, <2>1, <2>3
  <2>4. CASE m # 0 /\ i + 1 < m
    <3>1. m \in 1 .. k
      BY <2>4
    <3> QED
      BY <1>6, <1>8, <2>1, <2>4, <3>1
  <2>5. CASE m # 0 /\ ~ (i + 1 < m)
    <3>1. m \in 1 .. k /\ m - 1 \in 0 .. k /\ m <= i + 1
      BY <2>1, <2>5
    <3>2. Len(w) + 1 - (i + 1) \in 1 .. n
      BY <1>1, <2>1 DEF n
    <3> DEFINE x == w[Len(w) + 1 - (i + 1)]
               y == g[i][m - 1]
               z == g[i][m]
    <3>3. x \in Seq(NameSets) /\ y \in Seq(NameSets) /\ z \in Seq(NameSets)
      BY <1>1, <2>2, <3>1, <3>2
    <3>4. g[i + 1][m] = Combine(x, y) \o z
      BY <1>7, <2>1, <3>1
    <3> HIDE DEF x, y, z
    <3>5. Combine(x, y) \in Seq(NameSets)
      BY <3>3, CombineElements
    <3>6. Combine(x, y) \o z \in Seq(NameSets)
      BY <3>3, <3>5
    <3> QED
      BY <3>4, <3>6
  <2> QED
    BY <2>3, <2>4, <2>5
<1>11. S = Nat
  <2> HIDE DEF S
  <2>1. S \in SUBSET Nat
    BY DEF S
  <2> QED
    BY <1>9, <1>10, <2>1, InductionInSet
<1>12. \A i \in 0 .. n, m \in 0 .. k : g[i][m] \in Seq(NameSets)
  <2> SUFFICES ASSUME NEW i \in 0 .. n, NEW m \in 0 .. k PROVE g[i][m] \in Seq(NameSets)
    OBVIOUS
  <2>1. i \in S /\ i <= n
    BY <1>1, <1>11
  <2> QED
    BY <2>1
<1> HIDE DEF S
<1>13. Run(k, w, g)
  BY <1>5, <1>6, <1>7, <1>12 DEF Run, n
<1> QED
  BY <1>3, <1>13 DEF n

\* What the last i children add up to.
LEMMA RunElements ==
  ASSUME NEW k \in Nat, NEW w \in Seq(Seq(NameSets)), NEW g, Run(k, w, g),
         NEW i \in 1 .. Len(w), NEW m \in 1 .. k, m <= i
  PROVE  /\ w[Len(w) + 1 - i] \in Seq(NameSets)
         /\ g[i - 1][m - 1] \in Seq(NameSets) /\ g[i - 1][m] \in Seq(NameSets)
         /\ \A u : u \in ToSet(g[i][m])
              <=> \/ \E x \in ToSet(w[Len(w) + 1 - i]), y \in ToSet(g[i - 1][m - 1]) :
                       u = x \cup y
                  \/ u \in ToSet(g[i - 1][m])
<1> DEFINE x == w[Len(w) + 1 - i]
           y == g[i - 1][m - 1]
           z == g[i - 1][m]
<1>1. /\ Len(w) + 1 - i \in 1 .. Len(w) /\ i - 1 \in 0 .. Len(w)
      /\ m - 1 \in 0 .. k /\ m \in 0 .. k
  OBVIOUS
<1>2. x \in Seq(NameSets)
  BY <1>1
<1>3. y \in Seq(NameSets) /\ z \in Seq(NameSets)
  BY <1>1 DEF Run
<1>4. g[i][m] = Combine(x, y) \o z
  BY DEF Run
<1> HIDE DEF x, y, z
<1>5. /\ Combine(x, y) \in Seq(NameSets)
      /\ \A u : u \in ToSet(Combine(x, y)) <=> \E a \in ToSet(x), b \in ToSet(y) : u = a \cup b
  BY <1>2, <1>3, CombineElements
<1>6. ToSet(Combine(x, y) \o z) = ToSet(Combine(x, y)) \cup ToSet(z)
  BY <1>3, <1>5, ConcatElements
<1> QED
  BY <1>2, <1>3, <1>4, <1>5, <1>6 DEF x, y, z

\* Whether some of the ways in a sequence can be gone with `attrs`.
SomeWay(s, attrs) == \E u \in ToSet(s) : u \subseteq attrs

\* The children among the last i that can be satisfied.
LastSatisfied(w, i, attrs) == {j \in Len(w) + 1 - i .. Len(w) : SomeWay(w[j], attrs)}

LEMMA OneMoreSatisfied ==
  ASSUME NEW w \in Seq(Seq(NameSets)), NEW attrs, NEW i \in Nat, i + 1 <= Len(w)
  PROVE  LET j == Len(w) - i
         IN /\ Cardinality(LastSatisfied(w, i, attrs)) \in Nat
            /\ Cardinality(LastSatisfied(w, i, attrs)) <= i
            /\ Cardinality(LastSatisfied(w, i + 1, attrs))
                 = Cardinality(LastSatisfied(w, i, attrs)) + (IF SomeWay(w[j], attrs) THEN 1 ELSE 0)
<1> DEFINE n == Len(w)
           j == n - i
           A == LastSatisfied(w, i, attrs)
           B == LastSatisfied(w, i + 1, attrs)
           I == n + 1 - i .. n
<1>1. n \in Nat /\ i + 1 <= n /\ j \in 1 .. n /\ n + 1 - i = j + 1 /\ n + 1 - (i + 1) = j
  OBVIOUS
<1> HIDE DEF n, j
<1>2. IsFiniteSet(I) /\ Cardinality(I) = i
  <2>1. n + 1 - i \in Int /\ n \in Int
    BY <1>1
  <2>2. n - (n + 1 - i) + 1 = i /\ (n + 1 - i > n => i = 0)
    BY <1>1
  <2> QED
    BY <2>1, <2>2, FS_Interval
<1>3. A \subseteq I
  BY DEF LastSatisfied, n
<1>4. IsFiniteSet(A) /\ Cardinality(A) <= i /\ Cardinality(A) \in Nat
  <2> HIDE DEF A, I
  <2> QED
    BY <1>2, <1>3, FS_Subset, FS_CardinalityType
<1>5. j \notin A
  BY <1>1 DEF LastSatisfied, n
<1>6. B = IF SomeWay(w[j], attrs) THEN A \cup {j} ELSE A
  <2>1. j .. n = (j + 1 .. n) \cup {j}
    BY <1>1
  <2>2. A = {l \in j + 1 .. n : SomeWay(w[l], attrs)}
    BY <1>1 DEF LastSatisfied, n
  <2>3. B = {l \in j .. n : SomeWay(w[l], attrs)}
    BY <1>1 DEF LastSatisfied, n
  <2> HIDE DEF A, B
  <2> QED
    BY <2>1, <2>2, <2>3
<1>7. Cardinality(A \cup {j}) = Cardinality(A) + 1
  <2> HIDE DEF A
  <2> QED
    BY <1>4, <1>5, FS_AddElement
<1> HIDE DEF A, B
<1>8. Cardinality(B) = Cardinality(A) + (IF SomeWay(w[j], attrs) THEN 1 ELSE 0)
  BY <1>4, <1>6, <1>7
<1> QED
  BY <1>4, <1>8 DEF A, B, j, n

LEMMA RunSatisfied ==
  ASSUME NEW k \in Nat, NEW w \in Seq(Seq(NameSets)), NEW g, Run(k, w, g), NEW attrs
  PROVE  \A m \in 0 .. k :
           SomeWay(g[Len(w)][m], attrs) <=> Cardinality(LastSatisfied(w, Len(w), attrs)) >= m
<1> DEFINE n == Len(w)
           C(i) == Cardinality(LastSatisfied(w, i, attrs))
           S == {i \in Nat : i <= n => \A m \in 0 .. k : SomeWay(g[i][m], attrs) <=> C(i) >= m}
<1>1. n \in Nat
  OBVIOUS
<1>2. ASSUME NEW s, s = << >> PROVE ~ SomeWay(s, attrs)
  BY <1>2 DEF SomeWay, ToSet
<1>3. ASSUME NEW s, s = <<{}>> PROVE SomeWay(s, attrs)
  <2>1. {} \in ToSet(s)
    BY <1>3 DEF ToSet
  <2> QED
    BY <2>1 DEF SomeWay
<1>4. C(0) = 0
  <2>1. LastSatisfied(w, 0, attrs) = {}
    BY <1>1 DEF LastSatisfied
  <2> QED
    BY <2>1, FS_EmptySet
<1>5. ASSUME NEW i \in 0 .. n PROVE SomeWay(g[i][0], attrs)
  BY <1>3 DEF Run
<1>6. ASSUME NEW i \in 0 .. n, NEW m \in 1 .. k, i < m PROVE ~ SomeWay(g[i][m], attrs)
  BY <1>2, <1>6 DEF Run
<1> HIDE DEF C
<1>7. 0 \in S
  <2> SUFFICES ASSUME NEW m \in 0 .. k PROVE SomeWay(g[0][m], attrs) <=> C(0) >= m
    OBVIOUS
  <2>1. 0 \in 0 .. n
    BY <1>1
  <2>2. CASE m = 0
    <3>1. SomeWay(g[0][0], attrs)
      BY <1>5, <2>1
    <3>2. C(0) >= 0
      BY <1>4
    <3> QED
      BY <2>2, <3>1, <3>2
  <2>3. CASE m # 0
    <3>1. m \in 1 .. k /\ 0 < m
      BY <2>3
    <3>2. ~ SomeWay(g[0][m], attrs)
      BY <1>6, <2>1, <3>1
    <3>3. ~ (C(0) >= m)
      BY <1>4, <3>1
    <3> QED
      BY <3>2, <3>3
  <2> QED
    BY <2>2, <2>3
<1>8. ASSUME NEW i \in S PROVE i + 1 \in S
  <2> SUFFICES ASSUME i + 1 <= n, NEW m \in 0 .. k
               PROVE  SomeWay(g[i + 1][m], attrs) <=> C(i + 1) >= m
    OBVIOUS
  <2>1. i \in Nat /\ i <= n /\ i + 1 \in 0 .. n /\ i + 1 \in 1 .. n /\ (i + 1) - 1 = i
    BY <1>1
  <2>2. \A l \in 0 .. k : SomeWay(g[i][l], attrs) <=> C(i) >= l
    BY <2>1
  <2> HIDE DEF S
  <2> DEFINE j == n - i
             sat == SomeWay(w[j], attrs)
  <2>3. C(i) \in Nat /\ C(i) <= i /\ C(i + 1) = C(i) + (IF sat THEN 1 ELSE 0)
    BY <2>1, OneMoreSatisfied DEF C
  <2>4. CASE m = 0
    <3>1. SomeWay(g[i + 1][0], attrs)
      BY <1>5, <2>1
    <3>2. C(i + 1) >= 0
      BY <2>3
    <3> QED
      BY <2>4, <3>1, <3>2
  <2>5. CASE m # 0 /\ i + 1 < m
    <3>1. m \in 1 .. k
      BY <2>5
    <3>2. ~ SomeWay(g[i + 1][m], attrs)
      BY <1>6, <2>1, <2>5, <3>1
    <3>3. ~ (C(i + 1) >= m)
      BY <2>1, <2>3, <2>5
    <3> QED
      BY <3>2, <3>3
  <2>6. CASE m # 0 /\ ~ (i + 1 < m)
    <3>1. m \in 1 .. k /\ m - 1 \in 0 .. k /\ m <= i + 1 /\ n + 1 - (i + 1) = j
      BY <1>1, <2>1, <2>6
    <3> DEFINE x == w[j]
               y == g[i][m - 1]
               z == g[i][m]
    <3>2. \A u : u \in ToSet(g[i + 1][m])
                <=> (\E a \in ToSet(x), b \in ToSet(y) : u = a \cup b) \/ u \in ToSet(z)
      BY <2>1, <3>1, RunElements
    <3> HIDE DEF x, y, z, n, j
    <3>3. SomeWay(g[i + 1][m], attrs)
            <=> (SomeWay(x, attrs) /\ SomeWay(y, attrs)) \/ SomeWay(z, attrs)
      <4>1. ASSUME NEW u \in ToSet(g[i + 1][m]), u \subseteq attrs
            PROVE  (SomeWay(x, attrs) /\ SomeWay(y, attrs)) \/ SomeWay(z, attrs)
        BY <3>2, <4>1 DEF SomeWay
      <4>2. ASSUME NEW a \in ToSet(x), NEW b \in ToSet(y), a \subseteq attrs, b \subseteq attrs
            PROVE  a \cup b \in ToSet(g[i + 1][m]) /\ a \cup b \subseteq attrs
        BY <3>2, <4>2
      <4>3. ASSUME NEW u \in ToSet(z), u \subseteq attrs
            PROVE  u \in ToSet(g[i + 1][m])
        BY <3>2
      <4> QED
        BY <4>1, <4>2, <4>3 DEF SomeWay
    <3>4. SomeWay(y, attrs) <=> C(i) >= m - 1
      BY <2>2, <3>1 DEF y
    <3>5. SomeWay(z, attrs) <=> C(i) >= m
      BY <2>2, <3>1 DEF z
    <3>6. SomeWay(x, attrs) <=> sat
      BY DEF x
    <3> HIDE DEF sat
    <3>7. C(i + 1) >= m <=> (sat /\ C(i) >= m - 1) \/ C(i) >= m
      <4>1. m \in Nat
        BY <3>1
      <4>2. CASE sat
        BY <2>3, <4>1, <4>2
      <4>3. CASE ~ sat
        BY <2>3, <4>1, <4>3
      <4> QED
        BY <4>2, <4>3
    <3> QED
      BY <3>3, <3>4, <3>5, <3>6, <3>7
  <2> QED
    BY <2>4, <2>5, <2>6
<1>9. S = Nat
  <2> HIDE DEF S
  <2>1. S \in SUBSET Nat
    BY DEF S
  <2> QED
    BY <1>7, <1>8, <2>1, InductionInSet
<1>10. n \in S /\ n <= n
  BY <1>1, <1>9
<1> QED
  BY <1>10 DEF C

LEMMA WaysSatisfied ==
  ASSUME NEW k \in Nat, NEW w \in Seq(Seq(NameSets)), NEW attrs
  PROVE  SomeWay(Ways(k, w), attrs)
           <=> Cardinality({j \in 1 .. Len(w) : SomeWay(w[j], attrs)}) >= k
<1>1. PICK g : Run(k, w, g) /\ Ways(k, w) = g[Len(w)][k]
  BY WaysRun
<1>2. \A m \in 0 .. k :
        SomeWay(g[Len(w)][m], attrs) <=> Cardinality(LastSatisfied(w, Len(w), attrs)) >= m
  BY <1>1, RunSatisfied
<1>3. LastSatisfied(w, Len(w), attrs) = {j \in 1 .. Len(w) : SomeWay(w[j], attrs)}
  <2>1. Len(w) \in Nat
    OBVIOUS
  <2>2. Len(w) + 1 - Len(w) = 1
    BY <2>1
  <2> QED
    BY <2>2 DEF LastSatisfied
<1>4. k \in 0 .. k
  OBVIOUS
<1> QED
  BY <1>1, <1>2, <1>3, <1>4

LEMMA WaysType ==
  ASSUME NEW k \in Nat, NEW w \in Seq(Seq(NameSets))
  PROVE  Ways(k, w) \in Seq(NameSets)
<1>1. PICK g : Run(k, w, g) /\ Ways(k, w) = g[Len(w)][k]
  BY WaysRun
<1>2. Len(w) \in 0 .. Len(w) /\ k \in 0 .. k
  OBVIOUS
<1> QED
  BY <1>1, <1>2 DEF Run

\* Every name of every child is in some way, if all of them have ways and the
\* threshold is neither 0 nor more than there are children.
NamesIn(s) == UNION ToSet(s)
LastNames(w, i) == UNION {NamesIn(w[j]) : j \in Len(w) + 1 - i .. Len(w)}
Possible(w) == \A j \in 1 .. Len(w) : ToSet(w[j]) # {}

NamesFrom(k, w, g, i) ==
  \A m \in 1 .. k :
    m <= i => ToSet(g[i][m]) # {} /\ NamesIn(g[i][m]) = LastNames(w, i)

LEMMA SingleElement ==
  ASSUME NEW x
  PROVE  ToSet(<<x>>) = {x}
<1> DEFINE s == <<x>>
<1>1. DOMAIN s = {1} /\ s[1] = x
  OBVIOUS
<1> HIDE DEF s
<1>2. ToSet(s) = {s[i] : i \in DOMAIN s}
  BY DEF ToSet
<1> QED
  BY <1>1, <1>2 DEF s

LEMMA RunNames ==
  ASSUME NEW k \in Nat, NEW w \in Seq(Seq(NameSets)), NEW g, Run(k, w, g), Possible(w)
  PROVE  NamesFrom(k, w, g, Len(w))
<1> DEFINE n == Len(w)
           S == {i \in Nat : i <= n => NamesFrom(k, w, g, i)}
<1>1. n \in Nat
  OBVIOUS
<1>2. ASSUME NEW i \in 0 .. n
      PROVE  ToSet(g[i][0]) # {} /\ NamesIn(g[i][0]) = {}
  <2>1. g[i][0] = <<{}>>
    BY DEF Run
  <2>2. \A u : u \in ToSet(<<{}>>) <=> u = {}
    BY SingleElement
  <2>3. ToSet(<<{}>>) # {} /\ \A v : v \notin NamesIn(<<{}>>)
    BY <2>2 DEF NamesIn
  <2>4. NamesIn(<<{}>>) = {}
    BY <2>3
  <2> QED
    BY <2>1, <2>3, <2>4
<1>3. ASSUME NEW i \in 0 .. n, NEW m \in 1 .. k, i < m PROVE NamesIn(g[i][m]) = {}
  <2>1. g[i][m] = << >>
    BY <1>3 DEF Run
  <2>2. ToSet(<< >>) = {}
    BY DEF ToSet
  <2> QED
    BY <2>1, <2>2 DEF NamesIn
<1>4. 0 \in S
  <2>1. \A m \in 1 .. k : ~ (m <= 0)
    OBVIOUS
  <2> QED
    BY <2>1 DEF NamesFrom
<1>5. ASSUME NEW i \in S PROVE i + 1 \in S
  <2> SUFFICES ASSUME i + 1 <= n PROVE NamesFrom(k, w, g, i + 1)
    OBVIOUS
  <2> SUFFICES ASSUME NEW m \in 1 .. k, m <= i + 1
               PROVE  ToSet(g[i + 1][m]) # {} /\ NamesIn(g[i + 1][m]) = LastNames(w, i + 1)
    BY DEF NamesFrom
  <2>1. i \in Nat /\ i <= n /\ i \in 0 .. n /\ i + 1 \in 1 .. n /\ (i + 1) - 1 = i
    BY <1>1
  <2>2. \A l \in 1 .. k :
          l <= i => ToSet(g[i][l]) # {} /\ NamesIn(g[i][l]) = LastNames(w, i)
    <3>1. NamesFrom(k, w, g, i)
      BY <2>1
    <3> QED
      BY <3>1 DEF NamesFrom
  <2> HIDE DEF S
  <2> DEFINE j == n - i
             x == w[j]
             y == g[i][m - 1]
             z == g[i][m]
  <2>3. m - 1 \in 0 .. k /\ n + 1 - (i + 1) = j /\ j \in 1 .. n
    BY <1>1, <2>1
  <2>4. \A u : u \in ToSet(g[i + 1][m])
               <=> (\E a \in ToSet(x), b \in ToSet(y) : u = a \cup b) \/ u \in ToSet(z)
    BY <2>1, <2>3, RunElements
  <2>5. ToSet(x) # {}
    BY <2>3 DEF Possible
  <2>6. ToSet(y) # {} /\ NamesIn(y) \subseteq LastNames(w, i)
    <3>1. CASE m = 1
      <4>1. y = g[i][0]
        BY <3>1
      <4> QED
        BY <1>2, <2>1, <4>1
    <3>2. CASE m # 1
      <4>1. m - 1 \in 1 .. k /\ m - 1 <= i
        BY <2>1, <3>2
      <4> QED
        BY <2>2, <4>1
    <3> QED
      BY <3>1, <3>2
  <2>7. NamesIn(y) \cup NamesIn(z) = LastNames(w, i)
    <3>1. CASE m <= i
      <4>1. NamesIn(z) = LastNames(w, i)
        BY <2>2, <3>1
      <4> QED
        BY <2>6, <4>1
    <3>2. CASE ~ (m <= i)
      <4>1. i < m /\ m = i + 1 /\ m - 1 = i
        BY <2>1, <3>2
      <4>2. NamesIn(z) = {}
        BY <1>3, <2>1, <4>1
      <4>3. CASE i = 0
        <5>1. LastNames(w, i) = {}
          BY <1>1, <4>3 DEF LastNames
        <5> QED
          BY <2>6, <4>2, <5>1
      <4>4. CASE i # 0
        <5>1. i \in 1 .. k /\ i <= i
          BY <2>1, <4>1, <4>4
        <5>2. NamesIn(y) = LastNames(w, i)
          BY <2>2, <4>1, <5>1
        <5> QED
          BY <4>2, <5>2
      <4> QED
        BY <4>3, <4>4
    <3> QED
      BY <3>1, <3>2
  <2>8. LastNames(w, i + 1) = NamesIn(x) \cup LastNames(w, i)
    <3>1. j .. n = (j + 1 .. n) \cup {j}
      BY <1>1, <2>3
    <3>2. n + 1 - i = j + 1
      BY <1>1, <2>1
    <3> DEFINE N(l) == NamesIn(w[l])
    <3>3. LastNames(w, i) = UNION {N(l) : l \in j + 1 .. n}
      BY <3>2 DEF LastNames
    <3>4. LastNames(w, i + 1) = UNION {N(l) : l \in j .. n}
      BY <2>3 DEF LastNames
    <3>5. NamesIn(x) = N(j)
      OBVIOUS
    <3> HIDE DEF N, j, n, x
    <3> QED
      BY <3>1, <3>3, <3>4, <3>5
  <2> HIDE DEF x, y, z, n, j
  <2>9. NamesIn(g[i + 1][m]) = NamesIn(x) \cup NamesIn(y) \cup NamesIn(z)
    <3>1. ASSUME NEW u \in ToSet(g[i + 1][m]), NEW v \in u
          PROVE  v \in NamesIn(x) \cup NamesIn(y) \cup NamesIn(z)
      BY <2>4 DEF NamesIn
    <3>2. ASSUME NEW a \in ToSet(x), NEW v \in a PROVE v \in NamesIn(g[i + 1][m])
      <4>1. PICK b \in ToSet(y) : TRUE
        BY <2>6
      <4>2. a \cup b \in ToSet(g[i + 1][m])
        BY <2>4
      <4> QED
        BY <4>2 DEF NamesIn
    <3>3. ASSUME NEW b \in ToSet(y), NEW v \in b PROVE v \in NamesIn(g[i + 1][m])
      <4>1. PICK a \in ToSet(x) : TRUE
        BY <2>5
      <4>2. a \cup b \in ToSet(g[i + 1][m])
        BY <2>4
      <4> QED
        BY <4>2 DEF NamesIn
    <3>4. ASSUME NEW c \in ToSet(z), NEW v \in c PROVE v \in NamesIn(g[i + 1][m])
      BY <2>4 DEF NamesIn
    <3>5. \A v : v \in NamesIn(g[i + 1][m]) <=> \E u \in ToSet(g[i + 1][m]) : v \in u
      BY DEF NamesIn
    <3>6. \A v : /\ v \in NamesIn(x) <=> \E u \in ToSet(x) : v \in u
                 /\ v \in NamesIn(y) <=> \E u \in ToSet(y) : v \in u
                 /\ v \in NamesIn(z) <=> \E u \in ToSet(z) : v \in u
      BY DEF NamesIn
    <3> QED
      BY <3>1, <3>2, <3>3, <3>4, <3>5, <3>6
  <2>10. ToSet(g[i + 1][m]) # {}
    <3>1. PICK a \in ToSet(x), b \in ToSet(y) : TRUE
      BY <2>5, <2>6
    <3>2. a \cup b \in ToSet(g[i + 1][m])
      BY <2>4
    <3> QED
      BY <3>2
  <2> QED
    BY <2>7, <2>8, <2>9, <2>10
<1>6. S = Nat
  <2> HIDE DEF S
  <2>1. S \in SUBSET Nat
    BY DEF S
  <2> QED
    BY <1>4, <1>5, <2>1, InductionInSet
<1>7. n \in S /\ n <= n
  BY <1>1, <1>6
<1> QED
  BY <1>7

LEMMA WaysNames ==
  ASSUME NEW k \in Nat, NEW w \in Seq(Seq(NameSets)), Possible(w), 1 <= k, k <= Len(w)
  PROVE  ToSet(Ways(k, w)) # {} /\ NamesIn(Ways(k, w)) = UNION {NamesIn(w[j]) : j \in 1 .. Len(w)}
<1>1. PICK g : Run(k, w, g) /\ Ways(k, w) = g[Len(w)][k]
  BY WaysRun
<1>2. \A m \in 1 .. k :
        m <= Len(w) => ToSet(g[Len(w)][m]) # {} /\ NamesIn(g[Len(w)][m]) = LastNames(w, Len(w))
  BY <1>1, RunNames DEF NamesFrom
<1>3. k \in 1 .. k
  OBVIOUS
<1>4. LastNames(w, Len(w)) = UNION {NamesIn(w[j]) : j \in 1 .. Len(w)}
  <2>1. Len(w) \in Nat
    OBVIOUS
  <2>2. Len(w) + 1 - Len(w) = 1
    BY <2>1
  <2> QED
    BY <2>2 DEF LastNames
<1> QED
  BY <1>1, <1>2, <1>3, <1>4

\* What tags every name of a tree's leaves tags every name of its ways.
MappedRuns(k, w, h, f, g) ==
  /\ Run(k, w, g)
  /\ Run(k, [j \in DOMAIN w |-> Mapped(w[j], h)], f)
MappedFrom(k, h, f, g, i) == \A m \in 0 .. k : f[i][m] = Mapped(g[i][m], h)

LEMMA RunMapped ==
  ASSUME NEW k \in Nat, NEW w \in Seq(Seq(NameSets)), NEW h, Additive(h),
         NEW f, NEW g, MappedRuns(k, w, h, f, g)
  PROVE  MappedFrom(k, h, f, g, Len(w))
<1> DEFINE n == Len(w)
           v == [j \in DOMAIN w |-> Mapped(w[j], h)]
           S == {i \in Nat : i <= n => MappedFrom(k, h, f, g, i)}
<1>1. /\ n \in Nat /\ DOMAIN w = 1 .. n /\ DOMAIN v = 1 .. n
      /\ \A j \in 1 .. n : w[j] \in Seq(NameSets) /\ v[j] = Mapped(w[j], h)
  OBVIOUS
<1>2. h \in [NameSets -> NameSets] /\ h[{}] = {}
  BY DEF Additive
<1>3. \A s \in Seq(NameSets) : Mapped(s, h) \in Seq(NameSets)
  BY <1>2, MappedType
<1>4. Len(v) = n
  BY <1>1
<1> HIDE DEF n, v
<1>5. v \in Seq(Seq(NameSets))
  <2>1. \A j \in 1 .. n : v[j] \in Seq(NameSets)
    BY <1>1, <1>3
  <2>2. v = [j \in 1 .. n |-> v[j]]
    BY <1>1 DEF v
  <2>3. [j \in 1 .. n |-> v[j]] \in Seq(Seq(NameSets))
    BY <1>1, <2>1
  <2> QED
    BY <2>2, <2>3
<1>6. Run(k, w, g) /\ Run(k, v, f)
  BY DEF MappedRuns, v
<1>7. Mapped(<<{}>>, h) = <<{}>>
  <2>1. ASSUME NEW x PROVE Mapped(<<x>>, h) = <<h[x]>>
    BY DEF Mapped
  <2> QED
    BY <1>2, <2>1
<1>8. Mapped(<< >>, h) = << >>
  BY DEF Mapped
<1>9. ASSUME NEW i \in 0 .. n PROVE f[i][0] = Mapped(g[i][0], h)
  <2>1. f[i][0] = <<{}>> /\ g[i][0] = <<{}>>
    BY <1>4, <1>6 DEF Run, n
  <2> QED
    BY <1>7, <2>1
<1>10. ASSUME NEW i \in 0 .. n, NEW m \in 1 .. k, i < m PROVE f[i][m] = Mapped(g[i][m], h)
  <2>1. f[i][m] = << >> /\ g[i][m] = << >>
    BY <1>4, <1>6, <1>10 DEF Run, n
  <2> QED
    BY <1>8, <2>1
<1>11. 0 \in S
  <2> SUFFICES ASSUME NEW m \in 0 .. k PROVE f[0][m] = Mapped(g[0][m], h)
    BY DEF MappedFrom
  <2>1. 0 \in 0 .. n /\ (m # 0 => m \in 1 .. k /\ 0 < m)
    BY <1>1
  <2> QED
    BY <1>9, <1>10, <2>1
<1>12. ASSUME NEW i \in S PROVE i + 1 \in S
  <2> SUFFICES ASSUME i + 1 <= n PROVE MappedFrom(k, h, f, g, i + 1)
    OBVIOUS
  <2> SUFFICES ASSUME NEW m \in 0 .. k PROVE f[i + 1][m] = Mapped(g[i + 1][m], h)
    BY DEF MappedFrom
  <2>1. i \in Nat /\ i <= n /\ i + 1 \in 0 .. n /\ i + 1 \in 1 .. n /\ (i + 1) - 1 = i
    BY <1>1
  <2>2. \A l \in 0 .. k : f[i][l] = Mapped(g[i][l], h)
    <3>1. MappedFrom(k, h, f, g, i)
      BY <2>1
    <3> QED
      BY <3>1 DEF MappedFrom
  <2> HIDE DEF S
  <2>3. CASE m = 0
    BY <1>9, <2>1, <2>3
  <2>4. CASE m # 0 /\ i + 1 < m
    <3>1. m \in 1 .. k
      BY <2>4
    <3> QED
      BY <1>10, <2>1, <2>4, <3>1
  <2>5. CASE m # 0 /\ ~ (i + 1 < m)
    <3> DEFINE x == w[n + 1 - (i + 1)]
               y == g[i][m - 1]
               z == g[i][m]
    <3>1. /\ m \in 1 .. k /\ m - 1 \in 0 .. k /\ m <= i + 1
          /\ n + 1 - (i + 1) \in 1 .. n
      BY <1>1, <2>1, <2>5
    <3>2. /\ x \in Seq(NameSets) /\ y \in Seq(NameSets) /\ z \in Seq(NameSets)
      <4>1. i + 1 \in 1 .. Len(w)
        BY <2>1 DEF n
      <4>2. Len(w) + 1 - (i + 1) = n + 1 - (i + 1)
        BY DEF n
      <4>3. w[Len(w) + 1 - (i + 1)] \in Seq(NameSets)
        BY <1>1, <3>1, <4>2
      <4>4. i \in 0 .. Len(w)
        BY <2>1 DEF n
      <4> QED
        BY <1>6, <3>1, <4>2, <4>3, <4>4 DEF Run
    <3>3. g[i + 1][m] = Combine(x, y) \o z
      BY <1>6, <2>1, <3>1 DEF Run, n
    <3>4. f[i + 1][m] = Combine(Mapped(x, h), Mapped(y, h)) \o Mapped(z, h)
      <4>1. f[i + 1][m] = Combine(v[n + 1 - (i + 1)], f[i][m - 1]) \o f[i][m]
        BY <1>4, <1>6, <2>1, <3>1 DEF Run
      <4>2. v[n + 1 - (i + 1)] = Mapped(x, h)
        BY <1>1, <3>1
      <4>3. f[i][m - 1] = Mapped(y, h) /\ f[i][m] = Mapped(z, h)
        BY <2>2, <3>1
      <4> QED
        BY <4>1, <4>2, <4>3
    <3> HIDE DEF x, y, z
    <3>5. Combine(x, y) \in Seq(NameSets)
      BY <3>2, CombineElements
    <3>6. Combine(Mapped(x, h), Mapped(y, h)) = Mapped(Combine(x, y), h)
      BY <3>2, CombineMapped
    <3> DEFINE r == Combine(x, y)
    <3> HIDE DEF r
    <3>7. Mapped(r \o z, h) = Mapped(r, h) \o Mapped(z, h)
      BY <1>2, <3>2, <3>5, MappedConcat DEF r
    <3> QED
      BY <3>3, <3>4, <3>6, <3>7 DEF r
  <2> QED
    BY <2>3, <2>4, <2>5
<1>13. S = Nat
  <2> HIDE DEF S
  <2>1. S \in SUBSET Nat
    BY DEF S
  <2> QED
    BY <1>11, <1>12, <2>1, InductionInSet
<1>14. n \in S /\ n <= n
  BY <1>1, <1>13
<1> QED
  BY <1>14 DEF n

LEMMA WaysMapped ==
  ASSUME NEW k \in Nat, NEW w \in Seq(Seq(NameSets)), NEW h, Additive(h)
  PROVE  Ways(k, [j \in DOMAIN w |-> Mapped(w[j], h)]) = Mapped(Ways(k, w), h)
<1> DEFINE v == [j \in DOMAIN w |-> Mapped(w[j], h)]
<1>1. DOMAIN w = 1 .. Len(w) /\ Len(w) \in Nat /\ Len(v) = Len(w)
  OBVIOUS
<1>2. h \in [NameSets -> NameSets]
  BY DEF Additive
<1>3. \A s \in Seq(NameSets) : Mapped(s, h) \in Seq(NameSets)
  BY <1>2, MappedType
<1>4. \A j \in 1 .. Len(w) : w[j] \in Seq(NameSets)
  OBVIOUS
<1>5. v \in Seq(Seq(NameSets))
  BY <1>1, <1>3, <1>4
<1>6. PICK g : Run(k, w, g) /\ Ways(k, w) = g[Len(w)][k]
  BY WaysRun
<1> HIDE DEF v
<1>7. PICK f : Run(k, v, f) /\ Ways(k, v) = f[Len(v)][k]
  BY <1>5, WaysRun
<1>8. MappedRuns(k, w, h, f, g)
  BY <1>6, <1>7 DEF MappedRuns, v
<1>9. MappedFrom(k, h, f, g, Len(w))
  BY <1>8, RunMapped
<1>10. k \in 0 .. k
  OBVIOUS
<1> QED
  BY <1>1, <1>6, <1>7, <1>9, <1>10 DEF MappedFrom, v

-----------------------------------------------------------------------------
(* Alternatives.                                                           *)

Alternates(f) ==
  f = [t \in AnyTree |->
         IF t.kind = "leaf" THEN <<{t.attribute}>>
         ELSE Ways(t.threshold, [i \in DOMAIN t.children |-> f[t.children[i]]])]

LEMMA AlternatesExists == \E f \in [AnyTree -> Seq(NameSets)] : Alternates(f)
<1> DEFINE V    == Seq(NameSets)
           leaf == [a \in Name |-> <<{a}>>]
           gate == [x \in Nat \X Seq(V) |-> Ways(x[1], x[2])]
<1>1. leaf \in [Name -> V]
  <2>1. \A a \in Name : {a} \in NameSets
    BY DEF NameSets
  <2>2. \A a \in Name : <<{a}>> \in Seq(NameSets)
    BY <2>1
  <2> QED
    BY <2>2
<1>2. gate \in [Nat \X Seq(V) -> V]
  <2>1. \A k \in Nat, r \in Seq(V) : Ways(k, r) \in V
    BY WaysType
  <2> HIDE DEF V
  <2> QED
    BY <2>1
<1>3. ASSUME NEW k \in Nat, NEW r \in Seq(V)
      PROVE  gate[<<k, r>>] = Ways(k, r)
  <2> HIDE DEF V
  <2>1. <<k, r>> \in Nat \X Seq(V) /\ <<k, r>>[1] = k /\ <<k, r>>[2] = r
    OBVIOUS
  <2> QED
    BY <2>1
<1>4. \A a \in Name : leaf[a] = <<{a}>>
  OBVIOUS
<1> HIDE DEF leaf, gate, V
<1>5. PICK f \in [AnyTree -> V] : \A t \in AnyTree : f[t] = Folded(t, leaf, gate, f)
  BY <1>1, <1>2, FoldExists
<1>6. ASSUME NEW t \in AnyTree
      PROVE  f[t] = IF t.kind = "leaf" THEN <<{t.attribute}>>
                    ELSE Ways(t.threshold, [i \in DOMAIN t.children |-> f[t.children[i]]])
  <2>1. CASE t.kind = "leaf"
    <3>1. t.attribute \in Name
      BY <2>1, TreeShape
    <3> QED
      BY <1>4, <1>5, <2>1, <3>1 DEF Folded
  <2>2. CASE t.kind # "leaf"
    <3> DEFINE r == [i \in DOMAIN t.children |-> f[t.children[i]]]
    <3>1. t.threshold \in Nat /\ t.children \in Seq(AnyTree)
      BY <2>2, TreeShape
    <3>2. r \in Seq(V)
      BY <3>1, FoldOfChildren
    <3>3. f[t] = gate[<<t.threshold, r>>]
      BY <1>5, <2>2 DEF Folded
    <3> HIDE DEF r
    <3>4. f[t] = Ways(t.threshold, r)
      BY <1>3, <3>1, <3>2, <3>3
    <3> QED
      BY <2>2, <3>4 DEF r
  <2> QED
    BY <2>1, <2>2
<1>7. f = [t \in AnyTree |-> f[t]]
  OBVIOUS
<1>8. Alternates(f)
  BY <1>6, <1>7 DEF Alternates
<1> QED
  BY <1>8 DEF V

LEMMA AlternativesOfLeaf ==
  ASSUME NEW a \in Name
  PROVE  Alternatives(Leaf(a)) = <<{a}>>
<1> DEFINE f == CHOOSE f : Alternates(f)
<1>1. Alternates(f)
  BY AlternatesExists
<1>2. Alternatives(Leaf(a)) = f[Leaf(a)]
  BY DEF Alternatives, Alternates
<1>3. Leaf(a) \in AnyTree /\ Leaf(a).kind = "leaf" /\ Leaf(a).attribute = a
  BY LeafIsTree DEF Leaf
<1> HIDE DEF f
<1> QED
  BY <1>1, <1>2, <1>3 DEF Alternates

LEMMA AlternativesOfGate ==
  ASSUME NEW k, NEW c, Gate(k, c) \in AnyTree
  PROVE  Alternatives(Gate(k, c)) = Ways(k, [i \in DOMAIN c |-> Alternatives(c[i])])
<1> DEFINE f == CHOOSE f : Alternates(f)
<1>1. Alternates(f)
  BY AlternatesExists
<1>2. \A t : Alternatives(t) = f[t]
  BY DEF Alternatives, Alternates
<1>3. Gate(k, c).kind # "leaf" /\ Gate(k, c).threshold = k /\ Gate(k, c).children = c
  BY DEF Gate
<1> HIDE DEF f
<1>4. f[Gate(k, c)] = Ways(k, [i \in DOMAIN c |-> f[c[i]]])
  BY <1>1, <1>3 DEF Alternates
<1>5. [i \in DOMAIN c |-> f[c[i]]] = [i \in DOMAIN c |-> Alternatives(c[i])]
  BY <1>2
<1> QED
  BY <1>2, <1>4, <1>5

LEMMA AlternativesType ==
  ASSUME NEW t \in AnyTree
  PROVE  Alternatives(t) \in Seq(NameSets)
<1> DEFINE S == {u \in AnyTree : Alternatives(u) \in Seq(NameSets)}
<1>1. HasLeaves(S)
  <2> SUFFICES ASSUME NEW a \in Name PROVE Leaf(a) \in S
    BY DEF HasLeaves
  <2>1. {a} \in NameSets
    BY DEF NameSets
  <2>2. Alternatives(Leaf(a)) = <<{a}>> /\ <<{a}>> \in Seq(NameSets)
    BY <2>1, AlternativesOfLeaf
  <2> QED
    BY <2>2, LeafIsTree
<1>2. ASSUME NEW k \in Nat, NEW c \in Seq(AnyTree), Gate(k, c) \in AnyTree,
             \A i \in DOMAIN c : c[i] \in S
      PROVE  Gate(k, c) \in S
  <2> DEFINE r == [i \in DOMAIN c |-> Alternatives(c[i])]
  <2>1. DOMAIN c = 1 .. Len(c) /\ Len(c) \in Nat
    OBVIOUS
  <2>2. \A i \in 1 .. Len(c) : Alternatives(c[i]) \in Seq(NameSets)
    BY <1>2, <2>1
  <2>3. r \in Seq(Seq(NameSets))
    BY <2>1, <2>2
  <2> HIDE DEF r
  <2>4. Ways(k, r) \in Seq(NameSets)
    BY <2>3, WaysType
  <2> QED
    BY <1>2, <2>4, AlternativesOfGate DEF r
<1> HIDE DEF S
<1>3. HasGates(S)
  BY <1>2 DEF HasGates
<1>4. AnyTree \subseteq S
  BY <1>1, <1>3, TreeInduction
<1> QED
  BY <1>4 DEF S

\* The ways of the children of a gate.
LEMMA ChildrenWays ==
  ASSUME NEW c \in Seq(AnyTree)
  PROVE  /\ [i \in DOMAIN c |-> Alternatives(c[i])] \in Seq(Seq(NameSets))
         /\ Len([i \in DOMAIN c |-> Alternatives(c[i])]) = Len(c)
<1>1. DOMAIN c = 1 .. Len(c) /\ Len(c) \in Nat
  OBVIOUS
<1>2. \A i \in 1 .. Len(c) : Alternatives(c[i]) \in Seq(NameSets)
  <2>1. \A i \in 1 .. Len(c) : c[i] \in AnyTree
    OBVIOUS
  <2> QED
    BY <2>1, AlternativesType
<1>3. [i \in 1 .. Len(c) |-> Alternatives(c[i])] \in Seq(Seq(NameSets))
  BY <1>1, <1>2
<1> QED
  BY <1>1, <1>3

\* A tree is satisfied by the attributes that go one of its ways.
LEMMA AlternativesSatisfy ==
  ASSUME NEW attrs
  PROVE  \A t \in AnyTree : SomeWay(Alternatives(t), attrs) <=> IsSatisfiedBy(t, attrs)
<1> DEFINE S == {t \in AnyTree : SomeWay(Alternatives(t), attrs) <=> IsSatisfiedBy(t, attrs)}
<1>1. HasLeaves(S)
  <2> SUFFICES ASSUME NEW a \in Name PROVE Leaf(a) \in S
    BY DEF HasLeaves
  <2>1. Alternatives(Leaf(a)) = <<{a}>> /\ (IsSatisfiedBy(Leaf(a), attrs) <=> a \in attrs)
    BY AlternativesOfLeaf, SatisfiedLeaf
  <2>2. ToSet(<<{a}>>) = {{a}}
    BY SingleElement
  <2>3. SomeWay(<<{a}>>, attrs) <=> a \in attrs
    BY <2>2 DEF SomeWay
  <2> QED
    BY <2>1, <2>3, LeafIsTree
<1>2. ASSUME NEW k \in Nat, NEW c \in Seq(AnyTree), Gate(k, c) \in AnyTree,
             \A i \in DOMAIN c : c[i] \in S
      PROVE  Gate(k, c) \in S
  <2> DEFINE r == [i \in DOMAIN c |-> Alternatives(c[i])]
  <2>1. DOMAIN c = 1 .. Len(c) /\ Len(c) \in Nat
    OBVIOUS
  <2>2. r \in Seq(Seq(NameSets)) /\ Len(r) = Len(c)
    BY ChildrenWays
  <2>3. \A i \in 1 .. Len(c) : r[i] = Alternatives(c[i])
    BY <2>1
  <2>4. \A i \in 1 .. Len(c) : SomeWay(r[i], attrs) <=> IsSatisfiedBy(c[i], attrs)
    BY <1>2, <2>1, <2>3
  <2>5. {i \in 1 .. Len(c) : SomeWay(r[i], attrs)} = {i \in DOMAIN c : IsSatisfiedBy(c[i], attrs)}
    BY <2>1, <2>4
  <2>6. Alternatives(Gate(k, c)) = Ways(k, r)
    BY <1>2, AlternativesOfGate
  <2> HIDE DEF r
  <2>7. SomeWay(Ways(k, r), attrs) <=> Cardinality({i \in 1 .. Len(r) : SomeWay(r[i], attrs)}) >= k
    BY <2>2, WaysSatisfied
  <2>8. IsSatisfiedBy(Gate(k, c), attrs)
          <=> Cardinality({i \in DOMAIN c : IsSatisfiedBy(c[i], attrs)}) >= k
    BY <1>2, SatisfiedGate
  <2> QED
    BY <1>2, <2>2, <2>5, <2>6, <2>7, <2>8
<1> HIDE DEF S
<1>3. HasGates(S)
  BY <1>2 DEF HasGates
<1>4. AnyTree \subseteq S
  BY <1>1, <1>3, TreeInduction
<1> QED
  BY <1>4 DEF S

\* The ways of a tree name what its leaves name, if every gate asks for one
\* child at least and for no more than there are.
WaysNameLeaves(t) ==
  ToSet(Alternatives(t)) # {} /\ NamesIn(Alternatives(t)) = ToSet(LeavesOf(t))

LEMMA WaysNameLeaf ==
  ASSUME NEW a \in Name
  PROVE  WaysNameLeaves(Leaf(a))
<1>1. Alternatives(Leaf(a)) = <<{a}>> /\ LeavesOf(Leaf(a)) = <<a>>
  BY AlternativesOfLeaf, LeavesOfLeaf
<1>2. ToSet(<<{a}>>) = {{a}} /\ ToSet(<<a>>) = {a}
  BY SingleElement
<1> QED
  BY <1>1, <1>2 DEF WaysNameLeaves, NamesIn

LEMMA WaysNameLeavesOfGate ==
  ASSUME NEW k, NEW c, Gate(k, c) \in AnyTree, 1 <= k, k <= Len(c),
         \A i \in DOMAIN c : WaysNameLeaves(c[i])
  PROVE  WaysNameLeaves(Gate(k, c))
<1> DEFINE r == [i \in DOMAIN c |-> Alternatives(c[i])]
           l == [i \in DOMAIN c |-> LeavesOf(c[i])]
<1>0. k \in Nat /\ c \in Seq(AnyTree) /\ \A i \in DOMAIN c : c[i] \in AnyTree
  BY GateParts
<1>1. DOMAIN c = 1 .. Len(c) /\ Len(c) \in Nat
  BY <1>0
<1>2. r \in Seq(Seq(NameSets)) /\ Len(r) = Len(c)
  BY <1>0, ChildrenWays
<1>3. l \in Seq(Seq(Name))
  <2>1. \A i \in 1 .. Len(c) : LeavesOf(c[i]) \in Seq(Name)
    BY <1>0, <1>1, LeavesOfType
  <2>2. [i \in 1 .. Len(c) |-> LeavesOf(c[i])] \in Seq(Seq(Name))
    BY <1>1, <2>1
  <2> QED
    BY <1>1, <2>2
<1>4. \A i \in 1 .. Len(c) : r[i] = Alternatives(c[i]) /\ l[i] = LeavesOf(c[i])
  BY <1>1
<1>5. DOMAIN l = 1 .. Len(c)
  BY <1>1
<1>6. Alternatives(Gate(k, c)) = Ways(k, r) /\ LeavesOf(Gate(k, c)) = FlattenSeq(l)
  BY AlternativesOfGate, LeavesOfGate
<1> HIDE DEF r, l
<1>7. \A i \in 1 .. Len(c) : ToSet(r[i]) # {} /\ NamesIn(r[i]) = ToSet(l[i])
  BY <1>1, <1>4 DEF WaysNameLeaves
<1>8. Possible(r)
  BY <1>2, <1>7 DEF Possible
<1>9. ToSet(Ways(k, r)) # {} /\ NamesIn(Ways(k, r)) = UNION {NamesIn(r[j]) : j \in 1 .. Len(r)}
  BY <1>0, <1>2, <1>8, WaysNames
<1>10. ToSet(FlattenSeq(l)) = UNION {ToSet(l[i]) : i \in DOMAIN l}
  BY <1>3, FlattenElements
<1>11. {NamesIn(r[j]) : j \in 1 .. Len(r)} = {ToSet(l[i]) : i \in DOMAIN l}
  BY <1>2, <1>5, <1>7
<1> QED
  BY <1>6, <1>9, <1>10, <1>11 DEF WaysNameLeaves

\* Retagging a tree tags the names of its ways.
Tagging(epochs) == [X \in NameSets |-> {Tag(x, epochs) : x \in X}]

LEMMA TaggingIsAdditive ==
  ASSUME NEW epochs, TagsAreNames(epochs)
  PROVE  Additive(Tagging(epochs))
<1> DEFINE h == Tagging(epochs)
<1>1. \A X \in NameSets : h[X] = {Tag(x, epochs) : x \in X}
  BY DEF Tagging
<1>2. h \in [NameSets -> NameSets]
  <2>1. \A X \in NameSets : {Tag(x, epochs) : x \in X} \in NameSets
    BY DEF NameSets, TagsAreNames
  <2> QED
    BY <2>1 DEF Tagging
<1>3. {} \in NameSets /\ \A X, Y \in NameSets : X \cup Y \in NameSets
  BY DEF NameSets
<1> HIDE DEF h
<1>4. h[{}] = {}
  BY <1>1, <1>3
<1>5. ASSUME NEW X \in NameSets, NEW Y \in NameSets
      PROVE  h[X \cup Y] = h[X] \cup h[Y]
  <2>1. h[X \cup Y] = {Tag(x, epochs) : x \in X \cup Y}
    BY <1>1, <1>3
  <2> QED
    BY <1>1, <2>1
<1> QED
  BY <1>2, <1>4, <1>5 DEF Additive, h

LEMMA AlternativesOfRetagged ==
  ASSUME NEW epochs, TagsAreNames(epochs)
  PROVE  \A t \in AnyTree :
           Alternatives(RetagTree(t, epochs)) = Mapped(Alternatives(t), Tagging(epochs))
<1> DEFINE h == Tagging(epochs)
           S == {t \in AnyTree : /\ RetagTree(t, epochs) \in AnyTree
                                 /\ Alternatives(RetagTree(t, epochs)) = Mapped(Alternatives(t), h)}
<1>1. Additive(h)
  BY TaggingIsAdditive
<1>2. HasLeaves(S)
  <2> SUFFICES ASSUME NEW a \in Name PROVE Leaf(a) \in S
    BY DEF HasLeaves
  <2>1. Tag(a, epochs) \in Name /\ {a} \in NameSets
    BY DEF TagsAreNames, NameSets
  <2>2. RetagTree(Leaf(a), epochs) = Leaf(Tag(a, epochs))
    BY RetagLeaf
  <2>3. /\ Alternatives(Leaf(a)) = <<{a}>>
        /\ Alternatives(Leaf(Tag(a, epochs))) = <<{Tag(a, epochs)}>>
    BY <2>1, AlternativesOfLeaf
  <2>4. h[{a}] = {Tag(a, epochs)}
    BY <2>1 DEF Tagging
  <2> HIDE DEF h
  <2>5. Mapped(<<{a}>>, h) = <<{Tag(a, epochs)}>>
    <3>1. ASSUME NEW x PROVE Mapped(<<x>>, h) = <<h[x]>>
      BY DEF Mapped
    <3> QED
      BY <2>4, <3>1
  <2> QED
    BY <2>1, <2>2, <2>3, <2>5, LeafIsTree
<1>3. ASSUME NEW k \in Nat, NEW c \in Seq(AnyTree), Gate(k, c) \in AnyTree,
             \A i \in DOMAIN c : c[i] \in S
      PROVE  Gate(k, c) \in S
  <2> DEFINE d == [i \in DOMAIN c |-> RetagTree(c[i], epochs)]
             r == [i \in DOMAIN c |-> Alternatives(c[i])]
  <2>1. DOMAIN c = 1 .. Len(c) /\ Len(c) \in Nat /\ DOMAIN d = DOMAIN c /\ DOMAIN r = DOMAIN c
    OBVIOUS
  <2>2. r \in Seq(Seq(NameSets)) /\ Len(r) = Len(c)
    BY ChildrenWays
  <2>3. RetagTree(Gate(k, c), epochs) = Gate(k, d) /\ Gate(k, d) \in AnyTree
    BY <1>3, RetagGate
  <2>4. \A i \in DOMAIN c : Alternatives(d[i]) = Mapped(r[i], h)
    BY <1>3
  <2>5. Alternatives(Gate(k, c)) = Ways(k, r)
    BY <1>3, AlternativesOfGate
  <2> HIDE DEF d, r, h
  <2>6. Alternatives(Gate(k, d)) = Ways(k, [i \in DOMAIN d |-> Alternatives(d[i])])
    BY <2>3, AlternativesOfGate
  <2>7. [i \in DOMAIN d |-> Alternatives(d[i])] = [i \in DOMAIN r |-> Mapped(r[i], h)]
    BY <2>1, <2>4
  <2>8. Ways(k, [i \in DOMAIN r |-> Mapped(r[i], h)]) = Mapped(Ways(k, r), h)
    BY <1>1, <2>2, WaysMapped
  <2> QED
    BY <1>3, <2>3, <2>5, <2>6, <2>7, <2>8
<1> HIDE DEF S
<1>4. HasGates(S)
  BY <1>3 DEF HasGates
<1>5. AnyTree \subseteq S
  BY <1>2, <1>4, TreeInduction
<1> QED
  BY <1>5 DEF S
=============================================================================
