----------------------------- MODULE CpabeProofs -----------------------------
(***************************************************************************)
(* What holds of every key and every package of the scheme, whatever       *)
(* scalars were drawn: what recombine needs, and what associated data is   *)
(* good for.                                                               *)
(***************************************************************************)
EXTENDS Cpabe, AccessTreeProofs

-----------------------------------------------------------------------------
(* The paths to the leaves of a tree.                                      *)

PathSets == SUBSET [path : Seq(Nat), attribute : Name]

\* What stands at x below the i-th child.
Below(i, x) == [path |-> <<i>> \o x.path, attribute |-> x.attribute]
PathsOver(s) == UNION {{Below(i, x) : x \in s[i]} : i \in DOMAIN s}

FindsPaths(f) ==
  f = [t \in AnyTree |->
         IF t.kind = "leaf" THEN {[path |-> << >>, attribute |-> t.attribute]}
         ELSE UNION {{[path |-> <<i>> \o x.path, attribute |-> x.attribute] :
                        x \in f[t.children[i]]} : i \in DOMAIN t.children}]

LEMMA PathsOverType ==
  ASSUME NEW s \in Seq(PathSets)
  PROVE  PathsOver(s) \in PathSets
<1> SUFFICES ASSUME NEW i \in DOMAIN s, NEW x \in s[i]
             PROVE  Below(i, x) \in [path : Seq(Nat), attribute : Name]
  BY DEF PathsOver, PathSets
<1>1. i \in Nat /\ s[i] \in PathSets
  OBVIOUS
<1>2. x.path \in Seq(Nat) /\ x.attribute \in Name
  BY <1>1 DEF PathSets
<1>3. <<i>> \o x.path \in Seq(Nat)
  BY <1>1, <1>2
<1> QED
  BY <1>2, <1>3 DEF Below

LEMMA FindsPathsExists == \E f : FindsPaths(f)
<1> DEFINE V == PathSets
           leaf == [a \in Name |-> {[path |-> << >>, attribute |-> a]}]
           gate == [x \in Nat \X Seq(V) |-> PathsOver(x[2])]
<1>1. leaf \in [Name -> V]
  <2>1. << >> \in Seq(Nat)
    OBVIOUS
  <2> QED
    BY <2>1 DEF PathSets
<1>2. gate \in [Nat \X Seq(V) -> V]
  <2>1. \A x \in Nat \X Seq(V) : x[2] \in Seq(V)
    OBVIOUS
  <2> QED
    BY <2>1, PathsOverType
<1>3. \A a \in Name : leaf[a] = {[path |-> << >>, attribute |-> a]}
  OBVIOUS
<1>4. ASSUME NEW k \in Nat, NEW r \in Seq(V) PROVE gate[<<k, r>>] = PathsOver(r)
  <2>1. <<k, r>> \in Nat \X Seq(V) /\ <<k, r>>[2] = r
    OBVIOUS
  <2> QED
    BY <2>1
<1> HIDE DEF leaf, gate, V
<1>5. PICK f \in [AnyTree -> V] : \A t \in AnyTree : f[t] = Folded(t, leaf, gate, f)
  BY <1>1, <1>2, FoldExists
<1>6. ASSUME NEW t \in AnyTree
      PROVE  f[t] = IF t.kind = "leaf" THEN {[path |-> << >>, attribute |-> t.attribute]}
                    ELSE UNION {{[path |-> <<i>> \o x.path, attribute |-> x.attribute] :
                                   x \in f[t.children[i]]} : i \in DOMAIN t.children}
  <2>1. CASE t.kind = "leaf"
    <3>1. t.attribute \in Name
      BY <2>1, TreeShape
    <3>2. f[t] = leaf[t.attribute]
      BY <1>5, <2>1 DEF Folded
    <3> QED
      BY <1>3, <2>1, <3>1, <3>2
  <2>2. CASE t.kind # "leaf"
    <3> DEFINE r == [i \in DOMAIN t.children |-> f[t.children[i]]]
    <3>1. t.threshold \in Nat /\ t.children \in Seq(AnyTree)
      BY <2>2, TreeShape
    <3>2. r \in Seq(V)
      BY <3>1, FoldOfChildren
    <3>3. f[t] = gate[<<t.threshold, r>>]
      BY <1>5, <2>2 DEF Folded
    <3>4. DOMAIN r = DOMAIN t.children /\ \A i \in DOMAIN t.children : r[i] = f[t.children[i]]
      OBVIOUS
    <3> HIDE DEF r
    <3>5. f[t] = PathsOver(r)
      BY <1>4, <3>1, <3>2, <3>3
    <3>6. PathsOver(r) = UNION {{Below(i, x) : x \in f[t.children[i]]} : i \in DOMAIN t.children}
      BY <3>4 DEF PathsOver
    <3> QED
      BY <2>2, <3>5, <3>6 DEF Below
  <2> QED
    BY <2>1, <2>2
<1>7. f = [t \in AnyTree |-> f[t]]
  OBVIOUS
<1>8. FindsPaths(f)
  BY <1>6, <1>7, Zenon DEF FindsPaths
<1> QED
  BY <1>8

LEMMA PathsOfLeaf ==
  ASSUME NEW a \in Name
  PROVE  LeafPaths(Leaf(a)) = {[path |-> << >>, attribute |-> a]}
<1> DEFINE f == CHOOSE f : FindsPaths(f)
<1>1. FindsPaths(f)
  BY FindsPathsExists
<1>2. LeafPaths(Leaf(a)) = f[Leaf(a)]
  BY DEF LeafPaths, FindsPaths
<1>3. Leaf(a) \in AnyTree /\ Leaf(a).kind = "leaf" /\ Leaf(a).attribute = a
  BY LeafIsTree DEF Leaf
<1> HIDE DEF f
<1> QED
  BY <1>1, <1>2, <1>3 DEF FindsPaths

LEMMA PathsOfGate ==
  ASSUME NEW k, NEW c, Gate(k, c) \in AnyTree
  PROVE  LeafPaths(Gate(k, c)) =
           UNION {{Below(i, x) : x \in LeafPaths(c[i])} : i \in DOMAIN c}
<1> DEFINE f == CHOOSE f : FindsPaths(f)
<1>1. FindsPaths(f)
  BY FindsPathsExists
<1>2. \A t : LeafPaths(t) = f[t]
  BY DEF LeafPaths, FindsPaths
<1>3. Gate(k, c).kind # "leaf" /\ Gate(k, c).children = c
  BY DEF Gate
<1> HIDE DEF f
<1> DEFINE t == Gate(k, c)
<1>4. f[t] = UNION {{Below(i, x) : x \in f[c[i]]} : i \in DOMAIN c}
  <2>1. t \in AnyTree /\ t.kind # "leaf" /\ t.children = c
    BY <1>3
  <2> HIDE DEF t
  <2>2. f[t] = UNION {{[path |-> <<i>> \o x.path, attribute |-> x.attribute] :
                         x \in f[t.children[i]]} : i \in DOMAIN t.children}
    BY <1>1, <2>1 DEF FindsPaths
  <2>3. f[t] = UNION {{Below(i, x) : x \in f[t.children[i]]} : i \in DOMAIN t.children}
    BY <2>2 DEF Below
  <2> QED
    BY <2>1, <2>3
<1>5. UNION {{Below(i, x) : x \in f[c[i]]} : i \in DOMAIN c}
        = UNION {{Below(i, x) : x \in LeafPaths(c[i])} : i \in DOMAIN c}
  BY <1>2
<1> QED
  BY <1>2, <1>4, <1>5

LEMMA PathsType ==
  ASSUME NEW t \in AnyTree
  PROVE  LeafPaths(t) \in PathSets
<1> DEFINE S == {u \in AnyTree : LeafPaths(u) \in PathSets}
<1>1. HasLeaves(S)
  <2> SUFFICES ASSUME NEW a \in Name PROVE Leaf(a) \in S
    BY DEF HasLeaves
  <2>1. << >> \in Seq(Nat)
    OBVIOUS
  <2>2. [path |-> << >>, attribute |-> a] \in [path : Seq(Nat), attribute : Name]
    BY <2>1
  <2>3. LeafPaths(Leaf(a)) \in PathSets
    BY <2>2, PathsOfLeaf DEF PathSets
  <2> QED
    BY <2>3, LeafIsTree
<1>2. ASSUME NEW k \in Nat, NEW c \in Seq(AnyTree), Gate(k, c) \in AnyTree,
             \A i \in DOMAIN c : c[i] \in S
      PROVE  Gate(k, c) \in S
  <2> DEFINE r == [i \in DOMAIN c |-> LeafPaths(c[i])]
  <2>1. DOMAIN c = 1 .. Len(c) /\ Len(c) \in Nat
    OBVIOUS
  <2>2. \A i \in 1 .. Len(c) : LeafPaths(c[i]) \in PathSets
    BY <1>2, <2>1
  <2>3. r \in Seq(PathSets)
    BY <2>1, <2>2
  <2>4. DOMAIN r = DOMAIN c /\ \A i \in DOMAIN c : r[i] = LeafPaths(c[i])
    OBVIOUS
  <2> HIDE DEF r
  <2>5. PathsOver(r) = UNION {{Below(i, x) : x \in LeafPaths(c[i])} : i \in DOMAIN c}
    BY <2>4 DEF PathsOver
  <2>6. LeafPaths(Gate(k, c)) \in PathSets
    BY <1>2, <2>3, <2>5, PathsOverType, PathsOfGate
  <2> QED
    BY <1>2, <2>6
<1> HIDE DEF S
<1>3. HasGates(S)
  BY <1>2 DEF HasGates
<1>4. AnyTree \subseteq S
  BY <1>1, <1>3, TreeInduction
<1> QED
  BY <1>4 DEF S

-----------------------------------------------------------------------------
(* recombine.                                                              *)

\* What it makes of a node and the path to it, f being what it makes of others.
ValueOf(f, t, path, i) == f[t.children[i]][Append(path, i)]
Giving(f, t, path) == {i \in DOMAIN t.children : ValueOf(f, t, path, i).some}
FirstOf(f, t, path) ==
  {i \in Giving(f, t, path) :
     Cardinality({j \in Giving(f, t, path) : j <= i}) <= t.threshold}
PointsOf(f, t, path) ==
  {[index |-> i, value |-> ValueOf(f, t, path, i).value] : i \in FirstOf(f, t, path)}
AtNode(results, f, t, path) ==
  IF t.kind = "leaf"
    THEN IF path \in DOMAIN results THEN Some(results[path]) ELSE None
    ELSE IF Cardinality(Giving(f, t, path)) < t.threshold THEN None
         ELSE Some(LagrangeCombine(SetToSeq(PointsOf(f, t, path))))
Recombines(results, S, f) ==
  f = [t \in S |-> [path \in Seq(Nat) |-> AtNode(results, f, t, path)]]

LEMMA NodeAlike ==
  ASSUME NEW results, NEW S, NEW t \in LeafTrees \cup GatesOver(S), NEW path,
         NEW f, NEW h, \A u \in S : f[u] = h[u]
  PROVE  AtNode(results, f, t, path) = AtNode(results, h, t, path)
<1>1. CASE t \in LeafTrees
  BY <1>1 DEF LeafTrees, AtNode
<1>2. CASE t \in GatesOver(S)
  <2>1. t.children \in Seq(S)
    BY <1>2 DEF GatesOver
  <2>2. \A i \in DOMAIN t.children : t.children[i] \in S
    BY <2>1
  <2>3. \A i \in DOMAIN t.children : ValueOf(f, t, path, i) = ValueOf(h, t, path, i)
    BY <2>2 DEF ValueOf
  <2>4. Giving(f, t, path) = Giving(h, t, path)
    BY <2>3 DEF Giving
  <2>5. FirstOf(f, t, path) = FirstOf(h, t, path)
    BY <2>4 DEF FirstOf
  <2>6. \A i \in FirstOf(f, t, path) : i \in DOMAIN t.children
    BY DEF FirstOf, Giving
  <2>7. PointsOf(f, t, path) = PointsOf(h, t, path)
    BY <2>3, <2>5, <2>6 DEF PointsOf
  <2> QED
    BY <2>4, <2>7 DEF AtNode
<1> QED
  BY <1>1, <1>2

LEMMA RecombinesNext ==
  ASSUME NEW results, NEW n \in Nat, n < MaxDepth,
         NEW f, Recombines(results, Level[n], f)
  PROVE  \E h : Recombines(results, Level[n + 1], h)
<1> DEFINE row(g, t) == [path \in Seq(Nat) |-> AtNode(results, g, t, path)]
           h == [t \in Level[n + 1] |-> row(f, t)]
<1>1. Level[n + 1] = LeafTrees \cup GatesOver(Level[n]) /\ Level[n] \subseteq Level[n + 1]
  BY LevelUp, LevelGrows
<1>2. \A t \in Level[n] : f[t] = row(f, t)
  BY Zenon DEF Recombines
<1>3. \A t \in Level[n + 1] : h[t] = row(f, t)
  OBVIOUS
<1>4. h = [t \in Level[n + 1] |-> h[t]]
  OBVIOUS
<1> HIDE DEF h
<1>5. \A t \in Level[n] : f[t] = h[t]
  BY <1>1, <1>2, <1>3
<1>6. ASSUME NEW t \in Level[n + 1] PROVE h[t] = row(h, t)
  <2>1. \A path : AtNode(results, f, t, path) = AtNode(results, h, t, path)
    BY <1>1, <1>5, NodeAlike
  <2>2. row(f, t) = row(h, t)
    BY <2>1
  <2> QED
    BY <1>3, <2>2
<1>7. h = [t \in Level[n + 1] |-> row(h, t)]
  BY <1>4, <1>6
<1> QED
  BY <1>7 DEF Recombines

LEMMA RecombinesExists ==
  ASSUME NEW results
  PROVE  \E f : Recombines(results, AnyTree, f)
<1> DEFINE S == {n \in Nat : n <= MaxDepth => \E f : Recombines(results, Level[n], f)}
<1>1. 0 \in S
  <2> DEFINE row(g, t) == [path \in Seq(Nat) |-> AtNode(results, g, t, path)]
             f == [t \in Level[0] |-> row(<< >>, t)]
  <2>1. \A t \in Level[0] : f[t] = row(<< >>, t)
    OBVIOUS
  <2>2. f = [t \in Level[0] |-> f[t]]
    OBVIOUS
  <2> HIDE DEF f
  <2>3. ASSUME NEW t \in Level[0] PROVE f[t] = row(f, t)
    <3>1. t.kind = "leaf"
      BY LevelEq DEF LeafTrees
    <3>2. \A path : AtNode(results, << >>, t, path) = AtNode(results, f, t, path)
      BY <3>1 DEF AtNode
    <3>3. row(<< >>, t) = row(f, t)
      BY <3>2
    <3> QED
      BY <2>1, <3>3
  <2>4. f = [t \in Level[0] |-> row(f, t)]
    BY <2>2, <2>3
  <2>5. Recombines(results, Level[0], f)
    BY <2>4 DEF Recombines
  <2> QED
    BY <2>5
<1>2. ASSUME NEW n \in S PROVE n + 1 \in S
  <2> SUFFICES ASSUME n + 1 <= MaxDepth
               PROVE  \E f : Recombines(results, Level[n + 1], f)
    OBVIOUS
  <2>1. n \in Nat /\ n < MaxDepth /\ n <= MaxDepth
    BY DepthAssumption
  <2>2. PICK f : Recombines(results, Level[n], f)
    BY <2>1
  <2> QED
    BY <2>1, <2>2, RecombinesNext
<1>3. S = Nat
  <2> HIDE DEF S
  <2>1. S \in SUBSET Nat
    BY DEF S
  <2> QED
    BY <1>1, <1>2, <2>1, InductionInSet
<1> QED
  BY <1>3, LevelEq, DepthAssumption

Recombined(results) == CHOOSE f : Recombines(results, AnyTree, f)

LEMMA RecombineIs ==
  ASSUME NEW results
  PROVE  /\ \A t : Recombine(t, results) = Recombined(results)[t][<< >>]
         /\ \A t \in AnyTree, path \in Seq(Nat) :
              Recombined(results)[t][path] = AtNode(results, Recombined(results), t, path)
<1> DEFINE f == Recombined(results)
<1>1. Recombines(results, AnyTree, f)
  BY RecombinesExists DEF Recombined
<1>2. \A t : Recombine(t, results) = f[t][<< >>]
  BY Zenon DEF Recombine, Recombined, Recombines, AtNode, PointsOf, FirstOf, Giving, ValueOf
<1> HIDE DEF f
<1>3. \A t \in AnyTree : f[t] = [path \in Seq(Nat) |-> AtNode(results, f, t, path)]
  BY <1>1, Zenon DEF Recombines
<1>4. \A t \in AnyTree, path \in Seq(Nat) : f[t][path] = AtNode(results, f, t, path)
  BY <1>3
<1> QED
  BY <1>2, <1>4 DEF f

\* That the results below a node are those of the leaves whose attribute is held.
HeldBelow(results, attrs, t, p) ==
  \A q \in Seq(Nat) :
    p \o q \in DOMAIN results <=> \E x \in LeafPaths(t) : x.path = q /\ x.attribute \in attrs
GivesIfSatisfied(results, attrs, t) ==
  \A p \in Seq(Nat) :
    HeldBelow(results, attrs, t, p) =>
      (Recombined(results)[t][p].some <=> IsSatisfiedBy(t, attrs))

LEMMA SomeIsSome == /\ \A x : Some(x).some
                    /\ ~ None.some
BY DEF Some, None

LEMMA LeafGives ==
  ASSUME NEW results, NEW attrs, NEW a \in Name
  PROVE  GivesIfSatisfied(results, attrs, Leaf(a))
<1> SUFFICES ASSUME NEW p \in Seq(Nat), HeldBelow(results, attrs, Leaf(a), p)
             PROVE  Recombined(results)[Leaf(a)][p].some <=> IsSatisfiedBy(Leaf(a), attrs)
  BY DEF GivesIfSatisfied
<1>1. IsSatisfiedBy(Leaf(a), attrs) <=> a \in attrs
  BY SatisfiedLeaf
<1>2. p \in DOMAIN results <=> a \in attrs
  <2> DEFINE e == << >>
             l == [path |-> e, attribute |-> a]
  <2>1. e \in Seq(Nat) /\ p \o e = p
    OBVIOUS
  <2>2. LeafPaths(Leaf(a)) = {l} /\ l.path = e /\ l.attribute = a
    BY PathsOfLeaf
  <2> HIDE DEF e, l
  <2> QED
    BY <2>1, <2>2 DEF HeldBelow
<1>3. Leaf(a) \in AnyTree /\ Leaf(a).kind = "leaf"
  BY LeafIsTree DEF Leaf
<1>4. Recombined(results)[Leaf(a)][p] = IF p \in DOMAIN results THEN Some(results[p]) ELSE None
  BY <1>3, RecombineIs DEF AtNode
<1> QED
  BY <1>1, <1>2, <1>4, SomeIsSome

\* Paths that begin with the same number differ only after it.
LEMMA PathParts ==
  ASSUME NEW i \in Nat, NEW j \in Nat, NEW q \in Seq(Nat), NEW r \in Seq(Nat),
         <<i>> \o q = <<j>> \o r
  PROVE  i = j /\ q = r
<1> DEFINE x == <<i>> \o q
           y == <<j>> \o r
<1>1. x[1] = i /\ y[1] = j
  OBVIOUS
<1>2. Tail(x) = q /\ Tail(y) = r
  OBVIOUS
<1> QED
  BY <1>1, <1>2

LEMMA HeldByChild ==
  ASSUME NEW results, NEW attrs, NEW k, NEW c, Gate(k, c) \in AnyTree,
         NEW p \in Seq(Nat), HeldBelow(results, attrs, Gate(k, c), p), NEW i \in DOMAIN c
  PROVE  HeldBelow(results, attrs, c[i], Append(p, i))
<1> SUFFICES ASSUME NEW q \in Seq(Nat)
             PROVE  Append(p, i) \o q \in DOMAIN results
                      <=> \E x \in LeafPaths(c[i]) : x.path = q /\ x.attribute \in attrs
  BY DEF HeldBelow
<1>1. i \in Nat /\ c \in Seq(AnyTree) /\ \A j \in DOMAIN c : j \in Nat /\ c[j] \in AnyTree
  BY GateParts
<1> DEFINE s == <<i>> \o q
<1>2. s \in Seq(Nat) /\ Append(p, i) \o q = p \o s
  BY <1>1
<1>3. \A j \in DOMAIN c : \A x \in LeafPaths(c[j]) : x.path \in Seq(Nat)
  BY <1>1, PathsType DEF PathSets
<1>4. p \o s \in DOMAIN results
        <=> \E x \in LeafPaths(Gate(k, c)) : x.path = s /\ x.attribute \in attrs
  BY <1>2 DEF HeldBelow
<1>5. ASSUME NEW j \in DOMAIN c, NEW x \in LeafPaths(c[j]), Below(j, x).path = s
      PROVE  j = i /\ x.path = q
  <2>1. <<j>> \o x.path = <<i>> \o q
    BY <1>5 DEF Below
  <2>2. j \in Nat /\ x.path \in Seq(Nat)
    BY <1>1, <1>3
  <2> QED
    BY <1>1, <2>1, <2>2, PathParts
<1>6. ASSUME NEW x \in LeafPaths(c[i]), x.path = q
      PROVE  Below(i, x).path = s
  BY <1>6 DEF Below
<1>7. \A j, x : Below(j, x).attribute = x.attribute
  BY DEF Below
<1> HIDE DEF s
<1>8. \A y : y \in LeafPaths(Gate(k, c))
               <=> \E j \in DOMAIN c : \E x \in LeafPaths(c[j]) : y = Below(j, x)
  BY PathsOfGate
<1>9. (\E y \in LeafPaths(Gate(k, c)) : y.path = s /\ y.attribute \in attrs)
        <=> \E x \in LeafPaths(c[i]) : x.path = q /\ x.attribute \in attrs
  <2>1. ASSUME NEW y \in LeafPaths(Gate(k, c)), y.path = s, y.attribute \in attrs
        PROVE  \E x \in LeafPaths(c[i]) : x.path = q /\ x.attribute \in attrs
    BY <1>5, <1>7, <1>8, <2>1
  <2>2. ASSUME NEW x \in LeafPaths(c[i]), x.path = q, x.attribute \in attrs
        PROVE  \E y \in LeafPaths(Gate(k, c)) : y.path = s /\ y.attribute \in attrs
    BY <1>6, <1>7, <1>8, <2>2
  <2> QED
    BY <2>1, <2>2
<1> QED
  BY <1>2, <1>4, <1>9

LEMMA GateGives ==
  ASSUME NEW results, NEW attrs, NEW k, NEW c, Gate(k, c) \in AnyTree,
         \A i \in DOMAIN c : GivesIfSatisfied(results, attrs, c[i])
  PROVE  GivesIfSatisfied(results, attrs, Gate(k, c))
<1> DEFINE t == Gate(k, c)
           f == Recombined(results)
<1> SUFFICES ASSUME NEW p \in Seq(Nat), HeldBelow(results, attrs, t, p)
             PROVE  f[t][p].some <=> IsSatisfiedBy(t, attrs)
  BY DEF GivesIfSatisfied
<1>1. k \in Nat /\ t.kind # "leaf" /\ t.threshold = k /\ t.children = c
  BY GateParts DEF Gate
<1>2. ASSUME NEW i \in DOMAIN c
      PROVE  ValueOf(f, t, p, i).some <=> IsSatisfiedBy(c[i], attrs)
  <2>1. Append(p, i) \in Seq(Nat)
    <3>1. i \in Nat
      BY GateParts
    <3> QED
      BY <3>1
  <2>2. HeldBelow(results, attrs, c[i], Append(p, i))
    BY HeldByChild
  <2>3. f[c[i]][Append(p, i)].some <=> IsSatisfiedBy(c[i], attrs)
    BY <2>1, <2>2 DEF GivesIfSatisfied
  <2> QED
    BY <1>1, <2>3 DEF ValueOf
<1> DEFINE G == Giving(f, t, p)
           H == {i \in DOMAIN c : IsSatisfiedBy(c[i], attrs)}
<1>3. G = H
  BY <1>1, <1>2 DEF Giving
<1>4. IsSatisfiedBy(t, attrs) <=> Cardinality(H) >= k
  BY SatisfiedGate
<1>5. Cardinality(H) \in Nat
  <2>1. IsFiniteSet(DOMAIN c)
    <3>1. DOMAIN c = 1 .. Len(c) /\ Len(c) \in Nat
      BY GateParts
    <3> QED
      BY <3>1, FS_Interval
  <2> QED
    BY <2>1, FS_Subset, FS_CardinalityType
<1>6. f[t][p] = AtNode(results, f, t, p)
  BY RecombineIs
<1> HIDE DEF t, f, G, H
<1>7. f[t][p].some <=> ~ (Cardinality(G) < k)
  <2>1. CASE Cardinality(G) < k
    <3>1. f[t][p] = None
      BY <1>1, <1>6, <2>1 DEF AtNode, G
    <3> QED
      BY <2>1, <3>1, SomeIsSome
  <2>2. CASE ~ (Cardinality(G) < k)
    <3>1. f[t][p] = Some(LagrangeCombine(SetToSeq(PointsOf(f, t, p))))
      BY <1>1, <1>6, <2>2 DEF AtNode, G
    <3> QED
      BY <2>2, <3>1, SomeIsSome
  <2> QED
    BY <2>1, <2>2
<1> QED
  BY <1>1, <1>3, <1>4, <1>5, <1>7

LEMMA TreesGive ==
  ASSUME NEW results, NEW attrs, NEW t \in AnyTree
  PROVE  GivesIfSatisfied(results, attrs, t)
<1> DEFINE S == {u \in AnyTree : GivesIfSatisfied(results, attrs, u)}
<1>1. HasLeaves(S)
  BY LeafGives, LeafIsTree DEF HasLeaves
<1>2. ASSUME NEW k \in Nat, NEW c \in Seq(AnyTree), Gate(k, c) \in AnyTree,
             \A i \in DOMAIN c : c[i] \in S
      PROVE  Gate(k, c) \in S
  BY <1>2, GateGives
<1> HIDE DEF S
<1>3. HasGates(S)
  BY <1>2 DEF HasGates
<1>4. AnyTree \subseteq S
  BY <1>1, <1>3, TreeInduction
<1> QED
  BY <1>4 DEF S

\* recombine gives a value exactly for the attributes that satisfy the tree.
LEMMA RecombineGives ==
  ASSUME NEW t \in AnyTree, NEW results, NEW attrs,
         \A q \in Seq(Nat) : q \in DOMAIN results
           <=> \E x \in LeafPaths(t) : x.path = q /\ x.attribute \in attrs
  PROVE  Recombine(t, results).some <=> IsSatisfiedBy(t, attrs)
<1> DEFINE e == << >>
<1>1. e \in Seq(Nat) /\ \A q \in Seq(Nat) : e \o q = q
  OBVIOUS
<1>2. Recombine(t, results) = Recombined(results)[t][e]
  BY RecombineIs
<1> HIDE DEF e
<1>3. HeldBelow(results, attrs, t, e)
  BY <1>1 DEF HeldBelow
<1> QED
  BY <1>1, <1>2, <1>3, TreesGive DEF GivesIfSatisfied

-----------------------------------------------------------------------------
(* What a package is.                                                      *)

\* Leaves with the paths and the names that those of the tree have.
LeavesOfTree(leaves, tree) ==
  \A q, a : (\E x \in leaves : x.path = q /\ x.attribute = a)
              <=> \E x \in LeafPaths(tree) : x.path = q /\ x.attribute = a

\* A package has the shape that `seal` gives it, for a tree whose text it carries.
SealedFor(code, tree) ==
  \E dek, key, c, leaves, document :
    /\ LeavesOfTree(leaves, tree)
    /\ code = [sealed |-> [file |-> Box(dek, FileAad(tree), document), policy_summary |-> tree],
               key_ciphertext |-> [tree |-> tree, c |-> c, leaves |-> leaves,
                                   wrapped_key |-> Box(key, DekAad(tree), dek)]]
PackagesInv == \A p \in packages : \E tree \in Tree : SealedFor(p.code, tree)

LEMMA SealedLeaves ==
  ASSUME NEW pp, NEW dek, NEW tree, NEW n
  PROVE  LeavesOfTree(EncryptKey(pp, dek, tree, n).leaves, tree)
<1> DEFINE s      == Draw(<<n, 7>>)
           shares == ShareSecret(tree, s, n)
           leaf(x) == [path |-> x.path, attribute |-> x.attribute, cy |-> x.share,
                       cy_prime |-> Mul(pp.attributes[x.attribute].t1, x.share)]
           share(x) == [path |-> x.path, attribute |-> x.attribute,
                        share |-> ShareAt(tree, s, x.path, n)]
<1>1. EncryptKey(pp, dek, tree, n).leaves = {leaf(x) : x \in shares}
  BY DEF EncryptKey
<1>2. shares = {share(x) : x \in LeafPaths(tree)}
  BY DEF ShareSecret
<1>3. \A x : /\ leaf(x).path = x.path /\ leaf(x).attribute = x.attribute
             /\ share(x).path = x.path /\ share(x).attribute = x.attribute
  OBVIOUS
<1> HIDE DEF s, shares, leaf, share
<1>4. ASSUME NEW q, NEW a
      PROVE  (\E x \in {leaf(y) : y \in shares} : x.path = q /\ x.attribute = a)
               <=> \E x \in LeafPaths(tree) : x.path = q /\ x.attribute = a
  BY <1>2, <1>3
<1> QED
  BY <1>1, <1>4 DEF LeavesOfTree

LEMMA PackagesStep ==
  ASSUME PackagesInv, [Next]_vars
  PROVE  PackagesInv'
<1>1. CASE UNCHANGED packages
  BY <1>1 DEF PackagesInv, SealedFor
<1>2. ASSUME NEW b \in bundles, NEW tree \in Tree, Encrypt(b, tree)
      PROVE  PackagesInv'
  <2> DEFINE r == Registered(b, ToSet(LeavesOf(tree)), clock')
             new == Pair(Seal(r.pp, clock', tree, tree, clock'),
                         Model!SealPackage(r.model, Alternatives(tree), clock'))
  <2>1. packages' = packages \cup {new}
    BY <1>2 DEF Encrypt
  <2>2. SealedFor(new.code, tree)
    <3> DEFINE ct == EncryptKey(r.pp, Draw(<<clock', 8>>), tree, clock')
    <3>1. LeavesOfTree(ct.leaves, tree)
      BY SealedLeaves
    <3>2. /\ new.code.key_ciphertext = ct
          /\ new.code.sealed = [file |-> Box(Draw(<<clock', 8>>), FileAad(tree), clock'),
                                policy_summary |-> tree]
          /\ new.code = [sealed |-> new.code.sealed, key_ciphertext |-> new.code.key_ciphertext]
      BY DEF Pair, Seal
    <3>3. \E key, c, leaves :
            ct = [tree |-> tree, c |-> c, leaves |-> leaves,
                  wrapped_key |-> Box(key, DekAad(tree), Draw(<<clock', 8>>))]
      BY DEF EncryptKey
    <3> HIDE DEF ct, new
    <3>4. PICK key, c, leaves :
            ct = [tree |-> tree, c |-> c, leaves |-> leaves,
                  wrapped_key |-> Box(key, DekAad(tree), Draw(<<clock', 8>>))]
      BY <3>3
    <3>5. ct.leaves = leaves
      BY <3>4
    <3> QED
      BY <3>1, <3>2, <3>4, <3>5 DEF SealedFor
  <2> HIDE DEF new
  <2>3. \A p \in packages' : \E t \in Tree : SealedFor(p.code, t)
    BY <2>1, <2>2 DEF PackagesInv
  <2> QED
    BY <2>3 DEF PackagesInv, SealedFor
<1> QED
  BY <1>1, <1>2 DEF Next, vars, Setup, Issue

LEMMA PackagesInvariant == Spec => []PackagesInv
<1>1. Init => PackagesInv
  BY DEF Init, PackagesInv
<1>2. PackagesInv /\ [Next]_vars => PackagesInv'
  BY PackagesStep
<1> QED
  BY <1>1, <1>2, PTL DEF Spec

-----------------------------------------------------------------------------
(* A package is bound to its policy.                                       *)

\* What the two boxes of a package were closed with.
LEMMA PackageParts ==
  ASSUME NEW code, NEW tree, SealedFor(code, tree)
  PROVE  /\ code.key_ciphertext.tree = tree
         /\ code.key_ciphertext.wrapped_key.aad = DekAad(tree)
         /\ code.sealed.policy_summary = tree
         /\ code.sealed.file.aad = FileAad(tree)
BY DEF SealedFor, Box

LEMMA OtherAad ==
  ASSUME NEW t, NEW u, t # u
  PROVE  DekAad(t) # DekAad(u) /\ FileAad(t) # FileAad(u)
BY DEF DekAad, FileAad

\* A box does not open with other associated data.
LEMMA OtherBox ==
  ASSUME NEW box, NEW key, NEW aad, box.aad # aad
  PROVE  Unbox(box, key, aad) = None
BY DEF Unbox

LEMMA Bound ==
  ASSUME PackagesInv
  PROVE  BoundToItsPolicy
<1> SUFFICES ASSUME NEW k \in keys, NEW p \in packages, NEW other \in Tree,
                    other # p.code.key_ciphertext.tree
             PROVE  /\ Open(k.code, [p.code EXCEPT !.key_ciphertext.tree = other]) = None
                    /\ Open(k.code, [p.code EXCEPT !.sealed.policy_summary = other]) = None
  BY DEF BoundToItsPolicy
<1> PICK tree \in Tree : SealedFor(p.code, tree)
  BY DEF PackagesInv
<1>1. /\ p.code.key_ciphertext.tree = tree
      /\ p.code.key_ciphertext.wrapped_key.aad = DekAad(tree)
      /\ p.code.sealed.policy_summary = tree
      /\ p.code.sealed.file.aad = FileAad(tree)
  BY PackageParts
<1>2. PICK dek, key, c, leaves, document :
        p.code = [sealed |-> [file |-> Box(dek, FileAad(tree), document), policy_summary |-> tree],
                  key_ciphertext |-> [tree |-> tree, c |-> c, leaves |-> leaves,
                                      wrapped_key |-> Box(key, DekAad(tree), dek)]]
  BY DEF SealedFor
<1>3. DekAad(tree) # DekAad(other) /\ FileAad(tree) # FileAad(other)
  BY <1>1, OtherAad
<1>4. Open(k.code, [p.code EXCEPT !.key_ciphertext.tree = other]) = None
  <2> DEFINE pkg == [p.code EXCEPT !.key_ciphertext.tree = other]
             ct  == pkg.key_ciphertext
  <2>1. ct.tree = other /\ ct.wrapped_key = p.code.key_ciphertext.wrapped_key
    BY <1>2
  <2> HIDE DEF ct, pkg
  <2>2. \A x : Unbox(ct.wrapped_key, x, DekAad(ct.tree)) = None
    BY <1>1, <1>3, <2>1, OtherBox
  <2>3. DecryptKey(k.code, ct) = None
    BY <2>2 DEF DecryptKey
  <2>4. Open(k.code, pkg) = None
    BY <2>3 DEF Open, None, ct
  <2> QED
    BY <2>4 DEF pkg
<1>5. Open(k.code, [p.code EXCEPT !.sealed.policy_summary = other]) = None
  <2> DEFINE pkg == [p.code EXCEPT !.sealed.policy_summary = other]
  <2>1. pkg.sealed.file = p.code.sealed.file /\ pkg.sealed.policy_summary = other
    BY <1>2
  <2> HIDE DEF pkg
  <2>2. \A x : Unbox(pkg.sealed.file, x, FileAad(pkg.sealed.policy_summary)) = None
    BY <1>1, <1>3, <2>1, OtherBox
  <2>3. Open(k.code, pkg) = None
    BY <2>2 DEF Open
  <2> QED
    BY <2>3 DEF pkg
<1> QED
  BY <1>4, <1>5

\* "A ciphertext whose tree metadata was swapped for a different policy cannot
\* successfully unwrap the DEK": the associated data of both boxes binds a
\* package to its policy, for every key and every other policy (dek_wrap_aad
\* and decrypt_key in scheme.rs, file_aad and open in envelope/src/lib.rs).
THEOREM PackagesAreBound == Spec => []BoundToItsPolicy
<1>1. PackagesInv => BoundToItsPolicy
  BY Bound
<1> QED
  BY <1>1, PackagesInvariant, PTL

-----------------------------------------------------------------------------
(* A package opens for keys that satisfy its policy.                       *)

LEMMA LeafResultsAre ==
  ASSUME NEW usk, NEW ct, NEW tree, LeavesOfTree(ct.leaves, tree), NEW q
  PROVE  q \in DOMAIN LeafResults(usk, ct)
           <=> \E x \in LeafPaths(tree) : x.path = q /\ x.attribute \in DOMAIN usk.attributes
<1>1. DOMAIN LeafResults(usk, ct) =
        {x.path : x \in {y \in ct.leaves : y.attribute \in DOMAIN usk.attributes}}
  BY DEF LeafResults
<1>2. q \in DOMAIN LeafResults(usk, ct)
        <=> \E x \in ct.leaves : x.path = q /\ x.attribute \in DOMAIN usk.attributes
  BY <1>1
<1> QED
  BY <1>2 DEF LeavesOfTree

LEMMA RecombinesRight ==
  ASSUME PackagesInv
  PROVE  RecombinesIffSatisfied
<1> SUFFICES ASSUME NEW k \in keys, NEW p \in packages
             PROVE  Recombine(p.code.key_ciphertext.tree,
                              LeafResults(k.code, p.code.key_ciphertext)).some
                      <=> IsSatisfiedBy(p.code.key_ciphertext.tree, DOMAIN k.code.attributes)
  BY DEF RecombinesIffSatisfied
<1> PICK tree \in Tree : SealedFor(p.code, tree)
  BY DEF PackagesInv
<1> DEFINE ct == p.code.key_ciphertext
<1>1. ct.tree = tree /\ LeavesOfTree(ct.leaves, tree)
  BY DEF SealedFor
<1>2. tree \in AnyTree
  BY TreeAssumption
<1> HIDE DEF ct
<1>3. \A q \in Seq(Nat) : q \in DOMAIN LeafResults(k.code, ct)
        <=> \E x \in LeafPaths(tree) : x.path = q /\ x.attribute \in DOMAIN k.code.attributes
  BY <1>1, LeafResultsAre
<1>4. Recombine(tree, LeafResults(k.code, ct)).some
        <=> IsSatisfiedBy(tree, DOMAIN k.code.attributes)
  BY <1>2, <1>3, RecombineGives
<1> QED
  BY <1>1, <1>4 DEF ct

\* "`Some(e(g1,g2)^{r*secret})` if and only if the held attribute set satisfies
\* the tree": for every tree, with gates of every threshold nested to any depth
\* and names that occur as often as they like, recombine gives a value for the
\* pairings of a key exactly if is_satisfied_by accepts its names (recombine in
\* share.rs, decrypt_key in scheme.rs, is_satisfied_by in tree.rs).
THEOREM RecombinationIsExact == Spec => []RecombinesIffSatisfied
<1>1. PackagesInv => RecombinesIffSatisfied
  BY RecombinesRight
<1> QED
  BY <1>1, PackagesInvariant, PTL

\* Whatever a package gives, it gives to a key that satisfies its policy.
OpensOnlyIfSatisfied ==
  \A k \in keys, p \in packages :
    Open(k.code, p.code) # None =>
      IsSatisfiedBy(p.code.key_ciphertext.tree, DOMAIN k.code.attributes)

LEMMA UnsatisfiedGetNothing ==
  ASSUME RecombinesIffSatisfied
  PROVE  OpensOnlyIfSatisfied
<1> SUFFICES ASSUME NEW k \in keys, NEW p \in packages,
                    ~ Recombine(p.code.key_ciphertext.tree,
                                LeafResults(k.code, p.code.key_ciphertext)).some
             PROVE  Open(k.code, p.code) = None
  BY DEF RecombinesIffSatisfied, OpensOnlyIfSatisfied
<1>1. DecryptKey(k.code, p.code.key_ciphertext) = None
  BY DEF DecryptKey
<1> QED
  BY <1>1 DEF Open, None

\* "The returned ciphertext can only be opened by a user secret key whose
\* attribute set satisfies `tree`", whether or not key and package were made
\* from the same copy of setup.json (decrypt_key and envelope::open return
\* PolicyNotSatisfied where recombine finds no value).
THEOREM OnlySatisfyingKeysOpen == Spec => []OpensOnlyIfSatisfied
<1>1. RecombinesIffSatisfied => OpensOnlyIfSatisfied
  BY UnsatisfiedGetNothing
<1> QED
  BY <1>1, RecombinationIsExact, PTL
=============================================================================
