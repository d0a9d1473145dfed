----------------------------- MODULE AccessTree -----------------------------
(***************************************************************************)
(* Threshold access trees (policy/src/tree.rs) and the flat form in which  *)
(* Deployment keeps them.                                                  *)
(*                                                                         *)
(* A tree is a leaf, which names an attribute, or a gate, which asks for   *)
(* `threshold` of its children.  What walks over a tree is a recursive     *)
(* function on the trees of at most some depth, so that proofs can expand  *)
(* it.                                                                     *)
(***************************************************************************)
EXTENDS Integers, FiniteSets, Sequences, SequencesExt

CONSTANTS
  Name,     \* what a leaf may name
  MaxDepth  \* bound: gates on the way to a leaf

ASSUME DepthAssumption == MaxDepth \in Nat

Leaf(a) == [kind |-> "leaf", attribute |-> a]
Gate(k, children) == [kind |-> "gate", threshold |-> k, children |-> children]
And(children) == Gate(Len(children), children)
Or(children)  == Gate(1, children)

AnyTree ==
  LET upTo[n \in 0 .. MaxDepth] ==
        [kind : {"leaf"}, attribute : Name] \cup
        (IF n = 0 THEN {}
         ELSE [kind : {"gate"}, threshold : Nat, children : Seq(upTo[n - 1])])
  IN upTo[MaxDepth]

\* AccessTree::is_satisfied_by
IsSatisfiedBy(tree, attrs) ==
  LET satisfied[t \in AnyTree] ==
        IF t.kind = "leaf" THEN t.attribute \in attrs
        ELSE Cardinality({i \in DOMAIN t.children : satisfied[t.children[i]]}) >= t.threshold
  IN satisfied[tree]

\* AccessTree::leaves, from left to right.
LeavesOf(tree) ==
  LET leaves[t \in AnyTree] ==
        IF t.kind = "leaf" THEN <<t.attribute>>
        ELSE FlattenSeq([i \in DOMAIN t.children |-> leaves[t.children[i]]])
  IN leaves[tree]

\* RevocationList::current_epoch
CurrentEpoch(name, epochs) == IF name \in DOMAIN epochs THEN epochs[name] ELSE 0
\* RevocationList::tag: a name, which is a text, under its epoch.
Tag(name, epochs) == name \o <<"@epoch", ToString(CurrentEpoch(name, epochs))>>

\* Mutant of RetagTree: it does not go down into gates below a gate.
RetagChildren(tree, epochs) ==
  LET retag(t) == Leaf(Tag(t.attribute, epochs))
  IN IF tree.kind = "leaf" THEN retag(tree)
     ELSE Gate(tree.threshold,
               [i \in DOMAIN tree.children |->
                  IF tree.children[i].kind = "gate" THEN tree.children[i]
                  ELSE retag(tree.children[i])])
\* retag_tree: every leaf under the epoch of its attribute.
RetagTree(tree, epochs) ==
  LET retagged[t \in AnyTree] ==
        IF t.kind = "leaf" THEN Leaf(Tag(t.attribute, epochs))
        ELSE Gate(t.threshold, [i \in DOMAIN t.children |-> retagged[t.children[i]]])
  IN retagged[tree]

-----------------------------------------------------------------------------
(* The ways to satisfy a tree, each as a set of leaf names, in the order   *)
(* in which `recombine` prefers them: it takes the first children that are *)
(* satisfied, and of each of those its own first way.                      *)

\* Every union of one element of s and one of t, those of s[1] first.
Combine(s, t) ==
  FlattenSeq([i \in DOMAIN s |-> [j \in DOMAIN t |-> s[i] \cup t[j]]])

\* The ways to satisfy k of the children whose own ways are w[1], w[2], ...:
\* of the last i of them, first those that use the first of these children,
\* then those that do without it.
Ways(k, w) ==
  LET ofLast[i \in 0 .. Len(w)] ==
        [n \in 0 .. k |->
           IF n = 0 THEN <<{}>>
           ELSE IF i < n THEN << >>
           ELSE Combine(w[Len(w) + 1 - i], ofLast[i - 1][n - 1]) \o ofLast[i - 1][n]]
  IN ofLast[Len(w)][k]

Alternatives(tree) ==
  LET ways[t \in AnyTree] ==
        IF t.kind = "leaf" THEN <<{t.attribute}>>
        ELSE Ways(t.threshold, [i \in DOMAIN t.children |-> ways[t.children[i]]])
  IN ways[tree]
=============================================================================
