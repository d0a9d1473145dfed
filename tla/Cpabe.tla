-------------------------------- MODULE Cpabe --------------------------------
(***************************************************************************)
(* The CP-ABE scheme and the envelope around it, over a small prime field. *)
(*                                                                         *)
(* A group element is its exponent (of g1, g2 or e(g1,g2)), so a pairing   *)
(* is a product modulo Q.  A random scalar is a fixed function of what it  *)
(* is drawn for: the coincidences of real random scalars, which have a     *)
(* chance of 2^-255, are left out, and several seeds stand for several     *)
(* drawings.  AES-GCM is a box that opens only under the key and the       *)
(* associated data it was closed with, and kdf keeps keys apart.           *)
(*                                                                         *)
(* A command works on some bundle that setup.json held at some time: the   *)
(* last one, or an older copy if commands overlapped.  Every bundle, key   *)
(* and package has its counterpart in AbeModel, the view that Deployment   *)
(* has of them.                                                            *)
(***************************************************************************)
EXTENDS AccessTree

CONSTANTS
  Q,           \* the order of the groups, a prime; 255 bits in the code
  Attribute,   \* attribute names, numbered
  Tree,        \* the policies that may be encrypted for
  Seed,        \* drawings of the random scalars
  MaxCommands  \* bound: commands in one behaviour

ASSUME AttributeAssumption == Attribute \subseteq Nat /\ Name = Attribute
ASSUME TreeAssumption == Tree \subseteq AnyTree

VARIABLES
  seed,      \* the drawing of this behaviour
  bundles,   \* what setup.json has held: each bundle and its counterpart
  keys,      \* the keys issued
  packages,  \* the packages sealed
  clock      \* commands so far; numbers them

vars == <<seed, bundles, keys, packages, clock>>

Model == INSTANCE AbeModel

-----------------------------------------------------------------------------
(* Scalars.                                                                *)

Half == 1024
ASSUME FieldAssumption == Q \in 2 .. Half * Half

\* Products modulo Q, in two halves: TLC's integers have 32 bits.
Mul(x, y) ==
  (((((x * (y \div Half)) % Q) * Half) % Q) + ((x * (y % Half)) % Q)) % Q

Power(x, n) ==
  LET power[m \in 0 .. n] ==
        IF m = 0 THEN 1
        ELSE LET half == power[m \div 2]
             IN IF m % 2 = 0 THEN Mul(half, half) ELSE Mul(x, Mul(half, half))
  IN power[n]
\* Scalar::invert, by Fermat's theorem.
Invert(x) == Power(x, Q - 2)

\* Scalar::random: the nonzero scalar drawn for `purpose`, a sequence of numbers.
Draw(purpose) ==
  LET mixed == FoldLeft(LAMBDA acc, x : (Mul(acc, 40961) + (x + 11) * (x + 37)) % Q, seed, purpose)
  IN (Mul(mixed + 3, Mul(mixed, mixed)) % (Q - 1)) + 1

-----------------------------------------------------------------------------
(* share.rs                                                                *)

\* Mutant of Degree: one coefficient too many.
DegreeTooHigh(threshold) == threshold
\* threshold.saturating_sub(1)
Degree(threshold) == IF threshold = 0 THEN 0 ELSE threshold - 1

\* Polynomial::random_with_constant and eval, by Horner's rule from the
\* highest coefficient down.
Eval(constant, degree, x, purpose) ==
  FoldLeft(LAMBDA acc, d : (Mul(acc, x) + (IF d = degree + 1 THEN constant
                                       ELSE Draw(purpose \o <<degree + 1 - d>>))) % Q,
           0, [d \in 1 .. degree + 1 |-> d])

\* The leaves of a tree with the paths to them, child by child.
LeafPaths(tree) ==
  LET leaves[t \in AnyTree] ==
        IF t.kind = "leaf" THEN {[path |-> << >>, attribute |-> t.attribute]}
        ELSE UNION {{[path |-> <<i>> \o x.path, attribute |-> x.attribute] :
                       x \in leaves[t.children[i]]} : i \in DOMAIN t.children}
  IN leaves[tree]

\* share_node: what the polynomials of the gates on a path make of the secret.
ShareAt(tree, secret, path, n) ==
  LET node[d \in 0 .. Len(path)] == IF d = 0 THEN tree ELSE node[d - 1].children[path[d]]
      value[d \in 0 .. Len(path)] ==
        IF d = 0 THEN secret
        ELSE Eval(value[d - 1], Degree(node[d - 1].threshold), path[d],
                  <<n, 1>> \o SubSeq(path, 1, d - 1))
  IN value[Len(path)]

\* share_secret: the share of every leaf, keyed by its path.
ShareSecret(tree, secret, n) ==
  {[path |-> x.path, attribute |-> x.attribute, share |-> ShareAt(tree, secret, x.path, n)] :
     x \in LeafPaths(tree)}

\* The Lagrange coefficient of point i at x = 0.
Coefficient(i, points) ==
  FoldLeft(LAMBDA acc, p : IF p.index = i THEN acc
             ELSE Mul(Mul(acc, Q - p.index), Invert((i - p.index) % Q)), 1, points)
LagrangeCombine(points) ==
  FoldLeft(LAMBDA acc, p : (acc + Mul(p.value, Coefficient(p.index, points))) % Q, 0, points)

\* A value that was recovered, or none.
Some(x) == [some |-> TRUE, value |-> x]
None    == [some |-> FALSE]

\* Mutant of Recombine: whatever children give a value are recombined.
RecombineSome(tree, results) ==
  LET recombined[node \in AnyTree] ==
        [path \in Seq(Nat) |->
           IF node.kind = "leaf"
             THEN IF path \in DOMAIN results THEN Some(results[path]) ELSE None
             ELSE LET value(i)  == recombined[node.children[i]][Append(path, i)]
                      satisfied == {i \in DOMAIN node.children : value(i).some}
                  IN IF satisfied = {} THEN None
                     ELSE Some(LagrangeCombine(SetToSeq(
                            {[index |-> i, value |-> value(i).value] : i \in satisfied})))]
  IN recombined[tree][<< >>]
\* recombine: the first children that give a value, `threshold` of them.
Recombine(tree, results) ==
  LET recombined[node \in AnyTree] ==
        [path \in Seq(Nat) |->
           IF node.kind = "leaf"
             THEN IF path \in DOMAIN results THEN Some(results[path]) ELSE None
             ELSE LET value(i)  == recombined[node.children[i]][Append(path, i)]
                      satisfied == {i \in DOMAIN node.children : value(i).some}
                      first == {i \in satisfied :
                                  Cardinality({j \in satisfied : j <= i}) <= node.threshold}
                  IN IF Cardinality(satisfied) < node.threshold THEN None
                     ELSE Some(LagrangeCombine(SetToSeq(
                            {[index |-> i, value |-> value(i).value] : i \in first})))]
  IN recombined[tree][<< >>]

-----------------------------------------------------------------------------
(* scheme.rs                                                               *)

\* setup: h = g1^beta and egg_alpha = e(g1,g2)^alpha.
SetupScheme(n) ==
  LET alpha == Draw(<<n, 2>>)
      beta  == Draw(<<n, 3>>)
  IN [pp  |-> [h |-> beta, egg_alpha |-> alpha, attributes |-> << >>],
      msk |-> [alpha |-> alpha, beta |-> beta]]

\* Mutant of RegisterNames: a known name is drawn again.
RegisterNamesAnew(pp, names, n) ==
  [pp EXCEPT !.attributes =
     [a \in DOMAIN @ \cup names |->
        IF a \in names THEN LET t == Draw(<<n, 4, a>>) IN [t1 |-> t, t2 |-> t] ELSE @[a]]]
\* register_attribute for each of `names`; a known name keeps its commitment.
RegisterNames(pp, names, n) ==
  [pp EXCEPT !.attributes =
     [a \in DOMAIN @ \cup names |->
        IF a \in DOMAIN @ THEN @[a]
        ELSE LET t == Draw(<<n, 4, a>>) IN [t1 |-> t, t2 |-> t]]]

\* D_j = g2^r * T2^rj and D_j' = g2^rj
KeygenShares(pp, names, r, n) ==
  [a \in names |-> LET rj == Draw(<<n, 5, a>>)
                   IN [d_j |-> (r + Mul(pp.attributes[a].t2, rj)) % Q, d_j_prime |-> rj]]
\* Mutant of KeygenScheme: r is drawn once for all keys.
KeygenSharedR(pp, msk, names, n) ==
  LET r == Draw(<<6>>)
  IN [d |-> Mul(msk.alpha + r, Invert(msk.beta)),
      attributes |-> KeygenShares(pp, names, r, n)]
\* keygen, for names that are all registered.
KeygenScheme(pp, msk, names, n) ==
  LET r == Draw(<<n, 6>>)
  IN [d |-> Mul(msk.alpha + r, Invert(msk.beta)),
      attributes |-> KeygenShares(pp, names, r, n)]

\* AES-GCM with associated data.
Box(key, aad, msg) == [key |-> key, aad |-> aad, msg |-> msg]
Unbox(box, key, aad) == IF box.key = key /\ box.aad = aad THEN Some(box.msg) ELSE None

\* Mutant of DekAad: the tree is not bound.
DekAadLabelOnly(tree) == <<"SECURE_ABE_DEK_WRAP_v1">>
DekAad(tree) == <<"SECURE_ABE_DEK_WRAP_v1", tree>>

\* encrypt_key, for a tree whose leaves are all registered.
EncryptKey(pp, dek, tree, n) ==
  LET s      == Draw(<<n, 7>>)
      shares == ShareSecret(tree, s, n)
  IN [tree |-> tree,
      c |-> Mul(pp.h, s),
      leaves |-> {[path |-> x.path, attribute |-> x.attribute, cy |-> x.share,
                   cy_prime |-> Mul(pp.attributes[x.attribute].t1, x.share)] : x \in shares},
      wrapped_key |-> Box(Mul(pp.egg_alpha, s), DekAad(tree), dek)]

\* decrypt_key: F_y = e(Cy, D_j) / e(Cy', D_j') for every leaf whose attribute
\* the key has, and the blinding e(C, D) / F_root.
LeafResults(usk, ct) ==
  LET held == {x \in ct.leaves : x.attribute \in DOMAIN usk.attributes}
      leafAt(path) == CHOOSE x \in held : x.path = path
      pair(leaf, share) == (Mul(leaf.cy, share.d_j) - Mul(leaf.cy_prime, share.d_j_prime)) % Q
  IN [path \in {x.path : x \in held} |->
        pair(leafAt(path), usk.attributes[leafAt(path).attribute])]
DecryptKey(usk, ct) ==
  LET root == Recombine(ct.tree, LeafResults(usk, ct))
  IN IF ~ root.some THEN None
     ELSE Unbox(ct.wrapped_key, (Mul(ct.c, usk.d) - root.value) % Q, DekAad(ct.tree))

-----------------------------------------------------------------------------
(* envelope/src/lib.rs                                                     *)

FileAad(summary) == <<"SECURE_ABE_FILE_v1", summary>>

Seal(pp, document, tree, summary, n) ==
  LET dek == Draw(<<n, 8>>)
  IN [sealed |-> [file |-> Box(dek, FileAad(summary), document), policy_summary |-> summary],
      key_ciphertext |-> EncryptKey(pp, dek, tree, n)]

Open(usk, pkg) ==
  LET dek == DecryptKey(usk, pkg.key_ciphertext)
  IN IF ~ dek.some THEN None
     ELSE Unbox(pkg.sealed.file, dek.value, FileAad(pkg.sealed.policy_summary))

-----------------------------------------------------------------------------
(* codec.rs: a bundle on file keeps the master secret and the commitments; *)
(* the other public parameters are recomputed when it is loaded.           *)

BundleToJson(pp, msk) ==
  [alpha |-> msk.alpha, beta |-> msk.beta, attributes |-> pp.attributes]
BundleFromJson(dto) ==
  [pp  |-> [h |-> dto.beta, egg_alpha |-> dto.alpha, attributes |-> dto.attributes],
   msk |-> [alpha |-> dto.alpha, beta |-> dto.beta]]

-----------------------------------------------------------------------------
(* Commands.  A pair keeps what the code computes next to its counterpart. *)

Pair(concrete, abstract) == [code |-> concrete, model |-> abstract]

Init ==
  /\ seed \in Seed
  /\ bundles = {}
  /\ keys = {}
  /\ packages = {}
  /\ clock = 0

Tick == clock < MaxCommands /\ clock' = clock + 1

\* cmd_setup
Setup ==
  /\ Tick
  /\ LET new == SetupScheme(clock')
     IN bundles' = bundles \cup
          {Pair(BundleToJson(new.pp, new.msk), [master |-> clock', attrs |-> {}])}
  /\ UNCHANGED <<seed, keys, packages>>

\* The bundle b once it is loaded and `names` are registered.
Registered(b, names, n) ==
  LET loaded == BundleFromJson(b.code)
  IN [pp |-> RegisterNames(loaded.pp, names, n), msk |-> loaded.msk,
      model |-> Model!RegisterAttributes(b.model, names, n)]
Saved(r) == Pair(BundleToJson(r.pp, r.msk), r.model)

\* cmd_issue, with the names it mints over: the claimed ones, which it registers,
\* and those of the key on file.  Where keygen succeeds the latter are in the
\* bundle already, and registering them changes nothing.  authorities::issue
\* does the same for claims only.
Issue(b, names) ==
  /\ Tick
  /\ LET r == Registered(b, names, clock')
     IN /\ keys' = keys \cup {Pair(KeygenScheme(r.pp, r.msk, names, clock'),
                                   Model!Keygen(r.model, names, clock'))}
        /\ bundles' = bundles \cup {Saved(r)}
  /\ UNCHANGED <<seed, packages>>

\* cmd_encrypt; the policy stands for its text, the summary.
Encrypt(b, tree) ==
  /\ Tick
  /\ LET r == Registered(b, ToSet(LeavesOf(tree)), clock')
     IN /\ packages' = packages \cup {Pair(Seal(r.pp, clock', tree, tree, clock'),
                                           Model!SealPackage(r.model, Alternatives(tree), clock'))}
        /\ bundles' = bundles \cup {Saved(r)}
  /\ UNCHANGED <<seed, keys>>

Next ==
  \/ Setup
  \/ \E b \in bundles :
       (\E names \in SUBSET Attribute : Issue(b, names)) \/ (\E tree \in Tree : Encrypt(b, tree))

Spec == Init /\ [][Next]_vars

-----------------------------------------------------------------------------
(* Properties.                                                             *)

Document(p) == p.code.sealed.file.msg
OpenedBy(k, p) == Open(k.code, p.code) = Some(Document(p))

\* Key and package come from one setup and from the same commitments.
SameCommitments(k, p) ==
  /\ k.model.master = p.model.master
  /\ \A c \in k.model.attrs, d \in p.model.attrs : c.name = d.name => c = d

\* Whether some gate asks for none of its children; no parsed policy has one.
HasZeroGate(tree) ==
  LET has[t \in AnyTree] ==
        t.kind = "gate" /\ (t.threshold = 0 \/ \E i \in DOMAIN t.children : has[t.children[i]])
  IN has[tree]

\* recombine "return[s] `Some(e(g1,g2)^{r*secret})` if and only if the held
\* attribute set satisfies the tree", whatever the thresholds: it counts the
\* children that give a value where is_satisfied_by counts those that are
\* satisfied, path by path and name by name.
RecombinesIffSatisfied ==
  \A k \in keys, p \in packages :
    LET ct == p.code.key_ciphertext
    IN Recombine(ct.tree, LeafResults(k.code, ct)).some
         <=> IsSatisfiedBy(ct.tree, DOMAIN k.code.attributes)

\* "The returned ciphertext can only be opened by a user secret key whose
\* attribute set satisfies `tree`", for every tree, and by every such key of
\* the same setup unless the tree has a gate of threshold 0: sharing down the
\* tree, the pairings and the recombination cancel out.  A gate of threshold 0
\* is satisfied by everyone and recombines to no share at all: a package under
\* one opens for nobody.
OpensIffSatisfied ==
  \A k \in keys, p \in packages :
    SameCommitments(k, p) =>
      LET tree == p.code.key_ciphertext.tree
          satisfied == IsSatisfiedBy(tree, DOMAIN k.code.attributes)
      IN /\ OpenedBy(k, p) => satisfied /\ ~ (tree.kind = "gate" /\ tree.threshold = 0)
         /\ satisfied /\ ~ HasZeroGate(tree) => OpenedBy(k, p)

\* Deployment's view of the scheme is right, whichever copies of setup.json the
\* key and the package were made from: the scheme opens a package exactly when
\* AbeModel says so, and yields its document or nothing.
OpensAsModelled ==
  \A k \in keys, p \in packages :
    /\ Open(k.code, p.code) \in {Some(Document(p)), None}
    /\ ~ HasZeroGate(p.code.key_ciphertext.tree) =>
         (OpenedBy(k, p) <=> Model!Opens(k.model, p.model))

\* A key made up of parts of two keys: k, with the components of l for `names`.
Spliced(k, l, names) ==
  [k EXCEPT !.attributes =
     [a \in DOMAIN @ \cup names |-> IF a \in names THEN l.attributes[a] ELSE @[a]]]

\* "`r` binds every component in this struct together", which is why cmd_issue
\* mints merged keys anew: components taken over from another key never help
\* to satisfy a policy that the rest of the key does not satisfy.
PartsOfOneKeyOnly ==
  \A k, l \in keys, p \in packages :
    k # l => \A names \in SUBSET DOMAIN l.code.attributes :
      Open(Spliced(k.code, l.code, names), p.code) # None =>
        IsSatisfiedBy(p.code.key_ciphertext.tree, DOMAIN k.code.attributes \ names)

\* "A ciphertext whose tree metadata was swapped for a different policy cannot
\* successfully unwrap the DEK", and neither can a package whose summary was
\* edited be opened: a package on disk is bound to the policy it was sealed for.
BoundToItsPolicy ==
  \A k \in keys, p \in packages, other \in Tree :
    other # p.code.key_ciphertext.tree =>
      /\ Open(k.code, [p.code EXCEPT !.key_ciphertext.tree = other]) = None
      /\ Open(k.code, [p.code EXCEPT !.sealed.policy_summary = other]) = None
=============================================================================
