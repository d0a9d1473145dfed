------------------------------ MODULE AbeModel ------------------------------
(***************************************************************************)
(* What Deployment needs to know of the CP-ABE scheme.                     *)
(*                                                                         *)
(* A random scalar is the number of the command that drew it, a group      *)
(* element is the scalar it hides, and a policy is the list of its         *)
(* alternatives: one set of leaves for each way to satisfy its gates, in   *)
(* the order `recombine` tries them.  Cpabe checks this view of the scheme *)
(* against its algebra.                                                    *)
(***************************************************************************)
EXTENDS Integers, Sequences

Names(b) == {c.name : c \in b.attrs}
Leaves(pol) == UNION {pol[i] : i \in DOMAIN pol}

\* Mutant of RegisterAttributes: a known name is drawn again.
RegisterAttributesAnew(pp, names, n) ==
  [pp EXCEPT !.attrs = {c \in @ : c.name \notin names} \cup {[name |-> x, t |-> n] : x \in names}]
\* register_attribute for each of `names`: an unknown one gets a commitment
\* to a scalar drawn by command n, a known one keeps its commitment.
RegisterAttributes(pp, names, n) ==
  [pp EXCEPT !.attrs = @ \cup {[name |-> x, t |-> n] : x \in names \ Names(pp)}]

\* keygen, for names that are all registered: every share carries the
\* command's own r and is made with the commitment on file.
Keygen(pp, names, n) ==
  [master |-> pp.master, attrs |-> {c \in pp.attrs : c.name \in names}, r |-> n]

\* seal and encrypt_key
SealPackage(pp, pol, n) ==
  [id |-> n, master |-> pp.master,
   attrs |-> {c \in pp.attrs : c.name \in Leaves(pol)}, policy |-> pol]

\* AccessTree::is_satisfied_by
Satisfied(pol, names) == \E i \in DOMAIN pol : pol[i] \subseteq names

\* envelope::open and decrypt_key: `recombine` settles on the first
\* alternative whose names the key has, and the pairings cancel only if key and
\* ciphertext come from the same master secret and, on that set, from the
\* same commitments.
Opens(key, pkg) ==
  \E i \in DOMAIN pkg.policy :
    /\ pkg.policy[i] \subseteq Names(key)
    /\ \A j \in 1 .. (i - 1) : ~ pkg.policy[j] \subseteq Names(key)
    /\ key.master = pkg.master
    /\ \A c \in key.attrs, d \in pkg.attrs :
         c.name = d.name /\ c.name \in pkg.policy[i] => c.t = d.t
=============================================================================
