---------------------------- MODULE AccessControl ----------------------------
(***************************************************************************)
(* What a deployment promises to operators who run one command at a time:  *)
(* authorities grant names to users, documents are published under         *)
(* policies, and a document is opened for whoever has been granted names   *)
(* that satisfy its policy.  There are no files here, no keys, no copies   *)
(* in memory and no group elements; every operation is one step.           *)
(*                                                                         *)
(* A part of the deployment that an interrupted command leaves unreadable  *)
(* is down, and operations that need it are refused.                       *)
(***************************************************************************)
EXTENDS AbeModel

CONSTANTS
  User,         \* users
  Attribute,    \* attributes before tagging
  Registration, \* registry entries that may be registered
  Request,      \* grants that may be asked for: an authority, a user and claims
  Expression,   \* policies that documents may be published under
  Id            \* ids of documents

VARIABLES
  down,       \* parts that cannot be read: "setup", "registry", "revocation"
  registry,   \* the authorities and what they control
  revocation, \* the epoch of every attribute and the revoked users
  names,      \* the tagged names every user has
  documents,  \* the published documents with their tagged policies
  answers     \* which user was answered what for which document

vars == <<down, registry, revocation, names, documents, answers>>

Fresh == [epochs |-> [a \in Attribute |-> 0], revoked |-> {}]

Init ==
  /\ down = {"setup"}
  /\ registry = {}
  /\ revocation = Fresh
  /\ names = [u \in User |-> {}]
  /\ documents = {}
  /\ answers = {}

\* The names in force for the attributes A.
Tagged(A) == {<<a, revocation.epochs[a]>> : a \in A}

\* A new deployment has no documents and no user with a name.
Unused == documents = {} /\ \A u \in User : names[u] = {}

\* `setup`, in two steps, since it may be interrupted in between: the
\* deployment can be used, and its registry is empty.
Create ==
  /\ "setup" \in down
  /\ Unused
  /\ down' = down \ {"setup"}
  /\ UNCHANGED <<registry, revocation, names, documents, answers>>
Clear ==
  /\ "setup" \notin down
  /\ Unused
  /\ down' = down \ {"registry"}
  /\ registry' = {}
  /\ UNCHANGED <<revocation, names, documents, answers>>

Register(e) ==
  /\ "registry" \notin down
  /\ registry' = {x \in registry : x.name # e.name} \cup {e}
  /\ UNCHANGED <<down, revocation, names, documents, answers>>

\* A user's names only grow: what was granted before stays, under the epochs
\* it was granted for.
Grant(r) ==
  /\ down = {}
  /\ r.user \notin revocation.revoked
  /\ \A c \in r.claims : \E e \in registry :
       e.name = r.authority /\ (e.controls = {} \/ c.prefix \in e.controls)
  /\ names' = [names EXCEPT ![r.user] = @ \cup Tagged(UNION {c.attrs : c \in r.claims})]
  /\ UNCHANGED <<down, registry, revocation, documents, answers>>

Publish(id, policy) ==
  /\ down \subseteq {"registry"}
  /\ \A d \in documents : d.id # id
  /\ documents' = documents \cup
       {[id |-> id, policy |-> [i \in DOMAIN policy |-> Tagged(policy[i])]]}
  /\ UNCHANGED <<down, registry, revocation, names, answers>>

\* A document is opened for u exactly if u's names satisfy its policy.
Answer(u, d) ==
  /\ "setup" \notin down
  /\ answers' = answers \cup
       {[user |-> u, id |-> d.id, opened |-> Satisfied(d.policy, names[u])]}
  /\ UNCHANGED <<down, registry, revocation, names, documents>>

RevokeAttribute(a) ==
  /\ "revocation" \notin down
  /\ revocation' = [revocation EXCEPT !.epochs[a] = @ + 1]
  /\ UNCHANGED <<down, registry, names, documents, answers>>

RevokeUser(u) ==
  /\ "revocation" \notin down
  /\ revocation' = [revocation EXCEPT !.revoked = @ \cup {u}]
  /\ UNCHANGED <<down, registry, names, documents, answers>>

\* An interrupted command takes at most one thing with it: a part of the
\* deployment, or all the names of one user.
LosePart(part) ==
  /\ down' = down \cup {part}
  /\ registry' = IF part = "registry" THEN {} ELSE registry
  /\ revocation' = IF part = "revocation" THEN Fresh ELSE revocation
  /\ UNCHANGED <<names, documents, answers>>
LoseNames(u) ==
  /\ names' = [names EXCEPT ![u] = {}]
  /\ UNCHANGED <<down, registry, revocation, documents, answers>>

Next ==
  \/ Create \/ Clear
  \/ \E e \in Registration : Register(e)
  \/ \E r \in Request : Grant(r)
  \/ \E id \in Id, policy \in Expression : Publish(id, policy)
  \/ \E u \in User, d \in documents : Answer(u, d)
  \/ \E a \in Attribute : RevokeAttribute(a)
  \/ \E u \in User : RevokeUser(u) \/ LoseNames(u)
  \/ \E part \in {"setup", "registry", "revocation"} : LosePart(part)

Spec == Init /\ [][Next]_vars
=============================================================================
