--------------------------- MODULE SerialDeployment ---------------------------
(***************************************************************************)
(* Deployment as long as commands take turns: it implements AccessControl, *)
(* and under the fairness of its processes what was promised happens.      *)
(*                                                                         *)
(* A save takes effect when it truncates its file.  From then on the new   *)
(* content is in the memory of the process that is about to write it, and  *)
(* an interruption before it has written loses it.                         *)
(***************************************************************************)
EXTENDS Deployment

\* The processes that have truncated f and write it next.
Filling(f, label) == {p \in Process : f = Empty /\ pc[p] = label}
Available(f, label) == Loadable(f) \/ Filling(f, label) # {}

Down ==
  {part \in {"setup", "registry", "revocation"} :
     ~ CASE part = "setup"    -> setup # Absent /\ Available(setup, "fillSetup")
         [] part = "registry" -> Available(registry, "fillRegistry")
         [] OTHER             -> Available(revocation, "fillRevocation")}

RegistryInForce ==
  IF Loadable(registry) THEN Loaded(registry, {})
  ELSE UNION {mem[p].reg : p \in Filling(registry, "fillRegistry")}

RevocationInForce ==
  IF Loadable(revocation) THEN Loaded(revocation, Default)
  ELSE IF Filling(revocation, "fillRevocation") = {} THEN Default
  ELSE mem[CHOOSE p \in Filling(revocation, "fillRevocation") : TRUE].rev

NamesOf(u) ==
  IF OnFile(u) THEN Names(keys[u].val)
  ELSE UNION {Names(mem[p].key) :
                p \in {q \in Filling(keys[u], "fillKey") : mem[q].cmd.user = u}}

Answers ==
  {[user |-> o.user, id |-> o.pkg.id, opened |-> TRUE] : o \in opened}
    \cup {[user |-> e.user, id |-> e.pkg, opened |-> FALSE] :
            e \in {x \in audit : x.action = "DECRYPT_DENIED"}}

Running(op) == {c \in Command : c.op = op}

Promise == INSTANCE AccessControl WITH
  Registration <- {Entry(c) : c \in Running("register")},
  Request      <- {[authority |-> c.authority, user |-> c.user, claims |-> c.claims] :
                     c \in Running("issue")},
  Expression   <- {c.policy : c \in Running("encrypt")},
  Id           <- 1 .. MaxCommands,
  down         <- Down,
  registry     <- RegistryInForce,
  revocation   <- RevocationInForce,
  names        <- [u \in User |-> NamesOf(u)],
  documents    <- {[id |-> k.id, policy |-> k.policy] : k \in packages},
  answers      <- Answers

\* Commands that take turns implement AccessControl: whatever they do to files
\* and to group elements on the way, and wherever one of them is interrupted,
\* a document opens exactly for the users who were granted names that satisfy
\* its policy, and an operation changes nothing but what it is for.
KeepsPromise == Promise!Spec

-----------------------------------------------------------------------------
(* Liveness.  Nothing in a command waits: it takes no lock and sends no     *)
(* message, so the operating system will let it take its next step.         *)

Fairness       == \A p \in Process : WF_vars(Step(p))
FairSerialSpec == SerialSpec /\ Fairness

\* Every claim that an authority had accepted gets into the user's key file,
\* unless some command was interrupted: no error comes between the two.
GrantsArrive ==
  []<>(crashed = {} => \A g \in granted : OnFile(g.user) /\ g.name \in Names(keys[g.user].val))

\* Every package, key and plaintext on disk gets its audit record, unless its
\* own command was interrupted.
EffectsGetRecorded ==
  []<>(\A n \in {keys[u].val.r : u \in {v \in User : OnFile(v)}}
                  \cup {k.id : k \in packages} \cup {o.by : o \in opened} :
         n \in crashed \/ \E e \in audit : e.cmd = n)
=============================================================================
