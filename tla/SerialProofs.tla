----------------------------- MODULE SerialProofs -----------------------------
(***************************************************************************)
(* What holds of every deployment whose commands take turns, wherever they *)
(* crash: keys open what their names satisfy, revocations bite and stay,   *)
(* grants are not lost, and commands keep what AccessControl promises.     *)
(*                                                                         *)
(* One command runs at a time, so a copy in its memory is what the file    *)
(* holds until it saves the file itself.  The inductive invariant says     *)
(* that (Turns, Current), and what the files then owe to each other        *)
(* (Coherent, Revoked, Given).                                             *)
(***************************************************************************)
EXTENDS DeploymentProofs, SerialDeployment, NaturalSets

Runs(p, op, labels) == mem[p].cmd.op = op /\ pc[p] \in labels

\* One command runs at a time, and a file that a process is about to fill is
\* the empty one it has left.
Turns ==
  /\ OneAtATime
  /\ clock <= MaxCommands
  /\ \A p \in Process :
       /\ Active(p) => mem[p].id = clock /\ clock > 0 /\ mem[p].cmd \in Command
       /\ pc[p] = "fillSetup" => setup = Empty
       /\ pc[p] = "fillRegistry" => registry = Empty
       /\ pc[p] = "fillRevocation" => revocation = Empty
       /\ pc[p] = "fillKey" => keys[mem[p].cmd.user] = Empty

RevOnFile == Loaded(revocation, Default)

\* What each command has in memory, in terms of what the files hold.
CurrentRegistry(p) ==
  /\ Runs(p, "setup", {"saveSetup", "fillSetup", "saveRegistry", "fillRegistry"}) =>
       mem[p].reg = {}
  /\ Runs(p, "register", {"saveRegistry"}) =>
       /\ Loadable(registry)
       /\ mem[p].reg = {e \in Loaded(registry, {}) : e.name # mem[p].cmd.authority}
                         \cup {Entry(mem[p].cmd)}
  /\ Runs(p, "issue", {"openRevocation", "checkUser", "mergeKey", "saveSetup", "fillSetup",
                       "saveKey"}) =>
       Loadable(registry) /\ mem[p].reg = Loaded(registry, {})

CurrentRevocation(p) ==
  /\ Runs(p, "issue", {"checkUser", "mergeKey", "saveSetup", "fillSetup", "saveKey"}) =>
       Loadable(revocation) /\ mem[p].rev = RevOnFile
  /\ Runs(p, "issue", {"mergeKey", "saveSetup", "fillSetup", "saveKey"}) =>
       MayIssue(p) /\ mem[p].names = Claimed(p)
  /\ Runs(p, "encrypt", {"saveSetup", "fillSetup", "seal"}) =>
       /\ Loadable(revocation)
       /\ mem[p].pkg.policy = Retag(RevOnFile, mem[p].cmd.policy)
  /\ Runs(p, "revokeAttribute", {"saveRevocation"}) =>
       /\ Loadable(revocation)
       /\ mem[p].rev = [RevOnFile EXCEPT !.epochs[mem[p].cmd.attribute] = @ + 1]
  /\ Runs(p, "revokeUser", {"saveRevocation"}) =>
       /\ Loadable(revocation)
       /\ mem[p].rev = [RevOnFile EXCEPT !.revoked = @ \cup {mem[p].cmd.user}]
  /\ pc[p] = "record" /\ mem[p].cmd.op \in {"revokeAttribute", "revokeUser"} =>
       revocation = Holding(mem[p].rev)

CurrentKey(p) ==
  /\ Runs(p, "issue", {"saveSetup", "fillSetup", "saveKey"}) =>
       Names(mem[p].key) = MergedNames(p)
  /\ Runs(p, "issue", {"saveSetup", "fillSetup", "saveKey", "fillKey"}) =>
       mem[p].key.r = mem[p].id
  /\ Runs(p, "issue", {"record"}) => keys[mem[p].cmd.user] = Holding(mem[p].key)
  /\ Runs(p, "encrypt", {"saveSetup", "fillSetup", "seal"}) => mem[p].pkg.id = mem[p].id
  /\ Runs(p, "decrypt", {"loadSetup", "loadKey", "open", "record"}) => mem[p].pkg \in packages
  /\ Runs(p, "decrypt", {"open", "record"}) =>
       OnFile(mem[p].cmd.user) /\ mem[p].key = keys[mem[p].cmd.user].val

Current == \A p \in Process : CurrentRegistry(p) /\ CurrentRevocation(p) /\ CurrentKey(p)

-----------------------------------------------------------------------------
(* Keys and packages agree on the commitments behind their names, because  *)
(* there is one bundle that all of them are within.                        *)

\* register_attribute never gives a name two commitments.
Single(attrs) == \A c, d \in attrs : c.name = d.name => c = d
\* A key, a package or a bundle is made from the commitments of bundle b.
Within(x, b) == x.master = b.master /\ x.attrs \subseteq b.attrs

\* No key and no package has been made.
Unused == packages = {} /\ \A u \in User : keys[u] = Absent

\* What a process has done to the bundle b it loaded: nothing, extended it in
\* memory, saved the extension.
HasBundle(p, b) ==
  /\ Runs(p, "issue", {"loadRegistry", "openRevocation", "checkUser", "mergeKey", "saveSetup"})
       \/ Runs(p, "encrypt", {"openRevocation", "saveSetup"}) =>
       Readable(setup) /\ Within(b, mem[p].pp) /\ Single(mem[p].pp.attrs)
  /\ pc[p] \in {"fillSetup", "saveKey", "seal"} => mem[p].pp = b
  /\ pc[p] \in {"saveKey", "seal", "loadKey", "open"} => Readable(setup)
  /\ Runs(p, "setup", {"saveRegistry", "fillRegistry"}) => Readable(setup)
  /\ Runs(p, "decrypt", {"record"}) => Readable(setup)
  /\ Runs(p, "issue", {"mergeKey"}) => mem[p].names \subseteq Names(mem[p].pp)
  /\ Runs(p, "issue", {"saveSetup"}) => Within(mem[p].key, mem[p].pp)
  /\ Runs(p, "issue", {"fillSetup", "saveKey", "fillKey"}) => Within(mem[p].key, b)
  /\ Runs(p, "encrypt", {"saveSetup"}) => Within(mem[p].pkg, mem[p].pp)
  /\ Runs(p, "encrypt", {"fillSetup", "seal"}) => Within(mem[p].pkg, b)
  /\ Runs(p, "setup", {"saveSetup"}) => ~ Readable(setup) /\ Unused /\ mem[p].pp.attrs = {}
  /\ Runs(p, "setup", {"fillSetup", "saveRegistry", "fillRegistry"}) => Unused

Covers(b) ==
  /\ Single(b.attrs)
  /\ Readable(setup) => setup.val = b
  /\ \A u \in User : OnFile(u) => Within(keys[u].val, b)
  /\ \A k \in packages : Within(k, b)
  /\ \A p \in Process : HasBundle(p, b)
Coherent == \E b \in Bundle : Covers(b)

-----------------------------------------------------------------------------
(* Revocations.  A revocation list binds what is made under it.            *)

\* The list has every acknowledged revocation, and no key on file has a name
\* from an epoch that is still to come.
Binding(rev) ==
  /\ \A e \in audit :
       /\ e.action = "REVOKE_USER" => e.user \in rev.revoked
       /\ e.action = "REVOKE_ATTRIBUTE" => rev.epochs[e.attribute] >= e.epoch
  /\ \A u \in User : OnFile(u) => \A x \in Names(keys[u].val) : x[2] <= rev.epochs[x[1]]

\* Keys are older than the epoch of a revocation that came after them, and
\* policies as young as one that came before them.
KeysOlder ==
  \A e \in audit, u \in User : e.action = "REVOKE_ATTRIBUTE" /\ OnFile(u) /\ keys[u].val.r < e.cmd =>
    \A x \in Names(keys[u].val) : x[1] = e.attribute => x[2] < e.epoch
PoliciesYounger ==
  \A e \in audit, k \in packages : e.action = "REVOKE_ATTRIBUTE" /\ e.cmd < k.id =>
    \A i \in DOMAIN k.policy : \A x \in k.policy[i] : x[1] = e.attribute => x[2] >= e.epoch

\* What a revocation is about to acknowledge is in the list it saves, and the
\* epoch is new to all keys.
TakesEffect(p) ==
  /\ Runs(p, "revokeAttribute", {"saveRevocation", "fillRevocation", "record"}) =>
       \A u \in User : OnFile(u) => \A x \in Names(keys[u].val) :
         x[1] = mem[p].cmd.attribute => x[2] < mem[p].rev.epochs[x[1]]
  /\ Runs(p, "revokeUser", {"saveRevocation", "fillRevocation", "record"}) =>
       mem[p].cmd.user \in mem[p].rev.revoked
\* The key that issue is about to save is bound by the list on file too.
KeyInTime(p) ==
  Runs(p, "issue", {"fillKey"}) =>
    /\ Loadable(revocation)
    /\ mem[p].cmd.user \notin RevOnFile.revoked
    /\ \A x \in Names(mem[p].key) : x[2] <= RevOnFile.epochs[x[1]]

\* Records and effects bear the numbers of commands that were begun, and the
\* number of the running one only when it is done.
Numbered ==
  /\ \A e \in audit : e.cmd \in 0 .. clock
  /\ \A u \in User : OnFile(u) => keys[u].val.r \in 0 .. clock
  /\ \A k \in packages : k.id \in 0 .. clock
  /\ \A p \in Process : Active(p) /\ pc[p] # "record" =>
       /\ \A u \in User : OnFile(u) => keys[u].val.r # clock
       /\ \A k \in packages : k.id # clock
  /\ \A p \in Process : pc[p] = "record" /\ mem[p].cmd.op # "issue" =>
       \A u \in User : OnFile(u) => keys[u].val.r # clock

\* The fields of the records that the properties speak of.
AuditTyped ==
  \A e \in audit :
    /\ e.action = "REVOKE_ATTRIBUTE" => e.attribute \in Attribute /\ e.epoch \in Nat
    /\ e.action = "REVOKE_USER" => e.user \in User
    /\ e.action = "ISSUE_KEY" => e.user \in User

Revoked ==
  /\ AuditTyped /\ Numbered
  /\ Loadable(revocation) => Binding(RevOnFile)
  /\ \A p \in Process : /\ pc[p] = "fillRevocation" => Binding(mem[p].rev)
                        /\ TakesEffect(p) /\ KeyInTime(p)
  /\ KeysOlder /\ PoliciesYounger /\ RevokedUserGetsNoKey

-----------------------------------------------------------------------------
(* Grants.  Between truncating and filling a key file its names are in     *)
(* memory only.                                                            *)
Given ==
  crashed = {} =>
    \A e \in audit : e.action = "ISSUE_KEY" =>
      \/ OnFile(e.user) /\ e.names \subseteq Names(keys[e.user].val)
      \/ \E p \in Process : /\ Runs(p, "issue", {"fillKey"}) /\ mem[p].cmd.user = e.user
                            /\ e.names \subseteq Names(mem[p].key)

SerialInv == Turns /\ Current /\ Coherent /\ Revoked /\ Given

-----------------------------------------------------------------------------
(* Steps of a deployment whose commands take turns.                        *)

\* A step of p that starts a command, goes on with it, or ends it.
StepOf(p) == (\E c \in Command : Begin(p, c)) \/ Step(p) \/ Crash(p)

\* Every action starts at certain control points; only Begin starts at "idle".
LEMMA StepStarts ==
  ASSUME NEW p \in Process, Step(p) \/ Crash(p)
  PROVE  Active(p)
BY DEF Step, ChangeRevocation, LoadFails, LoadSetup, RegisterAuthority, LoadRegistry, OpenForTags,
       Refuse, AcceptClaims, MergeAndMint, KeygenFails, RetagPolicy, BumpEpoch, ListUser,
       TruncateSetup, FillSetup, TruncateRegistry, FillRegistry, TruncateRevocation,
       FillRevocation, TruncateKey, FillKey, PutPackage, LoadKey, Deny, WritePlaintext, Record,
       Crash, At, Active

\* Only the process that takes the step moves.
LEMMA OnlyOneMoves ==
  ASSUME TypeOK, NEW p \in Process, StepOf(p)
  PROVE  \A q \in Process \ {p} : pc'[q] = pc[q] /\ mem'[q] = mem[q]
BY DEF TypeOK, StepOf, Begin, Step, ChangeRevocation, LoadFails, LoadSetup, RegisterAuthority,
       LoadRegistry, OpenForTags, Refuse, AcceptClaims, MergeAndMint, KeygenFails, RetagPolicy,
       BumpEpoch, ListUser, TruncateSetup, FillSetup, TruncateRegistry, FillRegistry,
       TruncateRevocation, FillRevocation, TruncateKey, FillKey, PutPackage, LoadKey, Deny,
       WritePlaintext, Record, Crash, End, Goto

\* So no other command is on its way.
LEMMA OthersIdle ==
  ASSUME TypeOK, OneAtATime, OneAtATime', NEW p \in Process, StepOf(p)
  PROVE  \A q \in Process \ {p} : pc[q] = "idle" /\ pc'[q] = "idle" /\ mem'[q] = mem[q]
<1>1. \A q \in Process \ {p} : pc'[q] = pc[q] /\ mem'[q] = mem[q]
  BY OnlyOneMoves
<1>2. CASE \E c \in Command : Begin(p, c)
  <2>1. pc'[p] # "idle"
    BY <1>2 DEF Begin, Goto, TypeOK
  <2> QED
    BY <1>1, <2>1 DEF OneAtATime
<1>3. CASE Step(p) \/ Crash(p)
  BY <1>1, <1>3, StepStarts DEF OneAtATime, Active
<1> QED
  BY <1>2, <1>3 DEF StepOf

\* Which commands are at a control point (the cmd_ functions of cli/src/main.rs).
LEMMA WhoIsWhere ==
  ASSUME TypeOK, NEW p \in Process
  PROVE  LET op == mem[p].cmd.op
         IN /\ pc[p] = "loadSetup" => op \in {"issue", "encrypt", "decrypt"}
            /\ pc[p] = "loadRegistry" => op \in {"register", "issue"}
            /\ pc[p] = "openRevocation" =>
                 op \in {"issue", "encrypt", "revokeAttribute", "revokeUser"}
            /\ pc[p] \in {"checkUser", "mergeKey", "saveKey", "fillKey"} => op = "issue"
            /\ pc[p] \in {"saveSetup", "fillSetup"} => op \in {"setup", "issue", "encrypt"}
            /\ pc[p] \in {"saveRegistry", "fillRegistry"} => op \in {"setup", "register"}
            /\ pc[p] \in {"saveRevocation", "fillRevocation"} =>
                 op \in {"revokeAttribute", "revokeUser"}
            /\ pc[p] = "seal" => op = "encrypt"
            /\ pc[p] \in {"loadKey", "open"} => op = "decrypt"
            /\ pc[p] = "record" =>
                 op \in {"setup", "issue", "encrypt", "decrypt", "revokeAttribute", "revokeUser"}
            /\ op \in {"setup", "register", "issue", "encrypt", "decrypt",
                       "revokeAttribute", "revokeUser"} <=> pc[p] # "idle"
<1>1. /\ pc[p] \in Reaches(mem[p].cmd.op)
      /\ pc[p] # "idle" => mem[p].cmd \in CommandLine
  BY TypeParts, MemoryParts
<1>2. pc[p] # "idle" => mem[p].cmd.op \in {"setup", "register", "issue", "encrypt", "decrypt",
                                           "revokeAttribute", "revokeUser"}
  BY <1>1, CommandParts
<1> QED
  BY <1>1, <1>2 DEF Reaches

\* Where a command that has not ended comes from, and with what memory: every
\* field is as it was, except the ones its last step was for.
LEMMA GoesOn ==
  ASSUME TypeOK, NEW p \in Process, Step(p) \/ Crash(p), pc'[p] # "idle"
  PROVE  LET op == mem[p].cmd.op
         IN /\ clock' = clock
            /\ mem'[p].cmd = mem[p].cmd /\ mem'[p].id = mem[p].id
            /\ pc[p] # "loadRegistry" => mem'[p].reg = mem[p].reg
            /\ pc[p] # "openRevocation" => mem'[p].rev = mem[p].rev /\ mem'[p].pkg = mem[p].pkg
            /\ pc[p] \notin {"loadSetup", "checkUser", "openRevocation"} =>
                 mem'[p].pp = mem[p].pp
            /\ pc[p] # "checkUser" => mem'[p].names = mem[p].names
            /\ pc[p] \notin {"mergeKey", "loadKey"} => mem'[p].key = mem[p].key
            /\ pc[p] = "openRevocation" /\ op # "encrypt" =>
                 mem'[p].pp = mem[p].pp /\ mem'[p].pkg = mem[p].pkg
            /\ <<pc[p], pc'[p]>> \in
                 CASE op = "setup" ->
                        {<<"saveSetup", "fillSetup">>, <<"fillSetup", "saveRegistry">>,
                         <<"saveRegistry", "fillRegistry">>, <<"fillRegistry", "record">>}
                   [] op = "register" ->
                        {<<"loadRegistry", "saveRegistry">>, <<"saveRegistry", "fillRegistry">>}
                   [] op = "issue" ->
                        {<<"loadSetup", "loadRegistry">>, <<"loadRegistry", "openRevocation">>,
                         <<"openRevocation", "checkUser">>, <<"checkUser", "mergeKey">>,
                         <<"mergeKey", "saveSetup">>, <<"saveSetup", "fillSetup">>,
                         <<"fillSetup", "saveKey">>, <<"saveKey", "fillKey">>,
                         <<"fillKey", "record">>}
                   [] op = "encrypt" ->
                        {<<"loadSetup", "openRevocation">>, <<"openRevocation", "saveSetup">>,
                         <<"saveSetup", "fillSetup">>, <<"fillSetup", "seal">>,
                         <<"seal", "record">>}
                   [] op = "decrypt" ->
                        {<<"loadSetup", "loadKey">>, <<"loadKey", "open">>,
                         <<"open", "record">>}
                   [] OTHER ->
                        {<<"openRevocation", "saveRevocation">>,
                         <<"saveRevocation", "fillRevocation">>, <<"fillRevocation", "record">>}
<1> USE WhoIsWhere
<1>0. pc \in [Process -> Label] /\ mem \in [Process -> Memory]
  BY DEF TypeOK
<1>1. CASE LoadFails(p) \/ Refuse(p) \/ KeygenFails(p) \/ Record(p) \/ Crash(p)
  BY <1>0, <1>1 DEF LoadFails, Refuse, KeygenFails, Record, Crash, End, Goto
<1>2. CASE LoadSetup(p) \/ RegisterAuthority(p) \/ LoadRegistry(p)
  BY <1>0, <1>2 DEF LoadSetup, RegisterAuthority, LoadRegistry, At, Goto, Private, Memory
<1>3. CASE OpenForTags(p) \/ BumpEpoch(p) \/ ListUser(p)
  BY <1>0, <1>3 DEF OpenForTags, BumpEpoch, ListUser, At, Goto, Private, Memory
<1>4. CASE AcceptClaims(p)
  BY <1>0, <1>4 DEF AcceptClaims, Goto, Memory
<1>5. CASE MergeAndMint(p) \/ RetagPolicy(p) \/ LoadKey(p)
  BY <1>0, <1>5 DEF MergeAndMint, RetagPolicy, LoadKey, At, Goto, Private, Memory
<1>6. CASE TruncateSetup(p) \/ FillSetup(p) \/ TruncateRegistry(p) \/ FillRegistry(p)
  BY <1>0, <1>6 DEF TruncateSetup, FillSetup, TruncateRegistry, FillRegistry, End, Goto
<1>7. CASE TruncateRevocation(p) \/ FillRevocation(p) \/ TruncateKey(p) \/ FillKey(p)
  BY <1>0, <1>7 DEF TruncateRevocation, FillRevocation, TruncateKey, FillKey, Goto
<1>8. CASE PutPackage(p) \/ Deny(p) \/ WritePlaintext(p)
  BY <1>0, <1>8 DEF PutPackage, Deny, WritePlaintext, Goto
<1> QED
  BY <1>1, <1>2, <1>3, <1>4, <1>5, <1>6, <1>7, <1>8 DEF Step, ChangeRevocation

\* Which step writes which file.
LEMMA WhoWrites ==
  ASSUME TypeOK, NEW p \in Process, StepOf(p)
  PROVE  /\ pc[p] \notin {"saveSetup", "fillSetup"} => setup' = setup
         /\ pc[p] \notin {"saveRegistry", "fillRegistry"} => registry' = registry
         /\ pc[p] \notin {"saveRevocation", "fillRevocation"} => revocation' = revocation
         /\ pc[p] \notin {"saveKey", "fillKey"} => keys' = keys
         /\ pc[p] # "seal" => packages' = packages
         /\ pc[p] # "record" => audit' = audit
         /\ pc[p] # "open" => opened' = opened
         /\ pc[p] # "idle" => clock' = clock
         /\ crashed \subseteq crashed'
<1>1. CASE \/ LoadFails(p) \/ LoadSetup(p) \/ RegisterAuthority(p) \/ LoadRegistry(p)
           \/ OpenForTags(p) \/ Refuse(p) \/ MergeAndMint(p) \/ KeygenFails(p) \/ RetagPolicy(p)
           \/ BumpEpoch(p) \/ ListUser(p) \/ LoadKey(p)
  <2>1. Private
    BY <1>1 DEF LoadFails, LoadSetup, RegisterAuthority, LoadRegistry, OpenForTags, Refuse,
                MergeAndMint, KeygenFails, RetagPolicy, BumpEpoch, ListUser, LoadKey
  <2> QED
    BY <2>1 DEF Private, disk
<1>2. CASE TruncateSetup(p) \/ FillSetup(p) \/ TruncateRegistry(p) \/ FillRegistry(p)
           \/ TruncateRevocation(p) \/ FillRevocation(p) \/ TruncateKey(p) \/ FillKey(p)
  BY <1>2 DEF TruncateSetup, FillSetup, TruncateRegistry, FillRegistry, TruncateRevocation,
              FillRevocation, TruncateKey, FillKey
<1>3. CASE AcceptClaims(p) \/ PutPackage(p) \/ Deny(p) \/ WritePlaintext(p) \/ Record(p)
  BY <1>3 DEF AcceptClaims, PutPackage, Deny, WritePlaintext, Record, disk
<1>4. CASE Crash(p) \/ \E c \in Command : Begin(p, c)
  BY <1>4 DEF Crash, Begin, disk
<1> QED
  BY <1>1, <1>2, <1>3, <1>4 DEF StepOf, Step, ChangeRevocation

\* The action of a command that goes on is the one for its control point.
LEMMA WhichStep ==
  ASSUME TypeOK, NEW p \in Process, Step(p) \/ Crash(p), pc'[p] # "idle"
  PROVE  /\ pc[p] = "loadSetup" => LoadSetup(p)
         /\ pc[p] = "loadRegistry" => RegisterAuthority(p) \/ LoadRegistry(p)
         /\ pc[p] = "openRevocation" =>
              OpenForTags(p) \/ RetagPolicy(p) \/ BumpEpoch(p) \/ ListUser(p)
         /\ pc[p] = "checkUser" => AcceptClaims(p)
         /\ pc[p] = "mergeKey" => MergeAndMint(p)
         /\ pc[p] = "saveSetup" => TruncateSetup(p)
         /\ pc[p] = "fillSetup" => FillSetup(p)
         /\ pc[p] = "saveRegistry" => TruncateRegistry(p)
         /\ pc[p] = "saveRevocation" => TruncateRevocation(p)
         /\ pc[p] = "fillRevocation" => FillRevocation(p)
         /\ pc[p] = "saveKey" => TruncateKey(p)
         /\ pc[p] = "fillKey" => FillKey(p)
         /\ pc[p] = "seal" => PutPackage(p)
         /\ pc[p] = "loadKey" => LoadKey(p)
         /\ pc[p] = "open" => Deny(p) \/ WritePlaintext(p)
         /\ pc[p] # "record"
<1>0. pc \in [Process -> Label]
  BY DEF TypeOK
<1>1. ~ (LoadFails(p) \/ Refuse(p) \/ KeygenFails(p) \/ Record(p) \/ Crash(p))
  BY <1>0 DEF LoadFails, Refuse, KeygenFails, Record, Crash, End, Goto
<1> QED
  BY <1>1 DEF Step, ChangeRevocation, LoadSetup, RegisterAuthority, LoadRegistry, OpenForTags,
       AcceptClaims, MergeAndMint, RetagPolicy, BumpEpoch, ListUser, TruncateSetup, FillSetup,
       TruncateRegistry, FillRegistry, TruncateRevocation, FillRevocation, TruncateKey, FillKey,
       PutPackage, LoadKey, Deny, WritePlaintext, At

\* A command that ends writes nothing as it does, but a registry or a record.
LEMMA EndsQuietly ==
  ASSUME TypeOK, NEW p \in Process, StepOf(p), pc'[p] = "idle"
  PROVE  /\ UNCHANGED <<setup, revocation, keys, packages, opened, clock>>
         /\ pc[p] # "fillRegistry" => registry' = registry
         /\ pc[p] # "record" => audit' = audit
         /\ pc[p] \in {"fillSetup", "fillRevocation", "fillKey"} => crashed' # {}
<1>1. \/ LoadFails(p) \/ Refuse(p) \/ KeygenFails(p) \/ FillRegistry(p) \/ Record(p) \/ Crash(p)
  BY DEF TypeOK, StepOf, Begin, Step, ChangeRevocation, LoadSetup, RegisterAuthority, LoadRegistry,
         OpenForTags, AcceptClaims, MergeAndMint, RetagPolicy, BumpEpoch,
         ListUser, TruncateSetup, FillSetup, TruncateRegistry, TruncateRevocation,
         FillRevocation, TruncateKey, FillKey, PutPackage, LoadKey, Deny, WritePlaintext,
         Goto
<1> QED
  BY <1>1 DEF LoadFails, Refuse, KeygenFails, FillRegistry, Record, Crash, Private, disk, At

\* A command that begins has read nothing yet.
LEMMA Begins ==
  ASSUME TypeOK, NEW p \in Process, NEW c \in Command, Begin(p, c)
  PROVE  /\ pc[p] = "idle" /\ clock < MaxCommands /\ clock' = clock + 1
         /\ mem'[p].cmd = c /\ mem'[p].id = clock'
         /\ mem'[p].pp.attrs = {} /\ mem'[p].reg = {} /\ mem'[p].rev = Default
         /\ mem'[p].names = {} /\ mem'[p].key = NoKey
         /\ IF c.op = "decrypt" THEN mem'[p].pkg \in packages ELSE mem'[p].pkg = NoPackage
         /\ pc'[p] = CASE c.op = "setup"    -> "saveSetup"
                       [] c.op = "register" -> "loadRegistry"
                       [] c.op \in {"issue", "encrypt", "decrypt"} -> "loadSetup"
                       [] OTHER -> "openRevocation"
         /\ UNCHANGED <<disk, registered, granted, crashed>>
<1>1. pc \in [Process -> Label] /\ mem \in [Process -> Memory]
  BY DEF TypeOK
<1>2. Blank = [cmd |-> NoCommand, id |-> 0, pp |-> NoBundle, reg |-> {}, rev |-> Default,
               names |-> {}, key |-> NoKey, pkg |-> NoPackage]
  BY DEF Blank
<1> QED
  BY <1>1, <1>2 DEF Begin, Goto, NoBundle

\* Commands keep taking turns.
LEMMA TurnsNext ==
  ASSUME TypeOK, Turns, OneAtATime', NEW p \in Process, StepOf(p)
  PROVE  Turns'
<1>0. \A q \in Process \ {p} : pc'[q] = "idle"
  BY OthersIdle DEF Turns
<1>1. CASE \E c \in Command : Begin(p, c)
  <2>1. PICK c \in Command : Begin(p, c)
    BY <1>1
  <2>2. clock' <= MaxCommands
    BY <2>1, Begins, BoundAssumption DEF TypeOK
  <2>3. /\ mem'[p].id = clock' /\ clock' > 0 /\ mem'[p].cmd \in Command
        /\ pc'[p] \notin {"fillSetup", "fillRegistry", "fillRevocation", "fillKey"}
    BY <2>1, Begins DEF TypeOK
  <2> QED
    BY <1>0, <2>2, <2>3 DEF Turns, Active
<1>2. CASE Step(p) \/ Crash(p)
  <2>1. Active(p) /\ clock' = clock
    BY <1>2, StepStarts, WhoWrites DEF Active
  <2>2. CASE pc'[p] = "idle"
    BY <1>0, <2>1, <2>2 DEF Turns, Active
  <2>3. CASE pc'[p] # "idle"
    <3>1. mem'[p].cmd = mem[p].cmd /\ mem'[p].id = mem[p].id
      BY <1>2, <2>3, GoesOn
    <3>2. pc'[p] = "fillSetup" => setup' = Empty
      <4>1. pc'[p] = "fillSetup" => pc[p] = "saveSetup"
        BY <1>2, <2>3, GoesOn
      <4> QED
        BY <1>2, <2>3, <4>1, WhichStep DEF TruncateSetup
    <3>3. pc'[p] = "fillRegistry" => registry' = Empty
      <4>1. pc'[p] = "fillRegistry" => pc[p] = "saveRegistry"
        BY <1>2, <2>3, GoesOn
      <4> QED
        BY <1>2, <2>3, <4>1, WhichStep DEF TruncateRegistry
    <3>4. pc'[p] = "fillRevocation" => revocation' = Empty
      <4>1. pc'[p] = "fillRevocation" => pc[p] = "saveRevocation"
        BY <1>2, <2>3, GoesOn
      <4> QED
        BY <1>2, <2>3, <4>1, WhichStep DEF TruncateRevocation
    <3>5. pc'[p] = "fillKey" => keys'[mem'[p].cmd.user] = Empty
      <4>1. pc'[p] = "fillKey" => pc[p] = "saveKey"
        BY <1>2, <2>3, GoesOn
      <4>2. pc[p] = "saveKey" => mem[p].cmd.user \in User
        BY WhoIsWhere, TypeParts, MemoryParts, CommandParts
      <4>3. keys \in [User -> File(Key)]
        BY DEF TypeOK
      <4> QED
        BY <1>2, <2>3, <3>1, <4>1, <4>2, <4>3, WhichStep DEF TruncateKey
    <3> QED
      BY <1>0, <2>1, <3>1, <3>2, <3>3, <3>4, <3>5 DEF Turns, Active
  <2> QED
    BY <2>2, <2>3
<1> QED
  BY <1>1, <1>2 DEF StepOf

-----------------------------------------------------------------------------
(* What a command holds in memory stays what the files say.                *)

\* A file that its process has truncated is filled cleanly (fs::write).
LEMMA FillsCleanly ==
  ASSUME Turns, NEW p \in Process
  PROVE  /\ FillSetup(p) => setup' = Holding(mem[p].pp)
         /\ FillRegistry(p) => registry' = Holding(mem[p].reg)
         /\ FillRevocation(p) => revocation' = Holding(mem[p].rev)
         /\ FillKey(p) => keys' = [keys EXCEPT ![mem[p].cmd.user] = Holding(mem[p].key)]
BY DEF Turns, FillSetup, FillRegistry, FillRevocation, FillKey, Filled

\* What a step leaves in the files that the properties speak of.
LEMMA SetupAfter ==
  ASSUME TypeOK, Turns, NEW p \in Process, StepOf(p), Readable(setup)'
  PROVE  \/ setup' = setup
         \/ pc[p] = "fillSetup" /\ setup' = Holding(mem[p].pp)
<1>1. CASE pc[p] \notin {"saveSetup", "fillSetup"} \/ pc'[p] = "idle"
  BY <1>1, WhoWrites, EndsQuietly
<1>2. CASE pc[p] \in {"saveSetup", "fillSetup"} /\ pc'[p] # "idle"
  <2>1. Step(p) \/ Crash(p)
    BY <1>2 DEF StepOf, Begin
  <2> QED
    BY <1>2, <2>1, WhichStep, FillsCleanly DEF TruncateSetup, Readable, Empty
<1> QED
  BY <1>1, <1>2

LEMMA RevocationAfter ==
  ASSUME TypeOK, Turns, NEW p \in Process, StepOf(p), Loadable(revocation)'
  PROVE  \/ revocation' = revocation
         \/ pc[p] = "fillRevocation" /\ pc'[p] = "record" /\ revocation' = Holding(mem[p].rev)
<1>1. CASE pc[p] \notin {"saveRevocation", "fillRevocation"} \/ pc'[p] = "idle"
  BY <1>1, WhoWrites, EndsQuietly
<1>2. CASE pc[p] \in {"saveRevocation", "fillRevocation"} /\ pc'[p] # "idle"
  <2>1. Step(p) \/ Crash(p)
    BY <1>2 DEF StepOf, Begin
  <2>2. pc[p] = "fillRevocation" => pc'[p] = "record"
    BY <1>2, <2>1, GoesOn, WhoIsWhere
  <2> QED
    BY <1>2, <2>1, <2>2, WhichStep, FillsCleanly
       DEF TruncateRevocation, Loadable, Readable, Empty, Absent
<1> QED
  BY <1>1, <1>2

LEMMA KeysAfter ==
  ASSUME TypeOK, Turns, NEW p \in Process, StepOf(p), NEW u \in User, OnFile(u)'
  PROVE  \/ OnFile(u) /\ keys'[u] = keys[u]
         \/ /\ pc[p] = "fillKey" /\ pc'[p] = "record" /\ mem[p].cmd.op = "issue"
            /\ mem[p].cmd.user = u /\ keys'[u] = Holding(mem[p].key)
<1>1. CASE pc[p] \notin {"saveKey", "fillKey"} \/ pc'[p] = "idle"
  BY <1>1, WhoWrites, EndsQuietly DEF OnFile, Readable
<1>2. CASE pc[p] \in {"saveKey", "fillKey"} /\ pc'[p] # "idle"
  <2>1. Step(p) \/ Crash(p)
    BY <1>2 DEF StepOf, Begin
  <2>2. mem[p].cmd.op = "issue" /\ pc[p] = "fillKey" => pc'[p] = "record"
    BY <1>2, <2>1, GoesOn
  <2>3. mem[p].cmd.op = "issue"
    BY <1>2, WhoIsWhere
  <2>4. \/ keys' = [keys EXCEPT ![mem[p].cmd.user] = Empty]
        \/ keys' = [keys EXCEPT ![mem[p].cmd.user] = Holding(mem[p].key)] /\ pc[p] = "fillKey"
    BY <1>2, <2>1, WhichStep, FillsCleanly DEF TruncateKey
  <2>5. keys \in [User -> File(Key)]
    BY DEF TypeOK
  <2> QED
    BY <2>2, <2>3, <2>4, <2>5 DEF OnFile, Readable, Empty
<1> QED
  BY <1>1, <1>2

LEMMA PackagesAfter ==
  ASSUME TypeOK, NEW p \in Process, StepOf(p), NEW k \in packages'
  PROVE  \/ k \in packages
         \/ /\ pc[p] = "seal" /\ pc'[p] = "record" /\ mem[p].cmd.op = "encrypt"
            /\ k = mem[p].pkg
<1>1. CASE pc[p] # "seal" \/ pc'[p] = "idle"
  BY <1>1, WhoWrites, EndsQuietly
<1>2. CASE pc[p] = "seal" /\ pc'[p] # "idle"
  <2>1. Step(p) \/ Crash(p)
    BY <1>2 DEF StepOf, Begin
  <2>2. mem[p].cmd.op = "encrypt"
    BY <1>2, WhoIsWhere
  <2>3. pc'[p] = "record"
    BY <1>2, <2>1, <2>2, GoesOn
  <2>4. packages' = packages \cup {mem[p].pkg}
    BY <1>2, <2>1, WhichStep DEF PutPackage
  <2> QED
    BY <1>2, <2>2, <2>3, <2>4
<1> QED
  BY <1>1, <1>2

LEMMA AuditAfter ==
  ASSUME TypeOK, NEW p \in Process, StepOf(p), NEW e \in audit'
  PROVE  \/ e \in audit
         \/ pc[p] = "record" /\ e = EventOf(p) /\ Record(p)
<1>1. CASE pc[p] # "record"
  BY <1>1, WhoWrites
<1>2. CASE pc[p] = "record"
  <2>1. Record(p) \/ Crash(p)
    BY <1>2 DEF StepOf, Begin, Step, ChangeRevocation, LoadFails, LoadSetup, RegisterAuthority,
         LoadRegistry, OpenForTags, Refuse, AcceptClaims, MergeAndMint, KeygenFails, RetagPolicy,
         BumpEpoch, ListUser, TruncateSetup, FillSetup, TruncateRegistry, FillRegistry,
         TruncateRevocation, FillRevocation, TruncateKey, FillKey, PutPackage, LoadKey, Deny,
         WritePlaintext, At
  <2> QED
    BY <1>2, <2>1 DEF Record, Crash, disk
<1> QED
  BY <1>1, <1>2

LEMMA CurrentRegistryNext ==
  ASSUME TypeOK, Turns, Current, NEW p \in Process, StepOf(p), pc'[p] # "idle"
  PROVE  CurrentRegistry(p)'
<1>1. CASE \E c \in Command : Begin(p, c)
  BY <1>1, Begins DEF CurrentRegistry, Runs
<1>2. CASE Step(p) \/ Crash(p)
  <2>0. mem \in [Process -> Memory] /\ CurrentRegistry(p)
    BY DEF TypeOK, Current
  <2>1. CASE mem[p].cmd.op = "setup"
    <3>1. /\ mem'[p].cmd = mem[p].cmd /\ mem'[p].reg = mem[p].reg
          /\ pc[p] \in {"saveSetup", "fillSetup", "saveRegistry", "fillRegistry"}
      BY <1>2, <2>1, GoesOn
    <3> QED
      BY <2>0, <2>1, <3>1 DEF CurrentRegistry, Runs
  <2>2. CASE mem[p].cmd.op = "register"
    <3>1. /\ mem'[p].cmd = mem[p].cmd
          /\ pc'[p] = "saveRegistry" => pc[p] = "loadRegistry"
      BY <1>2, <2>2, GoesOn
    <3>2. pc[p] = "loadRegistry" => RegisterAuthority(p) /\ registry' = registry
      BY <1>2, <2>2, WhichStep, WhoWrites DEF LoadRegistry, At, StepOf
    <3> QED
      BY <2>0, <2>2, <3>1, <3>2 DEF CurrentRegistry, Runs, RegisterAuthority, Memory
  <2>3. CASE mem[p].cmd.op = "issue"
    <3> DEFINE late == {"openRevocation", "checkUser", "mergeKey", "saveSetup", "fillSetup",
                        "saveKey"}
    <3>1. /\ mem'[p].cmd = mem[p].cmd
          /\ pc'[p] \in late => pc[p] = "loadRegistry" \/ pc[p] \in late
          /\ pc[p] # "loadRegistry" => mem'[p].reg = mem[p].reg
      BY <1>2, <2>3, GoesOn
    <3>2. pc[p] \in late \cup {"loadRegistry"} => registry' = registry
      BY <1>2, WhoWrites DEF StepOf
    <3>3. pc[p] = "loadRegistry" => LoadRegistry(p)
      BY <1>2, <2>3, WhichStep DEF RegisterAuthority, At
    <3> QED
      BY <2>0, <2>3, <3>1, <3>2, <3>3 DEF CurrentRegistry, Runs, LoadRegistry, Memory
  <2>4. CASE mem[p].cmd.op \notin {"setup", "register", "issue"}
    BY <1>2, <2>4, GoesOn DEF CurrentRegistry, Runs
  <2> QED
    BY <2>1, <2>2, <2>3, <2>4
<1> QED
  BY <1>1, <1>2 DEF StepOf

\* The claims of a command, and whether it may grant them, depend on its copies
\* of the registry and the revocation list only.
LEMMA SameClaims ==
  ASSUME NEW p \in Process, mem'[p].cmd = mem[p].cmd, mem'[p].reg = mem[p].reg,
         mem'[p].rev = mem[p].rev, revocation' = revocation
  PROVE  (MayIssue(p)' <=> MayIssue(p)) /\ Claimed(p)' = Claimed(p)
BY DEF MayIssue, Claimed, TagAll, TagOf, Permitted, Loaded, Default

LEMMA CurrentRevocationNext ==
  ASSUME TypeOK, Turns, Current, NEW p \in Process, StepOf(p), pc'[p] # "idle"
  PROVE  CurrentRevocation(p)'
<1>1. CASE \E c \in Command : Begin(p, c)
  BY <1>1, Begins DEF CurrentRevocation, Runs
<1>2. CASE Step(p) \/ Crash(p)
  <2>0. mem \in [Process -> Memory] /\ CurrentRevocation(p)
    BY DEF TypeOK, Current
  <2>c. mem'[p].cmd = mem[p].cmd
    BY <1>2, GoesOn
  <2>1. CASE mem[p].cmd.op = "issue"
    <3> DEFINE late == {"mergeKey", "saveSetup", "fillSetup", "saveKey"}
    <3>1. pc[p] \in late \cup {"openRevocation", "checkUser"} =>
            revocation' = revocation /\ RevOnFile' = RevOnFile
      BY <1>2, WhoWrites DEF StepOf, RevOnFile, Loaded, Default
    <3>2. CASE pc[p] = "openRevocation"
      <4>1. OpenForTags(p) /\ pc'[p] = "checkUser"
        BY <1>2, <2>1, <3>2, WhichStep, GoesOn DEF RetagPolicy, BumpEpoch, ListUser, At
      <4> QED
        BY <2>0, <2>c, <2>1, <3>1, <3>2, <4>1
           DEF CurrentRevocation, Runs, OpenForTags, Memory, RevOnFile
    <3>3. CASE pc[p] = "checkUser"
      <4>1. AcceptClaims(p) /\ pc'[p] = "mergeKey"
        BY <1>2, <2>1, <3>3, WhichStep, GoesOn
      <4>2. mem'[p].reg = mem[p].reg /\ mem'[p].rev = mem[p].rev
        BY <1>2, <3>3, GoesOn
      <4>3. mem'[p].names = Claimed(p)
        BY <2>0, <4>1 DEF AcceptClaims, Memory
      <4>4. Loadable(revocation) /\ mem[p].rev = RevOnFile
        BY <2>0, <2>1, <3>3 DEF CurrentRevocation, Runs
      <4>5. MayIssue(p)' /\ Claimed(p)' = Claimed(p)
        BY <2>c, <3>1, <3>3, <4>1, <4>2, SameClaims DEF AcceptClaims
      <4> QED
        BY <2>c, <2>1, <3>1, <3>3, <4>1, <4>2, <4>3, <4>4, <4>5 DEF CurrentRevocation, Runs
    <3>4. CASE pc[p] \in late
      <4>1. /\ mem'[p].reg = mem[p].reg /\ mem'[p].rev = mem[p].rev
            /\ mem'[p].names = mem[p].names
        BY <1>2, <3>4, GoesOn
      <4>2. (MayIssue(p)' <=> MayIssue(p)) /\ Claimed(p)' = Claimed(p)
        BY <2>c, <3>1, <3>4, <4>1, SameClaims
      <4> QED
        BY <2>0, <2>c, <2>1, <3>1, <3>4, <4>1, <4>2 DEF CurrentRevocation, Runs
    <3>5. CASE pc[p] \notin late \cup {"openRevocation", "checkUser"}
      BY <1>2, <2>c, <2>1, <3>5, GoesOn DEF CurrentRevocation, Runs
    <3> QED
      BY <3>2, <3>3, <3>4, <3>5
  <2>2. CASE mem[p].cmd.op = "encrypt"
    <3>1. pc[p] \in {"openRevocation", "saveSetup", "fillSetup"} =>
            revocation' = revocation /\ RevOnFile' = RevOnFile
      BY <1>2, WhoWrites DEF StepOf, RevOnFile, Loaded, Default
    <3>2. CASE pc[p] = "openRevocation"
      <4>1. RetagPolicy(p)
        BY <1>2, <2>2, <3>2, WhichStep DEF OpenForTags, BumpEpoch, ListUser, At
      <4>2. mem'[p].pkg.policy = Retag(RevOnFile, mem[p].cmd.policy) /\ Loadable(revocation)
        BY <2>0, <4>1 DEF RetagPolicy, Memory, SealPackage, RevOnFile
      <4>3. Retag(RevOnFile, mem[p].cmd.policy)' = Retag(RevOnFile, mem[p].cmd.policy)
        BY <2>c, <3>1, <3>2 DEF Retag, TagAll, TagOf
      <4> QED
        BY <2>c, <2>2, <3>1, <3>2, <4>2, <4>3 DEF CurrentRevocation, Runs
    <3>3. CASE pc[p] \in {"saveSetup", "fillSetup"}
      <4>1. mem'[p].pkg = mem[p].pkg
        BY <1>2, <3>3, GoesOn
      <4>2. Retag(RevOnFile, mem[p].cmd.policy)' = Retag(RevOnFile, mem[p].cmd.policy)
        BY <2>c, <3>1, <3>3 DEF Retag, TagAll, TagOf
      <4> QED
        BY <2>0, <2>c, <2>2, <3>1, <3>3, <4>1, <4>2 DEF CurrentRevocation, Runs
    <3>4. CASE pc[p] \notin {"openRevocation", "saveSetup", "fillSetup"}
      BY <1>2, <2>c, <2>2, <3>4, GoesOn DEF CurrentRevocation, Runs
    <3> QED
      BY <3>2, <3>3, <3>4
  <2>3. CASE mem[p].cmd.op \in {"revokeAttribute", "revokeUser"}
    <3>1. CASE pc[p] = "openRevocation"
      <4>1. /\ mem[p].cmd.op = "revokeAttribute" => BumpEpoch(p)
            /\ mem[p].cmd.op = "revokeUser" => ListUser(p)
            /\ pc'[p] = "saveRevocation"
        BY <1>2, <2>3, <3>1, WhichStep, GoesOn DEF OpenForTags, RetagPolicy, BumpEpoch, ListUser, At
      <4>2. revocation' = revocation /\ RevOnFile' = RevOnFile
        BY <1>2, <3>1, WhoWrites DEF StepOf, RevOnFile, Loaded, Default
      <4>3. Loadable(revocation)
        BY <2>3, <4>1 DEF BumpEpoch, ListUser
      <4>4. mem[p].cmd.op = "revokeAttribute" =>
              mem'[p].rev = [RevOnFile EXCEPT !.epochs[mem[p].cmd.attribute] = @ + 1]
        BY <2>0, <4>1 DEF BumpEpoch, Memory, RevOnFile
      <4>5. mem[p].cmd.op = "revokeUser" =>
              mem'[p].rev = [RevOnFile EXCEPT !.revoked = @ \cup {mem[p].cmd.user}]
        BY <2>0, <4>1 DEF ListUser, Memory, RevOnFile
      <4> QED
        BY <2>c, <2>3, <4>1, <4>2, <4>3, <4>4, <4>5 DEF CurrentRevocation, Runs
    <3>2. CASE pc[p] = "saveRevocation"
      BY <1>2, <2>c, <2>3, <3>2, GoesOn DEF CurrentRevocation, Runs
    <3>3. CASE pc[p] = "fillRevocation"
      BY <1>2, <2>c, <2>3, <3>3, GoesOn, WhichStep, FillsCleanly DEF CurrentRevocation, Runs
    <3> QED
      BY <1>2, <2>3, <3>1, <3>2, <3>3, GoesOn
  <2>4. CASE mem[p].cmd.op \notin {"issue", "encrypt", "revokeAttribute", "revokeUser"}
    BY <2>c, <2>4 DEF CurrentRevocation, Runs
  <2> QED
    BY <2>1, <2>2, <2>3, <2>4
<1> QED
  BY <1>1, <1>2 DEF StepOf

\* keygen makes a share for each of the names it is given.
LEMMA KeygenNames ==
  ASSUME NEW pp, NEW names, NEW n, names \subseteq Names(pp)
  PROVE  Names(Keygen(pp, names, n)) = names
BY DEF Names, Keygen

LEMMA CurrentKeyNext ==
  ASSUME TypeOK, Turns, Current, NEW p \in Process, StepOf(p), pc'[p] # "idle"
  PROVE  CurrentKey(p)'
<1>1. CASE \E c \in Command : Begin(p, c)
  <2>1. PICK c \in Command : Begin(p, c)
    BY <1>1
  <2>2. packages' = packages
    BY <2>1, Begins DEF disk
  <2> QED
    BY <2>1, <2>2, Begins DEF CurrentKey, Runs
<1>2. CASE Step(p) \/ Crash(p)
  <2>0. mem \in [Process -> Memory] /\ CurrentKey(p)
    BY DEF TypeOK, Current
  <2>c. mem'[p].cmd = mem[p].cmd /\ mem'[p].id = mem[p].id
    BY <1>2, GoesOn
  <2>1. CASE mem[p].cmd.op = "issue"
    <3> DEFINE late == {"saveSetup", "fillSetup", "saveKey"}
    <3>1. CASE pc[p] = "mergeKey"
      <4>1. MergeAndMint(p) /\ pc'[p] = "saveSetup" /\ keys' = keys
        BY <1>2, <2>1, <3>1, WhichStep, GoesOn, WhoWrites DEF StepOf
      <4>2. mem'[p].key = Keygen(mem[p].pp, MergedNames(p), mem[p].id)
        BY <2>0, <4>1 DEF MergeAndMint, Memory
      <4>3. Names(mem'[p].key) = MergedNames(p)
        BY <4>1, <4>2, KeygenNames DEF MergeAndMint
      <4>4. MergedNames(p)' = MergedNames(p)
        BY <1>2, <2>c, <3>1, <4>1, GoesOn DEF MergedNames, Names, Readable
      <4>5. mem'[p].key.r = mem[p].id
        BY <4>2 DEF Keygen
      <4>6. Names(mem[p].key)' = Names(mem'[p].key)
        BY DEF Names
      <4> QED
        BY <2>c, <2>1, <4>1, <4>3, <4>4, <4>5, <4>6 DEF CurrentKey, Runs
    <3>2. CASE pc[p] \in late \cup {"fillKey"}
      <4>1. mem'[p].names = mem[p].names /\ mem'[p].key = mem[p].key
        BY <1>2, <3>2, GoesOn
      <4>2. pc'[p] \in late => pc[p] \in late /\ keys' = keys
        BY <1>2, <2>1, <3>2, GoesOn, WhoWrites DEF StepOf
      <4>3. pc'[p] \in late => Names(mem[p].key)' = MergedNames(p)'
        BY <2>0, <2>c, <2>1, <4>1, <4>2 DEF CurrentKey, Runs, MergedNames, Names, Readable
      <4>4. pc[p] = "fillKey" => keys'[mem[p].cmd.user] = Holding(mem[p].key)
        <5>1. pc[p] = "fillKey" => mem[p].cmd.user \in User
          BY <2>1, TypeParts, MemoryParts, CommandParts
        <5> QED
          BY <1>2, <5>1, WhichStep, FillsCleanly DEF TypeOK
      <4>5. pc'[p] = "record" => pc[p] = "fillKey"
        BY <1>2, <2>1, <3>2, GoesOn
      <4> QED
        BY <2>0, <2>c, <2>1, <3>2, <4>1, <4>3, <4>4, <4>5 DEF CurrentKey, Runs
    <3>3. CASE pc[p] \notin late \cup {"mergeKey", "fillKey"}
      BY <1>2, <2>c, <2>1, <3>3, GoesOn DEF CurrentKey, Runs
    <3> QED
      BY <3>1, <3>2, <3>3
  <2>2. CASE mem[p].cmd.op = "encrypt"
    <3>1. CASE pc[p] = "openRevocation"
      <4>1. RetagPolicy(p)
        BY <1>2, <2>2, <3>1, WhichStep DEF OpenForTags, BumpEpoch, ListUser, At
      <4>2. mem'[p].pkg.id = mem[p].id
        BY <2>0, <4>1 DEF RetagPolicy, Memory, SealPackage
      <4> QED
        BY <2>c, <2>2, <4>2 DEF CurrentKey, Runs
    <3>2. CASE pc[p] # "openRevocation"
      BY <1>2, <2>0, <2>c, <2>2, <3>2, GoesOn DEF CurrentKey, Runs
    <3> QED
      BY <3>1, <3>2
  <2>3. CASE mem[p].cmd.op = "decrypt"
    <3>1. /\ pc[p] \in {"loadSetup", "loadKey", "open"}
          /\ pc'[p] = "open" <=> pc[p] = "loadKey"
          /\ pc'[p] = "record" <=> pc[p] = "open"
          /\ mem'[p].pkg = mem[p].pkg
          /\ pc[p] = "open" => mem'[p].key = mem[p].key
      BY <1>2, <2>3, GoesOn
    <3>2. keys' = keys /\ packages' = packages
      BY <1>2, <3>1, WhoWrites DEF StepOf
    <3>3. pc[p] = "loadKey" => /\ Readable(keys[mem[p].cmd.user])
                               /\ mem'[p].key = keys[mem[p].cmd.user].val
      BY <1>2, <2>0, WhichStep DEF LoadKey, Memory
    <3> QED
      BY <2>0, <2>c, <2>3, <3>1, <3>2, <3>3 DEF CurrentKey, Runs, OnFile
  <2>4. CASE mem[p].cmd.op \notin {"issue", "encrypt", "decrypt"}
    BY <2>c, <2>4 DEF CurrentKey, Runs
  <2> QED
    BY <2>1, <2>2, <2>3, <2>4
<1> QED
  BY <1>1, <1>2 DEF StepOf

\* What commands have in memory stays current.
LEMMA CurrentNext ==
  ASSUME TypeOK, Turns, Current, OneAtATime', NEW p \in Process, StepOf(p)
  PROVE  Current'
<1>1. \A q \in Process : pc'[q] = "idle" =>
        (CurrentRegistry(q) /\ CurrentRevocation(q) /\ CurrentKey(q))'
  BY DEF CurrentRegistry, CurrentRevocation, CurrentKey, Runs
<1>2. \A q \in Process \ {p} : pc'[q] = "idle"
  BY OthersIdle DEF Turns
<1> QED
  BY <1>1, <1>2, CurrentRegistryNext, CurrentRevocationNext, CurrentKeyNext DEF Current

-----------------------------------------------------------------------------
(* There stays one bundle that covers every key and package.               *)

\* register_attribute extends a bundle by names it does not have.
LEMMA RegisterExtends ==
  ASSUME NEW pp \in Bundle, Single(pp.attrs), NEW names, NEW n,
         NEW q, q = RegisterAttributes(pp, names, n)
  PROVE  Single(q.attrs) /\ Within(pp, q) /\ names \subseteq Names(q)
<1>1. q.master = pp.master /\ q.attrs = pp.attrs \cup {[name |-> x, t |-> n] : x \in names \ Names(pp)}
  BY DEF RegisterAttributes, Bundle
<1>2. Within(pp, q)
  BY <1>1 DEF Within
<1>3. Single(q.attrs)
  BY <1>1 DEF Single, Names
<1>4. names \subseteq Names(q)
  <2> SUFFICES ASSUME NEW x \in names PROVE x \in Names(q)
    OBVIOUS
  <2>1. CASE x \in Names(pp)
    BY <1>1, <2>1 DEF Names
  <2>2. CASE x \notin Names(pp)
    <3>1. [name |-> x, t |-> n] \in q.attrs
      BY <1>1, <2>2
    <3> QED
      BY <3>1 DEF Names
  <2> QED
    BY <2>1, <2>2
<1> QED
  BY <1>2, <1>3, <1>4

LEMMA WithinTransitive ==
  ASSUME NEW x, NEW b, NEW c, Within(x, b), Within(b, c)
  PROVE  Within(x, c)
BY DEF Within

\* What p does to the bundle that it loaded.
LEMMA HasBundleNext ==
  ASSUME TypeOK, Turns, Current, FreshSetup, NEW b \in Bundle, Covers(b),
         NEW p \in Process, StepOf(p), pc'[p] # "idle", pc[p] # "saveSetup"
  PROVE  HasBundle(p, b)'
<1>1. CASE \E c \in Command : Begin(p, c)
  <2>1. PICK c \in Command : Begin(p, c)
    BY <1>1
  <2>2. setup' = setup /\ packages' = packages /\ keys' = keys
    BY <2>1, Begins DEF disk
  <2>3. pc'[p] = "saveSetup" => ~ Readable(setup) /\ Unused
    BY <2>1, Begins DEF FreshSetup, Unused
  <2>4. /\ mem'[p].cmd = c /\ mem'[p].pp.attrs = {}
        /\ Runs(p, "setup", {"saveSetup"})' => pc'[p] = "saveSetup"
        /\ ~ (Runs(p, "issue", {"saveSetup"})' \/ Runs(p, "encrypt", {"saveSetup", "openRevocation"})')
        /\ pc'[p] \in {"saveSetup", "loadRegistry", "loadSetup", "openRevocation"}
        /\ mem'[p].cmd.op = "issue" => pc'[p] = "loadSetup"
    BY <2>1, Begins DEF Runs
  <2> QED
    BY <2>2, <2>3, <2>4 DEF HasBundle, Runs, Unused, Readable
<1>2. CASE Step(p) \/ Crash(p)
  <2>0. mem \in [Process -> Memory] /\ HasBundle(p, b) /\ mem[p].pp \in Bundle
    BY TypeParts, MemoryParts DEF TypeOK, Covers
  <2>c. mem'[p].cmd = mem[p].cmd /\ mem'[p].id = mem[p].id
    BY <1>2, GoesOn
  <2>1. CASE pc[p] = "loadSetup"
    <3>1. Readable(setup) /\ mem'[p].pp = setup.val /\ setup' = setup
      BY <1>2, <2>0, <2>1, WhichStep, WhoWrites DEF LoadSetup, Memory, StepOf
    <3>2. mem'[p].pp = b /\ Within(b, mem'[p].pp) /\ Single(mem'[p].pp.attrs)
      BY <3>1 DEF Covers, Within
    <3>3. pc'[p] \in {"loadRegistry", "openRevocation", "loadKey"}
      BY <1>2, <2>1, GoesOn, WhoIsWhere
    <3> QED
      BY <2>c, <2>1, <3>1, <3>2, <3>3 DEF HasBundle, Runs, Single, Within
  <2>2. CASE mem[p].cmd.op = "issue" /\ pc[p] \in {"loadRegistry", "openRevocation"}
    <3>1. mem'[p].pp = mem[p].pp /\ setup' = setup /\ pc'[p] \in {"openRevocation", "checkUser"}
      BY <1>2, <2>2, GoesOn, WhoWrites DEF StepOf
    <3> QED
      BY <2>0, <2>c, <2>2, <3>1 DEF HasBundle, Runs, Single, Within
  <2>3. CASE pc[p] = "checkUser"
    <3>1. AcceptClaims(p) /\ setup' = setup /\ pc'[p] = "mergeKey" /\ mem[p].cmd.op = "issue"
      BY <1>2, <2>3, WhichStep, WhoWrites, WhoIsWhere, GoesOn DEF StepOf
    <3>2. /\ mem'[p].names = Claimed(p)
          /\ mem'[p].pp = RegisterAttributes(mem[p].pp, Claimed(p), mem[p].id)
      BY <2>0, <3>1 DEF AcceptClaims, Memory
    <3>3. Readable(setup) /\ Within(b, mem[p].pp) /\ Single(mem[p].pp.attrs)
      BY <2>0, <2>3, <3>1 DEF HasBundle, Runs
    <3>4. /\ Single(mem'[p].pp.attrs) /\ Within(b, mem'[p].pp)
          /\ mem'[p].names \subseteq Names(mem'[p].pp)
      BY <2>0, <3>2, <3>3, RegisterExtends, WithinTransitive
    <3> QED
      BY <2>c, <3>1, <3>3, <3>4 DEF HasBundle, Runs, Single, Within, Names
  <2>4. CASE pc[p] = "mergeKey"
    <3>1. MergeAndMint(p) /\ setup' = setup /\ pc'[p] = "saveSetup" /\ mem[p].cmd.op = "issue"
      BY <1>2, <2>4, WhichStep, WhoWrites, WhoIsWhere, GoesOn DEF StepOf
    <3>2. /\ mem'[p].key = Keygen(mem[p].pp, MergedNames(p), mem[p].id)
          /\ mem'[p].pp = mem[p].pp
      BY <2>0, <3>1 DEF MergeAndMint, Memory
    <3>3. Within(mem'[p].key, mem'[p].pp)
      BY <3>2 DEF Within, Keygen
    <3> QED
      BY <2>0, <2>c, <2>4, <3>1, <3>2, <3>3 DEF HasBundle, Runs, Single, Within, Names
  <2>5. CASE mem[p].cmd.op = "encrypt" /\ pc[p] = "openRevocation"
    <3> DEFINE pol == Retag(Loaded(revocation, Default), mem[p].cmd.policy)
    <3>1. RetagPolicy(p) /\ setup' = setup /\ pc'[p] = "saveSetup"
      BY <1>2, <2>5, WhichStep, WhoWrites, GoesOn DEF OpenForTags, BumpEpoch, ListUser, At, StepOf
    <3>2. /\ mem'[p].pp = RegisterAttributes(mem[p].pp, Leaves(pol), mem[p].id)
          /\ mem'[p].pkg = SealPackage(mem'[p].pp, pol, mem[p].id)
      BY <2>0, <3>1 DEF RetagPolicy, Memory
    <3>3. Readable(setup) /\ Within(b, mem[p].pp) /\ Single(mem[p].pp.attrs)
      BY <2>0, <2>5 DEF HasBundle, Runs
    <3>4. Single(mem'[p].pp.attrs) /\ Within(b, mem'[p].pp)
      BY <2>0, <3>2, <3>3, RegisterExtends, WithinTransitive
    <3>5. Within(mem'[p].pkg, mem'[p].pp)
      BY <3>2 DEF Within, SealPackage
    <3> QED
      BY <2>c, <2>5, <3>1, <3>3, <3>4, <3>5 DEF HasBundle, Runs, Single, Within
  <2>6. CASE pc[p] = "fillSetup"
    <3>1. /\ setup' = Holding(mem[p].pp) /\ mem[p].pp = b
          /\ keys' = keys /\ packages' = packages
      BY <1>2, <2>0, <2>6, WhichStep, WhoWrites, FillsCleanly DEF StepOf, HasBundle
    <3>2. /\ pc'[p] = "saveRegistry" <=> mem[p].cmd.op = "setup"
          /\ pc'[p] = "saveKey" <=> mem[p].cmd.op = "issue"
          /\ pc'[p] = "seal" <=> mem[p].cmd.op = "encrypt"
          /\ pc'[p] \in {"saveRegistry", "saveKey", "seal"}
          /\ mem'[p].pp = mem[p].pp /\ mem'[p].key = mem[p].key /\ mem'[p].pkg = mem[p].pkg
      BY <1>2, <2>6, GoesOn, WhoIsWhere
    <3> QED
      BY <2>0, <2>c, <2>6, <3>1, <3>2
         DEF HasBundle, Runs, Within, Unused, Readable, Holding
  <2>7. CASE pc[p] = "saveKey"
    <3>1. mem[p].cmd.op = "issue" /\ pc'[p] = "fillKey" /\ mem'[p].key = mem[p].key
      BY <1>2, <2>7, GoesOn, WhoIsWhere
    <3> QED
      BY <2>0, <2>c, <2>7, <3>1 DEF HasBundle, Runs, Within
  <2>8. CASE pc[p] = "saveRegistry"
    <3>1. /\ pc'[p] = "fillRegistry"
          /\ setup' = setup /\ keys' = keys /\ packages' = packages
      BY <1>2, <2>8, GoesOn, WhoWrites, WhoIsWhere DEF StepOf
    <3> QED
      BY <2>0, <2>c, <2>8, <3>1 DEF HasBundle, Runs, Unused, Readable
  <2>9. CASE pc[p] \in {"loadKey", "open"}
    <3>1. pc'[p] \in {"open", "record"} /\ mem[p].cmd.op = "decrypt" /\ setup' = setup
      BY <1>2, <2>9, GoesOn, WhoWrites, WhoIsWhere DEF StepOf
    <3> QED
      BY <2>0, <2>c, <2>9, <3>1 DEF HasBundle, Runs, Readable
  <2>10. CASE \/ pc[p] \in {"fillRegistry", "fillKey", "seal", "saveRevocation",
                            "fillRevocation", "record"}
              \/ pc[p] = "loadRegistry" /\ mem[p].cmd.op # "issue"
              \/ pc[p] = "openRevocation" /\ mem[p].cmd.op \notin {"issue", "encrypt"}
    BY <1>2, <2>c, <2>10, GoesOn, WhoIsWhere DEF HasBundle, Runs
  <2>11. pc[p] \in {"loadSetup", "loadRegistry", "openRevocation", "checkUser", "mergeKey",
                    "fillSetup", "saveRegistry", "fillRegistry", "saveRevocation",
                    "fillRevocation", "saveKey", "fillKey", "seal", "loadKey", "open", "record"}
    BY <1>2, StepStarts DEF TypeOK, Active, Label
  <2> QED
    BY <2>1, <2>2, <2>3, <2>4, <2>5, <2>6, <2>7, <2>8, <2>9, <2>10, <2>11
<1> QED
  BY <1>1, <1>2 DEF StepOf

\* A command that starts to save its bundle has one that extends the old one.
LEMMA BundleReplaced ==
  ASSUME TypeOK, Turns, NEW b \in Bundle, Covers(b), NEW p \in Process,
         TruncateSetup(p), pc'[p] = "fillSetup", \A q \in Process \ {p} : pc'[q] = "idle"
  PROVE  Coherent'
<1> SUFFICES ASSUME NEW pp, pp = mem[p].pp PROVE pp \in Bundle /\ Covers(pp)'
  BY DEF Coherent
<1>1. /\ setup' = Empty /\ keys' = keys /\ packages' = packages /\ mem' = mem
      /\ pc[p] = "saveSetup" /\ mem[p].cmd.op \in {"setup", "issue", "encrypt"}
  BY WhoIsWhere DEF TruncateSetup
<1>2. pp \in Bundle /\ HasBundle(p, b)
  BY TypeParts, MemoryParts DEF Covers
<1>3. ~ Readable(setup)'
  BY <1>1 DEF Readable, Empty
<1>4. HasBundle(p, pp)'
  BY <1>1, <1>2 DEF HasBundle, Runs, Within, Unused
<1>5. \A q \in Process \ {p} : HasBundle(q, pp)'
  BY DEF HasBundle, Runs
<1>6. CASE mem[p].cmd.op = "setup"
  <2>1. Unused /\ pp.attrs = {}
    BY <1>1, <1>2, <1>6 DEF HasBundle, Runs
  <2>2. \A u \in User : ~ OnFile(u)'
    BY <1>1, <2>1 DEF Unused, OnFile, Readable, Absent
  <2> QED
    BY <1>1, <1>2, <1>3, <1>4, <1>5, <2>1, <2>2 DEF Covers, Single, Unused
<1>7. CASE mem[p].cmd.op # "setup"
  <2>1. Within(b, pp) /\ Single(pp.attrs)
    BY <1>1, <1>2, <1>7 DEF HasBundle, Runs
  <2>2. \A u \in User : OnFile(u) => Within(keys[u].val, pp)
    BY <2>1, WithinTransitive DEF Covers
  <2>3. \A k \in packages : Within(k, pp)
    BY <2>1, WithinTransitive DEF Covers
  <2> QED
    BY <1>1, <1>2, <1>3, <1>4, <1>5, <2>1, <2>2, <2>3 DEF Covers, Single, Within, OnFile, Readable
<1> QED
  BY <1>6, <1>7

LEMMA CoherentNext ==
  ASSUME TypeOK, Turns, Current, Coherent, FreshSetup, OneAtATime',
         NEW p \in Process, StepOf(p)
  PROVE  Coherent'
<1>1. PICK b \in Bundle : Covers(b)
  BY DEF Coherent
<1>2. \A q \in Process \ {p} : pc'[q] = "idle"
  BY OthersIdle DEF Turns
<1>3. CASE pc[p] = "saveSetup" /\ pc'[p] # "idle"
  <2>1. Step(p) \/ Crash(p)
    BY <1>3 DEF StepOf, Begin
  <2>2. TruncateSetup(p) /\ pc'[p] = "fillSetup"
    BY <1>3, <2>1, WhichStep, GoesOn, WhoIsWhere
  <2> QED
    BY <1>1, <1>2, <2>2, BundleReplaced DEF Coherent
<1>4. CASE ~ (pc[p] = "saveSetup" /\ pc'[p] # "idle")
  <2>1. \A q \in Process : pc'[q] = "idle" => HasBundle(q, b)'
    BY DEF HasBundle, Runs
  <2>2. \A q \in Process : HasBundle(q, b)'
    BY <1>1, <1>2, <1>4, <2>1, HasBundleNext
  <2>3. HasBundle(p, b)
    BY <1>1 DEF Covers
  <2>4. Readable(setup)' => setup'.val = b
    BY <1>1, <2>3, SetupAfter DEF Covers, HasBundle, Holding, Readable
  <2>5. \A u \in User : OnFile(u)' => Within(keys'[u].val, b)
    <3> SUFFICES ASSUME NEW u \in User, OnFile(u)' PROVE Within(keys'[u].val, b)
      OBVIOUS
    <3>1. OnFile(u) => Within(keys[u].val, b)
      BY <1>1 DEF Covers
    <3>2. mem[p].cmd.op = "issue" /\ pc[p] = "fillKey" => Within(mem[p].key, b)
      BY <2>3 DEF HasBundle, Runs
    <3>3. \/ OnFile(u) /\ keys'[u] = keys[u]
          \/ /\ pc[p] = "fillKey" /\ mem[p].cmd.op = "issue"
             /\ keys'[u] = Holding(mem[p].key)
      BY KeysAfter
    <3> QED
      BY <3>1, <3>2, <3>3 DEF Holding
  <2>6. \A k \in packages' : Within(k, b)
    BY <1>1, <2>3, PackagesAfter DEF Covers, HasBundle, Runs
  <2> QED
    BY <1>1, <2>2, <2>4, <2>5, <2>6 DEF Covers, Coherent
<1> QED
  BY <1>3, <1>4

-----------------------------------------------------------------------------
(* Revocations stay in force.                                              *)

\* The record of each command.
LEMMA EventIs ==
  ASSUME TypeOK, NEW p \in Process, pc[p] = "record", NEW e, e = EventOf(p)
  PROVE  LET c == mem[p].cmd
         IN /\ e.cmd = mem[p].id
            /\ e.action = "REVOKE_ATTRIBUTE" <=> c.op = "revokeAttribute"
            /\ c.op = "revokeAttribute" =>
                 /\ c.attribute \in Attribute /\ e.attribute = c.attribute
                 /\ e.epoch = mem[p].rev.epochs[c.attribute] /\ e.epoch \in Nat
            /\ e.action = "REVOKE_USER" <=> c.op = "revokeUser"
            /\ c.op = "revokeUser" => e.user = c.user /\ e.user \in User
            /\ e.action = "ISSUE_KEY" <=> c.op = "issue"
            /\ c.op = "issue" => /\ e.user = c.user /\ e.user \in User
                                 /\ e.names = Names(mem[p].key)
            /\ e.action = "DECRYPT_DENIED" <=>
                 c.op = "decrypt" /\ ~ Opens(mem[p].key, mem[p].pkg)
            /\ c.op = "decrypt" => e.user = c.user /\ e.user \in User /\ e.pkg = mem[p].pkg.id
<1>1. mem[p].cmd.op \in {"setup", "issue", "encrypt", "decrypt", "revokeAttribute", "revokeUser"}
  BY WhoIsWhere
<1>2. /\ mem[p].cmd.op \in {"issue", "decrypt", "revokeUser"} => mem[p].cmd.user \in User
      /\ mem[p].cmd.op = "revokeAttribute" => /\ mem[p].cmd.attribute \in Attribute
                                              /\ mem[p].rev.epochs \in [Attribute -> Nat]
  BY TypeParts, MemoryParts, CommandParts DEF Revocation
<1> DEFINE op == mem[p].cmd.op
<1>3. CASE op = "setup" \/ op = "encrypt" \/ op = "revokeUser"
  BY <1>2, <1>3 DEF EventOf
<1>4. CASE op = "issue" \/ op = "revokeAttribute"
  BY <1>2, <1>4 DEF EventOf
<1>5. CASE op = "decrypt"
  BY <1>2, <1>5 DEF EventOf
<1> QED
  BY <1>1, <1>3, <1>4, <1>5

\* Commands number what they make.
LEMMA NumberedNext ==
  ASSUME TypeOK, Turns, Current, Numbered, OneAtATime', NEW p \in Process, StepOf(p)
  PROVE  Numbered'
<1>0. \A q \in Process \ {p} : pc'[q] = "idle"
  BY OthersIdle DEF Turns
<1>1. clock \in Nat /\ clock' \in Nat /\ clock <= clock' /\ (pc[p] # "idle" => clock' = clock)
  <2>1. clock \in Nat
    BY DEF TypeOK
  <2>2. CASE \E c \in Command : Begin(p, c)
    BY <2>1, <2>2 DEF Begin
  <2>3. CASE Step(p) \/ Crash(p)
    BY <2>1, <2>3, StepStarts, WhoWrites DEF Active
  <2> QED
    BY <2>2, <2>3 DEF StepOf
<1>2. Active(p) => mem[p].id = clock
  BY DEF Turns
<1>3. \A e \in audit' : e.cmd \in 0 .. clock'
  <2> SUFFICES ASSUME NEW e \in audit' PROVE e.cmd \in 0 .. clock'
    OBVIOUS
  <2>1. CASE e \in audit
    BY <1>1, <2>1 DEF Numbered
  <2>2. CASE pc[p] = "record" /\ e = EventOf(p)
    BY <1>1, <1>2, <2>2, EventIs DEF Active
  <2> QED
    BY <2>1, <2>2, AuditAfter
<1>4. ASSUME NEW u \in User, OnFile(u)'
      PROVE  \/ OnFile(u) /\ keys'[u] = keys[u]
             \/ /\ pc[p] = "fillKey" /\ pc'[p] = "record" /\ mem[p].cmd.op = "issue"
                /\ keys'[u].val.r = clock
  <2>1. Runs(p, "issue", {"fillKey"}) => mem[p].key.r = mem[p].id
    BY DEF Current, CurrentKey, Runs
  <2>2. \/ OnFile(u) /\ keys'[u] = keys[u]
        \/ /\ pc[p] = "fillKey" /\ pc'[p] = "record" /\ mem[p].cmd.op = "issue"
           /\ keys'[u] = Holding(mem[p].key)
    BY <1>4, KeysAfter
  <2> QED
    BY <1>2, <2>1, <2>2 DEF Holding, Runs, Active
<1>5. ASSUME NEW k \in packages'
      PROVE  k \in packages \/ (pc[p] = "seal" /\ pc'[p] = "record" /\ k.id = clock)
  <2>1. Runs(p, "encrypt", {"seal"}) => mem[p].pkg.id = mem[p].id
    BY DEF Current, CurrentKey, Runs
  <2> QED
    BY <1>2, <1>5, <2>1, PackagesAfter DEF Runs, Active
<1>6. \A u \in User : OnFile(u)' => keys'[u].val.r \in 0 .. clock'
  BY <1>1, <1>4 DEF Numbered
<1>7. \A k \in packages' : k.id \in 0 .. clock'
  BY <1>1, <1>5 DEF Numbered
<1>8. Active(p)' /\ pc'[p] # "record" =>
        /\ \A u \in User : OnFile(u)' => keys'[u].val.r # clock'
        /\ \A k \in packages' : k.id # clock'
  <2>1. CASE \E c \in Command : Begin(p, c)
    <3>1. clock' = clock + 1
      BY <2>1 DEF Begin
    <3>2. \A u \in User : OnFile(u)' => keys'[u].val.r \in 0 .. clock
      BY <1>1, <1>4 DEF Numbered
    <3>3. \A k \in packages' : k.id \in 0 .. clock
      BY <1>1, <1>5 DEF Numbered
    <3> QED
      BY <1>1, <3>1, <3>2, <3>3
  <2>2. CASE (Step(p) \/ Crash(p)) /\ pc'[p] # "idle"
    <3>1. pc[p] # "record" /\ Active(p) /\ clock' = clock
      BY <2>2, WhichStep, StepStarts, WhoWrites DEF Active
    <3> QED
      BY <1>4, <1>5, <3>1 DEF Numbered
  <2> QED
    BY <2>1, <2>2 DEF StepOf, Active
<1>9. pc'[p] = "record" /\ mem'[p].cmd.op # "issue" =>
        \A u \in User : OnFile(u)' => keys'[u].val.r # clock'
  <2>1. CASE \E c \in Command : Begin(p, c)
    BY <2>1, Begins
  <2>2. CASE (Step(p) \/ Crash(p)) /\ pc'[p] # "idle"
    <3>1. pc[p] # "record" /\ Active(p) /\ clock' = clock /\ mem'[p].cmd = mem[p].cmd
      BY <2>2, WhichStep, StepStarts, WhoWrites, GoesOn DEF Active
    <3> QED
      BY <1>4, <3>1 DEF Numbered
  <2> QED
    BY <2>1, <2>2 DEF StepOf
<1> QED
  BY <1>0, <1>3, <1>6, <1>7, <1>8, <1>9 DEF Numbered, Active

\* Names are tags, and a list that loads has an epoch for each attribute.
LEMMA NamesType ==
  ASSUME TypeOK
  PROVE  /\ \A u \in User : OnFile(u) => Names(keys[u].val) \subseteq Tag
         /\ \A p \in Process : Names(mem[p].key) \subseteq Tag
         /\ Loadable(revocation) => RevOnFile \in Revocation
<1>1. \A b \in Key : Names(b) \subseteq Tag
  BY DEF Names, Key, Commitment
<1>2. \A u \in User : OnFile(u) => keys[u].val \in Key
  BY DEF TypeOK, OnFile, File, Readable, Absent, Empty, Garbled
<1>3. \A p \in Process : mem[p].key \in Key
  BY DEF TypeOK, Memory
<1>4. Loadable(revocation) => RevOnFile \in Revocation
  BY LoadedType, BlankType DEF TypeOK, RevOnFile
<1> QED
  BY <1>1, <1>2, <1>3, <1>4

\* A list that loads binds what was made under it.
LEMMA BindingNext ==
  ASSUME TypeOK, Turns, Current, Revoked, NEW p \in Process, StepOf(p), Loadable(revocation)'
  PROVE  Binding(RevOnFile)'
<1>1. CASE revocation' = revocation
  <2>1. RevOnFile' = RevOnFile /\ Loadable(revocation)
    BY <1>1 DEF RevOnFile, Loadable, Readable, Loaded, Default
  <2>2. Binding(RevOnFile)
    BY <2>1 DEF Revoked
  <2>3. ASSUME NEW e \in audit'
        PROVE  /\ e.action = "REVOKE_USER" => e.user \in RevOnFile.revoked
               /\ e.action = "REVOKE_ATTRIBUTE" => RevOnFile.epochs[e.attribute] >= e.epoch
    <3>1. CASE e \in audit
      BY <2>2, <3>1 DEF Binding
    <3>2. CASE pc[p] = "record" /\ e = EventOf(p)
      <4>1. mem[p].cmd.op \in {"revokeAttribute", "revokeUser"} => RevOnFile = mem[p].rev
        <5>1. mem[p].cmd.op \in {"revokeAttribute", "revokeUser"} =>
                revocation = Holding(mem[p].rev)
          BY <3>2 DEF Current, CurrentRevocation
        <5> QED
          BY <5>1 DEF RevOnFile, Loaded, Holding, Absent
      <4>2. mem[p].cmd.op = "revokeUser" => mem[p].cmd.user \in mem[p].rev.revoked
        BY <3>2 DEF Revoked, TakesEffect, Runs
      <4>3. /\ e.action = "REVOKE_USER" =>
                 mem[p].cmd.op = "revokeUser" /\ e.user = mem[p].cmd.user
            /\ e.action = "REVOKE_ATTRIBUTE" =>
                 /\ mem[p].cmd.op = "revokeAttribute" /\ e.epoch \in Nat
                 /\ e.epoch = mem[p].rev.epochs[e.attribute]
        BY <3>2, EventIs
      <4> QED
        BY <4>1, <4>2, <4>3
    <3> QED
      BY <3>1, <3>2, AuditAfter
  <2>4. ASSUME NEW u \in User, OnFile(u)', NEW x \in Names(keys'[u].val)
        PROVE  x[2] <= RevOnFile.epochs[x[1]]
    <3>1. OnFile(u) /\ keys'[u] = keys[u] => x[2] <= RevOnFile.epochs[x[1]]
      BY <2>2, <2>4 DEF Binding
    <3>2. KeyInTime(p)
      BY DEF Revoked
    <3>3. \/ OnFile(u) /\ keys'[u] = keys[u]
          \/ /\ pc[p] = "fillKey" /\ mem[p].cmd.op = "issue"
             /\ keys'[u] = Holding(mem[p].key)
      BY <2>4, KeysAfter
    <3>4. ASSUME pc[p] = "fillKey", mem[p].cmd.op = "issue", keys'[u] = Holding(mem[p].key)
          PROVE  x[2] <= RevOnFile.epochs[x[1]]
      <4>1. x \in Names(mem[p].key)
        BY <2>4, <3>4 DEF Holding
      <4> QED
        BY <3>2, <3>4, <4>1 DEF KeyInTime, Runs
    <3> QED
      BY <3>1, <3>3, <3>4
  <2>5. \A u \in User : OnFile(u)' => \A x \in Names(keys[u].val)' : x[2] <= RevOnFile.epochs[x[1]]
    BY <2>4 DEF Names
  <2> QED
    BY <2>1, <2>3, <2>5 DEF Binding
<1>2. CASE pc[p] = "fillRevocation" /\ revocation' = Holding(mem[p].rev)
  <2>1. RevOnFile' = mem[p].rev /\ Binding(mem[p].rev)
    BY <1>2 DEF RevOnFile, Loaded, Holding, Absent, Revoked
  <2>2. audit' = audit /\ keys' = keys
    BY <1>2, WhoWrites
  <2> QED
    BY <2>1, <2>2 DEF Binding, OnFile, Readable, Names
<1> QED
  BY <1>1, <1>2, RevocationAfter

\* A list with more revocations binds what was made under it as well.
LEMMA BindingGrows ==
  ASSUME TypeOK, NEW rev \in Revocation, Binding(rev), NEW new \in Revocation,
         rev.revoked \subseteq new.revoked,
         \A a \in Attribute : rev.epochs[a] <= new.epochs[a], AuditTyped
  PROVE  Binding(new)
<1>1. ASSUME NEW e \in audit
      PROVE  /\ e.action = "REVOKE_USER" => e.user \in new.revoked
             /\ e.action = "REVOKE_ATTRIBUTE" => new.epochs[e.attribute] >= e.epoch
  BY DEF Binding, Revocation, AuditTyped
<1>2. ASSUME NEW u \in User, OnFile(u), NEW x \in Names(keys[u].val)
      PROVE  x[2] <= new.epochs[x[1]]
  <2>1. x \in Tag
    BY <1>2, NamesType
  <2>2. x[1] \in Attribute /\ x[2] \in Nat
    BY <2>1 DEF Tag
  <2>3. x[2] <= rev.epochs[x[1]]
    BY <1>2 DEF Binding
  <2> QED
    BY <2>2, <2>3 DEF Revocation
<1> QED
  BY <1>1, <1>2 DEF Binding

\* revoke_attribute and revoke_user only add to the list they loaded.
LEMMA ListGrows ==
  ASSUME TypeOK, Current, NEW p \in Process, pc[p] = "saveRevocation"
  PROVE  /\ Loadable(revocation) /\ RevOnFile \in Revocation /\ mem[p].rev \in Revocation
         /\ RevOnFile.revoked \subseteq mem[p].rev.revoked
         /\ \A a \in Attribute : RevOnFile.epochs[a] <= mem[p].rev.epochs[a]
<1>1. mem[p].cmd.op \in {"revokeAttribute", "revokeUser"}
  BY WhoIsWhere
<1>2. Loadable(revocation)
  BY <1>1 DEF Current, CurrentRevocation, Runs
<1>3. RevOnFile \in Revocation /\ mem[p].rev \in Revocation
  BY <1>2, NamesType, TypeParts, MemoryParts
<1>4. \/ mem[p].rev = [RevOnFile EXCEPT !.epochs[mem[p].cmd.attribute] = @ + 1]
      \/ mem[p].rev = [RevOnFile EXCEPT !.revoked = @ \cup {mem[p].cmd.user}]
  BY <1>1 DEF Current, CurrentRevocation, Runs
<1> QED
  BY <1>2, <1>3, <1>4 DEF Revocation

LEMMA BindingSaved ==
  ASSUME TypeOK, Turns, Current, Revoked, NEW p \in Process, StepOf(p),
         pc'[p] = "fillRevocation"
  PROVE  Binding(mem[p].rev)'
<1>1. Step(p) \/ Crash(p)
  BY Begins DEF StepOf
<1>2. pc[p] = "saveRevocation" /\ mem'[p].rev = mem[p].rev
  BY <1>1, GoesOn
<1>3. Binding(mem[p].rev)
  BY <1>2, ListGrows, BindingGrows DEF Revoked
<1>4. audit' = audit /\ keys' = keys
  BY <1>2, WhoWrites
<1> QED
  BY <1>2, <1>3, <1>4 DEF Binding, OnFile, Readable, Names

LEMMA TakesEffectNext ==
  ASSUME TypeOK, Turns, Current, Revoked, NEW p \in Process, StepOf(p), pc'[p] # "idle"
  PROVE  TakesEffect(p)'
<1>1. CASE \E c \in Command : Begin(p, c)
  BY <1>1, Begins DEF TakesEffect, Runs
<1>2. CASE Step(p) \/ Crash(p)
  <2>0. mem'[p].cmd = mem[p].cmd /\ mem \in [Process -> Memory] /\ TakesEffect(p)
    BY <1>2, GoesOn DEF TypeOK, Revoked
  <2>1. CASE mem[p].cmd.op \notin {"revokeAttribute", "revokeUser"}
    BY <2>0, <2>1 DEF TakesEffect, Runs
  <2>2. CASE mem[p].cmd.op \in {"revokeAttribute", "revokeUser"}
    <3>1. pc[p] \in {"openRevocation", "saveRevocation", "fillRevocation"} /\ keys' = keys
      BY <1>2, <2>2, GoesOn, WhoWrites DEF StepOf
    <3>2. CASE pc[p] = "openRevocation"
      <4>1. /\ mem[p].cmd.op = "revokeAttribute" => BumpEpoch(p)
            /\ mem[p].cmd.op = "revokeUser" => ListUser(p)
        BY <1>2, <2>2, <3>2, WhichStep DEF OpenForTags, RetagPolicy, BumpEpoch, ListUser, At
      <4>2. Loadable(revocation) /\ RevOnFile \in Revocation /\ Binding(RevOnFile)
        BY <2>2, <4>1, NamesType DEF BumpEpoch, ListUser, Revoked
      <4>3. CASE mem[p].cmd.op = "revokeAttribute"
        <5>1. mem'[p].rev = [RevOnFile EXCEPT !.epochs[mem[p].cmd.attribute] = @ + 1]
          BY <2>0, <4>1, <4>3 DEF BumpEpoch, Memory, RevOnFile
        <5>2. mem[p].cmd.attribute \in Attribute
          BY <3>2, <4>3, TypeParts, MemoryParts, CommandParts
        <5>3. ASSUME NEW u \in User, OnFile(u), NEW x \in Names(keys[u].val),
                     x[1] = mem[p].cmd.attribute
              PROVE  x[2] < mem'[p].rev.epochs[x[1]]
          <6>1. x \in Tag
            BY <5>3, NamesType
          <6>2. x[2] \in Nat
            BY <6>1 DEF Tag
          <6>3. x[2] <= RevOnFile.epochs[x[1]]
            BY <4>2, <5>3 DEF Binding
          <6> QED
            BY <4>2, <5>1, <5>2, <5>3, <6>2, <6>3 DEF Revocation
        <5> QED
          BY <2>0, <3>1, <4>3, <5>3 DEF TakesEffect, Runs, OnFile, Readable, Names
      <4>4. CASE mem[p].cmd.op = "revokeUser"
        <5>1. mem'[p].rev = [RevOnFile EXCEPT !.revoked = @ \cup {mem[p].cmd.user}]
          BY <2>0, <4>1, <4>4 DEF ListUser, Memory, RevOnFile
        <5> QED
          BY <2>0, <4>2, <4>4, <5>1 DEF TakesEffect, Runs, Revocation
      <4> QED
        BY <2>2, <4>3, <4>4
    <3>3. CASE pc[p] # "openRevocation"
      <4>1. mem'[p].rev = mem[p].rev
        BY <1>2, <3>3, GoesOn
      <4> QED
        BY <2>0, <2>2, <3>1, <3>3, <4>1 DEF TakesEffect, Runs, OnFile, Readable, Names
    <3> QED
      BY <3>2, <3>3
  <2> QED
    BY <2>1, <2>2
<1> QED
  BY <1>1, <1>2 DEF StepOf

\* Names that a command claims bear the epochs of the list on file, names of
\* the key that it merges older ones.
LEMMA KeyInTimeNext ==
  ASSUME TypeOK, Turns, Current, Revoked, NEW p \in Process, StepOf(p), pc'[p] # "idle"
  PROVE  KeyInTime(p)'
<1> SUFFICES ASSUME Runs(p, "issue", {"fillKey"})'
             PROVE  /\ Loadable(revocation)'
                    /\ mem'[p].cmd.user \notin RevOnFile'.revoked
                    /\ \A x \in Names(mem'[p].key) : x[2] <= RevOnFile'.epochs[x[1]]
  BY DEF KeyInTime, Names
<1>1. Step(p) \/ Crash(p)
  BY Begins DEF StepOf, Runs
<1>2. /\ mem'[p].cmd = mem[p].cmd /\ mem'[p].key = mem[p].key
      /\ pc[p] = "saveKey" /\ mem[p].cmd.op = "issue"
  BY <1>1, GoesOn DEF Runs
<1>3. revocation' = revocation /\ RevOnFile' = RevOnFile
  BY <1>2, WhoWrites DEF RevOnFile, Loaded, Default
<1>4. /\ Loadable(revocation) /\ mem[p].rev = RevOnFile
      /\ MayIssue(p) /\ mem[p].names = Claimed(p)
      /\ Names(mem[p].key) = MergedNames(p)
  BY <1>2 DEF Current, CurrentRevocation, CurrentKey, Runs
<1>5. mem[p].cmd.user \notin RevOnFile.revoked
  BY <1>4 DEF MayIssue, RevOnFile
<1>6. ASSUME NEW x \in Names(mem[p].key)
      PROVE  x[2] <= RevOnFile.epochs[x[1]]
  <2>1. CASE x \in Claimed(p)
    <3>1. x[2] = RevOnFile.epochs[x[1]]
      BY <1>4, <2>1 DEF Claimed, TagAll, TagOf
    <3>2. x \in Tag /\ RevOnFile \in Revocation
      BY <1>4, NamesType
    <3> QED
      BY <3>1, <3>2 DEF Tag, Revocation
  <2>2. CASE x \notin Claimed(p)
    <3>1. mem[p].cmd.user \in User
      BY <1>2, TypeParts, MemoryParts, CommandParts
    <3>2. OnFile(mem[p].cmd.user) /\ x \in Names(keys[mem[p].cmd.user].val)
      BY <1>4, <2>2 DEF MergedNames, OnFile
    <3> QED
      BY <1>4, <3>1, <3>2 DEF Revoked, Binding
  <2> QED
    BY <2>1, <2>2
<1> QED
  BY <1>2, <1>3, <1>4, <1>5, <1>6 DEF Loadable, Readable

LEMMA AuditTypedNext ==
  ASSUME TypeOK, AuditTyped, NEW p \in Process, StepOf(p)
  PROVE  AuditTyped'
<1> SUFFICES ASSUME NEW e \in audit'
             PROVE  /\ e.action = "REVOKE_ATTRIBUTE" => e.attribute \in Attribute /\ e.epoch \in Nat
                    /\ e.action = "REVOKE_USER" => e.user \in User
                    /\ e.action = "ISSUE_KEY" => e.user \in User
  BY DEF AuditTyped
<1>1. CASE e \in audit
  BY <1>1 DEF AuditTyped
<1>2. CASE pc[p] = "record" /\ e = EventOf(p)
  BY <1>2, EventIs
<1> QED
  BY <1>1, <1>2, AuditAfter

LEMMA KeysOlderNext ==
  ASSUME TypeOK, Turns, Current, Revoked, NEW p \in Process, StepOf(p)
  PROVE  KeysOlder'
<1> SUFFICES ASSUME NEW e \in audit', NEW u \in User, e.action = "REVOKE_ATTRIBUTE",
                    OnFile(u)', keys'[u].val.r < e.cmd,
                    NEW x \in Names(keys'[u].val), x[1] = e.attribute
             PROVE  x[2] < e.epoch
  BY DEF KeysOlder, Names
<1>1. CASE OnFile(u) /\ keys'[u] = keys[u]
  <2>1. CASE e \in audit
    BY <1>1, <2>1 DEF Revoked, KeysOlder
  <2>2. CASE pc[p] = "record" /\ e = EventOf(p)
    <3>1. /\ mem[p].cmd.op = "revokeAttribute" /\ e.attribute = mem[p].cmd.attribute
          /\ e.epoch = mem[p].rev.epochs[e.attribute]
      BY <2>2, EventIs
    <3>2. TakesEffect(p)
      BY DEF Revoked
    <3> QED
      BY <1>1, <2>2, <3>1, <3>2 DEF TakesEffect, Runs
  <2> QED
    BY <2>1, <2>2, AuditAfter
<1>2. CASE pc[p] = "fillKey" /\ mem[p].cmd.op = "issue" /\ keys'[u] = Holding(mem[p].key)
  <2>1. keys'[u].val.r = clock /\ clock \in Nat
    <3>1. mem[p].key.r = mem[p].id
      BY <1>2 DEF Current, CurrentKey, Runs
    <3>2. mem[p].id = clock /\ clock \in Nat
      BY <1>2 DEF Turns, Active, TypeOK
    <3> QED
      BY <1>2, <3>1, <3>2 DEF Holding
  <2>2. e \in audit
    BY <1>2, AuditAfter
  <2>3. e.cmd \in 0 .. clock
    BY <2>2 DEF Revoked, Numbered
  <2> QED
    BY <2>1, <2>3
<1>3. \/ OnFile(u) /\ keys'[u] = keys[u]
      \/ pc[p] = "fillKey" /\ mem[p].cmd.op = "issue" /\ keys'[u] = Holding(mem[p].key)
  BY KeysAfter
<1> QED
  BY <1>1, <1>2, <1>3

LEMMA PoliciesYoungerNext ==
  ASSUME TypeOK, Turns, Current, Revoked, NEW p \in Process, StepOf(p)
  PROVE  PoliciesYounger'
<1> SUFFICES ASSUME NEW e \in audit', NEW k \in packages', e.action = "REVOKE_ATTRIBUTE",
                    e.cmd < k.id, NEW i \in DOMAIN k.policy, NEW x \in k.policy[i],
                    x[1] = e.attribute
             PROVE  x[2] >= e.epoch
  BY DEF PoliciesYounger
<1>0. clock \in Nat
  BY DEF TypeOK
<1>1. CASE k \in packages
  <2>1. CASE e \in audit
    BY <1>1, <2>1 DEF Revoked, PoliciesYounger
  <2>2. CASE pc[p] = "record" /\ e = EventOf(p)
    <3>1. e.cmd = clock
      BY <2>2, EventIs DEF Turns, Active
    <3>2. k.id \in 0 .. clock
      BY <1>1 DEF Revoked, Numbered
    <3> QED
      BY <1>0, <3>1, <3>2
  <2> QED
    BY <2>1, <2>2, AuditAfter
<1>2. CASE pc[p] = "seal" /\ mem[p].cmd.op = "encrypt" /\ k = mem[p].pkg
  <2>1. e \in audit
    BY <1>2, AuditAfter
  <2>2. Loadable(revocation) /\ k.policy = Retag(RevOnFile, mem[p].cmd.policy)
    BY <1>2 DEF Current, CurrentRevocation, Runs
  <2>3. x[2] = RevOnFile.epochs[x[1]]
    BY <2>2 DEF Retag, TagAll, TagOf
  <2>4. RevOnFile.epochs[e.attribute] >= e.epoch
    BY <2>1, <2>2 DEF Revoked, Binding
  <2> QED
    BY <2>3, <2>4
<1> QED
  BY <1>1, <1>2, PackagesAfter

LEMMA RevokedUserNext ==
  ASSUME TypeOK, Turns, Current, Revoked, NEW p \in Process, StepOf(p)
  PROVE  RevokedUserGetsNoKey'
<1> SUFFICES ASSUME NEW e \in audit', e.action = "REVOKE_USER", OnFile(e.user)'
             PROVE  keys'[e.user].val.r < e.cmd
  BY DEF RevokedUserGetsNoKey
<1>0. AuditTyped' /\ clock \in Nat
  BY AuditTypedNext DEF Revoked, TypeOK
<1> DEFINE u == e.user
<1>1. u \in User
  BY <1>0 DEF AuditTyped
<1>2. CASE OnFile(u) /\ keys'[u] = keys[u]
  <2>1. CASE e \in audit
    BY <1>2, <2>1 DEF Revoked, RevokedUserGetsNoKey
  <2>2. CASE pc[p] = "record" /\ e = EventOf(p)
    <3>1. e.cmd = clock /\ mem[p].cmd.op = "revokeUser"
      BY <2>2, EventIs DEF Turns, Active
    <3>2. keys[u].val.r \in 0 .. clock /\ keys[u].val.r # clock
      BY <1>1, <1>2, <2>2, <3>1 DEF Revoked, Numbered
    <3> QED
      BY <1>0, <1>2, <3>1, <3>2
  <2> QED
    BY <2>1, <2>2, AuditAfter
<1>3. CASE pc[p] = "fillKey" /\ mem[p].cmd.op = "issue" /\ mem[p].cmd.user = u
  <2>1. e \in audit
    BY <1>3, AuditAfter
  <2>2. Loadable(revocation) /\ u \notin RevOnFile.revoked
    BY <1>3 DEF Revoked, KeyInTime, Runs
  <2> QED
    BY <2>1, <2>2 DEF Revoked, Binding
<1>4. \/ OnFile(u) /\ keys'[u] = keys[u]
      \/ pc[p] = "fillKey" /\ mem[p].cmd.op = "issue" /\ mem[p].cmd.user = u
  BY <1>1, KeysAfter
<1> QED
  BY <1>2, <1>3, <1>4

\* What revocations have to do with files and records stays as it is.
LEMMA RevokedNext ==
  ASSUME TypeOK, Turns, Current, Revoked, OneAtATime', NEW p \in Process, StepOf(p)
  PROVE  Revoked'
<1>1. \A q \in Process : pc'[q] = "idle" => (TakesEffect(q) /\ KeyInTime(q))'
  BY DEF TakesEffect, KeyInTime, Runs
<1>2. \A q \in Process \ {p} : pc'[q] = "idle"
  BY OthersIdle DEF Turns
<1>3. \A q \in Process : (TakesEffect(q) /\ KeyInTime(q))'
  BY <1>1, <1>2, TakesEffectNext, KeyInTimeNext
<1>4. \A q \in Process : pc'[q] = "fillRevocation" => Binding(mem[q].rev)'
  BY <1>2, BindingSaved
<1>5. AuditTyped' /\ Numbered'
  BY AuditTypedNext, NumberedNext DEF Revoked
<1>6. Loadable(revocation)' => Binding(RevOnFile)'
  BY BindingNext
<1> QED
  BY <1>3, <1>4, <1>5, <1>6, KeysOlderNext, PoliciesYoungerNext, RevokedUserNext DEF Revoked

-----------------------------------------------------------------------------
(* Acknowledged grants are not lost.                                       *)

LEMMA GivenNext ==
  ASSUME TypeOK, Turns, Current, Given, Revoked, OneAtATime', NEW p \in Process, StepOf(p)
  PROVE  Given'
<1> SUFFICES ASSUME crashed' = {}, NEW e \in audit', e.action = "ISSUE_KEY"
             PROVE  \/ OnFile(e.user)' /\ e.names \subseteq Names(keys'[e.user].val)
                    \/ \E q \in Process : /\ Runs(q, "issue", {"fillKey"})'
                                          /\ mem'[q].cmd.user = e.user
                                          /\ e.names \subseteq Names(mem'[q].key)
  BY DEF Given, Names
<1> DEFINE u == e.user
<1>0. u \in User /\ crashed = {}
  BY AuditTypedNext, WhoWrites DEF Revoked, AuditTyped
<1>1. CASE pc[p] = "record" /\ e = EventOf(p)
  <2>1. mem[p].cmd.op = "issue" /\ u = mem[p].cmd.user /\ e.names = Names(mem[p].key)
    BY <1>1, EventIs
  <2>2. keys[u] = Holding(mem[p].key) /\ keys' = keys
    BY <1>1, <2>1, WhoWrites DEF Current, CurrentKey, Runs
  <2> QED
    BY <2>1, <2>2 DEF OnFile, Readable, Holding
<1>2. CASE e \in audit /\ OnFile(u) /\ e.names \subseteq Names(keys[u].val)
  <2>1. CASE keys'[u] = keys[u]
    BY <1>2, <2>1 DEF OnFile, Readable
  <2>2. CASE keys'[u] # keys[u]
    <3>1. pc[p] \in {"saveKey", "fillKey"} /\ pc'[p] # "idle"
      BY <2>2, WhoWrites, EndsQuietly
    <3>2. Step(p) \/ Crash(p)
      BY <3>1 DEF StepOf, Begin
    <3>3. keys \in [User -> File(Key)] /\ mem[p].cmd.op = "issue" /\ mem[p].cmd.user \in User
      BY <3>1, WhoIsWhere, TypeParts, MemoryParts, CommandParts DEF TypeOK
    <3>4. CASE pc[p] = "fillKey"
      <4>1. mem[p].cmd.user = u
        <5>1. keys' = [keys EXCEPT ![mem[p].cmd.user] = Holding(mem[p].key)]
          BY <3>1, <3>2, <3>4, WhichStep, FillsCleanly
        <5> QED
          BY <1>0, <2>2, <3>3, <5>1
      <4> QED
        BY <1>2, <3>4, <4>1 DEF Turns, OnFile, Readable, Empty
    <3>5. CASE pc[p] = "saveKey"
      <4>1. mem[p].cmd.user = u
        <5>1. keys' = [keys EXCEPT ![mem[p].cmd.user] = Empty]
          BY <3>1, <3>2, <3>5, WhichStep DEF TruncateKey
        <5> QED
          BY <1>0, <2>2, <3>3, <5>1
      <4>2. Names(mem[p].key) = MergedNames(p)
        BY <3>3, <3>5 DEF Current, CurrentKey, Runs
      <4>3. e.names \subseteq Names(mem[p].key)
        BY <1>2, <4>1, <4>2 DEF MergedNames, OnFile
      <4>4. pc'[p] = "fillKey" /\ mem'[p].cmd = mem[p].cmd /\ mem'[p].key = mem[p].key
        BY <3>1, <3>2, <3>3, <3>5, GoesOn
      <4> QED
        BY <3>3, <4>1, <4>3, <4>4 DEF Runs
    <3> QED
      BY <3>1, <3>4, <3>5
  <2> QED
    BY <2>1, <2>2
<1>3. CASE \E q \in Process : /\ Runs(q, "issue", {"fillKey"}) /\ mem[q].cmd.user = u
                              /\ e.names \subseteq Names(mem[q].key)
  <2>1. \A q \in Process \ {p} : pc[q] = "idle"
    BY OthersIdle DEF Turns
  <2>2. /\ pc[p] = "fillKey" /\ mem[p].cmd.op = "issue" /\ mem[p].cmd.user = u
        /\ e.names \subseteq Names(mem[p].key)
    BY <1>3, <2>1 DEF Runs
  <2>3. pc'[p] # "idle"
    BY <2>2, EndsQuietly
  <2>4. FillKey(p)
    BY <2>2, <2>3, WhichStep DEF StepOf, Begin
  <2>5. keys'[u] = Holding(mem[p].key)
    BY <1>0, <2>2, <2>4, FillsCleanly DEF TypeOK
  <2> QED
    BY <2>2, <2>5 DEF OnFile, Readable, Holding
<1>4. e \in audit => \/ OnFile(u) /\ e.names \subseteq Names(keys[u].val)
                     \/ \E q \in Process : /\ Runs(q, "issue", {"fillKey"})
                                           /\ mem[q].cmd.user = u
                                           /\ e.names \subseteq Names(mem[q].key)
  BY <1>0 DEF Given
<1> QED
  BY <1>1, <1>2, <1>3, <1>4, AuditAfter

-----------------------------------------------------------------------------
(* The invariant, and what follows from it.                                *)

LEMMA SerialInit == Init => SerialInv
<1> SUFFICES ASSUME Init PROVE SerialInv
  OBVIOUS
<1>0. /\ \A p \in Process : pc[p] = "idle"
      /\ \A u \in User : keys[u] = Absent /\ ~ OnFile(u)
      /\ packages = {} /\ audit = {} /\ setup = Absent /\ revocation = Absent /\ clock = 0
      /\ ~ Readable(setup) /\ RevOnFile = Default
  BY DEF Init, OnFile, Readable, Absent, RevOnFile, Loaded
<1>1. Turns
  BY <1>0, BoundAssumption DEF Turns, OneAtATime, Active
<1>2. Current
  BY <1>0 DEF Current, CurrentRegistry, CurrentRevocation, CurrentKey, Runs
<1>3. Covers(NoBundle)
  BY <1>0 DEF Covers, HasBundle, Runs, Single, NoBundle
<1>4. Coherent
  BY <1>3, BlankType DEF Coherent
<1>5. Revoked
  BY <1>0 DEF Revoked, AuditTyped, Numbered, Binding, TakesEffect, KeyInTime, KeysOlder,
              PoliciesYounger, RevokedUserGetsNoKey, Runs, Active
<1>6. Given
  BY <1>0 DEF Given
<1> QED
  BY <1>1, <1>2, <1>4, <1>5, <1>6 DEF SerialInv

LEMMA SerialNext ==
  ASSUME TypeOK, SerialInv, [Next /\ FreshSetup /\ OneAtATime']_vars
  PROVE  SerialInv'
<1>1. CASE Next /\ FreshSetup /\ OneAtATime'
  <2>1. PICK p \in Process : StepOf(p)
    BY <1>1 DEF Next, StepOf
  <2> QED
    BY <1>1, <2>1, TurnsNext, CurrentNext, CoherentNext, RevokedNext, GivenNext DEF SerialInv
<1>2. CASE UNCHANGED vars
  <2>1. UNCHANGED <<setup, registry, revocation, keys, packages, audit, pc, mem, clock, crashed>>
    BY <1>2 DEF vars, disk
  <2>2. RevOnFile' = RevOnFile
    BY <2>1 DEF RevOnFile, Loaded, Default
  <2>3. Turns'
    BY <2>1 DEF SerialInv, Turns, OneAtATime, Active
  <2>4. Current'
    <3>0. \A q \in Process : CurrentRegistry(q) /\ CurrentRevocation(q) /\ CurrentKey(q)
      BY DEF SerialInv, Current
    <3>1. ASSUME NEW q \in Process PROVE CurrentRegistry(q)'
      BY <2>1, <3>0 DEF CurrentRegistry, Runs, Loadable, Readable, Loaded, Entry
    <3>2. ASSUME NEW q \in Process PROVE CurrentRevocation(q)'
      <4>1. (MayIssue(q)' <=> MayIssue(q)) /\ Claimed(q)' = Claimed(q)
        BY <2>1, SameClaims
      <4>2. Retag(RevOnFile, mem[q].cmd.policy)' = Retag(RevOnFile, mem[q].cmd.policy)
        BY <2>1, <2>2 DEF Retag, TagAll, TagOf
      <4>3. (Loadable(revocation)' <=> Loadable(revocation)) /\ mem'[q] = mem[q] /\ pc'[q] = pc[q]
        BY <2>1 DEF Loadable, Readable
      <4> QED
        BY <2>1, <2>2, <3>0, <4>1, <4>2, <4>3 DEF CurrentRevocation, Runs
    <3>3. ASSUME NEW q \in Process PROVE CurrentKey(q)'
      <4>1. MergedNames(q)' = MergedNames(q) /\ Names(mem[q].key)' = Names(mem[q].key)
        BY <2>1 DEF MergedNames, Names, Readable
      <4> QED
        BY <2>1, <3>0, <4>1 DEF CurrentKey, Runs, OnFile, Readable
    <3> QED
      BY <3>1, <3>2, <3>3 DEF Current
  <2>5. Coherent'
    BY <2>1 DEF SerialInv, Coherent, Covers, HasBundle, Runs, Single, Within, Unused, OnFile,
       Readable, Names
  <2>6. Revoked'
    BY <2>1, <2>2 DEF SerialInv, Revoked, AuditTyped, Numbered, Binding, TakesEffect, KeyInTime,
       KeysOlder, PoliciesYounger, RevokedUserGetsNoKey, Runs, Active, OnFile, Readable, Loadable,
       Names
  <2>7. Given'
    BY <2>1 DEF SerialInv, Given, Runs, OnFile, Readable, Names
  <2> QED
    BY <2>3, <2>4, <2>5, <2>6, <2>7 DEF SerialInv
<1> QED
  BY <1>1, <1>2

LEMMA SerialAlways == SerialSpec => [](TypeOK /\ SerialInv)
<1>1. Init => TypeOK /\ SerialInv
  BY InitType, SerialInit
<1>2. TypeOK /\ SerialInv /\ [Next /\ FreshSetup /\ OneAtATime']_vars => (TypeOK /\ SerialInv)'
  <2>1. [Next /\ FreshSetup /\ OneAtATime']_vars => [Next]_vars
    OBVIOUS
  <2> QED
    BY <2>1, NextType, SerialNext
<1> QED
  BY <1>1, <1>2, PTL DEF SerialSpec

LEMMA NamesAreKnown ==
  ASSUME TypeOK, SerialInv
  PROVE  NamesStayKnown
<1> SUFFICES ASSUME NEW p \in Process, pc[p] = "mergeKey"
             PROVE  MergedNames(p) \subseteq Names(mem[p].pp)
  BY DEF NamesStayKnown
<1>1. PICK b \in Bundle : Covers(b)
  BY DEF SerialInv, Coherent
<1>2. mem[p].cmd.op = "issue" /\ mem[p].cmd.user \in User
  BY WhoIsWhere, TypeParts, MemoryParts, CommandParts
<1>3. Within(b, mem[p].pp) /\ mem[p].names \subseteq Names(mem[p].pp)
  BY <1>1, <1>2 DEF Covers, HasBundle, Runs
<1>4. OnFile(mem[p].cmd.user) => Within(keys[mem[p].cmd.user].val, b)
  BY <1>1, <1>2 DEF Covers
<1> QED
  BY <1>3, <1>4 DEF MergedNames, OnFile, Within, Names

\* `recombine` settles on the first alternative that the key satisfies, and on
\* it key and package have the same commitments.
LEMMA SatisfiedOpens ==
  ASSUME NEW b, Single(b.attrs), NEW key, NEW pkg \in Package,
         Within(key, b), Within(pkg, b), Satisfied(pkg.policy, Names(key))
  PROVE  Opens(key, pkg)
<1> DEFINE S == {i \in DOMAIN pkg.policy : pkg.policy[i] \subseteq Names(key)}
<1>1. pkg.policy \in Seq(SUBSET Tag)
  BY DEF Package
<1>2. DOMAIN pkg.policy = 1 .. Len(pkg.policy) /\ Len(pkg.policy) \in Nat
  BY <1>1
<1>3. S \in SUBSET Nat /\ S # {}
  BY <1>2 DEF Satisfied
<1>4. PICK i \in S : \A j \in S : i <= j
  BY <1>3, LeastElement
<1>5. ASSUME NEW j \in 1 .. (i - 1), pkg.policy[j] \subseteq Names(key)
      PROVE  FALSE
  <2>1. i \in 1 .. Len(pkg.policy)
    BY <1>2, <1>4
  <2>2. j \in 1 .. Len(pkg.policy) /\ j < i
    BY <1>2, <2>1
  <2>3. j \in S
    BY <1>2, <1>5, <2>2
  <2>4. i <= j
    BY <1>4, <2>3
  <2> QED
    BY <2>1, <2>2, <2>4
<1>6. \A c \in key.attrs, d \in pkg.attrs : c.name = d.name => c.t = d.t
  BY DEF Within, Single
<1>7. key.master = pkg.master
  BY DEF Within
<1> QED
  BY <1>4, <1>5, <1>6, <1>7 DEF Opens

LEMMA SatisfiedDecrypts ==
  ASSUME TypeOK, SerialInv
  PROVE  DecryptsIfSatisfied
<1>1. PICK b \in Bundle : Covers(b)
  BY DEF SerialInv, Coherent
<1> SUFFICES ASSUME NEW u \in User, NEW k \in packages, OnFile(u),
                    Satisfied(k.policy, Names(keys[u].val))
             PROVE  Opens(keys[u].val, k)
  BY DEF DecryptsIfSatisfied
<1>2. Single(b.attrs) /\ Within(keys[u].val, b) /\ Within(k, b) /\ k \in Package
  BY <1>1 DEF Covers, TypeOK
<1> QED
  BY <1>2, SatisfiedOpens

LEMMA RevocationsBite ==
  ASSUME TypeOK, SerialInv
  PROVE  RevocationBites
<1> SUFFICES ASSUME NEW e \in audit, NEW u \in User, NEW k \in packages,
                    e.action = "REVOKE_ATTRIBUTE", OnFile(u),
                    keys[u].val.r < e.cmd, e.cmd < k.id,
                    NEW i \in DOMAIN k.policy, NEW x \in k.policy[i], x[1] = e.attribute,
                    k.policy[i] \subseteq Names(keys[u].val)
             PROVE  FALSE
  BY DEF RevocationBites
<1>1. x[2] < e.epoch
  BY DEF SerialInv, Revoked, KeysOlder
<1>2. x[2] >= e.epoch
  BY DEF SerialInv, Revoked, PoliciesYounger
<1>3. x \in Tag /\ e.epoch \in Nat
  BY NamesType DEF SerialInv, Revoked, AuditTyped
<1> QED
  BY <1>1, <1>2, <1>3 DEF Tag

LEMMA RevocationsHold ==
  ASSUME SerialInv
  PROVE  AcknowledgedRevocationsHold /\ RevokedUserGetsNoKey
BY DEF SerialInv, Revoked, Binding, RevOnFile, AcknowledgedRevocationsHold

LEMMA GrantsHold ==
  ASSUME SerialInv
  PROVE  UninterruptedGrantsHold
<1> SUFFICES ASSUME crashed = {}, NEW e \in audit, e.action = "ISSUE_KEY", OnFile(e.user)
             PROVE  e.names \subseteq Names(keys[e.user].val)
  BY DEF UninterruptedGrantsHold, AcknowledgedGrantsHold
<1>1. \A p \in Process : ~ (pc[p] = "fillKey" /\ mem[p].cmd.user = e.user)
  BY DEF SerialInv, Turns, OnFile, Readable, Empty
<1> QED
  BY <1>1 DEF SerialInv, Given, Runs

-----------------------------------------------------------------------------
(* The theorems.  In each of them commands take turns, but any of them may *)
(* stop at any of its file accesses.                                       *)

\* A key on file opens every stored package whose policy its names satisfy:
\* cmd_decrypt never fails on a key that register_attribute, save_setup and
\* keygen made along the way of one setup.
THEOREM DecryptionWorks == SerialSpec => []DecryptsIfSatisfied
BY SerialAlways, SatisfiedDecrypts, PTL

\* keygen never fails on a name that the key on file has, whichever command
\* was interrupted between save_setup and save_user_key.
THEOREM ReissueWorks == SerialSpec => []NamesStayKnown
BY SerialAlways, NamesAreKnown, PTL

\* A key minted before an acknowledged revoke-attribute satisfies no policy
\* encrypted after it by way of the revoked attribute (revoke_attribute and
\* retag_tree).
THEOREM OldKeysCutOff == SerialSpec => []RevocationBites
BY SerialAlways, RevocationsBite, PTL

\* An acknowledged revocation is in revocation.json for good, as long as the
\* file loads (revoke_attribute and revoke_user save over the list they loaded).
THEOREM RevocationsStay == SerialSpec => []AcknowledgedRevocationsHold
BY SerialAlways, RevocationsHold, PTL

\* cmd_issue never mints a key for a user whose revocation is acknowledged.
THEOREM RevokedUserRefused == SerialSpec => []RevokedUserGetsNoKey
BY SerialAlways, RevocationsHold, PTL

\* A key on file has every name that an ISSUE_KEY record acknowledged, unless
\* a command was interrupted (cmd_issue merges the key it replaces).
THEOREM GrantsStay == SerialSpec => []UninterruptedGrantsHold
BY SerialAlways, GrantsHold, PTL

-----------------------------------------------------------------------------
(* The refinement of AccessControl.  Of all steps of a command, the        *)
(* truncation of a file is the one that matters (for encrypt and decrypt,  *)
(* the one that stores the package, the plaintext or the record of the     *)
(* refusal).  Filling the file changes nothing, and stopping before it     *)
(* loses what the file was about to hold.                                  *)

-----------------------------------------------------------------------------
(* What is in force, in terms of the one command that is running.          *)

Fills(label) == \E p \in Process : pc[p] = label

LEMMA FilesThatFill ==
  ASSUME Turns
  PROVE  /\ Filling(setup, "fillSetup") = {p \in Process : pc[p] = "fillSetup"}
         /\ Filling(registry, "fillRegistry") = {p \in Process : pc[p] = "fillRegistry"}
         /\ Filling(revocation, "fillRevocation") = {p \in Process : pc[p] = "fillRevocation"}
BY DEF Filling, Turns

DownIs ==
  /\ Down \subseteq {"setup", "registry", "revocation"}
  /\ "setup" \in Down <=> ~ (Readable(setup) \/ Fills("fillSetup"))
  /\ "registry" \in Down <=> ~ (Loadable(registry) \/ Fills("fillRegistry"))
  /\ "revocation" \in Down <=> ~ (Loadable(revocation) \/ Fills("fillRevocation"))
RegistryIs ==
  /\ Loadable(registry) => RegistryInForce = Loaded(registry, {})
  /\ \A p \in Process : pc[p] = "fillRegistry" => RegistryInForce = mem[p].reg
  /\ ~ Loadable(registry) /\ ~ Fills("fillRegistry") => RegistryInForce = {}
RevocationIs ==
  /\ Loadable(revocation) => RevocationInForce = RevOnFile
  /\ \A p \in Process : pc[p] = "fillRevocation" => RevocationInForce = mem[p].rev
  /\ ~ Loadable(revocation) /\ ~ Fills("fillRevocation") => RevocationInForce = Default
NamesAre ==
  \A u \in User :
    /\ OnFile(u) => NamesOf(u) = Names(keys[u].val)
    /\ \A p \in Process :
         pc[p] = "fillKey" /\ mem[p].cmd.user = u => NamesOf(u) = Names(mem[p].key)
    /\ ~ OnFile(u) /\ (\A p \in Process : ~ (pc[p] = "fillKey" /\ mem[p].cmd.user = u)) =>
         NamesOf(u) = {}

LEMMA WhatIsDown ==
  ASSUME Turns
  PROVE  DownIs
<1>1. /\ Available(setup, "fillSetup") <=> Loadable(setup) \/ Fills("fillSetup")
      /\ Available(registry, "fillRegistry") <=> Loadable(registry) \/ Fills("fillRegistry")
      /\ Available(revocation, "fillRevocation") <=> Loadable(revocation) \/ Fills("fillRevocation")
  BY FilesThatFill DEF Available, Fills
<1>2. setup # Absent /\ (Loadable(setup) \/ Fills("fillSetup"))
        <=> Readable(setup) \/ Fills("fillSetup")
  BY DEF Loadable, Readable, Fills, Turns, Absent, Empty
<1> QED
  BY <1>1, <1>2 DEF Down, DownIs

LEMMA WhatRegistry ==
  ASSUME Turns
  PROVE  RegistryIs
<1>1. Loadable(registry) => RegistryInForce = Loaded(registry, {})
  BY DEF RegistryInForce
<1>2. ASSUME NEW p \in Process, pc[p] = "fillRegistry"
      PROVE  RegistryInForce = mem[p].reg
  <2>1. ~ Loadable(registry)
    BY <1>2 DEF Turns, Loadable, Readable, Empty, Absent
  <2>2. Filling(registry, "fillRegistry") = {p}
    BY <1>2, FilesThatFill DEF Turns, OneAtATime
  <2> QED
    BY <2>1, <2>2 DEF RegistryInForce
<1>3. ~ Loadable(registry) /\ ~ Fills("fillRegistry") => RegistryInForce = {}
  BY FilesThatFill DEF Fills, RegistryInForce
<1> QED
  BY <1>1, <1>2, <1>3 DEF RegistryIs

LEMMA WhatRevocation ==
  ASSUME Turns
  PROVE  RevocationIs
<1>1. Loadable(revocation) => RevocationInForce = RevOnFile
  BY DEF RevocationInForce, RevOnFile
<1>2. ASSUME NEW p \in Process, pc[p] = "fillRevocation"
      PROVE  RevocationInForce = mem[p].rev
  <2>1. ~ Loadable(revocation)
    BY <1>2 DEF Turns, Loadable, Readable, Empty, Absent
  <2>2. Filling(revocation, "fillRevocation") = {p}
    BY <1>2, FilesThatFill DEF Turns, OneAtATime
  <2> QED
    BY <2>1, <2>2 DEF RevocationInForce
<1>3. ~ Loadable(revocation) /\ ~ Fills("fillRevocation") => RevocationInForce = Default
  BY FilesThatFill DEF Fills, RevocationInForce
<1> QED
  BY <1>1, <1>2, <1>3 DEF RevocationIs

LEMMA WhichNames ==
  ASSUME Turns
  PROVE  NamesAre
<1> SUFFICES ASSUME NEW u \in User
             PROVE  /\ OnFile(u) => NamesOf(u) = Names(keys[u].val)
                    /\ \A p \in Process : pc[p] = "fillKey" /\ mem[p].cmd.user = u =>
                         NamesOf(u) = Names(mem[p].key)
                    /\ ~ OnFile(u)
                         /\ (\A p \in Process : ~ (pc[p] = "fillKey" /\ mem[p].cmd.user = u)) =>
                       NamesOf(u) = {}
  BY DEF NamesAre
<1> DEFINE fillers == {q \in Filling(keys[u], "fillKey") : mem[q].cmd.user = u}
<1>1. NamesOf(u) = IF OnFile(u) THEN Names(keys[u].val) ELSE UNION {Names(mem[p].key) : p \in fillers}
  BY DEF NamesOf
<1>2. fillers = {p \in Process : pc[p] = "fillKey" /\ mem[p].cmd.user = u}
  BY DEF Filling, Turns
<1>3. ASSUME NEW p \in Process, pc[p] = "fillKey", mem[p].cmd.user = u
      PROVE  NamesOf(u) = Names(mem[p].key)
  <2>1. ~ OnFile(u)
    BY <1>3 DEF Turns, OnFile, Readable, Empty
  <2>2. fillers = {p}
    BY <1>2, <1>3 DEF Turns, OneAtATime
  <2> HIDE DEF fillers
  <2> QED
    BY <1>1, <2>1, <2>2
<1>4. (\A p \in Process : ~ (pc[p] = "fillKey" /\ mem[p].cmd.user = u)) => fillers = {}
  BY <1>2
<1> HIDE DEF fillers
<1> QED
  BY <1>1, <1>3, <1>4

\* ... now and in the next state.
LEMMA InForce == Turns => DownIs /\ RegistryIs /\ RevocationIs /\ NamesAre
BY WhatIsDown, WhatRegistry, WhatRevocation, WhichNames
LEMMA InForceNext == Turns' => DownIs' /\ RegistryIs' /\ RevocationIs' /\ NamesAre'
BY InForce, PTL

-----------------------------------------------------------------------------
(* What each step leaves in force.                                         *)

\* A step of p in a deployment whose commands take turns.
Turn(p) == TypeOK /\ TypeOK' /\ SerialInv /\ SerialInv' /\ StepOf(p)

LEMMA OnlyFiller ==
  ASSUME NEW p \in Process, Turn(p)
  PROVE  /\ \A q \in Process \ {p} : pc[q] = "idle" /\ pc'[q] = "idle"
         /\ \A l \in Label \ {"idle"} : (Fills(l) <=> pc[p] = l) /\ (Fills(l)' <=> pc'[p] = l)
<1>1. \A q \in Process \ {p} : pc[q] = "idle" /\ pc'[q] = "idle"
  BY OthersIdle DEF Turn, SerialInv, Turns
<1> QED
  BY <1>1 DEF Fills

\* Only a step from its save point moves a command to a fill point.
LEMMA FillFollowsSave ==
  ASSUME NEW p \in Process, Turn(p)
  PROVE  /\ pc'[p] = "fillSetup" => pc[p] = "saveSetup"
         /\ pc'[p] = "fillRegistry" => pc[p] = "saveRegistry"
         /\ pc'[p] = "fillRevocation" => pc[p] = "saveRevocation"
         /\ pc'[p] = "fillKey" => pc[p] = "saveKey"
<1>1. CASE \E c \in Command : Begin(p, c)
  BY <1>1, Begins DEF Turn
<1>2. CASE Step(p) \/ Crash(p)
  BY <1>2, GoesOn DEF Turn
<1> QED
  BY <1>1, <1>2 DEF Turn, StepOf

\* The action of a command that goes on from a save or fill point.
LEMMA Goes ==
  ASSUME NEW p \in Process, Turn(p), pc[p] # "idle"
  PROVE  Step(p) \/ Crash(p)
BY DEF Turn, StepOf, Begin

LEMMA SetupKept ==
  ASSUME NEW p \in Process, Turn(p),
         pc[p] = "saveSetup" => pc'[p] = "idle", pc[p] = "fillSetup" => pc'[p] # "idle"
  PROVE  ("setup" \in Down)' <=> "setup" \in Down
<1>1. /\ "setup" \in Down <=> ~ (Readable(setup) \/ pc[p] = "fillSetup")
      /\ ("setup" \in Down)' <=> ~ (Readable(setup)' \/ pc'[p] = "fillSetup")
  BY InForce, InForceNext, OnlyFiller DEF Turn, SerialInv, DownIs, Label
<1>2. pc'[p] # "fillSetup"
  BY FillFollowsSave
<1>3. CASE pc[p] # "fillSetup"
  <2>1. setup' = setup
    BY <1>3, WhoWrites, EndsQuietly DEF Turn
  <2> QED
    BY <1>1, <1>2, <1>3, <2>1 DEF Readable
<1>4. CASE pc[p] = "fillSetup"
  <2>1. FillSetup(p)
    BY <1>4, Goes, WhichStep DEF Turn
  <2>2. setup' = Holding(mem[p].pp)
    BY <2>1, FillsCleanly DEF Turn, SerialInv
  <2>3. Readable(setup)'
    BY <2>2 DEF Readable, Holding
  <2> QED
    BY <1>1, <1>4, <2>3
<1> QED
  BY <1>3, <1>4

LEMMA RegistryKept ==
  ASSUME NEW p \in Process, Turn(p),
         pc[p] = "saveRegistry" => pc'[p] = "idle", pc[p] = "fillRegistry" => FillRegistry(p)
  PROVE  /\ ("registry" \in Down)' <=> "registry" \in Down
         /\ RegistryInForce' = RegistryInForce
<1>1. /\ "registry" \in Down <=> ~ (Loadable(registry) \/ pc[p] = "fillRegistry")
      /\ ("registry" \in Down)' <=> ~ (Loadable(registry)' \/ pc'[p] = "fillRegistry")
      /\ ~ Loadable(registry) /\ pc[p] # "fillRegistry" => RegistryInForce = {}
      /\ ~ Loadable(registry)' /\ pc'[p] # "fillRegistry" => RegistryInForce' = {}
  BY InForce, InForceNext, OnlyFiller DEF Turn, SerialInv, DownIs, RegistryIs, Label
<1>2. pc'[p] # "fillRegistry"
  BY FillFollowsSave
<1>3. CASE pc[p] # "fillRegistry"
  <2>1. registry' = registry
    BY <1>3, WhoWrites, EndsQuietly DEF Turn
  <2>2. (Loadable(registry)' <=> Loadable(registry)) /\ Loaded(registry, {})' = Loaded(registry, {})
    BY <2>1 DEF Loadable, Readable, Loaded
  <2>3. Loadable(registry) => RegistryInForce' = RegistryInForce
    BY <2>2, InForce, InForceNext DEF Turn, SerialInv, RegistryIs
  <2> QED
    BY <1>1, <1>2, <1>3, <2>2, <2>3
<1>4. CASE pc[p] = "fillRegistry"
  <2>1. registry' = Holding(mem[p].reg)
    BY <1>4, FillsCleanly DEF Turn, SerialInv
  <2>2. Loadable(registry)' /\ Loaded(registry, {})' = mem[p].reg
    BY <2>1 DEF Loadable, Readable, Holding, Loaded, Absent
  <2>3. RegistryInForce = mem[p].reg /\ RegistryInForce' = Loaded(registry, {})'
    BY <1>4, <2>2, InForce, InForceNext DEF Turn, SerialInv, RegistryIs
  <2> QED
    BY <1>1, <1>4, <2>2, <2>3
<1> QED
  BY <1>3, <1>4

LEMMA RevocationKept ==
  ASSUME NEW p \in Process, Turn(p),
         pc[p] = "saveRevocation" => pc'[p] = "idle", pc[p] = "fillRevocation" => pc'[p] # "idle"
  PROVE  /\ ("revocation" \in Down)' <=> "revocation" \in Down
         /\ RevocationInForce' = RevocationInForce
<1>1. /\ "revocation" \in Down <=> ~ (Loadable(revocation) \/ pc[p] = "fillRevocation")
      /\ ("revocation" \in Down)' <=> ~ (Loadable(revocation)' \/ pc'[p] = "fillRevocation")
      /\ ~ Loadable(revocation) /\ pc[p] # "fillRevocation" => RevocationInForce = Default
      /\ ~ Loadable(revocation)' /\ pc'[p] # "fillRevocation" => RevocationInForce' = Default
  <2>1. Default' = Default
    BY DEF Default
  <2> QED
    BY <2>1, InForce, InForceNext, OnlyFiller DEF Turn, SerialInv, DownIs, RevocationIs, Label
<1>2. pc'[p] # "fillRevocation"
  BY FillFollowsSave
<1>3. CASE pc[p] # "fillRevocation"
  <2>1. revocation' = revocation
    BY <1>3, WhoWrites, EndsQuietly DEF Turn
  <2>2. (Loadable(revocation)' <=> Loadable(revocation)) /\ RevOnFile' = RevOnFile
    BY <2>1 DEF Loadable, Readable, RevOnFile, Loaded, Default
  <2>3. Loadable(revocation) => RevocationInForce' = RevocationInForce
    BY <2>2, InForce, InForceNext DEF Turn, SerialInv, RevocationIs
  <2> QED
    BY <1>1, <1>2, <1>3, <2>2, <2>3
<1>4. CASE pc[p] = "fillRevocation"
  <2>1. FillRevocation(p)
    BY <1>4, Goes, WhichStep DEF Turn
  <2>2. revocation' = Holding(mem[p].rev)
    BY <2>1, FillsCleanly DEF Turn, SerialInv
  <2>3. Loadable(revocation)' /\ RevOnFile' = mem[p].rev
    BY <2>2 DEF Loadable, Readable, Holding, RevOnFile, Loaded, Absent
  <2>4. RevocationInForce = mem[p].rev /\ RevocationInForce' = RevOnFile'
    BY <1>4, <2>3, InForce, InForceNext DEF Turn, SerialInv, RevocationIs
  <2> QED
    BY <1>1, <1>4, <2>3, <2>4
<1> QED
  BY <1>3, <1>4

\* The names of a user whose key file p is neither truncating nor losing.
LEMMA NamesKept ==
  ASSUME NEW p \in Process, Turn(p), NEW u \in User,
         pc[p] = "saveKey" => pc'[p] = "idle" \/ mem[p].cmd.user # u,
         pc[p] = "fillKey" => pc'[p] # "idle" \/ mem[p].cmd.user # u
  PROVE  NamesOf(u)' = NamesOf(u)
<1>0. NamesAre /\ NamesAre' /\ \A q \in Process \ {p} : pc[q] = "idle" /\ pc'[q] = "idle"
  BY InForce, InForceNext, OnlyFiller DEF Turn, SerialInv
<1>a. pc'[p] = "fillKey" => pc[p] = "saveKey" /\ mem'[p].cmd = mem[p].cmd
  BY FillFollowsSave, Goes, GoesOn DEF Turn
<1>1. CASE keys'[u] = keys[u] /\ ~ (pc[p] = "fillKey" /\ mem[p].cmd.user = u)
  <2>1. \A q \in Process : /\ ~ (pc[q] = "fillKey" /\ mem[q].cmd.user = u)
                           /\ ~ (pc'[q] = "fillKey" /\ mem'[q].cmd.user = u)
    BY <1>0, <1>a, <1>1
  <2>2. (OnFile(u)' <=> OnFile(u)) /\ Names(keys[u].val)' = Names(keys[u].val)
    BY <1>1 DEF OnFile, Readable, Names
  <2> QED
    BY <1>0, <2>1, <2>2 DEF NamesAre
<1>2. CASE pc[p] = "fillKey" /\ mem[p].cmd.user = u
  <2>1. FillKey(p) /\ keys \in [User -> File(Key)]
    BY <1>2, Goes, WhichStep DEF Turn, TypeOK
  <2>2. keys'[u] = Holding(mem[p].key)
    BY <1>2, <2>1, FillsCleanly DEF Turn, SerialInv
  <2>3. OnFile(u)' /\ Names(keys[u].val)' = Names(mem[p].key)
    BY <2>2 DEF OnFile, Readable, Holding, Names
  <2> QED
    BY <1>0, <1>2, <2>3 DEF NamesAre
<1>3. CASE keys'[u] # keys[u] /\ ~ (pc[p] = "fillKey" /\ mem[p].cmd.user = u)
  <2>1. pc[p] \in {"saveKey", "fillKey"} /\ pc'[p] # "idle"
    BY <1>3, WhoWrites, EndsQuietly DEF Turn
  <2>2. TruncateKey(p) \/ FillKey(p)
    BY <2>1, Goes, WhichStep DEF Turn
  <2>3. \/ keys' = [keys EXCEPT ![mem[p].cmd.user] = Empty]
        \/ keys' = [keys EXCEPT ![mem[p].cmd.user] = Holding(mem[p].key)]
    BY <2>2, FillsCleanly DEF Turn, SerialInv, TruncateKey
  <2>4. keys \in [User -> File(Key)]
    BY DEF Turn, TypeOK
  <2>5. mem[p].cmd.user = u
    BY <1>3, <2>3, <2>4
  <2> QED
    BY <1>3, <2>1, <2>5
<1> QED
  BY <1>1, <1>2, <1>3

\* The variables of AccessControl that are sets made from packages and records.
AllNames  == [u \in User |-> NamesOf(u)]
Documents == {[id |-> k.id, policy |-> k.policy] : k \in packages}

LEMMA AnswersKept ==
  ASSUME opened' = opened, \A e \in audit' \ audit : e.action # "DECRYPT_DENIED",
         audit \subseteq audit'
  PROVE  Answers' = Answers
<1>1. {x \in audit' : x.action = "DECRYPT_DENIED"} = {x \in audit : x.action = "DECRYPT_DENIED"}
  OBVIOUS
<1> QED
  BY <1>1 DEF Answers

\* Steps that do not leave anything in force.
Quiet(p) ==
  /\ pc[p] \in {"saveSetup", "saveRevocation", "saveRegistry", "saveKey"} => pc'[p] = "idle"
  /\ pc[p] \in {"fillSetup", "fillRevocation", "fillKey"} => pc'[p] # "idle"
  /\ pc[p] = "fillRegistry" => FillRegistry(p)
  /\ packages' = packages /\ Answers' = Answers

LEMMA QuietStutters ==
  ASSUME NEW p \in Process, Turn(p), Quiet(p)
  PROVE  UNCHANGED Promise!vars
<1>1. Down' = Down
  <2>1. /\ Down \subseteq {"setup", "registry", "revocation"}
        /\ Down' \subseteq {"setup", "registry", "revocation"}
    BY InForce, InForceNext DEF Turn, SerialInv, DownIs
  <2>2. "setup" \in Down' <=> "setup" \in Down
    BY SetupKept DEF Quiet
  <2>3. "registry" \in Down' <=> "registry" \in Down
    BY RegistryKept DEF Quiet
  <2>4. "revocation" \in Down' <=> "revocation" \in Down
    BY RevocationKept DEF Quiet
  <2>5. Down' \subseteq Down /\ Down \subseteq Down'
    BY <2>1, <2>2, <2>3, <2>4
  <2> QED
    BY <2>5
<1>2. RegistryInForce' = RegistryInForce /\ RevocationInForce' = RevocationInForce
  BY RegistryKept, RevocationKept DEF Quiet
<1>3. AllNames' = AllNames
  BY NamesKept DEF AllNames, Quiet
<1>4. Documents' = Documents /\ Answers' = Answers
  BY DEF Quiet, Documents
<1> QED
  BY <1>1, <1>2, <1>3, <1>4 DEF Promise!vars, AllNames, Documents

-----------------------------------------------------------------------------
(* The quiet steps: all but truncations, what ends a command before it has *)
(* filled its file, and the results of encrypt and decrypt.                *)

Saves == {"saveSetup", "saveRegistry", "saveRevocation", "saveKey"}
Fillings == {"fillSetup", "fillRegistry", "fillRevocation", "fillKey"}

LEMMA ElsewhereQuiet ==
  ASSUME NEW p \in Process, Turn(p),
         pc[p] \notin Saves \cup Fillings \cup {"seal", "open", "record"}
  PROVE  Quiet(p)
<1>1. packages' = packages /\ opened' = opened /\ audit' = audit
  BY WhoWrites DEF Turn
<1>2. Answers' = Answers
  BY <1>1, AnswersKept
<1> QED
  BY <1>1, <1>2 DEF Quiet, Saves, Fillings

LEMMA EndingQuiet ==
  ASSUME NEW p \in Process, Turn(p), pc[p] \in Saves \cup {"seal", "open"}, pc'[p] = "idle"
  PROVE  Quiet(p)
<1>1. packages' = packages /\ opened' = opened /\ audit' = audit
  BY EndsQuietly DEF Turn, Saves
<1>2. Answers' = Answers
  BY <1>1, AnswersKept
<1> QED
  BY <1>1, <1>2 DEF Quiet, Saves

LEMMA FillingQuiet ==
  ASSUME NEW p \in Process, Turn(p), pc[p] \in Fillings,
         IF pc[p] = "fillRegistry" THEN FillRegistry(p) ELSE pc'[p] # "idle"
  PROVE  Quiet(p)
<1>1. packages' = packages /\ opened' = opened /\ audit' = audit
  BY WhoWrites DEF Turn, Fillings
<1>2. Answers' = Answers
  BY <1>1, AnswersKept
<1> QED
  BY <1>1, <1>2 DEF Quiet, Fillings

-----------------------------------------------------------------------------
(* Truncations.                                                            *)

\* A truncation leaves packages and answers alone.
LEMMA SavingKeeps ==
  ASSUME NEW p \in Process, Turn(p), pc[p] \in Saves \cup Fillings
  PROVE  Documents' = Documents /\ Answers' = Answers
<1>1. packages' = packages /\ opened' = opened /\ audit' = audit
  BY WhoWrites DEF Turn, Saves, Fillings
<1> QED
  BY <1>1, AnswersKept DEF Documents

\* Where a command goes from its save point.
LEMMA SavingFills ==
  ASSUME NEW p \in Process, Turn(p), pc[p] \in Saves, pc'[p] # "idle"
  PROVE  /\ pc[p] = "saveSetup" => pc'[p] = "fillSetup"
         /\ pc[p] = "saveRegistry" => pc'[p] = "fillRegistry"
         /\ pc[p] = "saveRevocation" => pc'[p] = "fillRevocation"
         /\ pc[p] = "saveKey" => pc'[p] = "fillKey"
         /\ mem'[p] = mem[p]
<1>1. Step(p) \/ Crash(p)
  BY Goes DEF Saves
<1>2. pc \in [Process -> Label]
  BY DEF Turn, TypeOK
<1> QED
  BY <1>1, <1>2, WhichStep DEF Turn, Saves, TruncateSetup, TruncateRegistry,
                               TruncateRevocation, TruncateKey, Goto

LEMMA DownParts ==
  ASSUME NEW p \in Process, Turn(p)
  PROVE  /\ Down \subseteq {"setup", "registry", "revocation"}
         /\ Down' \subseteq {"setup", "registry", "revocation"}
BY InForce, InForceNext DEF Turn, SerialInv, DownIs

\* Nobody has a name before the first key.
LEMMA NobodyNamed ==
  ASSUME NEW p \in Process, Turn(p), Unused, pc[p] # "fillKey"
  PROVE  AllNames = [u \in User |-> {}] /\ Documents = {}
<1>1. ASSUME NEW u \in User
      PROVE  NamesOf(u) = {}
  <2>1. ~ OnFile(u)
    BY DEF Unused, OnFile, Readable, Absent
  <2>2. \A q \in Process : pc[q] # "fillKey"
    BY OnlyFiller
  <2> QED
    BY <2>1, <2>2, InForce DEF Turn, SerialInv, NamesAre
<1> QED
  BY <1>1 DEF AllNames, Documents, Unused

LEMMA SetupTruncated ==
  ASSUME NEW p \in Process, Turn(p), pc[p] = "saveSetup", pc'[p] # "idle"
  PROVE  Promise!Create \/ UNCHANGED Promise!vars
<1>1. Documents' = Documents /\ Answers' = Answers
  BY SavingKeeps DEF Saves
<1>2. /\ RegistryInForce' = RegistryInForce /\ ("registry" \in Down' <=> "registry" \in Down)
  BY RegistryKept
<1>3. RevocationInForce' = RevocationInForce /\ ("revocation" \in Down' <=> "revocation" \in Down)
  BY RevocationKept
<1>4. AllNames' = AllNames
  BY NamesKept DEF AllNames
<1>5. pc'[p] = "fillSetup"
  BY SavingFills DEF Saves
<1>6. "setup" \notin Down'
  BY <1>5, InForceNext DEF Turn, SerialInv, DownIs, Fills
<1>7. "setup" \in Down <=> ~ Readable(setup)
  BY InForce, OnlyFiller DEF Turn, SerialInv, DownIs, Label
<1>8. PICK b \in Bundle : HasBundle(p, b)
  BY DEF Turn, SerialInv, Coherent, Covers
<1>9. CASE mem[p].cmd.op = "setup"
  <2>1. ~ Readable(setup) /\ Unused
    BY <1>8, <1>9 DEF HasBundle, Runs
  <2>2. AllNames = [u \in User |-> {}] /\ Documents = {}
    BY <2>1, NobodyNamed
  <2>3. Down' \subseteq Down \ {"setup"} /\ Down \ {"setup"} \subseteq Down'
    BY <1>2, <1>3, <1>6, DownParts
  <2>4. Down' = Down \ {"setup"}
    BY <2>3
  <2>5. Promise!Unused
    BY <2>2 DEF Promise!Unused, AllNames, Documents
  <2> QED
    BY <1>1, <1>2, <1>3, <1>4, <1>7, <2>1, <2>4, <2>5 DEF Promise!Create, AllNames, Documents
<1>10. CASE mem[p].cmd.op # "setup"
  <2>1. Readable(setup)
    BY <1>8, <1>10, WhoIsWhere DEF HasBundle, Runs, Turn
  <2>2. Down' \subseteq Down /\ Down \subseteq Down'
    BY <1>2, <1>3, <1>6, <1>7, <2>1, DownParts
  <2>3. Down' = Down
    BY <2>2
  <2> QED
    BY <1>1, <1>2, <1>3, <1>4, <2>3 DEF Promise!vars, AllNames, Documents
<1> QED
  BY <1>9, <1>10

LEMMA RegistryTruncated ==
  ASSUME NEW p \in Process, Turn(p), pc[p] = "saveRegistry", pc'[p] # "idle"
  PROVE  \/ Promise!Clear
         \/ \E c \in Running("register") : Promise!Register(Entry(c))
<1>1. Documents' = Documents /\ Answers' = Answers
  BY SavingKeeps DEF Saves
<1>2. "setup" \in Down' <=> "setup" \in Down
  BY SetupKept
<1>3. RevocationInForce' = RevocationInForce /\ ("revocation" \in Down' <=> "revocation" \in Down)
  BY RevocationKept
<1>4. AllNames' = AllNames
  BY NamesKept DEF AllNames
<1>5. pc'[p] = "fillRegistry" /\ mem'[p] = mem[p]
  BY SavingFills DEF Saves
<1>6. "registry" \notin Down' /\ RegistryInForce' = mem[p].reg
  BY <1>5, InForceNext DEF Turn, SerialInv, DownIs, RegistryIs, Fills
<1>7. Down' \subseteq Down \ {"registry"} /\ Down \ {"registry"} \subseteq Down'
  BY <1>2, <1>3, <1>6, DownParts
<1>8. Down' = Down \ {"registry"}
  BY <1>7
<1>9. CASE mem[p].cmd.op = "setup"
  <2>1. PICK b \in Bundle : HasBundle(p, b)
    BY DEF Turn, SerialInv, Coherent, Covers
  <2>2. Readable(setup) /\ Unused
    BY <1>9, <2>1 DEF HasBundle, Runs
  <2>3. Promise!Unused
    BY <2>2, NobodyNamed DEF Promise!Unused, AllNames, Documents
  <2>4. "setup" \notin Down
    BY <2>2, InForce DEF Turn, SerialInv, DownIs
  <2>5. mem[p].reg = {}
    BY <1>9 DEF Turn, SerialInv, Current, CurrentRegistry, Runs
  <2> QED
    BY <1>1, <1>3, <1>4, <1>6, <1>8, <2>3, <2>4, <2>5 DEF Promise!Clear, AllNames, Documents
<1>10. CASE mem[p].cmd.op # "setup"
  <2>1. mem[p].cmd.op = "register"
    BY <1>10, WhoIsWhere DEF Turn
  <2>2. mem[p].cmd \in Running("register")
    BY <2>1 DEF Running, Turn, SerialInv, Turns, Active
  <2>3. /\ Loadable(registry)
        /\ mem[p].reg = {e \in Loaded(registry, {}) : e.name # mem[p].cmd.authority}
                          \cup {Entry(mem[p].cmd)}
    BY <2>1 DEF Turn, SerialInv, Current, CurrentRegistry, Runs
  <2>4. RegistryInForce = Loaded(registry, {}) /\ "registry" \notin Down
    BY <2>3, OnlyFiller, InForce DEF Turn, SerialInv, RegistryIs, DownIs, Label
  <2>5. RegistryInForce' = {x \in RegistryInForce : x.name # Entry(mem[p].cmd).name}
                             \cup {Entry(mem[p].cmd)}
    BY <1>6, <2>3, <2>4 DEF Entry
  <2>6. Down' = Down
    BY <1>8, <2>4
  <2>7. Promise!Register(Entry(mem[p].cmd))
    BY <1>1, <1>3, <1>4, <2>4, <2>5, <2>6 DEF Promise!Register, AllNames, Documents
  <2> QED
    BY <2>2, <2>7
<1> QED
  BY <1>9, <1>10

LEMMA RevocationTruncated ==
  ASSUME NEW p \in Process, Turn(p), pc[p] = "saveRevocation", pc'[p] # "idle"
  PROVE  \/ \E a \in Attribute : Promise!RevokeAttribute(a)
         \/ \E u \in User : Promise!RevokeUser(u)
<1>1. Documents' = Documents /\ Answers' = Answers
  BY SavingKeeps DEF Saves
<1>2. "setup" \in Down' <=> "setup" \in Down
  BY SetupKept
<1>3. RegistryInForce' = RegistryInForce /\ ("registry" \in Down' <=> "registry" \in Down)
  BY RegistryKept
<1>4. AllNames' = AllNames
  BY NamesKept DEF AllNames
<1>5. pc'[p] = "fillRevocation" /\ mem'[p] = mem[p]
  BY SavingFills DEF Saves
<1>6. "revocation" \notin Down' /\ RevocationInForce' = mem[p].rev
  BY <1>5, InForceNext DEF Turn, SerialInv, DownIs, RevocationIs, Fills
<1>7. mem[p].cmd.op \in {"revokeAttribute", "revokeUser"} /\ mem[p].cmd \in CommandLine
  BY WhoIsWhere, TypeParts, MemoryParts DEF Turn
<1>8. /\ Loadable(revocation)
      /\ mem[p].cmd.op = "revokeAttribute" =>
           mem[p].rev = [RevOnFile EXCEPT !.epochs[mem[p].cmd.attribute] = @ + 1]
      /\ mem[p].cmd.op = "revokeUser" =>
           mem[p].rev = [RevOnFile EXCEPT !.revoked = @ \cup {mem[p].cmd.user}]
  BY <1>7 DEF Turn, SerialInv, Current, CurrentRevocation, Runs
<1>9. RevocationInForce = RevOnFile /\ "revocation" \notin Down
  BY <1>8, InForce DEF Turn, SerialInv, RevocationIs, DownIs
<1>10. Down' \subseteq Down /\ Down \subseteq Down'
  BY <1>2, <1>3, <1>6, <1>9, DownParts
<1>11. Down' = Down
  BY <1>10
<1>12. CASE mem[p].cmd.op = "revokeAttribute"
  <2>1. mem[p].cmd.attribute \in Attribute
    BY <1>7, <1>12, CommandParts
  <2>2. Promise!RevokeAttribute(mem[p].cmd.attribute)
    BY <1>1, <1>3, <1>4, <1>6, <1>8, <1>9, <1>11, <1>12
       DEF Promise!RevokeAttribute, AllNames, Documents
  <2> QED
    BY <2>1, <2>2
<1>13. CASE mem[p].cmd.op = "revokeUser"
  <2>1. mem[p].cmd.user \in User
    BY <1>7, <1>13, CommandParts
  <2>2. Promise!RevokeUser(mem[p].cmd.user)
    BY <1>1, <1>3, <1>4, <1>6, <1>8, <1>9, <1>11, <1>13
       DEF Promise!RevokeUser, AllNames, Documents
  <2> QED
    BY <2>1, <2>2
<1> QED
  BY <1>7, <1>12, <1>13

\* The names that issue merges are the new ones and the ones the user has.
LEMMA KeyTruncated ==
  ASSUME NEW p \in Process, Turn(p), pc[p] = "saveKey", pc'[p] # "idle"
  PROVE  \E c \in Running("issue") :
           Promise!Grant([authority |-> c.authority, user |-> c.user, claims |-> c.claims])
<1> DEFINE c == mem[p].cmd
           request == [authority |-> c.authority, user |-> c.user, claims |-> c.claims]
<1>1. Documents' = Documents /\ Answers' = Answers
  BY SavingKeeps DEF Saves
<1>2. "setup" \in Down' <=> "setup" \in Down
  BY SetupKept
<1>3. RegistryInForce' = RegistryInForce /\ ("registry" \in Down' <=> "registry" \in Down)
  BY RegistryKept
<1>4. RevocationInForce' = RevocationInForce /\ ("revocation" \in Down' <=> "revocation" \in Down)
  BY RevocationKept
<1>5. pc'[p] = "fillKey" /\ mem'[p] = mem[p]
  BY SavingFills DEF Saves
<1>6. c.op = "issue" /\ c \in Command /\ c.user \in User
  <2>1. c.op = "issue" /\ c \in Command
    BY WhoIsWhere DEF Turn, SerialInv, Turns, Active
  <2> QED
    BY <2>1, CommandAssumption, CommandParts
<1>7. /\ Loadable(registry) /\ mem[p].reg = Loaded(registry, {})
      /\ Loadable(revocation) /\ mem[p].rev = RevOnFile
      /\ MayIssue(p) /\ mem[p].names = Claimed(p)
      /\ Names(mem[p].key) = MergedNames(p)
  BY <1>6 DEF Turn, SerialInv, Current, CurrentRegistry, CurrentRevocation, CurrentKey, Runs
<1>8. Readable(setup)
  BY DEF Turn, SerialInv, Coherent, Covers, HasBundle
<1>9. RegistryInForce = mem[p].reg /\ RevocationInForce = mem[p].rev
  BY <1>7, InForce DEF Turn, SerialInv, RegistryIs, RevocationIs
<1>10. Down = {}
  BY <1>7, <1>8, InForce DEF Turn, SerialInv, DownIs
<1>11. Down' = {}
  BY <1>2, <1>3, <1>4, <1>10, DownParts
<1>12. c.user \notin RevocationInForce.revoked
  BY <1>7, <1>9 DEF MayIssue, RevOnFile
<1>13. \A claim \in c.claims : \E e \in RegistryInForce :
         e.name = c.authority /\ (e.controls = {} \/ claim.prefix \in e.controls)
  BY <1>7, <1>9 DEF MayIssue, Permitted
<1>14. NamesOf(c.user) = IF OnFile(c.user) THEN Names(keys[c.user].val) ELSE {}
  <2>1. \A q \in Process : pc[q] # "fillKey"
    BY OnlyFiller
  <2> QED
    BY <1>6, <2>1, InForce DEF Turn, SerialInv, NamesAre
<1>15. NamesOf(c.user)' = Names(mem[p].key)
  BY <1>5, <1>6, InForceNext DEF Turn, SerialInv, NamesAre
<1>16. Names(mem[p].key) = NamesOf(c.user) \cup Promise!Tagged(UNION {x.attrs : x \in c.claims})
  BY <1>7, <1>9, <1>14 DEF MergedNames, OnFile, Claimed, TagAll, TagOf, Promise!Tagged
<1>17. \A u \in User \ {c.user} : NamesOf(u)' = NamesOf(u)
  BY NamesKept
<1>18. AllNames' = [AllNames EXCEPT ![c.user] =
                      @ \cup Promise!Tagged(UNION {x.attrs : x \in c.claims})]
  <2> DEFINE new == Promise!Tagged(UNION {x.attrs : x \in c.claims})
  <2>1. \A u \in User : NamesOf(u)' = IF u = c.user THEN NamesOf(u) \cup new ELSE NamesOf(u)
    BY <1>5, <1>15, <1>16, <1>17
  <2>2. AllNames' = [u \in User |-> IF u = c.user THEN NamesOf(u) \cup new ELSE NamesOf(u)]
    BY <2>1 DEF AllNames
  <2> HIDE DEF new
  <2>3. [AllNames EXCEPT ![c.user] = @ \cup new] =
          [u \in User |-> IF u = c.user THEN NamesOf(u) \cup new ELSE NamesOf(u)]
    BY <1>6 DEF AllNames
  <2> QED
    BY <2>2, <2>3 DEF new
<1>19. Promise!Grant(request)
  BY <1>1, <1>3, <1>4, <1>10, <1>11, <1>12, <1>13, <1>18 DEF Promise!Grant, AllNames, Documents
<1>20. c \in Running("issue")
  BY <1>6 DEF Running
<1> QED
  BY <1>19, <1>20

-----------------------------------------------------------------------------
(* Interruptions between a truncation and the fill that follows.           *)

LEMMA FillingLost ==
  ASSUME NEW p \in Process, Turn(p), pc[p] \in Fillings,
         IF pc[p] = "fillRegistry" THEN ~ FillRegistry(p) ELSE pc'[p] = "idle"
  PROVE  /\ pc'[p] = "idle"
         /\ UNCHANGED <<setup, registry, revocation, keys, packages>>
<1>1. CASE pc[p] # "fillRegistry"
  BY <1>1, EndsQuietly DEF Turn, Fillings
<1>2. CASE pc[p] = "fillRegistry"
  <2>1. Step(p) \/ Crash(p)
    BY <1>2, Goes
  <2>2. Crash(p)
    BY <1>2, <2>1 DEF Step, ChangeRevocation, LoadFails, LoadSetup, RegisterAuthority,
         LoadRegistry, OpenForTags, Refuse, AcceptClaims, MergeAndMint, KeygenFails, RetagPolicy,
         BumpEpoch, ListUser, TruncateSetup, FillSetup, TruncateRegistry, TruncateRevocation,
         FillRevocation, TruncateKey, FillKey, PutPackage, LoadKey, Deny, WritePlaintext, Record,
         At
  <2> QED
    BY <2>2 DEF Crash, End, Goto, disk, Turn, TypeOK
<1> QED
  BY <1>1, <1>2

LEMMA SetupLost ==
  ASSUME NEW p \in Process, Turn(p), pc[p] = "fillSetup", pc'[p] = "idle"
  PROVE  Promise!LosePart("setup")
<1>1. Documents' = Documents /\ Answers' = Answers
  BY SavingKeeps DEF Fillings
<1>2. RegistryInForce' = RegistryInForce /\ ("registry" \in Down' <=> "registry" \in Down)
  BY RegistryKept
<1>3. RevocationInForce' = RevocationInForce /\ ("revocation" \in Down' <=> "revocation" \in Down)
  BY RevocationKept
<1>4. AllNames' = AllNames
  BY NamesKept DEF AllNames
<1>5. setup' = setup /\ setup = Empty
  BY FillingLost DEF Fillings, Turn, SerialInv, Turns
<1>6. ~ Readable(setup)' /\ ~ Fills("fillSetup")'
  BY <1>5, OnlyFiller DEF Readable, Empty, Label
<1>7. "setup" \in Down'
  BY <1>6, InForceNext DEF Turn, SerialInv, DownIs
<1>8. Down' \subseteq Down \cup {"setup"} /\ Down \cup {"setup"} \subseteq Down'
  BY <1>2, <1>3, <1>7, DownParts
<1>9. Down' = Down \cup {"setup"}
  BY <1>8
<1> QED
  BY <1>1, <1>2, <1>3, <1>4, <1>9 DEF Promise!LosePart, AllNames, Documents

LEMMA RegistryLost ==
  ASSUME NEW p \in Process, Turn(p), pc[p] = "fillRegistry", ~ FillRegistry(p)
  PROVE  Promise!LosePart("registry")
<1>1. Documents' = Documents /\ Answers' = Answers
  BY SavingKeeps DEF Fillings
<1>2. "setup" \in Down' <=> "setup" \in Down
  BY SetupKept
<1>3. RevocationInForce' = RevocationInForce /\ ("revocation" \in Down' <=> "revocation" \in Down)
  BY RevocationKept
<1>4. AllNames' = AllNames
  BY NamesKept DEF AllNames
<1>5. registry' = registry /\ registry = Empty /\ pc'[p] = "idle"
  BY FillingLost DEF Fillings, Turn, SerialInv, Turns
<1>6. ~ Loadable(registry)' /\ ~ Fills("fillRegistry")'
  BY <1>5, OnlyFiller DEF Loadable, Readable, Empty, Absent, Label
<1>7. "registry" \in Down' /\ RegistryInForce' = {}
  BY <1>6, InForceNext DEF Turn, SerialInv, DownIs, RegistryIs
<1>8. Down' \subseteq Down \cup {"registry"} /\ Down \cup {"registry"} \subseteq Down'
  BY <1>2, <1>3, <1>7, DownParts
<1>9. Down' = Down \cup {"registry"}
  BY <1>8
<1> QED
  BY <1>1, <1>3, <1>4, <1>7, <1>9 DEF Promise!LosePart, AllNames, Documents

LEMMA RevocationLost ==
  ASSUME NEW p \in Process, Turn(p), pc[p] = "fillRevocation", pc'[p] = "idle"
  PROVE  Promise!LosePart("revocation")
<1>1. Documents' = Documents /\ Answers' = Answers
  BY SavingKeeps DEF Fillings
<1>2. "setup" \in Down' <=> "setup" \in Down
  BY SetupKept
<1>3. RegistryInForce' = RegistryInForce /\ ("registry" \in Down' <=> "registry" \in Down)
  BY RegistryKept
<1>4. AllNames' = AllNames
  BY NamesKept DEF AllNames
<1>5. revocation' = revocation /\ revocation = Empty
  BY FillingLost DEF Fillings, Turn, SerialInv, Turns
<1>6. ~ Loadable(revocation)' /\ ~ Fills("fillRevocation")'
  BY <1>5, OnlyFiller DEF Loadable, Readable, Empty, Absent, Label
<1>7. "revocation" \in Down' /\ RevocationInForce' = Default
  BY <1>6, InForceNext DEF Turn, SerialInv, DownIs, RevocationIs, Default
<1>8. Down' \subseteq Down \cup {"revocation"} /\ Down \cup {"revocation"} \subseteq Down'
  BY <1>2, <1>3, <1>7, DownParts
<1>9. Down' = Down \cup {"revocation"}
  BY <1>8
<1>10. Promise!Fresh = Default
  BY DEF Promise!Fresh, Default
<1> QED
  BY <1>1, <1>3, <1>4, <1>7, <1>9, <1>10 DEF Promise!LosePart, AllNames, Documents

LEMMA KeyLost ==
  ASSUME NEW p \in Process, Turn(p), pc[p] = "fillKey", pc'[p] = "idle"
  PROVE  \E u \in User : Promise!LoseNames(u)
<1> DEFINE user == mem[p].cmd.user
<1>1. Documents' = Documents /\ Answers' = Answers
  BY SavingKeeps DEF Fillings
<1>2. "setup" \in Down' <=> "setup" \in Down
  BY SetupKept
<1>3. RegistryInForce' = RegistryInForce /\ ("registry" \in Down' <=> "registry" \in Down)
  BY RegistryKept
<1>4. RevocationInForce' = RevocationInForce /\ ("revocation" \in Down' <=> "revocation" \in Down)
  BY RevocationKept
<1>5. user \in User
  <2>1. mem[p].cmd.op = "issue" /\ mem[p].cmd \in CommandLine
    BY WhoIsWhere, TypeParts, MemoryParts DEF Turn
  <2> QED
    BY <2>1, CommandParts
<1>6. keys' = keys /\ keys[user] = Empty
  BY FillingLost DEF Fillings, Turn, SerialInv, Turns
<1>7. \A q \in Process : pc'[q] = "idle"
  BY OnlyFiller
<1>8. PICK u \in User : u = user
  BY <1>5
<1>9. NamesOf(u)' = {}
  <2>1. ~ OnFile(u)'
    BY <1>6, <1>8 DEF OnFile, Readable, Empty
  <2> QED
    BY <1>7, <2>1, InForceNext DEF Turn, SerialInv, NamesAre
<1>10. \A v \in User \ {u} : NamesOf(v)' = NamesOf(v)
  BY <1>8, NamesKept
<1>11. AllNames' = [AllNames EXCEPT ![u] = {}]
  BY <1>9, <1>10 DEF AllNames
<1>12. Down' \subseteq Down /\ Down \subseteq Down'
  BY <1>2, <1>3, <1>4, DownParts
<1>13. Down' = Down
  BY <1>12
<1>14. Promise!LoseNames(u)
  BY <1>1, <1>3, <1>4, <1>11, <1>13 DEF Promise!LoseNames, AllNames, Documents
<1> QED
  BY <1>14

-----------------------------------------------------------------------------
(* The results of encrypt and decrypt.                                     *)

\* What these steps leave alone.
LEMMA ResultKeeps ==
  ASSUME NEW p \in Process, Turn(p), pc[p] \in {"seal", "open", "record"}
  PROVE  /\ Down' = Down
         /\ RegistryInForce' = RegistryInForce /\ RevocationInForce' = RevocationInForce
         /\ AllNames' = AllNames
<1>1. "setup" \in Down' <=> "setup" \in Down
  BY SetupKept
<1>2. RegistryInForce' = RegistryInForce /\ ("registry" \in Down' <=> "registry" \in Down)
  BY RegistryKept
<1>3. RevocationInForce' = RevocationInForce /\ ("revocation" \in Down' <=> "revocation" \in Down)
  BY RevocationKept
<1>4. AllNames' = AllNames
  BY NamesKept DEF AllNames
<1>5. Down' \subseteq Down /\ Down \subseteq Down'
  BY <1>1, <1>2, <1>3, DownParts
<1> QED
  BY <1>2, <1>3, <1>4, <1>5

LEMMA PackagePut ==
  ASSUME NEW p \in Process, Turn(p), pc[p] = "seal", pc'[p] # "idle"
  PROVE  \E id \in 1 .. MaxCommands, c \in Running("encrypt") : Promise!Publish(id, c.policy)
<1> DEFINE c == mem[p].cmd
           new == [id |-> clock, policy |-> Retag(RevOnFile, c.policy)]
<1>1. PutPackage(p)
  BY Goes, WhichStep DEF Turn
<1>2. packages' = packages \cup {mem[p].pkg} /\ opened' = opened /\ audit' = audit
  BY <1>1 DEF PutPackage
<1>3. c.op = "encrypt"
  BY WhoIsWhere DEF Turn
<1>4. c \in Running("encrypt") /\ clock \in 1 .. MaxCommands /\ mem[p].id = clock
  BY <1>3, BoundAssumption DEF Turn, TypeOK, SerialInv, Turns, Active, Running
<1>5. /\ Loadable(revocation)
      /\ mem[p].pkg.policy = Retag(RevOnFile, c.policy) /\ mem[p].pkg.id = clock
  BY <1>3, <1>4 DEF Turn, SerialInv, Current, CurrentRevocation, CurrentKey, Runs
<1>6. Readable(setup)
  BY DEF Turn, SerialInv, Coherent, Covers, HasBundle
<1>7. "setup" \notin Down /\ "revocation" \notin Down /\ RevocationInForce = RevOnFile
  BY <1>5, <1>6, InForce DEF Turn, SerialInv, DownIs, RevocationIs
<1>8. Down \subseteq {"registry"}
  BY <1>7, DownParts
<1>9. \A k \in packages : k.id # clock
  BY DEF Turn, SerialInv, Revoked, Numbered, Active
<1>10. \A d \in Documents : d.id # clock
  BY <1>9 DEF Documents
<1>11. Retag(RevOnFile, c.policy) = [i \in DOMAIN c.policy |-> Promise!Tagged(c.policy[i])]
  BY <1>7 DEF Retag, TagAll, TagOf, Promise!Tagged
<1>12. Documents' = Documents \cup {new}
  BY <1>2, <1>5 DEF Documents
<1>13. Answers' = Answers
  BY <1>2, AnswersKept
<1>14. PICK id \in 1 .. MaxCommands, x \in Running("encrypt") : id = clock /\ x = c
  BY <1>4
<1>15. Promise!Publish(id, x.policy)
  BY <1>8, <1>10, <1>11, <1>12, <1>13, <1>14, ResultKeeps DEF Promise!Publish, AllNames, Documents
<1> QED
  BY <1>14, <1>15

\* Whatever decrypt is about to answer for, the package is there, and so are
\* setup.json and the key file.
LEMMA AboutToAnswer ==
  ASSUME NEW p \in Process, Turn(p), pc[p] \in {"open", "record"}, mem[p].cmd.op = "decrypt"
  PROVE  /\ mem[p].cmd.user \in User
         /\ [id |-> mem[p].pkg.id, policy |-> mem[p].pkg.policy] \in Documents
         /\ "setup" \notin Down
         /\ NamesOf(mem[p].cmd.user) = Names(mem[p].key)
<1>1. mem[p].cmd.user \in User
  BY TypeParts, MemoryParts, CommandParts, WhoIsWhere DEF Turn
<1>2. /\ mem[p].pkg \in packages
      /\ OnFile(mem[p].cmd.user) /\ mem[p].key = keys[mem[p].cmd.user].val
  BY DEF Turn, SerialInv, Current, CurrentKey, Runs
<1>3. Readable(setup)
  BY DEF Turn, SerialInv, Coherent, Covers, HasBundle, Runs
<1> QED
  BY <1>1, <1>2, <1>3, InForce DEF Turn, SerialInv, DownIs, NamesAre, Documents

LEMMA PlaintextAnswers ==
  ASSUME NEW p \in Process, Turn(p), WritePlaintext(p)
  PROVE  \E u \in User, d \in Documents : Promise!Answer(u, d)
<1> DEFINE user == mem[p].cmd.user
           pkg  == mem[p].pkg
           doc  == [id |-> pkg.id, policy |-> pkg.policy]
<1>1. /\ pc[p] = "open" /\ Opens(mem[p].key, pkg)
      /\ opened' = opened \cup {[user |-> user, pkg |-> pkg, by |-> mem[p].id]}
      /\ audit' = audit /\ packages' = packages
  BY DEF WritePlaintext
<1>2. mem[p].cmd.op = "decrypt"
  BY <1>1, WhoIsWhere DEF Turn
<1>3. user \in User /\ doc \in Documents /\ "setup" \notin Down /\ NamesOf(user) = Names(mem[p].key)
  BY <1>1, <1>2, AboutToAnswer
<1>4. Promise!Satisfied(doc.policy, AllNames[user]) = TRUE
  BY <1>1, <1>3 DEF Opens, Promise!Satisfied, AllNames
<1>5. Answers' = Answers \cup {[user |-> user, id |-> pkg.id, opened |-> TRUE]}
  <2> DEFINE answer(o) == [user |-> o.user, id |-> o.pkg.id, opened |-> TRUE]
             new == [user |-> user, pkg |-> pkg, by |-> mem[p].id]
  <2>1. answer(new) = [user |-> user, id |-> pkg.id, opened |-> TRUE]
    OBVIOUS
  <2>2. {answer(o) : o \in opened \cup {new}} = {answer(o) : o \in opened} \cup {answer(new)}
    <3> HIDE DEF answer, new
    <3> QED
      OBVIOUS
  <2> QED
    BY <1>1, <2>1, <2>2 DEF Answers
<1>6. Documents' = Documents
  BY <1>1 DEF Documents
<1> HIDE DEF user, pkg
<1>7. Promise!Answer(user, doc)
  BY <1>1, <1>3, <1>4, <1>5, <1>6, ResultKeeps DEF Promise!Answer, AllNames, Documents
<1> QED
  BY <1>3, <1>7

\* A refusal: the keys of a deployment open what their names satisfy, so the
\* names did not.
LEMMA RefusalAnswers ==
  ASSUME NEW p \in Process, Turn(p), Record(p), EventOf(p).action = "DECRYPT_DENIED"
  PROVE  \E u \in User, d \in Documents : Promise!Answer(u, d)
<1> DEFINE user == mem[p].cmd.user
           pkg  == mem[p].pkg
           doc  == [id |-> pkg.id, policy |-> pkg.policy]
<1>1. /\ pc[p] = "record" /\ audit' = audit \cup {EventOf(p)}
      /\ opened' = opened /\ packages' = packages
  BY DEF Record
<1>2. /\ mem[p].cmd.op = "decrypt" /\ ~ Opens(mem[p].key, pkg)
      /\ EventOf(p).user = user /\ EventOf(p).pkg = pkg.id
  BY <1>1, EventIs DEF Turn
<1>3. user \in User /\ doc \in Documents /\ "setup" \notin Down /\ NamesOf(user) = Names(mem[p].key)
  BY <1>1, <1>2, AboutToAnswer
<1>4. ~ Promise!Satisfied(pkg.policy, Names(mem[p].key))
  <2>1. PICK b \in Bundle : Covers(b)
    BY DEF Turn, SerialInv, Coherent
  <2>2. /\ pkg \in packages
        /\ OnFile(user) /\ mem[p].key = keys[user].val
    BY <1>1, <1>2 DEF Turn, SerialInv, Current, CurrentKey, Runs
  <2>3. Single(b.attrs) /\ Within(mem[p].key, b) /\ Within(pkg, b) /\ pkg \in Package
    BY <1>3, <2>1, <2>2 DEF Covers, Turn, TypeOK
  <2> QED
    BY <1>2, <2>3, SatisfiedOpens DEF Satisfied, Promise!Satisfied
<1>5. Promise!Satisfied(doc.policy, AllNames[user]) = FALSE
  BY <1>3, <1>4 DEF AllNames
<1>6. Answers' = Answers \cup {[user |-> user, id |-> pkg.id, opened |-> FALSE]}
  BY <1>1, <1>2 DEF Answers
<1>7. Documents' = Documents
  BY <1>1 DEF Documents
<1> HIDE DEF user, pkg
<1>8. Promise!Answer(user, doc)
  BY <1>1, <1>3, <1>5, <1>6, <1>7, ResultKeeps DEF Promise!Answer, AllNames, Documents
<1> QED
  BY <1>3, <1>8

-----------------------------------------------------------------------------
(* The refinement.                                                         *)

\* The starting state of a deployment is one of AccessControl.
LEMMA PromiseInit == Init => Promise!Init
<1> SUFFICES ASSUME Init
             PROVE  Promise!Init
  OBVIOUS
<1>1. Turns
  BY SerialInit DEF SerialInv
<1>2. \A p \in Process : pc[p] = "idle"
  BY DEF Init
<1>3. Down \subseteq {"setup"} /\ {"setup"} \subseteq Down
  BY <1>1, <1>2, InForce DEF Init, DownIs, Fills, Readable, Loadable, Absent
<1>4. Down = {"setup"}
  BY <1>3
<1>5. RegistryInForce = {}
  BY DEF Init, RegistryInForce, Loadable, Loaded, Absent
<1>6. RevocationInForce = Promise!Fresh
  BY DEF Init, RevocationInForce, Loadable, Loaded, Absent, Default, Promise!Fresh
<1>7. \A u \in User : NamesOf(u) = {}
  BY <1>1, <1>2, InForce DEF Init, NamesAre, OnFile, Readable, Absent
<1>8. packages = {} /\ Answers = {}
  BY DEF Init, Answers
<1> QED
  BY <1>4, <1>5, <1>6, <1>7, <1>8 DEF Promise!Init

\* Every step of a command is one step of AccessControl or none.
LEMMA PromiseStep ==
  ASSUME NEW p \in Process, Turn(p)
  PROVE  Promise!Next \/ UNCHANGED Promise!vars
<1>0. CASE Quiet(p)
  BY <1>0, QuietStutters
<1>1. CASE pc[p] \in Saves /\ pc'[p] # "idle"
  <2>1. CASE pc[p] = "saveSetup"
    BY <1>1, <2>1, SetupTruncated DEF Promise!Next
  <2>2. CASE pc[p] = "saveRegistry"
    BY <1>1, <2>2, RegistryTruncated DEF Promise!Next
  <2>3. CASE pc[p] = "saveRevocation"
    BY <1>1, <2>3, RevocationTruncated DEF Promise!Next
  <2>4. CASE pc[p] = "saveKey"
    BY <1>1, <2>4, KeyTruncated DEF Promise!Next
  <2> QED
    BY <1>1, <2>1, <2>2, <2>3, <2>4 DEF Saves
<1>2. CASE pc[p] \in Fillings /\ ~ Quiet(p)
  <2>1. IF pc[p] = "fillRegistry" THEN ~ FillRegistry(p) ELSE pc'[p] = "idle"
    BY <1>2, FillingQuiet
  <2>2. CASE pc[p] = "fillSetup"
    BY <2>1, <2>2, SetupLost DEF Promise!Next
  <2>3. CASE pc[p] = "fillRegistry"
    BY <2>1, <2>3, RegistryLost DEF Promise!Next
  <2>4. CASE pc[p] = "fillRevocation"
    BY <2>1, <2>4, RevocationLost DEF Promise!Next
  <2>5. CASE pc[p] = "fillKey"
    BY <2>1, <2>5, KeyLost DEF Promise!Next
  <2> QED
    BY <1>2, <2>2, <2>3, <2>4, <2>5 DEF Fillings
<1>3. CASE pc[p] = "seal" /\ pc'[p] # "idle"
  BY <1>3, PackagePut DEF Promise!Next
<1>4. CASE pc[p] = "open" /\ pc'[p] # "idle" /\ ~ Quiet(p)
  <2>1. Deny(p) \/ WritePlaintext(p)
    BY <1>4, Goes, WhichStep DEF Turn
  <2>2. CASE Deny(p)
    <3>1. packages' = packages /\ opened' = opened /\ audit' = audit
      BY <2>2 DEF Deny, disk
    <3>2. Answers' = Answers
      BY <3>1, AnswersKept
    <3> QED
      BY <1>4, <3>1, <3>2 DEF Quiet
  <2>3. CASE WritePlaintext(p)
    BY <2>3, PlaintextAnswers DEF Promise!Next, Documents
  <2> QED
    BY <2>1, <2>2, <2>3
<1>5. CASE pc[p] = "record" /\ ~ Quiet(p)
  <2>1. packages' = packages /\ opened' = opened /\ audit \subseteq audit'
    <3>1. Step(p) \/ Crash(p)
      BY <1>5, Goes
    <3>2. packages' = packages /\ opened' = opened
      BY <1>5, WhoWrites DEF Turn
    <3>3. audit \subseteq audit'
      BY <1>5, <3>1 DEF Step, ChangeRevocation, LoadFails, LoadSetup, RegisterAuthority,
         LoadRegistry, OpenForTags, Refuse, AcceptClaims, MergeAndMint, KeygenFails, RetagPolicy,
         BumpEpoch, ListUser, TruncateSetup, FillSetup, TruncateRegistry, FillRegistry,
         TruncateRevocation, FillRevocation, TruncateKey, FillKey, PutPackage, LoadKey, Deny,
         WritePlaintext, Record, Crash, At, disk
    <3> QED
      BY <3>2, <3>3
  <2>2. PICK e \in audit' \ audit : e.action = "DECRYPT_DENIED"
    <3>1. Answers' # Answers
      BY <1>5, <2>1 DEF Quiet
    <3> QED
      BY <2>1, <3>1, AnswersKept
  <2>3. Record(p) /\ EventOf(p).action = "DECRYPT_DENIED"
    BY <2>2, AuditAfter DEF Turn
  <2> QED
    BY <2>3, RefusalAnswers DEF Promise!Next, Documents
<1>6. CASE pc[p] \notin Saves \cup Fillings \cup {"seal", "open", "record"}
  BY <1>6, ElsewhereQuiet, QuietStutters
<1>7. CASE pc[p] \in Saves \cup {"seal", "open"} /\ pc'[p] = "idle"
  BY <1>7, EndingQuiet, QuietStutters
<1> QED
  BY <1>0, <1>1, <1>2, <1>3, <1>4, <1>5, <1>6, <1>7

LEMMA PromiseNext ==
  ASSUME TypeOK, TypeOK', SerialInv, SerialInv', [Next /\ FreshSetup /\ OneAtATime']_vars
  PROVE  [Promise!Next]_Promise!vars
<1>1. CASE Next
  <2>1. PICK p \in Process : StepOf(p)
    BY <1>1 DEF Next, StepOf
  <2> QED
    BY <2>1, PromiseStep DEF Turn
<1>2. CASE UNCHANGED vars
  <2>1. UNCHANGED <<setup, registry, revocation, keys, packages, audit, opened, pc, mem>>
    BY <1>2 DEF vars, disk
  <2>2. Down' = Down /\ RegistryInForce' = RegistryInForce
    BY <2>1 DEF Down, RegistryInForce, Available, Filling, Loadable, Loaded, Readable
  <2>3. RevocationInForce' = RevocationInForce
    BY <2>1 DEF RevocationInForce, Filling, Loadable, Loaded, Readable, Default
  <2>4. \A u \in User : NamesOf(u)' = NamesOf(u)
    BY <2>1 DEF NamesOf, OnFile, Filling, Readable, Names
  <2>5. Documents' = Documents /\ Answers' = Answers
    BY <2>1 DEF Documents, Answers
  <2> QED
    BY <2>2, <2>3, <2>4, <2>5 DEF Promise!vars, Documents
<1> QED
  BY <1>1, <1>2

\* Commands that take turns implement AccessControl, for any numbers of users,
\* authorities, commands and interruptions.
THEOREM PromiseKept == SerialSpec => KeepsPromise
<1>1. SerialSpec => Promise!Init
  BY PromiseInit DEF SerialSpec
<1>2. SerialSpec => [](TypeOK /\ SerialInv)
  BY SerialAlways
<1>3. TypeOK /\ SerialInv /\ (TypeOK /\ SerialInv)'
        /\ [Next /\ FreshSetup /\ OneAtATime']_vars => [Promise!Next]_Promise!vars
  BY PromiseNext
<1> QED
  BY <1>1, <1>2, <1>3, PTL DEF SerialSpec, KeepsPromise, Promise!Spec
=============================================================================
