----------------------------- MODULE Deployment -----------------------------
(***************************************************************************)
(* The secure-abe command line over one data directory.                    *)
(*                                                                         *)
(* Every command is an operating-system process that loads the JSON files  *)
(* it needs, computes in memory and writes whole files back.  Nothing      *)
(* locks the directory, and fs::write truncates a file before it fills it, *)
(* so a file read access, a truncation, a fill and an audit append are the *)
(* atomic steps here; whatever a command does between two of them touches  *)
(* only its own memory.                                                    *)
(*                                                                         *)
(* The scheme, the policies and their data are those of AbeModel.          *)
(***************************************************************************)
EXTENDS AbeModel, FiniteSets

CONSTANTS
  Process,      \* processes that may run a command at the same time
  User,         \* names given to --user
  Authority,    \* names given to --name / --authority
  Prefix,       \* attribute-key prefixes, e.g. "department"
  Attribute,    \* flat attribute strings before tagging, e.g. "clearance>=4"
  Command,      \* the command lines operators may run
  MaxCommands,  \* bound: commands started in one behaviour
  MaxCrashes    \* bound: commands that stop early (kill, crash, I/O error)

Tag    == Attribute \X Nat                  \* "clearance>=4@epoch1"
Claim  == [prefix : Prefix, attrs : SUBSET Attribute]
Policy == Seq(SUBSET Attribute \ {{}})

CommandLine ==
  [op : {"setup"}]
    \cup [op : {"register"}, authority : Authority, controls : SUBSET Prefix]
    \cup [op : {"issue"}, authority : Authority, user : User, claims : SUBSET Claim]
    \cup [op : {"encrypt"}, policy : Policy]
    \cup [op : {"decrypt"}, user : User]
    \cup [op : {"revokeAttribute"}, attribute : Attribute]
    \cup [op : {"revokeUser"}, user : User]

ASSUME CommandAssumption == Command \subseteq CommandLine
ASSUME BoundAssumption   == MaxCommands \in Nat /\ MaxCrashes \in Nat

VARIABLES
  setup,       \* setup.json: master secret and attribute commitments
  registry,    \* authorities.json
  revocation,  \* revocation.json
  keys,        \* keys/<user>.json
  packages,    \* packages/<id>/
  audit,       \* the records of audit.log
  opened,      \* plaintext files written by decrypt
  pc, mem,     \* control point and memory of each process
  clock,       \* commands started so far; numbers them and their randomness
  registered,  \* history: every registry entry register-authority has saved
  granted,     \* history: every claim an authority had accepted for a user
  crashed      \* history: commands that stopped early

disk == <<setup, registry, revocation, keys, packages, audit, opened>>
vars == <<disk, pc, mem, clock, registered, granted, crashed>>

-----------------------------------------------------------------------------
(* Files.  Truncated and overlapping writes both leave bytes that no       *)
(* deserializer accepts; only the first can still be filled cleanly.       *)

Absent     == [st |-> "absent"]
Empty      == [st |-> "empty"]
Garbled    == [st |-> "garbled"]
Holding(v) == [st |-> "ok", val |-> v]
Readable(f) == f.st = "ok"
\* `if path.exists() { parse } else { default }`
Loadable(f) == Readable(f) \/ f = Absent
Loaded(f, default) == IF f = Absent THEN default ELSE f.val

\* What `f` may hold after v is written into it.  The writer truncated it
\* before, so a content found now is another process's: the two overlap, and
\* the shorter text may leave a tail of the longer one behind.
Filled(f, v) == IF f = Empty THEN {Holding(v)} ELSE {Holding(v), Garbled}

-----------------------------------------------------------------------------
(* The values the files hold.                                              *)

Default == [epochs |-> [a \in Attribute |-> 0], revoked |-> {}]
NoBundle == [master |-> 0, attrs |-> {}]
NoKey == [master |-> 0, attrs |-> {}, r |-> 0]
NoPackage == [id |-> 0, master |-> 0, attrs |-> {}, policy |-> << >>]
NoCommand == [op |-> "none"]

\* RevocationList::tag
TagOf(rev, a) == <<a, rev.epochs[a]>>
TagAll(rev, A) == {TagOf(rev, a) : a \in A}
\* Mutant of Retag: encrypt forgets the epoch tags.
RetagUntagged(rev, pol) == [i \in DOMAIN pol |-> {<<a, 0>> : a \in pol[i]}]
\* retag_tree
Retag(rev, pol) == [i \in DOMAIN pol |-> TagAll(rev, pol[i])]

\* AuthorityRegistry::check_permission
Permitted(reg, authority, claim) ==
  \E e \in reg : /\ e.name = authority
                 /\ e.controls = {} \/ claim.prefix \in e.controls

-----------------------------------------------------------------------------
(* Processes.                                                              *)

Blank == [cmd |-> NoCommand, id |-> 0, pp |-> NoBundle, reg |-> {},
          rev |-> Default, names |-> {}, key |-> NoKey, pkg |-> NoPackage]

Init ==
  /\ setup = Absent
  /\ registry = Absent
  /\ revocation = Absent
  /\ keys = [u \in User |-> Absent]
  /\ packages = {}
  /\ audit = {}
  /\ opened = {}
  /\ pc = [p \in Process |-> "idle"]
  /\ mem = [p \in Process |-> Blank]
  /\ clock = 0
  /\ registered = {}
  /\ granted = {}
  /\ crashed = {}

At(p, label, ops) == pc[p] = label /\ mem[p].cmd.op \in ops
Goto(p, label) == pc' = [pc EXCEPT ![p] = label]
\* The process ends; its memory is gone.
End(p) == Goto(p, "idle") /\ mem' = [mem EXCEPT ![p] = Blank]

\* A step that only moves a process along and changes its memory.
Private == UNCHANGED <<disk, clock, registered, granted, crashed>>

\* A command starts; its first access to the directory is still to come.
\* `decrypt` names a package that `encrypt` or `list` printed before, and
\* `setup` draws the master secret.
Begin(p, c) ==
  /\ pc[p] = "idle"
  /\ clock < MaxCommands
  /\ clock' = clock + 1
  /\ \E k \in IF c.op = "decrypt" THEN packages ELSE {NoPackage} :
       mem' = [mem EXCEPT ![p] =
                [Blank EXCEPT !.cmd = c, !.id = clock', !.pkg = k,
                   !.pp.master = IF c.op = "setup" THEN clock' ELSE 0]]
  /\ Goto(p, CASE c.op = "setup"    -> "saveSetup"
               [] c.op = "register" -> "loadRegistry"
               [] c.op \in {"issue", "encrypt", "decrypt"} -> "loadSetup"
               [] OTHER -> "openRevocation")
  /\ UNCHANGED <<disk, registered, granted, crashed>>

\* load_setup, load_registry, RevocationList::open and load_user_key return
\* an error to the command, which returns it before it has written anything.
LoadFails(p) ==
  /\ \/ pc[p] = "loadSetup" /\ ~ Readable(setup)
     \/ pc[p] = "loadRegistry" /\ ~ Loadable(registry)
     \/ pc[p] \in {"openRevocation", "checkUser"} /\ ~ Loadable(revocation)
     \/ At(p, "loadKey", {"decrypt"}) /\ ~ Readable(keys[mem[p].cmd.user])
  /\ End(p)
  /\ Private

LoadSetup(p) ==
  /\ pc[p] = "loadSetup"
  /\ Readable(setup)
  /\ mem' = [mem EXCEPT ![p].pp = setup.val]
  /\ Goto(p, CASE mem[p].cmd.op = "issue"   -> "loadRegistry"
               [] mem[p].cmd.op = "encrypt" -> "openRevocation"
               [] OTHER -> "loadKey")
  /\ Private

\* cmd_register_authority: load the registry and replace one entry.
Entry(cmd) == [name |-> cmd.authority, controls |-> cmd.controls]
RegisterAuthority(p) ==
  /\ At(p, "loadRegistry", {"register"})
  /\ Loadable(registry)
  /\ LET cmd == mem[p].cmd
     IN mem' = [mem EXCEPT ![p].reg =
                  {e \in Loaded(registry, {}) : e.name # cmd.authority} \cup {Entry(cmd)}]
  /\ Goto(p, "saveRegistry")
  /\ Private

LoadRegistry(p) ==
  /\ At(p, "loadRegistry", {"issue"})
  /\ Loadable(registry)
  /\ mem' = [mem EXCEPT ![p].reg = Loaded(registry, {})]
  /\ Goto(p, "openRevocation")
  /\ Private

\* cmd_issue opens the revocation list twice; this first copy gives the tags.
OpenForTags(p) ==
  /\ At(p, "openRevocation", {"issue"})
  /\ Loadable(revocation)
  /\ mem' = [mem EXCEPT ![p].rev = Loaded(revocation, Default)]
  /\ Goto(p, "checkUser")
  /\ Private

Claimed(p) == TagAll(mem[p].rev, UNION {c.attrs : c \in mem[p].cmd.claims})
Grants(p) ==
  UNION {{[authority |-> mem[p].cmd.authority, user |-> mem[p].cmd.user,
           prefix |-> c.prefix, name |-> x] : x \in TagAll(mem[p].rev, c.attrs)} :
           c \in mem[p].cmd.claims}
\* Mutants of MayIssue: without is_user_revoked, without check_permission.
MayIssueRevoked(p) ==
  \A c \in mem[p].cmd.claims : Permitted(mem[p].reg, mem[p].cmd.authority, c)
MayIssueAnything(p) == mem[p].cmd.user \notin Loaded(revocation, Default).revoked
MayIssue(p) ==
  /\ mem[p].cmd.user \notin Loaded(revocation, Default).revoked
  /\ \A c \in mem[p].cmd.claims : Permitted(mem[p].reg, mem[p].cmd.authority, c)

\* ... and the second copy decides whether the user is revoked.  A revoked
\* user or a claim the authority does not control ends the command.
Refuse(p) ==
  /\ pc[p] = "checkUser"
  /\ Loadable(revocation)
  /\ ~ MayIssue(p)
  /\ End(p)
  /\ Private

\* Mutant of AcceptClaims: the tags are not registered.
AcceptUnregistered(p) ==
  /\ pc[p] = "checkUser"
  /\ Loadable(revocation)
  /\ MayIssue(p)
  /\ mem' = [mem EXCEPT ![p].names = Claimed(p)]
  /\ granted' = granted \cup Grants(p)
  /\ Goto(p, "mergeKey")
  /\ UNCHANGED <<disk, clock, registered, crashed>>
\* The claims are permitted: tag them and register the tags in memory.
AcceptClaims(p) ==
  /\ pc[p] = "checkUser"
  /\ Loadable(revocation)
  /\ MayIssue(p)
  /\ mem' = [mem EXCEPT ![p].names = Claimed(p),
                        ![p].pp = RegisterAttributes(@, Claimed(p), mem[p].id)]
  /\ granted' = granted \cup Grants(p)
  /\ Goto(p, "mergeKey")
  /\ UNCHANGED <<disk, clock, registered, crashed>>

\* Mutant of MergedNames: the key on file is not merged.
NewNamesOnly(p) == mem[p].names
\* `if let Ok(existing) = load_user_key`: a key that is missing and a key
\* that does not parse both add no names.
MergedNames(p) ==
  LET file == keys[mem[p].cmd.user]
  IN mem[p].names \cup IF Readable(file) THEN Names(file.val) ELSE {}

\* Mutant of MergeAndMint: the save_setup that follows keygen is forgotten.
MintWithoutSaving(p) ==
  /\ pc[p] = "mergeKey"
  /\ MergedNames(p) \subseteq Names(mem[p].pp)
  /\ mem' = [mem EXCEPT ![p].key = Keygen(mem[p].pp, MergedNames(p), mem[p].id)]
  /\ Goto(p, "saveKey")
  /\ Private
\* Merge the names of the key on file and mint one key over the union.
MergeAndMint(p) ==
  /\ pc[p] = "mergeKey"
  /\ MergedNames(p) \subseteq Names(mem[p].pp)
  /\ mem' = [mem EXCEPT ![p].key = Keygen(mem[p].pp, MergedNames(p), mem[p].id)]
  /\ Goto(p, "saveSetup")
  /\ Private

\* keygen returns UnknownAttribute.
KeygenFails(p) ==
  /\ pc[p] = "mergeKey"
  /\ ~ MergedNames(p) \subseteq Names(mem[p].pp)
  /\ End(p)
  /\ Private

\* cmd_encrypt: tag the policy and register its leaves in memory.  Sealing
\* needs nothing else from the directory, so the package is fixed here.
RetagPolicy(p) ==
  /\ At(p, "openRevocation", {"encrypt"})
  /\ Loadable(revocation)
  /\ LET pol == Retag(Loaded(revocation, Default), mem[p].cmd.policy)
         pp  == RegisterAttributes(mem[p].pp, Leaves(pol), mem[p].id)
     IN mem' = [mem EXCEPT ![p].pp = pp,
                           ![p].pkg = SealPackage(pp, pol, mem[p].id)]
  /\ Goto(p, "saveSetup")
  /\ Private

\* revoke_attribute and revoke_user, up to their save.
BumpEpoch(p) ==
  /\ At(p, "openRevocation", {"revokeAttribute"})
  /\ Loadable(revocation)
  /\ mem' = [mem EXCEPT ![p].rev =
               [Loaded(revocation, Default) EXCEPT !.epochs[mem[p].cmd.attribute] = @ + 1]]
  /\ Goto(p, "saveRevocation")
  /\ Private

\* Mutant of ListUser: the list on file is not loaded first.
ListOnlyUser(p) ==
  /\ At(p, "openRevocation", {"revokeUser"})
  /\ mem' = [mem EXCEPT ![p].rev = [Default EXCEPT !.revoked = {mem[p].cmd.user}]]
  /\ Goto(p, "saveRevocation")
  /\ Private
ListUser(p) ==
  /\ At(p, "openRevocation", {"revokeUser"})
  /\ Loadable(revocation)
  /\ mem' = [mem EXCEPT ![p].rev =
               [Loaded(revocation, Default) EXCEPT !.revoked = @ \cup {mem[p].cmd.user}]]
  /\ Goto(p, "saveRevocation")
  /\ Private

-----------------------------------------------------------------------------
(* fs::write in two steps, for each of the four JSON files.                *)

TruncateSetup(p) ==
  /\ pc[p] = "saveSetup"
  /\ setup' = Empty
  /\ Goto(p, "fillSetup")
  /\ UNCHANGED <<registry, revocation, keys, packages, audit, opened,
                 mem, clock, registered, granted, crashed>>

\* Mutant of FillSetup: every command but setup goes on to save a key.
FillSetupThenKey(p) ==
  /\ pc[p] = "fillSetup"
  /\ setup' \in Filled(setup, mem[p].pp)
  /\ Goto(p, IF mem[p].cmd.op = "setup" THEN "saveRegistry" ELSE "saveKey")
  /\ UNCHANGED <<registry, revocation, keys, packages, audit, opened,
                 mem, clock, registered, granted, crashed>>
FillSetup(p) ==
  /\ pc[p] = "fillSetup"
  /\ setup' \in Filled(setup, mem[p].pp)
  /\ Goto(p, CASE mem[p].cmd.op = "setup" -> "saveRegistry"
               [] mem[p].cmd.op = "issue" -> "saveKey"
               [] OTHER -> "seal")
  /\ UNCHANGED <<registry, revocation, keys, packages, audit, opened,
                 mem, clock, registered, granted, crashed>>

TruncateRegistry(p) ==
  /\ pc[p] = "saveRegistry"
  /\ registry' = Empty
  /\ Goto(p, "fillRegistry")
  /\ UNCHANGED <<setup, revocation, keys, packages, audit, opened,
                 mem, clock, registered, granted, crashed>>

\* The last write of register-authority, which keeps no audit record.
FillRegistry(p) ==
  /\ pc[p] = "fillRegistry"
  /\ registry' \in Filled(registry, mem[p].reg)
  /\ IF mem[p].cmd.op = "setup"
       THEN Goto(p, "record") /\ UNCHANGED <<mem, registered>>
       ELSE End(p) /\ registered' = registered \cup {Entry(mem[p].cmd)}
  /\ UNCHANGED <<setup, revocation, keys, packages, audit, opened, clock, granted, crashed>>

TruncateRevocation(p) ==
  /\ pc[p] = "saveRevocation"
  /\ revocation' = Empty
  /\ Goto(p, "fillRevocation")
  /\ UNCHANGED <<setup, registry, keys, packages, audit, opened,
                 mem, clock, registered, granted, crashed>>

FillRevocation(p) ==
  /\ pc[p] = "fillRevocation"
  /\ revocation' \in Filled(revocation, mem[p].rev)
  /\ Goto(p, "record")
  /\ UNCHANGED <<setup, registry, keys, packages, audit, opened,
                 mem, clock, registered, granted, crashed>>

TruncateKey(p) ==
  /\ pc[p] = "saveKey"
  /\ keys' = [keys EXCEPT ![mem[p].cmd.user] = Empty]
  /\ Goto(p, "fillKey")
  /\ UNCHANGED <<setup, registry, revocation, packages, audit, opened,
                 mem, clock, registered, granted, crashed>>

FillKey(p) ==
  /\ pc[p] = "fillKey"
  /\ \E f \in Filled(keys[mem[p].cmd.user], mem[p].key) :
       keys' = [keys EXCEPT ![mem[p].cmd.user] = f]
  /\ Goto(p, "record")
  /\ UNCHANGED <<setup, registry, revocation, packages, audit, opened,
                 mem, clock, registered, granted, crashed>>

-----------------------------------------------------------------------------
(* Packages, decryption and the audit log.                                 *)

\* Mutant of PutPackage: encrypt ends without its audit record.
PutUnrecorded(p) ==
  /\ pc[p] = "seal"
  /\ packages' = packages \cup {mem[p].pkg}
  /\ End(p)
  /\ UNCHANGED <<setup, registry, revocation, keys, audit, opened,
                 clock, registered, granted, crashed>>
\* PackageStore::put under a fresh id.
PutPackage(p) ==
  /\ pc[p] = "seal"
  /\ packages' = packages \cup {mem[p].pkg}
  /\ Goto(p, "record")
  /\ UNCHANGED <<setup, registry, revocation, keys, audit, opened,
                 mem, clock, registered, granted, crashed>>

LoadKey(p) ==
  /\ pc[p] = "loadKey"
  /\ Readable(keys[mem[p].cmd.user])
  /\ mem' = [mem EXCEPT ![p].key = keys[mem[p].cmd.user].val]
  /\ Goto(p, "open")
  /\ Private

\* Mutant of Deny: the branch that refuses writes a plaintext as well.
DenyButWrite(p) ==
  /\ pc[p] = "open"
  /\ ~ Opens(mem[p].key, mem[p].pkg)
  /\ opened' = opened \cup {[user |-> mem[p].cmd.user, pkg |-> mem[p].pkg,
                             by |-> mem[p].id]}
  /\ Goto(p, "record")
  /\ UNCHANGED <<setup, registry, revocation, keys, packages, audit,
                 mem, clock, registered, granted, crashed>>
\* envelope_open fails: only the audit record is left to write.
Deny(p) ==
  /\ pc[p] = "open"
  /\ ~ Opens(mem[p].key, mem[p].pkg)
  /\ Goto(p, "record")
  /\ UNCHANGED <<disk, mem, clock, registered, granted, crashed>>

\* envelope_open succeeds: the plaintext is written before the audit record.
WritePlaintext(p) ==
  /\ pc[p] = "open"
  /\ Opens(mem[p].key, mem[p].pkg)
  /\ opened' = opened \cup {[user |-> mem[p].cmd.user, pkg |-> mem[p].pkg,
                             by |-> mem[p].id]}
  /\ Goto(p, "record")
  /\ UNCHANGED <<setup, registry, revocation, keys, packages, audit,
                 mem, clock, registered, granted, crashed>>

\* The record each command hands to AuditLog::record.
EventOf(p) ==
  LET m == mem[p]
  IN CASE m.cmd.op = "setup"   -> [cmd |-> m.id, action |-> "SETUP"]
       [] m.cmd.op = "issue"   -> [cmd |-> m.id, action |-> "ISSUE_KEY",
                                   actor |-> m.cmd.authority, user |-> m.cmd.user,
                                   names |-> Names(m.key)]
       [] m.cmd.op = "encrypt" -> [cmd |-> m.id, action |-> "ENCRYPT", pkg |-> m.pkg.id]
       [] m.cmd.op = "decrypt" -> [cmd |-> m.id, user |-> m.cmd.user, pkg |-> m.pkg.id,
                                   action |-> IF Opens(m.key, m.pkg) THEN "DECRYPT_SUCCESS"
                                                                     ELSE "DECRYPT_DENIED"]
       [] m.cmd.op = "revokeAttribute" ->
            [cmd |-> m.id, action |-> "REVOKE_ATTRIBUTE", attribute |-> m.cmd.attribute,
             epoch |-> m.rev.epochs[m.cmd.attribute]]
       [] OTHER -> [cmd |-> m.id, action |-> "REVOKE_USER", user |-> m.cmd.user]

Record(p) ==
  /\ pc[p] = "record"
  /\ audit' = audit \cup {EventOf(p)}
  /\ End(p)
  /\ UNCHANGED <<setup, registry, revocation, keys, packages, opened,
                 clock, registered, granted, crashed>>

\* A command is killed, or a read or write of its own returns an I/O error:
\* either way nothing of it is left but what it has already written.
Crash(p) ==
  /\ pc[p] # "idle"
  /\ Cardinality(crashed) < MaxCrashes
  /\ crashed' = crashed \cup {mem[p].id}
  /\ End(p)
  /\ UNCHANGED <<disk, clock, registered, granted>>

\* cmd_revoke_attribute and cmd_revoke_user, until the list is saved.
ChangeRevocation(p) == BumpEpoch(p) \/ ListUser(p)

Step(p) ==
  \/ LoadFails(p) \/ LoadSetup(p) \/ RegisterAuthority(p) \/ LoadRegistry(p)
  \/ OpenForTags(p) \/ Refuse(p) \/ AcceptClaims(p)
  \/ MergeAndMint(p) \/ KeygenFails(p) \/ RetagPolicy(p)
  \/ ChangeRevocation(p)
  \/ TruncateSetup(p) \/ FillSetup(p) \/ TruncateRegistry(p) \/ FillRegistry(p)
  \/ TruncateRevocation(p) \/ FillRevocation(p) \/ TruncateKey(p) \/ FillKey(p)
  \/ PutPackage(p) \/ LoadKey(p) \/ Deny(p) \/ WritePlaintext(p) \/ Record(p)

Next == \E p \in Process : (\E c \in Command : Begin(p, c)) \/ Step(p) \/ Crash(p)

-----------------------------------------------------------------------------
(* How operators use the program.                                          *)

\* Nobody starts a command while another one runs.
OneAtATime == \A p, q \in Process : pc[p] # "idle" /\ pc[q] # "idle" => p = q

\* `setup` is started only in a directory that holds no usable setup.json, no
\* key and no package.  cmd_setup itself checks none of this.
FreshSetup ==
  \A p \in Process :
    pc[p] = "idle" /\ pc'[p] = "saveSetup" =>
      /\ \A q \in Process : pc[q] = "idle"
      /\ ~ Readable(setup)
      /\ packages = {}
      /\ \A u \in User : keys[u] = Absent

Spec       == Init /\ [][Next]_vars
SharedSpec == Init /\ [][Next /\ FreshSetup]_vars
SerialSpec == Init /\ [][Next /\ FreshSetup /\ OneAtATime']_vars

-----------------------------------------------------------------------------
(* Type invariant.                                                         *)

Commitment == [name : Tag, t : Nat]
Bundle     == [master : Nat, attrs : SUBSET Commitment]
Key        == [master : Nat, attrs : SUBSET Commitment, r : Nat]
Package    == [id : Nat, master : Nat, attrs : SUBSET Commitment, policy : Seq(SUBSET Tag)]
Registry   == SUBSET [name : Authority, controls : SUBSET Prefix]
Revocation == [epochs : [Attribute -> Nat], revoked : SUBSET User]
File(S)    == {Absent, Empty, Garbled} \cup [st : {"ok"}, val : S]
Memory     == [cmd : CommandLine \cup {NoCommand}, id : Nat, pp : Bundle, reg : Registry,
               rev : Revocation, names : SUBSET Tag, key : Key, pkg : Package]
Label      == {"idle", "loadSetup", "loadRegistry", "openRevocation", "checkUser",
               "mergeKey", "saveSetup", "fillSetup", "saveRegistry", "fillRegistry",
               "saveRevocation", "fillRevocation", "saveKey", "fillKey", "seal",
               "loadKey", "open", "record"}

\* Which commands reach which control point.
Reaches(op) ==
  CASE op = "setup"    -> {"saveSetup", "fillSetup", "saveRegistry", "fillRegistry", "record"}
    [] op = "register" -> {"loadRegistry", "saveRegistry", "fillRegistry"}
    [] op = "issue"    -> {"loadSetup", "loadRegistry", "openRevocation", "checkUser", "mergeKey",
                           "saveSetup", "fillSetup", "saveKey", "fillKey", "record"}
    [] op = "encrypt"  -> {"loadSetup", "openRevocation", "saveSetup", "fillSetup", "seal",
                           "record"}
    [] op = "decrypt"  -> {"loadSetup", "loadKey", "open", "record"}
    [] op \in {"revokeAttribute", "revokeUser"} ->
         {"openRevocation", "saveRevocation", "fillRevocation", "record"}
    [] OTHER -> {"idle"}

\* Every file, every process memory and every history has its type, and a
\* process is where its command can be.
TypeOK ==
  /\ setup \in File(Bundle)
  /\ registry \in File(Registry)
  /\ revocation \in File(Revocation)
  /\ keys \in [User -> File(Key)]
  /\ packages \subseteq Package
  /\ opened \subseteq [user : User, pkg : Package, by : Nat]
  /\ pc \in [Process -> Label]
  /\ mem \in [Process -> Memory]
  /\ \A p \in Process : pc[p] \in Reaches(mem[p].cmd.op)
  /\ clock \in Nat
  /\ registered \in Registry
  /\ granted \subseteq [authority : Authority, user : User, prefix : Prefix, name : Tag]
  /\ crashed \subseteq Nat

-----------------------------------------------------------------------------
(* Safety.                                                                 *)

OnFile(u) == Readable(keys[u])

\* "Decrypts a previously encrypted package for a given user, if that user's
\* issued key satisfies the package's policy": a key on file that has the
\* names of the policy opens the package, whatever was issued, encrypted,
\* revoked or interrupted between the two.  Key and package only ever share
\* names, so this says that the commitment behind a name never changes
\* (register_attribute, save_setup before save_user_key and before put).
DecryptsIfSatisfied ==
  \A u \in User, k \in packages :
    OnFile(u) /\ Satisfied(k.policy, Names(keys[u].val)) => Opens(keys[u].val, k)

\* Re-minting a key never fails on a name the key already has: cmd_issue saves
\* the attributes before the key that needs them.
NamesStayKnown ==
  \A p \in Process : pc[p] = "mergeKey" => MergedNames(p) \subseteq Names(mem[p].pp)

\* "Newly encrypted documents are tagged with the new epoch and are unreadable
\* by keys minted under the old epoch": a key minted before an acknowledged
\* revoke-attribute satisfies no alternative that mentions the attribute in a
\* policy encrypted after it.
RevocationBites ==
  \A e \in audit, u \in User, k \in packages :
    e.action = "REVOKE_ATTRIBUTE" /\ OnFile(u) /\ keys[u].val.r < e.cmd /\ e.cmd < k.id =>
      \A i \in DOMAIN k.policy :
        (\E x \in k.policy[i] : x[1] = e.attribute) => ~ k.policy[i] \subseteq Names(keys[u].val)

\* A user whose revocation is acknowledged has no key minted since.
RevokedUserGetsNoKey ==
  \A e \in audit :
    e.action = "REVOKE_USER" /\ OnFile(e.user) => keys[e.user].val.r < e.cmd

\* A revocation that was acknowledged in the audit log is in force: no later
\* save of revocation.json undoes it.
AcknowledgedRevocationsHold ==
  Loadable(revocation) =>
    LET rev == Loaded(revocation, Default)
    IN \A e \in audit :
         /\ e.action = "REVOKE_USER" => e.user \in rev.revoked
         /\ e.action = "REVOKE_ATTRIBUTE" => rev.epochs[e.attribute] >= e.epoch

\* "The final key is merged automatically": a key on file has every name that
\* an ISSUE_KEY record says its user was given.
AcknowledgedGrantsHold ==
  \A e \in audit :
    e.action = "ISSUE_KEY" /\ OnFile(e.user) => e.names \subseteq Names(keys[e.user].val)

\* The same as long as no command was interrupted, which may leave the key
\* file truncated for the next issue to start from nothing.
UninterruptedGrantsHold == crashed = {} => AcknowledgedGrantsHold

\* "Newly issued keys are minted under the new epoch": a key written into its
\* file has, of each attribute, only the tag in force.
MintedUnderCurrentEpoch ==
  [][\A u \in User :
       keys'[u] # keys[u] /\ Readable(keys'[u]) =>
         \A x \in Names(keys'[u].val) : x = TagOf(Loaded(revocation, Default), x[1])]_vars

\* What a user is entitled to: names claimed for him by an authority that was
\* at some time registered with control of their prefix.
EntitledTo(u) ==
  {g.name : g \in {h \in granted : h.user = u /\ Permitted(registered, h.authority, h)}}

\* Whoever decrypted a package was entitled to attributes that satisfy its
\* policy at the epochs it was encrypted for: no stale copy of a file, merge,
\* overwrite or interrupted command ever lends a user more.
OpenedByEntitled == \A o \in opened : Satisfied(o.pkg.policy, EntitledTo(o.user))

\* Every key, package and plaintext on disk has its audit record, unless its
\* command is just about to write it or was interrupted before it did.
EffectsRecorded ==
  LET effects == {keys[u].val.r : u \in {v \in User : OnFile(v)}}
                   \cup {k.id : k \in packages} \cup {o.by : o \in opened}
  IN \A n \in effects :
       \/ \E e \in audit : e.cmd = n
       \/ \E p \in Process : pc[p] = "record" /\ mem[p].id = n
       \/ n \in crashed

\* A record never claims what did not happen: the package of an ENCRYPT is
\* stored, a DECRYPT_SUCCESS has written its plaintext and a DECRYPT_DENIED
\* has not, and the names of an ISSUE_KEY are ones its user is entitled to.
RecordsAreTrue ==
  \A e \in audit :
    /\ e.action = "ENCRYPT" => \E k \in packages : k.id = e.pkg
    /\ e.action = "DECRYPT_SUCCESS" => \E o \in opened : o.by = e.cmd
    /\ e.action = "DECRYPT_DENIED" => \A o \in opened : o.by # e.cmd
    /\ e.action = "ISSUE_KEY" => e.names \subseteq EntitledTo(e.user)
=============================================================================
