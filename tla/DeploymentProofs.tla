-------------------------- MODULE DeploymentProofs --------------------------
(***************************************************************************)
(* What holds of every deployment, however many processes overlap and      *)
(* wherever they crash: the type invariant, that whoever opens a package   *)
(* was entitled to it, and what the audit records say of the effects of    *)
(* commands: none is missed, and none is invented.                         *)
(***************************************************************************)
EXTENDS Deployment, TLAPS

-----------------------------------------------------------------------------
(* Lemmas about files and the values they hold.                            *)

\* Writing a value of type S into a file leaves a file of that type
\* (fs::write on any of the four JSON files).
LEMMA FilledType ==
  ASSUME NEW S, NEW f \in File(S), NEW v \in S
  PROVE  Filled(f, v) \subseteq File(S)
BY DEF Filled, File, Holding, Garbled

\* A load that succeeds gives a value of the file's type.
LEMMA LoadedType ==
  ASSUME NEW S, NEW f \in File(S), NEW d \in S
  PROVE  /\ Readable(f) => f.val \in S
         /\ Loadable(f) => Loaded(f, d) \in S
BY DEF File, Readable, Loadable, Loaded, Absent, Empty, Garbled

\* The values a process starts with.
LEMMA BlankType ==
  /\ Default \in Revocation /\ NoBundle \in Bundle /\ NoKey \in Key
  /\ NoPackage \in Package /\ {} \in Registry /\ Blank \in Memory
<1>1. Default \in Revocation
  BY DEF Default, Revocation
<1>2. NoBundle \in Bundle /\ NoKey \in Key /\ NoPackage \in Package
  BY DEF NoBundle, NoKey, NoPackage, Bundle, Key, Package
<1>3. {} \in Registry
  BY DEF Registry
<1> QED
  BY <1>1, <1>2, <1>3 DEF Blank, Memory

\* Tags of attributes are names (RevocationList::tag).
LEMMA TagAllType ==
  ASSUME NEW rev \in Revocation, NEW A \in SUBSET Attribute
  PROVE  TagAll(rev, A) \in SUBSET Tag
BY DEF TagAll, TagOf, Tag, Revocation

\* retag_tree keeps the shape of a policy; its leaves are names.
LEMMA RetagType ==
  ASSUME NEW rev \in Revocation, NEW pol \in Policy
  PROVE  Retag(rev, pol) \in Seq(SUBSET Tag) /\ Leaves(Retag(rev, pol)) \in SUBSET Tag
<1>1. pol \in Seq(SUBSET Attribute)
  BY DEF Policy
<1>2. \A i \in 1 .. Len(pol) : TagAll(rev, pol[i]) \in SUBSET Tag
  BY <1>1, TagAllType
<1>3. Retag(rev, pol) \in [1 .. Len(pol) -> SUBSET Tag]
  BY <1>1, <1>2 DEF Retag
<1>4. Retag(rev, pol) \in Seq(SUBSET Tag)
  BY <1>1, <1>3
<1> QED
  BY <1>3, <1>4 DEF Leaves

\* register_attribute, keygen and seal give values of their types.
LEMMA RegisterType ==
  ASSUME NEW pp \in Bundle, NEW names \in SUBSET Tag, NEW n \in Nat
  PROVE  RegisterAttributes(pp, names, n) \in Bundle
BY DEF RegisterAttributes, Bundle, Commitment, Names

LEMMA KeygenType ==
  ASSUME NEW pp \in Bundle, NEW names, NEW n \in Nat
  PROVE  Keygen(pp, names, n) \in Key
BY DEF Keygen, Bundle, Key

LEMMA SealType ==
  ASSUME NEW pp \in Bundle, NEW pol \in Seq(SUBSET Tag), NEW n \in Nat
  PROVE  SealPackage(pp, pol, n) \in Package
BY DEF SealPackage, Bundle, Package

\* The parts of a command line.
LEMMA CommandParts ==
  ASSUME NEW c \in CommandLine
  PROVE  /\ c.op \in {"setup", "register", "issue", "encrypt", "decrypt",
                      "revokeAttribute", "revokeUser"}
         /\ c.op = "register" => c.authority \in Authority /\ c.controls \in SUBSET Prefix
         /\ c.op = "issue" => /\ c.authority \in Authority /\ c.user \in User
                              /\ c.claims \in SUBSET Claim
         /\ c.op = "encrypt" => c.policy \in Policy
         /\ c.op \in {"decrypt", "revokeUser"} => c.user \in User
         /\ c.op = "revokeAttribute" => c.attribute \in Attribute
BY DEF CommandLine

-----------------------------------------------------------------------------
(* Type correctness.                                                       *)

\* What of the type invariant is about files and histories, and what is
\* about processes.
DiskOK ==
  /\ setup \in File(Bundle)
  /\ registry \in File(Registry)
  /\ revocation \in File(Revocation)
  /\ keys \in [User -> File(Key)]
  /\ packages \subseteq Package
  /\ opened \subseteq [user : User, pkg : Package, by : Nat]
HistoryOK ==
  /\ clock \in Nat
  /\ registered \in Registry
  /\ granted \subseteq [authority : Authority, user : User, prefix : Prefix, name : Tag]
  /\ crashed \subseteq Nat
ProcessOK ==
  /\ pc \in [Process -> Label]
  /\ mem \in [Process -> Memory]
  /\ \A p \in Process : pc[p] \in Reaches(mem[p].cmd.op)

LEMMA TypeParts == TypeOK <=> DiskOK /\ HistoryOK /\ ProcessOK
BY DEF TypeOK, DiskOK, HistoryOK, ProcessOK

\* A process moves to a control point that its command reaches.
LEMMA ProcessStep ==
  ASSUME ProcessOK, NEW p \in Process, NEW m \in Memory, NEW l \in Label,
         l \in Reaches(m.cmd.op), pc' = [pc EXCEPT ![p] = l], mem' = [mem EXCEPT ![p] = m]
  PROVE  ProcessOK'
BY DEF ProcessOK

LEMMA ProcessMoves ==
  ASSUME ProcessOK, NEW p \in Process, NEW l \in Label,
         l \in Reaches(mem[p].cmd.op), Goto(p, l), UNCHANGED mem
  PROVE  ProcessOK'
BY DEF ProcessOK, Goto

LEMMA ProcessEnds ==
  ASSUME ProcessOK, NEW p \in Process, End(p)
  PROVE  ProcessOK'
<1>1. Blank \in Memory /\ "idle" \in Label /\ "idle" \in Reaches(Blank.cmd.op)
  BY BlankType DEF Blank, NoCommand, Label, Reaches
<1> QED
  BY <1>1, ProcessStep DEF End, Goto

\* The memory of a process.
LEMMA MemoryParts ==
  ASSUME ProcessOK, NEW p \in Process
  PROVE  /\ mem[p] \in Memory
         /\ mem[p].cmd \in CommandLine \cup {NoCommand} /\ mem[p].id \in Nat
         /\ mem[p].pp \in Bundle /\ mem[p].reg \in Registry
         /\ mem[p].rev \in Revocation /\ mem[p].names \in SUBSET Tag
         /\ mem[p].key \in Key /\ mem[p].pkg \in Package
         /\ pc[p] \in Reaches(mem[p].cmd.op)
         /\ pc[p] # "idle" => mem[p].cmd \in CommandLine
BY DEF ProcessOK, Memory, Reaches, NoCommand

\* Every step of a process keeps the type invariant.
LEMMA StepType ==
  ASSUME TypeOK, NEW p \in Process, Step(p)
  PROVE  TypeOK'
<1> DEFINE m == mem[p]
<1>0. DiskOK /\ HistoryOK /\ ProcessOK
  BY TypeParts
<1> SUFFICES DiskOK' /\ HistoryOK' /\ ProcessOK'
  BY DEF TypeOK, DiskOK, HistoryOK, ProcessOK
<1>m. /\ m \in Memory /\ m.id \in Nat /\ m.pp \in Bundle /\ m.reg \in Registry
      /\ m.rev \in Revocation /\ m.names \in SUBSET Tag
      /\ m.key \in Key /\ m.pkg \in Package /\ pc[p] \in Reaches(m.cmd.op)
      /\ pc[p] # "idle" => m.cmd \in CommandLine
  BY <1>0, MemoryParts
<1>c. pc[p] # "idle" =>
        /\ m.cmd.op \in {"setup", "register", "issue", "encrypt", "decrypt",
                         "revokeAttribute", "revokeUser"}
        /\ m.cmd.op = "register" => m.cmd.authority \in Authority /\ m.cmd.controls \in SUBSET Prefix
        /\ m.cmd.op = "issue" => /\ m.cmd.authority \in Authority /\ m.cmd.user \in User
                                /\ m.cmd.claims \in SUBSET Claim
        /\ m.cmd.op = "encrypt" => m.cmd.policy \in Policy
        /\ m.cmd.op \in {"decrypt", "revokeUser"} => m.cmd.user \in User
        /\ m.cmd.op = "revokeAttribute" => m.cmd.attribute \in Attribute
  BY <1>m, CommandParts
<1>d. Private => DiskOK' /\ HistoryOK'
  BY <1>0 DEF Private, disk, DiskOK, HistoryOK
<1>1. CASE LoadFails(p)
  BY <1>1, <1>0, <1>d, ProcessEnds DEF LoadFails
<1>2. CASE LoadSetup(p)
  <2> DEFINE n == [m EXCEPT !.pp = setup.val]
             l == CASE m.cmd.op = "issue"   -> "loadRegistry"
                    [] m.cmd.op = "encrypt" -> "openRevocation"
                    [] OTHER -> "loadKey"
  <2>1. n \in Memory /\ n.cmd = m.cmd
    BY <1>2, <1>0, <1>m, LoadedType, BlankType DEF LoadSetup, DiskOK, Memory
  <2>2. l \in Label /\ l \in Reaches(m.cmd.op)
    BY <1>2, <1>m, <1>c DEF LoadSetup, Label, Reaches
  <2>3. mem' = [mem EXCEPT ![p] = n] /\ pc' = [pc EXCEPT ![p] = l] /\ Private
    BY <1>2 DEF LoadSetup, Goto
  <2> HIDE DEF n, l
  <2> QED
    BY <2>1, <2>2, <2>3, <1>0, <1>d, ProcessStep
<1>3. CASE RegisterAuthority(p)
  <2>1. Loaded(registry, {}) \in Registry
    BY <1>3, <1>0, LoadedType, BlankType DEF RegisterAuthority, DiskOK
  <2>2. m.cmd.op = "register" /\ Entry(m.cmd) \in [name : Authority, controls : SUBSET Prefix]
    BY <1>3, <1>c DEF RegisterAuthority, At, Entry
  <2>3. {e \in Loaded(registry, {}) : e.name # m.cmd.authority} \cup {Entry(m.cmd)} \in Registry
    BY <2>1, <2>2 DEF Registry
  <2> DEFINE n == [m EXCEPT !.reg = {e \in Loaded(registry, {}) : e.name # m.cmd.authority}
                                      \cup {Entry(m.cmd)}]
  <2>4. n \in Memory /\ n.cmd = m.cmd
    BY <2>3, <1>m DEF Memory
  <2> QED
    BY <1>3, <2>2, <2>4, <1>0, <1>d, ProcessStep DEF RegisterAuthority, Goto, Label, Reaches
<1>4. CASE LoadRegistry(p)
  <2> DEFINE n == [m EXCEPT !.reg = Loaded(registry, {})]
  <2>1. n \in Memory /\ n.cmd = m.cmd
    BY <1>4, <1>0, <1>m, LoadedType, BlankType DEF LoadRegistry, DiskOK, Memory
  <2>2. mem' = [mem EXCEPT ![p] = n] /\ pc' = [pc EXCEPT ![p] = "openRevocation"] /\ Private
    BY <1>4 DEF LoadRegistry, Goto
  <2>3. "openRevocation" \in Label /\ "openRevocation" \in Reaches(m.cmd.op)
    BY <1>4, <1>m, <1>c DEF LoadRegistry, At, Label, Reaches
  <2> HIDE DEF n
  <2> QED
    BY <2>1, <2>2, <2>3, <1>0, <1>d, ProcessStep
<1>5. CASE OpenForTags(p)
  <2> DEFINE n == [m EXCEPT !.rev = Loaded(revocation, Default)]
  <2>1. n \in Memory /\ n.cmd = m.cmd
    BY <1>5, <1>0, <1>m, LoadedType, BlankType DEF OpenForTags, DiskOK, Memory
  <2>2. mem' = [mem EXCEPT ![p] = n] /\ pc' = [pc EXCEPT ![p] = "checkUser"] /\ Private
    BY <1>5 DEF OpenForTags, Goto
  <2>3. "checkUser" \in Label /\ "checkUser" \in Reaches(m.cmd.op)
    BY <1>5, <1>m, <1>c DEF OpenForTags, At, Label, Reaches
  <2> HIDE DEF n
  <2> QED
    BY <2>1, <2>2, <2>3, <1>0, <1>d, ProcessStep
<1>6. CASE Refuse(p)
  BY <1>6, <1>0, <1>d, ProcessEnds DEF Refuse
<1>7. CASE AcceptClaims(p)
  <2>1. m.cmd.op = "issue"
    BY <1>7, <1>m, <1>c DEF AcceptClaims, Reaches
  <2>2. \A c \in m.cmd.claims : c.attrs \in SUBSET Attribute /\ c.prefix \in Prefix
    BY <2>1, <1>7, <1>c DEF AcceptClaims, Claim
  <2>3. Claimed(p) \in SUBSET Tag
    BY <2>2, <1>m, TagAllType DEF Claimed
  <2>4. RegisterAttributes(m.pp, Claimed(p), m.id) \in Bundle
    BY <2>3, <1>m, RegisterType
  <2> DEFINE n == [m EXCEPT !.names = Claimed(p),
                            !.pp = RegisterAttributes(m.pp, Claimed(p), m.id)]
  <2>5. n \in Memory /\ n.cmd = m.cmd
    BY <2>3, <2>4, <1>m DEF Memory
  <2>6. ProcessOK'
    <3>1. mem' = [mem EXCEPT ![p] = n] /\ pc' = [pc EXCEPT ![p] = "mergeKey"]
      BY <1>7 DEF AcceptClaims, Goto
    <3>2. "mergeKey" \in Label /\ "mergeKey" \in Reaches(m.cmd.op)
      BY <2>1 DEF Label, Reaches
    <3> HIDE DEF n
    <3> QED
      BY <3>1, <3>2, <2>5, <1>0, ProcessStep
  <2>7. Grants(p) \subseteq [authority : Authority, user : User, prefix : Prefix, name : Tag]
    <3>1. \A c \in m.cmd.claims : TagAll(m.rev, c.attrs) \in SUBSET Tag
      BY <2>2, <1>m, TagAllType
    <3> QED
      BY <3>1, <2>1, <2>2, <1>7, <1>c DEF Grants, AcceptClaims
  <2>8. DiskOK' /\ HistoryOK'
    BY <1>7, <2>7, <1>0 DEF AcceptClaims, disk, DiskOK, HistoryOK
  <2> QED
    BY <2>6, <2>8
<1>8. CASE MergeAndMint(p)
  <2> DEFINE n == [m EXCEPT !.key = Keygen(m.pp, MergedNames(p), m.id)]
  <2>1. n \in Memory /\ n.cmd = m.cmd
    BY <1>m, KeygenType DEF Memory
  <2>2. mem' = [mem EXCEPT ![p] = n] /\ pc' = [pc EXCEPT ![p] = "saveSetup"] /\ Private
    BY <1>8 DEF MergeAndMint, Goto
  <2>3. "saveSetup" \in Label /\ "saveSetup" \in Reaches(m.cmd.op)
    BY <1>8, <1>m, <1>c DEF MergeAndMint, At, Label, Reaches
  <2> HIDE DEF n
  <2> QED
    BY <2>1, <2>2, <2>3, <1>0, <1>d, ProcessStep
<1>9. CASE KeygenFails(p)
  BY <1>9, <1>0, <1>d, ProcessEnds DEF KeygenFails
<1>10. CASE RetagPolicy(p)
  <2>1. m.cmd.op = "encrypt" /\ m.cmd.policy \in Policy
    BY <1>10, <1>c DEF RetagPolicy, At
  <2> DEFINE pol == Retag(Loaded(revocation, Default), m.cmd.policy)
             pp  == RegisterAttributes(m.pp, Leaves(pol), m.id)
             n   == [m EXCEPT !.pp = pp, !.pkg = SealPackage(pp, pol, m.id)]
  <2>2. Loaded(revocation, Default) \in Revocation
    BY <1>10, <1>0, LoadedType, BlankType DEF RetagPolicy, DiskOK
  <2>3. pol \in Seq(SUBSET Tag) /\ Leaves(pol) \in SUBSET Tag
    BY <2>1, <2>2, RetagType
  <2>4. pp \in Bundle
    BY <2>3, <1>m, RegisterType
  <2>5. SealPackage(pp, pol, m.id) \in Package
    BY <2>3, <2>4, <1>m, SealType
  <2>6. n \in Memory /\ n.cmd = m.cmd
    BY <2>4, <2>5, <1>m DEF Memory
  <2> HIDE DEF pol, pp
  <2>7. mem' = [mem EXCEPT ![p] = n] /\ pc' = [pc EXCEPT ![p] = "saveSetup"]
    BY <1>10 DEF RetagPolicy, Goto, pol, pp
  <2> QED
    BY <1>10, <2>1, <2>6, <2>7, <1>0, <1>d, ProcessStep DEF RetagPolicy, Label, Reaches
<1>11. CASE BumpEpoch(p)
  <2>1. m.cmd.op = "revokeAttribute" /\ m.cmd.attribute \in Attribute
    BY <1>11, <1>c DEF BumpEpoch, At
  <2>2. Loaded(revocation, Default) \in Revocation
    BY <1>11, <1>0, LoadedType, BlankType DEF BumpEpoch, DiskOK
  <2> DEFINE r == [Loaded(revocation, Default) EXCEPT
                     !.epochs[m.cmd.attribute] = Loaded(revocation, Default).epochs[m.cmd.attribute] + 1]
             n == [m EXCEPT !.rev = r]
  <2>3. r \in Revocation
    BY <2>1, <2>2 DEF Revocation
  <2>4. n \in Memory /\ n.cmd = m.cmd
    BY <2>3, <1>m DEF Memory
  <2>5. mem' = [mem EXCEPT ![p] = n] /\ pc' = [pc EXCEPT ![p] = "saveRevocation"]
    BY <1>11 DEF BumpEpoch, Goto
  <2> QED
    BY <1>11, <2>1, <2>4, <2>5, <1>0, <1>d, ProcessStep DEF BumpEpoch, Label, Reaches
<1>12. CASE ListUser(p)
  <2>1. m.cmd.op = "revokeUser" /\ m.cmd.user \in User
    BY <1>12, <1>c DEF ListUser, At
  <2>2. Loaded(revocation, Default) \in Revocation
    BY <1>12, <1>0, LoadedType, BlankType DEF ListUser, DiskOK
  <2> DEFINE r == [Loaded(revocation, Default) EXCEPT
                     !.revoked = Loaded(revocation, Default).revoked \cup {m.cmd.user}]
             n == [m EXCEPT !.rev = r]
  <2>3. r \in Revocation
    BY <2>1, <2>2 DEF Revocation
  <2>4. n \in Memory /\ n.cmd = m.cmd
    BY <2>3, <1>m DEF Memory
  <2>5. mem' = [mem EXCEPT ![p] = n] /\ pc' = [pc EXCEPT ![p] = "saveRevocation"]
    BY <1>12 DEF ListUser, Goto
  <2> QED
    BY <1>12, <2>1, <2>4, <2>5, <1>0, <1>d, ProcessStep DEF ListUser, Label, Reaches
<1>13. CASE TruncateSetup(p) \/ TruncateRegistry(p) \/ TruncateRevocation(p) \/ TruncateKey(p)
  <2>1. ProcessOK'
    BY <1>13, <1>0, <1>m, <1>c, ProcessMoves
       DEF TruncateSetup, TruncateRegistry, TruncateRevocation, TruncateKey, Label, Reaches
  <2>2. DiskOK' /\ HistoryOK'
    BY <1>13, <1>0 DEF TruncateSetup, TruncateRegistry, TruncateRevocation, TruncateKey,
                       DiskOK, HistoryOK, File
  <2> QED
    BY <2>1, <2>2
<1>14. CASE FillSetup(p)
  <2>1. ProcessOK'
    BY <1>14, <1>0, <1>m, <1>c, ProcessMoves DEF FillSetup, Label, Reaches
  <2>2. Filled(setup, m.pp) \subseteq File(Bundle)
    BY <1>0, <1>m, FilledType DEF DiskOK
  <2>3. DiskOK' /\ HistoryOK'
    BY <1>14, <1>0, <2>2 DEF FillSetup, DiskOK, HistoryOK
  <2> QED
    BY <2>1, <2>3
<1>15. CASE FillRegistry(p)
  <2>1. ProcessOK'
    <3>1. CASE m.cmd.op = "setup"
      BY <3>1, <1>15, <1>0, ProcessMoves DEF FillRegistry, Label, Reaches
    <3>2. CASE m.cmd.op # "setup"
      BY <3>2, <1>15, <1>0, ProcessEnds DEF FillRegistry
    <3> QED
      BY <3>1, <3>2
  <2>2. Filled(registry, m.reg) \subseteq File(Registry)
    BY <1>0, <1>m, FilledType DEF DiskOK
  <2>3. DiskOK'
    BY <1>15, <1>0, <2>2 DEF FillRegistry, DiskOK
  <2>4. m.cmd.op = "register" => Entry(m.cmd) \in [name : Authority, controls : SUBSET Prefix]
    BY <1>15, <1>c DEF FillRegistry, Entry
  <2>5. HistoryOK'
    BY <1>15, <1>0, <1>m, <1>c, <2>4 DEF FillRegistry, HistoryOK, Registry, Reaches
  <2> QED
    BY <2>1, <2>3, <2>5
<1>16. CASE FillRevocation(p)
  <2>1. ProcessOK'
    BY <1>16, <1>0, <1>m, <1>c, ProcessMoves DEF FillRevocation, Label, Reaches
  <2>2. Filled(revocation, m.rev) \subseteq File(Revocation)
    BY <1>0, <1>m, FilledType DEF DiskOK
  <2>3. DiskOK' /\ HistoryOK'
    BY <1>16, <1>0, <2>2 DEF FillRevocation, DiskOK, HistoryOK
  <2> QED
    BY <2>1, <2>3
<1>17. CASE FillKey(p)
  <2>1. ProcessOK'
    BY <1>17, <1>0, <1>m, <1>c, ProcessMoves DEF FillKey, Label, Reaches
  <2>2. m.cmd.user \in User
    BY <1>17, <1>m, <1>c DEF FillKey, Reaches
  <2>3. Filled(keys[m.cmd.user], m.key) \subseteq File(Key)
    BY <2>2, <1>0, <1>m, FilledType DEF DiskOK
  <2>4. DiskOK' /\ HistoryOK'
    BY <1>17, <1>0, <2>3 DEF FillKey, DiskOK, HistoryOK
  <2> QED
    BY <2>1, <2>4
<1>18. CASE PutPackage(p)
  <2>1. ProcessOK'
    BY <1>18, <1>0, <1>m, <1>c, ProcessMoves DEF PutPackage, Label, Reaches
  <2>2. DiskOK' /\ HistoryOK'
    BY <1>18, <1>0, <1>m DEF PutPackage, DiskOK, HistoryOK
  <2> QED
    BY <2>1, <2>2
<1>19. CASE LoadKey(p)
  <2>1. m.cmd.op = "decrypt" /\ m.cmd.user \in User
    BY <1>19, <1>m, <1>c DEF LoadKey, Reaches
  <2>2. keys[m.cmd.user] \in File(Key)
    BY <2>1, <1>0 DEF DiskOK
  <2> DEFINE n == [m EXCEPT !.key = keys[m.cmd.user].val]
  <2>3. n \in Memory /\ n.cmd = m.cmd
    BY <1>19, <2>2, <1>m, LoadedType, BlankType DEF LoadKey, Memory
  <2>4. mem' = [mem EXCEPT ![p] = n] /\ pc' = [pc EXCEPT ![p] = "open"] /\ Private
    BY <1>19 DEF LoadKey, Goto
  <2>5. "open" \in Label /\ "open" \in Reaches(m.cmd.op)
    BY <1>19, <1>m, <1>c DEF LoadKey, At, Label, Reaches
  <2> HIDE DEF n
  <2> QED
    BY <2>3, <2>4, <2>5, <1>0, <1>d, ProcessStep
<1>20. CASE Deny(p)
  <2>1. ProcessOK'
    BY <1>20, <1>0, <1>m, <1>c, ProcessMoves DEF Deny, Label, Reaches
  <2> QED
    BY <1>20, <2>1, <1>0 DEF Deny, disk, DiskOK, HistoryOK
<1>21. CASE WritePlaintext(p)
  <2>1. ProcessOK'
    BY <1>21, <1>0, <1>m, <1>c, ProcessMoves DEF WritePlaintext, Label, Reaches
  <2>2. m.cmd.user \in User
    BY <1>21, <1>m, <1>c DEF WritePlaintext, Reaches
  <2>3. DiskOK' /\ HistoryOK'
    BY <1>21, <2>2, <1>0, <1>m DEF WritePlaintext, DiskOK, HistoryOK
  <2> QED
    BY <2>1, <2>3
<1>22. CASE Record(p)
  <2>1. ProcessOK'
    BY <1>22, <1>0, ProcessEnds DEF Record
  <2> QED
    BY <1>22, <2>1, <1>0 DEF Record, DiskOK, HistoryOK
<1> QED
  BY <1>1, <1>2, <1>3, <1>4, <1>5, <1>6, <1>7, <1>8, <1>9, <1>10, <1>11, <1>12, <1>13, <1>14,
     <1>15, <1>16, <1>17, <1>18, <1>19, <1>20, <1>21, <1>22 DEF Step, ChangeRevocation

\* Starting a command keeps the type invariant.
LEMMA BeginType ==
  ASSUME TypeOK, NEW p \in Process, NEW c \in Command, Begin(p, c)
  PROVE  TypeOK'
<1>0. DiskOK /\ HistoryOK /\ ProcessOK
  BY TypeParts
<1>1. PICK k \in IF c.op = "decrypt" THEN packages ELSE {NoPackage} :
        mem' = [mem EXCEPT ![p] =
                 [Blank EXCEPT !.cmd = c, !.id = clock', !.pkg = k,
                    !.pp.master = IF c.op = "setup" THEN clock' ELSE 0]]
  BY DEF Begin
<1> DEFINE m == [Blank EXCEPT !.cmd = c, !.id = clock', !.pkg = k,
                    !.pp.master = IF c.op = "setup" THEN clock' ELSE 0]
           l == CASE c.op = "setup"    -> "saveSetup"
                  [] c.op = "register" -> "loadRegistry"
                  [] c.op \in {"issue", "encrypt", "decrypt"} -> "loadSetup"
                  [] OTHER -> "openRevocation"
<1>2. c \in CommandLine
  BY CommandAssumption
<1>3. clock' \in Nat /\ k \in Package
  BY <1>0, <1>1, BlankType DEF Begin, HistoryOK, DiskOK
<1>4. m \in Memory /\ m.cmd = c
  BY <1>2, <1>3, BlankType DEF Memory, Bundle, Blank
<1>5. l \in Label /\ l \in Reaches(c.op)
  BY <1>2, CommandParts DEF Label, Reaches
<1>6. mem' = [mem EXCEPT ![p] = m] /\ pc' = [pc EXCEPT ![p] = l]
  BY <1>1 DEF Begin, Goto
<1>7. ProcessOK'
  <2> HIDE DEF m, l
  <2> QED
    BY <1>0, <1>4, <1>5, <1>6, ProcessStep
<1>8. DiskOK' /\ HistoryOK'
  BY <1>0, <1>3 DEF Begin, disk, DiskOK, HistoryOK
<1> QED
  BY <1>7, <1>8 DEF TypeOK, DiskOK, HistoryOK, ProcessOK

\* So does stopping one early.
LEMMA CrashType ==
  ASSUME TypeOK, NEW p \in Process, Crash(p)
  PROVE  TypeOK'
<1>0. DiskOK /\ HistoryOK /\ ProcessOK
  BY TypeParts
<1>1. ProcessOK'
  BY <1>0, ProcessEnds DEF Crash
<1>2. DiskOK' /\ HistoryOK'
  BY <1>0, MemoryParts DEF Crash, disk, DiskOK, HistoryOK
<1> QED
  BY <1>1, <1>2 DEF TypeOK, DiskOK, HistoryOK, ProcessOK

LEMMA InitType == Init => TypeOK
<1> SUFFICES ASSUME Init PROVE DiskOK /\ HistoryOK /\ ProcessOK
  BY TypeParts
<1>1. DiskOK
  BY DEF Init, DiskOK, File
<1>2. HistoryOK
  BY DEF Init, HistoryOK, Registry
<1>3. ProcessOK
  BY BlankType DEF Init, ProcessOK, Label, Reaches, Blank, NoCommand
<1> QED
  BY <1>1, <1>2, <1>3

LEMMA NextType == TypeOK /\ [Next]_vars => TypeOK'
<1> SUFFICES ASSUME TypeOK, [Next]_vars PROVE TypeOK'
  OBVIOUS
<1>1. CASE Next
  BY <1>1, BeginType, StepType, CrashType DEF Next
<1>2. CASE UNCHANGED vars
  BY <1>2 DEF vars, disk, TypeOK
<1> QED
  BY <1>1, <1>2

\* Whatever overlaps and whatever crashes, every file, process memory and
\* history of the command line (cli/src/main.rs) keeps its type, and every
\* command is at a control point of its own.
THEOREM TypeCorrect == Spec => []TypeOK
BY InitType, NextType, PTL DEF Spec

-----------------------------------------------------------------------------
(* Entitlement.  The inductive invariant follows a name on its way from an *)
(* authority's claim to a decrypted package: through the copy of the       *)
(* registry that permits it, the memory of the issuing process, the key    *)
(* file (directly or merged from an older one) and the memory of the       *)
(* decrypting process.                                                     *)

\* A process holds registry entries that were registered (its own new one
\* apart), and names that the user it works for is entitled to.
Trusted(m) ==
  /\ m.reg \subseteq registered \cup IF m.cmd.op = "register" THEN {Entry(m.cmd)} ELSE {}
  /\ m.cmd.op = "issue" => m.names \subseteq EntitledTo(m.cmd.user)
  /\ m.cmd.op \in {"issue", "decrypt"} => Names(m.key) \subseteq EntitledTo(m.cmd.user)

EntitlementInv ==
  /\ Readable(registry) => registry.val \subseteq registered
  /\ \A p \in Process : Trusted(mem[p])
  /\ \A u \in User : OnFile(u) => Names(keys[u].val) \subseteq EntitledTo(u)
  /\ OpenedByEntitled

\* Entitlements only grow: authorities and claims are never forgotten.
LEMMA EntitledGrows ==
  ASSUME registered \subseteq registered', granted \subseteq granted', NEW u
  PROVE  EntitledTo(u) \subseteq EntitledTo(u)'
BY DEF EntitledTo, Permitted

\* A process whose command, registry copy, names and key stay as they are.
LEMMA TrustKept ==
  ASSUME EntitlementInv, registered \subseteq registered', granted \subseteq granted',
         NEW q \in Process, mem'[q].cmd = mem[q].cmd, mem'[q].reg = mem[q].reg,
         mem'[q].names = mem[q].names, mem'[q].key = mem[q].key
  PROVE  Trusted(mem[q])'
<1>1. EntitledTo(mem[q].cmd.user) \subseteq EntitledTo(mem[q].cmd.user)'
  <2>1. \A u : EntitledTo(u) \subseteq EntitledTo(u)'
    BY EntitledGrows
  <2> QED
    BY <2>1 DEF EntitledTo
<1> QED
  BY <1>1 DEF EntitlementInv, Trusted

LEMMA BlankTrusted ==
  ASSUME NEW q \in Process, mem'[q] = Blank
  PROVE  Trusted(mem[q])'
BY DEF Trusted, Blank, NoCommand, NoKey, Names

\* What the invariant says of files survives a step that leaves each of them
\* alone or empties it.
LEMMA FilesKept ==
  ASSUME EntitlementInv, registered \subseteq registered', granted \subseteq granted',
         registry' \in {registry, Empty}, opened' = opened,
         \A u \in User : keys'[u] \in {keys[u], Empty}
  PROVE  /\ Readable(registry)' => registry'.val \subseteq registered'
         /\ \A u \in User : OnFile(u)' => Names(keys'[u].val) \subseteq EntitledTo(u)'
         /\ OpenedByEntitled'
<1>1. \A u : EntitledTo(u) \subseteq EntitledTo(u)'
  BY EntitledGrows
<1>2. ~ Readable(Empty)
  BY DEF Readable, Empty
<1>3. Readable(registry)' => registry'.val \subseteq registered'
  BY <1>2 DEF EntitlementInv, Readable
<1>4. \A u \in User : OnFile(u)' => Names(keys'[u].val) \subseteq EntitledTo(u)'
  BY <1>1, <1>2 DEF EntitlementInv, OnFile, Readable
<1>5. OpenedByEntitled'
  <2>1. \A o \in opened : Satisfied(o.pkg.policy, EntitledTo(o.user))
    BY DEF EntitlementInv, OpenedByEntitled
  <2>2. \A o \in opened : Satisfied(o.pkg.policy, EntitledTo(o.user)')
    BY <1>1, <2>1 DEF Satisfied
  <2> QED
    BY <2>2 DEF OpenedByEntitled, EntitledTo
<1> QED
  BY <1>3, <1>4, <1>5

\* A key opens a package only if its names satisfy the policy.
LEMMA OpensSatisfied ==
  ASSUME NEW key, NEW pkg, NEW names, Opens(key, pkg), Names(key) \subseteq names
  PROVE  Satisfied(pkg.policy, names)
BY DEF Opens, Satisfied

\* Steps that touch neither the registry copy, the names nor the key of any
\* process, and write no registry, key or plaintext.
LEMMA QuietStep ==
  ASSUME TypeOK, EntitlementInv, NEW p \in Process,
         \/ LoadFails(p) \/ LoadSetup(p) \/ OpenForTags(p) \/ Refuse(p) \/ KeygenFails(p)
         \/ RetagPolicy(p) \/ BumpEpoch(p) \/ ListUser(p)
         \/ TruncateSetup(p) \/ FillSetup(p) \/ TruncateRegistry(p)
         \/ TruncateRevocation(p) \/ FillRevocation(p) \/ TruncateKey(p)
         \/ PutPackage(p) \/ Deny(p) \/ Record(p) \/ Crash(p)
  PROVE  EntitlementInv'
<1>1. /\ registered \subseteq registered' /\ granted \subseteq granted'
      /\ registry' \in {registry, Empty} /\ opened' = opened
      /\ \A u \in User : keys'[u] \in {keys[u], Empty}
  <2>1. CASE \/ LoadFails(p) \/ LoadSetup(p) \/ OpenForTags(p) \/ Refuse(p) \/ KeygenFails(p)
             \/ RetagPolicy(p) \/ BumpEpoch(p) \/ ListUser(p)
    <3>1. Private
      BY <2>1 DEF LoadFails, LoadSetup, OpenForTags, Refuse, KeygenFails,
                  RetagPolicy, BumpEpoch, ListUser
    <3> QED
      BY <3>1 DEF Private, disk
  <2>2. CASE TruncateSetup(p) \/ FillSetup(p) \/ TruncateRegistry(p)
             \/ TruncateRevocation(p) \/ FillRevocation(p)
    BY <2>2 DEF TruncateSetup, FillSetup, TruncateRegistry, TruncateRevocation, FillRevocation
  <2>3. CASE TruncateKey(p)
    BY <2>3 DEF TruncateKey, TypeOK
  <2>4. CASE PutPackage(p) \/ Deny(p) \/ Record(p) \/ Crash(p)
    BY <2>4 DEF PutPackage, Deny, Record, Crash, disk
  <2> QED
    BY <2>1, <2>2, <2>3, <2>4
<1>2. \A q \in Process \ {p} : mem'[q] = mem[q]
  BY DEF LoadFails, LoadSetup, OpenForTags, Refuse, KeygenFails, RetagPolicy, BumpEpoch, ListUser,
         TruncateSetup, FillSetup, TruncateRegistry, TruncateRevocation, FillRevocation,
         TruncateKey, PutPackage, Deny, Record, Crash, End, TypeOK
<1>3. \/ mem'[p] = Blank
      \/ /\ mem'[p].cmd = mem[p].cmd /\ mem'[p].reg = mem[p].reg
         /\ mem'[p].names = mem[p].names /\ mem'[p].key = mem[p].key
  <2>1. mem \in [Process -> Memory]
    BY DEF TypeOK
  <2>2. CASE LoadFails(p) \/ Refuse(p) \/ KeygenFails(p) \/ Record(p) \/ Crash(p)
    BY <2>1, <2>2 DEF LoadFails, Refuse, KeygenFails, Record, Crash, End
  <2>3. CASE LoadSetup(p) \/ OpenForTags(p) \/ BumpEpoch(p) \/ ListUser(p)
    BY <2>1, <2>3 DEF LoadSetup, OpenForTags, BumpEpoch, ListUser, Memory
  <2>4. CASE RetagPolicy(p)
    BY <2>1, <2>4 DEF RetagPolicy, Memory
  <2>5. CASE TruncateSetup(p) \/ FillSetup(p) \/ TruncateRegistry(p) \/ TruncateRevocation(p)
             \/ FillRevocation(p) \/ TruncateKey(p) \/ PutPackage(p) \/ Deny(p)
    BY <2>5 DEF TruncateSetup, FillSetup, TruncateRegistry, TruncateRevocation,
                FillRevocation, TruncateKey, PutPackage, Deny
  <2> QED
    BY <2>2, <2>3, <2>4, <2>5
<1>4. \A q \in Process : Trusted(mem[q])'
  BY <1>1, <1>2, <1>3, TrustKept, BlankTrusted
<1> QED
  BY <1>1, <1>4, FilesKept DEF EntitlementInv

\* A private step after which the process can be trusted.
LEMMA PrivateStep ==
  ASSUME TypeOK, EntitlementInv, NEW p \in Process, Private,
         \A q \in Process \ {p} : mem'[q] = mem[q],
         Trusted(mem[p])'
  PROVE  EntitlementInv'
<1>1. /\ registered \subseteq registered' /\ granted \subseteq granted'
      /\ registry' \in {registry, Empty} /\ opened' = opened
      /\ \A u \in User : keys'[u] \in {keys[u], Empty}
  BY DEF Private, disk
<1>2. \A q \in Process : Trusted(mem[q])'
  BY <1>1, TrustKept
<1> QED
  BY <1>1, <1>2, FilesKept DEF EntitlementInv

LEMMA RegistryLoads ==
  ASSUME TypeOK, EntitlementInv, NEW p \in Process, RegisterAuthority(p) \/ LoadRegistry(p)
  PROVE  EntitlementInv'
<1>1. Private /\ \A q \in Process \ {p} : mem'[q] = mem[q]
  BY DEF RegisterAuthority, LoadRegistry, TypeOK
<1>2. Loaded(registry, {}) \subseteq registered
  BY DEF RegisterAuthority, LoadRegistry, Loadable, Loaded, EntitlementInv
<1>3. mem[p] \in Memory /\ Trusted(mem[p])
  BY DEF TypeOK, EntitlementInv
<1>4. registered' = registered /\ granted' = granted
  BY <1>1 DEF Private
<1>5. CASE LoadRegistry(p)
  <2>1. mem'[p] = [mem[p] EXCEPT !.reg = Loaded(registry, {})] /\ mem[p].cmd.op = "issue"
    BY <1>5 DEF LoadRegistry, At, TypeOK
  <2> DEFINE n == [mem[p] EXCEPT !.reg = Loaded(registry, {})]
  <2>2. n.cmd = mem[p].cmd /\ n.reg = Loaded(registry, {}) /\ n.names = mem[p].names /\ n.key = mem[p].key
    BY <1>3 DEF Memory
  <2>3. Trusted(mem[p])'
    BY <1>2, <1>3, <1>4, <2>1, <2>2 DEF Trusted, EntitledTo
  <2> QED
    BY <1>1, <2>3, PrivateStep
<1>6. CASE RegisterAuthority(p)
  <2> DEFINE reg == {e \in Loaded(registry, {}) : e.name # mem[p].cmd.authority}
                      \cup {Entry(mem[p].cmd)}
             n == [mem[p] EXCEPT !.reg = reg]
  <2>1. mem'[p] = n /\ mem[p].cmd.op = "register"
    BY <1>6 DEF RegisterAuthority, At, TypeOK
  <2>2. n.cmd = mem[p].cmd /\ n.reg = reg /\ n.names = mem[p].names /\ n.key = mem[p].key
    BY <1>3 DEF Memory
  <2>3. reg \subseteq registered \cup {Entry(mem[p].cmd)}
    BY <1>2
  <2> HIDE DEF n, reg
  <2>4. Trusted(mem[p])'
    BY <1>3, <1>4, <2>1, <2>2, <2>3 DEF Trusted, EntitledTo
  <2> QED
    BY <1>1, <2>4, PrivateStep
<1> QED
  BY <1>5, <1>6

\* Permission against a copy of the registry is permission against every
\* entry ever registered.
LEMMA PermittedGrows ==
  ASSUME NEW R, NEW S, R \subseteq S, NEW a, NEW c, Permitted(R, a, c)
  PROVE  \A h : h.prefix = c.prefix => Permitted(S, a, h)
BY DEF Permitted

\* cmd_issue accepts claims: every name it grants is one its user is now
\* entitled to, because the authority was permitted to claim it.
LEMMA ClaimsAccepted ==
  ASSUME TypeOK, EntitlementInv, NEW p \in Process, AcceptClaims(p)
  PROVE  EntitlementInv'
<1> DEFINE m == mem[p]
           n == [m EXCEPT !.names = Claimed(p), !.pp = RegisterAttributes(m.pp, Claimed(p), m.id)]
<1>1. m \in Memory /\ Trusted(m) /\ mem'[p] = n /\ \A q \in Process \ {p} : mem'[q] = mem[q]
  BY DEF AcceptClaims, TypeOK, EntitlementInv
<1>2. n.cmd = m.cmd /\ n.reg = m.reg /\ n.names = Claimed(p) /\ n.key = m.key
  BY <1>1 DEF Memory
<1>3. m.cmd.op = "issue"
  <2>1. pc[p] = "checkUser" /\ pc[p] \in Reaches(m.cmd.op)
    BY DEF AcceptClaims, TypeOK
  <2> QED
    BY <2>1 DEF Reaches
<1>4. registered' = registered /\ granted' = granted \cup Grants(p) /\ UNCHANGED disk
  BY DEF AcceptClaims
<1>5. m.reg \subseteq registered
  BY <1>1, <1>3 DEF Trusted
<1>6. \A x \in Claimed(p) : \E g \in granted' :
        g.name = x /\ g.user = m.cmd.user /\ Permitted(registered', g.authority, g)
  <2> SUFFICES ASSUME NEW x \in Claimed(p)
               PROVE  \E g \in granted' : /\ g.name = x /\ g.user = m.cmd.user
                                          /\ Permitted(registered', g.authority, g)
    OBVIOUS
  <2>1. PICK c \in m.cmd.claims : x \in TagAll(m.rev, c.attrs)
    BY DEF Claimed, TagAll
  <2> DEFINE g == [authority |-> m.cmd.authority, user |-> m.cmd.user,
                   prefix |-> c.prefix, name |-> x]
  <2>2. g \in granted'
    BY <2>1, <1>4 DEF Grants
  <2>3. Permitted(m.reg, m.cmd.authority, c)
    BY <2>1 DEF AcceptClaims, MayIssue
  <2>4. Permitted(registered', m.cmd.authority, g)
    BY <2>3, <1>4, <1>5, PermittedGrows
  <2> QED
    BY <2>2, <2>4
<1>7. Claimed(p) \subseteq EntitledTo(m.cmd.user)'
  <2>1. \A x \in Claimed(p) : \E g \in granted' :
          g.name = x /\ g.user = mem'[p].cmd.user /\ Permitted(registered', g.authority, g)
    BY <1>1, <1>2, <1>6
  <2> QED
    BY <2>1 DEF EntitledTo
<1>8. registered \subseteq registered' /\ granted \subseteq granted'
  BY <1>4
<1>9. Names(m.key) \subseteq EntitledTo(m.cmd.user)'
  <2>1. \A u : EntitledTo(u) \subseteq EntitledTo(u)'
    BY <1>8, EntitledGrows
  <2>2. EntitledTo(m.cmd.user) \subseteq EntitledTo(m.cmd.user)'
    BY <2>1, <1>1, <1>2 DEF EntitledTo
  <2> QED
    BY <1>1, <1>3, <2>2 DEF Trusted
<1>10. Trusted(mem[p])'
  <2> HIDE DEF n
  <2>1. mem'[p].cmd.op = "issue" /\ mem'[p].names = Claimed(p) /\ mem'[p].key = m.key
        /\ mem'[p].reg \subseteq registered'
    BY <1>1, <1>2, <1>3, <1>4, <1>5
  <2> QED
    BY <2>1, <1>7, <1>9 DEF Trusted
<1>11. \A q \in Process : Trusted(mem[q])'
  BY <1>1, <1>8, <1>10, TrustKept
<1> QED
  BY <1>4, <1>8, <1>11, FilesKept DEF EntitlementInv, disk

\* A merged key lends its user nothing: the key on file was entitled too.
LEMMA KeyMinted ==
  ASSUME TypeOK, EntitlementInv, NEW p \in Process, MergeAndMint(p)
  PROVE  EntitlementInv'
<1> DEFINE m == mem[p]
           key == Keygen(m.pp, MergedNames(p), m.id)
           n == [m EXCEPT !.key = key]
<1>1. /\ m \in Memory /\ Trusted(m) /\ mem'[p] = n /\ Private
      /\ \A q \in Process \ {p} : mem'[q] = mem[q]
  BY DEF MergeAndMint, TypeOK, EntitlementInv
<1>2. n.cmd = m.cmd /\ n.reg = m.reg /\ n.names = m.names /\ n.key = key
  BY <1>1 DEF Memory
<1>3. m.cmd.op = "issue"
  <2>1. pc[p] = "mergeKey" /\ pc[p] \in Reaches(m.cmd.op)
    BY DEF MergeAndMint, TypeOK
  <2> QED
    BY <2>1 DEF Reaches
<1>4. m.cmd.user \in User
  <2>1. m.cmd \in CommandLine
    BY <1>1, <1>3 DEF Memory, NoCommand
  <2> QED
    BY <2>1, <1>3, CommandParts
<1>5. MergedNames(p) \subseteq EntitledTo(m.cmd.user)
  BY <1>1, <1>3, <1>4 DEF MergedNames, Trusted, EntitlementInv, OnFile
<1>6. Names(key) \subseteq MergedNames(p)
  BY DEF Names, Keygen
<1>7. Trusted(mem[p])'
  <2> HIDE DEF n, key
  <2>1. /\ mem'[p].cmd = m.cmd /\ mem'[p].reg = m.reg /\ mem'[p].names = m.names
        /\ Names(mem'[p].key) \subseteq EntitledTo(m.cmd.user)
    BY <1>1, <1>2, <1>5, <1>6
  <2>2. registered' = registered /\ granted' = granted
    BY <1>1 DEF Private
  <2> QED
    BY <2>1, <2>2, <1>1 DEF Trusted, EntitledTo
<1> QED
  BY <1>1, <1>7, PrivateStep

LEMMA KeyLoaded ==
  ASSUME TypeOK, EntitlementInv, NEW p \in Process, LoadKey(p)
  PROVE  EntitlementInv'
<1> DEFINE m == mem[p]
           n == [m EXCEPT !.key = keys[m.cmd.user].val]
<1>1. /\ m \in Memory /\ Trusted(m) /\ mem'[p] = n /\ Private
      /\ \A q \in Process \ {p} : mem'[q] = mem[q]
  BY DEF LoadKey, TypeOK, EntitlementInv
<1>2. n.cmd = m.cmd /\ n.reg = m.reg /\ n.names = m.names /\ n.key = keys[m.cmd.user].val
  BY <1>1 DEF Memory
<1>3. m.cmd.op = "decrypt"
  <2>1. pc[p] = "loadKey" /\ pc[p] \in Reaches(m.cmd.op)
    BY DEF LoadKey, TypeOK
  <2> QED
    BY <2>1 DEF Reaches
<1>4. m.cmd.user \in User
  <2>1. m.cmd \in CommandLine
    BY <1>1, <1>3 DEF Memory, NoCommand
  <2> QED
    BY <2>1, <1>3, CommandParts
<1>5. Names(keys[m.cmd.user].val) \subseteq EntitledTo(m.cmd.user)
  BY <1>4 DEF LoadKey, EntitlementInv, OnFile
<1>6. Trusted(mem[p])'
  <2> HIDE DEF n
  <2>1. /\ mem'[p].cmd = m.cmd /\ mem'[p].reg = m.reg /\ mem'[p].names = m.names
        /\ Names(mem'[p].key) \subseteq EntitledTo(m.cmd.user)
    BY <1>1, <1>2, <1>5
  <2>2. registered' = registered /\ granted' = granted
    BY <1>1 DEF Private
  <2> QED
    BY <2>1, <2>2, <1>1 DEF Trusted, EntitledTo
<1> QED
  BY <1>1, <1>6, PrivateStep

LEMMA RegistrySaved ==
  ASSUME TypeOK, EntitlementInv, NEW p \in Process, FillRegistry(p)
  PROVE  EntitlementInv'
<1> DEFINE m == mem[p]
<1>1. /\ m \in Memory /\ Trusted(m) /\ keys' = keys /\ opened' = opened /\ granted' = granted
      /\ registry' \in Filled(registry, m.reg)
  BY DEF FillRegistry, TypeOK, EntitlementInv
<1>2. m.reg \subseteq registered' /\ registered \subseteq registered'
  <2>1. CASE m.cmd.op = "setup"
    BY <2>1, <1>1 DEF FillRegistry, Trusted
  <2>2. CASE m.cmd.op # "setup"
    BY <2>2, <1>1 DEF FillRegistry, Trusted
  <2> QED
    BY <2>1, <2>2
<1>3. Readable(registry') => registry'.val = m.reg
  BY <1>1 DEF Filled, Readable, Holding, Garbled
<1>4. Readable(registry)' => registry'.val \subseteq registered'
  BY <1>2, <1>3 DEF Readable
<1>5. \A q \in Process : Trusted(mem[q])'
  <2>1. \A q \in Process : mem'[q] = mem[q] \/ (q = p /\ mem'[q] = Blank)
    BY DEF FillRegistry, End, TypeOK
  <2> QED
    BY <2>1, <1>1, <1>2, TrustKept, BlankTrusted
<1>6. \A u : EntitledTo(u) \subseteq EntitledTo(u)'
  BY <1>1, <1>2, EntitledGrows
<1>7. \A u \in User : OnFile(u)' => Names(keys'[u].val) \subseteq EntitledTo(u)'
  BY <1>1, <1>6 DEF EntitlementInv, OnFile
<1>8. OpenedByEntitled'
  <2>1. \A o \in opened : Satisfied(o.pkg.policy, EntitledTo(o.user)')
    BY <1>6 DEF EntitlementInv, OpenedByEntitled, Satisfied
  <2> QED
    BY <1>1, <2>1 DEF OpenedByEntitled, EntitledTo
<1> QED
  BY <1>4, <1>5, <1>7, <1>8 DEF EntitlementInv

LEMMA KeySaved ==
  ASSUME TypeOK, EntitlementInv, NEW p \in Process, FillKey(p)
  PROVE  EntitlementInv'
<1> DEFINE m == mem[p]
<1>1. /\ m \in Memory /\ Trusted(m) /\ UNCHANGED <<registry, opened, registered, granted, mem>>
  BY DEF FillKey, TypeOK, EntitlementInv
<1>2. m.cmd.op = "issue"
  <2>1. pc[p] = "fillKey" /\ pc[p] \in Reaches(m.cmd.op)
    BY DEF FillKey, TypeOK
  <2> QED
    BY <2>1 DEF Reaches
<1>3. \A u \in User : OnFile(u)' => Names(keys'[u].val) \subseteq EntitledTo(u)
  <2>1. PICK f \in Filled(keys[m.cmd.user], m.key) : keys' = [keys EXCEPT ![m.cmd.user] = f]
    BY DEF FillKey
  <2>2. Readable(f) => f.val = m.key
    BY DEF Filled, Readable, Holding, Garbled
  <2>3. Names(m.key) \subseteq EntitledTo(m.cmd.user)
    BY <1>1, <1>2 DEF Trusted
  <2> QED
    BY <2>1, <2>2, <2>3 DEF TypeOK, OnFile, EntitlementInv
<1>4. \A u : EntitledTo(u)' = EntitledTo(u)
  BY <1>1 DEF EntitledTo
<1>5. \A q \in Process : Trusted(mem[q])'
  BY <1>1, TrustKept
<1>6. OpenedByEntitled' /\ (Readable(registry)' => registry'.val \subseteq registered')
  BY <1>1 DEF EntitlementInv, OpenedByEntitled, EntitledTo
<1> QED
  BY <1>3, <1>4, <1>5, <1>6 DEF EntitlementInv

LEMMA PlaintextWritten ==
  ASSUME TypeOK, EntitlementInv, NEW p \in Process, WritePlaintext(p)
  PROVE  EntitlementInv'
<1> DEFINE m == mem[p]
           new == [user |-> m.cmd.user, pkg |-> m.pkg, by |-> m.id]
<1>1. /\ Trusted(m) /\ UNCHANGED <<registry, keys, registered, granted, mem>>
      /\ opened' = opened \cup {new} /\ Opens(m.key, m.pkg)
  BY DEF WritePlaintext, EntitlementInv
<1>2. m.cmd.op = "decrypt"
  <2>1. pc[p] = "open" /\ pc[p] \in Reaches(m.cmd.op)
    BY DEF WritePlaintext, TypeOK
  <2> QED
    BY <2>1 DEF Reaches
<1>3. Satisfied(m.pkg.policy, EntitledTo(m.cmd.user))
  BY <1>1, <1>2, OpensSatisfied DEF Trusted
<1>4. \A o \in opened' : Satisfied(o.pkg.policy, EntitledTo(o.user))
  BY <1>1, <1>3 DEF EntitlementInv, OpenedByEntitled
<1>5. OpenedByEntitled'
  BY <1>1, <1>4 DEF OpenedByEntitled, EntitledTo
<1>6. \A q \in Process : Trusted(mem[q])'
  BY <1>1, TrustKept
<1>7. \A u \in User : OnFile(u)' => Names(keys'[u].val) \subseteq EntitledTo(u)'
  BY <1>1 DEF EntitlementInv, OnFile, EntitledTo
<1> QED
  BY <1>1, <1>5, <1>6, <1>7 DEF EntitlementInv

LEMMA CommandBegun ==
  ASSUME TypeOK, EntitlementInv, NEW p \in Process, NEW c \in Command, Begin(p, c)
  PROVE  EntitlementInv'
<1>1. /\ UNCHANGED <<disk, registered, granted>>
      /\ \A q \in Process \ {p} : mem'[q] = mem[q]
  BY DEF Begin, TypeOK
<1>2. mem'[p].reg = {} /\ mem'[p].names = {} /\ mem'[p].key = NoKey
  BY DEF Begin, Blank, TypeOK
<1>3. Trusted(mem[p])'
  BY <1>2 DEF Trusted, Names, NoKey
<1>4. \A q \in Process : Trusted(mem[q])'
  BY <1>1, <1>3, TrustKept
<1> QED
  BY <1>1, <1>4, FilesKept DEF EntitlementInv, disk

LEMMA EntitlementInit == Init => EntitlementInv
<1> SUFFICES ASSUME Init PROVE EntitlementInv
  OBVIOUS
<1>1. ~ Readable(Absent)
  BY DEF Readable, Absent
<1>2. \A p \in Process : Trusted(mem[p])
  BY DEF Init, Trusted, Blank, NoCommand, NoKey, Names
<1> QED
  BY <1>1, <1>2 DEF Init, EntitlementInv, OnFile, OpenedByEntitled

LEMMA EntitlementNext == TypeOK /\ EntitlementInv /\ [Next]_vars => EntitlementInv'
<1> SUFFICES ASSUME TypeOK, EntitlementInv, [Next]_vars PROVE EntitlementInv'
  OBVIOUS
<1>1. ASSUME NEW p \in Process, NEW c \in Command, Begin(p, c) PROVE EntitlementInv'
  BY <1>1, CommandBegun
<1>2. ASSUME NEW p \in Process, Crash(p) PROVE EntitlementInv'
  BY <1>2, QuietStep
<1>3. ASSUME NEW p \in Process, Step(p) PROVE EntitlementInv'
  BY <1>3, QuietStep, RegistryLoads, ClaimsAccepted, KeyMinted, KeyLoaded, RegistrySaved,
     KeySaved, PlaintextWritten DEF Step, ChangeRevocation
<1>4. CASE UNCHANGED vars
  BY <1>4 DEF vars, disk, EntitlementInv, OpenedByEntitled, EntitledTo, OnFile, Trusted
<1> QED
  BY <1>1, <1>2, <1>3, <1>4 DEF Next

\* Whoever decrypts a package was entitled to attributes that satisfy its
\* policy, however commands overlap and wherever they stop: the permission
\* check of cmd_issue, the merge and re-mint, and envelope_open together
\* never lend a user more than authorities claimed for him.
THEOREM OnlyEntitledOpen == Spec => []OpenedByEntitled
<1>1. Init => TypeOK /\ EntitlementInv
  BY InitType, EntitlementInit
<1>2. TypeOK /\ EntitlementInv /\ [Next]_vars => (TypeOK /\ EntitlementInv)'
  BY NextType, EntitlementNext
<1>3. TypeOK /\ EntitlementInv => OpenedByEntitled
  BY DEF EntitlementInv
<1> QED
  BY <1>1, <1>2, <1>3, PTL DEF Spec

-----------------------------------------------------------------------------
(* Audit records and effects.  A command is its number; the inductive      *)
(* invariant says at which control points an effect with the number of a   *)
(* command exists, and that the record with that number does not until the *)
(* command ends.                                                           *)

Active(p) == pc[p] # "idle"

\* What the number of a running command is the number of.
CarriesNumber(p) ==
  /\ mem[p].id \in 1 .. clock
  /\ mem[p].cmd.op = "issue" /\ pc[p] \in {"saveSetup", "fillSetup", "saveKey", "fillKey"} =>
       mem[p].key.r = mem[p].id
  /\ mem[p].cmd.op = "encrypt" /\ pc[p] \in {"saveSetup", "fillSetup", "seal"} =>
       mem[p].pkg.id = mem[p].id

\* What a command has done when it comes to its record.
Done(p) ==
  /\ mem[p].cmd.op = "encrypt" /\ pc[p] = "record" => mem[p].pkg \in packages
  /\ mem[p].cmd.op = "decrypt" /\ pc[p] = "record" /\ Opens(mem[p].key, mem[p].pkg) =>
       \E o \in opened : o.by = mem[p].id

\* ... and nobody else has done under its number.
Unrecorded(p) ==
  /\ \A o \in opened : o.by = mem[p].id =>
       mem[p].cmd.op = "decrypt" /\ pc[p] = "record" /\ Opens(mem[p].key, mem[p].pkg)
  /\ \A e \in audit : e.cmd # mem[p].id

Effects == {keys[u].val.r : u \in {v \in User : OnFile(v)}}
             \cup {k.id : k \in packages} \cup {o.by : o \in opened}
Explained(n) ==
  \/ \E e \in audit : e.cmd = n
  \/ \E p \in Process : pc[p] = "record" /\ mem[p].id = n
  \/ n \in crashed

Ledger ==
  /\ \A p \in Process : Active(p) => CarriesNumber(p) /\ Done(p) /\ Unrecorded(p)
  /\ \A p, q \in Process : Active(p) /\ Active(q) /\ mem[p].id = mem[q].id => p = q
  /\ \A e \in audit : e.cmd \in 1 .. clock
  /\ \A o \in opened : o.by \in 1 .. clock
AllExplained == \A n \in Effects : Explained(n)
BooksInv == Ledger /\ AllExplained /\ RecordsAreTrue

\* What RecordsAreTrue says of one record.
TrueRecord(e) ==
  /\ e.action = "ENCRYPT" => \E k \in packages : k.id = e.pkg
  /\ e.action = "DECRYPT_SUCCESS" => \E o \in opened : o.by = e.cmd
  /\ e.action = "DECRYPT_DENIED" => \A o \in opened : o.by # e.cmd
  /\ e.action = "ISSUE_KEY" => e.names \subseteq EntitledTo(e.user)
LEMMA RecordByRecord == RecordsAreTrue <=> \A e \in audit : TrueRecord(e)
BY DEF RecordsAreTrue, TrueRecord

-----------------------------------------------------------------------------
(* What a step of p leaves of each part of the invariant.                  *)

\* Only p moves; what it writes bears its number.
Only(p) ==
  /\ \A q \in Process \ {p} : pc'[q] = pc[q] /\ mem'[q] = mem[q]
  /\ clock' = clock
  /\ packages \subseteq packages'
  /\ opened \subseteq opened' /\ \A o \in opened' \ opened : o.by = mem[p].id
  /\ audit \subseteq audit' /\ \A e \in audit' \ audit : e.cmd = mem[p].id
  /\ crashed \subseteq crashed'
  /\ registered \subseteq registered' /\ granted \subseteq granted'

LEMMA LedgerStep ==
  ASSUME Ledger, NEW p \in Process, Active(p), Only(p),
         \/ pc'[p] = "idle"
         \/ mem'[p].id = mem[p].id /\ CarriesNumber(p)' /\ Done(p)' /\ Unrecorded(p)'
  PROVE  Ledger'
<1>1. ASSUME NEW q \in Process \ {p}, Active(q)
      PROVE  (CarriesNumber(q) /\ Done(q) /\ Unrecorded(q))'
  <2>1. CarriesNumber(q) /\ Done(q) /\ Unrecorded(q) /\ mem[q].id # mem[p].id
    BY <1>1 DEF Ledger
  <2>2. pc'[q] = pc[q] /\ mem'[q] = mem[q] /\ clock' = clock
    BY <1>1 DEF Only
  <2>3. CarriesNumber(q)'
    BY <2>1, <2>2 DEF CarriesNumber
  <2>4. Done(q)'
    BY <2>1, <2>2 DEF Done, Only, Opens, Names
  <2>5. Unrecorded(q)'
    BY <2>1, <2>2 DEF Unrecorded, Only, Opens, Names
  <2> QED
    BY <2>3, <2>4, <2>5
<1>2. \A q \in Process : Active(q)' =>
        /\ (CarriesNumber(q) /\ Done(q) /\ Unrecorded(q))'
        /\ Active(q) /\ mem'[q].id = mem[q].id
  <2> TAKE q \in Process
  <2>1. CASE q = p
    BY <2>1 DEF Active
  <2>2. CASE q # p
    BY <2>2, <1>1 DEF Only, Active
  <2> QED
    BY <2>1, <2>2
<1>3. mem[p].id \in 1 .. clock
  BY DEF Ledger, CarriesNumber
<1>4. \A e \in audit' : e.cmd \in 1 .. clock'
  BY <1>3 DEF Ledger, Only
<1>5. \A o \in opened' : o.by \in 1 .. clock'
  BY <1>3 DEF Ledger, Only
<1>6. \A q, r \in Process : Active(q)' /\ Active(r)' /\ mem'[q].id = mem'[r].id => q = r
  BY <1>2 DEF Ledger
<1> QED
  BY <1>2, <1>4, <1>5, <1>6 DEF Ledger

LEMMA ExplainedStep ==
  ASSUME AllExplained, NEW p \in Process, Only(p), NEW i, i = mem[p].id,
         \A n \in Effects' : n \in Effects \/ n = i,
         pc[p] = "record" \/ i \in Effects' => Explained(i)'
  PROVE  AllExplained'
<1> SUFFICES ASSUME NEW n \in Effects' PROVE Explained(n)'
  BY DEF AllExplained
<1>1. CASE n = i
  BY <1>1
<1>2. CASE n # i
  <2>1. Explained(n)
    BY <1>2 DEF AllExplained
  <2>2. CASE \E e \in audit : e.cmd = n
    BY <2>2 DEF Explained, Only
  <2>3. CASE n \in crashed
    BY <2>3 DEF Explained, Only
  <2>4. CASE \E q \in Process : pc[q] = "record" /\ mem[q].id = n
    BY <1>2, <2>4 DEF Explained, Only
  <2> QED
    BY <2>1, <2>2, <2>3, <2>4 DEF Explained
<1> QED
  BY <1>1, <1>2

LEMMA RecordsStep ==
  ASSUME Ledger, RecordsAreTrue, NEW p \in Process, Active(p), Only(p),
         \A e \in audit' \ audit : TrueRecord(e)'
  PROVE  RecordsAreTrue'
<1>1. ASSUME NEW e \in audit PROVE TrueRecord(e)'
  <2>1. TrueRecord(e) /\ e.cmd # mem[p].id
    BY RecordByRecord DEF Ledger, Unrecorded
  <2>2. \A u : EntitledTo(u) \subseteq EntitledTo(u)'
    BY EntitledGrows DEF Only
  <2>3. e.action = "ISSUE_KEY" => e.names \subseteq EntitledTo(e.user)'
    BY <2>1, <2>2 DEF TrueRecord
  <2>4. /\ e.action = "ENCRYPT" => \E k \in packages' : k.id = e.pkg
        /\ e.action = "DECRYPT_SUCCESS" => \E o \in opened' : o.by = e.cmd
        /\ e.action = "DECRYPT_DENIED" => \A o \in opened' : o.by # e.cmd
    BY <2>1 DEF TrueRecord, Only
  <2> QED
    BY <2>3, <2>4 DEF TrueRecord, EntitledTo
<1>2. \A e \in audit' : TrueRecord(e)'
  BY <1>1
<1> QED
  BY <1>2 DEF RecordsAreTrue, TrueRecord


-----------------------------------------------------------------------------
(* Steps that write no effect and no record.                               *)

Busy == {"saveSetup", "fillSetup", "saveKey", "fillKey", "seal"}

\* A step of p after which no file but one it has emptied is different.
Effectless(p) ==
  /\ pc[p] \notin {"idle", "record"}
  /\ \A q \in Process \ {p} : pc'[q] = pc[q] /\ mem'[q] = mem[q]
  /\ UNCHANGED <<clock, packages, opened, audit, crashed>>
  /\ registered \subseteq registered' /\ granted \subseteq granted'
  /\ \A u \in User : keys'[u] \in {keys[u], Empty}
\* ... and p goes on with the same command.
GoesOnAlike(p) ==
  /\ mem'[p].id = mem[p].id /\ mem'[p].cmd = mem[p].cmd
  /\ pc'[p] = "record" => /\ mem[p].cmd.op # "encrypt"
                          /\ mem[p].cmd.op = "decrypt" => ~ Opens(mem[p].key, mem[p].pkg)'

LEMMA EffectlessStep ==
  ASSUME BooksInv, NEW p \in Process, Effectless(p),
         pc'[p] = "idle" \/ (GoesOnAlike(p) /\ CarriesNumber(p)')
  PROVE  BooksInv'
<1>1. Only(p) /\ Active(p) /\ pc[p] # "record"
  BY DEF Effectless, Only, Active
<1>2. CarriesNumber(p) /\ Unrecorded(p)
  BY <1>1 DEF BooksInv, Ledger
<1>5. Ledger'
  <2>1. CASE pc'[p] = "idle"
    BY <1>1, <2>1, LedgerStep DEF BooksInv
  <2>2. CASE GoesOnAlike(p) /\ CarriesNumber(p)'
    <3>1. \A o \in opened' : o.by # mem'[p].id
      BY <1>1, <1>2, <2>2 DEF Unrecorded, Effectless, GoesOnAlike
    <3>2. Unrecorded(p)'
      BY <1>2, <2>2, <3>1 DEF Unrecorded, Effectless, GoesOnAlike
    <3>3. Done(p)'
      BY <2>2 DEF Done, GoesOnAlike
    <3> QED
      BY <1>1, <2>2, <3>2, <3>3, LedgerStep DEF BooksInv, GoesOnAlike
  <2> QED
    BY <2>1, <2>2
<1>6. Effects' \subseteq Effects
  <2>1. \A u \in User : OnFile(u)' => OnFile(u) /\ keys'[u] = keys[u]
    BY DEF Effectless, OnFile, Readable, Empty
  <2> QED
    BY <2>1 DEF Effects, Effectless
<1>7. AllExplained'
  <2>1. \A n : Explained(n) => Explained(n)'
    BY <1>1 DEF Explained, Only
  <2> QED
    BY <1>6, <2>1 DEF BooksInv, AllExplained
<1>8. RecordsAreTrue'
  BY <1>1, RecordsStep DEF BooksInv, Effectless
<1> QED
  BY <1>5, <1>7, <1>8 DEF BooksInv

\* A command fails before it has written anything.
LEMMA FailStep ==
  ASSUME TypeOK, BooksInv, NEW p \in Process, LoadFails(p) \/ Refuse(p) \/ KeygenFails(p)
  PROVE  BooksInv'
<1>1. Private /\ End(p) /\ pc[p] \notin {"idle", "record"}
  BY DEF LoadFails, Refuse, KeygenFails, At
<1>2. /\ pc'[p] = "idle" /\ \A q \in Process \ {p} : pc'[q] = pc[q] /\ mem'[q] = mem[q]
  BY <1>1 DEF End, Goto, TypeOK
<1>3. Effectless(p)
  BY <1>1, <1>2 DEF Effectless, Private, disk
<1> QED
  BY <1>2, <1>3, EffectlessStep

\* Steps before the command has anything to write.
LEMMA LoadStep ==
  ASSUME TypeOK, BooksInv, NEW p \in Process,
         \/ LoadSetup(p) \/ RegisterAuthority(p) \/ LoadRegistry(p) \/ OpenForTags(p)
         \/ AcceptClaims(p) \/ BumpEpoch(p) \/ ListUser(p) \/ LoadKey(p)
  PROVE  BooksInv'
<1>0. pc \in [Process -> Label] /\ mem \in [Process -> Memory]
  BY DEF TypeOK
<1>1. /\ pc[p] \notin {"idle", "record"} /\ pc'[p] \notin Busy \cup {"idle", "record"}
      /\ \A q \in Process \ {p} : pc'[q] = pc[q] /\ mem'[q] = mem[q]
  BY <1>0 DEF LoadSetup, RegisterAuthority, LoadRegistry, OpenForTags, AcceptClaims, BumpEpoch,
              ListUser, LoadKey, At, Goto, Busy
<1>2. /\ mem'[p].id = mem[p].id /\ mem'[p].cmd = mem[p].cmd
  BY <1>0 DEF LoadSetup, RegisterAuthority, LoadRegistry, OpenForTags, AcceptClaims, BumpEpoch,
              ListUser, LoadKey, Memory
<1>3. Effectless(p)
  <2>1. CASE AcceptClaims(p)
    BY <1>1, <2>1 DEF AcceptClaims, Effectless, disk
  <2>2. CASE ~ AcceptClaims(p)
    <3>1. Private
      BY <2>2 DEF LoadSetup, RegisterAuthority, LoadRegistry, OpenForTags, BumpEpoch,
                  ListUser, LoadKey
    <3> QED
      BY <1>1, <3>1 DEF Private, Effectless, disk
  <2> QED
    BY <2>1, <2>2
<1>4. GoesOnAlike(p)
  BY <1>1, <1>2 DEF GoesOnAlike
<1>5. CarriesNumber(p)'
  <2>1. mem[p].id \in 1 .. clock /\ clock' = clock
    BY <1>1, <1>3 DEF BooksInv, Ledger, CarriesNumber, Active, Effectless
  <2> QED
    BY <1>1, <1>2, <2>1 DEF CarriesNumber, Busy
<1> QED
  BY <1>3, <1>4, <1>5, EffectlessStep

\* cmd_issue mints its key: the key carries the command's number.
LEMMA MintStep ==
  ASSUME TypeOK, BooksInv, NEW p \in Process, MergeAndMint(p)
  PROVE  BooksInv'
<1> DEFINE m == mem[p]
           n == [m EXCEPT !.key = Keygen(m.pp, MergedNames(p), m.id)]
<1>1. /\ mem'[p] = n /\ pc[p] = "mergeKey" /\ pc'[p] = "saveSetup" /\ Private
      /\ \A q \in Process \ {p} : pc'[q] = pc[q] /\ mem'[q] = mem[q]
      /\ m \in Memory
  BY DEF MergeAndMint, Goto, TypeOK
<1>2. n.id = m.id /\ n.cmd = m.cmd /\ n.key.r = m.id
  BY <1>1 DEF Memory, Keygen
<1>3. m.cmd.op = "issue"
  BY <1>1 DEF TypeOK, Reaches
<1> HIDE DEF n
<1>4. Effectless(p) /\ GoesOnAlike(p)
  BY <1>1, <1>2 DEF Effectless, GoesOnAlike, Private, disk
<1>5. CarriesNumber(p)'
  <2>1. m.id \in 1 .. clock /\ clock' = clock
    BY <1>1, <1>4 DEF BooksInv, Ledger, CarriesNumber, Active, Effectless
  <2> QED
    BY <1>1, <1>2, <1>3, <2>1 DEF CarriesNumber
<1> QED
  BY <1>4, <1>5, EffectlessStep

\* cmd_encrypt settles what it will store: the package has its number.
LEMMA RetagStep ==
  ASSUME TypeOK, BooksInv, NEW p \in Process, RetagPolicy(p)
  PROVE  BooksInv'
<1> DEFINE m == mem[p]
           pol == Retag(Loaded(revocation, Default), m.cmd.policy)
           pp == RegisterAttributes(m.pp, Leaves(pol), m.id)
           n == [m EXCEPT !.pp = pp, !.pkg = SealPackage(pp, pol, m.id)]
<1>1. /\ mem'[p] = n /\ pc[p] = "openRevocation" /\ pc'[p] = "saveSetup" /\ Private
      /\ \A q \in Process \ {p} : pc'[q] = pc[q] /\ mem'[q] = mem[q]
      /\ m \in Memory /\ m.cmd.op = "encrypt"
  BY DEF RetagPolicy, Goto, TypeOK, At
<1>2. n.id = m.id /\ n.cmd = m.cmd /\ n.pkg.id = m.id
  BY <1>1 DEF Memory, SealPackage
<1> HIDE DEF n
<1>4. Effectless(p) /\ GoesOnAlike(p)
  BY <1>1, <1>2 DEF Effectless, GoesOnAlike, Private, disk
<1>5. CarriesNumber(p)'
  <2>1. m.id \in 1 .. clock /\ clock' = clock
    BY <1>1, <1>4 DEF BooksInv, Ledger, CarriesNumber, Active, Effectless
  <2> QED
    BY <1>1, <1>2, <2>1 DEF CarriesNumber
<1> QED
  BY <1>4, <1>5, EffectlessStep

\* Writes of setup.json, authorities.json and revocation.json, and the
\* truncation of a key, leave no effect that has a record.
LEMMA SaveStep ==
  ASSUME TypeOK, BooksInv, NEW p \in Process,
         \/ TruncateSetup(p) \/ FillSetup(p) \/ TruncateRegistry(p)
         \/ TruncateRevocation(p) \/ FillRevocation(p) \/ TruncateKey(p) \/ Deny(p)
  PROVE  BooksInv'
<1>0. pc \in [Process -> Label] /\ keys \in [User -> File(Key)] /\ pc[p] \in Reaches(mem[p].cmd.op)
  BY DEF TypeOK
<1>1. /\ mem' = mem /\ pc[p] \notin {"idle", "record"}
      /\ \A q \in Process \ {p} : pc'[q] = pc[q]
      /\ UNCHANGED <<clock, packages, opened, audit, crashed, registered, granted>>
  BY <1>0 DEF TruncateSetup, FillSetup, TruncateRegistry, TruncateRevocation, FillRevocation,
              TruncateKey, Deny, Goto, disk
<1>2. \A u \in User : keys'[u] \in {keys[u], Empty}
  BY <1>0 DEF TruncateSetup, FillSetup, TruncateRegistry, TruncateRevocation, FillRevocation,
              TruncateKey, Deny, disk
<1>3. Effectless(p)
  BY <1>1, <1>2 DEF Effectless
<1>4. GoesOnAlike(p)
  <2>1. CASE FillRevocation(p)
    <3>1. mem[p].cmd.op \notin {"encrypt", "decrypt"}
      BY <1>0, <2>1 DEF FillRevocation, Reaches
    <3> QED
      BY <1>1, <3>1 DEF GoesOnAlike
  <2>2. CASE Deny(p)
    <3>1. ~ Opens(mem[p].key, mem[p].pkg) /\ mem[p].cmd.op # "encrypt"
      BY <1>0, <2>2 DEF Deny, Reaches
    <3> QED
      BY <1>1, <3>1 DEF GoesOnAlike, Opens, Names
  <2>3. CASE \/ TruncateSetup(p) \/ FillSetup(p) \/ TruncateRegistry(p)
             \/ TruncateRevocation(p) \/ TruncateKey(p)
    <3>1. pc'[p] # "record"
      BY <1>0, <2>3 DEF TruncateSetup, FillSetup, TruncateRegistry, TruncateRevocation,
                        TruncateKey, Goto
    <3> QED
      BY <1>1, <3>1 DEF GoesOnAlike
  <2> QED
    BY <2>1, <2>2, <2>3
<1>5. CarriesNumber(p)'
  <2>1. CarriesNumber(p)
    BY <1>1 DEF BooksInv, Ledger, Active
  <2>2. CASE TruncateSetup(p) \/ FillSetup(p) \/ TruncateKey(p)
    BY <1>0, <1>1, <2>1, <2>2 DEF CarriesNumber, TruncateSetup, FillSetup, TruncateKey, Goto, Reaches
  <2>3. CASE TruncateRegistry(p) \/ TruncateRevocation(p) \/ FillRevocation(p) \/ Deny(p)
    BY <1>0, <1>1, <2>1, <2>3
       DEF CarriesNumber, TruncateRegistry, TruncateRevocation, FillRevocation, Deny, Goto
  <2> QED
    BY <2>2, <2>3
<1> QED
  BY <1>3, <1>4, <1>5, EffectlessStep

\* register-authority ends here; setup goes on to its record.
LEMMA RegistryStep ==
  ASSUME TypeOK, BooksInv, NEW p \in Process, FillRegistry(p)
  PROVE  BooksInv'
<1>1. /\ pc[p] = "fillRegistry"
      /\ \A q \in Process \ {p} : pc'[q] = pc[q] /\ mem'[q] = mem[q]
      /\ UNCHANGED <<clock, packages, opened, audit, crashed, keys, granted>>
      /\ registered \subseteq registered'
  BY DEF FillRegistry, End, Goto, TypeOK
<1>2. Effectless(p)
  BY <1>1 DEF Effectless
<1>3. CASE mem[p].cmd.op # "setup"
  BY <1>2, <1>3, EffectlessStep DEF FillRegistry, End, Goto, TypeOK
<1>4. CASE mem[p].cmd.op = "setup"
  <2>1. mem' = mem /\ pc'[p] = "record"
    BY <1>4 DEF FillRegistry, Goto, TypeOK
  <2>2. CarriesNumber(p)
    BY <1>1 DEF BooksInv, Ledger, Active
  <2>3. GoesOnAlike(p) /\ CarriesNumber(p)'
    BY <1>1, <1>4, <2>1, <2>2 DEF GoesOnAlike, CarriesNumber
  <2> QED
    BY <1>2, <2>3, EffectlessStep
<1> QED
  BY <1>3, <1>4

-----------------------------------------------------------------------------
(* Steps that write an effect.  The command goes on to its record.         *)

\* A step of p that writes one effect with its number.
Effectful(p) ==
  /\ pc[p] \notin {"idle", "record"} /\ pc' = [pc EXCEPT ![p] = "record"]
  /\ UNCHANGED <<mem, clock, audit, crashed, registered, granted>>
  /\ packages \subseteq packages'
  /\ opened \subseteq opened' /\ \A o \in opened' \ opened : o.by = mem[p].id
  /\ \A n \in Effects' : n \in Effects \/ n = mem[p].id

LEMMA EffectfulStep ==
  ASSUME TypeOK, BooksInv, NEW p \in Process, Effectful(p), Done(p)', Unrecorded(p)'
  PROVE  BooksInv'
<1>1. pc'[p] = "record" /\ \A q \in Process \ {p} : pc'[q] = pc[q]
  BY DEF Effectful, TypeOK
<1>2. Only(p) /\ Active(p)
  BY <1>1 DEF Effectful, Only, Active
<1>3. CarriesNumber(p) /\ CarriesNumber(p)'
  <2>1. CarriesNumber(p)
    BY <1>2 DEF BooksInv, Ledger
  <2> QED
    BY <1>1, <2>1 DEF CarriesNumber, Effectful
<1>4. Ledger'
  BY <1>2, <1>3, LedgerStep DEF BooksInv, Effectful
<1>5. AllExplained'
  <2> DEFINE i == mem[p].id
  <2>1. Explained(i)'
    BY <1>1 DEF Explained, Effectful
  <2>2. \A n \in Effects' : n \in Effects \/ n = i
    BY DEF Effectful
  <2>3. ASSUME NEW n, Explained(n) PROVE Explained(n)'
    BY <1>1, <2>3 DEF Explained, Effectful
  <2>4. \A n \in Effects' : Explained(n)'
    <3> TAKE n \in Effects'
    <3>1. CASE n \in Effects
      BY <2>3, <3>1 DEF BooksInv, AllExplained
    <3>2. CASE n = i
      BY <3>2, <1>1 DEF Explained, Effectful
    <3> QED
      BY <2>2, <3>1, <3>2
  <2> QED
    BY <2>4 DEF AllExplained
<1>6. RecordsAreTrue'
  BY <1>2, RecordsStep DEF BooksInv, Effectful
<1> QED
  BY <1>4, <1>5, <1>6 DEF BooksInv

LEMMA KeyStep ==
  ASSUME TypeOK, BooksInv, NEW p \in Process, FillKey(p)
  PROVE  BooksInv'
<1> DEFINE m == mem[p]
<1>1. /\ pc[p] = "fillKey" /\ pc' = [pc EXCEPT ![p] = "record"]
      /\ UNCHANGED <<mem, clock, audit, crashed, registered, granted, packages, opened>>
  BY DEF FillKey, Goto
<1>2. m.cmd.op = "issue"
  BY <1>1 DEF TypeOK, Reaches
<1>3. m.key.r = m.id /\ Unrecorded(p)
  BY <1>1, <1>2 DEF BooksInv, Ledger, Active, CarriesNumber
<1>4. PICK f \in Filled(keys[m.cmd.user], m.key) : keys' = [keys EXCEPT ![m.cmd.user] = f]
  BY DEF FillKey
<1>5. Readable(f) => f.val = m.key
  BY DEF Filled, Readable, Holding, Garbled
<1>6. \A u \in User : OnFile(u)' => keys'[u].val.r = m.id \/ (OnFile(u) /\ keys'[u] = keys[u])
  BY <1>3, <1>4, <1>5 DEF TypeOK, OnFile
<1>7. \A n \in Effects' : n \in Effects \/ n = m.id
  BY <1>1, <1>6 DEF Effects
<1>8. Effectful(p)
  BY <1>1, <1>7 DEF Effectful
<1>9. Done(p)' /\ Unrecorded(p)'
  <2>1. \A o \in opened : o.by # m.id
    BY <1>1, <1>3 DEF Unrecorded
  <2> QED
    BY <1>1, <1>2, <1>3, <2>1 DEF Done, Unrecorded
<1> QED
  BY <1>8, <1>9, EffectfulStep

LEMMA PutStep ==
  ASSUME TypeOK, BooksInv, NEW p \in Process, PutPackage(p)
  PROVE  BooksInv'
<1> DEFINE m == mem[p]
<1>1. /\ pc[p] = "seal" /\ pc' = [pc EXCEPT ![p] = "record"]
      /\ UNCHANGED <<mem, clock, audit, crashed, registered, granted, keys, opened>>
      /\ packages' = packages \cup {m.pkg}
  BY DEF PutPackage, Goto
<1>2. m.cmd.op = "encrypt"
  BY <1>1 DEF TypeOK, Reaches
<1>3. m.pkg.id = m.id /\ Unrecorded(p)
  BY <1>1, <1>2 DEF BooksInv, Ledger, Active, CarriesNumber
<1>4. \A n \in Effects' : n \in Effects \/ n = m.id
  BY <1>1, <1>3 DEF Effects, OnFile
<1>5. Effectful(p)
  BY <1>1, <1>4 DEF Effectful
<1>6. Done(p)' /\ Unrecorded(p)'
  <2>1. \A o \in opened : o.by # m.id
    BY <1>1, <1>3 DEF Unrecorded
  <2> QED
    BY <1>1, <1>2, <1>3, <2>1 DEF Done, Unrecorded
<1> QED
  BY <1>5, <1>6, EffectfulStep

LEMMA PlaintextStep ==
  ASSUME TypeOK, BooksInv, NEW p \in Process, WritePlaintext(p)
  PROVE  BooksInv'
<1> DEFINE m == mem[p]
           new == [user |-> m.cmd.user, pkg |-> m.pkg, by |-> m.id]
<1>1. /\ pc[p] = "open" /\ pc' = [pc EXCEPT ![p] = "record"] /\ pc'[p] = "record"
      /\ UNCHANGED <<mem, clock, audit, crashed, registered, granted, keys, packages>>
      /\ opened' = opened \cup {new} /\ Opens(m.key, m.pkg)
  BY DEF WritePlaintext, Goto, TypeOK
<1>2. m.cmd.op = "decrypt"
  BY <1>1 DEF TypeOK, Reaches
<1>3. Unrecorded(p)
  BY <1>1 DEF BooksInv, Ledger, Active
<1>4. \A n \in Effects' : n \in Effects \/ n = m.id
  BY <1>1 DEF Effects, OnFile
<1>5. Effectful(p)
  BY <1>1, <1>4 DEF Effectful
<1>6. Opens(mem[p].key, mem[p].pkg)'
  BY <1>1 DEF Opens, Names
<1>7. Done(p)'
  <2>1. new \in opened' /\ new.by = mem'[p].id /\ mem'[p].cmd.op = "decrypt"
    BY <1>1, <1>2
  <2> QED
    BY <2>1 DEF Done
<1>8. Unrecorded(p)'
  BY <1>1, <1>2, <1>3, <1>6 DEF Unrecorded
<1> QED
  BY <1>5, <1>7, <1>8, EffectfulStep

-----------------------------------------------------------------------------
(* The record, an interruption and a new command.                          *)

\* What EventOf says, command by command.
LEMMA EventParts ==
  ASSUME TypeOK, NEW p \in Process, pc[p] = "record"
  PROVE  LET m == mem[p]
             e == EventOf(p)
         IN /\ e.cmd = m.id
            /\ e.action = "ENCRYPT" => m.cmd.op = "encrypt" /\ e.pkg = m.pkg.id
            /\ e.action = "DECRYPT_SUCCESS" => m.cmd.op = "decrypt" /\ Opens(m.key, m.pkg)
            /\ e.action = "DECRYPT_DENIED" => m.cmd.op = "decrypt" /\ ~ Opens(m.key, m.pkg)
            /\ e.action = "ISSUE_KEY" => /\ m.cmd.op = "issue" /\ e.user = m.cmd.user
                                         /\ e.names = Names(m.key)
<1> DEFINE m == mem[p]
<1>1. m.cmd.op \in {"setup", "issue", "encrypt", "decrypt", "revokeAttribute", "revokeUser"}
  BY DEF TypeOK, Reaches
<1>2. CASE m.cmd.op = "setup"
  BY <1>2 DEF EventOf
<1>3. CASE m.cmd.op = "issue"
  BY <1>3 DEF EventOf
<1>4. CASE m.cmd.op = "encrypt"
  BY <1>4 DEF EventOf
<1>5. CASE m.cmd.op = "decrypt"
  <2>1. EventOf(p) = [cmd |-> m.id, user |-> m.cmd.user, pkg |-> m.pkg.id,
                      action |-> IF Opens(m.key, m.pkg) THEN "DECRYPT_SUCCESS"
                                                        ELSE "DECRYPT_DENIED"]
    BY <1>5 DEF EventOf
  <2>2. CASE Opens(m.key, m.pkg)
    BY <1>5, <2>1, <2>2
  <2>3. CASE ~ Opens(m.key, m.pkg)
    BY <1>5, <2>1, <2>3
  <2> QED
    BY <2>2, <2>3
<1>6. CASE m.cmd.op = "revokeAttribute"
  BY <1>6 DEF EventOf
<1>7. CASE m.cmd.op = "revokeUser"
  BY <1>7 DEF EventOf
<1> QED
  BY <1>1, <1>2, <1>3, <1>4, <1>5, <1>6, <1>7

LEMMA RecordStep ==
  ASSUME TypeOK, EntitlementInv, BooksInv, NEW p \in Process, Record(p)
  PROVE  BooksInv'
<1> DEFINE m == mem[p]
           e == EventOf(p)
<1>1. /\ pc[p] = "record" /\ pc'[p] = "idle" /\ audit' = audit \cup {e}
      /\ \A q \in Process \ {p} : pc'[q] = pc[q] /\ mem'[q] = mem[q]
      /\ UNCHANGED <<clock, crashed, registered, granted, keys, packages, opened>>
  BY DEF Record, End, Goto, TypeOK
<1>2. /\ e.cmd = m.id
      /\ e.action = "ENCRYPT" => m.cmd.op = "encrypt" /\ e.pkg = m.pkg.id
      /\ e.action = "DECRYPT_SUCCESS" => m.cmd.op = "decrypt" /\ Opens(m.key, m.pkg)
      /\ e.action = "DECRYPT_DENIED" => m.cmd.op = "decrypt" /\ ~ Opens(m.key, m.pkg)
      /\ e.action = "ISSUE_KEY" => /\ m.cmd.op = "issue" /\ e.user = m.cmd.user
                                   /\ e.names = Names(m.key)
  BY <1>1, EventParts
<1> HIDE DEF e
<1>3. Only(p) /\ Active(p)
  BY <1>1, <1>2 DEF Only, Active
<1>4. Ledger'
  BY <1>1, <1>3, LedgerStep DEF BooksInv
<1>5. AllExplained'
  <2> DEFINE i == mem[p].id
  <2>1. \E r \in audit' : r.cmd = i
    BY <1>1, <1>2
  <2>2. Effects' = Effects
    BY <1>1 DEF Effects, OnFile
  <2>3. ASSUME NEW n \in Effects PROVE Explained(n)'
    <3>1. Explained(n)
      BY DEF BooksInv, AllExplained
    <3> QED
      BY <1>1, <2>1, <3>1 DEF Explained
  <2> QED
    BY <2>2, <2>3 DEF AllExplained
<1>6. ASSUME NEW r \in audit' \ audit PROVE TrueRecord(r)'
  <2>0. r = e
    BY <1>1
  <2>1. Done(p) /\ Unrecorded(p) /\ Trusted(m)
    BY <1>3 DEF BooksInv, Ledger, EntitlementInv
  <2>2. /\ e.action = "ENCRYPT" => \E k \in packages : k.id = e.pkg
        /\ e.action = "DECRYPT_SUCCESS" => \E o \in opened : o.by = e.cmd
    BY <1>1, <1>2, <2>1 DEF Done
  <2>3. e.action = "DECRYPT_DENIED" => \A o \in opened : o.by # e.cmd
    BY <1>2, <2>1 DEF Unrecorded
  <2>4. e.action = "ISSUE_KEY" => e.names \subseteq EntitledTo(e.user)
    BY <1>2, <2>1 DEF Trusted
  <2>5. \A u : EntitledTo(u)' = EntitledTo(u)
    BY <1>1 DEF EntitledTo
  <2>6. r.action = "ISSUE_KEY" => r.names \subseteq EntitledTo(r.user)'
    BY <2>0, <2>4, <2>5
  <2>7. /\ r.action = "ENCRYPT" => \E k \in packages' : k.id = r.pkg
        /\ r.action = "DECRYPT_SUCCESS" => \E o \in opened' : o.by = r.cmd
        /\ r.action = "DECRYPT_DENIED" => \A o \in opened' : o.by # r.cmd
    BY <1>1, <2>0, <2>2, <2>3
  <2> QED
    BY <2>6, <2>7 DEF TrueRecord, EntitledTo
<1> QED
  BY <1>1, <1>3, <1>4, <1>5, <1>6, RecordsStep DEF BooksInv

LEMMA CrashLeaves ==
  ASSUME TypeOK, BooksInv, NEW p \in Process, Crash(p)
  PROVE  BooksInv'
<1>1. /\ pc[p] # "idle" /\ pc'[p] = "idle" /\ crashed' = crashed \cup {mem[p].id}
      /\ \A q \in Process \ {p} : pc'[q] = pc[q] /\ mem'[q] = mem[q]
      /\ UNCHANGED <<clock, audit, registered, granted, keys, packages, opened>>
  BY DEF Crash, End, Goto, TypeOK, disk
<1>2. Only(p) /\ Active(p)
  BY <1>1 DEF Only, Active
<1>3. Ledger'
  BY <1>1, <1>2, LedgerStep DEF BooksInv
<1>4. AllExplained'
  <2>1. Effects' = Effects
    BY <1>1 DEF Effects, OnFile
  <2>2. ASSUME NEW n \in Effects PROVE Explained(n)'
    <3>1. Explained(n)
      BY DEF BooksInv, AllExplained
    <3> QED
      BY <1>1, <3>1 DEF Explained
  <2> QED
    BY <2>1, <2>2 DEF AllExplained
<1> QED
  BY <1>1, <1>2, <1>3, <1>4, RecordsStep DEF BooksInv

\* A new command has a number that nothing bears.
LEMMA BeginBooks ==
  ASSUME TypeOK, BooksInv, NEW p \in Process, NEW c \in Command, Begin(p, c)
  PROVE  BooksInv'
<1>1. /\ pc[p] = "idle" /\ clock \in Nat /\ clock' = clock + 1 /\ mem'[p].id = clock'
      /\ \A q \in Process \ {p} : pc'[q] = pc[q] /\ mem'[q] = mem[q]
      /\ UNCHANGED <<audit, crashed, registered, granted, keys, packages, opened>>
  BY DEF Begin, Goto, TypeOK, disk, Blank
<1>2. c.op \in {"setup", "register", "issue", "encrypt", "decrypt", "revokeAttribute", "revokeUser"}
      /\ mem'[p].cmd = c
  BY CommandAssumption, CommandParts DEF Begin, TypeOK, Blank
<1>3. /\ pc'[p] \in {"saveSetup", "loadRegistry", "loadSetup", "openRevocation"}
      /\ pc'[p] = "saveSetup" => c.op = "setup"
  BY <1>2 DEF Begin, Goto, TypeOK
<1>4. CarriesNumber(p)' /\ Done(p)'
  BY <1>1, <1>2, <1>3 DEF CarriesNumber, Done
<1>5. Unrecorded(p)'
  BY <1>1 DEF Unrecorded, BooksInv, Ledger
<1>6. ASSUME NEW q \in Process \ {p}, Active(q)
      PROVE  (CarriesNumber(q) /\ Done(q) /\ Unrecorded(q))' /\ mem'[q].id # mem'[p].id
  <2>1. CarriesNumber(q) /\ Done(q) /\ Unrecorded(q)
    BY <1>6 DEF BooksInv, Ledger
  <2>2. pc'[q] = pc[q] /\ mem'[q] = mem[q]
    BY <1>1
  <2>3. CarriesNumber(q)' /\ mem'[q].id # mem'[p].id
    BY <1>1, <2>1, <2>2 DEF CarriesNumber
  <2>4. Done(q)'
    BY <1>1, <2>1, <2>2 DEF Done, Opens, Names
  <2>5. Unrecorded(q)'
    BY <1>1, <2>1, <2>2 DEF Unrecorded, Opens, Names
  <2> QED
    BY <2>3, <2>4, <2>5
<1>7. Ledger'
  <2>1. \A q \in Process : Active(q)' => (CarriesNumber(q) /\ Done(q) /\ Unrecorded(q))'
    BY <1>1, <1>4, <1>5, <1>6 DEF Active
  <2>2. \A q, r \in Process : Active(q)' /\ Active(r)' /\ mem'[q].id = mem'[r].id => q = r
    <3> SUFFICES ASSUME NEW q \in Process, NEW r \in Process, Active(q)', Active(r)',
                        mem'[q].id = mem'[r].id, q # r
                 PROVE  FALSE
      OBVIOUS
    <3>1. q # p /\ r # p
      BY <1>1, <1>6 DEF Active
    <3> QED
      BY <1>1, <3>1 DEF BooksInv, Ledger, Active
  <2>3. (\A e \in audit' : e.cmd \in 1 .. clock') /\ (\A o \in opened' : o.by \in 1 .. clock')
    BY <1>1 DEF BooksInv, Ledger
  <2> QED
    BY <2>1, <2>2, <2>3 DEF Ledger
<1>8. AllExplained'
  <2>1. Effects' = Effects
    BY <1>1 DEF Effects, OnFile
  <2>2. ASSUME NEW n \in Effects PROVE Explained(n)'
    <3>1. Explained(n)
      BY DEF BooksInv, AllExplained
    <3> QED
      BY <1>1, <3>1 DEF Explained
  <2> QED
    BY <2>1, <2>2 DEF AllExplained
<1>9. RecordsAreTrue'
  BY <1>1 DEF BooksInv, RecordsAreTrue, EntitledTo
<1> QED
  BY <1>7, <1>8, <1>9 DEF BooksInv

-----------------------------------------------------------------------------
LEMMA BooksInit == Init => BooksInv
<1> SUFFICES ASSUME Init PROVE BooksInv
  OBVIOUS
<1>1. Effects = {}
  BY DEF Init, Effects, OnFile, Readable, Absent
<1> QED
  BY <1>1 DEF Init, BooksInv, Ledger, AllExplained, RecordsAreTrue, Active

LEMMA BooksNext == TypeOK /\ EntitlementInv /\ BooksInv /\ [Next]_vars => BooksInv'
<1> SUFFICES ASSUME TypeOK, EntitlementInv, BooksInv, [Next]_vars PROVE BooksInv'
  OBVIOUS
<1>1. ASSUME NEW p \in Process, NEW c \in Command, Begin(p, c) PROVE BooksInv'
  BY <1>1, BeginBooks
<1>2. ASSUME NEW p \in Process, Crash(p) PROVE BooksInv'
  BY <1>2, CrashLeaves
<1>3. ASSUME NEW p \in Process, Step(p) PROVE BooksInv'
  BY <1>3, FailStep, LoadStep, MintStep, RetagStep, SaveStep, RegistryStep, KeyStep, PutStep,
     PlaintextStep, RecordStep DEF Step, ChangeRevocation
<1>4. CASE UNCHANGED vars
  <2>1. UNCHANGED <<keys, packages, opened, audit, pc, mem, clock, registered, granted, crashed>>
    BY <1>4 DEF vars, disk
  <2>2. Ledger'
    BY <2>1 DEF BooksInv, Ledger, Active, CarriesNumber, Done, Unrecorded, Opens, Names
  <2>3. AllExplained'
    BY <2>1 DEF BooksInv, AllExplained, Effects, Explained, OnFile
  <2>4. RecordsAreTrue'
    BY <2>1 DEF BooksInv, RecordsAreTrue, EntitledTo
  <2> QED
    BY <2>2, <2>3, <2>4 DEF BooksInv
<1> QED
  BY <1>1, <1>2, <1>3, <1>4 DEF Next

LEMMA BooksAlways == Spec => []BooksInv
<1>1. Init => TypeOK /\ EntitlementInv /\ BooksInv
  BY InitType, EntitlementInit, BooksInit
<1>2. TypeOK /\ EntitlementInv /\ BooksInv /\ [Next]_vars => (TypeOK /\ EntitlementInv /\ BooksInv)'
  BY NextType, EntitlementNext, BooksNext
<1> QED
  BY <1>1, <1>2, PTL DEF Spec

\* Every key, package and plaintext on disk has its audit record, unless its
\* command is about to write it or was interrupted: the commands of main.rs
\* write the record after the effect, and nothing but a crash comes between.
THEOREM NoEffectMissed == Spec => []EffectsRecorded
<1>1. BooksInv => EffectsRecorded
  BY DEF BooksInv, AllExplained, Effects, Explained, EffectsRecorded
<1> QED
  BY <1>1, BooksAlways, PTL

\* No audit record claims what did not happen, however commands overlap.
THEOREM NoRecordInvented == Spec => []RecordsAreTrue
<1>1. BooksInv => RecordsAreTrue
  BY DEF BooksInv
<1> QED
  BY <1>1, BooksAlways, PTL
=============================================================================
