---------------------------- MODULE MCDeployment ----------------------------
(* Small deployments: two attributes controlled by two authorities.        *)
EXTENDS SerialDeployment, TLC

CONSTANTS p1, p2, ali, sara, hr, sec, dept, clr

Perms == Permutations(Process)

DeptClaim == [prefix |-> "department", attrs |-> {dept}]
ClrClaim  == [prefix |-> "clearance", attrs |-> {clr}]

Setup    == [op |-> "setup"]
Register(a, controls) == [op |-> "register", authority |-> a, controls |-> controls]
Issue(a, u, claims)   == [op |-> "issue", authority |-> a, user |-> u, claims |-> claims]
Encrypt(pol) == [op |-> "encrypt", policy |-> pol]
Decrypt(u)   == [op |-> "decrypt", user |-> u]
RevokeAttribute(a) == [op |-> "revokeAttribute", attribute |-> a]
RevokeUser(u)      == [op |-> "revokeUser", user |-> u]

\* One user, one unrestricted authority; an OR policy, so that `recombine`
\* has a choice to make.
CoreCommands ==
  {Setup, Register(hr, {}), Issue(hr, ali, {DeptClaim}), Issue(hr, ali, {ClrClaim}),
   Encrypt(<<{dept}, {clr}>>), RevokeAttribute(dept), RevokeUser(ali)}

\* The same with decryption.
SerialCommands == CoreCommands \cup {Decrypt(ali)}

\* Two users of whom only ali is ever granted the attribute of the narrow
\* policy, and an authority that may not grant it.
EntitledCommands ==
  {Setup, Register(hr, {"department"}), Register(sec, {}),
   Issue(sec, ali, {ClrClaim}), Issue(hr, sara, {ClrClaim}), Issue(hr, sara, {DeptClaim}),
   Encrypt(<<{clr}>>), Decrypt(ali), Decrypt(sara), RevokeAttribute(clr)}

\* Bound on interleavings: setup and register-authority run alone, each once.
AdministrationFirst ==
  \A p \in Process : pc[p] = "idle" /\ mem'[p].cmd.op \in {"setup", "register"} =>
    /\ \A q \in Process : pc[q] = "idle"
    /\ clock = 0 <=> mem'[p].cmd.op = "setup"
AdministrationAlone ==
  \A p, q \in Process : mem[p].cmd.op \in {"setup", "register"} /\ q # p => pc[q] = "idle"
PreparedSpec == Init /\ [][Next /\ AdministrationFirst /\ AdministrationAlone']_vars
=============================================================================
