------------------------------- MODULE Naming -------------------------------
(***************************************************************************)
(* Which attribute names the registered authorities bring into being.      *)
(*                                                                         *)
(* The keys are those of one user, and epoch tags are left to Deployment.  *)
(* `issue` of the command line and authorities::issue, which Rust programs *)
(* call, differ in the claims they can be given and in what a refused one  *)
(* leaves behind.                                                          *)
(***************************************************************************)
EXTENDS Claims

CONSTANTS
  Authority,    \* names given to --name / --authority
  Controls,     \* texts given to --controls
  Request,      \* sequences of claim arguments given to `issue`
  ClaimList,    \* sequences of claims given to authorities::issue
  MaxRequests   \* bound: calls of register-authority and issue

Argument == [option : {"--flag", "--text", "--numeric"}, text : Texts]
ASSUME RequestAssumption == Request \subseteq Seq(Argument) /\ ClaimList \subseteq Seq(Claim)

VARIABLES
  registry,  \* authorities.json: the controls of each registered authority
  file,      \* the user's key on file, with the claims it was issued for
  minted,    \* history: every key minted, with its claims
  named,     \* the names in the public parameters, and under which controls
  requests   \* calls so far

namingVars == <<registry, file, minted, named, requests>>

NoKey == [claims |-> {}, names |-> {}]

NamingInit ==
  /\ registry = << >>
  /\ file = NoKey
  /\ minted = {}
  /\ named = {}
  /\ requests = 0

Tick == requests < MaxRequests /\ requests' = requests + 1

\* cmd_register_authority
Register(a, text) ==
  /\ Tick
  /\ registry' = [x \in DOMAIN registry \cup {a} |->
                    IF x = a THEN ParseControls(text) ELSE registry[x]]
  /\ UNCHANGED <<file, minted, named>>

NamesOf(claims) == UNION {Resolve(c) : c \in claims}
NamedBy(a, claims) == {[controls |-> registry[a], name |-> x] : x \in NamesOf(claims)}
Permits(a, c) == a \in DOMAIN registry /\ CheckPermission(registry[a], c)

\* Mutant of Issue: the key on file is not merged, only its claims are kept.
IssueAnew(a, args) ==
  LET claims == ToSet([i \in DOMAIN args |-> ParseClaim(args[i])])
      key    == [claims |-> file.claims \cup claims, names |-> NamesOf(claims)]
  IN /\ Tick
     /\ Malformed \notin claims
     /\ \A c \in claims : Permits(a, c)
     /\ file' = key
     /\ minted' = minted \cup {key}
     /\ named' = named \cup NamedBy(a, claims)
     /\ UNCHANGED registry
\* cmd_issue: parse every argument, check and resolve every claim, and mint
\* over the new names and those of the key on file.  Any error returns before
\* anything is saved.
Issue(a, args) ==
  LET claims == ToSet([i \in DOMAIN args |-> ParseClaim(args[i])])
      key    == [claims |-> file.claims \cup claims, names |-> file.names \cup NamesOf(claims)]
  IN /\ Tick
     /\ Malformed \notin claims
     /\ \A c \in claims : Permits(a, c)
     /\ file' = key
     /\ minted' = minted \cup {key}
     /\ named' = named \cup NamedBy(a, claims)
     /\ UNCHANGED registry

\* authorities::issue, whose caller passes the claims and keeps the key: it
\* has registered the names of the claims before a refused one when it returns.
IssueByLibrary(a, claims) ==
  LET passed == {claims[i] : i \in {j \in DOMAIN claims : \A k \in 1 .. j : Permits(a, claims[k])}}
  IN /\ Tick
     /\ named' = named \cup NamedBy(a, passed)
     /\ minted' = IF passed = ToSet(claims)
                    THEN minted \cup {[claims |-> passed, names |-> NamesOf(passed)]}
                    ELSE minted
     /\ UNCHANGED <<registry, file>>

\* The commands that name attributes, and calls of the library.
CommandNext ==
  \E a \in Authority : (\E text \in Controls : Register(a, text))
                      \/ (\E args \in Request : Issue(a, args))
LibraryNext == \E a \in Authority, claims \in ClaimList : IssueByLibrary(a, claims)
NamingNext  == CommandNext \/ LibraryNext

-----------------------------------------------------------------------------
\* Names go on after the key of a claim with `=` or `>=`.  Two controls overlap
\* if a name under the one can be a name under the other: if they are equal or
\* one of them goes on, after the other, as a name would.
GoesOn(d, c) ==
  d = c \o <<">">> \/ IsPrefix(c \o <<"=">>, d) \/ IsPrefix(c \o <<">", "=">>, d)
Overlap(c, d) == c = d \/ GoesOn(c, d) \/ GoesOn(d, c)

\* "Restrict which attribute prefixes each may issue": two authorities of whose
\* controls no two overlap never name the same attribute, whatever claims the
\* command line or a Rust program makes and whether or not a later claim of the
\* request is refused.  Controls that differ overlap only if one of them has a
\* `=` in it or ends in `>`.
ControlIsExclusive ==
  \A n, m \in named :
    n.controls # {} /\ m.controls # {} /\ n.name = m.name =>
      \E c \in n.controls, d \in m.controls : Overlap(c, d)
=============================================================================
