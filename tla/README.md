# Verification of secure-abe

TLA+ models of secure-abe, a command line for attribute-based encryption of
documents, the TLC runs that check them on small instances, and TLAPS proofs
of what holds for every instance. File and line references are to the
repository under `src/`.

## 1. The system

### Components

| component | code | state | operations |
|---|---|---|---|
| command line | `cli/src/main.rs` | the data directory | `setup`, `register-authority`, `issue`, `encrypt`, `decrypt`, `revoke-attribute`, `revoke-user`, `list`, `audit`, `demo` |
| CP-ABE scheme | `core/src/scheme.rs`, `keys.rs` | public parameters with one commitment per attribute name, master secret (`setup.json`); user keys (`keys/<user>.json`) | `setup`, `register_attribute`, `keygen`, `encrypt_key`, `decrypt_key` |
| secret sharing | `core/src/share.rs` | none | `share_secret`, `recombine`, `lagrange_combine` |
| codec | `core/src/codec.rs` | none | hex and JSON forms of the above |
| policy language | `policy/src/parser.rs`, `tree.rs` | none | `parse`, `is_satisfied_by`, `leaves` |
| authorities | `authorities/src/lib.rs` | authorities and the key prefixes they control (`authorities.json`) | `register`, `check_permission`, `Claim::resolve`, `issue` |
| revocation | `revocation/src/lib.rs` | epoch per attribute, revoked users (`revocation.json`) | `open`, `tag`, `revoke_attribute`, `revoke_user`, `is_user_revoked` |
| envelope | `envelope/src/lib.rs` | none | `seal`, `open` |
| package store | `storage/src/lib.rs` | `packages/<id>/` with three files each | `put`, `get`, `list` |
| audit log | `audit/src/lib.rs` | `audit.log` | `record`, `read_all` |

### How they interact

There is no server. Each command is a process that loads the files it needs,
calls the libraries in its own memory, writes whole files back and, except for
`register-authority`, `list` and `audit`, appends one audit record. Commands
interact only through the data directory:

```
setup              -> W setup        W authorities                   -> audit
register-authority    R authorities  W authorities
issue                 R setup  R authorities  R revocation (tags)  R revocation (revoked?)
                      R key    W setup  W key                        -> audit
encrypt               R setup  R revocation  W setup  W package      -> audit
decrypt               R setup  R key  R package  W plaintext         -> audit
revoke-*              R revocation   W revocation                    -> audit
```

An attribute name is a flat string and an epoch tag (`clearance>=4@epoch1`).
A name is given an exponent the first time a command meets it; the exponent
lives in `setup.json`, and keys and packages both contain group elements
derived from it. A key carries one random `r` and cannot be appended to, so
`issue` mints the key again over the old names and the new ones.

### What is hard

* **Interleaving.** Nothing locks the directory. Every command that writes
  `setup.json`, `revocation.json`, `authorities.json` or a key writes back what
  it loaded earlier, changed.
* **Atomicity.** `fs::write` truncates and then fills; `writeln!` on the audit
  file is two appends; `put` writes three files.
* **Crashes and failures.** A command may stop between any two file accesses.
  A file left truncated makes later loads fail, except the key that `issue`
  merges: there (`if let Ok(existing)`, `main.rs:292`) it counts as missing.
* **Stale copies.** `issue` uses two copies of `revocation.json` and one of
  `authorities.json`, read before its writes.
* **Sequences of legal commands.** `setup` over a live directory; `issue`
  after `revoke-attribute`; an authority registered again with less control.
* **Boundaries of numbers.** Thresholds at 0 and above the maximum of a
  claim; gates whose threshold is 0, 1 or larger than their number of children.
* **Texts on two sides.** A key opens a package only if a name made of the
  arguments of `issue` is, character for character, a name made of the text of
  a policy; the two take different ways through different conversions.
* **Algebra.** Shares down a tree, pairings, recombination up the tree and a
  random `r` per key have to cancel out exactly when the key satisfies the
  policy, and not when parts of two keys are put together.

Each hazard is listed with its line and the properties aimed at it in
`PROJECT.json`.

### What makes each component correct

* command line, scheme: a key whose names satisfy a policy opens the package;
  nobody opens a package without having been granted attributes that satisfy
  it; a key can always be minted again; effects and audit records match;
* revocation: an acknowledged revocation stays, and keys minted before it do
  not open what is encrypted after it; a revoked user gets no new key;
* authorities: a name reaches a key only through an authority that was
  registered with control of its prefix, and what one authority may name
  another one whose controls do not overlap may not; a numeric claim satisfies
  exactly the thresholds that it reaches;
* policy language: a policy is accepted and satisfied as its text says, and
  survives tagging;
* secret sharing, envelope: recombination succeeds exactly on satisfying sets
  and gives the shared secret whichever children it uses; parts of different
  keys do not combine; a package opens only under the policy it was sealed for;
* audit log: an audit that succeeds leaves nothing out and takes nothing back;
* package store: a printed id can be decrypted, a listing is complete;
* command line as a whole: commands that take turns do what an access control
  without files, keys and crashes in the middle would do (`AccessControl`).

## 2. Modules

| module | what it is |
|---|---|
| `AccessControl` | the abstract specification: names, documents, who is answered what |
| `AbeModel` | what `Deployment` needs to know of the CP-ABE scheme |
| `Deployment` | all commands over one data directory, at the granularity of file accesses |
| `SerialDeployment` | `Deployment` with commands that take turns implements `AccessControl`; liveness |
| `MCDeployment` | instances of the two for TLC, and a bounded specification |
| `DeploymentProofs` | types, entitlement, audit records and effects, for `Deployment` |
| `SerialProofs` | keys, packages, grants and revocations, for commands that take turns; the refinement of `AccessControl`, step by step |
| `AccessTree` | threshold trees, and their flat form |
| `AccessTreeProofs` | induction over trees, and what the functions on them return |
| `PolicyLanguage` | tokenizer and parser, and what a policy text means |
| `Claims` | from arguments of `issue` and `register-authority` to names and controls |
| `Naming` | the names that authorities bring into being |
| `Vocabulary`, `MCVocabulary` | the operators' texts: what is named, what is asked for, and whether the two meet |
| `VocabularyProofs` | theorems about the parser, policies, claims and names |
| `Cpabe`, `MCCpabe` | the scheme, secret sharing and the envelope in a prime field |
| `CpabeProofs` | theorems about recombination and packages |
| `AuditLog`, `MCAuditLog` | `audit.log` as processes append to it |
| `AuditLogProofs` | theorems about `AuditLog` |
| `PackageStore`, `MCPackageStore` | `packages/` file by file |
| `PackageStoreProofs` | theorems about `PackageStore` |
| `NaturalSets` | a least element and induction for sets of numbers, for the proofs |

How they are composed:

```
AccessControl <== SerialDeployment --extends--> Deployment --extends--> AbeModel
                  (refinement)                                             ^  ^
AuditLog, PackageStore: inside one step of Deployment                      |  |
Cpabe      --extends--> AccessTree      checks that AbeModel is right -----+  |
Vocabulary --extends--> PolicyLanguage           (policies as lists) ---------+
           --extends--> Naming --extends--> Claims
```

`Deployment` decides with `AbeModel` whether a key opens a package, and keeps
a policy as a list of alternatives. `Cpabe` runs the algebra next to `AbeModel`
and `OpensAsModelled` says that they agree, also for keys and packages made
from different copies of `setup.json`; `FlatFormAgrees` says that the list of
alternatives is the parsed policy.

`Deployment` treats the audit log and the package store as components with
atomic operations: a record is appended in one step, a package appears in one
step, and `decrypt` is given ids that were printed before. `AuditLog` and
`PackageStore` look inside these operations. `PrintedIdsCanBeGot` is what
justifies the second simplification; the first is justified for the content
of the log (`TrailIsComplete`), not for its readability, which overlapping
records destroy (`audit_overlap`).

### Deployment

Every variable is a file or a set of files, except `pc` and `mem` (control
point and local variables of each process) and the histories `registered`,
`granted`, `crashed` and `clock`. A file is `Absent`, `Empty` (truncated),
`Garbled` (does not parse) or holds a value.

| action | code |
|---|---|
| `Begin` | a process starts with its arguments; `setup` draws the master secret |
| `LoadFails`, `LoadSetup`, `LoadRegistry`, `LoadKey` | `load_*` in `main.rs` and `RevocationList::open`, failing or not |
| `RegisterAuthority` | load and change of the registry in `cmd_register_authority` |
| `OpenForTags`, `Refuse`, `AcceptClaims` | the two opens of the revocation list, the revoked check, `check_permission`, tagging and registration in `cmd_issue` |
| `MergeAndMint`, `KeygenFails` | the merge with the key on file, and `keygen` |
| `RetagPolicy` | `retag_tree`, registration of the leaves, and what sealing will contain |
| `ChangeRevocation`: `BumpEpoch`, `ListUser` | `revoke_attribute`, `revoke_user` up to their save |
| `Truncate*`, `Fill*` | the two steps of `fs::write`, for each JSON file |
| `PutPackage` | `PackageStore::put` |
| `Deny`, `WritePlaintext` | the two branches of `cmd_decrypt` |
| `Record` | `AuditLog::record`, the end of every command but `register-authority` |
| `Crash` | the process is killed, or an access returns an I/O error |

Abstractions. A random scalar is the number of the command that drew it, so
scalars of different commands differ; within a command, scalars only differ
through the names they belong to. A group element is the scalar it hides. A
policy is the list of its alternatives, one set of leaves for each way to
satisfy its gates, in the order in which `recombine` comes upon them: taking
the first satisfied children is taking the first alternative whose leaves are
all held. Decryption succeeds
exactly when the pairings cancel: same master secret, and for each name of the
chosen set the same commitment in key and package. A numeric claim is the set
of names it resolves to. The timestamps and texts of audit records are left
out.

When two writes overlap (a file filled by one process is filled again by
another that truncated it earlier), the result is either the second value or
`Garbled`: the second text starts at offset 0 and, if it is shorter, a tail of
the first remains. A reader sees `Empty` between the two steps of a write.

### AuditLog

The file is a sequence of chunks: the text of a record, a torn text, a
newline. `Begin`, `WriteText` and `WriteNewline` are `record`, `ReadAll` is
`read_all` when it succeeds, `Crash` an interruption with or without part of
the text written.

### PackageStore

`Begin`, `Write` (six times, two per file) and `Return` are `put`;
`BeginList`, `Visit`, `ListFails` and `EndList` are `list`, which walks the
directory while other processes put. A directory entry made during the walk
may or may not be returned by it. `Gettable` is when `get` succeeds. `Crash`
leaves the directory as it is at that moment.

### AccessControl and SerialDeployment

`AccessControl` has no files and no keys: a registry, epochs and revoked users,
the names every user has, the documents, and the answers given. `Create` and
`Clear` are `setup` in two steps, `Register`, `Grant`, `Publish`, `Answer`,
`RevokeAttribute` and `RevokeUser` the other commands, one step each. A part of
the deployment that an interrupted command left unreadable is `down`;
`LosePart` and `LoseNames` are the only damage that an interruption may do.

The mapping in `SerialDeployment` reads the abstract state off the files. A
save takes effect when it truncates: until the file is filled, its content in
force is the one in the memory of the process that fills it next. An
interruption at that point is a `LosePart` or, for a key, a `LoseNames`; every
other step of a command, its loads, checks, minting and tagging, is a stutter.
An answer is a plaintext or, for a refusal, the `DECRYPT_DENIED` record.

### AccessTree and PolicyLanguage

`IsSatisfiedBy`, `LeavesOf` and `RetagTree` are the functions on `AccessTree`
(`tree.rs`, `retag_tree`); `Alternatives` is the flat form. What walks over a
tree is a recursive function on `AnyTree`, the trees with names from `Name` and
at most `MaxDepth` gates on the way to a leaf. A text is a
sequence of pieces: the characters the program looks at (parentheses, space,
quote, `=`, `>`, `:`, comma), the keywords, and for everything else a piece
that no conversion looks into. `Tokenize`, `ParseAtom`, `Operands` and `Joined`
(`parse_or` and `parse_and`, which differ only in their operator), `Normalize`
and `Parse` are the parser with all its errors; `Parser` is what the parser's
functions return from every position, as one function of the position, since
none of them looks back. `WellFormed` and `Means` say
what a text means without a grammar.

### Claims, Naming and Vocabulary

`Claims` has `parse_claims`, `Claim::resolve`, `key_prefix`,
`check_permission` and the parsing of `--controls`, on such texts. In
`Naming`, `Register`, `Issue` (`cmd_issue`, all or nothing) and
`IssueByLibrary` (`authorities::issue`, which has registered the names before
a refused claim when it returns) name attributes, with one key on file that
`Issue` merges. `Issue` makes its claims of arguments (`Request`);
`IssueByLibrary` is called by Rust programs, with any claims they like
(`ClaimList`), also those that no argument gives, such as a text claim whose
key has a `=` in it. `Vocabulary` adds `Type`, which builds a policy word by
word, of parentheses, operators (`Keyword`) and attribute words. These come in
the order of the constant `Attributes`, which may have the same word many times:
so every policy is typed for some value of it. The behaviours of `Vocabulary`
are those of `Naming`, and those in which a policy is typed.

### Cpabe

A group element is its exponent, a pairing a product modulo a prime `Q`. A
random scalar is a pseudorandom function of what it is drawn for, so that
different purposes give different scalars; accidental equalities, which real
scalars have with a chance of 2^-255, are avoided by the choice of `Q` and
`Seed`. AES-GCM is a box that opens under the key and the associated data it
was closed with; the key derivation is one to one. `Setup`, `Issue` and
`Encrypt` are what the commands do with the scheme, each starting from any
bundle that `setup.json` ever held. Next to what the code computes every
bundle, key and package carries its counterpart in `AbeModel`. Decryption
changes no state and is part of the properties. The leaves of a ciphertext are
a set of records that hold their path, as the comment of `share_secret` has it
("keyed by that leaf's path"): nothing depends on their order. `LeafPaths` are
the paths, `ShareAt` is what the polynomials along one make of the secret, and
`Recombine` a function of node and path.

## 3. Specifications

* `Spec` — any commands, any overlap, any crash.
* `SharedSpec` — as `Spec`, but `setup` is only started in a directory without
  a usable `setup.json`, keys and packages, while nothing else runs
  (`FreshSetup`). The program does not check this itself.
* `SerialSpec` — one command at a time and `FreshSetup`: how the program is
  meant to be used.
* `FairSerialSpec` — `SerialSpec` with weak fairness of the steps of every
  process (but not of starting commands or of crashing).
* `AccessControl!Spec` — the abstract specification; `KeepsPromise` is its
  instance under the mapping.
* `Spec` of `Cpabe` and of `Vocabulary` — any sequence of commands.
* `PreparedSpec` (in `MCDeployment`) — bounds the interleavings of `Spec`:
  `setup` and `register-authority` run alone, `setup` once and first.

## 4. Runs

| run | specification | result |
|---|---|---|
| `serial` | `FairSerialSpec` | a key opens what its names satisfy; minting never fails on a name already held; revocations bite and stay, also across a crash anywhere; without a crash no granted attribute is lost; the whole implements `AccessControl`; accepted claims arrive in the key file and effects get their records |
| `overlap` | `PreparedSpec` | types; whoever decrypts was entitled; every effect has its record and no record is untrue |
| `audit` | `Spec` | an audit that succeeds is complete and never retracts; without overlap the log is exactly the records |
| `store` | `Spec` | a printed id can be got; a listing has every package stored before it began |
| `scheme` | `Spec` | `recombine` gives a value exactly for satisfying keys; a package opens exactly for satisfying keys, and as `AbeModel` says; parts of two keys do not combine; an edited policy or summary does not open |
| `language` | `Spec` | policies mean what they say, and so does their flat form; thresholds; controls that do not overlap name disjoint attributes; a plain claim matches the policy written like it, in every later key |
| `overlap_decrypt` | `SharedSpec` | violated: an overlapping `issue` and `encrypt` draw one name twice, and a satisfying key does not open the package |
| `overlap_grants` | `SharedSpec` | violated: of two overlapping `issue` for one user one is lost |
| `overlap_revocations` | `SharedSpec` | violated: of two overlapping revocations one is undone |
| `new_epoch` | `SerialSpec` | violated: a key issued after `revoke-attribute` is minted under the old epoch for the names it already had |
| `quoting` | `Spec` | violated: `--text 'department="security"'` names an attribute that the policy `department=security` does not ask for |
| `audit_overlap` | `Spec` | violated: overlapping records share a line and the log does not parse |

The violated properties quote what the repository's own text says; the
findings in `PROJECT.json` give both places. `src/docs/architecture.md` and
`src/README.md` present the program as a reference implementation, and none of
the findings concerns a single operator who runs one command at a time, except
`new_epoch` and `quoting`.

Some properties are weaker than one might first write, because the stronger
form is false:

* `UninterruptedGrantsHold` needs that no command was interrupted: a crash
  between truncating and filling a key file makes the next `issue` start from
  nothing.
* `NamesStayKnown` and the other properties of keys need `FreshSetup`. `cmd_setup`
  looks at nothing in the directory: over one in use it replaces `setup.json` and
  leaves the keys, whose names the new one does not know, so that the next
  `issue` for their users fails. `scheme.rs:50` has it "run once per deployment".
* `DecryptsIfSatisfied` speaks of keys and packages on disk, and holds under a
  crash because `setup.json` is saved before the key or the package.
* `TrailIsComplete` speaks of audits that succeed, and lets them show one event
  more than was recorded: its text is in the log and its newline is not yet.
* `OpensIffSatisfied` excepts gates with threshold 0 from one direction: such a
  gate is satisfied by every attribute set (`tree.rs`), but `recombine` finds
  no share for it (`share.rs:111`), so that a package under one opens for
  nobody. The parser makes none; the Rust interface can.
* `NumericThresholds` begins at 1: `clearance>=0` is satisfied by no numeric
  claim, whatever its value. Its names are `Plain`: one that is a keyword, or
  has a quote, white space or a parenthesis in it, is not one leaf of a policy.
* `WrittenAlikeMatch` is about claims that are `Plain` as the operator wrote
  them. `QuotingIsIncidental` is what the comment at `parser.rs:138` says,
  without this condition, and the run `quoting` shows it violated: `normalize` is
  applied to the words of policies only, so a quote or a space in a claim stays
  in the name of the attribute, which no policy can then ask for. Nor is the
  argument of `revoke-attribute` normalised.
* `ControlIsExclusive` is about controls that do not `Overlap`. Those that are
  different and nothing but letters never do. `clearance>` and `clearance` do:
  under the first an authority may issue the flag `clearance>=2`, under the
  second the numeric claims of that name. So do `a=b` and `a`: under the first,
  `authorities::issue` grants a text claim with the key `a=b` and the value `c`,
  under the second the flag `a=b=c`, and both name `a=b=c`. That name has both
  prefixes, so this is not against what `lib.rs:14` says, "restrict which
  attribute prefixes each may issue"; it is what exclusive control needs beyond
  controls that differ.

### Bounds

* `serial`: one user, one authority without restrictions, two attributes and an
  OR policy over them (so that `recombine` has a choice), six commands,
  decryption among them, of which one may crash anywhere. The shortest
  violations that the mutants produce take four or five commands (setup,
  register, issue, encrypt and a second issue, a revocation or a decryption), so
  six leave room for one more than is needed. One process is enough: with one
  command at a time nothing tells two of them apart, and its memory is
  cleared when it is idle. No symmetry is declared, since TLC's treatment of
  liveness is not sound with it.
* `overlap`: two users, two authorities of which one controls only the prefix
  of the other attribute, two attributes, five commands, two at a time with
  every interleaving of their file accesses, one crash. Setup and one or two
  registrations take their share of the five and run alone; two overlapping
  commands and one that follows (or that crashed) remain. The proofs below
  lift its four invariants to any number of everything and to `Spec` itself.
* `scheme`: trees of two gates on the way to a leaf at most (`MaxDepth`), and
  four commands over three attributes: a setup, an encryption and two
  keys, or two setups with a key from one and a package from either, or keys
  and packages from old and new copies of the bundle. Twelve policies: a leaf, both orders
  of an OR, nested gates both ways, a name that occurs twice, thresholds between
  1 and all, beyond all, and 0. `Q` is the largest prime below 2^20, with which
  the two halves of a product fit TLC's integers; the drawings of this run are free
  of accidental equalities, which would show as violations.
* `language`: every policy of up to seven words with up to four attributes, so that every sequence of two
  operators, with parentheses around either, and every malformed text of that
  length is parsed. The attributes are all different; the theorems are about any
  words, repeated or not. `MaxDepth` is 14, the pieces of the longest text: no text
  can nest deeper than it is long. `Piece` and `Name` are all strings and all
  sequences of them, of which TLC only meets those that the texts have. Numbers
  from -3 to 3 around a maximum of 3. Four calls: two
  registrations and two requests, out of six texts for `--controls`, one of them
  a control with `=` and one with `>`, fourteen requests with each kind of claim,
  malformed ones, and names that can be reached by two kinds, and seven lists of
  claims for `authorities::issue`: with `=` or `>` in a key, with a later claim
  that may be refused, and none at all. `quoting` is the same with one word.
* `audit`: three processes, five records, one crash; `store`: two processes
  that put three packages, two lists, one crash. A package that is complete, one
  that was left behind and one in the making exist at the same time.

Process identities are symmetric: nothing chooses among them. Users, attributes
and authorities are not, since the command lists treat them differently.

### Deadlock and fairness

`CHECK_DEADLOCK FALSE` in every configuration: a command ends, and when the
bounds are used up no step is left. Nothing in the program waits for anything
else, so there is no deadlock to find.

Liveness is stated for commands that take turns, under weak fairness of
`Step(p)` for each process: a command that can take its next step takes it.
The code justifies this, since no command waits for a lock, a message or
another command: only the scheduler can hold it up. Nothing makes operators
start commands, and nothing makes a process crash.

* `GrantsArrive`: again and again (every command ends) all claims that an
  authority accepted are in the key file of their user, unless a command was
  interrupted. After the claims are accepted there are still registration, the
  merge and the minting, none of which may fail, and two saves.
* `EffectsGetRecorded`: again and again every key, package and plaintext on
  disk has the audit record of its command, unless that one was interrupted.

Without turns the first is false, as `overlap_grants` shows.

## 5. Proofs

`ASSUME`d of the constants, each in the module that declares them, and
evaluated by TLC on its instances:

* `Command` is a set of command lines (`CommandAssumption`), `Request` a set of
  sequences of arguments and `ClaimList` one of sequences of claims
  (`RequestAssumption`), and the bounds are natural numbers. `User`, `Authority`, `Prefix`, `Attribute`, `Controls` and `Process`
  of `Deployment` are arbitrary sets.
* Trees have at most `MaxDepth` gates on the way to a leaf, for any number
  `MaxDepth` (`DepthAssumption`); the policies of `Cpabe` are such trees
  (`TreeAssumption`), over attributes that are numbers (`AttributeAssumption`:
  any set would do for the proofs).
* Different numbers are written differently and are pieces of text
  (`NumberAssumption`), as are the separators of claims (`PieceAssumption`), the
  words of policies and the mark of an epoch (`TextAssumption`). By the same
  assumption `Attributes` is any sequence of pieces but parentheses and spaces,
  keywords among them, and trees may be as deep as texts are long, so that the
  bound on trees bounds no policy.
* `Q` is between 2 and 2^20 (`FieldAssumption`), for TLC's integers; no proof
  uses it.

### Any commands, any overlap, any crash

`DeploymentProofs`:

* `TypeCorrect`: `Spec => []TypeOK`. `TypeOK` is inductive because it also says
  at which control points each command can be (`Reaches`): that is what gives
  the arguments of a command their types where they are used.
* `OnlyEntitledOpen`: `Spec => []OpenedByEntitled`. The property is not
  inductive: a step that opens a package looks at the key in memory, which came
  from a file, which came from the memory of an issuing process, which merged
  an older file and used a copy of the registry. `EntitlementInv` follows a name
  along this way: a readable registry, and each copy of it, holds only entries
  that were registered; the names an issuing process holds, a key in memory and
  a key on file hold only what their user is entitled to. Entitlements only grow
  (`EntitledGrows`). `QuietStep` deals with the steps that touch none of this,
  and one lemma each with the others.

* `NoEffectMissed`: `Spec => []EffectsRecorded`.
* `NoRecordInvented`: `Spec => []RecordsAreTrue`. For both, which use the two
  theorems above, the invariant `BooksInv` has three parts. `Ledger`: running commands have
  distinct numbers; from the mint on, the key or package in memory bears the
  number of its command; a plaintext or a record bearing the number of a running
  command exists only at the control point after it was written (for the
  record: never). `AllExplained` and `RecordsAreTrue` are the two properties.
  Steps are grouped by what they write: nothing that is recorded
  (`EffectlessStep`), one effect (`EffectfulStep`), a record (`RecordStep`).

### Commands that take turns

`SerialProofs` proves the six invariants of the run `serial`, of `SerialSpec`
and so of `FairSerialSpec`, for any number of users, attributes, policies,
commands and crashes: `DecryptionWorks` (`DecryptsIfSatisfied`), `ReissueWorks`
(`NamesStayKnown`), `OldKeysCutOff` (`RevocationBites`), `RevocationsStay`
(`AcknowledgedRevocationsHold`), `RevokedUserRefused` (`RevokedUserGetsNoKey`)
and `GrantsStay` (`UninterruptedGrantsHold`). None of them is inductive, and
they share the invariant `SerialInv`:

* `Turns`: at most one command is running, it is the last one that began, and a
  file that it is about to fill is the empty one it left.
* `Current`: what the running command holds in memory of the registry, the
  revocation list and the key it merges is what the files hold. This is what
  overlapping commands lose, and with it the properties that `overlap_decrypt`,
  `overlap_grants` and `overlap_revocations` show violated.
* `Coherent`: there is one bundle, on file or about to be, that has the
  commitments of all keys and packages, in memory and on disk, or there are no
  keys and packages. `setup.json` is saved before the key or package that needs
  it, so that a crash keeps `Coherent`; `FreshSetup` is what keeps it when
  `setup` runs. From it follow `NamesStayKnown`, and that the pairings
  cancel (`SatisfiedOpens`).
* `Revoked`: the list on file, or about to be, has every acknowledged revocation
  (`Binding`) and no key has a name from an epoch still to come; keys older than
  the revocation of an attribute bear smaller epochs of it (`KeysOlder`),
  packages younger than it at least its own (`PoliciesYounger`). For the order
  of commands to be the order of their numbers, records and effects bear the
  number of a command that began, the running one's only when it is done
  (`CarriesNumber`).
* `Given`: a recorded grant is in the key file, or in the memory of the process
  that truncated it, unless a command was interrupted.

Since `OneAtATime` names the actor, the proofs are arranged by what a step does
to one file (`SetupAfter`, `RevocationAfter` and so on say which steps change it).

`PromiseKept`: `SerialSpec => KeepsPromise`. `AccessControl`
has no fairness, so this is all of the refinement. `InForce` writes the mapping
down for a state in which one command runs. Then there is one lemma for each
way to step: the truncation of `setup.json`, of `authorities.json`, of
`revocation.json` and of a key is the abstract operation (`SetupTruncated`,
...); filling the file is a stutter (`FillingQuiet`), and stopping before it is
`LosePart` or `LoseNames` (`SetupLost`, ...); `PutPackage` is `Publish`; a
plaintext, or the record of a refusal, is `Answer` with the answer that
`AccessControl` gives, which is where `SerialInv` is needed most: the key on
file opens the package exactly if the names of the user satisfy its policy.
Everything else is a stutter (`ElsewhereQuiet`).

### Audit log

`AuditLogProofs`, for any number of processes, records and interruptions, with
overlap: `AuditTypeCorrect`, `NoRecordLeftOut` (`TrailIsComplete`), `AppendOnly`
(`TrailOnlyGrows`) and `LogReadsBack` (`LogIsRecord`). The invariant `LogInv`
follows from one observation (`LogIsSound`): a log that parses holds exactly the
recorded events (`Settled`), or these and one text at its end that waits for its
newline (`Waiting`), whoever wrote them; two texts side by side make a line that
never parses again. That what an audit shows is a beginning of the log
(`TrailInLog`) gives `AppendOnly`, and `TookTurns` says for `LogIsRecord` what
undisturbed records have left.

### Package store

`PackageStoreProofs`: `StoreTypeCorrect`, `StoreCorrect`
(`PrintedIdsCanBeGot`) and `ListsComplete` (`ListIsComplete`). The invariant
says how far the files of a package are after each step of its put
(`Progress`), that a directory with a manifest, whole or torn, has its other two
files (`Ready`), and that the packages a list still owes are ahead of it or
printed.

### Trees

A walk over a tree is a recursive function on `AnyTree`, and nothing can be said
of such a function before it is known to exist. `AccessTreeProofs` builds trees
in levels (`Level[n]`: at most `n` gates on the way to a leaf) and shows by
induction on the level that a fold exists (`FoldExists`), that a property of
leaves that goes from trees to the gates over them is one of all trees
(`TreeInduction`), and from these what `IsSatisfiedBy`, `LeavesOf`, `RetagTree`
and `Alternatives` return for a leaf and for a gate, what types they have, and
that `Alternatives` lists exactly the ways to satisfy a tree, before and after
retagging (`AlternativesSatisfy`, `AlternativesOfRetagged`).

### Policies

`VocabularyProofs`, of `Vocabulary`'s `Spec`, for policies of any number of words
(`MaxWords`) and any attribute words in them (`Attributes`):

* `PoliciesMeanTheirTexts` (`PolicyMeansItsText`). A *formula* of a sequence of
  tokens is a part whose parentheses match and whose tokens may follow one
  another (`Formula`); what it means, `Holds`, does not depend on at which of
  its outermost operators it is split (`HoldsSplits`). From a position on,
  `parse_or`, `parse_and` and `parse_atom` each are to find *the* formula that
  begins there, that has none of the operators left to their callers outside its
  parentheses, and that is not followed by any other operator (`Part`;
  `OnePart`: there is at most one), or to fail because there is none; the tree
  means what the formula means (`TreeRight`, `ListRight`). `ParserRight` proves this from the last
  position to the first, since a parser calls the others only further on:
  `AtomRight`, `OperandsRight` (the loop) and `JoinedRight` are its steps.
  `Parse` accepts if the formula from the first position is the whole
  (`ParseRight`). The other half is the tokenizer: `SpelledTokens` says that a
  text in which white space stands between any two words that are not
  parentheses has the words' tokens, whatever other white space it has; that is
  so of `Spaced` and `Tight` (`SpacedSpells`, `TightSpells`).
* `FlatFormIsFaithful` (`FlatFormAgrees`), from the lemmas on trees. They need
  that a parsed tree is one of `AnyTree` and that its gates can be satisfied:
  `ParserGrows` shows, by the same induction over positions, that what a parser
  returns has consumed at least as many tokens as its tree is deep, and that it
  is in every set that has the leaves for words and the gates 1 and n of n over
  two or more trees (`PolicySet`, `ParsedPolicy`).

### Names

`VocabularyProofs`, of the same `Spec`, for texts of any length and any controls,
requests and claims. `NamingInv` is shared: a name that was brought into being is
one of a claim whose prefix was permitted (`IssuedUnder`), and a key's names are
those of its claims (`KeyOfClaims`), which are claims of any kind, whether
`parse_claims` made them (`ArgumentsAreClaims`) or a Rust program.

* `ControlsExclude` (`ControlIsExclusive`): a name begins with the prefix that
  was checked and then ends or goes on with `=` or `>=` (`Heads`,
  `ClaimHeads`). Of two beginnings of one name the longer one goes on
  after the shorter as the name does (`HeadsGoOn`), and so the two prefixes
  overlap (`HeadsOverlap`).
* `PlainTextsMatch` (`WrittenAlikeMatch`): a text without white space and
  parentheses is one token, which is a leaf if it is no keyword (`PlainMatches`);
  the claim that is written like it names it (`WrittenIs`), and the names of a key
  are those of all its claims.
* `ThresholdsAreReached` (`NumericThresholds`): as before, and a name that ends
  in `>=n` shows its key and its `n`, as different numbers are written
  differently.

### The scheme

`CpabeProofs`, of `Cpabe`'s `Spec`, for any trees and any scalars:

* `RecombinationIsExact` (`RecombinesIffSatisfied`). `recombine` looks leaves up
  by path; `HeldByChild` is the step from a gate to a child, whose path is longer
  by one number, and `TreesGive` the induction. `PackagesInv` says that the
  leaves of a ciphertext are those of its tree.
* `OnlySatisfyingKeysOpen`, which follows: a package gives nothing to a key that
  does not satisfy its policy.
* `PackagesAreBound` (`BoundToItsPolicy`), from the associated data of the two
  boxes that `PackagesInv` knows.

### Induction

The library's induction theorems take an operator as a parameter, which the
provers cannot instantiate. `NaturalSets` has the two forms that can be used:
`LeastElement`, from `WFMin`, and `InductionInSet`, for a set instead of an
operator. With them the proofs deal with the levels of trees, the positions of a
parser, the first alternative that `recombine` settles on, the first separator
of a text, and `Events` of `AuditLog`, a recursive function of the length of the
log (`EventsAppend`).

### What is model-checked only

Every invariant and action property of the runs `serial`, `overlap`, `audit`,
`store` and `language` is proved, `overlap`'s without the bound on
interleavings, and so is the refinement. Checked by TLC only:

* `GrantsArrive` and `EffectsGetRecorded`: liveness and `ENABLED` are out of the
  prover's reach.
* `OpensIffSatisfied`, of which `OnlySatisfyingKeysOpen` is one half without its
  condition, `OpensAsModelled` and `PartsOfOneKeyOnly`. That satisfying keys get
  the document needs algebra modulo a prime (inverses and interpolation), which
  none of the provers does. That wrong keys and parts of keys get nothing is true
  of almost all drawings of the scalars and not of all: `Cpabe` fixes one by
  `Draw`, and such a property can only be evaluated.

## 6. Not modelled

* Cryptographic strength: the models decide by the algebra whether decryption
  succeeds, not what can be computed from group elements. Key derivation,
  hashing, nonces and the erasure of secrets are left out for the same reason.
* The rest of `codec`: hex and the JSON of keys and ciphertexts. The models use
  whether a file parses, and for `setup.json` what is kept and what is
  recomputed.
* The error types, which are declarations; of an error the models keep that
  the command ends and what it has done by then.
* Characters that only occur inside a piece of text, and white space other
  than a space.
* File names made of user names, permissions, and the choice of `--data`.
* `demo`, a fixed sequence of the other commands in a directory of its own.

## 7. Plan

The system is modelled, checked and proved as far as section 5 says. What could
still be done:

1. `OpensIffSatisfied` from the laws of a field and of interpolation as
   assumptions on `Mul`, `Invert` and `LagrangeCombine`, which would have to be
   left abstract in the module that is proved about.
2. Laws of `AbeModel` for copies of `setup.json` that differ: which keys still
   open which packages after overlapping commands.
