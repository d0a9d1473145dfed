------------------------------- MODULE Claims -------------------------------
(***************************************************************************)
(* From the --flag, --text and --numeric arguments of `issue` to the       *)
(* attribute names that go into a key: parse_claims in cli/src/main.rs,    *)
(* resolve, key_prefix and check_permission in authorities/src/lib.rs,     *)
(* and the --controls of `register-authority` that they are checked for.   *)
(*                                                                         *)
(* Arguments and names are texts, sequences of pieces as in                *)
(* PolicyLanguage; a number is the piece that ToString makes of it.        *)
(***************************************************************************)
EXTENDS Integers, Sequences, SequencesExt

CONSTANTS
  Piece,     \* what texts are made of
  MaxNumber  \* bound: the numbers that arguments contain

Number == -MaxNumber .. MaxNumber
Texts  == Seq(Piece)

\* Different numbers are written differently.
ASSUME NumberAssumption ==
  /\ MaxNumber \in Nat \ {0}
  /\ \A i \in Number : ToString(i) \in Piece
  /\ \A i, j \in Number : ToString(i) = ToString(j) => i = j
ASSUME PieceAssumption == {"=", ">"} \subseteq Piece

\* str::parse::<i64>
IsNumber(text)  == \E i \in Number : text = <<ToString(i)>>
NumberIn(text)  == CHOOSE i \in Number : text = <<ToString(i)>>

\* split_once: at the first separator.
HasPiece(text, sep) == \E i \in DOMAIN text : text[i] = sep
FirstPiece(text, sep) == CHOOSE i \in DOMAIN text :
                           text[i] = sep /\ \A j \in 1 .. i - 1 : text[j] # sep
Before(text, sep) == SubSeq(text, 1, FirstPiece(text, sep) - 1)
After(text, sep)  == SubSeq(text, FirstPiece(text, sep) + 1, Len(text))

Flag(text)               == [kind |-> "flag", text |-> text]
Text(key, value)         == [kind |-> "text", key |-> key, value |-> value]
Numeric(key, value, max) == [kind |-> "numeric", key |-> key, value |-> value, max |-> max]
\* Any of them, as a Rust program may make them.
Claim ==
  [kind : {"flag"}, text : Texts] \cup [kind : {"text"}, key : Texts, value : Texts]
    \cup [kind : {"numeric"}, key : Texts, value : Number, max : Number]

\* parse_claims for one argument, [option, text]; a claim or an error.
Malformed == [kind |-> "malformed"]
ParseNumeric(text) ==
  LET kv == Before(text, ":")
  IN IF /\ HasPiece(text, ":") /\ HasPiece(kv, "=")
        /\ IsNumber(After(kv, "=")) /\ IsNumber(After(text, ":"))
       THEN Numeric(Before(kv, "="), NumberIn(After(kv, "=")), NumberIn(After(text, ":")))
       ELSE Malformed
ParseClaim(arg) ==
  CASE arg.option = "--flag" -> Flag(arg.text)
    [] arg.option = "--text" -> IF HasPiece(arg.text, "=")
                                  THEN Text(Before(arg.text, "="), After(arg.text, "="))
                                  ELSE Malformed
    [] OTHER -> ParseNumeric(arg.text)

\* Mutant of Top: the value is not cut at the maximum.
TopUncut(value, max) == IF value < 0 THEN 0 ELSE value
\* (*value).min(*max).max(0)
Top(value, max) ==
  LET least == IF value < max THEN value ELSE max
  IN IF least < 0 THEN 0 ELSE least

\* Claim::resolve
Resolve(claim) ==
  CASE claim.kind = "flag" -> {claim.text}
    [] claim.kind = "text" -> {claim.key \o <<"=">> \o claim.value}
    [] OTHER -> {claim.key \o <<">", "=", ToString(i)>> : i \in 1 .. Top(claim.value, claim.max)}

\* Mutant of KeyPrefix: a flag is split from the wrong end.
KeyPrefixLast(claim) ==
  IF claim.kind # "flag" THEN claim.key
  ELSE IF HasPiece(claim.text, "=") THEN After(claim.text, "=") ELSE claim.text
\* Claim::key_prefix
KeyPrefix(claim) ==
  IF claim.kind # "flag" THEN claim.key
  ELSE IF HasPiece(claim.text, "=") THEN Before(claim.text, "=") ELSE claim.text

\* AuthorityRegistry::check_permission, for an authority's `controls`.
CheckPermission(controls, claim) == controls = {} \/ KeyPrefix(claim) \in controls

\* The --controls argument of `register-authority`: its fields between commas,
\* trimmed, without the empty ones.
Trim(text) ==
  LET solid == {i \in DOMAIN text : text[i] # " "}
  IN IF solid = {} THEN << >> ELSE SubSeq(text, Min(solid), Max(solid))
Fields(text) ==
  FoldLeft(LAMBDA fields, piece :
             IF piece = "," THEN Append(fields, << >>)
             ELSE [fields EXCEPT ![Len(fields)] = Append(@, piece)], << << >> >>, text)
ParseControls(text) == {Trim(field) : field \in ToSet(Fields(text))} \ {<< >>}
=============================================================================
