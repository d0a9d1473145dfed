----------------------------- MODULE Vocabulary -----------------------------
(***************************************************************************)
(* The words that operators type: the names that authorities grant and the *)
(* names that policies ask for have to be the same texts.                  *)
(***************************************************************************)
EXTENDS PolicyLanguage, Naming

CONSTANTS
  Keyword,     \* operators as policies may spell them
  Attributes,  \* the attribute words that come in a policy, in this order
  MaxWords     \* bound: words of a policy

\* A policy is typed word by word.  The same word may come more than once in
\* Attributes, so every policy is typed for some value of the constants.
Operators == {"(", ")"} \cup Keyword
Words == Operators \cup ToSet(Attributes)

\* Attributes are named by texts, and the bound on trees leaves room for every
\* policy.
ASSUME TextAssumption ==
  /\ Name = Texts
  /\ Keyword \subseteq {"AND", "and", "OR", "or"}
  /\ Attributes \in Seq(Piece) /\ ToSet(Attributes) \cap {"(", ")", " "} = {}
  /\ Words \cup {" ", "@epoch"} \subseteq Piece
  /\ MaxWords \in Nat \ {0} /\ 2 * MaxWords <= MaxDepth

VARIABLE words  \* the policy typed so far

vars == <<namingVars, words>>

Init == NamingInit /\ words = << >>

Typed == Cardinality({i \in DOMAIN words : words[i] \in ToSet(Attributes)})
Type(w) ==
  /\ requests = 0
  /\ Len(words) < MaxWords
  /\ words' = Append(words, w)
  /\ UNCHANGED namingVars

Next ==
  \/ NamingNext /\ words = << >> /\ UNCHANGED words
  \/ \E w \in Operators : Type(w)
  \/ Typed < Len(Attributes) /\ Type(Attributes[Typed + 1])

Spec == Init /\ [][Next]_vars

-----------------------------------------------------------------------------
(* Properties of policies.                                                 *)

\* The words with spaces between all of them, and with none at a parenthesis.
Spaced == FlattenSeq([i \in DOMAIN words |-> <<words[i], " ">>])
Tight ==
  FlattenSeq([i \in DOMAIN words |->
    IF i = 1 \/ {words[i - 1], words[i]} \cap {"(", ")"} # {} THEN <<words[i]>>
    ELSE <<" ", words[i]>>])

TokenOf(w) == CASE w = "(" -> LParen [] w = ")" -> RParen [] OTHER -> Token(<<w>>)
Literals == {<<w>> : w \in ToSet(words) \cap ToSet(Attributes)}

\* "orExpr := andExpr (OR andExpr)*, andExpr := atom (AND atom)*": a policy is
\* accepted exactly if its parentheses match and no operator lacks an operand,
\* and its tree is satisfied by the attributes that make the formula true, with
\* AND before OR and wherever white space is left out.
PolicyMeansItsText ==
  LET tokens == [i \in DOMAIN words |-> TokenOf(words[i])]
  IN \A text \in {Spaced, Tight} :
       LET policy == Parse(text)
       IN /\ policy.ok <=> WellFormed(tokens)
          /\ policy.ok => \A attrs \in SUBSET Literals :
                            IsSatisfiedBy(policy.tree, attrs) <=> Means(tokens, attrs)

Model == INSTANCE AbeModel

\* Deployment keeps a policy as the list of its alternatives: that is the same
\* policy before and after retag_tree, which tags every leaf wherever it is in
\* the tree and whichever attributes were revoked, and has the same leaves to
\* register.
FlatFormAgrees ==
  LET policy == Parse(Spaced)
      flat   == Alternatives(policy.tree)
  IN policy.ok =>
       /\ Model!Leaves(flat) = ToSet(LeavesOf(policy.tree))
       /\ \A attrs \in SUBSET Literals :
            LET epochs == [x \in attrs |-> 1]
            IN /\ Model!Satisfied(flat, attrs) <=> IsSatisfiedBy(policy.tree, attrs)
               /\ Alternatives(RetagTree(policy.tree, epochs))
                    = [i \in DOMAIN flat |-> {Tag(x, epochs) : x \in flat[i]}]

-----------------------------------------------------------------------------
(* Properties of names.                                                    *)

\* Whether the names satisfy the policy of this text.
Matches(text, names) == LET policy == Parse(text) IN policy.ok /\ IsSatisfiedBy(policy.tree, names)

\* A text without a quote, white space or a parenthesis that is not empty and
\* not a keyword.
Plain(text) ==
  /\ text # << >>
  /\ ToSet(text) \cap {"\"", " ", "(", ")"} = {}
  /\ Token(text).is = "Attr"

\* "A policy leaf `clearance>=4` is satisfied by anyone whose clearance is 4 or
\* higher": of the thresholds from 1 to a claim's own maximum a key satisfies
\* those that some claim of it reaches, however its claims were merged; the
\* others, 0 among them, it satisfies only if they were claimed word by word.
\* The name has to be plain to be one leaf of a policy.
NumericThresholds ==
  \A k \in minted, key \in {c.key : c \in {d \in UNION {m.claims : m \in minted} :
                                             d.kind = "numeric"}}, n \in Number :
    LET literal == key \o <<">", "=", ToString(n)>>
    IN Plain(literal) =>
       (Matches(literal, k.names) <=>
         \E c \in k.claims :
           IF c.kind = "numeric" THEN c.key = key /\ 1 <= n /\ n <= c.value /\ n <= c.max
                                 ELSE Resolve(c) = {literal})

\* A flag or text claim as the operator wrote it.
Written(c) == IF c.kind = "flag" THEN c.text ELSE c.key \o <<"=">> \o c.value

\* A policy leaf is satisfied by every key of a user who was ever issued the flag
\* or text that is written like it, if that is plain: no conversion on the way to
\* a key and no later claim or merge takes it away.
WrittenAlikeMatch ==
  \A k \in minted : \A c \in k.claims :
    c.kind # "numeric" /\ Plain(Written(c)) => Matches(Written(c), k.names)

\* "Policy strings and authority-issued attribute strings compare equal regardless
\* of incidental whitespace or quoting" (parser.rs:138): a flag or text claim
\* satisfies the leaf that is written like it but for quotes and spaces.
QuotingIsIncidental ==
  \A k \in minted : \A c \in k.claims :
    c.kind # "numeric" /\ Plain(Normalize(Written(c))) =>
      Matches(Normalize(Written(c)), k.names)
=============================================================================
