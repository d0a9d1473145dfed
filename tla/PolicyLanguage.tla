--------------------------- MODULE PolicyLanguage ---------------------------
(***************************************************************************)
(* The policy language: from the text given to `encrypt --policy` to an    *)
(* access tree (policy/src/parser.rs).                                     *)
(*                                                                         *)
(* A text is a sequence of pieces.  The parser's own characters and the    *)
(* operator words are pieces; any other piece stands for a run of          *)
(* characters that no conversion looks into, e.g. "department".            *)
(***************************************************************************)
EXTENDS AccessTree

LParen == [is |-> "LParen"]
RParen == [is |-> "RParen"]
AndTok == [is |-> "And"]
OrTok  == [is |-> "Or"]
Attr(word) == [is |-> "Attr", word |-> word]

\* The keywords are compared in upper case.
Token(word) ==
  CASE word \in {<<"AND">>, <<"and">>} -> AndTok
    [] word \in {<<"OR">>, <<"or">>}   -> OrTok
    [] OTHER -> Attr(word)

\* tokenize: parentheses stand for themselves, they and white space end a word.
Flush(st) ==
  IF st.current = << >> THEN st
  ELSE [current |-> << >>, tokens |-> Append(st.tokens, Token(st.current))]
Take(st, piece) ==
  CASE piece = "(" -> [Flush(st) EXCEPT !.tokens = Append(@, LParen)]
    [] piece = ")" -> [Flush(st) EXCEPT !.tokens = Append(@, RParen)]
    [] piece = " " -> Flush(st)
    [] OTHER -> [st EXCEPT !.current = Append(@, piece)]
Tokenize(text) ==
  LET upTo[i \in 0 .. Len(text)] == IF i = 0 THEN [current |-> << >>, tokens |-> << >>]
                                    ELSE Take(upTo[i - 1], text[i])
  IN Flush(upTo[Len(text)]).tokens

\* A text without some of its pieces.
Without(text, pieces) ==
  FlattenSeq([i \in DOMAIN text |-> IF text[i] \in pieces THEN << >> ELSE <<text[i]>>])
\* normalize: quotes and spaces are dropped.
Normalize(word) == Without(word, {"\"", " "})

-----------------------------------------------------------------------------
(* Parser: each of its functions returns what it has parsed and the        *)
(* position of the next token, or an error.  What they return from a       *)
(* position on is `from[pos]`.                                             *)

Parsed(tree, pos) == [ok |-> TRUE, tree |-> tree, pos |-> pos]
Failed(error)     == [ok |-> FALSE, error |-> error]
Peek(tokens, pos) == IF pos \in DOMAIN tokens THEN tokens[pos].is ELSE "end"

\* parse_atom
ParseAtom(tokens, pos, from) ==
  CASE Peek(tokens, pos) = "Attr" -> Parsed(Leaf(Normalize(tokens[pos].word)), pos + 1)
    [] Peek(tokens, pos) = "LParen" ->
         LET inner == from[pos + 1].policy
         IN IF ~ inner.ok THEN inner
            ELSE IF Peek(tokens, inner.pos) # "RParen" THEN Failed("Unbalanced")
            ELSE Parsed(inner.tree, inner.pos + 1)
    [] Peek(tokens, pos) = "end" -> Failed("UnexpectedEof")
    [] OTHER -> Failed("UnexpectedToken")

\* Mutant of Continues: one loop for both operators.
ContinuesWithAny(token, op) == token \in {"And", "Or"}
\* Whether the loop of parse_or or parse_and, looking at a token, goes on.
Continues(token, op) == token = op

\* That loop, entered with an operand already parsed: the operands that follow
\* one another with `op` between them.
Operands(tokens, op, operand, from) ==
  IF ~ operand.ok THEN operand
  ELSE IF ~ Continues(Peek(tokens, operand.pos), op)
    THEN [ok |-> TRUE, trees |-> <<operand.tree>>, pos |-> operand.pos]
  ELSE LET others == from[operand.pos + 1][op]
       IN IF ~ others.ok THEN others
          ELSE [others EXCEPT !.trees = <<operand.tree>> \o @]
\* What parse_or and parse_and make of them; an operand alone stays as it is.
Joined(op, operands) ==
  IF ~ operands.ok THEN operands
  ELSE Parsed(IF Len(operands.trees) = 1 THEN operands.trees[1]
              ELSE IF op = "Or" THEN Or(operands.trees) ELSE And(operands.trees),
              operands.pos)

\* parse_or and parse_and from every position.
Parser(tokens) ==
  LET from[pos \in 1 .. Len(tokens) + 1] ==
        LET conjuncts == Operands(tokens, "And", ParseAtom(tokens, pos, from), from)
            disjuncts == Operands(tokens, "Or", Joined("And", conjuncts), from)
        IN [And |-> conjuncts, Or |-> disjuncts, policy |-> Joined("Or", disjuncts)]
  IN from

\* parse and parse_policy: every token has to be used.
Parse(text) ==
  LET tokens == Tokenize(text)
      policy == Parser(tokens)[1].policy
  IN IF policy.ok /\ policy.pos <= Len(tokens) THEN Failed("UnexpectedToken") ELSE policy

-----------------------------------------------------------------------------
(* What a policy means, without a grammar: a sequence of tokens is well    *)
(* formed if its parentheses match and every token may follow the one      *)
(* before it; it splits at its outermost ORs, then at its outermost ANDs.  *)

Depth(tokens, i) ==
  Cardinality({j \in 1 .. i : tokens[j] = LParen}) - Cardinality({j \in 1 .. i : tokens[j] = RParen})

Opener(t) == t \in {LParen, AndTok, OrTok}
MayFollow(t, u) == IF Opener(t) THEN u = LParen \/ u.is = "Attr" ELSE u \in {RParen, AndTok, OrTok}

WellFormed(tokens) ==
  /\ tokens # << >>
  /\ \A i \in DOMAIN tokens : Depth(tokens, i) >= 0
  /\ Depth(tokens, Len(tokens)) = 0
  /\ MayFollow(LParen, Head(tokens))
  /\ ~ Opener(Last(tokens))
  /\ \A i \in 1 .. Len(tokens) - 1 : MayFollow(tokens[i], tokens[i + 1])

\* Where `op` stands between two positions and in no parentheses that open there.
Outer(tokens, op, first, last) ==
  {i \in first .. last : tokens[i] = op /\ Depth(tokens, i) = Depth(tokens, first - 1)}

\* Whether the attributes `attrs` satisfy the well-formed part of `tokens` from
\* position `first` to position `last`; nothing satisfies an empty part.
Means(tokens, attrs) ==
  LET holds[first \in 1 .. Len(tokens) + 1] ==
        [last \in 0 .. Len(tokens) |->
           LET ors  == Outer(tokens, OrTok, first, last)
               ands == Outer(tokens, AndTok, first, last)
           IN IF last < first THEN FALSE
              ELSE IF ors # {} THEN holds[first][Max(ors) - 1] \/ holds[Max(ors) + 1][last]
              ELSE IF ands # {} THEN holds[first][Max(ands) - 1] /\ holds[Max(ands) + 1][last]
              ELSE IF tokens[first] = LParen THEN holds[first + 1][last - 1]
              ELSE Normalize(tokens[first].word) \in attrs]
  IN holds[1][Len(tokens)]
=============================================================================
