-------------------------- MODULE VocabularyProofs --------------------------
(***************************************************************************)
(* What the parser makes of a text, and that the names that authorities    *)
(* grant and the names that policies ask for match as they should.         *)
(*                                                                         *)
(* A parsed tree has a leaf for a word of the text, without white space    *)
(* and parentheses, and a gate only over two trees or more; what it has    *)
(* consumed of the tokens bounds its depth.  By this, what holds of such   *)
(* leaves and goes from trees to the gates over them holds of every policy.*)
(*                                                                         *)
(* What a policy means is read off its formulas, the parts of its tokens   *)
(* that are well formed on their own.  parse_or, parse_and and parse_atom  *)
(* each return the longest formula of their kind that begins where they    *)
(* began, with a tree that means the same, or fail where there is none.    *)
(***************************************************************************)
EXTENDS Vocabulary, AccessTreeProofs

-----------------------------------------------------------------------------
(* Tokens.                                                                 *)

\* What ends a word.
Breaks == {"(", ")", " "}
IsWord(w) == w \in Texts /\ w # << >> /\ \A i \in 1 .. Len(w) : w[i] \notin Breaks
PolicyTokens == {LParen, RParen, AndTok, OrTok} \cup {Attr(w) : w \in {v \in Texts : IsWord(v)}}

\* What is scanned of the first n pieces of a text.
Scanned(st, n) ==
  /\ st \in [current : Texts, tokens : Seq(PolicyTokens)]
  /\ \A i \in 1 .. Len(st.current) : st.current[i] \notin Breaks
  /\ Len(st.tokens) <= n
  /\ st.current # << >> => Len(st.tokens) + 1 <= n

LEMMA WordToken ==
  ASSUME NEW w, IsWord(w)
  PROVE  Token(w) \in PolicyTokens
<1>1. Token(w) \in {AndTok, OrTok, Attr(w)}
  BY DEF Token
<1>2. Attr(w) \in PolicyTokens
  BY DEF PolicyTokens, IsWord
<1> QED
  BY <1>1, <1>2 DEF PolicyTokens

\* What is scanned, put together and taken apart.
LEMMA ScannedIs ==
  ASSUME NEW n, NEW word \in Seq(Piece), NEW toks \in Seq(PolicyTokens),
         \A i \in 1 .. Len(word) : word[i] \notin Breaks,
         Len(toks) <= n, word # << >> => Len(toks) + 1 <= n
  PROVE  Scanned([current |-> word, tokens |-> toks], n)
<1> DEFINE st == [current |-> word, tokens |-> toks]
<1>1. st.current = word /\ st.tokens = toks /\ st \in [current : Texts, tokens : Seq(PolicyTokens)]
  BY DEF Texts
<1> HIDE DEF st
<1>2. Scanned(st, n)
  BY <1>1 DEF Scanned
<1> QED
  BY <1>2 DEF st

LEMMA ScannedParts ==
  ASSUME NEW n, NEW st, Scanned(st, n)
  PROVE  /\ st = [current |-> st.current, tokens |-> st.tokens]
         /\ st.current \in Seq(Piece) /\ st.tokens \in Seq(PolicyTokens)
         /\ \A i \in 1 .. Len(st.current) : st.current[i] \notin Breaks
         /\ Len(st.tokens) <= n
         /\ st.current # << >> => Len(st.tokens) + 1 <= n
<1>1. st \in [current : Texts, tokens : Seq(PolicyTokens)]
  BY DEF Scanned
<1>2. /\ st = [current |-> st.current, tokens |-> st.tokens]
      /\ st.current \in Seq(Piece) /\ st.tokens \in Seq(PolicyTokens)
  BY <1>1 DEF Texts
<1> QED
  BY <1>2 DEF Scanned

LEMMA NoWordScanned ==
  ASSUME NEW n, NEW toks \in Seq(PolicyTokens), Len(toks) <= n
  PROVE  Scanned([current |-> << >>, tokens |-> toks], n)
<1> DEFINE word == << >>
<1>1. word \in Seq(Piece) /\ word = << >> /\ \A i \in 1 .. Len(word) : FALSE
  OBVIOUS
<1> HIDE DEF word
<1>2. Scanned([current |-> word, tokens |-> toks], n)
  BY <1>1, ScannedIs
<1> QED
  BY <1>1, <1>2

LEMMA FlushScans ==
  ASSUME NEW n \in Nat, NEW st, Scanned(st, n)
  PROVE  Scanned(Flush(st), n) /\ Flush(st).current = << >>
<1>1. CASE st.current = << >>
  BY <1>1 DEF Flush
<1>2. CASE st.current # << >>
  <2> DEFINE word == st.current
             tok == Token(word)
             toks == st.tokens
  <2>1. /\ word \in Seq(Piece) /\ toks \in Seq(PolicyTokens) /\ Len(toks) + 1 <= n
        /\ \A i \in 1 .. Len(word) : word[i] \notin Breaks
    BY <1>2, ScannedParts
  <2>2. Flush(st) = [current |-> << >>, tokens |-> Append(toks, tok)]
    BY <1>2 DEF Flush
  <2>3. word # << >>
    BY <1>2
  <2> HIDE DEF toks, word, tok
  <2>4. tok \in PolicyTokens
    BY <2>1, <2>3, WordToken DEF IsWord, Texts, tok
  <2>5. Append(toks, tok) \in Seq(PolicyTokens) /\ Len(Append(toks, tok)) <= n
    <3>1. toks \in Seq(PolicyTokens) /\ Len(toks) + 1 <= n
      BY <2>1
    <3> QED
      BY <2>4, <3>1
  <2> DEFINE more == Append(toks, tok)
  <2> HIDE DEF more
  <2>6. Scanned([current |-> << >>, tokens |-> more], n)
    BY <2>5, NoWordScanned DEF more
  <2> QED
    BY <2>2, <2>6 DEF more
<1> QED
  BY <1>1, <1>2

LEMMA TakeScans ==
  ASSUME NEW n \in Nat, NEW st, Scanned(st, n), NEW piece \in Piece
  PROVE  Scanned(Take(st, piece), n + 1)
<1> DEFINE fl == Flush(st)
           toks == fl.tokens
<1>1. fl.current = << >> /\ Scanned(fl, n)
  BY FlushScans
<1>2. CASE piece \in {"(", ")"}
  <2> DEFINE tok == IF piece = "(" THEN LParen ELSE RParen
             more == Append(toks, tok)
  <2>1. Take(st, piece) = [fl EXCEPT !.tokens = Append(@, tok)]
    BY <1>2 DEF Take
  <2>2. tok \in PolicyTokens
    BY DEF PolicyTokens
  <2> HIDE DEF tok, fl
  <2>3. fl = [current |-> << >>, tokens |-> toks] /\ toks \in Seq(PolicyTokens) /\ Len(toks) <= n
    BY <1>1, ScannedParts
  <2>4. Take(st, piece) = [current |-> << >>, tokens |-> more]
    BY <2>1, <2>3
  <2> HIDE DEF toks
  <2>5. more \in Seq(PolicyTokens) /\ Len(more) <= n + 1
    BY <2>2, <2>3
  <2> HIDE DEF more
  <2>6. Scanned([current |-> << >>, tokens |-> more], n + 1)
    BY <2>5, NoWordScanned
  <2> QED
    BY <2>4, <2>6
<1>3. CASE piece = " "
  <2>1. Take(st, piece) = fl
    BY <1>3 DEF Take
  <2> HIDE DEF fl
  <2>2. fl = [current |-> << >>, tokens |-> toks] /\ toks \in Seq(PolicyTokens) /\ Len(toks) <= n
    BY <1>1, ScannedParts
  <2> HIDE DEF toks
  <2>3. Len(toks) <= n + 1
    BY <2>2
  <2>4. Scanned([current |-> << >>, tokens |-> toks], n + 1)
    BY <2>2, <2>3, NoWordScanned
  <2> QED
    BY <2>1, <2>2, <2>4
<1>4. CASE piece \notin Breaks
  <2> DEFINE word == st.current
             run == Append(word, piece)
             old == st.tokens
  <2>1. Take(st, piece) = [st EXCEPT !.current = run]
    BY <1>4 DEF Take, Breaks
  <2>2. /\ st = [current |-> word, tokens |-> old]
        /\ word \in Seq(Piece) /\ old \in Seq(PolicyTokens) /\ Len(old) <= n
        /\ \A i \in 1 .. Len(word) : word[i] \notin Breaks
    BY ScannedParts
  <2> HIDE DEF word, old, run
  <2>3. Take(st, piece) = [current |-> run, tokens |-> old]
    BY <2>1, <2>2
  <2>4. /\ run \in Seq(Piece)
        /\ \A i \in 1 .. Len(run) : run[i] \notin Breaks
    <3>1. word \in Seq(Piece)
      BY <2>2
    <3>2. /\ Append(word, piece) \in Seq(Piece) /\ Len(Append(word, piece)) = Len(word) + 1
          /\ Append(word, piece)[Len(word) + 1] = piece
          /\ \A i \in 1 .. Len(word) : Append(word, piece)[i] = word[i]
      BY <3>1
    <3>3. \A i \in 1 .. Len(word) + 1 : i \in 1 .. Len(word) \/ i = Len(word) + 1
      BY <3>1
    <3> QED
      BY <1>4, <2>2, <3>2, <3>3 DEF run
  <2>5. Len(old) <= n + 1 /\ Len(old) + 1 <= n + 1
    <3>1. old \in Seq(PolicyTokens) /\ Len(old) <= n
      BY <2>2
    <3> QED
      BY <3>1
  <2>6. Scanned([current |-> run, tokens |-> old], n + 1)
    BY <2>2, <2>4, <2>5, ScannedIs
  <2> QED
    BY <2>3, <2>6
<1> QED
  BY <1>2, <1>3, <1>4 DEF Breaks

Start == [current |-> << >>, tokens |-> << >>]
Scans(text, n, g) == g = [i \in 0 .. n |-> IF i = 0 THEN Start ELSE Take(g[i - 1], text[i])]

LEMMA ScansNext ==
  ASSUME NEW text, NEW n \in Nat, NEW g, Scans(text, n, g)
  PROVE  \E h : Scans(text, n + 1, h)
<1> DEFINE last == Take(g[n], text[n + 1])
           h == [i \in 0 .. n + 1 |-> IF i <= n THEN g[i] ELSE last]
<1>1. \A i \in 0 .. n : h[i] = g[i]
  OBVIOUS
<1>2. \A i \in 0 .. n : g[i] = IF i = 0 THEN Start ELSE Take(g[i - 1], text[i])
  BY DEF Scans
<1>3. h[n + 1] = last
  OBVIOUS
<1>4. ASSUME NEW i \in 0 .. n + 1
      PROVE  h[i] = IF i = 0 THEN Start ELSE Take(h[i - 1], text[i])
  <2>1. CASE i \in 0 .. n
    <3>1. i # 0 => i - 1 \in 0 .. n
      BY <2>1
    <3> HIDE DEF h, last
    <3> QED
      BY <1>1, <1>2, <2>1, <3>1
  <2>2. CASE i = n + 1
    <3>1. i # 0 /\ i - 1 = n /\ n \in 0 .. n
      BY <2>2
    <3> HIDE DEF h
    <3> QED
      BY <1>1, <1>3, <2>2, <3>1
  <2> QED
    BY <2>1, <2>2
<1>5. Scans(text, n + 1, h)
  <2>1. h = [i \in 0 .. n + 1 |-> h[i]]
    OBVIOUS
  <2> HIDE DEF h
  <2> QED
    BY <1>4, <2>1 DEF Scans
<1> QED
  BY <1>5

LEMMA ScansExist ==
  ASSUME NEW text, NEW n \in Nat
  PROVE  \E g : Scans(text, n, g)
<1> DEFINE S == {m \in Nat : \E g : Scans(text, m, g)}
<1>1. 0 \in S
  <2>1. Scans(text, 0, [i \in 0 .. 0 |-> Start])
    BY DEF Scans
  <2> QED
    BY <2>1
<1>2. \A m \in S : m + 1 \in S
  BY ScansNext
<1>3. S = Nat
  <2> HIDE DEF S
  <2>1. S \in SUBSET Nat
    BY DEF S
  <2> QED
    BY <1>1, <1>2, <2>1, InductionInSet
<1> QED
  BY <1>3

LEMMA TokenizeIs ==
  ASSUME NEW text \in Texts
  PROVE  \E g : Scans(text, Len(text), g) /\ Tokenize(text) = Flush(g[Len(text)]).tokens
<1> DEFINE g == CHOOSE g : Scans(text, Len(text), g)
<1>1. Len(text) \in Nat
  BY DEF Texts
<1>2. Scans(text, Len(text), g)
  BY <1>1, ScansExist
<1>3. Tokenize(text) = Flush(g[Len(text)]).tokens
  BY DEF Tokenize, Scans, Start
<1> QED
  BY <1>2, <1>3

LEMMA TokensType ==
  ASSUME NEW text \in Texts
  PROVE  Tokenize(text) \in Seq(PolicyTokens) /\ Len(Tokenize(text)) <= Len(text)
<1>1. PICK g : Scans(text, Len(text), g) /\ Tokenize(text) = Flush(g[Len(text)]).tokens
  BY TokenizeIs
<1>2. text \in Seq(Piece) /\ Len(text) \in Nat
  BY DEF Texts
<1> DEFINE S == {n \in Nat : n <= Len(text) => Scanned(g[n], n)}
<1>3. \A i \in 0 .. Len(text) : g[i] = IF i = 0 THEN Start ELSE Take(g[i - 1], text[i])
  BY <1>1 DEF Scans
<1>4. 0 \in S
  <2>1. g[0] = Start
    BY <1>2, <1>3
  <2>2. Scanned(Start, 0)
    <3>1. << >> \in Texts /\ << >> \in Seq(PolicyTokens) /\ Len(<< >>) = 0
      BY DEF Texts
    <3> QED
      BY <3>1 DEF Scanned, Start
  <2> QED
    BY <2>1, <2>2
<1>5. ASSUME NEW n \in S PROVE n + 1 \in S
  <2> SUFFICES ASSUME n + 1 <= Len(text) PROVE Scanned(g[n + 1], n + 1)
    OBVIOUS
  <2>1. n \in Nat /\ n <= Len(text) /\ n + 1 \in 0 .. Len(text) /\ n + 1 # 0
        /\ n + 1 \in 1 .. Len(text) /\ (n + 1) - 1 = n
    BY <1>2
  <2>2. Scanned(g[n], n)
    BY <2>1
  <2>3. g[n + 1] = Take(g[n], text[n + 1])
    BY <1>3, <2>1
  <2>4. text[n + 1] \in Piece
    BY <1>2, <2>1
  <2> QED
    BY <2>1, <2>2, <2>3, <2>4, TakeScans
<1>6. S = Nat
  <2> HIDE DEF S
  <2>1. S \in SUBSET Nat
    BY DEF S
  <2> QED
    BY <1>4, <1>5, <2>1, InductionInSet
<1>7. Scanned(g[Len(text)], Len(text))
  <2>1. Len(text) \in S /\ Len(text) <= Len(text)
    BY <1>2, <1>6
  <2> QED
    BY <2>1
<1> DEFINE st == Flush(g[Len(text)])
<1>8. Scanned(st, Len(text)) /\ st.current = << >>
  BY <1>2, <1>7, FlushScans
<1>9. Tokenize(text) = st.tokens
  BY <1>1
<1> HIDE DEF st
<1>10. st.tokens \in Seq(PolicyTokens) /\ Len(st.tokens) <= Len(text)
  BY <1>8 DEF Scanned
<1> QED
  BY <1>2, <1>9, <1>10

-----------------------------------------------------------------------------
(* The parser.                                                             *)

\* What goes from the words of a text to every tree that is made of them.
HasPolicyLeaves(S) == \A w : IsWord(w) => Leaf(Normalize(w)) \in S
HasPolicyGates(S) ==
  \A k, c : c \in Seq(S) /\ Gate(k, c) \in AnyTree /\ Len(c) > 1 /\ k \in {1, Len(c)}
              => Gate(k, c) \in S
PolicySet(S) == HasPolicyLeaves(S) /\ HasPolicyGates(S)

\* What has been parsed from position `pos` on, and how deep it is.
GrownTree(S, tokens, pos, r) ==
  r.ok => /\ r \in [ok : {TRUE}, tree : S, pos : Nat]
          /\ pos < r.pos /\ r.pos <= Len(tokens) + 1
          /\ r.tree \in Level[r.pos - pos - 1]
GrownList(S, tokens, pos, r) ==
  r.ok => /\ r \in [ok : {TRUE}, trees : Seq(S), pos : Nat]
          /\ pos < r.pos /\ r.pos <= Len(tokens) + 1
          /\ Len(r.trees) > 0
          /\ \A i \in 1 .. Len(r.trees) : r.trees[i] \in Level[r.pos - pos - 1]
          /\ Len(r.trees) # 1 =>
               pos + 2 <= r.pos /\ \A i \in 1 .. Len(r.trees) : r.trees[i] \in Level[r.pos - pos - 2]
Grown(S, tokens, pos, e) ==
  /\ GrownList(S, tokens, pos, e.And)
  /\ GrownList(S, tokens, pos, e.Or)
  /\ GrownTree(S, tokens, pos, e.policy)
GrownFrom(S, tokens, pos, f) == \A q \in pos .. Len(tokens) + 1 : Grown(S, tokens, q, f[q])

LEMMA WithoutType ==
  ASSUME NEW w \in Texts, NEW pieces
  PROVE  /\ Without(w, pieces) \in Texts
         /\ \A x \in ToSet(Without(w, pieces)) : x \in ToSet(w) /\ x \notin pieces
<1> DEFINE r == [i \in DOMAIN w |-> IF w[i] \in pieces THEN << >> ELSE <<w[i]>>]
<1>1. w \in Seq(Piece) /\ DOMAIN w = 1 .. Len(w) /\ Len(w) \in Nat
  BY DEF Texts
<1>2. \A i \in 1 .. Len(w) : r[i] = IF w[i] \in pieces THEN << >> ELSE <<w[i]>>
  BY <1>1
<1>3. r = [i \in 1 .. Len(w) |-> r[i]] /\ DOMAIN r = 1 .. Len(w)
  BY <1>1
<1>4. Without(w, pieces) = FlattenSeq(r)
  BY DEF Without
<1> HIDE DEF r
<1>5. \A x \in Piece : << >> \in Seq(Piece) /\ <<x>> \in Seq(Piece)
  OBVIOUS
<1>6. \A i \in 1 .. Len(w) : r[i] \in Seq(Piece)
  <2>1. \A i \in 1 .. Len(w) : w[i] \in Piece
    BY <1>1
  <2> QED
    BY <1>2, <1>5, <2>1
<1>7. r \in Seq(Seq(Piece))
  <2>1. [i \in 1 .. Len(w) |-> r[i]] \in Seq(Seq(Piece))
    BY <1>1, <1>6
  <2> QED
    BY <1>3, <2>1
<1>8. FlattenSeq(r) \in Seq(Piece) /\ ToSet(FlattenSeq(r)) = UNION {ToSet(r[i]) : i \in DOMAIN r}
  BY <1>7, FlattenElements
<1>9. ToSet(<< >>) = {} /\ \A x : ToSet(<<x>>) = {x}
  BY SingleElement DEF ToSet
<1>10. ASSUME NEW i \in 1 .. Len(w), NEW x \in ToSet(r[i])
       PROVE  x \in ToSet(w) /\ x \notin pieces
  <2>1. w[i] \in ToSet(w)
    BY <1>1 DEF ToSet
  <2>2. CASE w[i] \in pieces
    BY <1>2, <1>9, <1>10, <2>2
  <2>3. CASE w[i] \notin pieces
    <3>1. x = w[i]
      BY <1>2, <1>9, <1>10, <2>3
    <3> QED
      BY <2>1, <2>3, <3>1
  <2> QED
    BY <2>2, <2>3
<1> QED
  BY <1>3, <1>4, <1>8, <1>10 DEF Texts

LEMMA NormalizeType ==
  ASSUME NEW w \in Texts
  PROVE  /\ Normalize(w) \in Texts
         /\ \A x \in ToSet(Normalize(w)) : x \in ToSet(w) /\ x \notin {"\"", " "}
BY WithoutType DEF Normalize

LEMMA PeekIs ==
  ASSUME NEW tokens \in Seq(PolicyTokens), NEW pos
  PROVE  /\ Peek(tokens, pos) # "end" => pos \in 1 .. Len(tokens)
         /\ Peek(tokens, pos) = "Attr" => IsWord(tokens[pos].word)
<1>1. DOMAIN tokens = 1 .. Len(tokens)
  OBVIOUS
<1>2. CASE pos \notin DOMAIN tokens
  BY <1>2 DEF Peek
<1>3. CASE pos \in DOMAIN tokens
  <2>1. tokens[pos] \in PolicyTokens /\ Peek(tokens, pos) = tokens[pos].is
    BY <1>3 DEF Peek
  <2>2. ASSUME NEW t \in PolicyTokens, t.is = "Attr" PROVE IsWord(t.word)
    <3>1. t \notin {LParen, RParen, AndTok, OrTok}
      BY <2>2 DEF LParen, RParen, AndTok, OrTok
    <3>2. PICK w \in Texts : IsWord(w) /\ t = Attr(w)
      BY <3>1 DEF PolicyTokens
    <3> QED
      BY <3>2 DEF Attr
  <2> QED
    BY <1>1, <1>3, <2>1, <2>2
<1> QED
  BY <1>2, <1>3

LEMMA LeafGrows ==
  ASSUME NEW S, PolicySet(S), NEW w, IsWord(w)
  PROVE  Leaf(Normalize(w)) \in S /\ Leaf(Normalize(w)) \in Level[0]
<1>1. Normalize(w) \in Name
  BY NormalizeType, TextAssumption DEF IsWord
<1>2. Leaf(Normalize(w)) \in LeafTrees
  BY <1>1 DEF Leaf, LeafTrees
<1>3. 0 \in 0 .. MaxDepth
  BY DepthAssumption
<1> QED
  BY <1>2, <1>3, LevelEq DEF PolicySet, HasPolicyLeaves

\* A sequence of tokens that trees are deep enough for, and a position in it.
Parsable(tokens, pos) ==
  tokens \in Seq(PolicyTokens) /\ Len(tokens) <= MaxDepth /\ pos \in 1 .. Len(tokens) + 1

LEMMA AtomGrows ==
  ASSUME NEW S, PolicySet(S), NEW tokens, NEW pos, Parsable(tokens, pos),
         NEW f, GrownFrom(S, tokens, pos + 1, f)
  PROVE  GrownTree(S, tokens, pos, ParseAtom(tokens, pos, f))
<1> DEFINE n == Len(tokens)
           r == ParseAtom(tokens, pos, f)
<1>1. tokens \in Seq(PolicyTokens) /\ n \in Nat /\ n <= MaxDepth /\ pos \in Nat /\ pos <= n + 1
  BY DEF Parsable
<1>2. CASE Peek(tokens, pos) = "Attr"
  <2> DEFINE w == tokens[pos].word
             leaf == Leaf(Normalize(w))
  <2>1. pos \in 1 .. n /\ IsWord(w)
    BY <1>1, <1>2, PeekIs
  <2>2. leaf \in S /\ leaf \in Level[0]
    BY <2>1, LeafGrows
  <2>3. r = Parsed(leaf, pos + 1)
    BY <1>2 DEF ParseAtom
  <2> HIDE DEF r, leaf, w
  <2>4. /\ r \in [ok : {TRUE}, tree : S, pos : Nat]
        /\ r.pos = pos + 1 /\ r.tree = leaf
    BY <1>1, <2>2, <2>3 DEF Parsed
  <2>5. pos < pos + 1 /\ pos + 1 <= n + 1 /\ pos + 1 - pos - 1 = 0
    BY <1>1, <2>1
  <2>6. r.tree \in Level[r.pos - pos - 1] /\ pos < r.pos /\ r.pos <= Len(tokens) + 1
    BY <1>1, <2>2, <2>4, <2>5
  <2>7. GrownTree(S, tokens, pos, r)
    BY <2>4, <2>6 DEF GrownTree
  <2> QED
    BY <2>7 DEF r
<1>3. CASE Peek(tokens, pos) = "LParen"
  <2> DEFINE inner == f[pos + 1].policy
  <2>1. pos \in 1 .. n
    BY <1>1, <1>3, PeekIs
  <2>2. GrownTree(S, tokens, pos + 1, inner)
    <3>1. pos + 1 \in pos + 1 .. n + 1
      BY <1>1, <2>1
    <3> QED
      BY <3>1 DEF GrownFrom, Grown
  <2>3. r = IF ~ inner.ok THEN inner
            ELSE IF Peek(tokens, inner.pos) # "RParen" THEN Failed("Unbalanced")
            ELSE Parsed(inner.tree, inner.pos + 1)
    BY <1>3 DEF ParseAtom
  <2> HIDE DEF r, inner
  <2>4. CASE ~ inner.ok
    BY <2>3, <2>4 DEF GrownTree, r
  <2>5. CASE inner.ok /\ Peek(tokens, inner.pos) # "RParen"
    <3>1. r = Failed("Unbalanced")
      BY <2>3, <2>5
    <3>2. ~ r.ok
      BY <3>1 DEF Failed
    <3> QED
      BY <3>2 DEF GrownTree, r
  <2>6. CASE inner.ok /\ Peek(tokens, inner.pos) = "RParen"
    <3> DEFINE p == inner.pos
               t == inner.tree
    <3>1. r = Parsed(t, p + 1)
      BY <2>3, <2>6
    <3>2. /\ t \in S /\ p \in Nat /\ pos + 1 < p /\ p <= n + 1
          /\ t \in Level[p - (pos + 1) - 1]
      BY <2>2, <2>6 DEF GrownTree
    <3>3. p \in 1 .. n
      BY <1>1, <2>6, PeekIs
    <3> HIDE DEF p, t
    <3>4. /\ p - (pos + 1) - 1 \in 0 .. MaxDepth /\ p + 1 - pos - 1 \in 0 .. MaxDepth
          /\ p - (pos + 1) - 1 <= p + 1 - pos - 1
      BY <1>1, <2>1, <3>2, <3>3, DepthAssumption
    <3>5. t \in Level[p + 1 - pos - 1]
      BY <3>2, <3>4, LevelsNested
    <3>6. /\ r \in [ok : {TRUE}, tree : S, pos : Nat]
          /\ r.pos = p + 1 /\ r.tree = t
      BY <3>1, <3>2 DEF Parsed
    <3>7. pos < p + 1 /\ p + 1 <= n + 1
      BY <1>1, <2>1, <3>2, <3>3
    <3>8. r.tree \in Level[r.pos - pos - 1] /\ pos < r.pos /\ r.pos <= Len(tokens) + 1
      BY <1>1, <3>2, <3>5, <3>6, <3>7
    <3>9. GrownTree(S, tokens, pos, r)
      BY <3>6, <3>8 DEF GrownTree
    <3> QED
      BY <3>9 DEF r
  <2> QED
    BY <2>4, <2>5, <2>6
<1>4. CASE Peek(tokens, pos) \notin {"Attr", "LParen"}
  <2>1. r = Failed("UnexpectedEof") \/ r = Failed("UnexpectedToken")
    BY <1>4 DEF ParseAtom
  <2>2. ~ r.ok
    <3> HIDE DEF r
    <3> QED
      BY <2>1 DEF Failed
  <2> QED
    BY <2>2 DEF GrownTree
<1> QED
  BY <1>2, <1>3, <1>4

LEMMA OperandsGrow ==
  ASSUME NEW S, NEW tokens, NEW pos, Parsable(tokens, pos), NEW op \in {"And", "Or"},
         NEW f, GrownFrom(S, tokens, pos + 1, f),
         NEW operand, GrownTree(S, tokens, pos, operand)
  PROVE  GrownList(S, tokens, pos, Operands(tokens, op, operand, f))
<1> DEFINE n == Len(tokens)
           r == Operands(tokens, op, operand, f)
<1>1. tokens \in Seq(PolicyTokens) /\ n \in Nat /\ n <= MaxDepth /\ pos \in Nat /\ pos <= n + 1
      /\ 1 <= pos
  BY DEF Parsable
<1>2. CASE ~ operand.ok
  <2>1. r = operand
    BY <1>2 DEF Operands
  <2> QED
    BY <1>2, <2>1 DEF GrownList
<1> SUFFICES ASSUME operand.ok PROVE GrownList(S, tokens, pos, r)
  BY <1>2
<1> DEFINE t == operand.tree
           p == operand.pos
<1>3. t \in S /\ p \in Nat /\ pos < p /\ p <= n + 1 /\ t \in Level[p - pos - 1]
  BY DEF GrownTree
<1>4. CASE ~ Continues(Peek(tokens, p), op)
  <2>1. r = [ok |-> TRUE, trees |-> <<t>>, pos |-> p]
    BY <1>4 DEF Operands
  <2> HIDE DEF r, t, p
  <2>2. <<t>> \in Seq(S) /\ Len(<<t>>) = 1 /\ \A i \in 1 .. 1 : <<t>>[i] = t
    BY <1>3
  <2> DEFINE l == <<t>>
  <2> HIDE DEF l
  <2>3. l \in Seq(S) /\ Len(l) = 1 /\ \A i \in 1 .. 1 : l[i] = t
    BY <2>2 DEF l
  <2>4. /\ r \in [ok : {TRUE}, trees : Seq(S), pos : Nat]
        /\ r.trees = l /\ r.pos = p
    BY <1>3, <2>1, <2>3 DEF l
  <2>5. \A i \in 1 .. Len(r.trees) : r.trees[i] \in Level[r.pos - pos - 1]
    BY <1>3, <2>3, <2>4
  <2>6. /\ Len(r.trees) > 0 /\ Len(r.trees) = 1
        /\ pos < r.pos /\ r.pos <= Len(tokens) + 1
    <3>1. Len(l) > 0
      BY <2>3
    <3> QED
      BY <1>3, <2>3, <2>4, <3>1
  <2>7. GrownList(S, tokens, pos, r)
    BY <2>4, <2>5, <2>6 DEF GrownList
  <2> QED
    BY <2>7 DEF r
<1>5. CASE Continues(Peek(tokens, p), op)
  <2> DEFINE others == f[p + 1][op]
  <2>1. p \in 1 .. n
    <3>1. Peek(tokens, p) # "end"
      BY <1>5 DEF Continues
    <3> QED
      BY <1>1, <3>1, PeekIs
  <2>2. GrownList(S, tokens, p + 1, others)
    <3>1. p + 1 \in pos + 1 .. n + 1
      BY <1>1, <1>3, <2>1
    <3>2. Grown(S, tokens, p + 1, f[p + 1])
      BY <3>1 DEF GrownFrom
    <3> DEFINE e == f[p + 1]
    <3>3. Grown(S, tokens, p + 1, e)
      BY <3>2
    <3> HIDE DEF p, e
    <3>4. GrownList(S, tokens, p + 1, e.And) /\ GrownList(S, tokens, p + 1, e.Or)
      BY <3>3 DEF Grown
    <3>5. e[op] = e.And \/ e[op] = e.Or
      OBVIOUS
    <3> QED
      BY <3>4, <3>5 DEF e
  <2>3. r = IF ~ others.ok THEN others ELSE [others EXCEPT !.trees = <<t>> \o @]
    BY <1>5 DEF Operands
  <2> HIDE DEF r, others, t, p
  <2>4. CASE ~ others.ok
    <3>1. r = others
      BY <2>3, <2>4
    <3> QED
      BY <2>4, <3>1 DEF GrownList, r
  <2>5. CASE others.ok
    <3> DEFINE l == others.trees
               e == others.pos
               m == <<t>> \o l
    <3>1. others \in [ok : {TRUE}, trees : Seq(S), pos : Nat]
      BY <2>2, <2>5 DEF GrownList
    <3>2. others = [ok |-> TRUE, trees |-> l, pos |-> e] /\ l \in Seq(S) /\ e \in Nat
      BY <3>1
    <3>3. /\ p + 1 < e /\ e <= n + 1 /\ Len(l) > 0
          /\ \A i \in 1 .. Len(l) : l[i] \in Level[e - (p + 1) - 1]
      BY <2>2, <2>5 DEF GrownList
    <3>4. r = [others EXCEPT !.trees = m]
      BY <2>3, <2>5
    <3> HIDE DEF l, e
    <3>5. r = [ok |-> TRUE, trees |-> m, pos |-> e]
      <4> HIDE DEF m
      <4> QED
        BY <3>2, <3>4
    <3>6. /\ p - pos - 1 \in 0 .. MaxDepth /\ e - (p + 1) - 1 \in 0 .. MaxDepth
          /\ e - pos - 1 \in 0 .. MaxDepth /\ e - pos - 2 \in 0 .. MaxDepth
          /\ p - pos - 1 <= e - pos - 2 /\ e - (p + 1) - 1 <= e - pos - 2
          /\ e - pos - 2 <= e - pos - 1 /\ pos + 2 <= e /\ pos < e
      BY <1>1, <1>3, <2>1, <3>2, <3>3, DepthAssumption
    <3>7. /\ Level[p - pos - 1] \subseteq Level[e - pos - 2]
          /\ Level[e - (p + 1) - 1] \subseteq Level[e - pos - 2]
          /\ Level[e - pos - 2] \subseteq Level[e - pos - 1]
      BY <3>6, LevelsNested
    <3>8. /\ m \in Seq(S) /\ Len(m) = Len(l) + 1 /\ m[1] = t
          /\ \A i \in 1 .. Len(l) : m[i + 1] = l[i]
      BY <1>3, <3>2
    <3>9. \A i \in 1 .. Len(m) : m[i] \in Level[e - pos - 2]
      <4> SUFFICES ASSUME NEW i \in 1 .. Len(m) PROVE m[i] \in Level[e - pos - 2]
        OBVIOUS
      <4> HIDE DEF m
      <4>1. CASE i = 1
        BY <1>3, <3>7, <3>8, <4>1
      <4>2. CASE i # 1
        <5>1. Len(l) \in Nat
          BY <3>2
        <5>2. i - 1 \in 1 .. Len(l) /\ (i - 1) + 1 = i
          BY <3>8, <4>2, <5>1
        <5>3. m[i] = l[i - 1]
          BY <3>8, <5>2
        <5> QED
          BY <3>3, <3>7, <5>2, <5>3
      <4> QED
        BY <4>1, <4>2
    <3> HIDE DEF m
    <3>10. \A i \in 1 .. Len(m) : m[i] \in Level[e - pos - 1]
      BY <3>7, <3>9
    <3>11. /\ r \in [ok : {TRUE}, trees : Seq(S), pos : Nat]
           /\ r.trees = m /\ r.pos = e
      BY <3>2, <3>5, <3>8
    <3>12. /\ Len(r.trees) > 0 /\ pos < r.pos /\ r.pos <= Len(tokens) + 1 /\ pos + 2 <= r.pos
      <4>1. Len(l) \in Nat
        BY <3>2
      <4> QED
        BY <3>3, <3>6, <3>8, <3>11, <4>1
    <3>13. /\ \A i \in 1 .. Len(r.trees) : r.trees[i] \in Level[r.pos - pos - 1]
           /\ \A i \in 1 .. Len(r.trees) : r.trees[i] \in Level[r.pos - pos - 2]
      BY <3>9, <3>10, <3>11
    <3>14. GrownList(S, tokens, pos, r)
      BY <3>11, <3>12, <3>13 DEF GrownList
    <3> QED
      BY <3>14 DEF r
  <2> QED
    BY <2>4, <2>5
<1> QED
  BY <1>4, <1>5

LEMMA JoinedGrows ==
  ASSUME NEW S, PolicySet(S), NEW tokens, NEW pos, Parsable(tokens, pos), NEW op,
         NEW operands, GrownList(S, tokens, pos, operands)
  PROVE  GrownTree(S, tokens, pos, Joined(op, operands))
<1> DEFINE n == Len(tokens)
           r == Joined(op, operands)
<1>1. n \in Nat /\ n <= MaxDepth /\ pos \in Nat /\ pos <= n + 1 /\ 1 <= pos
  BY DEF Parsable
<1>2. CASE ~ operands.ok
  <2>1. r = operands
    BY <1>2 DEF Joined
  <2> QED
    BY <1>2, <2>1 DEF GrownTree
<1> SUFFICES ASSUME operands.ok PROVE GrownTree(S, tokens, pos, r)
  BY <1>2
<1> DEFINE l == operands.trees
           p == operands.pos
           t == IF Len(l) = 1 THEN l[1] ELSE IF op = "Or" THEN Or(l) ELSE And(l)
<1>3. /\ l \in Seq(S) /\ p \in Nat /\ pos < p /\ p <= n + 1 /\ Len(l) > 0
      /\ \A i \in 1 .. Len(l) : l[i] \in Level[p - pos - 1]
      /\ Len(l) # 1 => pos + 2 <= p /\ \A i \in 1 .. Len(l) : l[i] \in Level[p - pos - 2]
  BY DEF GrownList
<1>4. r = Parsed(t, p)
  BY DEF Joined
<1> HIDE DEF r, p, l
<1>5. t \in S /\ t \in Level[p - pos - 1]
  <2>1. CASE Len(l) = 1
    <3>1. 1 \in 1 .. Len(l) /\ t = l[1]
      BY <2>1
    <3> QED
      BY <1>3, <3>1
  <2>2. CASE Len(l) # 1
    <3>1. PICK k \in {1, Len(l)} : t = Gate(k, l)
      BY <2>2 DEF Or, And
    <3> HIDE DEF t
    <3>2. Len(l) \in Nat /\ k \in Nat /\ Len(l) > 1
      <4>1. l \in Seq(S) /\ Len(l) > 0
        BY <1>3
      <4>2. Len(l) \in Nat
        BY <4>1
      <4> QED
        BY <2>2, <4>1, <4>2
    <3> DEFINE d == p - pos - 2
    <3>3. /\ d \in Nat /\ d < MaxDepth /\ d + 1 = p - pos - 1 /\ d + 1 \in 0 .. MaxDepth
      BY <1>1, <1>3, <2>2, DepthAssumption
    <3>4. \A i \in 1 .. Len(l) : l[i] \in Level[d]
      BY <1>3, <2>2
    <3> HIDE DEF d
    <3>5. l \in Seq(Level[d])
      <4>1. l = [i \in 1 .. Len(l) |-> l[i]]
        BY <1>3
      <4>2. [i \in 1 .. Len(l) |-> l[i]] \in Seq(Level[d])
        BY <3>2, <3>4
      <4> QED
        BY <4>1, <4>2
    <3>6. Gate(k, l) \in Level[d + 1]
      BY <3>2, <3>3, <3>5, GateIsAtLevel
    <3>7. Gate(k, l) \in AnyTree
      BY <3>3, <3>6, LevelIsTrees
    <3>8. Gate(k, l) \in S
      <4>1. l \in Seq(S) /\ k \in {1, Len(l)} /\ Len(l) > 1
        BY <1>3, <3>2
      <4> QED
        BY <3>7, <4>1 DEF PolicySet, HasPolicyGates
    <3> QED
      BY <3>1, <3>3, <3>6, <3>8
  <2> QED
    BY <2>1, <2>2
<1> HIDE DEF t
<1>6. /\ r \in [ok : {TRUE}, tree : S, pos : Nat]
      /\ r.pos = p /\ r.tree = t
  BY <1>3, <1>4, <1>5 DEF Parsed
<1>7. r.tree \in Level[r.pos - pos - 1] /\ pos < r.pos /\ r.pos <= Len(tokens) + 1
  BY <1>3, <1>5, <1>6
<1>8. GrownTree(S, tokens, pos, r)
  BY <1>6, <1>7 DEF GrownTree
<1> QED
  BY <1>8 DEF r

\* What the parser computes at a position.
Entry(tokens, pos, f) ==
  LET conjuncts == Operands(tokens, "And", ParseAtom(tokens, pos, f), f)
      disjuncts == Operands(tokens, "Or", Joined("And", conjuncts), f)
  IN [And |-> conjuncts, Or |-> disjuncts, policy |-> Joined("Or", disjuncts)]

LEMMA EntryGrows ==
  ASSUME NEW S, PolicySet(S), NEW tokens, NEW pos, Parsable(tokens, pos),
         NEW f, GrownFrom(S, tokens, pos + 1, f)
  PROVE  Grown(S, tokens, pos, Entry(tokens, pos, f))
<1> DEFINE atom == ParseAtom(tokens, pos, f)
           conjuncts == Operands(tokens, "And", atom, f)
           conjunction == Joined("And", conjuncts)
           disjuncts == Operands(tokens, "Or", conjunction, f)
<1>1. GrownTree(S, tokens, pos, atom)
  BY AtomGrows
<1> HIDE DEF atom
<1>2. GrownList(S, tokens, pos, conjuncts)
  BY <1>1, OperandsGrow
<1> HIDE DEF conjuncts
<1>3. GrownTree(S, tokens, pos, conjunction)
  BY <1>2, JoinedGrows
<1> HIDE DEF conjunction
<1>4. GrownList(S, tokens, pos, disjuncts)
  BY <1>3, OperandsGrow
<1> HIDE DEF disjuncts
<1>5. GrownTree(S, tokens, pos, Joined("Or", disjuncts))
  BY <1>4, JoinedGrows
<1>6. Entry(tokens, pos, f) = [And |-> conjuncts, Or |-> disjuncts, policy |-> Joined("Or", disjuncts)]
  BY DEF Entry, disjuncts, conjunction, conjuncts, atom
<1> QED
  BY <1>2, <1>4, <1>5, <1>6 DEF Grown

\* It computes the same from what is the same from the next position on.
Agree(tokens, pos, f, g) == \A q \in pos .. Len(tokens) + 1 : f[q] = g[q]

LEMMA AtomAgrees ==
  ASSUME NEW tokens, NEW pos, Parsable(tokens, pos), NEW f, NEW g, Agree(tokens, pos + 1, f, g)
  PROVE  ParseAtom(tokens, pos, f) = ParseAtom(tokens, pos, g)
<1>1. CASE Peek(tokens, pos) = "LParen"
  <2>1. tokens \in Seq(PolicyTokens) /\ pos \in 1 .. Len(tokens) + 1 /\ Len(tokens) \in Nat
    BY DEF Parsable
  <2>2. pos \in 1 .. Len(tokens)
    BY <1>1, <2>1, PeekIs
  <2>3. pos + 1 \in pos + 1 .. Len(tokens) + 1
    BY <2>1, <2>2
  <2>4. f[pos + 1] = g[pos + 1]
    BY <2>3 DEF Agree
  <2> QED
    BY <2>4 DEF ParseAtom
<1>2. CASE Peek(tokens, pos) # "LParen"
  BY <1>2 DEF ParseAtom
<1> QED
  BY <1>1, <1>2

LEMMA OperandsAgree ==
  ASSUME NEW S, NEW tokens, NEW pos, Parsable(tokens, pos), NEW op \in {"And", "Or"},
         NEW f, NEW g, Agree(tokens, pos + 1, f, g),
         NEW operand, GrownTree(S, tokens, pos, operand)
  PROVE  Operands(tokens, op, operand, f) = Operands(tokens, op, operand, g)
<1>1. CASE operand.ok /\ Continues(Peek(tokens, operand.pos), op)
  <2> DEFINE p == operand.pos
  <2>1. /\ tokens \in Seq(PolicyTokens) /\ pos \in 1 .. Len(tokens) + 1 /\ Len(tokens) \in Nat
        /\ p \in Nat /\ pos < p
    BY <1>1 DEF Parsable, GrownTree
  <2>2. p \in 1 .. Len(tokens)
    <3>1. Peek(tokens, p) # "end"
      BY <1>1 DEF Continues
    <3> QED
      BY <2>1, <3>1, PeekIs
  <2>3. p + 1 \in pos + 1 .. Len(tokens) + 1
    BY <2>1, <2>2
  <2>4. f[p + 1] = g[p + 1]
    BY <2>3 DEF Agree
  <2> QED
    BY <2>4 DEF Operands
<1>2. CASE ~ (operand.ok /\ Continues(Peek(tokens, operand.pos), op))
  BY <1>2 DEF Operands
<1> QED
  BY <1>1, <1>2

LEMMA EntryAgrees ==
  ASSUME NEW S, PolicySet(S), NEW tokens, NEW pos, Parsable(tokens, pos),
         NEW f, GrownFrom(S, tokens, pos + 1, f), NEW g, Agree(tokens, pos + 1, f, g)
  PROVE  Entry(tokens, pos, f) = Entry(tokens, pos, g)
<1> DEFINE atom == ParseAtom(tokens, pos, f)
           conjuncts == Operands(tokens, "And", atom, f)
           conjunction == Joined("And", conjuncts)
           disjuncts == Operands(tokens, "Or", conjunction, f)
<1>1. GrownTree(S, tokens, pos, atom) /\ atom = ParseAtom(tokens, pos, g)
  BY AtomGrows, AtomAgrees
<1>2. /\ Entry(tokens, pos, f)
           = [And |-> conjuncts, Or |-> disjuncts, policy |-> Joined("Or", disjuncts)]
      /\ Entry(tokens, pos, g)
           = LET c == Operands(tokens, "And", atom, g)
                 d == Operands(tokens, "Or", Joined("And", c), g)
             IN [And |-> c, Or |-> d, policy |-> Joined("Or", d)]
  BY <1>1 DEF Entry
<1> HIDE DEF atom
<1>3. GrownList(S, tokens, pos, conjuncts) /\ conjuncts = Operands(tokens, "And", atom, g)
  BY <1>1, OperandsGrow, OperandsAgree
<1> HIDE DEF conjuncts
<1>4. GrownTree(S, tokens, pos, conjunction)
  BY <1>3, JoinedGrows
<1> HIDE DEF conjunction
<1>5. disjuncts = Operands(tokens, "Or", conjunction, g)
  BY <1>4, OperandsAgree
<1> HIDE DEF disjuncts
<1> QED
  BY <1>2, <1>3, <1>5 DEF conjunction

\* The parser exists, as a function that is computed from the last position.
Parses(tokens, first, f) == f = [pos \in first .. Len(tokens) + 1 |-> Entry(tokens, pos, f)]

LEMMA ParsesBefore ==
  ASSUME NEW S, PolicySet(S), NEW tokens \in Seq(PolicyTokens), Len(tokens) <= MaxDepth,
         NEW first \in Nat, 1 < first, first <= Len(tokens) + 2,
         NEW f, Parses(tokens, first, f), GrownFrom(S, tokens, first, f)
  PROVE  \E h : Parses(tokens, first - 1, h) /\ GrownFrom(S, tokens, first - 1, h)
<1> DEFINE n == Len(tokens)
           new == Entry(tokens, first - 1, f)
           h == [pos \in first - 1 .. n + 1 |-> IF pos >= first THEN f[pos] ELSE new]
<1>1. n \in Nat
  OBVIOUS
<1>2. \A pos \in first .. n + 1 : f[pos] = Entry(tokens, pos, f)
  BY DEF Parses
<1>3. ASSUME NEW pos \in first - 1 .. n + 1
      PROVE  Parsable(tokens, pos) /\ GrownFrom(S, tokens, pos + 1, f)
  <2>1. pos \in 1 .. n + 1
    BY <1>1
  <2>2. \A q \in pos + 1 .. n + 1 : q \in first .. n + 1
    BY <1>1
  <2> QED
    BY <2>1, <2>2 DEF Parsable, GrownFrom
<1>4. \A pos \in first .. n + 1 : h[pos] = f[pos]
  OBVIOUS
<1>5. h[first - 1] = new
  BY <1>1
<1>6. h = [pos \in first - 1 .. n + 1 |-> h[pos]]
  OBVIOUS
<1> HIDE DEF h, new
<1>7. ASSUME NEW pos \in first - 1 .. n + 1
      PROVE  Entry(tokens, pos, f) = Entry(tokens, pos, h)
  <2>1. Agree(tokens, pos + 1, f, h)
    <3>1. \A q \in pos + 1 .. n + 1 : q \in first .. n + 1
      BY <1>1
    <3> QED
      BY <1>4, <3>1 DEF Agree
  <2> QED
    BY <1>3, <2>1, EntryAgrees
<1>8. ASSUME NEW pos \in first - 1 .. n + 1
      PROVE  h[pos] = Entry(tokens, pos, f)
  <2>1. CASE pos >= first
    <3>1. pos \in first .. n + 1
      BY <1>1, <2>1
    <3> QED
      BY <1>2, <1>4, <3>1
  <2>2. CASE ~ (pos >= first)
    <3>1. pos = first - 1
      BY <1>1, <2>2
    <3> QED
      BY <1>5, <3>1 DEF new
  <2> QED
    BY <2>1, <2>2
<1>9. Parses(tokens, first - 1, h)
  BY <1>6, <1>7, <1>8 DEF Parses
<1>10. GrownFrom(S, tokens, first - 1, h)
  <2> SUFFICES ASSUME NEW q \in first - 1 .. n + 1 PROVE Grown(S, tokens, q, h[q])
    BY DEF GrownFrom
  <2>1. Grown(S, tokens, q, Entry(tokens, q, f))
    BY <1>3, EntryGrows
  <2> QED
    BY <1>8, <2>1
<1> QED
  BY <1>9, <1>10

ParsesAndGrows(S, tokens, first) ==
  \E f : Parses(tokens, first, f) /\ GrownFrom(S, tokens, first, f)

LEMMA ParsesExist ==
  ASSUME NEW S, PolicySet(S), NEW tokens \in Seq(PolicyTokens), Len(tokens) <= MaxDepth
  PROVE  ParsesAndGrows(S, tokens, 1)
<1> DEFINE n == Len(tokens)
           M == {m \in Nat : m <= n + 1 => ParsesAndGrows(S, tokens, n + 2 - m)}
<1>1. n \in Nat
  OBVIOUS
<1>2. 0 \in M
  <2> DEFINE f == [pos \in n + 2 .. n + 1 |-> TRUE]
  <2>1. n + 2 .. n + 1 = {}
    BY <1>1
  <2>2. Parses(tokens, n + 2, f)
    BY <2>1 DEF Parses
  <2>3. GrownFrom(S, tokens, n + 2, f)
    BY <2>1 DEF GrownFrom
  <2>4. n + 2 - 0 = n + 2
    BY <1>1
  <2> QED
    BY <2>2, <2>3, <2>4 DEF ParsesAndGrows
<1>3. ASSUME NEW m \in M PROVE m + 1 \in M
  <2> SUFFICES ASSUME m + 1 <= n + 1 PROVE ParsesAndGrows(S, tokens, n + 2 - (m + 1))
    OBVIOUS
  <2> DEFINE first == n + 2 - m
  <2>1. m \in Nat /\ m <= n + 1 /\ first \in Nat /\ 1 < first /\ first <= n + 2
        /\ first - 1 = n + 2 - (m + 1)
    BY <1>1
  <2>2. ParsesAndGrows(S, tokens, first)
    BY <2>1
  <2> HIDE DEF first, M
  <2>3. PICK f : Parses(tokens, first, f) /\ GrownFrom(S, tokens, first, f)
    BY <2>2 DEF ParsesAndGrows
  <2>4. ParsesAndGrows(S, tokens, first - 1)
    BY <2>1, <2>3, ParsesBefore DEF ParsesAndGrows
  <2> QED
    BY <2>1, <2>4
<1>4. M = Nat
  <2> HIDE DEF M
  <2>1. M \in SUBSET Nat
    BY DEF M
  <2> QED
    BY <1>2, <1>3, <2>1, InductionInSet
<1>5. n + 1 \in M /\ n + 1 <= n + 1 /\ n + 2 - (n + 1) = 1
  BY <1>1, <1>4
<1> HIDE DEF n
<1> QED
  BY <1>5

LEMMA TreesArePolicies == PolicySet(AnyTree)
<1>1. HasPolicyLeaves(AnyTree)
  <2> SUFFICES ASSUME NEW w, IsWord(w) PROVE Leaf(Normalize(w)) \in AnyTree
    BY DEF HasPolicyLeaves
  <2>1. Normalize(w) \in Name
    BY NormalizeType, TextAssumption DEF IsWord
  <2> QED
    BY <2>1, LeafIsTree
<1>2. HasPolicyGates(AnyTree)
  BY DEF HasPolicyGates
<1> QED
  BY <1>1, <1>2 DEF PolicySet

LEMMA ParserParses ==
  ASSUME NEW tokens \in Seq(PolicyTokens), Len(tokens) <= MaxDepth
  PROVE  /\ Parses(tokens, 1, Parser(tokens))
         /\ \A pos \in 1 .. Len(tokens) + 1 :
              Parser(tokens)[pos] = Entry(tokens, pos, Parser(tokens))
<1>1. \E f : Parses(tokens, 1, f)
  BY ParsesExist, TreesArePolicies DEF ParsesAndGrows
<1>2. Parser(tokens) = CHOOSE f : Parses(tokens, 1, f)
  BY DEF Parser, Parses, Entry
<1>3. Parses(tokens, 1, Parser(tokens))
  BY <1>1, <1>2
<1> DEFINE f == Parser(tokens)
<1>4. Parses(tokens, 1, f)
  BY <1>3
<1> HIDE DEF f
<1>5. \A pos \in 1 .. Len(tokens) + 1 : f[pos] = Entry(tokens, pos, f)
  BY <1>4 DEF Parses
<1> QED
  BY <1>3, <1>5 DEF f

LEMMA ParserGrows ==
  ASSUME NEW S, PolicySet(S), NEW tokens \in Seq(PolicyTokens), Len(tokens) <= MaxDepth
  PROVE  GrownFrom(S, tokens, 1, Parser(tokens))
<1> DEFINE n == Len(tokens)
           f == Parser(tokens)
           M == {m \in Nat : m <= n + 1 => GrownFrom(S, tokens, n + 2 - m, f)}
<1>1. n \in Nat
  OBVIOUS
<1>2. \A pos \in 1 .. n + 1 : f[pos] = Entry(tokens, pos, f)
  BY ParserParses
<1> HIDE DEF f
<1>3. 0 \in M
  <2>1. n + 2 .. n + 1 = {} /\ n + 2 - 0 = n + 2
    BY <1>1
  <2>2. GrownFrom(S, tokens, n + 2, f)
    BY <2>1 DEF GrownFrom
  <2> QED
    BY <2>1, <2>2
<1>4. ASSUME NEW m \in M PROVE m + 1 \in M
  <2> SUFFICES ASSUME m + 1 <= n + 1 PROVE GrownFrom(S, tokens, n + 2 - (m + 1), f)
    OBVIOUS
  <2> DEFINE pos == n + 2 - (m + 1)
  <2>1. m \in Nat /\ m <= n + 1 /\ pos \in 1 .. n + 1 /\ pos + 1 = n + 2 - m
    BY <1>1
  <2>2. GrownFrom(S, tokens, pos + 1, f)
    <3>1. GrownFrom(S, tokens, n + 2 - m, f)
      BY <2>1
    <3> HIDE DEF pos
    <3> QED
      BY <2>1, <3>1
  <2> HIDE DEF pos, M
  <2>3. Parsable(tokens, pos)
    BY <2>1 DEF Parsable
  <2>4. Grown(S, tokens, pos, f[pos])
    BY <1>2, <2>1, <2>2, <2>3, EntryGrows
  <2>5. \A q \in pos .. n + 1 : q = pos \/ q \in pos + 1 .. n + 1
    BY <1>1, <2>1
  <2>6. GrownFrom(S, tokens, pos, f)
    BY <2>2, <2>4, <2>5 DEF GrownFrom
  <2> QED
    BY <2>6 DEF pos
<1>5. M = Nat
  <2> HIDE DEF M
  <2>1. M \in SUBSET Nat
    BY DEF M
  <2> QED
    BY <1>3, <1>4, <2>1, InductionInSet
<1>6. n + 1 \in M /\ n + 1 <= n + 1 /\ n + 2 - (n + 1) = 1
  BY <1>1, <1>5
<1> HIDE DEF n
<1>7. GrownFrom(S, tokens, 1, f)
  BY <1>6
<1> QED
  BY <1>7 DEF f

\* parse_policy: a tree it returns is made of the words of the text.
LEMMA ParsedPolicy ==
  ASSUME NEW S, PolicySet(S), NEW text \in Texts, Len(text) <= MaxDepth, Parse(text).ok
  PROVE  Parse(text).tree \in S /\ Parse(text).tree \in AnyTree
<1> DEFINE tokens == Tokenize(text)
           n == Len(tokens)
           policy == Parser(tokens)[1].policy
<1>1. tokens \in Seq(PolicyTokens) /\ Len(tokens) <= Len(text)
  BY TokensType
<1>2. Parse(text) = IF policy.ok /\ policy.pos <= n THEN Failed("UnexpectedToken") ELSE policy
  BY DEF Parse
<1> HIDE DEF tokens
<1>3. Len(tokens) <= MaxDepth /\ n \in Nat
  <2>1. Len(text) \in Nat /\ Len(tokens) \in Nat
    BY <1>1 DEF Texts
  <2> QED
    BY <1>1, <2>1, DepthAssumption
<1>4. GrownFrom(S, tokens, 1, Parser(tokens))
  BY <1>1, <1>3, ParserGrows
<1>5. GrownTree(S, tokens, 1, policy)
  <2>1. 1 \in 1 .. Len(tokens) + 1
    BY <1>3
  <2> QED
    BY <1>4, <2>1 DEF GrownFrom, Grown
<1> HIDE DEF policy
<1>6. Parse(text) = policy /\ policy.ok
  <2>1. ~ Failed("UnexpectedToken").ok
    BY DEF Failed
  <2> QED
    BY <1>2, <2>1
<1> DEFINE d == policy.pos - 1 - 1
<1>7. /\ policy.tree \in S /\ policy.pos \in Nat /\ 1 < policy.pos /\ policy.pos <= n + 1
      /\ policy.tree \in Level[d]
  BY <1>5, <1>6 DEF GrownTree
<1>8. d \in 0 .. MaxDepth
  BY <1>3, <1>7, DepthAssumption
<1>9. policy.tree \in AnyTree
  <2> HIDE DEF d
  <2> QED
    BY <1>7, <1>8, LevelIsTrees
<1> QED
  BY <1>6, <1>7, <1>9

-----------------------------------------------------------------------------
(* Texts of one word.                                                      *)

\* What is scanned of a word that has not ended.
WordSoFar(text, n, st) ==
  /\ st \in [current : Seq(Piece), tokens : {<< >>}]
  /\ Len(st.current) = n
  /\ \A i \in 1 .. n : st.current[i] = text[i]

LEMMA WordGoesOn ==
  ASSUME NEW text \in Texts, NEW n \in Nat, n + 1 <= Len(text), NEW st, WordSoFar(text, n, st),
         text[n + 1] \notin Breaks
  PROVE  WordSoFar(text, n + 1, Take(st, text[n + 1]))
<1> DEFINE word == st.current
           piece == text[n + 1]
           run == Append(word, piece)
           new == [current |-> run, tokens |-> << >>]
<1>1. /\ word \in Seq(Piece) /\ Len(word) = n /\ \A i \in 1 .. n : word[i] = text[i]
      /\ st = [current |-> word, tokens |-> << >>]
  BY DEF WordSoFar
<1>2. piece \in Piece
  <2>1. text \in Seq(Piece) /\ n + 1 \in 1 .. Len(text)
    BY DEF Texts
  <2> QED
    BY <2>1
<1>3. Take(st, piece) = [st EXCEPT !.current = Append(@, piece)]
  BY DEF Take, Breaks
<1> HIDE DEF word, piece
<1>4. Take(st, piece) = new
  BY <1>1, <1>3
<1>5. /\ run \in Seq(Piece) /\ Len(run) = n + 1 /\ run[n + 1] = piece
      /\ \A i \in 1 .. n : run[i] = word[i]
  BY <1>1, <1>2
<1>6. \A i \in 1 .. n + 1 : run[i] = text[i]
  <2>1. \A i \in 1 .. n + 1 : i \in 1 .. n \/ i = n + 1
    OBVIOUS
  <2> QED
    BY <1>1, <1>5, <2>1 DEF piece
<1> HIDE DEF run
<1>7. new.current = run /\ new \in [current : Seq(Piece), tokens : {<< >>}]
  BY <1>5
<1> HIDE DEF new
<1>8. WordSoFar(text, n + 1, new)
  BY <1>5, <1>6, <1>7 DEF WordSoFar
<1> QED
  BY <1>4, <1>8 DEF piece

LEMMA WordScans ==
  ASSUME NEW text \in Texts, \A i \in 1 .. Len(text) : text[i] \notin Breaks
  PROVE  \E st : /\ st = [current |-> text, tokens |-> << >>]
                 /\ Tokenize(text) = Flush(st).tokens
<1>1. PICK g : Scans(text, Len(text), g) /\ Tokenize(text) = Flush(g[Len(text)]).tokens
  BY TokenizeIs
<1>2. text \in Seq(Piece) /\ Len(text) \in Nat
  BY DEF Texts
<1> DEFINE S == {n \in Nat : n <= Len(text) => WordSoFar(text, n, g[n])}
<1>3. \A i \in 0 .. Len(text) : g[i] = IF i = 0 THEN Start ELSE Take(g[i - 1], text[i])
  BY <1>1 DEF Scans
<1>4. 0 \in S
  <2>1. g[0] = Start
    BY <1>2, <1>3
  <2>2. Start \in [current : Seq(Piece), tokens : {<< >>}] /\ Start.current = << >>
    BY DEF Start
  <2>3. Len(<< >>) = 0 /\ 1 .. 0 = {}
    OBVIOUS
  <2>4. WordSoFar(text, 0, Start)
    BY <2>2, <2>3 DEF WordSoFar
  <2> QED
    BY <2>1, <2>4
<1>5. ASSUME NEW n \in S PROVE n + 1 \in S
  <2> SUFFICES ASSUME n + 1 <= Len(text) PROVE WordSoFar(text, n + 1, g[n + 1])
    OBVIOUS
  <2>1. n \in Nat /\ n <= Len(text) /\ n + 1 \in 0 .. Len(text) /\ n + 1 # 0
        /\ n + 1 \in 1 .. Len(text) /\ (n + 1) - 1 = n
    BY <1>2
  <2>2. WordSoFar(text, n, g[n])
    BY <2>1
  <2>3. g[n + 1] = Take(g[n], text[n + 1])
    BY <1>3, <2>1
  <2>4. text[n + 1] \notin Breaks
    BY <2>1
  <2> QED
    BY <2>1, <2>2, <2>3, <2>4, WordGoesOn
<1>6. S = Nat
  <2> HIDE DEF S
  <2>1. S \in SUBSET Nat
    BY DEF S
  <2> QED
    BY <1>4, <1>5, <2>1, InductionInSet
<1> DEFINE st == g[Len(text)]
           word == st.current
<1>7. WordSoFar(text, Len(text), st)
  <2>1. Len(text) \in S /\ Len(text) <= Len(text)
    BY <1>2, <1>6
  <2> QED
    BY <2>1
<1> HIDE DEF st
<1>8. /\ st = [current |-> word, tokens |-> << >>]
      /\ word \in Seq(Piece) /\ Len(word) = Len(text)
      /\ \A i \in 1 .. Len(text) : word[i] = text[i]
  BY <1>7 DEF WordSoFar
<1> HIDE DEF word
<1>9. word = text
  BY <1>2, <1>8
<1>10. st = [current |-> text, tokens |-> << >>]
  BY <1>8, <1>9
<1> QED
  BY <1>1, <1>10 DEF st

LEMMA WordTokens ==
  ASSUME NEW text \in Texts, \A i \in 1 .. Len(text) : text[i] \notin Breaks
  PROVE  Tokenize(text) = IF text = << >> THEN << >> ELSE <<Token(text)>>
<1>1. PICK st : st = [current |-> text, tokens |-> << >>] /\ Tokenize(text) = Flush(st).tokens
  BY WordScans
<1>2. st.current = text /\ st.tokens = << >>
  BY <1>1
<1>3. Flush(st).tokens = IF text = << >> THEN << >> ELSE Append(<< >>, Token(text))
  BY <1>2 DEF Flush
<1>4. \A x : Append(<< >>, x) = <<x>>
  OBVIOUS
<1> QED
  BY <1>1, <1>3, <1>4

\* A text that is one word for the parser is one leaf, unless it is a keyword.
LEMMA OneTokenParse ==
  ASSUME NEW text \in Texts, NEW tokens, tokens = Tokenize(text),
         tokens \in Seq(PolicyTokens), Len(tokens) <= MaxDepth
  PROVE  /\ Peek(tokens, 1) \notin {"Attr", "LParen"} => ~ Parse(text).ok
         /\ Len(tokens) = 1 /\ Peek(tokens, 1) = "Attr"
              => Parse(text) = Parsed(Leaf(Normalize(tokens[1].word)), 2)
<1> DEFINE f == Parser(tokens)
           policy == f[1].policy
           n == Len(tokens)
<1>1. n \in Nat
  OBVIOUS
<1>2. f[1] = Entry(tokens, 1, f)
  <2>1. 1 \in 1 .. Len(tokens) + 1
    BY <1>1
  <2> QED
    BY <2>1, ParserParses
<1>3. Parse(text) = IF policy.ok /\ policy.pos <= n THEN Failed("UnexpectedToken") ELSE policy
  BY DEF Parse
<1> DEFINE atom == ParseAtom(tokens, 1, f)
           conjuncts == Operands(tokens, "And", atom, f)
           conjunction == Joined("And", conjuncts)
           disjuncts == Operands(tokens, "Or", conjunction, f)
<1>4. policy = Joined("Or", disjuncts)
  BY <1>2 DEF Entry
<1>5. ~ Failed("UnexpectedToken").ok
  BY DEF Failed
<1>6. CASE Peek(tokens, 1) \notin {"Attr", "LParen"}
  <2>1. atom = Failed("UnexpectedEof") \/ atom = Failed("UnexpectedToken")
    BY <1>6 DEF ParseAtom
  <2> HIDE DEF f, policy, atom
  <2>2. ~ atom.ok
    BY <2>1 DEF Failed
  <2>3. conjuncts = atom
    BY <2>2 DEF Operands
  <2>4. conjunction = atom
    BY <2>2, <2>3 DEF Joined
  <2>5. disjuncts = atom
    BY <2>2, <2>4 DEF Operands
  <2>6. policy = atom
    BY <1>4, <2>2, <2>5 DEF Joined
  <2> QED
    BY <1>3, <1>6, <2>2, <2>6
<1>7. CASE n = 1 /\ Peek(tokens, 1) = "Attr"
  <2> DEFINE leaf == Leaf(Normalize(tokens[1].word))
  <2>1. atom = Parsed(leaf, 1 + 1)
    BY <1>7 DEF ParseAtom
  <2>2. Peek(tokens, 2) = "end"
    <3>1. 2 \notin DOMAIN tokens
      BY <1>7
    <3> QED
      BY <3>1 DEF Peek
  <2> HIDE DEF f, policy, atom, leaf
  <2>3. atom.ok /\ atom.tree = leaf /\ atom.pos = 2 /\ atom = Parsed(leaf, 2)
    BY <2>1 DEF Parsed
  <2> DEFINE list == [ok |-> TRUE, trees |-> <<leaf>>, pos |-> 2]
  <2>4. list.ok /\ list.trees = <<leaf>> /\ list.pos = 2 /\ Len(<<leaf>>) = 1 /\ <<leaf>>[1] = leaf
    OBVIOUS
  <2>5. ~ Continues("end", "And") /\ ~ Continues("end", "Or")
    BY DEF Continues
  <2>6. conjuncts = list
    BY <2>2, <2>3, <2>5 DEF Operands
  <2> HIDE DEF list, conjuncts
  <2>7. conjunction = atom
    BY <2>3, <2>4, <2>6 DEF Joined
  <2> HIDE DEF conjunction
  <2>8. disjuncts = list
    BY <2>2, <2>3, <2>5, <2>7 DEF Operands, list
  <2> HIDE DEF disjuncts
  <2>9. policy = atom
    BY <1>4, <2>3, <2>4, <2>8 DEF Joined
  <2> QED
    BY <1>3, <1>7, <2>3, <2>9 DEF leaf
<1> QED
  BY <1>6, <1>7

LEMMA WithoutNone ==
  ASSUME NEW text \in Texts, NEW pieces, \A i \in 1 .. Len(text) : text[i] \notin pieces
  PROVE  Without(text, pieces) = text
<1>1. text \in Seq(Piece) /\ DOMAIN text = 1 .. Len(text)
  BY DEF Texts
<1>2. [i \in DOMAIN text |-> IF text[i] \in pieces THEN << >> ELSE <<text[i]>>]
        = [i \in DOMAIN text |-> <<text[i]>>]
  BY <1>1
<1>3. FlattenSeq([i \in DOMAIN text |-> <<text[i]>>]) = text
  BY <1>1, FlattenSingles
<1> QED
  BY <1>2, <1>3 DEF Without

\* Elements are found by their positions.
LEMMA TextElements ==
  ASSUME NEW text \in Texts
  PROVE  \A x : x \in ToSet(text) <=> \E i \in 1 .. Len(text) : x = text[i]
<1>1. DOMAIN text = 1 .. Len(text)
  BY DEF Texts
<1> QED
  BY <1>1 DEF ToSet

\* A plain text is one leaf, that of its own name.
LEMMA PlainParse ==
  ASSUME NEW text \in Texts, Plain(text)
  PROVE  Parse(text) = Parsed(Leaf(text), 2)
<1>1. \A i \in 1 .. Len(text) : text[i] \notin Breaks /\ text[i] \notin {"\"", " "}
  <2>1. \A i \in 1 .. Len(text) : text[i] \in ToSet(text)
    BY TextElements
  <2> QED
    BY <2>1 DEF Plain, Breaks
<1>2. text # << >> /\ Token(text).is = "Attr"
  BY DEF Plain
<1>3. Token(text) = Attr(text)
  <2>1. Token(text) \in {AndTok, OrTok, Attr(text)}
    BY DEF Token
  <2>2. AndTok.is # "Attr" /\ OrTok.is # "Attr"
    BY DEF AndTok, OrTok
  <2> QED
    BY <1>2, <2>1, <2>2
<1> DEFINE tokens == Tokenize(text)
<1>4. tokens = <<Attr(text)>>
  BY <1>1, <1>2, <1>3, WordTokens
<1>5. Attr(text) \in PolicyTokens
  BY <1>1, <1>2 DEF PolicyTokens, IsWord
<1> HIDE DEF tokens
<1>6. \A x \in PolicyTokens : <<x>> \in Seq(PolicyTokens) /\ Len(<<x>>) = 1 /\ <<x>>[1] = x
  OBVIOUS
<1>7. tokens \in Seq(PolicyTokens) /\ Len(tokens) = 1 /\ tokens[1] = Attr(text)
  BY <1>4, <1>5, <1>6
<1>8. Len(tokens) <= MaxDepth
  <2>1. MaxWords \in Nat \ {0} /\ 2 * MaxWords <= MaxDepth /\ MaxDepth \in Nat
    BY TextAssumption, DepthAssumption
  <2> QED
    BY <1>7, <2>1
<1>9. Peek(tokens, 1) = "Attr" /\ tokens[1].word = text
  <2>1. 1 \in DOMAIN tokens
    BY <1>7
  <2> QED
    BY <1>7, <2>1 DEF Peek, Attr
<1>10. Parse(text) = Parsed(Leaf(Normalize(text)), 2)
  BY <1>7, <1>8, <1>9, OneTokenParse DEF tokens
<1>11. Normalize(text) = text
  BY <1>1, WithoutNone DEF Normalize
<1> QED
  BY <1>10, <1>11

LEMMA PlainMatches ==
  ASSUME NEW text \in Texts, Plain(text), NEW names
  PROVE  Matches(text, names) <=> text \in names
<1>1. Parse(text) = Parsed(Leaf(text), 2)
  BY PlainParse
<1>2. Parse(text).ok /\ Parse(text).tree = Leaf(text)
  BY <1>1 DEF Parsed
<1>3. text \in Name
  BY TextAssumption
<1> QED
  BY <1>2, <1>3, SatisfiedLeaf DEF Matches

-----------------------------------------------------------------------------
(* Names show which control they were issued under: a name begins with the *)
(* prefix of its claim, and either ends there or goes on with `=` or `>=`. *)
(* Of two prefixes that a name begins with in this way, the longer one goes*)
(* on after the shorter one as the name does.                              *)

\* `name` begins with `prefix`, as the name of a claim with that prefix does.
Heads(prefix, name) ==
  /\ prefix \in Seq(Piece)
  /\ name \in Seq(Piece)
  /\ Len(prefix) <= Len(name)
  /\ \A i \in 1 .. Len(prefix) : prefix[i] = name[i]
  /\ \/ Len(prefix) = Len(name)
     \/ name[Len(prefix) + 1] = "="
     \/ name[Len(prefix) + 1] = ">" /\ name[Len(prefix) + 2] = "="

\* A text that begins with another one.
LEMMA IsBeginning ==
  ASSUME NEW s \in Seq(Piece), NEW t \in Seq(Piece), Len(s) <= Len(t),
         \A i \in 1 .. Len(s) : s[i] = t[i]
  PROVE  IsPrefix(s, t)
<1>1. Len(s) \in Nat /\ Len(t) \in Nat
  OBVIOUS
<1>2. /\ SubSeq(s, 1, Len(s)) \in Seq(Piece) /\ Len(SubSeq(s, 1, Len(s))) = Len(s)
      /\ \A i \in 1 .. Len(s) : SubSeq(s, 1, Len(s))[i] = s[i]
  BY <1>1
<1>3. /\ SubSeq(t, 1, Len(s)) \in Seq(Piece) /\ Len(SubSeq(t, 1, Len(s))) = Len(s)
      /\ \A i \in 1 .. Len(s) : SubSeq(t, 1, Len(s))[i] = t[i]
  BY <1>1
<1> DEFINE x == SubSeq(s, 1, Len(s))
           y == SubSeq(t, 1, Len(s))
<1>4. \A i \in 1 .. Len(x) : x[i] = y[i]
  BY <1>2, <1>3
<1> HIDE DEF x, y
<1>5. x = y
  BY <1>2, <1>3, <1>4 DEF x, y
<1> QED
  BY <1>5 DEF IsPrefix, x, y

\* What two such prefixes have to do with each other.
LEMMA HeadsGoOn ==
  ASSUME NEW p, NEW q, NEW name, Heads(p, name), Heads(q, name), Len(p) < Len(q)
  PROVE  GoesOn(q, p)
<1> DEFINE n == Len(p)
<1>1. /\ p \in Seq(Piece) /\ q \in Seq(Piece) /\ n \in Nat /\ Len(q) \in Nat /\ n + 1 <= Len(q)
      /\ Len(q) <= Len(name) /\ Len(name) \in Nat
  BY DEF Heads
<1>2. \A i \in 1 .. n : p[i] = q[i]
  BY <1>1 DEF Heads
<1>3. q[n + 1] = name[n + 1] /\ (n + 2 <= Len(q) => q[n + 2] = name[n + 2])
  BY <1>1 DEF Heads
<1>4. "=" \in Piece /\ ">" \in Piece
  BY PieceAssumption
<1>5. CASE name[n + 1] = "="
  <2> DEFINE s == p \o <<"=">>
  <2>1. s \in Seq(Piece) /\ Len(s) = n + 1 /\ s[n + 1] = "=" /\ \A i \in 1 .. n : s[i] = p[i]
    BY <1>1, <1>4
  <2> HIDE DEF s
  <2>2. \A i \in 1 .. n + 1 : i \in 1 .. n \/ i = n + 1
    BY <1>1
  <2>3. Len(s) <= Len(q) /\ \A i \in 1 .. Len(s) : s[i] = q[i]
    BY <1>1, <1>2, <1>3, <1>5, <2>1, <2>2
  <2>4. IsPrefix(s, q)
    BY <1>1, <2>1, <2>3, IsBeginning
  <2> QED
    BY <2>4 DEF GoesOn, s
<1>6. CASE name[n + 1] = ">" /\ Len(q) = n + 1
  <2> DEFINE s == p \o <<">">>
  <2>1. s \in Seq(Piece) /\ Len(s) = n + 1 /\ s[n + 1] = ">" /\ \A i \in 1 .. n : s[i] = p[i]
    BY <1>1, <1>4
  <2> HIDE DEF s
  <2>2. \A i \in 1 .. n + 1 : i \in 1 .. n \/ i = n + 1
    BY <1>1
  <2>3. \A i \in 1 .. Len(q) : s[i] = q[i]
    BY <1>1, <1>2, <1>3, <1>6, <2>1, <2>2
  <2>4. q = s
    BY <1>1, <1>6, <2>1, <2>3
  <2> QED
    BY <2>4 DEF GoesOn, s
<1>7. CASE name[n + 1] = ">" /\ name[n + 2] = "=" /\ Len(q) # n + 1
  <2> DEFINE s == p \o <<">", "=">>
  <2>1. /\ s \in Seq(Piece) /\ Len(s) = n + 2 /\ s[n + 1] = ">" /\ s[n + 2] = "="
        /\ \A i \in 1 .. n : s[i] = p[i]
    BY <1>1, <1>4
  <2> HIDE DEF s
  <2>2. n + 2 <= Len(q) /\ \A i \in 1 .. n + 2 : i \in 1 .. n \/ i = n + 1 \/ i = n + 2
    BY <1>1, <1>7
  <2>3. Len(s) <= Len(q) /\ \A i \in 1 .. Len(s) : s[i] = q[i]
    BY <1>1, <1>2, <1>3, <1>7, <2>1, <2>2
  <2>4. IsPrefix(s, q)
    BY <1>1, <2>1, <2>3, IsBeginning
  <2> QED
    BY <2>4 DEF GoesOn, s
<1>8. n # Len(name)
  BY <1>1
<1> QED
  BY <1>5, <1>6, <1>7, <1>8 DEF Heads

LEMMA HeadsOverlap ==
  ASSUME NEW p, NEW q, NEW name, Heads(p, name), Heads(q, name)
  PROVE  Overlap(p, q)
<1>1. Len(p) \in Nat /\ Len(q) \in Nat
  BY DEF Heads
<1>2. CASE Len(p) < Len(q)
  BY <1>2, HeadsGoOn DEF Overlap
<1>3. CASE Len(q) < Len(p)
  BY <1>3, HeadsGoOn DEF Overlap
<1>4. CASE Len(p) = Len(q)
  <2>1. p \in Seq(Piece) /\ q \in Seq(Piece) /\ \A i \in 1 .. Len(p) : p[i] = q[i]
    BY <1>4 DEF Heads
  <2>2. p = q
    BY <1>4, <2>1
  <2> QED
    BY <2>2 DEF Overlap
<1> QED
  BY <1>1, <1>2, <1>3, <1>4

-----------------------------------------------------------------------------
(* split_once.                                                             *)

\* A text that has the separator is what is before it, the separator, and
\* what is after it; before it there is none.
LEMMA SplitOnce ==
  ASSUME NEW text \in Seq(Piece), NEW sep, HasPiece(text, sep)
  PROVE  /\ FirstPiece(text, sep) \in 1 .. Len(text)
         /\ text[FirstPiece(text, sep)] = sep
         /\ Before(text, sep) \in Seq(Piece)
         /\ Len(Before(text, sep)) = FirstPiece(text, sep) - 1
         /\ \A i \in 1 .. Len(Before(text, sep)) :
              Before(text, sep)[i] = text[i] /\ Before(text, sep)[i] # sep
         /\ After(text, sep) \in Seq(Piece)
<1> DEFINE S == {i \in 1 .. Len(text) : text[i] = sep}
           k == FirstPiece(text, sep)
<1>1. S # {} /\ S \in SUBSET Nat
  BY DEF HasPiece
<1>2. PICK m \in S : \A n \in S : m <= n
  BY <1>1, LeastElement
<1>3. \A j \in 1 .. m - 1 : text[j] # sep
  BY <1>2
<1>4. /\ k \in DOMAIN text
      /\ text[k] = sep
      /\ \A j \in 1 .. k - 1 : text[j] # sep
  BY <1>2, <1>3 DEF FirstPiece
<1>5. k \in 1 .. Len(text)
  BY <1>4
<1> HIDE DEF k
<1>6. k \in Nat /\ Len(text) \in Nat /\ 0 <= k - 1 /\ k - 1 <= Len(text)
  BY <1>5
<1>7. /\ SubSeq(text, 1, k - 1) \in Seq(Piece)
      /\ Len(SubSeq(text, 1, k - 1)) = k - 1
      /\ \A i \in 1 .. k - 1 : SubSeq(text, 1, k - 1)[i] = text[i]
  BY <1>6
<1>8. SubSeq(text, k + 1, Len(text)) \in Seq(Piece)
  BY <1>6
<1> QED
  BY <1>4, <1>5, <1>7, <1>8 DEF Before, After, k

\* A key, and then what does not belong to it.
LEMMA KeyHeads ==
  ASSUME NEW key \in Seq(Piece), NEW rest \in Seq(Piece), Len(rest) > 0,
         rest[1] = "=" \/ (Len(rest) > 1 /\ rest[1] = ">" /\ rest[2] = "=")
  PROVE  Heads(key, key \o rest)
<1>1. Len(key) \in Nat /\ Len(rest) \in Nat
  OBVIOUS
<1>2. /\ key \o rest \in Seq(Piece)
      /\ Len(key \o rest) = Len(key) + Len(rest)
      /\ \A i \in 1 .. Len(key) : (key \o rest)[i] = key[i]
  OBVIOUS
<1>3. /\ (key \o rest)[Len(key) + 1] = rest[1]
      /\ Len(rest) > 1 => (key \o rest)[Len(key) + 2] = rest[2]
  BY <1>1
<1> QED
  BY <1>1, <1>2, <1>3 DEF Heads

-----------------------------------------------------------------------------
(* Claims, and what parse_claims makes of an argument.                     *)

IsFlag(c) == \E text \in Seq(Piece) : c = Flag(text)
IsText(c) == \E key \in Seq(Piece), value \in Seq(Piece) : c = Text(key, value)
IsNumeric(c) ==
  \E key \in Seq(Piece), value \in Number, max \in Number : c = Numeric(key, value, max)
IsClaim(c) == IsFlag(c) \/ IsText(c) \/ IsNumeric(c)

\* A claim is one of the three.
LEMMA ClaimKinds ==
  ASSUME NEW c \in Claim
  PROVE  IsClaim(c)
<1>1. CASE c \in [kind : {"flag"}, text : Texts]
  <2>1. c = Flag(c.text) /\ c.text \in Seq(Piece)
    BY <1>1 DEF Flag, Texts
  <2> QED
    BY <2>1 DEF IsFlag, IsClaim
<1>2. CASE c \in [kind : {"text"}, key : Texts, value : Texts]
  <2>1. c = Text(c.key, c.value) /\ c.key \in Seq(Piece) /\ c.value \in Seq(Piece)
    BY <1>2 DEF Text, Texts
  <2> QED
    BY <2>1 DEF IsText, IsClaim
<1>3. CASE c \in [kind : {"numeric"}, key : Texts, value : Number, max : Number]
  <2>1. /\ c = Numeric(c.key, c.value, c.max)
        /\ c.key \in Seq(Piece) /\ c.value \in Number /\ c.max \in Number
    BY <1>3 DEF Numeric, Texts
  <2> QED
    BY <2>1 DEF IsNumeric, IsClaim
<1> QED
  BY <1>1, <1>2, <1>3 DEF Claim

LEMMA ParsedNumber ==
  ASSUME NEW text, IsNumber(text)
  PROVE  NumberIn(text) \in Number
BY DEF IsNumber, NumberIn

LEMMA ParsedClaim ==
  ASSUME NEW arg \in Argument, ParseClaim(arg) # Malformed
  PROVE  IsClaim(ParseClaim(arg))
<1> DEFINE c == ParseClaim(arg)
           text == arg.text
<1>1. text \in Seq(Piece) /\ Len(text) \in Nat
  BY DEF Argument, Texts
<1>2. CASE arg.option = "--flag"
  <2>1. c = Flag(text)
    BY <1>2 DEF ParseClaim
  <2> QED
    BY <1>1, <2>1 DEF IsFlag, IsClaim
<1>3. CASE arg.option = "--text"
  <2>1. HasPiece(text, "=") /\ c = Text(Before(text, "="), After(text, "="))
    BY <1>3 DEF ParseClaim
  <2> HIDE DEF text, c
  <2>2. Before(text, "=") \in Seq(Piece) /\ After(text, "=") \in Seq(Piece)
    BY <1>1, <2>1, SplitOnce
  <2>3. IsText(c)
    BY <2>1, <2>2 DEF IsText
  <2> QED
    BY <2>3 DEF IsClaim, c
<1>4. CASE arg.option \notin {"--flag", "--text"}
  <2> DEFINE kv  == Before(text, ":")
             key == Before(kv, "=")
             value == NumberIn(After(kv, "="))
             max == NumberIn(After(text, ":"))
  <2>1. /\ HasPiece(text, ":") /\ HasPiece(kv, "=") /\ c = Numeric(key, value, max)
        /\ IsNumber(After(kv, "=")) /\ IsNumber(After(text, ":"))
    BY <1>4 DEF ParseClaim, ParseNumeric
  <2>2. kv \in Seq(Piece)
    BY <1>1, <2>1, SplitOnce
  <2>3. key \in Seq(Piece)
    BY <2>1, <2>2, SplitOnce
  <2>4. value \in Number /\ max \in Number
    BY <2>1, ParsedNumber
  <2> HIDE DEF key, kv, value, max, c
  <2>5. IsNumeric(c)
    BY <2>1, <2>3, <2>4 DEF IsNumeric
  <2> QED
    BY <2>5 DEF IsClaim, c
<1> QED
  BY <1>2, <1>3, <1>4

-----------------------------------------------------------------------------
(* Claim::resolve and Claim::key_prefix.                                   *)

LEMMA TopInRange ==
  ASSUME NEW value \in Number, NEW max \in Number
  PROVE  /\ Top(value, max) \in Int
         /\ \A i \in 1 .. Top(value, max) : i \in Number
         /\ \A i \in Int : i \in 1 .. Top(value, max) <=> 1 <= i /\ i <= value /\ i <= max
<1>1. MaxNumber \in Nat
  BY NumberAssumption
<1>2. value \in Int /\ max \in Int /\ value <= MaxNumber /\ max <= MaxNumber
  BY <1>1 DEF Number
<1>3. Top(value, max) \in Int /\ (Top(value, max) = 0 \/ Top(value, max) <= value)
  BY <1>2 DEF Top
<1>4. \A i \in 1 .. Top(value, max) : i \in Number
  BY <1>1, <1>2, <1>3 DEF Number
<1>5. \A i \in Int : i \in 1 .. Top(value, max) <=> 1 <= i /\ i <= value /\ i <= max
  BY <1>2 DEF Top
<1> QED
  BY <1>3, <1>4, <1>5

\* What follows the key in a numeric name.
AtLeast(i) == <<">", "=", ToString(i)>>

LEMMA AtLeastType ==
  ASSUME NEW i \in Number
  PROVE  /\ AtLeast(i) \in Seq(Piece) /\ Len(AtLeast(i)) = 3
         /\ AtLeast(i)[1] = ">" /\ AtLeast(i)[2] = "=" /\ AtLeast(i)[3] = ToString(i)
<1>1. ToString(i) \in Piece /\ "=" \in Piece /\ ">" \in Piece
  BY NumberAssumption, PieceAssumption
<1> QED
  BY <1>1 DEF AtLeast

LEMMA ResolvedFlag ==
  ASSUME NEW text
  PROVE  /\ Flag(text).kind = "flag" /\ Flag(text).text = text
         /\ Resolve(Flag(text)) = {text}
BY DEF Resolve, Flag

LEMMA ResolvedText ==
  ASSUME NEW key, NEW value
  PROVE  /\ Text(key, value).kind = "text"
         /\ Text(key, value).key = key /\ Text(key, value).value = value
         /\ Resolve(Text(key, value)) = {key \o <<"=">> \o value}
BY DEF Resolve, Text

LEMMA ResolvedNumeric ==
  ASSUME NEW key, NEW value, NEW max
  PROVE  /\ Numeric(key, value, max).kind = "numeric"
         /\ Numeric(key, value, max).key = key
         /\ Numeric(key, value, max).value = value
         /\ Numeric(key, value, max).max = max
         /\ Resolve(Numeric(key, value, max)) =
              {key \o AtLeast(i) : i \in 1 .. Top(value, max)}
BY DEF Resolve, Numeric, AtLeast

LEMMA HeadOfConcat ==
  ASSUME NEW V, NEW x \in Seq(V), NEW y \in Seq(V)
  PROVE  /\ x \o y \in Seq(V) /\ Len(x \o y) = Len(x) + Len(y) /\ Len(y) \in Nat
         /\ Len(x) = 1 => (x \o y)[1] = x[1]
<1>1. Len(x) \in Nat /\ Len(y) \in Nat
  OBVIOUS
<1>2. /\ x \o y \in Seq(V)
      /\ Len(x \o y) = Len(x) + Len(y)
      /\ \A i \in 1 .. Len(x) : (x \o y)[i] = x[i]
  OBVIOUS
<1>3. Len(x) = 1 => 1 \in 1 .. Len(x)
  OBVIOUS
<1> QED
  BY <1>1, <1>2, <1>3

\* The names of a claim begin with its prefix.
LEMMA ClaimHeads ==
  ASSUME NEW c, IsClaim(c), NEW name \in Resolve(c)
  PROVE  Heads(KeyPrefix(c), name)
<1>1. CASE IsFlag(c)
  <2>1. PICK text \in Seq(Piece) : c = Flag(text)
    BY <1>1 DEF IsFlag
  <2>2. name = text
    BY <2>1, ResolvedFlag
  <2>3. CASE HasPiece(text, "=")
    <3>1. KeyPrefix(c) = Before(text, "=")
      BY <2>1, <2>3 DEF KeyPrefix, Flag
    <3>2. Heads(Before(text, "="), text)
      BY <2>1, <2>3, SplitOnce DEF Heads
    <3> QED
      BY <2>2, <3>1, <3>2
  <2>4. CASE ~ HasPiece(text, "=")
    <3>1. KeyPrefix(c) = text
      BY <2>1, <2>4 DEF KeyPrefix, Flag
    <3> QED
      BY <2>2, <3>1 DEF Heads
  <2> QED
    BY <2>3, <2>4
<1>2. CASE IsText(c)
  <2>1. PICK key \in Seq(Piece), value \in Seq(Piece) : c = Text(key, value)
    BY <1>2 DEF IsText
  <2>2. KeyPrefix(c) = key
    BY <2>1 DEF KeyPrefix, Text
  <2>3. name = key \o <<"=">> \o value
    BY <2>1, ResolvedText
  <2>4. <<"=">> \in Seq(Piece) /\ Len(<<"=">>) = 1 /\ <<"=">>[1] = "="
    BY PieceAssumption
  <2> DEFINE equals == <<"=">>
             rest   == equals \o value
  <2> HIDE DEF equals
  <2>5. equals \in Seq(Piece) /\ Len(equals) = 1 /\ equals[1] = "="
    BY <2>4 DEF equals
  <2>6. rest \in Seq(Piece) /\ Len(rest) > 0 /\ rest[1] = "="
    <3>1. value \in Seq(Piece)
      OBVIOUS
    <3>2. /\ rest \in Seq(Piece) /\ Len(rest) = 1 + Len(value) /\ Len(value) \in Nat
          /\ rest[1] = equals[1]
      BY <2>5, <3>1, HeadOfConcat
    <3> QED
      BY <2>5, <3>2
  <2>7. name = key \o rest
    <3>1. name = key \o equals \o value
      BY <2>3 DEF equals
    <3>2. key \o equals \o value = key \o (equals \o value)
      BY <2>5
    <3> QED
      BY <3>1, <3>2
  <2> HIDE DEF rest
  <2>8. Heads(key, key \o rest)
    BY <2>1, <2>6, KeyHeads
  <2> QED
    BY <2>2, <2>7, <2>8
<1>3. CASE IsNumeric(c)
  <2>1. PICK key \in Seq(Piece), value \in Number, max \in Number :
          c = Numeric(key, value, max)
    BY <1>3 DEF IsNumeric
  <2>2. KeyPrefix(c) = key
    BY <2>1 DEF KeyPrefix, Numeric
  <2>3. PICK i \in 1 .. Top(value, max) : name = key \o AtLeast(i)
    BY <2>1, ResolvedNumeric
  <2>4. i \in Number
    BY TopInRange
  <2>5. Heads(key, key \o AtLeast(i))
    BY <2>1, <2>4, AtLeastType, KeyHeads
  <2> QED
    BY <2>2, <2>3, <2>5
<1> QED
  BY <1>1, <1>2, <1>3 DEF IsClaim

-----------------------------------------------------------------------------
(* What is true of claims, keys and names at every moment.                 *)

\* A name was resolved from a claim that was permitted under the controls that
\* its authority had then, and a key has the names of its claims.
IssuedUnder(n) == \E c : IsClaim(c) /\ n.name \in Resolve(c) /\ CheckPermission(n.controls, c)
KeyOfClaims(k) == (\A c \in k.claims : IsClaim(c)) /\ k.names = NamesOf(k.claims)

NamingInv ==
  /\ \A n \in named : IssuedUnder(n)
  /\ KeyOfClaims(file)
  /\ \A k \in minted : KeyOfClaims(k)

LEMMA ArgumentsAreClaims ==
  ASSUME NEW args \in Request, NEW i \in DOMAIN args, ParseClaim(args[i]) # Malformed
  PROVE  IsClaim(ParseClaim(args[i]))
<1>1. args[i] \in Argument
  <2>1. args \in Seq(Argument)
    BY RequestAssumption
  <2> QED
    BY <2>1
<1> QED
  BY <1>1, ParsedClaim

LEMMA ListsAreClaims ==
  ASSUME NEW claims \in ClaimList
  PROVE  DOMAIN claims = 1 .. Len(claims) /\ \A i \in DOMAIN claims : IsClaim(claims[i])
<1>1. claims \in Seq(Claim)
  BY RequestAssumption
<1>2. \A i \in DOMAIN claims : claims[i] \in Claim
  BY <1>1
<1> QED
  BY <1>1, <1>2, ClaimKinds

LEMMA PermittedNames ==
  ASSUME NEW a, NEW claims, \A c \in claims : IsClaim(c) /\ Permits(a, c)
  PROVE  \A n \in NamedBy(a, claims) : IssuedUnder(n)
<1> SUFFICES ASSUME NEW n \in NamedBy(a, claims) PROVE IssuedUnder(n)
  OBVIOUS
<1>1. n.controls = registry[a] /\ n.name \in NamesOf(claims)
  BY DEF NamedBy
<1>2. PICK c \in claims : n.name \in Resolve(c)
  BY <1>1 DEF NamesOf
<1> QED
  BY <1>1, <1>2 DEF Permits, IssuedUnder

LEMMA NamesOfBoth ==
  ASSUME NEW S, NEW T
  PROVE  NamesOf(S \cup T) = NamesOf(S) \cup NamesOf(T)
BY DEF NamesOf

LEMMA NamingStep ==
  ASSUME NamingInv, [NamingNext]_namingVars
  PROVE  NamingInv'
<1>1. CASE UNCHANGED namingVars
  BY <1>1 DEF NamingInv, namingVars, IssuedUnder, KeyOfClaims
<1>2. ASSUME NEW a \in Authority, NEW text \in Controls, Register(a, text)
      PROVE  NamingInv'
  BY <1>2 DEF Register, NamingInv, IssuedUnder, KeyOfClaims
<1>3. ASSUME NEW a \in Authority, NEW args \in Request, Issue(a, args)
      PROVE  NamingInv'
  <2> DEFINE claims == ToSet([i \in DOMAIN args |-> ParseClaim(args[i])])
             key == [claims |-> file.claims \cup claims, names |-> file.names \cup NamesOf(claims)]
  <2>1. /\ Malformed \notin claims
        /\ \A c \in claims : Permits(a, c)
        /\ file' = key /\ minted' = minted \cup {key}
        /\ named' = named \cup NamedBy(a, claims)
    BY <1>3 DEF Issue
  <2>2. \A c \in claims : IsClaim(c)
    BY <2>1, ArgumentsAreClaims DEF ToSet
  <2> HIDE DEF claims
  <2>3. \A n \in NamedBy(a, claims) : IssuedUnder(n)
    BY <2>1, <2>2, PermittedNames
  <2>4. KeyOfClaims(key)
    BY <2>2, NamesOfBoth DEF NamingInv, KeyOfClaims
  <2> HIDE DEF key
  <2>5. \A n \in named' : IssuedUnder(n)
    BY <2>1, <2>3 DEF NamingInv
  <2>6. KeyOfClaims(file') /\ \A k \in minted' : KeyOfClaims(k)
    BY <2>1, <2>4 DEF NamingInv
  <2> QED
    BY <2>5, <2>6 DEF NamingInv, IssuedUnder, KeyOfClaims
<1>4. ASSUME NEW a \in Authority, NEW claims \in ClaimList, IssueByLibrary(a, claims)
      PROVE  NamingInv'
  <2> DEFINE passed == {claims[i] : i \in {j \in DOMAIN claims :
                                             \A k \in 1 .. j : Permits(a, claims[k])}}
             key == [claims |-> passed, names |-> NamesOf(passed)]
  <2>1. /\ named' = named \cup NamedBy(a, passed)
        /\ minted' = minted \/ minted' = minted \cup {key}
        /\ file' = file
    BY <1>4 DEF IssueByLibrary
  <2>2. \A c \in passed : IsClaim(c)
    BY ListsAreClaims
  <2>3. \A c \in passed : Permits(a, c)
    <3> SUFFICES ASSUME NEW j \in DOMAIN claims, \A k \in 1 .. j : Permits(a, claims[k])
                 PROVE  Permits(a, claims[j])
      OBVIOUS
    <3>1. j \in 1 .. j
      BY ListsAreClaims
    <3> QED
      BY <3>1
  <2> HIDE DEF passed
  <2>4. \A n \in NamedBy(a, passed) : IssuedUnder(n)
    BY <2>2, <2>3, PermittedNames
  <2>5. KeyOfClaims(key)
    BY <2>2 DEF KeyOfClaims
  <2> HIDE DEF key
  <2>6. \A n \in named' : IssuedUnder(n)
    BY <2>1, <2>4 DEF NamingInv
  <2>7. KeyOfClaims(file') /\ \A k \in minted' : KeyOfClaims(k)
    BY <2>1, <2>5 DEF NamingInv
  <2> QED
    BY <2>6, <2>7 DEF NamingInv, IssuedUnder, KeyOfClaims
<1> QED
  BY <1>1, <1>2, <1>3, <1>4 DEF NamingNext, CommandNext, LibraryNext

\* The same, of the whole specification.
LEMMA NamesInvariant == Spec => []NamingInv
<1>1. Init => NamingInv
  BY DEF Init, NamingInit, NamingInv, KeyOfClaims, NoKey, NamesOf
<1>2. NamingInv /\ [Next]_vars => NamingInv'
  <2>1. [Next]_vars => [NamingNext]_namingVars
    BY DEF Next, Type, vars
  <2> QED
    BY <2>1, NamingStep
<1> QED
  BY <1>1, <1>2, PTL DEF Spec

-----------------------------------------------------------------------------
(* Authorities whose controls do not overlap.                              *)

\* A name that two authorities brought into being begins with a control of
\* each.
LEMMA NamesBeginWithControls ==
  ASSUME NamingInv
  PROVE  ControlIsExclusive
<1> SUFFICES ASSUME NEW n \in named, NEW m \in named,
                    n.controls # {}, m.controls # {}, n.name = m.name
             PROVE  \E c \in n.controls, d \in m.controls : Overlap(c, d)
  BY DEF ControlIsExclusive
<1>1. PICK x : IsClaim(x) /\ n.name \in Resolve(x) /\ CheckPermission(n.controls, x)
  BY DEF NamingInv, IssuedUnder
<1>2. PICK y : IsClaim(y) /\ m.name \in Resolve(y) /\ CheckPermission(m.controls, y)
  BY DEF NamingInv, IssuedUnder
<1> DEFINE p == KeyPrefix(x)
           q == KeyPrefix(y)
<1>3. Heads(p, n.name) /\ Heads(q, n.name)
  BY <1>1, <1>2, ClaimHeads
<1>4. p \in n.controls /\ q \in m.controls
  BY <1>1, <1>2 DEF CheckPermission
<1> HIDE DEF p, q
<1>5. Overlap(p, q)
  BY <1>3, HeadsOverlap
<1> QED
  BY <1>4, <1>5

\* "Restrict which attribute prefixes each may issue": two authorities of whose
\* controls no two overlap never name the same attribute, whatever claims are
\* made to cmd_issue or to authorities::issue (key_prefix, resolve and
\* check_permission).
THEOREM ControlsExclude == Spec => []ControlIsExclusive
<1>1. NamingInv => ControlIsExclusive
  BY NamesBeginWithControls
<1> QED
  BY <1>1, NamesInvariant, PTL

-----------------------------------------------------------------------------
(* Names and the policies that are written like them.                      *)

LEMMA TextOfClaim ==
  ASSUME NEW c, IsText(c)
  PROVE  /\ c.kind = "text"
         /\ Resolve(c) = {c.key \o <<"=">> \o c.value}
         /\ c.key \o <<"=">> \o c.value \in Texts
<1>1. PICK key \in Seq(Piece), value \in Seq(Piece) : c = Text(key, value)
  BY DEF IsText
<1>2. c.kind = "text" /\ c.key = key /\ c.value = value /\ Resolve(c) = {key \o <<"=">> \o value}
  BY <1>1, ResolvedText
<1> DEFINE equals == <<"=">>
<1>3. equals \in Seq(Piece)
  BY PieceAssumption
<1> HIDE DEF equals
<1>4. key \o equals \o value \in Seq(Piece)
  BY <1>3
<1>5. key \o <<"=">> \o value \in Texts
  BY <1>4 DEF equals, Texts
<1> QED
  BY <1>1, <1>2, <1>5

\* What is written is what a flag or text claim resolves to.
LEMMA WrittenIs ==
  ASSUME NEW c, IsClaim(c), c.kind # "numeric"
  PROVE  Written(c) \in Texts /\ Resolve(c) = {Written(c)}
<1>1. CASE IsFlag(c)
  <2>1. PICK text \in Seq(Piece) : c = Flag(text)
    BY <1>1 DEF IsFlag
  <2>2. c.kind = "flag" /\ c.text = text /\ Resolve(c) = {text}
    BY <2>1, ResolvedFlag
  <2> QED
    BY <2>2 DEF Written, Texts
<1>2. CASE IsText(c)
  <2>1. c.kind # "flag"
    BY <1>2, TextOfClaim
  <2> QED
    BY <1>2, <2>1, TextOfClaim DEF Written
<1>3. ~ IsNumeric(c)
  BY ResolvedNumeric DEF IsNumeric
<1> QED
  BY <1>1, <1>2, <1>3 DEF IsClaim

LEMMA WrittenAlike ==
  ASSUME NamingInv
  PROVE  WrittenAlikeMatch
<1> SUFFICES ASSUME NEW k \in minted, NEW c \in k.claims, c.kind # "numeric", Plain(Written(c))
             PROVE  Matches(Written(c), k.names)
  BY DEF WrittenAlikeMatch
<1>1. IsClaim(c) /\ k.names = NamesOf(k.claims)
  BY DEF NamingInv, KeyOfClaims
<1>2. Written(c) \in Texts /\ Resolve(c) = {Written(c)}
  BY <1>1, WrittenIs
<1>3. Written(c) \in k.names
  BY <1>1, <1>2 DEF NamesOf
<1> QED
  BY <1>2, <1>3, PlainMatches

\* A plain leaf is satisfied by every key of a user who was ever issued the flag
\* or text that is written like it (parse_claims, Claim::resolve and the merge in
\* cmd_issue on one side, tokenize, Parser and normalize on the other).
THEOREM PlainTextsMatch == Spec => []WrittenAlikeMatch
<1>1. NamingInv => WrittenAlikeMatch
  BY WrittenAlike
<1> QED
  BY <1>1, NamesInvariant, PTL

-----------------------------------------------------------------------------
(* Thresholds.                                                             *)

\* A numeric name shows its key and its number.
LEMMA NumericNames ==
  ASSUME NEW p \in Seq(Piece), NEW q \in Seq(Piece), NEW i \in Number, NEW j \in Number,
         p \o AtLeast(i) = q \o AtLeast(j)
  PROVE  p = q /\ i = j
<1> DEFINE x == AtLeast(i)
           y == AtLeast(j)
<1>1. x \in Seq(Piece) /\ y \in Seq(Piece) /\ Len(x) = 3 /\ Len(y) = 3
      /\ x[3] = ToString(i) /\ y[3] = ToString(j) /\ p \o x = q \o y
  BY AtLeastType
<1> HIDE DEF x, y
<1>2. Len(p) \in Nat /\ Len(q) \in Nat
  OBVIOUS
<1>3. x \in Seq(Piece) /\ y \in Seq(Piece)
  BY <1>1
<1>4. /\ Len(p \o x) = Len(p) + Len(x)
      /\ \A n \in 1 .. Len(p) : (p \o x)[n] = p[n]
      /\ \A n \in 1 .. Len(x) : (p \o x)[Len(p) + n] = x[n]
  BY <1>3
<1>5. /\ Len(q \o y) = Len(q) + Len(y)
      /\ \A n \in 1 .. Len(q) : (q \o y)[n] = q[n]
      /\ \A n \in 1 .. Len(y) : (q \o y)[Len(q) + n] = y[n]
  BY <1>3
<1>6. Len(p) = Len(q)
  BY <1>1, <1>2, <1>4, <1>5
<1>7. \A n \in 1 .. Len(p) : p[n] = q[n]
  BY <1>1, <1>4, <1>5, <1>6
<1>8. p = q
  BY <1>6, <1>7
<1>9. x[3] = y[3]
  <2>1. 3 \in 1 .. Len(x) /\ 3 \in 1 .. Len(y)
    BY <1>1
  <2> QED
    BY <2>1, <1>1, <1>4, <1>5, <1>6
<1>10. ToString(i) = ToString(j)
  BY <1>1, <1>9
<1> QED
  BY <1>8, <1>10, NumberAssumption

\* Which claims have a numeric name.
Reaches(c, key, n) ==
  IF c.kind = "numeric" THEN c.key = key /\ 1 <= n /\ n <= c.value /\ n <= c.max
                        ELSE Resolve(c) = {key \o AtLeast(n)}

LEMMA WhoReaches ==
  ASSUME NEW c, IsClaim(c), NEW key \in Seq(Piece), NEW n \in Number
  PROVE  key \o AtLeast(n) \in Resolve(c) <=> Reaches(c, key, n)
<1> DEFINE literal == key \o AtLeast(n)
<1>1. CASE IsFlag(c)
  <2>1. PICK text : c.kind = "flag" /\ Resolve(c) = {text}
    <3>1. PICK text \in Seq(Piece) : c = Flag(text)
      BY <1>1 DEF IsFlag
    <3>2. c.kind = "flag" /\ Resolve(c) = {text}
      BY <3>1, ResolvedFlag
    <3> QED
      BY <3>2
  <2>2. c.kind # "numeric"
    BY <2>1
  <2>3. literal \in Resolve(c) <=> Resolve(c) = {literal}
    BY <2>1
  <2> QED
    BY <2>2, <2>3 DEF Reaches
<1>2. CASE IsText(c)
  <2>1. PICK text : c.kind = "text" /\ Resolve(c) = {text}
    BY <1>2, TextOfClaim
  <2>2. c.kind # "numeric"
    BY <2>1
  <2>3. literal \in Resolve(c) <=> Resolve(c) = {literal}
    BY <2>1
  <2> QED
    BY <2>2, <2>3 DEF Reaches
<1>3. CASE IsNumeric(c)
  <2>1. PICK other \in Seq(Piece), value \in Number, max \in Number :
          c = Numeric(other, value, max)
    BY <1>3 DEF IsNumeric
  <2>2. /\ c.kind = "numeric" /\ c.key = other /\ c.value = value /\ c.max = max
        /\ Resolve(c) = {other \o AtLeast(i) : i \in 1 .. Top(value, max)}
    BY <2>1, ResolvedNumeric
  <2>3. n \in 1 .. Top(value, max) <=> 1 <= n /\ n <= value /\ n <= max
    <3>1. n \in Int
      BY NumberAssumption DEF Number
    <3> QED
      BY <3>1, TopInRange
  <2>4. ASSUME literal \in Resolve(c)
        PROVE  other = key /\ n \in 1 .. Top(value, max)
    <3>1. PICK i \in 1 .. Top(value, max) : literal = other \o AtLeast(i)
      BY <2>2, <2>4
    <3>2. i \in Number
      BY TopInRange
    <3> QED
      BY <3>1, <3>2, NumericNames
  <2>5. ASSUME other = key, n \in 1 .. Top(value, max)
        PROVE  literal \in Resolve(c)
    BY <2>2, <2>5
  <2> QED
    BY <2>2, <2>3, <2>4, <2>5 DEF Reaches
<1> QED
  BY <1>1, <1>2, <1>3 DEF IsClaim

LEMMA Thresholds ==
  ASSUME NamingInv
  PROVE  NumericThresholds
<1> DEFINE Keys == {c.key : c \in {d \in UNION {m.claims : m \in minted} : d.kind = "numeric"}}
<1> SUFFICES ASSUME NEW k \in minted, NEW key \in Keys, NEW n \in Number, Plain(key \o AtLeast(n))
             PROVE  Matches(key \o AtLeast(n), k.names) <=> \E c \in k.claims : Reaches(c, key, n)
  BY DEF NumericThresholds, AtLeast, Reaches
<1>1. \A m \in minted : \A c \in m.claims : IsClaim(c)
  BY DEF NamingInv, KeyOfClaims
<1>2. key \in Seq(Piece)
  <2>1. PICK m \in minted : \E c \in m.claims : c.kind = "numeric" /\ key = c.key
    OBVIOUS
  <2>2. PICK c \in m.claims : c.kind = "numeric" /\ key = c.key
    BY <2>1
  <2>3. IsNumeric(c)
    <3>1. ~ IsFlag(c) /\ ~ IsText(c)
      BY <2>2, ResolvedFlag, ResolvedText DEF IsFlag, IsText
    <3> QED
      BY <1>1, <3>1 DEF IsClaim
  <2> QED
    BY <2>2, <2>3, ResolvedNumeric DEF IsNumeric
<1> HIDE DEF Keys
<1> DEFINE literal == key \o AtLeast(n)
<1>3. literal \in Texts
  <2>1. AtLeast(n) \in Seq(Piece)
    BY AtLeastType
  <2> QED
    BY <1>2, <2>1 DEF Texts
<1>4. Plain(literal)
  OBVIOUS
<1> HIDE DEF literal
<1>5. Matches(literal, k.names) <=> literal \in k.names
  BY <1>3, <1>4, PlainMatches
<1>6. k.names = UNION {Resolve(c) : c \in k.claims}
  BY DEF NamingInv, KeyOfClaims, NamesOf
<1>7. \A c \in k.claims : literal \in Resolve(c) <=> Reaches(c, key, n)
  BY <1>1, <1>2, WhoReaches DEF literal
<1> QED
  BY <1>5, <1>6, <1>7 DEF literal

\* "A policy leaf `clearance>=4` is satisfied by anyone whose clearance is 4 or
\* higher": for a threshold from 1 to the maximum of a claim, a key satisfies
\* the policy exactly if one of its claims reaches it (Claim::resolve, and
\* cmd_issue, which merges the claims of a user).
THEOREM ThresholdsAreReached == Spec => []NumericThresholds
<1>1. NamingInv => NumericThresholds
  BY Thresholds
<1> QED
  BY <1>1, NamesInvariant, PTL

-----------------------------------------------------------------------------
(* The words of a policy.                                                  *)

WordsInv == words \in Seq(Words) /\ Len(words) <= MaxWords

LEMMA WordsBound == MaxWords \in Nat /\ 2 * MaxWords <= MaxDepth
<1>1. MaxWords \in Nat \ {0} /\ 2 * MaxWords <= MaxDepth
  BY TextAssumption
<1> QED
  BY <1>1

LEMMA NextAttribute ==
  ASSUME words \in Seq(Words), Typed < Len(Attributes)
  PROVE  Attributes[Typed + 1] \in Words
<1> DEFINE S == {i \in DOMAIN words : words[i] \in ToSet(Attributes)}
<1>1. IsFiniteSet(S)
  <2>1. DOMAIN words = 1 .. Len(words) /\ Len(words) \in Nat
    OBVIOUS
  <2>2. IsFiniteSet(1 .. Len(words))
    BY <2>1, FS_Interval
  <2> QED
    BY <2>1, <2>2, FS_Subset
<1>2. Typed \in Nat
  BY <1>1, FS_CardinalityType DEF Typed
<1> HIDE DEF S
<1>3. DOMAIN Attributes = 1 .. Len(Attributes) /\ Len(Attributes) \in Nat
  <2>1. Attributes \in Seq(Piece)
    BY TextAssumption
  <2> QED
    BY <2>1
<1>4. Typed + 1 \in DOMAIN Attributes
  BY <1>2, <1>3
<1>5. Attributes[Typed + 1] \in ToSet(Attributes)
  BY <1>4 DEF ToSet
<1> QED
  BY <1>5 DEF Words

LEMMA WordsStep ==
  ASSUME WordsInv, [Next]_vars
  PROVE  WordsInv'
<1>1. ASSUME NEW w \in Words, Type(w) PROVE WordsInv'
  <2>1. words' = Append(words, w) /\ Len(words) < MaxWords /\ words \in Seq(Words)
    BY <1>1 DEF Type, WordsInv
  <2>2. MaxWords \in Nat /\ Len(words) \in Nat
    BY <2>1, WordsBound
  <2> QED
    BY <2>1, <2>2 DEF WordsInv
<1>2. ASSUME NEW w \in Operators PROVE w \in Words
  BY DEF Words
<1>3. CASE UNCHANGED words
  BY <1>3 DEF WordsInv
<1>4. CASE Typed < Len(Attributes) /\ Type(Attributes[Typed + 1])
  BY <1>1, <1>4, NextAttribute DEF WordsInv
<1>5. CASE \E w \in Operators : Type(w)
  BY <1>1, <1>2, <1>5
<1> QED
  BY <1>3, <1>4, <1>5 DEF Next, vars

LEMMA WordsInvariant == Spec => []WordsInv
<1>1. Init => WordsInv
  <2>1. << >> \in Seq(Words) /\ Len(<< >>) = 0 /\ MaxWords \in Nat
    BY WordsBound
  <2> QED
    BY <2>1 DEF Init, WordsInv
<1>2. WordsInv /\ [Next]_vars => WordsInv'
  BY WordsStep
<1> QED
  BY <1>1, <1>2, PTL DEF Spec

-----------------------------------------------------------------------------
(* The flat form of a policy.                                              *)

LEMMA SpacedType ==
  ASSUME WordsInv
  PROVE  Spaced \in Texts /\ Len(Spaced) <= MaxDepth
<1> DEFINE s == [i \in DOMAIN words |-> <<words[i], " ">>]
<1>1. words \in Seq(Words) /\ Len(words) <= MaxWords
  BY DEF WordsInv
<1>2. DOMAIN words = 1 .. Len(words) /\ Len(words) \in Nat /\ \A i \in DOMAIN words : words[i] \in Words
  BY <1>1
<1>3. Words \subseteq Piece /\ " " \in Piece
  BY TextAssumption
<1>4. \A x, y \in Piece : <<x, y>> \in Seq(Piece) /\ Len(<<x, y>>) = 2
  OBVIOUS
<1>5. \A i \in DOMAIN words : s[i] \in Seq(Piece) /\ Len(s[i]) = 2
  BY <1>2, <1>3, <1>4
<1> DEFINE t == [i \in DOMAIN words |-> s[i]]
<1>6. s = t
  OBVIOUS
<1>7. Spaced = FlattenSeq(s)
  BY DEF Spaced
<1> HIDE DEF s
<1>8. t \in Seq(Seq(Piece)) /\ Len(t) = Len(words) /\ \A i \in DOMAIN t : Len(t[i]) = 2
  BY <1>2, <1>5
<1> HIDE DEF t
<1>9. Spaced \in Seq(Piece) /\ Len(Spaced) = 2 * Len(words)
  BY <1>6, <1>7, <1>8, FlattenElements, FlattenPairs
<1>10. MaxWords \in Nat /\ 2 * MaxWords <= MaxDepth /\ MaxDepth \in Nat
  BY WordsBound, DepthAssumption
<1> QED
  BY <1>1, <1>2, <1>9, <1>10 DEF Texts

\* The epochs after some attributes were revoked.
RevokedOnce(epochs) == \E S : epochs = [x \in S |-> 1]

LEMMA TagsAreTexts ==
  ASSUME NEW epochs, RevokedOnce(epochs)
  PROVE  TagsAreNames(epochs)
<1> SUFFICES ASSUME NEW a \in Name PROVE Tag(a, epochs) \in Name
  BY DEF TagsAreNames
<1>1. a \in Seq(Piece)
  BY TextAssumption DEF Texts
<1>2. CurrentEpoch(a, epochs) \in {0, 1}
  BY DEF CurrentEpoch, RevokedOnce
<1>3. 0 \in Number /\ 1 \in Number
  BY NumberAssumption DEF Number
<1>4. ToString(CurrentEpoch(a, epochs)) \in Piece /\ "@epoch" \in Piece
  BY <1>2, <1>3, NumberAssumption, TextAssumption
<1>5. \A x, y \in Piece : <<x, y>> \in Seq(Piece)
  OBVIOUS
<1> DEFINE tail == <<"@epoch", ToString(CurrentEpoch(a, epochs))>>
<1>6. tail \in Seq(Piece)
  BY <1>4, <1>5
<1> HIDE DEF tail
<1>7. a \o tail \in Seq(Piece)
  BY <1>1, <1>6
<1>8. Tag(a, epochs) \in Seq(Piece)
  BY <1>7 DEF Tag, tail
<1> QED
  BY <1>8, TextAssumption DEF Texts

\* The gates of a policy can all be satisfied, so each leaf is in some way to
\* satisfy it.
LEMMA PoliciesNameLeaves == PolicySet({t \in AnyTree : WaysNameLeaves(t)})
<1> DEFINE S == {t \in AnyTree : WaysNameLeaves(t)}
<1>1. HasPolicyLeaves(S)
  <2> SUFFICES ASSUME NEW w, IsWord(w) PROVE Leaf(Normalize(w)) \in S
    BY DEF HasPolicyLeaves
  <2>1. Normalize(w) \in Name
    BY NormalizeType, TextAssumption DEF IsWord
  <2> QED
    BY <2>1, WaysNameLeaf, LeafIsTree
<1>2. HasPolicyGates(S)
  <2> SUFFICES ASSUME NEW k, NEW c \in Seq(S), Gate(k, c) \in AnyTree, Len(c) > 1,
                      k \in {1, Len(c)}
               PROVE  Gate(k, c) \in S
    BY DEF HasPolicyGates
  <2> HIDE DEF S
  <2>1. (\A i \in DOMAIN c : c[i] \in S) /\ Len(c) \in Nat
    OBVIOUS
  <2>2. 1 <= k /\ k <= Len(c)
    BY <2>1
  <2>3. \A i \in DOMAIN c : WaysNameLeaves(c[i])
    BY <2>1 DEF S
  <2>4. WaysNameLeaves(Gate(k, c))
    BY <2>2, <2>3, WaysNameLeavesOfGate
  <2> QED
    BY <2>4 DEF S
<1> QED
  BY <1>1, <1>2 DEF PolicySet

LEMMA FlatForm ==
  ASSUME WordsInv
  PROVE  FlatFormAgrees
<1> DEFINE policy == Parse(Spaced)
           tree   == policy.tree
           flat   == Alternatives(tree)
           Epochs(S) == [x \in S |-> 1]
<1> SUFFICES ASSUME policy.ok
             PROVE  /\ Model!Leaves(flat) = ToSet(LeavesOf(tree))
                    /\ \A attrs \in SUBSET Literals :
                         /\ Model!Satisfied(flat, attrs) <=> IsSatisfiedBy(tree, attrs)
                         /\ Alternatives(RetagTree(tree, Epochs(attrs))) =
                              [i \in DOMAIN flat |-> {Tag(x, Epochs(attrs)) : x \in flat[i]}]
  BY DEF FlatFormAgrees
<1> DEFINE S == {t \in AnyTree : WaysNameLeaves(t)}
<1>1. tree \in AnyTree /\ WaysNameLeaves(tree)
  <2>1. PolicySet(S)
    BY PoliciesNameLeaves
  <2> HIDE DEF S
  <2>2. tree \in S
    BY <2>1, SpacedType, ParsedPolicy
  <2> QED
    BY <2>2 DEF S
<1> HIDE DEF policy, tree
<1>2. flat \in Seq(NameSets)
  BY <1>1, AlternativesType
<1>3. ASSUME NEW attrs
      PROVE  Model!Satisfied(flat, attrs) <=> IsSatisfiedBy(tree, attrs)
  <2>1. SomeWay(flat, attrs) <=> IsSatisfiedBy(tree, attrs)
    BY <1>1, AlternativesSatisfy
  <2> QED
    BY <2>1 DEF Model!Satisfied, SomeWay, ToSet
<1>4. Model!Leaves(flat) = ToSet(LeavesOf(tree))
  BY <1>1 DEF Model!Leaves, WaysNameLeaves, NamesIn, ToSet
<1>5. ASSUME NEW attrs
      PROVE  Alternatives(RetagTree(tree, Epochs(attrs))) =
               [i \in DOMAIN flat |-> {Tag(x, Epochs(attrs)) : x \in flat[i]}]
  <2> DEFINE epochs == Epochs(attrs)
  <2>1. TagsAreNames(epochs)
    <3>1. RevokedOnce(epochs)
      BY DEF RevokedOnce
    <3> QED
      BY <3>1, TagsAreTexts
  <2> HIDE DEF epochs
  <2>2. Alternatives(RetagTree(tree, epochs)) = Mapped(flat, Tagging(epochs))
    BY <1>1, <2>1, AlternativesOfRetagged
  <2>3. \A i \in DOMAIN flat : flat[i] \in NameSets
    BY <1>2
  <2>4. \A i \in DOMAIN flat : Tagging(epochs)[flat[i]] = {Tag(x, epochs) : x \in flat[i]}
    BY <2>3 DEF Tagging
  <2>5. Alternatives(RetagTree(tree, epochs)) =
          [i \in DOMAIN flat |-> {Tag(x, epochs) : x \in flat[i]}]
    BY <2>2, <2>4 DEF Mapped
  <2> QED
    BY <2>5 DEF epochs
<1> HIDE DEF Epochs
<1> QED
  BY <1>3, <1>4, <1>5

\* Deployment may keep a policy as the list of its alternatives: for every
\* policy that parses, the list is satisfied by the same attributes as the tree,
\* names the leaves that `seal` registers, and after retag_tree it is the same
\* list with every name tagged (AccessTree::is_satisfied_by, AccessTree::leaves
\* and RevocationList::retag_tree).
THEOREM FlatFormIsFaithful == Spec => []FlatFormAgrees
<1>1. WordsInv => FlatFormAgrees
  BY FlatForm
<1> QED
  BY <1>1, WordsInvariant, PTL

-----------------------------------------------------------------------------
(* Tokens, one after the other.                                            *)

OperatorTokens == {AndTok, OrTok}
Starter(u) == u = LParen \/ u.is = "Attr"

\* Every token is one of five kinds.
LEMMA TokenKinds ==
  ASSUME NEW u \in PolicyTokens
  PROVE  /\ u \in {LParen, RParen, AndTok, OrTok} \/ u.is = "Attr"
         /\ u = LParen <=> u.is = "LParen"
         /\ u = RParen <=> u.is = "RParen"
         /\ u = AndTok <=> u.is = "And"
         /\ u = OrTok <=> u.is = "Or"
<1>1. /\ LParen.is = "LParen" /\ RParen.is = "RParen"
      /\ AndTok.is = "And" /\ OrTok.is = "Or"
  BY DEF LParen, RParen, AndTok, OrTok
<1>2. \A w : Attr(w).is = "Attr"
  BY DEF Attr
<1>3. u \in {LParen, RParen, AndTok, OrTok} \/ \E w : u = Attr(w)
  BY DEF PolicyTokens
<1>4. CASE u \in {LParen, RParen, AndTok, OrTok}
  BY <1>1, <1>4
<1>5. CASE \E w : u = Attr(w)
  BY <1>1, <1>2, <1>5
<1> QED
  BY <1>3, <1>4, <1>5

\* Which of them go before and after which others.
LEMMA TokenRoles ==
  ASSUME NEW u \in PolicyTokens
  PROVE  /\ Opener(u) <=> u = LParen \/ u \in OperatorTokens
         /\ Starter(u) <=> ~ (u = RParen \/ u \in OperatorTokens)
         /\ u = LParen => u # RParen /\ u \notin OperatorTokens
         /\ u = RParen => u \notin OperatorTokens
         /\ AndTok # OrTok
<1>1. AndTok # OrTok
  BY DEF AndTok, OrTok
<1> QED
  BY <1>1, TokenKinds DEF Opener, Starter, OperatorTokens

LEMMA FollowIs ==
  ASSUME NEW u, NEW v
  PROVE  /\ MayFollow(u, v) <=> IF Opener(u) THEN Starter(v) ELSE v = RParen \/ v \in OperatorTokens
         /\ MayFollow(LParen, v) <=> Starter(v)
BY DEF MayFollow, Starter, OperatorTokens, Opener

\* How many tokens up to a position are u.
CountOf(t, u, i) == Cardinality({j \in 1 .. i : t[j] = u})

LEMMA CountSteps ==
  ASSUME NEW t, NEW u, NEW i \in Nat
  PROVE  /\ CountOf(t, u, i) \in Nat
         /\ CountOf(t, u, 0) = 0
         /\ t[i + 1] = u => CountOf(t, u, i + 1) = CountOf(t, u, i) + 1
         /\ t[i + 1] # u => CountOf(t, u, i + 1) = CountOf(t, u, i)
<1> DEFINE S == {j \in 1 .. i : t[j] = u}
           T == {j \in 1 .. i + 1 : t[j] = u}
<1>1. IsFiniteSet(S)
  <2>1. IsFiniteSet(1 .. i)
    BY FS_Interval
  <2> QED
    BY <2>1, FS_Subset
<1>2. CountOf(t, u, i) = Cardinality(S) /\ CountOf(t, u, i + 1) = Cardinality(T)
  BY DEF CountOf
<1>3. {j \in 1 .. 0 : t[j] = u} = {}
  OBVIOUS
<1>4. CountOf(t, u, 0) = 0
  BY <1>3, FS_EmptySet DEF CountOf
<1>5. 1 .. i + 1 = (1 .. i) \cup {i + 1} /\ i + 1 \notin 1 .. i
  OBVIOUS
<1>6. T = (IF t[i + 1] = u THEN S \cup {i + 1} ELSE S) /\ i + 1 \notin S
  BY <1>5
<1> HIDE DEF S, T
<1>7. Cardinality(S) \in Nat
  BY <1>1, FS_CardinalityType
<1>8. Cardinality(S \cup {i + 1}) = Cardinality(S) + 1
  BY <1>1, <1>6, FS_AddElement
<1> QED
  BY <1>2, <1>4, <1>6, <1>7, <1>8

LEMMA DepthSteps ==
  ASSUME NEW t \in Seq(PolicyTokens)
  PROVE  /\ \A i \in Nat : Depth(t, i) \in Int
         /\ Depth(t, 0) = 0
         /\ \A i \in 1 .. Len(t) :
              /\ t[i] = LParen => Depth(t, i) = Depth(t, i - 1) + 1
              /\ t[i] = RParen => Depth(t, i) = Depth(t, i - 1) - 1
              /\ t[i] \notin {LParen, RParen} => Depth(t, i) = Depth(t, i - 1)
<1>1. \A i : Depth(t, i) = CountOf(t, LParen, i) - CountOf(t, RParen, i)
  BY DEF Depth, CountOf
<1>2. \A i \in Nat : CountOf(t, LParen, i) \in Nat /\ CountOf(t, RParen, i) \in Nat
  BY CountSteps
<1>3. CountOf(t, LParen, 0) = 0 /\ CountOf(t, RParen, 0) = 0
  <2>1. 0 \in Nat
    OBVIOUS
  <2> QED
    BY <2>1, CountSteps
<1>4. \A u : \A k \in Nat :
        /\ t[k + 1] = u => CountOf(t, u, k + 1) = CountOf(t, u, k) + 1
        /\ t[k + 1] # u => CountOf(t, u, k + 1) = CountOf(t, u, k)
  BY CountSteps
<1>5. ASSUME NEW k \in Nat, t[k + 1] \in PolicyTokens
      PROVE  /\ t[k + 1] = LParen => Depth(t, k + 1) = Depth(t, k) + 1
             /\ t[k + 1] = RParen => Depth(t, k + 1) = Depth(t, k) - 1
             /\ t[k + 1] \notin {LParen, RParen} => Depth(t, k + 1) = Depth(t, k)
  <2>1. LParen # RParen
    BY DEF LParen, RParen
  <2>2. CountOf(t, LParen, k) \in Nat /\ CountOf(t, RParen, k) \in Nat
    BY <1>2
  <2>3. CASE t[k + 1] = LParen
    <3>1. /\ CountOf(t, LParen, k + 1) = CountOf(t, LParen, k) + 1
          /\ CountOf(t, RParen, k + 1) = CountOf(t, RParen, k)
      BY <1>4, <2>1, <2>3
    <3> QED
      BY <1>1, <2>1, <2>2, <2>3, <3>1
  <2>4. CASE t[k + 1] = RParen
    <3>1. /\ CountOf(t, LParen, k + 1) = CountOf(t, LParen, k)
          /\ CountOf(t, RParen, k + 1) = CountOf(t, RParen, k) + 1
      BY <1>4, <2>1, <2>4
    <3> QED
      BY <1>1, <2>1, <2>2, <2>4, <3>1
  <2>5. CASE t[k + 1] \notin {LParen, RParen}
    <3>1. /\ CountOf(t, LParen, k + 1) = CountOf(t, LParen, k)
          /\ CountOf(t, RParen, k + 1) = CountOf(t, RParen, k)
      BY <1>4, <2>5
    <3> QED
      BY <1>1, <2>5, <3>1
  <2> QED
    BY <2>3, <2>4, <2>5
<1>6. ASSUME NEW i \in 1 .. Len(t)
      PROVE  /\ t[i] = LParen => Depth(t, i) = Depth(t, i - 1) + 1
             /\ t[i] = RParen => Depth(t, i) = Depth(t, i - 1) - 1
             /\ t[i] \notin {LParen, RParen} => Depth(t, i) = Depth(t, i - 1)
  <2> DEFINE k == i - 1
  <2>1. k \in Nat /\ k + 1 = i /\ t[i] \in PolicyTokens
    OBVIOUS
  <2> HIDE DEF k
  <2>2. /\ t[i] = LParen => Depth(t, i) = Depth(t, k) + 1
        /\ t[i] = RParen => Depth(t, i) = Depth(t, k) - 1
        /\ t[i] \notin {LParen, RParen} => Depth(t, i) = Depth(t, k)
    BY <1>5, <2>1
  <2> QED
    BY <2>2 DEF k
<1>7. \A i \in Nat : Depth(t, i) \in Int
  BY <1>1, <1>2
<1>8. Depth(t, 0) = 0
  BY <1>1, <1>3
<1> QED
  BY <1>6, <1>7, <1>8

-----------------------------------------------------------------------------
(* Formulas: the parts of a sequence of tokens that are well formed.       *)

Formula(t, a, b) ==
  /\ a \in 1 .. Len(t) /\ b \in a .. Len(t)
  /\ \A i \in a .. b : Depth(t, i) >= Depth(t, a - 1)
  /\ Depth(t, b) = Depth(t, a - 1)
  /\ Starter(t[a])
  /\ ~ Opener(t[b])
  /\ \A i \in a .. b - 1 : MayFollow(t[i], t[i + 1])

\* All of them together.
LEMMA WellFormedIs ==
  ASSUME NEW t \in Seq(PolicyTokens)
  PROVE  WellFormed(t) <=> Formula(t, 1, Len(t))
<1>1. CASE t = << >>
  BY <1>1 DEF WellFormed, Formula
<1>2. CASE t # << >>
  <2>1. /\ Len(t) \in Nat /\ Len(t) > 0 /\ DOMAIN t = 1 .. Len(t)
        /\ Head(t) = t[1] /\ Last(t) = t[Len(t)]
    BY <1>2 DEF Last
  <2>2. 1 \in 1 .. Len(t) /\ Len(t) \in 1 .. Len(t) /\ 1 - 1 = 0 /\ Depth(t, 0) = 0
    BY <2>1, DepthSteps
  <2>3. MayFollow(LParen, t[1]) <=> Starter(t[1])
    BY FollowIs
  <2> QED
    BY <1>2, <2>1, <2>2, <2>3 DEF WellFormed, Formula
<1> QED
  BY <1>1, <1>2

\* A position with a token and the depths around it.
LEMMA TokenAt ==
  ASSUME NEW t \in Seq(PolicyTokens), NEW i \in 1 .. Len(t)
  PROVE  /\ t[i] \in PolicyTokens /\ i \in Int
         /\ Depth(t, i) \in Int /\ Depth(t, i - 1) \in Int
         /\ t[i] = LParen => Depth(t, i) = Depth(t, i - 1) + 1
         /\ t[i] = RParen => Depth(t, i) = Depth(t, i - 1) - 1
         /\ t[i] \in OperatorTokens \/ t[i].is = "Attr" => Depth(t, i) = Depth(t, i - 1)
<1>1. i \in Nat /\ i - 1 \in Nat /\ t[i] \in PolicyTokens
  OBVIOUS
<1>2. t[i] \in OperatorTokens \/ t[i].is = "Attr" => t[i] \notin {LParen, RParen}
  BY <1>1, TokenRoles, TokenKinds
<1> QED
  BY <1>1, <1>2, DepthSteps

\* A formula is split at an operator on its own depth.
LEMMA FormulaSplits ==
  ASSUME NEW t \in Seq(PolicyTokens), NEW a, NEW b, Formula(t, a, b),
         NEW op \in OperatorTokens, NEW m \in Outer(t, op, a, b)
  PROVE  /\ m \in Int /\ a < m /\ m < b
         /\ Formula(t, a, m - 1) /\ Formula(t, m + 1, b)
         /\ Depth(t, m) = Depth(t, a - 1)
<1>1. /\ Len(t) \in Nat /\ a \in Int /\ b \in Int /\ 1 <= a /\ a <= b /\ b <= Len(t)
  BY DEF Formula
<1>2. m \in a .. b /\ t[m] = op /\ Depth(t, m) = Depth(t, a - 1)
  BY DEF Outer
<1>3. \A i \in 1 .. Len(t) : t[i] \in PolicyTokens
  OBVIOUS
<1>4. a \in 1 .. Len(t) /\ b \in 1 .. Len(t) /\ m \in 1 .. Len(t)
  BY <1>1, <1>2
<1>5. m # a /\ m # b
  <2>1. Starter(t[a]) /\ ~ Opener(t[b])
    BY DEF Formula
  <2> QED
    BY <1>2, <1>3, <1>4, <2>1, TokenRoles
<1>6. a < m /\ m < b /\ m - 1 \in a .. b - 1 /\ m \in a .. b - 1 /\ (m - 1) + 1 = m
  BY <1>1, <1>2, <1>5
<1>7. MayFollow(t[m - 1], t[m]) /\ MayFollow(t[m], t[m + 1])
  <2>1. \A i \in a .. b - 1 : MayFollow(t[i], t[i + 1])
    BY DEF Formula
  <2> HIDE DEF Formula
  <2>2. MayFollow(t[m - 1], t[(m - 1) + 1]) /\ MayFollow(t[m], t[m + 1])
    BY <1>6, <2>1
  <2> QED
    BY <1>6, <2>2
<1>8. Opener(op) /\ ~ Starter(op)
  BY <1>2, <1>3, <1>4, TokenRoles
<1>9. ~ Opener(t[m - 1]) /\ Starter(t[m + 1])
  BY <1>2, <1>7, <1>8, FollowIs
<1>10. Depth(t, m - 1) = Depth(t, a - 1)
  BY <1>2, <1>4, TokenAt
<1>11. /\ \A i \in a .. b : Depth(t, i) >= Depth(t, a - 1)
       /\ Depth(t, b) = Depth(t, a - 1)
       /\ Starter(t[a]) /\ ~ Opener(t[b])
       /\ \A i \in a .. b - 1 : MayFollow(t[i], t[i + 1])
  BY DEF Formula
<1>12. Formula(t, a, m - 1)
  <2>1. a \in 1 .. Len(t) /\ m - 1 \in a .. Len(t)
    BY <1>1, <1>6
  <2>2. \A i \in a .. m - 1 : i \in a .. b
    BY <1>1, <1>6
  <2>3. \A i \in a .. (m - 1) - 1 : i \in a .. b - 1
    BY <1>1, <1>6
  <2> QED
    BY <1>9, <1>10, <1>11, <2>1, <2>2, <2>3 DEF Formula
<1>13. Formula(t, m + 1, b)
  <2>1. m + 1 \in 1 .. Len(t) /\ b \in m + 1 .. Len(t) /\ (m + 1) - 1 = m
    BY <1>1, <1>6
  <2>2. \A i \in m + 1 .. b : i \in a .. b
    BY <1>1, <1>6
  <2>3. \A i \in m + 1 .. b - 1 : i \in a .. b - 1
    BY <1>1, <1>6
  <2> QED
    BY <1>2, <1>9, <1>11, <2>1, <2>2, <2>3 DEF Formula
<1> QED
  BY <1>2, <1>6, <1>12, <1>13

\* Two formulas with an operator between them are one.
LEMMA FormulaJoins ==
  ASSUME NEW t \in Seq(PolicyTokens), NEW a, NEW b, NEW m \in Int,
         Formula(t, a, m - 1), t[m] \in OperatorTokens, Formula(t, m + 1, b)
  PROVE  /\ Formula(t, a, b) /\ a < m /\ m < b
         /\ Depth(t, m) = Depth(t, a - 1)
<1>1. /\ Len(t) \in Nat /\ a \in Int /\ b \in Int /\ 1 <= a /\ a <= m - 1 /\ m + 1 <= b
      /\ b <= Len(t) /\ (m + 1) - 1 = m
  BY DEF Formula
<1>2. m \in 1 .. Len(t) /\ m - 1 \in 1 .. Len(t) /\ t[m - 1] \in PolicyTokens
  BY <1>1
<1>3. /\ \A i \in a .. m - 1 : Depth(t, i) >= Depth(t, a - 1)
      /\ Depth(t, m - 1) = Depth(t, a - 1)
      /\ Starter(t[a]) /\ ~ Opener(t[m - 1])
      /\ \A i \in a .. (m - 1) - 1 : MayFollow(t[i], t[i + 1])
  BY DEF Formula
<1>4. /\ \A i \in m + 1 .. b : Depth(t, i) >= Depth(t, m)
      /\ Depth(t, b) = Depth(t, m)
      /\ Starter(t[m + 1]) /\ ~ Opener(t[b])
      /\ \A i \in m + 1 .. b - 1 : MayFollow(t[i], t[i + 1])
  BY <1>1 DEF Formula
<1>5. Depth(t, m) = Depth(t, a - 1) /\ Depth(t, m) \in Int
  BY <1>2, <1>3, TokenAt
<1>6. MayFollow(t[m - 1], t[m]) /\ MayFollow(t[m], t[m + 1])
  <2>1. Opener(t[m])
    BY DEF Opener, OperatorTokens
  <2> QED
    BY <1>3, <1>4, <2>1, FollowIs
<1>7. ASSUME NEW i \in a .. b
      PROVE  Depth(t, i) >= Depth(t, a - 1)
  <2>1. i \in a .. m - 1 \/ i = m \/ i \in m + 1 .. b
    BY <1>1
  <2> QED
    BY <1>3, <1>4, <1>5, <2>1
<1>8. ASSUME NEW i \in a .. b - 1
      PROVE  MayFollow(t[i], t[i + 1])
  <2>1. i \in a .. (m - 1) - 1 \/ (i = m - 1 /\ i + 1 = m) \/ i = m \/ i \in m + 1 .. b - 1
    BY <1>1
  <2> QED
    BY <1>3, <1>4, <1>6, <2>1
<1>9. a \in 1 .. Len(t) /\ b \in a .. Len(t)
  BY <1>1
<1>10. Formula(t, a, b)
  BY <1>3, <1>4, <1>5, <1>7, <1>8, <1>9 DEF Formula
<1> QED
  BY <1>1, <1>5, <1>10

\* A formula that begins a longer one is followed by an operator on its depth.
LEMMA FormulaGoesOn ==
  ASSUME NEW t \in Seq(PolicyTokens), NEW a, NEW b, NEW c,
         Formula(t, a, b), Formula(t, a, c), b < c
  PROVE  b + 1 \in a .. c /\ t[b + 1] \in OperatorTokens /\ b + 1 \in Outer(t, t[b + 1], a, c)
<1>1. /\ Len(t) \in Nat /\ a \in Int /\ b \in Int /\ c \in Int /\ 1 <= a /\ a <= b /\ c <= Len(t)
  BY DEF Formula
<1>2. b \in a .. c - 1 /\ b + 1 \in a .. c /\ b + 1 \in 1 .. Len(t) /\ (b + 1) - 1 = b
  BY <1>1
<1>3. MayFollow(t[b], t[b + 1]) /\ ~ Opener(t[b]) /\ Depth(t, b) = Depth(t, a - 1)
      /\ Depth(t, b + 1) >= Depth(t, a - 1)
  BY <1>2 DEF Formula
<1>4. t[b + 1] = RParen \/ t[b + 1] \in OperatorTokens
  BY <1>3, FollowIs
<1>5. /\ Depth(t, b + 1) \in Int /\ Depth(t, b) \in Int
      /\ t[b + 1] = RParen => Depth(t, b + 1) = Depth(t, b) - 1
      /\ t[b + 1] \in OperatorTokens => Depth(t, b + 1) = Depth(t, b)
  <2> DEFINE j == b + 1
  <2>1. /\ Depth(t, j) \in Int /\ Depth(t, j - 1) \in Int
        /\ t[j] = RParen => Depth(t, j) = Depth(t, j - 1) - 1
        /\ t[j] \in OperatorTokens => Depth(t, j) = Depth(t, j - 1)
    BY <1>2, TokenAt
  <2> QED
    BY <1>2, <2>1
<1>6. t[b + 1] \in OperatorTokens /\ Depth(t, b + 1) = Depth(t, a - 1)
  BY <1>3, <1>4, <1>5
<1> QED
  BY <1>2, <1>6 DEF Outer

\* An attribute alone is a formula.
LEMMA FormulaOfWord ==
  ASSUME NEW t \in Seq(PolicyTokens), NEW a \in 1 .. Len(t), t[a].is = "Attr"
  PROVE  Formula(t, a, a) /\ \A op \in OperatorTokens : Outer(t, op, a, a) = {}
<1>1. /\ Len(t) \in Nat /\ a \in Int /\ t[a] \in PolicyTokens
      /\ Depth(t, a) = Depth(t, a - 1) /\ Depth(t, a) \in Int
  BY TokenAt
<1>2. Starter(t[a]) /\ ~ Opener(t[a]) /\ t[a] \notin OperatorTokens
  BY <1>1, TokenKinds, TokenRoles DEF Starter, OperatorTokens
<1>3. a \in a .. Len(t) /\ (\A i \in a .. a : i = a) /\ a .. a - 1 = {}
  BY <1>1
<1>4. Formula(t, a, a)
  BY <1>1, <1>2, <1>3 DEF Formula
<1>5. \A op \in OperatorTokens : Outer(t, op, a, a) = {}
  BY <1>2, <1>3 DEF Outer
<1> QED
  BY <1>4, <1>5

\* A formula in parentheses is a formula, without an operator on its own depth.
LEMMA FormulaEncloses ==
  ASSUME NEW t \in Seq(PolicyTokens), NEW a \in 1 .. Len(t), NEW b \in 1 .. Len(t),
         t[a] = LParen, t[b] = RParen, Formula(t, a + 1, b - 1)
  PROVE  Formula(t, a, b) /\ \A op \in OperatorTokens : Outer(t, op, a, b) = {}
<1>1. /\ Len(t) \in Nat /\ a \in Int /\ b \in Int /\ a + 1 <= b - 1 /\ (a + 1) - 1 = a
  BY DEF Formula
<1>2. /\ \A i \in a + 1 .. b - 1 : Depth(t, i) >= Depth(t, a)
      /\ Depth(t, b - 1) = Depth(t, a)
      /\ Starter(t[a + 1]) /\ ~ Opener(t[b - 1])
      /\ \A i \in a + 1 .. (b - 1) - 1 : MayFollow(t[i], t[i + 1])
  BY <1>1 DEF Formula
<1>3. /\ Depth(t, a) = Depth(t, a - 1) + 1 /\ Depth(t, b) = Depth(t, b - 1) - 1
      /\ Depth(t, a - 1) \in Int /\ Depth(t, a) \in Int
  BY TokenAt
<1>4. Depth(t, b) = Depth(t, a - 1)
  BY <1>2, <1>3
<1>5. \A i \in a .. b : i = a \/ i \in a + 1 .. b - 1 \/ i = b
  BY <1>1
<1>6. \A i \in Nat : Depth(t, i) \in Int
  BY DepthSteps
<1>7. ASSUME NEW i \in a .. b PROVE Depth(t, i) >= Depth(t, a - 1)
  <2>1. i \in Nat
    BY <1>1
  <2> QED
    BY <1>2, <1>3, <1>4, <1>5, <1>6, <2>1
<1>8. ASSUME NEW i \in a .. b, i # b PROVE Depth(t, i) # Depth(t, a - 1)
  <2>1. i \in Nat
    BY <1>1
  <2> QED
    BY <1>2, <1>3, <1>5, <1>6, <1>8, <2>1
<1>9. LParen \in PolicyTokens /\ RParen \in PolicyTokens
  BY DEF PolicyTokens
<1>10. Starter(t[a]) /\ Opener(t[a]) /\ ~ Opener(t[b]) /\ t[b] \notin OperatorTokens
  BY <1>9, TokenRoles DEF Starter
<1>11. ASSUME NEW i \in a .. b - 1 PROVE MayFollow(t[i], t[i + 1])
  <2>1. i = a \/ i \in a + 1 .. (b - 1) - 1 \/ (i = b - 1 /\ i + 1 = b)
    BY <1>1
  <2>2. MayFollow(t[a], t[a + 1])
    BY <1>2, <1>10, FollowIs
  <2>3. MayFollow(t[b - 1], t[b])
    BY <1>2, FollowIs
  <2> QED
    BY <1>2, <2>1, <2>2, <2>3
<1>12. b \in a .. Len(t)
  BY <1>1
<1>13. Formula(t, a, b)
  BY <1>4, <1>7, <1>10, <1>11, <1>12 DEF Formula
<1>14. \A op \in OperatorTokens : Outer(t, op, a, b) = {}
  BY <1>8, <1>10 DEF Outer
<1> QED
  BY <1>13, <1>14

\* Neither And nor Or on its own depth from position a to position b.
Solid(t, a, b) == \A op \in OperatorTokens : Outer(t, op, a, b) = {}

\* Such a formula that begins with a parenthesis is one in parentheses.
LEMMA SolidParentheses ==
  ASSUME NEW t \in Seq(PolicyTokens), NEW a, NEW b, Formula(t, a, b), Solid(t, a, b),
         t[a] = LParen
  PROVE  t[b] = RParen /\ Formula(t, a + 1, b - 1)
<1>1. /\ Len(t) \in Nat /\ a \in Int /\ b \in Int /\ 1 <= a /\ a <= b /\ b <= Len(t)
      /\ a \in 1 .. Len(t)
  BY DEF Formula
<1>2. /\ \A i \in a .. b : Depth(t, i) >= Depth(t, a - 1)
      /\ Depth(t, b) = Depth(t, a - 1)
      /\ Starter(t[a]) /\ ~ Opener(t[b])
      /\ \A i \in a .. b - 1 : MayFollow(t[i], t[i + 1])
  BY DEF Formula
<1>3. Depth(t, a) = Depth(t, a - 1) + 1 /\ Depth(t, a - 1) \in Int
  BY <1>1, TokenAt
<1>4. \A i \in Nat : Depth(t, i) \in Int
  BY DepthSteps
<1> DEFINE J == {i \in a .. b : Depth(t, i) = Depth(t, a - 1)}
<1>5. J \in SUBSET Nat /\ b \in J
  BY <1>1, <1>2
<1>6. PICK j \in J : \A i \in J : j <= i
  <2> HIDE DEF J
  <2>1. J # {}
    BY <1>5
  <2> QED
    BY <1>5, <2>1, LeastElement
<1>7. /\ j \in Nat /\ a < j /\ j <= b /\ Depth(t, j) = Depth(t, a - 1)
      /\ j - 1 \in a .. b - 1 /\ (j - 1) + 1 = j /\ j \in 1 .. Len(t)
  <2>1. j \in a .. b /\ Depth(t, j) = Depth(t, a - 1)
    OBVIOUS
  <2>2. j # a
    BY <1>3, <2>1
  <2> QED
    BY <1>1, <2>1, <2>2
<1>8. ASSUME NEW i \in a .. j - 1 PROVE Depth(t, i) >= Depth(t, a)
  <2>1. i \in a .. b /\ i < j /\ i \in Nat
    BY <1>1, <1>7
  <2>2. i \notin J
    BY <1>6, <1>7, <2>1
  <2>3. Depth(t, i) # Depth(t, a - 1) /\ Depth(t, i) >= Depth(t, a - 1)
    BY <1>2, <2>1, <2>2
  <2> QED
    BY <1>3, <1>4, <2>1, <2>3
<1> HIDE DEF J
<1>9. Depth(t, j - 1) >= Depth(t, a) /\ Depth(t, j - 1) \in Int
  <2>1. j - 1 \in a .. j - 1 /\ j - 1 \in Nat
    BY <1>1, <1>7
  <2> QED
    BY <1>4, <1>8, <2>1
<1>10. t[j] = RParen
  <2>1. /\ t[j] \in PolicyTokens
        /\ t[j] = LParen => Depth(t, j) = Depth(t, j - 1) + 1
        /\ t[j] \in OperatorTokens \/ t[j].is = "Attr" => Depth(t, j) = Depth(t, j - 1)
    BY <1>7, TokenAt
  <2>2. t[j] # LParen /\ t[j] \notin OperatorTokens /\ t[j].is # "Attr"
    BY <1>3, <1>7, <1>9, <2>1
  <2> QED
    BY <2>1, <2>2, TokenKinds DEF OperatorTokens
<1>11. LParen \in PolicyTokens /\ RParen \in PolicyTokens
  BY DEF PolicyTokens
<1>12. ~ Opener(t[j]) /\ ~ Starter(t[j])
  BY <1>10, <1>11, TokenRoles
<1>13. Formula(t, a, j)
  <2>1. a \in 1 .. Len(t) /\ j \in a .. Len(t)
    BY <1>1, <1>7
  <2>2. \A i \in a .. j : i \in a .. b
    BY <1>1, <1>7
  <2>3. \A i \in a .. j - 1 : i \in a .. b - 1
    BY <1>1, <1>7
  <2> QED
    BY <1>2, <1>7, <1>12, <2>1, <2>2, <2>3 DEF Formula
<1>14. j = b
  <2> SUFFICES ASSUME j < b PROVE FALSE
    BY <1>1, <1>7
  <2>1. t[j + 1] \in OperatorTokens /\ j + 1 \in Outer(t, t[j + 1], a, b)
    BY <1>13, FormulaGoesOn
  <2> QED
    BY <2>1 DEF Solid
<1>15. MayFollow(t[b - 1], t[b]) /\ ~ Opener(t[b - 1])
  <2>1. MayFollow(t[j - 1], t[(j - 1) + 1])
    BY <1>2, <1>7
  <2>2. MayFollow(t[j - 1], t[j])
    BY <1>7, <2>1
  <2> QED
    BY <1>12, <1>14, <2>2, FollowIs
<1>16. Starter(t[a + 1]) /\ a + 1 <= b - 1
  <2>1. a \in a .. b - 1 /\ Opener(t[a])
    BY <1>1, <1>7, <1>11, <1>14, TokenRoles
  <2>2. Starter(t[a + 1])
    BY <1>2, <2>1, FollowIs
  <2>3. a + 1 # b
    BY <1>12, <1>14, <2>2
  <2> QED
    BY <1>1, <1>7, <1>14, <2>2, <2>3
<1>17. Depth(t, b - 1) = Depth(t, a)
  <2>1. Depth(t, j) = Depth(t, j - 1) - 1
    BY <1>7, <1>10, TokenAt
  <2> QED
    BY <1>3, <1>7, <1>9, <1>14, <2>1
<1>18. Formula(t, a + 1, b - 1)
  <2>1. a + 1 \in 1 .. Len(t) /\ b - 1 \in a + 1 .. Len(t) /\ (a + 1) - 1 = a
    BY <1>1, <1>16
  <2>2. \A i \in a + 1 .. b - 1 : i \in a .. j - 1
    BY <1>1, <1>14
  <2>3. \A i \in a + 1 .. (b - 1) - 1 : i \in a .. b - 1
    BY <1>1
  <2> QED
    BY <1>2, <1>8, <1>15, <1>16, <1>17, <2>1, <2>2, <2>3 DEF Formula
<1> QED
  BY <1>10, <1>14, <1>18

-----------------------------------------------------------------------------
(* What a formula means.                                                   *)

LEMMA GreatestElement ==
  ASSUME NEW a \in Int, NEW b \in Int, NEW S \in SUBSET (a .. b), S # {}
  PROVE  Max(S) \in S /\ \A x \in S : x <= Max(S)
<1> DEFINE T == {b - x : x \in S}
<1>1. T \in SUBSET Nat /\ T # {}
  OBVIOUS
<1> HIDE DEF T
<1>2. PICK m \in T : \A n \in T : m <= n
  BY <1>1, LeastElement
<1>3. PICK x \in S : m = b - x
  BY <1>2 DEF T
<1>4. \A y \in S : x >= y
  <2> SUFFICES ASSUME NEW y \in S PROVE x >= y
    OBVIOUS
  <2>1. b - y \in T
    BY DEF T
  <2> QED
    BY <1>2, <1>3, <2>1
<1>5. Max(S) \in S /\ \A y \in S : Max(S) >= y
  BY <1>4 DEF Max
<1> QED
  BY <1>5

\* The value of `holds` in Means from position a to position b.
HoldsAt(t, attrs, f, a, b) ==
  LET ors  == Outer(t, OrTok, a, b)
      ands == Outer(t, AndTok, a, b)
  IN IF b < a THEN FALSE
     ELSE IF ors # {} THEN f[a][Max(ors) - 1] \/ f[Max(ors) + 1][b]
     ELSE IF ands # {} THEN f[a][Max(ands) - 1] /\ f[Max(ands) + 1][b]
     ELSE IF t[a] = LParen THEN f[a + 1][b - 1]
     ELSE Normalize(t[a].word) \in attrs
Determines(t, attrs, f) ==
  f = [a \in 1 .. Len(t) + 1 |-> [b \in 0 .. Len(t) |-> HoldsAt(t, attrs, f, a, b)]]
Truths(t) == [1 .. Len(t) + 1 -> [0 .. Len(t) -> BOOLEAN]]

\* It depends on shorter parts only.
LEMMA HoldsAtLocal ==
  ASSUME NEW t \in Seq(PolicyTokens), NEW attrs, NEW f \in Truths(t), NEW g,
         NEW a \in 1 .. Len(t) + 1, NEW b \in 0 .. Len(t),
         \A x \in 1 .. Len(t) + 1, y \in 0 .. Len(t) : y - x < b - a => f[x][y] = g[x][y]
  PROVE  /\ HoldsAt(t, attrs, f, a, b) \in BOOLEAN
         /\ HoldsAt(t, attrs, f, a, b) = HoldsAt(t, attrs, g, a, b)
<1> DEFINE ors  == Outer(t, OrTok, a, b)
           ands == Outer(t, AndTok, a, b)
<1>1. Len(t) \in Nat /\ a \in Int /\ b \in Int /\ 1 <= a /\ a <= Len(t) + 1 /\ 0 <= b /\ b <= Len(t)
  OBVIOUS
<1>2. ors \in SUBSET (a .. b) /\ ands \in SUBSET (a .. b)
  BY DEF Outer
<1>3. \A x \in 1 .. Len(t) + 1, y \in 0 .. Len(t) : f[x][y] \in BOOLEAN
  BY DEF Truths
<1>4. ASSUME NEW m \in a .. b
      PROVE  /\ f[a][m - 1] = g[a][m - 1] /\ f[a][m - 1] \in BOOLEAN
             /\ f[m + 1][b] = g[m + 1][b] /\ f[m + 1][b] \in BOOLEAN
  <2>1. m - 1 \in 0 .. Len(t) /\ m + 1 \in 1 .. Len(t) + 1
        /\ (m - 1) - a < b - a /\ b - (m + 1) < b - a
    BY <1>1
  <2> QED
    BY <1>3, <2>1
<1>5. CASE b < a
  BY <1>5 DEF HoldsAt
<1>6. CASE ~ (b < a) /\ ors # {}
  <2> DEFINE m == Max(ors)
  <2>1. m \in a .. b
    BY <1>1, <1>2, <1>6, GreatestElement
  <2>2. \A h : HoldsAt(t, attrs, h, a, b) = (h[a][m - 1] \/ h[m + 1][b])
    BY <1>6 DEF HoldsAt
  <2> HIDE DEF m
  <2> QED
    BY <1>4, <2>1, <2>2
<1>7. CASE ~ (b < a) /\ ors = {} /\ ands # {}
  <2> DEFINE m == Max(ands)
  <2>1. m \in a .. b
    BY <1>1, <1>2, <1>7, GreatestElement
  <2>2. \A h : HoldsAt(t, attrs, h, a, b) = (h[a][m - 1] /\ h[m + 1][b])
    BY <1>7 DEF HoldsAt
  <2> HIDE DEF m
  <2> QED
    BY <1>4, <2>1, <2>2
<1>8. CASE ~ (b < a) /\ ors = {} /\ ands = {} /\ t[a] = LParen
  <2>1. a + 1 \in 1 .. Len(t) + 1 /\ b - 1 \in 0 .. Len(t) /\ (b - 1) - (a + 1) < b - a
    BY <1>1, <1>8
  <2>2. \A h : HoldsAt(t, attrs, h, a, b) = h[a + 1][b - 1]
    BY <1>8 DEF HoldsAt
  <2>3. f[a + 1][b - 1] = g[a + 1][b - 1] /\ f[a + 1][b - 1] \in BOOLEAN
    BY <1>3, <2>1
  <2> QED
    BY <2>2, <2>3, Zenon
<1>9. CASE ~ (b < a) /\ ors = {} /\ ands = {} /\ t[a] # LParen
  <2>1. \A h : HoldsAt(t, attrs, h, a, b) = (Normalize(t[a].word) \in attrs)
    BY <1>9 DEF HoldsAt
  <2> DEFINE v == Normalize(t[a].word) \in attrs
  <2>2. v \in BOOLEAN
    OBVIOUS
  <2> HIDE DEF v
  <2>3. \A h : HoldsAt(t, attrs, h, a, b) = v
    BY <2>1 DEF v
  <2> QED
    BY <2>2, <2>3, Zenon
<1> HIDE DEF ors, ands
<1> QED
  BY <1>5, <1>6, <1>7, <1>8, <1>9

\* f is right about parts of at most n tokens.
RightUpTo(t, attrs, n, f) ==
  /\ f \in Truths(t)
  /\ \A a \in 1 .. Len(t) + 1, b \in 0 .. Len(t) :
       b - a < n => f[a][b] = HoldsAt(t, attrs, f, a, b)

LEMMA RightOnce ==
  ASSUME NEW t \in Seq(PolicyTokens), NEW attrs, NEW n \in Nat, NEW f, RightUpTo(t, attrs, n, f)
  PROVE  \E g : RightUpTo(t, attrs, n + 1, g)
<1> DEFINE g == [a \in 1 .. Len(t) + 1 |-> [b \in 0 .. Len(t) |->
                   IF b - a < n THEN f[a][b] ELSE HoldsAt(t, attrs, f, a, b)]]
<1>1. /\ Len(t) \in Nat /\ f \in Truths(t)
      /\ \A a \in 1 .. Len(t) + 1, b \in 0 .. Len(t) :
           b - a < n => f[a][b] = HoldsAt(t, attrs, f, a, b)
  BY DEF RightUpTo
<1>2. \A a \in 1 .. Len(t) + 1, b \in 0 .. Len(t) :
        g[a][b] = HoldsAt(t, attrs, f, a, b)
  BY <1>1
<1>3. ASSUME NEW a \in 1 .. Len(t) + 1, NEW b \in 0 .. Len(t)
      PROVE  HoldsAt(t, attrs, f, a, b) \in BOOLEAN
  BY <1>1, HoldsAtLocal
<1>4. g \in Truths(t)
  <2>1. \A a \in 1 .. Len(t) + 1, b \in 0 .. Len(t) : g[a][b] \in BOOLEAN
    BY <1>2, <1>3
  <2>2. g = [a \in 1 .. Len(t) + 1 |-> [b \in 0 .. Len(t) |-> g[a][b]]]
    OBVIOUS
  <2> HIDE DEF g
  <2> QED
    BY <2>1, <2>2 DEF Truths
<1> HIDE DEF g
<1>5. ASSUME NEW a \in 1 .. Len(t) + 1, NEW b \in 0 .. Len(t), b - a < n + 1
      PROVE  g[a][b] = HoldsAt(t, attrs, g, a, b)
  <2>1. ASSUME NEW x \in 1 .. Len(t) + 1, NEW y \in 0 .. Len(t), y - x < b - a
        PROVE  f[x][y] = g[x][y]
    <3>1. y - x < n
      BY <1>5, <2>1
    <3> QED
      BY <1>1, <1>2, <3>1
  <2>2. HoldsAt(t, attrs, f, a, b) = HoldsAt(t, attrs, g, a, b)
    BY <1>1, <2>1, HoldsAtLocal
  <2> QED
    BY <1>2, <2>2
<1> QED
  BY <1>4, <1>5 DEF RightUpTo

LEMMA HoldsExists ==
  ASSUME NEW t \in Seq(PolicyTokens), NEW attrs
  PROVE  \E f \in Truths(t) : Determines(t, attrs, f)
<1> DEFINE S == {n \in Nat : \E f : RightUpTo(t, attrs, n, f)}
<1>1. 0 \in S
  <2> DEFINE f == [a \in 1 .. Len(t) + 1 |-> [b \in 0 .. Len(t) |-> FALSE]]
  <2>1. f \in Truths(t) /\ \A a \in 1 .. Len(t) + 1, b \in 0 .. Len(t) : f[a][b] = FALSE
    BY DEF Truths
  <2> HIDE DEF f
  <2>2. ASSUME NEW a \in 1 .. Len(t) + 1, NEW b \in 0 .. Len(t), b - a < 0
        PROVE  f[a][b] = HoldsAt(t, attrs, f, a, b)
    <3>1. b < a
      BY <2>2
    <3> QED
      BY <2>1, <3>1 DEF HoldsAt
  <2> QED
    BY <2>1, <2>2 DEF RightUpTo
<1>2. \A n \in S : n + 1 \in S
  BY RightOnce
<1>3. S = Nat
  <2> HIDE DEF S
  <2>1. S \in SUBSET Nat
    BY DEF S
  <2> QED
    BY <1>1, <1>2, <2>1, InductionInSet
<1>4. Len(t) \in S
  <2> HIDE DEF S
  <2>1. Len(t) \in Nat
    OBVIOUS
  <2> QED
    BY <1>3, <2>1
<1>5. PICK f : RightUpTo(t, attrs, Len(t), f)
  BY <1>4
<1>6. /\ f \in Truths(t)
      /\ \A a \in 1 .. Len(t) + 1, b \in 0 .. Len(t) : f[a][b] = HoldsAt(t, attrs, f, a, b)
  <2>1. \A a \in 1 .. Len(t) + 1, b \in 0 .. Len(t) : b - a < Len(t)
    OBVIOUS
  <2> QED
    BY <1>5, <2>1 DEF RightUpTo
<1>7. f = [a \in 1 .. Len(t) + 1 |-> [b \in 0 .. Len(t) |-> f[a][b]]]
  BY <1>6 DEF Truths
<1>8. Determines(t, attrs, f)
  BY <1>6, <1>7 DEF Determines
<1> QED
  BY <1>6, <1>8

LEMMA DeterminesAt ==
  ASSUME NEW t, NEW attrs, NEW f, Determines(t, attrs, f),
         NEW a \in 1 .. Len(t) + 1, NEW b \in 0 .. Len(t)
  PROVE  f[a][b] = HoldsAt(t, attrs, f, a, b)
<1> DEFINE row == [c \in 0 .. Len(t) |-> HoldsAt(t, attrs, f, a, c)]
<1>1. f[a] = row
  BY Zenon DEF Determines
<1>2. row[b] = HoldsAt(t, attrs, f, a, b)
  OBVIOUS
<1> HIDE DEF row
<1> QED
  BY <1>1, <1>2

LEMMA DeterminesRow ==
  ASSUME NEW t, NEW attrs, NEW f, Determines(t, attrs, f), NEW a \in 1 .. Len(t) + 1
  PROVE  f[a] = [b \in 0 .. Len(t) |-> f[a][b]]
<1> DEFINE row == [c \in 0 .. Len(t) |-> HoldsAt(t, attrs, f, a, c)]
<1>1. f[a] = row
  BY Zenon DEF Determines
<1>2. row = [c \in 0 .. Len(t) |-> row[c]]
  OBVIOUS
<1> HIDE DEF row
<1> QED
  BY <1>1, <1>2

LEMMA DeterminesOnce ==
  ASSUME NEW t \in Seq(PolicyTokens), NEW attrs, NEW f \in Truths(t),
         Determines(t, attrs, f), NEW g, Determines(t, attrs, g)
  PROVE  f = g
<1> DEFINE A == 1 .. Len(t) + 1
           B == 0 .. Len(t)
           Same(n) == \A a \in A, b \in B : b - a < n => f[a][b] = g[a][b]
           S == {n \in Nat : Same(n)}
<1>1. \A a \in A, b \in B : /\ f[a][b] = HoldsAt(t, attrs, f, a, b)
                            /\ g[a][b] = HoldsAt(t, attrs, g, a, b)
  BY DeterminesAt
<1>2. 0 \in S
  <2>1. ASSUME NEW a \in A, NEW b \in B, b - a < 0 PROVE f[a][b] = g[a][b]
    <3>1. b < a
      BY <2>1
    <3> QED
      BY <1>1, <3>1 DEF HoldsAt
  <2> QED
    BY <2>1
<1>3. ASSUME NEW n \in S PROVE n + 1 \in S
  <2>1. n \in Nat /\ Same(n)
    OBVIOUS
  <2>2. ASSUME NEW a \in A, NEW b \in B, b - a < n + 1 PROVE f[a][b] = g[a][b]
    <3>1. \A x \in A, y \in B : y - x < b - a => f[x][y] = g[x][y]
      BY <2>1, <2>2
    <3>2. HoldsAt(t, attrs, f, a, b) = HoldsAt(t, attrs, g, a, b)
      BY <3>1, HoldsAtLocal
    <3> QED
      BY <1>1, <3>2
  <2> QED
    BY <2>1, <2>2
<1>4. S = Nat
  <2> HIDE DEF S
  <2>1. S \in SUBSET Nat
    BY DEF S
  <2> QED
    BY <1>2, <1>3, <2>1, InductionInSet
<1>5. Same(Len(t))
  <2> HIDE DEF S, Same
  <2>1. Len(t) \in Nat
    OBVIOUS
  <2>2. Len(t) \in S
    BY <1>4, <2>1
  <2> QED
    BY <2>2 DEF S
<1>6. \A a \in A, b \in B : f[a][b] = g[a][b]
  <2>1. \A a \in A, b \in B : b - a < Len(t)
    OBVIOUS
  <2> QED
    BY <1>5, <2>1
<1>7. \A a \in A : f[a] = [b \in B |-> f[a][b]] /\ g[a] = [b \in B |-> g[a][b]]
  <2> TAKE a \in A
  <2>1. f[a] = [b \in B |-> f[a][b]]
    BY DeterminesRow
  <2>2. g[a] = [b \in B |-> g[a][b]]
    BY DeterminesRow
  <2> QED
    BY <2>1, <2>2
<1>8. \A a \in A : f[a] = g[a]
  BY <1>6, <1>7
<1>9. f = [a \in A |-> f[a]] /\ g = [a \in A |-> g[a]]
  BY DEF Determines
<1> QED
  BY <1>8, <1>9

\* Whether attributes satisfy the formula from position a to position b.
Holds(t, attrs, a, b) == (CHOOSE f : Determines(t, attrs, f))[a][b]

LEMMA MeansIs ==
  ASSUME NEW t, NEW attrs
  PROVE  Means(t, attrs) = Holds(t, attrs, 1, Len(t))
BY DEF Means, Holds, Determines, HoldsAt

LEMMA HoldsSteps ==
  ASSUME NEW t \in Seq(PolicyTokens), NEW attrs,
         NEW a \in 1 .. Len(t), NEW b \in a .. Len(t), NEW m
  PROVE  /\ Holds(t, attrs, a, b) \in BOOLEAN
         /\ Outer(t, OrTok, a, b) # {} /\ m = Max(Outer(t, OrTok, a, b)) =>
              Holds(t, attrs, a, b) <=> (Holds(t, attrs, a, m - 1) \/ Holds(t, attrs, m + 1, b))
         /\ Outer(t, OrTok, a, b) = {} /\ Outer(t, AndTok, a, b) # {}
              /\ m = Max(Outer(t, AndTok, a, b)) =>
              Holds(t, attrs, a, b) <=> (Holds(t, attrs, a, m - 1) /\ Holds(t, attrs, m + 1, b))
         /\ Solid(t, a, b) /\ t[a] = LParen =>
              Holds(t, attrs, a, b) <=> Holds(t, attrs, a + 1, b - 1)
         /\ Solid(t, a, b) /\ t[a] # LParen =>
              Holds(t, attrs, a, b) <=> (Normalize(t[a].word) \in attrs)
<1>1. PICK f \in Truths(t) : Determines(t, attrs, f)
  BY HoldsExists
<1>2. \A x, y : Holds(t, attrs, x, y) = f[x][y]
  <2> DEFINE g == CHOOSE g : Determines(t, attrs, g)
  <2>1. Determines(t, attrs, g)
    BY <1>1
  <2> HIDE DEF g
  <2>2. f = g
    BY <1>1, <2>1, DeterminesOnce
  <2> QED
    BY <2>2 DEF Holds, g
<1>3. a \in 1 .. Len(t) + 1 /\ b \in 0 .. Len(t) /\ ~ (b < a)
  OBVIOUS
<1>4. f[a][b] = HoldsAt(t, attrs, f, a, b)
  BY <1>1, <1>3, DeterminesAt
<1>5. Holds(t, attrs, a, b) \in BOOLEAN
  <2>1. f[a][b] \in BOOLEAN
    BY <1>3 DEF Truths
  <2> QED
    BY <1>2, <2>1, Zenon
<1>6. Outer(t, OrTok, a, b) # {} /\ m = Max(Outer(t, OrTok, a, b)) =>
        f[a][b] <=> (f[a][m - 1] \/ f[m + 1][b])
  BY <1>3, <1>4 DEF HoldsAt
<1>7. Outer(t, OrTok, a, b) = {} /\ Outer(t, AndTok, a, b) # {}
        /\ m = Max(Outer(t, AndTok, a, b)) =>
        f[a][b] <=> (f[a][m - 1] /\ f[m + 1][b])
  BY <1>3, <1>4 DEF HoldsAt
<1>8. Solid(t, a, b) => Outer(t, OrTok, a, b) = {} /\ Outer(t, AndTok, a, b) = {}
  BY DEF Solid, OperatorTokens
<1>9. Solid(t, a, b) /\ t[a] = LParen => f[a][b] <=> f[a + 1][b - 1]
  BY <1>3, <1>4, <1>8 DEF HoldsAt
<1>10. Solid(t, a, b) /\ t[a] # LParen => f[a][b] <=> (Normalize(t[a].word) \in attrs)
  BY <1>3, <1>4, <1>8 DEF HoldsAt
<1> QED
  BY <1>2, <1>5, <1>6, <1>7, <1>9, <1>10, Zenon

\* The operators that lie outside a part of a formula or within it.
LEMMA OuterParts ==
  ASSUME NEW t, NEW a \in Int, NEW b \in Int, NEW m \in a .. b,
         Depth(t, m) = Depth(t, a - 1), NEW op
  PROVE  /\ Outer(t, op, a, m - 1) = Outer(t, op, a, b) \cap (a .. m - 1)
         /\ Outer(t, op, m + 1, b) = Outer(t, op, a, b) \cap (m + 1 .. b)
<1>1. (m + 1) - 1 = m /\ (a .. m - 1) \subseteq a .. b /\ (m + 1 .. b) \subseteq a .. b
  OBVIOUS
<1> QED
  BY <1>1 DEF Outer

\* What an operator makes of two truth values.
Combined(op, x, y) == IF op = OrTok THEN x \/ y ELSE x /\ y
\* Whether op is what a formula is to be split at first.
SplitsFirst(t, op, a, b) == op \in OperatorTokens /\ (op = AndTok => Outer(t, OrTok, a, b) = {})

LEMMA HoldsAtLast ==
  ASSUME NEW t \in Seq(PolicyTokens), NEW attrs,
         NEW a \in 1 .. Len(t), NEW b \in a .. Len(t),
         NEW op, SplitsFirst(t, op, a, b), NEW m \in Outer(t, op, a, b),
         \A x \in Outer(t, op, a, b) : x <= m
  PROVE  Holds(t, attrs, a, b) <=> Combined(op, Holds(t, attrs, a, m - 1), Holds(t, attrs, m + 1, b))
<1> DEFINE S == Outer(t, op, a, b)
<1>1. S \in SUBSET (a .. b) /\ a \in Int /\ b \in Int
  BY DEF Outer
<1>2. Max(S) = m
  <2> HIDE DEF S
  <2>1. Max(S) \in S /\ \A x \in S : x <= Max(S)
    <3>1. m \in S
      BY DEF S
    <3> QED
      BY <1>1, <3>1, GreatestElement
  <2>2. m \in S /\ \A x \in S : x <= m
    BY DEF S
  <2> DEFINE x == Max(S)
  <2> HIDE DEF x
  <2>3. x \in S /\ m <= x /\ x <= m
    BY <2>1, <2>2 DEF x
  <2>4. x = m
    BY <1>1, <2>2, <2>3
  <2> QED
    BY <2>4 DEF x
<1>3. S # {} /\ (op = OrTok \/ op = AndTok) /\ AndTok # OrTok
  BY DEF SplitsFirst, OperatorTokens, AndTok, OrTok
<1>4. CASE op = OrTok
  <2>1. Holds(t, attrs, a, b) <=> (Holds(t, attrs, a, m - 1) \/ Holds(t, attrs, m + 1, b))
    <3>1. Outer(t, OrTok, a, b) # {} /\ m = Max(Outer(t, OrTok, a, b))
      BY <1>2, <1>3, <1>4
    <3> QED
      BY <3>1, HoldsSteps
  <2> QED
    BY <1>4, <2>1 DEF Combined
<1>5. CASE op = AndTok
  <2>1. Outer(t, OrTok, a, b) = {}
    BY <1>5 DEF SplitsFirst
  <2>2. Holds(t, attrs, a, b) <=> (Holds(t, attrs, a, m - 1) /\ Holds(t, attrs, m + 1, b))
    <3>1. Outer(t, AndTok, a, b) # {} /\ m = Max(Outer(t, AndTok, a, b))
      BY <1>2, <1>3, <1>5
    <3> QED
      BY <2>1, <3>1, HoldsSteps
  <2>3. op # OrTok
    BY <1>3, <1>5
  <2> QED
    BY <2>2, <2>3 DEF Combined
<1> QED
  BY <1>3, <1>4, <1>5

\* It does not matter at which of its outermost operators a formula is split.
LEMMA HoldsSplits ==
  ASSUME NEW t \in Seq(PolicyTokens), NEW attrs,
         NEW a \in 1 .. Len(t), NEW b \in a .. Len(t),
         NEW op, SplitsFirst(t, op, a, b), NEW m \in Outer(t, op, a, b)
  PROVE  Holds(t, attrs, a, b) <=>
           Combined(op, Holds(t, attrs, a, m - 1), Holds(t, attrs, m + 1, b))
<1> DEFINE P(c) == \A x \in Outer(t, op, a, c) : SplitsFirst(t, op, a, c) =>
                     (Holds(t, attrs, a, c) <=>
                       Combined(op, Holds(t, attrs, a, x - 1), Holds(t, attrs, x + 1, c)))
           S == {n \in Nat : \A c \in a .. Len(t) : c < n => P(c)}
<1>1. Len(t) \in Nat /\ a \in Int /\ 1 <= a /\ b \in Int /\ a <= b /\ b <= Len(t)
  OBVIOUS
<1>2. 0 \in S
  BY <1>1
<1>3. ASSUME NEW n \in S PROVE n + 1 \in S
  <2> SUFFICES ASSUME NEW c \in a .. Len(t), c < n + 1, NEW x \in Outer(t, op, a, c),
                      SplitsFirst(t, op, a, c)
               PROVE  Holds(t, attrs, a, c) <=>
                        Combined(op, Holds(t, attrs, a, x - 1), Holds(t, attrs, x + 1, c))
    <3> HIDE DEF P
    <3>1. n \in Nat
      OBVIOUS
    <3>2. ASSUME NEW c \in a .. Len(t), c < n + 1 PROVE P(c)
      BY <3>2 DEF P
    <3> QED
      BY <3>1, <3>2
  <2> DEFINE O == Outer(t, op, a, c)
             z == Max(O)
  <2>1. n \in Nat /\ \A d \in a .. Len(t) : d < n => P(d)
    OBVIOUS
  <2>2. O \in SUBSET (a .. c) /\ c \in Int /\ x \in O
    BY DEF Outer
  <2>3. z \in O /\ \A y \in O : y <= z
    <3> HIDE DEF O
    <3> QED
      BY <1>1, <2>2, GreatestElement
  <2> HIDE DEF z
  <2>4. x \in a .. c /\ z \in a .. c /\ x <= z /\ x \in Int /\ z \in Int
    BY <2>2, <2>3
  <2>5. Holds(t, attrs, a, c) <=>
          Combined(op, Holds(t, attrs, a, z - 1), Holds(t, attrs, z + 1, c))
    BY <1>1, <2>3, HoldsAtLast
  <2>6. CASE x = z
    BY <2>5, <2>6
  <2>7. CASE x # z
    <3>1. /\ x <= z - 1 /\ z - 1 \in a .. Len(t) /\ z - 1 < n /\ x + 1 \in 1 .. Len(t)
          /\ c \in x + 1 .. Len(t) /\ z \in x + 1 .. c /\ x \in a .. z - 1
      BY <1>1, <2>1, <2>2, <2>4, <2>7
    <3>2. Depth(t, x) = Depth(t, a - 1) /\ Depth(t, z) = Depth(t, a - 1)
      BY <2>3 DEF Outer
    <3>3. \A o : /\ Outer(t, o, a, z - 1) = Outer(t, o, a, c) \cap (a .. z - 1)
                 /\ Outer(t, o, x + 1, c) = Outer(t, o, a, c) \cap (x + 1 .. c)
      BY <1>1, <2>2, <2>4, <3>2, OuterParts
    <3>4. SplitsFirst(t, op, a, z - 1) /\ SplitsFirst(t, op, x + 1, c)
      BY <3>3 DEF SplitsFirst
    <3>5. x \in Outer(t, op, a, z - 1) /\ z \in Outer(t, op, x + 1, c)
          /\ \A y \in Outer(t, op, x + 1, c) : y <= z
      BY <2>2, <2>3, <3>1, <3>3
    <3>6. Holds(t, attrs, a, z - 1) <=>
            Combined(op, Holds(t, attrs, a, x - 1), Holds(t, attrs, x + 1, z - 1))
      <4>1. P(z - 1)
        <5> HIDE DEF P
        <5> QED
          BY <2>1, <3>1
      <4> QED
        BY <3>4, <3>5, <4>1
    <3>7. Holds(t, attrs, x + 1, c) <=>
            Combined(op, Holds(t, attrs, x + 1, z - 1), Holds(t, attrs, z + 1, c))
      BY <3>1, <3>4, <3>5, HoldsAtLast
    <3> QED
      BY <2>5, <3>6, <3>7 DEF Combined
  <2> QED
    BY <2>6, <2>7
<1>4. S = Nat
  <2> HIDE DEF S
  <2>1. S \in SUBSET Nat
    BY DEF S
  <2> QED
    BY <1>2, <1>3, <2>1, InductionInSet
<1>5. P(b)
  <2> HIDE DEF P
  <2>1. b + 1 \in Nat /\ b < b + 1
    BY <1>1
  <2>2. b + 1 \in S
    <3> HIDE DEF S
    <3> QED
      BY <1>4, <2>1
  <2> QED
    BY <2>1, <2>2
<1> QED
  BY <1>5

-----------------------------------------------------------------------------
(* What each function of the parser has to find.                           *)

\* The function for formulas without the operators E on their own depth goes on
\* as long as there is another operator.
Free(t, E, a, b) == \A op \in E : Outer(t, op, a, b) = {}
Ends(t, E, p) == p \in 1 .. Len(t) => t[p] \notin OperatorTokens \ E
Part(t, E, a, b) == Formula(t, a, b) /\ Free(t, E, a, b) /\ Ends(t, E, b + 1)

LEMMA OnePart ==
  ASSUME NEW t \in Seq(PolicyTokens), NEW E, NEW a, NEW b, NEW c, Part(t, E, a, b), Part(t, E, a, c)
  PROVE  b = c
<1>1. ASSUME NEW x, NEW y, Part(t, E, a, x), Part(t, E, a, y), x < y PROVE FALSE
  <2>1. Formula(t, a, x) /\ Formula(t, a, y) /\ Free(t, E, a, y) /\ Ends(t, E, x + 1)
    BY <1>1 DEF Part
  <2>2. x + 1 \in a .. y /\ t[x + 1] \in OperatorTokens /\ x + 1 \in Outer(t, t[x + 1], a, y)
    BY <1>1, <2>1, FormulaGoesOn
  <2>3. x + 1 \in 1 .. Len(t)
    BY <2>1, <2>2 DEF Formula
  <2> QED
    BY <2>1, <2>2, <2>3 DEF Free, Ends
<1>2. b \in Int /\ c \in Int
  BY DEF Part, Formula
<1>3. b < c \/ c < b \/ b = c
  BY <1>2
<1> QED
  BY <1>1, <1>3

LEMMA FreeParts ==
  ASSUME NEW t, NEW E, NEW a \in Int, NEW b \in Int, NEW m \in a .. b,
         Depth(t, m) = Depth(t, a - 1), Free(t, E, a, b)
  PROVE  Free(t, E, a, m - 1) /\ Free(t, E, m + 1, b)
<1>1. \A op \in E : /\ Outer(t, op, a, m - 1) = Outer(t, op, a, b) \cap (a .. m - 1)
                     /\ Outer(t, op, m + 1, b) = Outer(t, op, a, b) \cap (m + 1 .. b)
  BY OuterParts
<1>2. \A op \in E : Outer(t, op, a, b) = {}
  BY DEF Free
<1> QED
  BY <1>1, <1>2 DEF Free

\* What begins with a part begins with one that has another operator less.
LEMMA PartBegins ==
  ASSUME NEW t \in Seq(PolicyTokens), NEW E, NEW a, NEW b, Part(t, E, a, b),
         NEW w \in OperatorTokens
  PROVE  \E c : Part(t, E \cup {w}, a, c)
<1>1. Formula(t, a, b) /\ Free(t, E, a, b) /\ Ends(t, E, b + 1)
  BY DEF Part
<1>2. a \in Int /\ b \in Int /\ a \in Nat
  BY <1>1 DEF Formula
<1> DEFINE O == Outer(t, w, a, b)
<1>3. CASE O = {}
  <2>1. Part(t, E \cup {w}, a, b)
    BY <1>1, <1>3 DEF Part, Free, Ends
  <2> QED
    BY <2>1
<1>4. CASE O # {}
  <2>1. O \in SUBSET Nat /\ O \in SUBSET (a .. b)
    BY <1>2 DEF Outer
  <2>2. PICK m \in O : \A x \in O : m <= x
    <3> HIDE DEF O
    <3> QED
      BY <1>4, <2>1, LeastElement
  <2>3. m \in a .. b /\ m \in Int /\ t[m] = w /\ Depth(t, m) = Depth(t, a - 1)
    BY <2>1 DEF Outer
  <2>4. Formula(t, a, m - 1)
    BY <1>1, FormulaSplits
  <2>5. Free(t, E, a, m - 1)
    BY <1>1, <1>2, <2>3, FreeParts
  <2>6. Outer(t, w, a, m - 1) = O \cap (a .. m - 1)
    BY <1>2, <2>3, OuterParts
  <2>7. Outer(t, w, a, m - 1) = {}
    <3> HIDE DEF O
    <3> QED
      BY <1>2, <2>1, <2>2, <2>3, <2>6
  <2>8. Ends(t, E \cup {w}, (m - 1) + 1)
    <3>1. (m - 1) + 1 = m
      BY <2>3
    <3> QED
      BY <2>3, <3>1 DEF Ends
  <2>9. Part(t, E \cup {w}, a, m - 1)
    BY <2>4, <2>5, <2>7, <2>8 DEF Part, Free
  <2> QED
    BY <2>9
<1> QED
  BY <1>3, <1>4

\* If the operator does not follow, that is all there is.
LEMMA PartEnds ==
  ASSUME NEW t, NEW E, NEW a, NEW b, NEW w \in OperatorTokens, Part(t, E \cup {w}, a, b),
         ~ (b + 1 \in 1 .. Len(t) /\ t[b + 1] = w)
  PROVE  Part(t, E, a, b)
<1>1. Formula(t, a, b) /\ Free(t, E \cup {w}, a, b) /\ Ends(t, E \cup {w}, b + 1)
  BY DEF Part
<1>2. Free(t, E, a, b)
  BY <1>1 DEF Free
<1>3. Ends(t, E, b + 1)
  BY <1>1 DEF Ends
<1> QED
  BY <1>1, <1>2, <1>3 DEF Part

\* If it follows, the rest begins after it.
LEMMA PartJoins ==
  ASSUME NEW t \in Seq(PolicyTokens), NEW E, NEW a, NEW p \in Int, NEW c,
         NEW w \in OperatorTokens \ E, Part(t, E \cup {w}, a, p - 1), t[p] = w, Part(t, E, p + 1, c)
  PROVE  Part(t, E, a, c) /\ p \in Outer(t, w, a, c)
<1>1. /\ Formula(t, a, p - 1) /\ Free(t, E, a, p - 1)
      /\ Formula(t, p + 1, c) /\ Free(t, E, p + 1, c) /\ Ends(t, E, c + 1)
  BY DEF Part, Free
<1>2. Formula(t, a, c) /\ a < p /\ p < c /\ Depth(t, p) = Depth(t, a - 1)
  BY <1>1, FormulaJoins
<1>3. a \in Int /\ c \in Int /\ p \in a .. c
  BY <1>2 DEF Formula
<1>4. ASSUME NEW op \in E PROVE Outer(t, op, a, c) = {}
  <2>1. /\ Outer(t, op, a, p - 1) = Outer(t, op, a, c) \cap (a .. p - 1)
        /\ Outer(t, op, p + 1, c) = Outer(t, op, a, c) \cap (p + 1 .. c)
    BY <1>2, <1>3, OuterParts
  <2>2. Outer(t, op, a, p - 1) = {} /\ Outer(t, op, p + 1, c) = {}
    BY <1>1 DEF Free
  <2>3. p \notin Outer(t, op, a, c)
    BY DEF Outer
  <2>4. \A i \in a .. c : i \in a .. p - 1 \/ i = p \/ i \in p + 1 .. c
    BY <1>3
  <2>5. Outer(t, op, a, c) \subseteq a .. c
    BY DEF Outer
  <2> QED
    BY <2>1, <2>2, <2>3, <2>4, <2>5
<1>5. p \in Outer(t, w, a, c)
  BY <1>2, <1>3 DEF Outer
<1> QED
  BY <1>1, <1>2, <1>4, <1>5 DEF Part, Free

LEMMA PartRest ==
  ASSUME NEW t \in Seq(PolicyTokens), NEW E, NEW a, NEW p \in 1 .. Len(t), NEW b,
         NEW w \in OperatorTokens \ E, Part(t, E \cup {w}, a, p - 1), t[p] = w, Part(t, E, a, b)
  PROVE  Part(t, E, p + 1, b)
<1> DEFINE d == p - 1
<1>1. /\ Formula(t, a, d) /\ Free(t, E \cup {w}, a, d)
      /\ Formula(t, a, b) /\ Free(t, E, a, b) /\ Ends(t, E, b + 1)
  BY DEF Part
<1>2. a \in Int /\ b \in Int /\ d \in Int /\ d + 1 = p /\ 1 <= a /\ b <= Len(t) /\ p \in Int
      /\ d <= Len(t) /\ Len(t) \in Nat
  BY <1>1 DEF Formula
<1> HIDE DEF d
<1>3. b # d
  <2>1. b = d => t[b + 1] = w /\ b + 1 \in 1 .. Len(t)
    BY <1>2
  <2> QED
    BY <1>1, <2>1 DEF Ends
<1>4. ~ (b < d)
  <2> SUFFICES ASSUME b < d PROVE FALSE
    OBVIOUS
  <2>1. b + 1 \in a .. d /\ t[b + 1] \in OperatorTokens /\ b + 1 \in Outer(t, t[b + 1], a, d)
    BY <1>1, FormulaGoesOn
  <2>2. b + 1 \in 1 .. Len(t)
    BY <1>2, <2>1
  <2> QED
    BY <1>1, <2>1, <2>2 DEF Free, Ends
<1>5. d < b
  BY <1>2, <1>3, <1>4
<1>6. p \in a .. b /\ p \in Outer(t, w, a, b)
  <2>1. d + 1 \in a .. b /\ t[d + 1] \in OperatorTokens /\ d + 1 \in Outer(t, t[d + 1], a, b)
    BY <1>1, <1>5, FormulaGoesOn
  <2> QED
    BY <1>2, <2>1
<1>7. Formula(t, p + 1, b) /\ Depth(t, p) = Depth(t, a - 1)
  BY <1>1, <1>6, FormulaSplits
<1>8. Free(t, E, p + 1, b)
  BY <1>1, <1>2, <1>6, <1>7, FreeParts
<1> QED
  BY <1>1, <1>7, <1>8 DEF Part

\* The operators that a list of operands may not have outside, and its own one.
OpTok(op) == IF op = "And" THEN AndTok ELSE OrTok
Excluded(op) == IF op = "And" THEN {OrTok} ELSE {}

\* Whether a list of trees is satisfied as the operator asks for.
Agreed(op, trees, attrs) ==
  IF op = "And" THEN \A i \in DOMAIN trees : IsSatisfiedBy(trees[i], attrs)
  ELSE \E i \in DOMAIN trees : IsSatisfiedBy(trees[i], attrs)

\* What has been parsed from a position on is the part that begins there and
\* says the same; if nothing has been parsed, no part begins there.
TreeRight(t, E, pos, r) ==
  /\ r.ok => /\ Part(t, E, pos, r.pos - 1)
             /\ \A attrs : IsSatisfiedBy(r.tree, attrs) <=> Holds(t, attrs, pos, r.pos - 1)
  /\ ~ r.ok => \A b : ~ Part(t, E, pos, b)
ListRight(t, op, pos, r) ==
  /\ r.ok => /\ Part(t, Excluded(op), pos, r.pos - 1)
             /\ \A attrs : Agreed(op, r.trees, attrs) <=> Holds(t, attrs, pos, r.pos - 1)
  /\ ~ r.ok => \A b : ~ Part(t, Excluded(op), pos, b)
Right(t, pos, e) ==
  /\ ListRight(t, "And", pos, e.And)
  /\ ListRight(t, "Or", pos, e.Or)
  /\ TreeRight(t, {}, pos, e.policy)
RightFrom(t, pos, f) == \A q \in pos .. Len(t) + 1 : Right(t, q, f[q])

LEMMA PeekKinds ==
  ASSUME NEW t \in Seq(PolicyTokens), NEW p
  PROVE  /\ Peek(t, p) = "LParen" <=> p \in 1 .. Len(t) /\ t[p] = LParen
         /\ Peek(t, p) = "RParen" <=> p \in 1 .. Len(t) /\ t[p] = RParen
         /\ Peek(t, p) = "And" <=> p \in 1 .. Len(t) /\ t[p] = AndTok
         /\ Peek(t, p) = "Or" <=> p \in 1 .. Len(t) /\ t[p] = OrTok
         /\ Peek(t, p) = "Attr" <=> p \in 1 .. Len(t) /\ t[p].is = "Attr"
<1>1. DOMAIN t = 1 .. Len(t)
  OBVIOUS
<1>2. CASE p \notin 1 .. Len(t)
  BY <1>1, <1>2 DEF Peek
<1>3. CASE p \in 1 .. Len(t)
  <2>1. t[p] \in PolicyTokens /\ Peek(t, p) = t[p].is
    BY <1>1, <1>3 DEF Peek
  <2> QED
    BY <1>3, <2>1, TokenKinds
<1> QED
  BY <1>2, <1>3

LEMMA OpTokIs ==
  ASSUME NEW op \in {"And", "Or"}
  PROVE  /\ OpTok(op) \in OperatorTokens /\ OpTok(op) \notin Excluded(op)
         /\ OpTok(op) = OrTok <=> op = "Or"
         /\ \A t \in Seq(PolicyTokens) : \A p :
              Peek(t, p) = op <=> p \in 1 .. Len(t) /\ t[p] = OpTok(op)
         /\ Excluded("And") \cup {OpTok("And")} = OperatorTokens
         /\ Excluded("Or") \cup {OpTok("Or")} = Excluded("And")
         /\ Excluded("Or") = {}
<1>1. AndTok # OrTok
  BY DEF AndTok, OrTok
<1>2. \A t \in Seq(PolicyTokens) : \A p :
        Peek(t, p) = op <=> p \in 1 .. Len(t) /\ t[p] = OpTok(op)
  BY PeekKinds DEF OpTok
<1> QED
  BY <1>1, <1>2 DEF OpTok, OperatorTokens, Excluded

LEMMA AgreedOne ==
  ASSUME NEW op, NEW x \in AnyTree, NEW attrs
  PROVE  Agreed(op, <<x>>, attrs) <=> IsSatisfiedBy(x, attrs)
<1>1. DOMAIN <<x>> = {1} /\ <<x>>[1] = x
  OBVIOUS
<1> DEFINE l == <<x>>
<1> HIDE DEF l
<1>2. Agreed(op, l, attrs) <=> IsSatisfiedBy(x, attrs)
  BY <1>1 DEF Agreed, l
<1> QED
  BY <1>2 DEF l

LEMMA AgreedMore ==
  ASSUME NEW op \in {"And", "Or"}, NEW x \in AnyTree, NEW l \in Seq(AnyTree), NEW attrs
  PROVE  Agreed(op, <<x>> \o l, attrs)
           <=> Combined(OpTok(op), IsSatisfiedBy(x, attrs), Agreed(op, l, attrs))
<1> DEFINE m == <<x>> \o l
<1>1. m[1] = x /\ DOMAIN m = 1 .. Len(l) + 1 /\ DOMAIN l = 1 .. Len(l) /\ Len(l) \in Nat
      /\ \A i \in 1 .. Len(l) : m[i + 1] = l[i]
  OBVIOUS
<1> HIDE DEF m
<1>2. /\ \A i \in DOMAIN l : i + 1 \in DOMAIN m
      /\ 1 \in DOMAIN m
      /\ \A i \in DOMAIN m : i = 1 \/ (i - 1 \in DOMAIN l /\ m[i] = l[i - 1])
  <2>1. \A i \in DOMAIN l : i + 1 \in DOMAIN m
    BY <1>1
  <2>2. 1 \in DOMAIN m
    BY <1>1
  <2>3. ASSUME NEW i \in DOMAIN m, i # 1 PROVE i - 1 \in DOMAIN l /\ m[i] = l[i - 1]
    <3>1. i - 1 \in 1 .. Len(l) /\ (i - 1) + 1 = i
      BY <1>1, <2>3
    <3>2. m[(i - 1) + 1] = l[i - 1]
      BY <1>1, <3>1
    <3> QED
      BY <1>1, <3>1, <3>2
  <2> QED
    BY <2>1, <2>2, <2>3
<1>3. OpTok(op) = OrTok <=> op = "Or"
  BY OpTokIs
<1>4. CASE op = "And"
  <2>1. (\A i \in DOMAIN m : IsSatisfiedBy(m[i], attrs))
          <=> IsSatisfiedBy(x, attrs) /\ \A i \in DOMAIN l : IsSatisfiedBy(l[i], attrs)
    BY <1>1, <1>2
  <2> QED
    BY <1>3, <1>4, <2>1 DEF Agreed, Combined, m
<1>5. CASE op = "Or"
  <2>1. (\E i \in DOMAIN m : IsSatisfiedBy(m[i], attrs))
          <=> IsSatisfiedBy(x, attrs) \/ \E i \in DOMAIN l : IsSatisfiedBy(l[i], attrs)
    BY <1>1, <1>2
  <2> QED
    BY <1>3, <1>5, <2>1 DEF Agreed, Combined, m
<1> QED
  BY <1>4, <1>5

LEMMA HowMany ==
  ASSUME NEW n \in Nat, NEW S \in SUBSET (1 .. n)
  PROVE  /\ Cardinality(S) >= n <=> S = 1 .. n
         /\ Cardinality(S) >= 1 <=> S # {}
<1>1. IsFiniteSet(1 .. n) /\ Cardinality(1 .. n) = n
  BY FS_Interval
<1>2. IsFiniteSet(S) /\ Cardinality(S) <= n /\ (Cardinality(S) = n => S = 1 .. n)
  BY <1>1, FS_Subset
<1>3. Cardinality(S) \in Nat /\ (Cardinality(S) = 0 <=> S = {})
  BY <1>2, FS_CardinalityType, FS_EmptySet
<1>4. S = 1 .. n => Cardinality(S) = n
  BY <1>1, Zenon
<1> DEFINE c == Cardinality(S)
<1>5. /\ c \in Nat /\ c <= n /\ (c = n <=> S = 1 .. n) /\ (c = 0 <=> S = {})
  BY <1>2, <1>3, <1>4
<1> HIDE DEF c
<1>6. (c >= n <=> S = 1 .. n) /\ (c >= 1 <=> S # {})
  <2>1. (c >= n <=> c = n) /\ (c >= 1 <=> c # 0)
    BY <1>5
  <2> QED
    BY <1>5, <2>1, Zenon
<1> QED
  BY <1>6 DEF c

\* parse_or and parse_and make of their operands a tree that says the same.
LEMMA JoinedRight ==
  ASSUME NEW t \in Seq(PolicyTokens), NEW pos, Parsable(t, pos), NEW op \in {"And", "Or"},
         NEW operands, GrownList(AnyTree, t, pos, operands), ListRight(t, op, pos, operands)
  PROVE  TreeRight(t, Excluded(op), pos, Joined(op, operands))
<1> DEFINE r == Joined(op, operands)
<1>1. CASE ~ operands.ok
  <2>1. r = operands
    BY <1>1 DEF Joined
  <2> QED
    BY <1>1, <2>1 DEF TreeRight, ListRight
<1>2. CASE operands.ok
  <2> DEFINE l == operands.trees
             tree == IF Len(l) = 1 THEN l[1] ELSE IF op = "Or" THEN Or(l) ELSE And(l)
  <2>1. l \in Seq(AnyTree) /\ Len(l) > 0
    BY <1>2 DEF GrownList
  <2>2. r = Parsed(tree, operands.pos)
    BY <1>2 DEF Joined
  <2>3. r.ok /\ r.tree = tree /\ r.pos = operands.pos
    BY <2>2 DEF Parsed
  <2>4. GrownTree(AnyTree, t, pos, r)
    BY TreesArePolicies, JoinedGrows
  <2>5. tree \in AnyTree
    BY <2>3, <2>4 DEF GrownTree
  <2> HIDE DEF l, r
  <2>6. ASSUME NEW attrs PROVE IsSatisfiedBy(tree, attrs) <=> Agreed(op, l, attrs)
    <3>1. DOMAIN l = 1 .. Len(l) /\ Len(l) \in Nat
      BY <2>1
    <3>2. CASE Len(l) = 1
      <4>1. DOMAIN l = {1} /\ tree = l[1]
        BY <3>1, <3>2
      <4> HIDE DEF tree
      <4> QED
        BY <4>1 DEF Agreed
    <3>3. CASE Len(l) # 1
      <4> DEFINE S == {i \in DOMAIN l : IsSatisfiedBy(l[i], attrs)}
                 k == IF op = "Or" THEN 1 ELSE Len(l)
      <4>1. tree = Gate(k, l)
        BY <3>3 DEF Or, And
      <4>2. IsSatisfiedBy(tree, attrs) <=> Cardinality(S) >= k
        BY <2>5, <4>1, SatisfiedGate
      <4>3. Cardinality(S) >= Len(l) <=> S = DOMAIN l
        BY <3>1, HowMany
      <4>4. Cardinality(S) >= 1 <=> S # {}
        BY <3>1, HowMany
      <4>5. S = DOMAIN l <=> \A i \in DOMAIN l : IsSatisfiedBy(l[i], attrs)
        OBVIOUS
      <4>6. S # {} <=> \E i \in DOMAIN l : IsSatisfiedBy(l[i], attrs)
        OBVIOUS
      <4> HIDE DEF S, tree
      <4> QED
        BY <4>2, <4>3, <4>4, <4>5, <4>6 DEF Agreed
    <3> QED
      BY <3>2, <3>3
  <2> HIDE DEF tree
  <2>7. /\ Part(t, Excluded(op), pos, operands.pos - 1)
        /\ \A attrs : Agreed(op, l, attrs) <=> Holds(t, attrs, pos, operands.pos - 1)
    BY <1>2 DEF ListRight, l
  <2>8. TreeRight(t, Excluded(op), pos, r)
    BY <2>3, <2>6, <2>7 DEF TreeRight
  <2> QED
    BY <2>8 DEF r
<1> QED
  BY <1>1, <1>2

\* The loop of parse_or and parse_and finds all of its operands.
LEMMA OperandsRight ==
  ASSUME NEW t \in Seq(PolicyTokens), NEW pos, Parsable(t, pos), NEW op \in {"And", "Or"},
         NEW f, GrownFrom(AnyTree, t, pos + 1, f), RightFrom(t, pos + 1, f),
         NEW operand, GrownTree(AnyTree, t, pos, operand),
         TreeRight(t, Excluded(op) \cup {OpTok(op)}, pos, operand)
  PROVE  ListRight(t, op, pos, Operands(t, op, operand, f))
<1> DEFINE r == Operands(t, op, operand, f)
           w == OpTok(op)
           E == Excluded(op)
           x == operand.tree
           p == operand.pos
<1>1. /\ w \in OperatorTokens \ E
      /\ \A q : Peek(t, q) = op <=> q \in 1 .. Len(t) /\ t[q] = w
      /\ w = OrTok <=> op = "Or"
      /\ AndTok # OrTok
  BY OpTokIs DEF AndTok, OrTok
<1>2. CASE ~ operand.ok
  <2>1. r = operand
    BY <1>2 DEF Operands
  <2>2. ASSUME NEW b, Part(t, E, pos, b) PROVE FALSE
    <3>1. \E c : Part(t, E \cup {w}, pos, c)
      BY <1>1, <2>2, PartBegins
    <3> QED
      BY <1>2, <3>1 DEF TreeRight
  <2> QED
    BY <1>2, <2>1, <2>2 DEF ListRight
<1> SUFFICES ASSUME operand.ok PROVE ListRight(t, op, pos, r)
  BY <1>2
<1>3. /\ x \in AnyTree /\ p \in Nat /\ pos < p /\ p <= Len(t) + 1
      /\ pos \in 1 .. Len(t) + 1 /\ Len(t) \in Nat
  BY DEF GrownTree, Parsable
<1>4. /\ Part(t, E \cup {w}, pos, p - 1)
      /\ \A attrs : IsSatisfiedBy(x, attrs) <=> Holds(t, attrs, pos, p - 1)
  BY DEF TreeRight
<1>5. CASE ~ (p \in 1 .. Len(t) /\ t[p] = w)
  <2>1. r = [ok |-> TRUE, trees |-> <<x>>, pos |-> p]
    BY <1>1, <1>5 DEF Operands, Continues
  <2>2. (p - 1) + 1 = p
    BY <1>3
  <2>3. Part(t, E, pos, p - 1)
    BY <1>1, <1>4, <1>5, <2>2, PartEnds
  <2>4. r.ok /\ r.pos = p /\ r.trees = <<x>>
    BY <2>1
  <2>5. \A attrs : Agreed(op, <<x>>, attrs) <=> IsSatisfiedBy(x, attrs)
    BY <1>3, AgreedOne
  <2> HIDE DEF r
  <2>6. \A attrs : Agreed(op, r.trees, attrs) <=> Holds(t, attrs, pos, p - 1)
    BY <1>4, <2>4, <2>5
  <2>7. ListRight(t, op, pos, r)
    BY <2>3, <2>4, <2>6 DEF ListRight
  <2> QED
    BY <2>7
<1>6. CASE p \in 1 .. Len(t) /\ t[p] = w
  <2> DEFINE others == f[p + 1][op]
             l == others.trees
             c == others.pos - 1
  <2>1. p + 1 \in pos + 1 .. Len(t) + 1
    BY <1>3, <1>6
  <2>2. /\ GrownList(AnyTree, t, p + 1, others)
        /\ ListRight(t, op, p + 1, others)
    <3>1. Grown(AnyTree, t, p + 1, f[p + 1]) /\ Right(t, p + 1, f[p + 1])
      BY <2>1 DEF GrownFrom, RightFrom
    <3> QED
      BY <3>1 DEF Grown, Right
  <2>3. r = IF ~ others.ok THEN others ELSE [others EXCEPT !.trees = <<x>> \o @]
    BY <1>1, <1>6 DEF Operands, Continues
  <2> HIDE DEF others, r
  <2>4. CASE ~ others.ok
    <3>1. r = others
      BY <2>3, <2>4
    <3>2. ASSUME NEW b, Part(t, E, pos, b) PROVE FALSE
      <4>1. Part(t, E, p + 1, b)
        BY <1>1, <1>4, <1>6, <3>2, PartRest
      <4> QED
        BY <2>2, <2>4, <4>1 DEF ListRight
    <3> QED
      BY <2>4, <3>1, <3>2 DEF ListRight
  <2>5. CASE others.ok
    <3>1. others \in [ok : {TRUE}, trees : Seq(AnyTree), pos : Nat]
      BY <2>2, <2>5 DEF GrownList
    <3>2. r.ok /\ r.pos = others.pos /\ r.trees = <<x>> \o l /\ l \in Seq(AnyTree)
      BY <2>3, <2>5, <3>1
    <3>3. /\ Part(t, E, p + 1, c)
          /\ \A attrs : Agreed(op, l, attrs) <=> Holds(t, attrs, p + 1, c)
      BY <2>2, <2>5 DEF ListRight
    <3> HIDE DEF l, c
    <3>4. Part(t, E, pos, c) /\ p \in Outer(t, w, pos, c)
      <4>1. p \in Int /\ w \in OperatorTokens \ E /\ t[p] = w
        BY <1>1, <1>3, <1>6
      <4>2. Part(t, E \cup {w}, pos, p - 1) /\ Part(t, E, p + 1, c)
        BY <1>4, <3>3
      <4> HIDE DEF p, w, E
      <4> QED
        BY <4>1, <4>2, PartJoins
    <3>5. pos \in 1 .. Len(t) /\ c \in pos .. Len(t) /\ Free(t, E, pos, c)
      BY <3>4 DEF Part, Formula
    <3>6. SplitsFirst(t, w, pos, c)
      <4>1. w = AndTok => OrTok \in E
        BY <1>1 DEF Excluded
      <4> QED
        BY <1>1, <3>5, <4>1 DEF SplitsFirst, Free
    <3>7. ASSUME NEW attrs
          PROVE  Agreed(op, r.trees, attrs) <=> Holds(t, attrs, pos, c)
      <4>1. Agreed(op, r.trees, attrs)
              <=> Combined(w, IsSatisfiedBy(x, attrs), Agreed(op, l, attrs))
        BY <1>3, <3>2, AgreedMore
      <4>2. Holds(t, attrs, pos, c)
              <=> Combined(w, Holds(t, attrs, pos, p - 1), Holds(t, attrs, p + 1, c))
        BY <3>4, <3>5, <3>6, HoldsSplits
      <4>3. /\ IsSatisfiedBy(x, attrs) <=> Holds(t, attrs, pos, p - 1)
            /\ Agreed(op, l, attrs) <=> Holds(t, attrs, p + 1, c)
        BY <1>4, <3>3
      <4> QED
        BY <4>1, <4>2, <4>3 DEF Combined
    <3>8. ListRight(t, op, pos, r)
      BY <3>2, <3>4, <3>7 DEF ListRight, c
    <3> QED
      BY <3>8
  <2> QED
    BY <2>4, <2>5 DEF r
<1> QED
  BY <1>5, <1>6

\* parse_atom finds an attribute or a formula in parentheses.
LEMMA AtomRight ==
  ASSUME NEW t \in Seq(PolicyTokens), NEW pos, Parsable(t, pos),
         NEW f, GrownFrom(AnyTree, t, pos + 1, f), RightFrom(t, pos + 1, f)
  PROVE  TreeRight(t, OperatorTokens, pos, ParseAtom(t, pos, f))
<1> DEFINE r == ParseAtom(t, pos, f)
<1>1. pos \in Nat /\ 1 <= pos /\ pos <= Len(t) + 1 /\ Len(t) \in Nat
  BY DEF Parsable
<1>2. CASE Peek(t, pos) = "Attr"
  <2> DEFINE w == t[pos].word
             leaf == Leaf(Normalize(w))
  <2>1. pos \in 1 .. Len(t) /\ t[pos].is = "Attr" /\ IsWord(w)
    BY <1>2, PeekKinds, PeekIs
  <2>2. r = Parsed(leaf, pos + 1)
    BY <1>2 DEF ParseAtom
  <2>3. r.ok /\ r.tree = leaf /\ r.pos - 1 = pos
    BY <1>1, <2>2 DEF Parsed
  <2>4. Formula(t, pos, pos) /\ Free(t, OperatorTokens, pos, pos) /\ Solid(t, pos, pos)
    BY <2>1, FormulaOfWord DEF Free, Solid
  <2>5. Part(t, OperatorTokens, pos, pos)
    BY <2>4 DEF Part, Ends
  <2>6. ASSUME NEW attrs PROVE IsSatisfiedBy(leaf, attrs) <=> Holds(t, attrs, pos, pos)
    <3>1. Normalize(w) \in Name
      BY <2>1, NormalizeType, TextAssumption DEF IsWord
    <3>2. t[pos] # LParen
      BY <2>1 DEF LParen
    <3>3. pos \in pos .. Len(t)
      BY <2>1
    <3>4. Holds(t, attrs, pos, pos) <=> Normalize(w) \in attrs
      BY <2>1, <2>4, <3>2, <3>3, HoldsSteps
    <3> QED
      BY <3>1, <3>4, SatisfiedLeaf
  <2> HIDE DEF r, leaf
  <2>7. TreeRight(t, OperatorTokens, pos, r)
    BY <2>3, <2>5, <2>6 DEF TreeRight
  <2> QED
    BY <2>7 DEF r
<1>3. CASE Peek(t, pos) = "LParen"
  <2> DEFINE inner == f[pos + 1].policy
             q == inner.pos
  <2>1. pos \in 1 .. Len(t) /\ t[pos] = LParen /\ pos + 1 \in pos + 1 .. Len(t) + 1
    BY <1>1, <1>3, PeekKinds
  <2>2. GrownTree(AnyTree, t, pos + 1, inner) /\ TreeRight(t, {}, pos + 1, inner)
    <3>1. Grown(AnyTree, t, pos + 1, f[pos + 1]) /\ Right(t, pos + 1, f[pos + 1])
      BY <2>1 DEF GrownFrom, RightFrom
    <3> QED
      BY <3>1 DEF Grown, Right
  <2>3. r = IF ~ inner.ok THEN inner
            ELSE IF Peek(t, q) # "RParen" THEN Failed("Unbalanced")
            ELSE Parsed(inner.tree, q + 1)
    BY <1>3 DEF ParseAtom
  <2> HIDE DEF inner, r
  <2>4. ASSUME NEW b, Part(t, OperatorTokens, pos, b)
        PROVE  b \in 1 .. Len(t) /\ t[b] = RParen /\ Part(t, {}, pos + 1, b - 1)
    <3>1. Formula(t, pos, b) /\ Solid(t, pos, b)
      BY <2>4 DEF Part, Free, Solid
    <3>2. t[b] = RParen /\ Formula(t, pos + 1, b - 1)
      BY <2>1, <3>1, SolidParentheses
    <3>3. b \in 1 .. Len(t) /\ b \in Int
      BY <1>1, <3>1 DEF Formula
    <3>4. t[b] \notin OperatorTokens
      <4>1. RParen \in PolicyTokens
        BY DEF PolicyTokens
      <4> QED
        BY <3>2, <4>1, TokenRoles
    <3>5. Ends(t, {}, (b - 1) + 1)
      <4>1. (b - 1) + 1 = b
        BY <3>3
      <4> QED
        BY <3>4, <4>1 DEF Ends
    <3> QED
      BY <3>2, <3>3, <3>5 DEF Part, Free
  <2>5. CASE ~ inner.ok
    <3>1. \A b : ~ Part(t, {}, pos + 1, b)
      BY <2>2, <2>5 DEF TreeRight
    <3>2. r = inner
      BY <2>3, <2>5
    <3>3. TreeRight(t, OperatorTokens, pos, r)
      BY <2>4, <2>5, <3>1, <3>2 DEF TreeRight
    <3> QED
      BY <3>3 DEF r
  <2>6. CASE inner.ok
    <3>1. /\ Part(t, {}, pos + 1, q - 1) /\ q \in Nat
          /\ \A attrs : IsSatisfiedBy(inner.tree, attrs) <=> Holds(t, attrs, pos + 1, q - 1)
      BY <2>2, <2>6 DEF TreeRight, GrownTree
    <3>2. CASE Peek(t, q) # "RParen"
      <4>1. r = Failed("Unbalanced")
        BY <2>3, <2>6, <3>2
      <4>2. ~ r.ok
        BY <4>1 DEF Failed
      <4>3. ASSUME NEW b, Part(t, OperatorTokens, pos, b) PROVE FALSE
        <5>1. b \in 1 .. Len(t) /\ t[b] = RParen /\ b - 1 = q - 1
          BY <2>4, <3>1, <4>3, OnePart
        <5>2. b = q
          BY <3>1, <5>1
        <5> QED
          BY <3>2, <5>1, <5>2, PeekKinds
      <4>4. TreeRight(t, OperatorTokens, pos, r)
        BY <4>2, <4>3 DEF TreeRight
      <4> QED
        BY <4>4 DEF r
    <3>3. CASE Peek(t, q) = "RParen"
      <4>1. r = Parsed(inner.tree, q + 1)
        BY <2>3, <2>6, <3>3
      <4>2. r.ok /\ r.tree = inner.tree /\ r.pos - 1 = q
        BY <3>1, <4>1 DEF Parsed
      <4>3. q \in 1 .. Len(t) /\ t[q] = RParen
        BY <3>3, PeekKinds
      <4>4. Formula(t, pos, q) /\ Solid(t, pos, q)
        BY <2>1, <3>1, <4>3, FormulaEncloses DEF Part, Solid
      <4>5. Part(t, OperatorTokens, pos, q)
        BY <4>4 DEF Part, Free, Solid, Ends
      <4>6. ASSUME NEW attrs PROVE Holds(t, attrs, pos, q) <=> Holds(t, attrs, pos + 1, q - 1)
        <5>1. q \in pos .. Len(t)
          BY <4>4 DEF Formula
        <5> QED
          BY <2>1, <4>4, <5>1, HoldsSteps
      <4>7. TreeRight(t, OperatorTokens, pos, r)
        BY <3>1, <4>2, <4>5, <4>6 DEF TreeRight
      <4> QED
        BY <4>7 DEF r
    <3> QED
      BY <3>2, <3>3
  <2> QED
    BY <2>5, <2>6
<1>4. CASE Peek(t, pos) # "Attr" /\ Peek(t, pos) # "LParen"
  <2>1. \E e : r = Failed(e)
    BY <1>4 DEF ParseAtom
  <2>2. ~ r.ok
    BY <2>1 DEF Failed
  <2>3. ASSUME NEW b, Formula(t, pos, b) PROVE FALSE
    <3>1. pos \in 1 .. Len(t) /\ Starter(t[pos])
      BY <2>3 DEF Formula
    <3> QED
      BY <1>4, <3>1, PeekKinds DEF Starter
  <2> HIDE DEF r
  <2>4. TreeRight(t, OperatorTokens, pos, r)
    BY <2>2, <2>3 DEF TreeRight, Part
  <2> QED
    BY <2>4 DEF r
<1> QED
  BY <1>2, <1>3, <1>4

LEMMA EntryRight ==
  ASSUME NEW t \in Seq(PolicyTokens), NEW pos, Parsable(t, pos),
         NEW f, GrownFrom(AnyTree, t, pos + 1, f), RightFrom(t, pos + 1, f)
  PROVE  Right(t, pos, Entry(t, pos, f))
<1> DEFINE atom == ParseAtom(t, pos, f)
           conjuncts == Operands(t, "And", atom, f)
           conjunction == Joined("And", conjuncts)
           disjuncts == Operands(t, "Or", conjunction, f)
           policy == Joined("Or", disjuncts)
<1> USE TreesArePolicies
<1>1. /\ Excluded("And") \cup {OpTok("And")} = OperatorTokens
      /\ Excluded("Or") \cup {OpTok("Or")} = Excluded("And")
      /\ Excluded("Or") = {}
  BY OpTokIs
<1>2. GrownTree(AnyTree, t, pos, atom) /\ TreeRight(t, OperatorTokens, pos, atom)
  BY AtomGrows, AtomRight
<1> HIDE DEF atom
<1>3. GrownList(AnyTree, t, pos, conjuncts) /\ ListRight(t, "And", pos, conjuncts)
  <2>1. GrownList(AnyTree, t, pos, conjuncts)
    BY <1>2, OperandsGrow
  <2>2. TreeRight(t, Excluded("And") \cup {OpTok("And")}, pos, atom)
    BY <1>1, <1>2
  <2>3. ListRight(t, "And", pos, conjuncts)
    BY <1>2, <2>2, OperandsRight
  <2> QED
    BY <2>1, <2>3
<1> HIDE DEF conjuncts
<1>4. GrownTree(AnyTree, t, pos, conjunction) /\ TreeRight(t, Excluded("And"), pos, conjunction)
  BY <1>3, JoinedGrows, JoinedRight
<1> HIDE DEF conjunction
<1>5. GrownList(AnyTree, t, pos, disjuncts) /\ ListRight(t, "Or", pos, disjuncts)
  <2>1. GrownList(AnyTree, t, pos, disjuncts)
    BY <1>4, OperandsGrow
  <2>2. TreeRight(t, Excluded("Or") \cup {OpTok("Or")}, pos, conjunction)
    BY <1>1, <1>4
  <2>3. ListRight(t, "Or", pos, disjuncts)
    BY <1>4, <2>2, OperandsRight
  <2> QED
    BY <2>1, <2>3
<1> HIDE DEF disjuncts
<1>6. TreeRight(t, {}, pos, policy)
  BY <1>1, <1>5, JoinedRight
<1>7. Entry(t, pos, f) = [And |-> conjuncts, Or |-> disjuncts, policy |-> policy]
  BY DEF Entry, policy, disjuncts, conjunction, conjuncts, atom
<1> HIDE DEF policy
<1>8. Right(t, pos, [And |-> conjuncts, Or |-> disjuncts, policy |-> policy])
  BY <1>3, <1>5, <1>6 DEF Right
<1> QED
  BY <1>7, <1>8

LEMMA ParserRight ==
  ASSUME NEW t \in Seq(PolicyTokens), Len(t) <= MaxDepth
  PROVE  RightFrom(t, 1, Parser(t))
<1> DEFINE n == Len(t)
           f == Parser(t)
           M == {m \in Nat : m <= n + 1 => RightFrom(t, n + 2 - m, f)}
<1>1. n \in Nat
  OBVIOUS
<1>2. \A pos \in 1 .. n + 1 : f[pos] = Entry(t, pos, f)
  BY ParserParses
<1>3. GrownFrom(AnyTree, t, 1, f)
  BY ParserGrows, TreesArePolicies
<1> HIDE DEF f
<1>4. 0 \in M
  <2>1. n + 2 .. n + 1 = {} /\ n + 2 - 0 = n + 2
    BY <1>1
  <2>2. RightFrom(t, n + 2, f)
    BY <2>1 DEF RightFrom
  <2> QED
    BY <2>1, <2>2
<1>5. ASSUME NEW m \in M PROVE m + 1 \in M
  <2> SUFFICES ASSUME m + 1 <= n + 1 PROVE RightFrom(t, n + 2 - (m + 1), f)
    OBVIOUS
  <2> DEFINE pos == n + 2 - (m + 1)
  <2>1. m \in Nat /\ m <= n + 1 /\ pos \in 1 .. n + 1 /\ pos + 1 = n + 2 - m
    BY <1>1
  <2>2. RightFrom(t, pos + 1, f)
    <3>1. RightFrom(t, n + 2 - m, f)
      BY <2>1
    <3> HIDE DEF pos
    <3> QED
      BY <2>1, <3>1
  <2> HIDE DEF pos, M
  <2>3. Parsable(t, pos)
    BY <2>1 DEF Parsable
  <2>4. GrownFrom(AnyTree, t, pos + 1, f)
    <3>1. \A q \in pos + 1 .. n + 1 : q \in 1 .. n + 1
      BY <2>1
    <3> QED
      BY <1>3, <3>1 DEF GrownFrom
  <2>5. Right(t, pos, f[pos])
    BY <1>2, <2>1, <2>2, <2>3, <2>4, EntryRight
  <2>6. \A q \in pos .. n + 1 : q = pos \/ q \in pos + 1 .. n + 1
    BY <1>1, <2>1
  <2>7. RightFrom(t, pos, f)
    BY <2>2, <2>5, <2>6 DEF RightFrom
  <2> QED
    BY <2>7 DEF pos
<1>6. M = Nat
  <2> HIDE DEF M
  <2>1. M \in SUBSET Nat
    BY DEF M
  <2> QED
    BY <1>4, <1>5, <2>1, InductionInSet
<1>7. n + 1 \in M /\ n + 1 <= n + 1 /\ n + 2 - (n + 1) = 1
  BY <1>1, <1>6
<1> HIDE DEF n
<1>8. RightFrom(t, 1, f)
  BY <1>7
<1> QED
  BY <1>8 DEF f

\* parse_policy accepts the texts of well-formed policies, and returns a tree
\* that says the same.
LEMMA ParseRight ==
  ASSUME NEW text, NEW t \in Seq(PolicyTokens), Tokenize(text) = t, Len(t) <= MaxDepth
  PROVE  /\ Parse(text).ok <=> WellFormed(t)
         /\ Parse(text).ok =>
              \A attrs : IsSatisfiedBy(Parse(text).tree, attrs) <=> Means(t, attrs)
<1> DEFINE n == Len(t)
           policy == Parser(t)[1].policy
           result == Parse(text)
<1>1. n \in Nat
  OBVIOUS
<1>2. result = IF policy.ok /\ policy.pos <= n THEN Failed("UnexpectedToken") ELSE policy
  BY DEF Parse
<1>3. TreeRight(t, {}, 1, policy) /\ GrownTree(AnyTree, t, 1, policy)
  <2>1. 1 \in 1 .. Len(t) + 1
    BY <1>1
  <2>2. RightFrom(t, 1, Parser(t)) /\ GrownFrom(AnyTree, t, 1, Parser(t))
    BY ParserRight, ParserGrows, TreesArePolicies
  <2> QED
    BY <2>1, <2>2 DEF RightFrom, Right, GrownFrom, Grown
<1>4. WellFormed(t) <=> Part(t, {}, 1, n)
  <2>1. ~ (n + 1 \in 1 .. n)
    BY <1>1
  <2> QED
    BY <2>1, WellFormedIs DEF Part, Free, Ends
<1>5. ~ Failed("UnexpectedToken").ok
  BY DEF Failed
<1> HIDE DEF policy, result
<1>6. CASE policy.ok
  <2>1. /\ Part(t, {}, 1, policy.pos - 1) /\ policy.pos \in Nat /\ policy.pos <= n + 1
        /\ \A attrs : IsSatisfiedBy(policy.tree, attrs) <=> Holds(t, attrs, 1, policy.pos - 1)
    BY <1>3, <1>6 DEF TreeRight, GrownTree
  <2>2. CASE policy.pos <= n
    <3>1. policy.pos - 1 # n
      BY <1>1, <2>1, <2>2
    <3>2. ~ Part(t, {}, 1, n)
      BY <2>1, <3>1, OnePart
    <3>3. ~ result.ok
      BY <1>2, <1>5, <1>6, <2>2
    <3> QED
      BY <1>4, <3>2, <3>3 DEF result
  <2>3. CASE ~ (policy.pos <= n)
    <3>1. policy.pos - 1 = n /\ result = policy
      BY <1>1, <1>2, <2>1, <2>3
    <3>2. \A attrs : Means(t, attrs) = Holds(t, attrs, 1, n)
      BY MeansIs
    <3>3. WellFormed(t)
      BY <1>4, <2>1, <3>1
    <3>4. \A attrs : IsSatisfiedBy(result.tree, attrs) <=> Means(t, attrs)
      BY <2>1, <3>1, <3>2
    <3>5. result.ok
      BY <1>6, <3>1
    <3> QED
      BY <3>3, <3>4, <3>5 DEF result
  <2> QED
    BY <2>2, <2>3
<1>7. CASE ~ policy.ok
  <2>1. ~ Part(t, {}, 1, n)
    BY <1>3, <1>7 DEF TreeRight
  <2>2. ~ result.ok
    BY <1>2, <1>7
  <2> QED
    BY <1>4, <2>1, <2>2 DEF result
<1> QED
  BY <1>6, <1>7

-----------------------------------------------------------------------------
(* The tokens of a policy that was typed word by word.                     *)

Blank == " "
Parens == {"(", ")"}

LEMMA WordKinds ==
  ASSUME NEW w \in Words
  PROVE  w \in Parens \/ w \notin Breaks
<1>1. CASE w \in Keyword
  <2>1. w \in {"AND", "and", "OR", "or"}
    BY <1>1, TextAssumption
  <2> QED
    BY <2>1, Zenon DEF Breaks
<1>2. CASE w \in ToSet(Attributes)
  BY <1>2, TextAssumption DEF Breaks
<1>3. CASE w \in {"(", ")"}
  BY <1>3 DEF Parens
<1> QED
  BY <1>1, <1>2, <1>3 DEF Words, Operators

LEMMA TokenOfWord ==
  ASSUME NEW w \in Words
  PROVE  /\ w \in Piece
         /\ TokenOf(w) \in PolicyTokens
         /\ w \notin Parens => TokenOf(w) = Token(<<w>>)
         /\ w \in Parens => \A st : Take(st, w) = [Flush(st) EXCEPT !.tokens = Append(@, TokenOf(w))]
         /\ w \notin Parens => \A st : Take(st, w) = [st EXCEPT !.current = Append(@, w)]
<1>1. w \in Piece
  BY TextAssumption
<1>2. w \notin Parens => TokenOf(w) = Token(<<w>>)
  BY Zenon DEF TokenOf, Parens
<1>3. w \in Parens => TokenOf(w) \in {LParen, RParen}
  BY Zenon DEF TokenOf, Parens
<1>4. LParen \in PolicyTokens /\ RParen \in PolicyTokens
  BY DEF PolicyTokens
<1>5. w \notin Parens => Token(<<w>>) \in PolicyTokens
  <2> SUFFICES ASSUME w \notin Breaks PROVE Token(<<w>>) \in PolicyTokens
    BY WordKinds
  <2> DEFINE v == <<w>>
  <2>1. v \in Seq(Piece) /\ Len(v) = 1 /\ v[1] = w
    BY <1>1
  <2> HIDE DEF v
  <2>2. v # << >>
    BY <2>1
  <2>3. \A i \in 1 .. Len(v) : v[i] \notin Breaks
    BY <2>1
  <2>4. IsWord(v)
    BY <2>1, <2>2, <2>3 DEF IsWord, Texts
  <2> QED
    BY <2>4, WordToken DEF v
<1>6. w \in Parens => \A st : Take(st, w) = [Flush(st) EXCEPT !.tokens = Append(@, TokenOf(w))]
  BY Zenon DEF Take, TokenOf, Parens
<1>7. w \notin Breaks => \A st : Take(st, w) = [st EXCEPT !.current = Append(@, w)]
  BY Zenon DEF Take, Breaks
<1> QED
  BY <1>1, <1>2, <1>3, <1>4, <1>5, <1>6, <1>7, WordKinds, Zenon

\* A state of the tokenizer in which it will have found the tokens T.
Holding(st, T) == /\ Flush(st) = [current |-> << >>, tokens |-> T]
                  /\ st.current = << >> => st = [current |-> << >>, tokens |-> T]

LEMMA BlankTaken ==
  ASSUME NEW st, NEW T, Holding(st, T)
  PROVE  Holding(Take(st, Blank), T) /\ Take(st, Blank).current = << >>
<1>1. Take(st, Blank) = Flush(st)
  BY Zenon DEF Take, Blank
<1> DEFINE x == [current |-> << >>, tokens |-> T]
<1>2. Take(st, Blank) = x /\ x.current = << >>
  BY <1>1 DEF Holding
<1>3. Flush(x) = x
  BY <1>2 DEF Flush
<1> QED
  BY <1>2, <1>3 DEF Holding

LEMMA AppendedToken ==
  ASSUME NEW c, NEW T, NEW u
  PROVE  [[current |-> c, tokens |-> T] EXCEPT !.tokens = Append(@, u)]
           = [current |-> c, tokens |-> Append(T, u)]
<1> DEFINE a == Append(T, u)
<1>1. [[current |-> c, tokens |-> T] EXCEPT !.tokens = Append(@, u)]
        = [[current |-> c, tokens |-> T] EXCEPT !.tokens = a]
  OBVIOUS
<1> HIDE DEF a
<1>2. [[current |-> c, tokens |-> T] EXCEPT !.tokens = a] = [current |-> c, tokens |-> a]
  OBVIOUS
<1> QED
  BY <1>1, <1>2 DEF a

LEMMA WordTaken ==
  ASSUME NEW st, NEW T \in Seq(PolicyTokens), Holding(st, T), NEW w \in Words,
         st.current = << >> \/ w \in Parens
  PROVE  /\ Holding(Take(st, w), Append(T, TokenOf(w)))
         /\ w \in Parens => Take(st, w).current = << >>
<1> DEFINE u == TokenOf(w)
           x == [current |-> << >>, tokens |-> T]
<1>1. CASE w \in Parens
  <2> DEFINE y == [current |-> << >>, tokens |-> Append(T, u)]
  <2>1. Take(st, w) = [Flush(st) EXCEPT !.tokens = Append(@, u)] /\ Flush(st) = x
    BY <1>1, TokenOfWord DEF Holding
  <2>0. u \in PolicyTokens
    BY TokenOfWord
  <2> HIDE DEF u
  <2>2. Take(st, w) = y /\ y.current = << >>
    <3>1. Take(st, w) = [x EXCEPT !.tokens = Append(@, u)]
      BY <2>1, Zenon
    <3>2. [x EXCEPT !.tokens = Append(@, u)] = y
      BY AppendedToken
    <3>3. y.current = << >>
      OBVIOUS
    <3> HIDE DEF x, y
    <3> QED
      BY <3>1, <3>2, <3>3, Zenon
  <2>3. Flush(y) = y
    BY <2>2 DEF Flush
  <2>4. Holding(y, Append(T, u))
    BY <2>3 DEF Holding
  <2> HIDE DEF y
  <2> QED
    BY <2>2, <2>4 DEF u
<1>2. CASE w \notin Parens
  <2> DEFINE y == [current |-> <<w>>, tokens |-> T]
  <2>1. st = x /\ Take(st, w) = [st EXCEPT !.current = Append(@, w)] /\ u = Token(<<w>>)
    BY <1>2, TokenOfWord DEF Holding
  <2>2. Append(<< >>, w) = <<w>>
    OBVIOUS
  <2>3. Take(st, w) = y
    BY <2>1, <2>2
  <2>4. y.current = <<w>> /\ <<w>> # << >> /\ y.tokens = T
    OBVIOUS
  <2> HIDE DEF y, u
  <2>5. Flush(y) = [current |-> << >>, tokens |-> Append(T, u)]
    BY <2>1, <2>4 DEF Flush
  <2>6. Holding(y, Append(T, u))
    BY <2>4, <2>5 DEF Holding
  <2> QED
    BY <1>2, <2>3, <2>6 DEF u
<1> QED
  BY <1>1, <1>2

\* The state at the end of a text.
ScanEnd(text) == (CHOOSE g : Scans(text, Len(text), g))[Len(text)]

LEMMA ScanEnds ==
  ASSUME NEW text \in Seq(Piece)
  PROVE  /\ \E g : Scans(text, Len(text), g) /\ ScanEnd(text) = g[Len(text)]
         /\ Tokenize(text) = Flush(ScanEnd(text)).tokens
<1> DEFINE g == CHOOSE g : Scans(text, Len(text), g)
<1>1. Len(text) \in Nat
  OBVIOUS
<1>2. Scans(text, Len(text), g)
  BY <1>1, ScansExist
<1>3. ScanEnd(text) = g[Len(text)]
  BY DEF ScanEnd
<1>4. Tokenize(text) = Flush(g[Len(text)]).tokens
  BY DEF Tokenize, Scans, Start
<1> QED
  BY <1>2, <1>3, <1>4

\* What texts have in common they are scanned alike.
LEMMA ScansAlike ==
  ASSUME NEW x, NEW y, NEW n \in Nat, NEW m \in Nat, n <= m,
         \A i \in 1 .. n : x[i] = y[i],
         NEW g, Scans(x, n, g), NEW h, Scans(y, m, h)
  PROVE  g[n] = h[n]
<1> DEFINE S == {i \in Nat : i <= n => g[i] = h[i]}
<1>1. \A i \in 0 .. n : g[i] = IF i = 0 THEN Start ELSE Take(g[i - 1], x[i])
  BY DEF Scans
<1>2. \A i \in 0 .. m : h[i] = IF i = 0 THEN Start ELSE Take(h[i - 1], y[i])
  BY DEF Scans
<1>3. 0 \in S
  BY <1>1, <1>2
<1>4. ASSUME NEW i \in S PROVE i + 1 \in S
  <2> SUFFICES ASSUME i + 1 <= n PROVE g[i + 1] = h[i + 1]
    OBVIOUS
  <2>1. i \in Nat /\ i + 1 \in 0 .. n /\ i + 1 \in 0 .. m /\ i + 1 \in 1 .. n /\ i + 1 # 0
        /\ (i + 1) - 1 = i
    OBVIOUS
  <2>2. g[i] = h[i]
    BY <2>1
  <2>3. g[i + 1] = Take(g[i], x[i + 1]) /\ h[i + 1] = Take(h[i], y[i + 1])
    BY <1>1, <1>2, <2>1
  <2> QED
    BY <2>1, <2>2, <2>3
<1>5. S = Nat
  <2> HIDE DEF S
  <2>1. S \in SUBSET Nat
    BY DEF S
  <2> QED
    BY <1>3, <1>4, <2>1, InductionInSet
<1>6. n \in S
  BY <1>5
<1> QED
  BY <1>6

LEMMA ScanMore ==
  ASSUME NEW x \in Seq(Piece), NEW p \in Piece
  PROVE  ScanEnd(x \o <<p>>) = Take(ScanEnd(x), p)
<1> DEFINE n == Len(x)
           y == x \o <<p>>
<1>1. /\ n \in Nat /\ y \in Seq(Piece) /\ Len(y) = n + 1 /\ y[n + 1] = p
      /\ \A i \in 1 .. n : x[i] = y[i]
  OBVIOUS
<1> HIDE DEF y
<1>2. PICK g : Scans(x, n, g) /\ ScanEnd(x) = g[n]
  BY ScanEnds
<1>3. PICK h : Scans(y, Len(y), h) /\ ScanEnd(y) = h[Len(y)]
  BY <1>1, ScanEnds
<1>4. Scans(y, n + 1, h) /\ ScanEnd(y) = h[n + 1]
  BY <1>1, <1>3
<1>5. g[n] = h[n]
  <2>1. n + 1 \in Nat /\ n <= n + 1
    BY <1>1
  <2> HIDE DEF n
  <2> QED
    BY <1>1, <1>2, <1>4, <2>1, ScansAlike
<1>6. n + 1 \in 0 .. n + 1 /\ n + 1 # 0 /\ (n + 1) - 1 = n
  BY <1>1
<1>7. h[n + 1] = Take(h[n], y[n + 1])
  <2>1. \A i \in 0 .. n + 1 : h[i] = IF i = 0 THEN Start ELSE Take(h[i - 1], y[i])
    BY <1>4 DEF Scans
  <2> HIDE DEF n
  <2> QED
    BY <1>6, <2>1
<1> QED
  BY <1>1, <1>2, <1>4, <1>5, <1>7 DEF y

LEMMA ScanNone == ScanEnd(<< >>) = Start
<1> DEFINE e == << >>
<1>1. e \in Seq(Piece) /\ Len(e) = 0
  OBVIOUS
<1> HIDE DEF e
<1>2. PICK g : Scans(e, Len(e), g) /\ ScanEnd(e) = g[Len(e)]
  BY <1>1, ScanEnds
<1>3. Scans(e, 0, g) /\ ScanEnd(e) = g[0]
  BY <1>1, <1>2
<1>4. g[0] = Start
  BY <1>3 DEF Scans
<1> QED
  BY <1>3, <1>4 DEF e

LEMMA BlankIsNoWord == Blank \in Piece /\ Blank \notin Words
<1>1. Blank \in Piece
  BY TextAssumption, Zenon DEF Blank
<1>2. Blank \in Breaks /\ Blank \notin Parens
  BY Zenon DEF Blank, Breaks, Parens
<1> QED
  BY <1>1, <1>2, WordKinds

\* A word at the end of a text, with and without white space.
LEMMA WordScanned ==
  ASSUME NEW x \in Seq(Piece), NEW T \in Seq(PolicyTokens), Holding(ScanEnd(x), T),
         NEW w \in Words, NEW U, U = Append(T, TokenOf(w))
  PROVE  /\ ScanEnd(x).current = << >> \/ w \in Parens =>
              /\ Holding(ScanEnd(x \o <<w>>), U)
              /\ w \in Parens => ScanEnd(x \o <<w>>).current = << >>
              /\ Holding(ScanEnd(x \o <<w, Blank>>), U)
              /\ ScanEnd(x \o <<w, Blank>>).current = << >>
         /\ Holding(ScanEnd(x \o <<Blank, w>>), U)
         /\ w \in Parens => ScanEnd(x \o <<Blank, w>>).current = << >>
<1>1. w \in Piece /\ Blank \in Piece
  BY TokenOfWord, BlankIsNoWord
<1> DEFINE e == x \o <<w>>
           b == x \o <<Blank>>
<1>2. /\ e \in Seq(Piece) /\ x \o <<w, Blank>> = e \o <<Blank>>
      /\ b \in Seq(Piece) /\ x \o <<Blank, w>> = b \o <<w>>
  BY <1>1
<1>3. ScanEnd(e) = Take(ScanEnd(x), w) /\ ScanEnd(b) = Take(ScanEnd(x), Blank)
  BY <1>1, ScanMore
<1> HIDE DEF e, b
<1>4. ScanEnd(e \o <<Blank>>) = Take(ScanEnd(e), Blank) /\ ScanEnd(b \o <<w>>) = Take(ScanEnd(b), w)
  BY <1>1, <1>2, ScanMore
<1>5. ASSUME ScanEnd(x).current = << >> \/ w \in Parens
      PROVE  /\ Holding(ScanEnd(e), U)
             /\ w \in Parens => ScanEnd(e).current = << >>
             /\ Holding(ScanEnd(e \o <<Blank>>), U) /\ ScanEnd(e \o <<Blank>>).current = << >>
  <2>1. Holding(ScanEnd(e), U) /\ (w \in Parens => ScanEnd(e).current = << >>)
    BY <1>3, <1>5, WordTaken
  <2> QED
    BY <1>4, <2>1, BlankTaken
<1>6. Holding(ScanEnd(b), T) /\ ScanEnd(b).current = << >>
  BY <1>3, BlankTaken
<1>7. Holding(ScanEnd(b \o <<w>>), U) /\ (w \in Parens => ScanEnd(b \o <<w>>).current = << >>)
  BY <1>4, <1>6, WordTaken
<1> QED
  <2>1. x \o <<w>> = e
    BY DEF e
  <2> QED
    BY <1>2, <1>5, <1>7, <2>1

\* Texts spell the words if they have white space between any two words that are
\* not parentheses.
Over(s, i) == i = 0 \/ words[i] \in Parens \/ s[i] = <<words[i], Blank>>
Spells(s) ==
  /\ s \in Seq(Seq(Piece)) /\ Len(s) = Len(words)
  /\ \A i \in 1 .. Len(words) :
       \/ /\ s[i] \in {<<words[i]>>, <<words[i], Blank>>}
          /\ Over(s, i - 1) \/ words[i] \in Parens
       \/ s[i] = <<Blank, words[i]>>

LEMMA OneMore ==
  ASSUME NEW V, NEW T \in Seq(V), NEW i \in Nat, i + 1 <= Len(T)
  PROVE  [j \in 1 .. i + 1 |-> T[j]] = Append([j \in 1 .. i |-> T[j]], T[i + 1])
<1>1. [j \in 1 .. i |-> T[j]] \in Seq(V) /\ Len([j \in 1 .. i |-> T[j]]) = i
  OBVIOUS
<1>2. [j \in 1 .. i + 1 |-> T[j]] \in Seq(V) /\ Len([j \in 1 .. i + 1 |-> T[j]]) = i + 1
  OBVIOUS
<1> DEFINE a == Append([j \in 1 .. i |-> T[j]], T[i + 1])
           b == [j \in 1 .. i + 1 |-> T[j]]
<1>3. a \in Seq(V) /\ Len(a) = i + 1 /\ a[i + 1] = T[i + 1] /\ \A j \in 1 .. i : a[j] = T[j]
  BY <1>1
<1>4. \A j \in 1 .. i + 1 : b[j] = T[j]
  OBVIOUS
<1> HIDE DEF a, b
<1>5. \A j \in 1 .. i + 1 : j \in 1 .. i \/ j = i + 1
  OBVIOUS
<1>6. \A j \in 1 .. i + 1 : a[j] = b[j]
  BY <1>3, <1>4, <1>5
<1>7. a = b
  BY <1>2, <1>3, <1>6 DEF b
<1> QED
  BY <1>7 DEF a, b

LEMMA SpelledTokens ==
  ASSUME NEW s, Spells(s), words \in Seq(Words),
         NEW T \in Seq(PolicyTokens), Len(T) = Len(words),
         \A i \in 1 .. Len(words) : T[i] = TokenOf(words[i])
  PROVE  FlattenSeq(s) \in Seq(Piece) /\ Tokenize(FlattenSeq(s)) = T
<1> DEFINE n == Len(words)
           P == [i \in Nat |-> [j \in 1 .. i |-> T[j]]]
<1>1. n \in Nat /\ s \in Seq(Seq(Piece)) /\ Len(s) = n
  BY DEF Spells
<1>2. PICK g \in [0 .. Len(s) -> Seq(Piece)] :
        /\ g[0] = << >>
        /\ \A i \in 1 .. Len(s) : g[i] = g[i - 1] \o s[i]
        /\ FlattenSeq(s) = g[Len(s)]
  BY <1>1, FlattenRun
<1>3. /\ \A i \in 0 .. n : g[i] \in Seq(Piece)
      /\ \A i \in 1 .. n : g[i] = g[i - 1] \o s[i]
      /\ FlattenSeq(s) = g[n]
  BY <1>1, <1>2
<1>4. \A i \in Nat : i <= n => P[i] \in Seq(PolicyTokens)
  OBVIOUS
<1>5. \A i \in Nat : i + 1 <= n => P[i + 1] = Append(P[i], TokenOf(words[i + 1]))
  <2> SUFFICES ASSUME NEW i \in Nat, i + 1 <= n
               PROVE  P[i + 1] = Append(P[i], TokenOf(words[i + 1]))
    OBVIOUS
  <2>1. P[i + 1] = [j \in 1 .. i + 1 |-> T[j]] /\ P[i] = [j \in 1 .. i |-> T[j]]
    OBVIOUS
  <2>2. T[i + 1] = TokenOf(words[i + 1])
    BY <1>1
  <2>3. [j \in 1 .. i + 1 |-> T[j]] = Append([j \in 1 .. i |-> T[j]], T[i + 1])
    BY OneMore
  <2> QED
    BY <2>1, <2>2, <2>3
<1>6. P[0] = << >> /\ P[n] = T
  <2>1. P[0] = [j \in 1 .. 0 |-> T[j]] /\ P[n] = [j \in 1 .. n |-> T[j]]
    BY <1>1
  <2>2. [j \in 1 .. 0 |-> T[j]] = << >>
    OBVIOUS
  <2>3. T = [j \in 1 .. n |-> T[j]]
    BY <1>1
  <2> QED
    BY <2>1, <2>2, <2>3
<1> HIDE DEF P
<1> DEFINE Good(i) == Holding(ScanEnd(g[i]), P[i]) /\ (Over(s, i) => ScanEnd(g[i]).current = << >>)
           S == {i \in Nat : i <= n => Good(i)}
<1>7. 0 \in S
  <2>1. ScanEnd(g[0]) = Start
    BY <1>2, ScanNone
  <2>2. Start = [current |-> << >>, tokens |-> << >>] /\ Start.current = << >>
    BY DEF Start
  <2>3. Flush(Start) = Start
    BY <2>2 DEF Flush
  <2>4. Good(0)
    BY <1>6, <2>1, <2>2, <2>3 DEF Holding
  <2> QED
    BY <2>4
<1>8. ASSUME NEW i \in S PROVE i + 1 \in S
  <2> SUFFICES ASSUME i + 1 <= n PROVE Good(i + 1)
    OBVIOUS
  <2>1. i \in Nat /\ i <= n /\ i + 1 \in 1 .. n /\ (i + 1) - 1 = i /\ i + 1 # 0 /\ i \in 0 .. n
    BY <1>1
  <2>2. Good(i)
    BY <2>1
  <2> DEFINE w == words[i + 1]
             x == g[i]
             U == P[i + 1]
             z == s[i + 1]
  <2>3. w \in Words /\ x \in Seq(Piece) /\ P[i] \in Seq(PolicyTokens) /\ U = Append(P[i], TokenOf(w))
    BY <1>3, <1>4, <1>5, <2>1
  <2>4. g[i + 1] = x \o z
    BY <1>3, <2>1
  <2>5. \/ z \in {<<w>>, <<w, Blank>>} /\ (Over(s, i) \/ w \in Parens)
        \/ z = <<Blank, w>>
    BY <2>1 DEF Spells
  <2>6. Over(s, i + 1) => w \in Parens \/ z = <<w, Blank>>
    BY <2>1 DEF Over
  <2>7. <<w>> # <<w, Blank>>
    OBVIOUS
  <2>8. <<Blank, w>> # <<w, Blank>>
    <3>1. w # Blank
      BY <2>3, BlankIsNoWord
    <3> HIDE DEF w
    <3> QED
      BY <3>1
  <2> HIDE DEF w, x, U, z
  <2>9. /\ ScanEnd(x).current = << >> \/ w \in Parens =>
              /\ Holding(ScanEnd(x \o <<w>>), U)
              /\ w \in Parens => ScanEnd(x \o <<w>>).current = << >>
              /\ Holding(ScanEnd(x \o <<w, Blank>>), U)
              /\ ScanEnd(x \o <<w, Blank>>).current = << >>
        /\ Holding(ScanEnd(x \o <<Blank, w>>), U)
        /\ w \in Parens => ScanEnd(x \o <<Blank, w>>).current = << >>
    BY <2>2, <2>3, WordScanned DEF x
  <2>10. Holding(ScanEnd(x \o z), U) /\ (Over(s, i + 1) => ScanEnd(x \o z).current = << >>)
    <3>1. Over(s, i) => ScanEnd(x).current = << >>
      BY <2>2 DEF x
    <3> DEFINE p == <<w>>
               q == <<w, Blank>>
               r == <<Blank, w>>
    <3>2. /\ \/ z \in {p, q} /\ (Over(s, i) \/ w \in Parens)
             \/ z = r
          /\ Over(s, i + 1) => w \in Parens \/ z = q
          /\ p # q /\ r # q
      BY <2>5, <2>6, <2>7, <2>8
    <3>3. /\ ScanEnd(x).current = << >> \/ w \in Parens =>
               /\ Holding(ScanEnd(x \o p), U)
               /\ w \in Parens => ScanEnd(x \o p).current = << >>
               /\ Holding(ScanEnd(x \o q), U)
               /\ ScanEnd(x \o q).current = << >>
          /\ Holding(ScanEnd(x \o r), U)
          /\ w \in Parens => ScanEnd(x \o r).current = << >>
      BY <2>9
    <3> HIDE DEF p, q, r
    <3> QED
      BY <3>1, <3>2, <3>3
  <2> QED
    BY <2>4, <2>10 DEF U
<1>9. S = Nat
  <2> HIDE DEF S
  <2>1. S \in SUBSET Nat
    BY DEF S
  <2> QED
    BY <1>7, <1>8, <2>1, InductionInSet
<1>10. Good(n)
  BY <1>1, <1>9
<1>11. Holding(ScanEnd(g[n]), T) /\ g[n] \in Seq(Piece)
  BY <1>1, <1>3, <1>6, <1>10
<1>12. Tokenize(g[n]) = Flush(ScanEnd(g[n])).tokens
  BY <1>11, ScanEnds
<1>13. Tokenize(g[n]) = T
  BY <1>11, <1>12 DEF Holding
<1> QED
  BY <1>3, <1>11, <1>13

LEMMA WordsAre ==
  ASSUME words \in Seq(Words)
  PROVE  \A i \in 1 .. Len(words) :
           words[i] \in Piece /\ Blank \in Piece /\ TokenOf(words[i]) \in PolicyTokens
<1>1. ASSUME NEW w \in Words PROVE w \in Piece /\ TokenOf(w) \in PolicyTokens
  BY TokenOfWord
<1>2. \A i \in 1 .. Len(words) : words[i] \in Words
  OBVIOUS
<1> QED
  BY <1>1, <1>2, BlankIsNoWord

LEMMA SpacedSpells ==
  ASSUME words \in Seq(Words)
  PROVE  \E s : Spells(s) /\ Spaced = FlattenSeq(s)
<1> DEFINE s == [i \in DOMAIN words |-> <<words[i], Blank>>]
<1>1. Spaced = FlattenSeq(s)
  BY Zenon DEF Spaced, Blank
<1>2. \A i \in 1 .. Len(words) : s[i] = <<words[i], Blank>>
  OBVIOUS
<1>3. s \in Seq(Seq(Piece)) /\ Len(s) = Len(words)
  <2>1. \A i \in 1 .. Len(words) : words[i] \in Piece /\ Blank \in Piece
    BY WordsAre
  <2>2. \A x, y \in Piece : <<x, y>> \in Seq(Piece)
    OBVIOUS
  <2>3. \A i \in 1 .. Len(words) : <<words[i], Blank>> \in Seq(Piece)
    BY <2>1, <2>2
  <2>4. s = [i \in 1 .. Len(words) |-> <<words[i], Blank>>]
    OBVIOUS
  <2> QED
    BY <2>3, <2>4
<1> HIDE DEF s
<1>4. \A i \in 1 .. Len(words) : Over(s, i - 1)
  <2> SUFFICES ASSUME NEW i \in 1 .. Len(words) PROVE Over(s, i - 1)
    OBVIOUS
  <2>1. i - 1 = 0 \/ i - 1 \in 1 .. Len(words)
    OBVIOUS
  <2> QED
    BY <1>2, <2>1 DEF Over
<1>5. Spells(s)
  BY <1>2, <1>3, <1>4 DEF Spells
<1> QED
  BY <1>1, <1>5

LEMMA TightSpells ==
  ASSUME words \in Seq(Words)
  PROVE  \E s : Spells(s) /\ Tight = FlattenSeq(s)
<1> DEFINE s == [i \in DOMAIN words |->
                   IF i = 1 \/ {words[i - 1], words[i]} \cap Parens # {} THEN <<words[i]>>
                   ELSE <<Blank, words[i]>>]
<1>1. Tight = FlattenSeq(s)
  BY Zenon DEF Tight, Blank, Parens
<1>2. \A i \in 1 .. Len(words) :
        \/ s[i] = <<words[i]>> /\ (i = 1 \/ {words[i - 1], words[i]} \cap Parens # {})
        \/ s[i] = <<Blank, words[i]>>
  OBVIOUS
<1>3. s \in Seq(Seq(Piece)) /\ Len(s) = Len(words)
  <2>1. \A i \in 1 .. Len(words) : words[i] \in Piece /\ Blank \in Piece
    BY WordsAre
  <2>2. \A x, y \in Piece : <<x>> \in Seq(Piece) /\ <<x, y>> \in Seq(Piece)
    OBVIOUS
  <2>3. \A i \in 1 .. Len(words) : <<words[i]>> \in Seq(Piece) /\ <<Blank, words[i]>> \in Seq(Piece)
    BY <2>1, <2>2
  <2>4. \A i \in 1 .. Len(words) : s[i] \in Seq(Piece)
    BY <1>2, <2>3
  <2>5. DOMAIN s = 1 .. Len(words)
    OBVIOUS
  <2>6. s = [i \in 1 .. Len(words) |-> s[i]]
    OBVIOUS
  <2> HIDE DEF s
  <2>7. [i \in 1 .. Len(words) |-> s[i]] \in Seq(Seq(Piece))
    BY <2>4
  <2> QED
    BY <2>5, <2>6, <2>7
<1> HIDE DEF s
<1>4. ASSUME NEW i \in 1 .. Len(words), i = 1 \/ {words[i - 1], words[i]} \cap Parens # {}
      PROVE  Over(s, i - 1) \/ words[i] \in Parens
  <2>1. CASE i = 1
    <3>1. i - 1 = 0
      BY <2>1
    <3> QED
      BY <3>1 DEF Over
  <2>2. CASE {words[i - 1], words[i]} \cap Parens # {}
    BY <2>2 DEF Over
  <2> QED
    BY <1>4, <2>1, <2>2
<1>5. Spells(s)
  BY <1>2, <1>3, <1>4 DEF Spells
<1> QED
  BY <1>1, <1>5

LEMMA MeaningOfWords ==
  ASSUME WordsInv
  PROVE  PolicyMeansItsText
<1> DEFINE T == [i \in DOMAIN words |-> TokenOf(words[i])]
<1>1. words \in Seq(Words) /\ Len(words) <= MaxWords
  BY DEF WordsInv
<1>2. \A i \in 1 .. Len(words) : T[i] = TokenOf(words[i])
  BY <1>1
<1>3. T \in Seq(PolicyTokens) /\ Len(T) = Len(words)
  <2>1. \A i \in 1 .. Len(words) : TokenOf(words[i]) \in PolicyTokens
    BY <1>1, WordsAre
  <2> QED
    BY <1>1, <2>1
<1>4. Len(T) <= MaxDepth
  <2>1. MaxWords \in Nat /\ 2 * MaxWords <= MaxDepth /\ MaxDepth \in Nat /\ Len(words) \in Nat
    BY <1>1, WordsBound, DepthAssumption
  <2> QED
    BY <1>1, <1>3, <2>1
<1>5. ASSUME NEW text \in {Spaced, Tight}
      PROVE  /\ Parse(text).ok <=> WellFormed(T)
             /\ Parse(text).ok =>
                  \A attrs : IsSatisfiedBy(Parse(text).tree, attrs) <=> Means(T, attrs)
  <2>1. PICK s : Spells(s) /\ text = FlattenSeq(s)
    BY <1>1, SpacedSpells, TightSpells
  <2> HIDE DEF T
  <2>2. Tokenize(text) = T
    BY <1>1, <1>2, <1>3, <2>1, SpelledTokens
  <2> QED
    BY <1>3, <1>4, <2>2, ParseRight
<1> HIDE DEF T
<1>6. \A text \in {Spaced, Tight} :
        /\ Parse(text).ok <=> WellFormed(T)
        /\ Parse(text).ok =>
             \A attrs \in SUBSET Literals :
               IsSatisfiedBy(Parse(text).tree, attrs) <=> Means(T, attrs)
  BY <1>5
<1> QED
  BY <1>6, Zenon DEF PolicyMeansItsText, T

\* "orExpr := andExpr (OR andExpr)*, andExpr := atom (AND atom)*": a text is
\* accepted as a policy exactly if its parentheses match and no operator lacks
\* an operand, and the tree is satisfied by the attributes that make the formula
\* true, AND before OR, wherever white space is left out (parse_policy, tokenize
\* and Parser's parse_or, parse_and and parse_atom).
THEOREM PoliciesMeanTheirTexts == Spec => []PolicyMeansItsText
<1>1. WordsInv => PolicyMeansItsText
  BY MeaningOfWords
<1> QED
  BY <1>1, WordsInvariant, PTL
=============================================================================
