-------------------------------- MODULE YAML --------------------------------
(***************************************************************************)
(* core/yaml/scanner.go and parser.go: from the characters of a file to a  *)
(* value.  A document is a sequence of characters; a tab is a space, and a *)
(* line ends with "\n".                                                    *)
(*                                                                         *)
(* The scanner gives each token the indentation of its line if it is the   *)
(* first one there, and 0 otherwise, the keys after "- " included.         *)
(***************************************************************************)
EXTENDS Values, SequencesExt, FiniteSets

DigitChars == {"1", "2", "5"}
LineEnd == {"\n", "eof"}
QuoteChars == {"'", "\""}

CharAt(doc, p) == IF p <= Len(doc) THEN doc[p] ELSE "eof"

\* the first position from p on whose character is in C, or is not
RECURSIVE Find(_, _, _), Skip(_, _, _)
Find(doc, p, C) == IF p > Len(doc) \/ doc[p] \in C THEN p ELSE Find(doc, p + 1, C)
Skip(doc, p, C) == IF p > Len(doc) \/ doc[p] \notin C THEN p ELSE Skip(doc, p + 1, C)
TrimRight(s) == SubSeq(s, 1, Len(s) + 1 - Skip(Reverse(s), 1, {" "}))

\* a token and the position after it
TokenOf(type, text, indent, next) ==
  [type |-> type, text |-> text, indent |-> indent, next |-> next]
-----------------------------------------------------------------------------
(***************************************************************************)
(* scanner.go.                                                             *)
(***************************************************************************)
RECURSIVE SkipBlankLines(_, _), SkipFlowBlanks(_, _)
SkipBlankLines(doc, p) ==
  LET q == Skip(doc, p, {" "}) IN
  IF CharAt(doc, q) = "eof" THEN q
  ELSE IF CharAt(doc, q) = "\n" THEN SkipBlankLines(doc, q + 1)
  ELSE IF CharAt(doc, q) = "#" THEN SkipBlankLines(doc, Find(doc, q, {"\n"}))
  ELSE p
SkipFlowBlanks(doc, p) ==
  LET q == Skip(doc, p, {" ", "\n"}) IN
  IF CharAt(doc, q) = "#" THEN SkipFlowBlanks(doc, Find(doc, q, {"\n"})) ELSE q

\* readQuotedString, from the character after the opening quote: what was read and
\* the position after the closing quote, which is 0 when there is none
RECURSIVE ReadQuoted(_, _, _, _)
ReadQuoted(doc, p, quote, read) ==
  LET c == CharAt(doc, p) IN
  IF c = "eof" THEN [text |-> read, next |-> 0]
  ELSE IF c = quote THEN [text |-> read, next |-> p + 1]
  ELSE IF quote = "\"" /\ c = "\\" THEN
    LET e == CharAt(doc, p + 1) IN
    IF e = "eof" THEN [text |-> read, next |-> 0]
    ELSE ReadQuoted(doc, p + 2, quote,
           read \o (IF e = "n" THEN <<"\n">> ELSE IF e \in {"\\", "\""} THEN <<e>> ELSE <<"\\", e>>))
  ELSE ReadQuoted(doc, p + 1, quote, Append(read, c))

\* a quoted key or a quoted scalar, depending on what follows it
QuotedToken(doc, p, indent, terminators) ==
  LET q == ReadQuoted(doc, p + 1, doc[p], <<>>) after == Skip(doc, q.next, {" "}) IN
  IF q.next = 0 THEN TokenOf("error", <<>>, 0, Len(doc) + 1)
  ELSE IF CharAt(doc, after) = ":" /\ CharAt(doc, after + 1) \in terminators \cup LineEnd
    THEN TokenOf("key", q.text, indent, Skip(doc, after + 1, {" "}))
    ELSE TokenOf("scalar", q.text, indent, after)

\* the colon that ends a key on this line, outside quotes; 0 when there is none
RECURSIVE KeyColon(_, _, _)
KeyColon(doc, p, quote) ==
  LET c == CharAt(doc, p) IN
  IF c \in LineEnd THEN 0
  ELSE IF quote # "" THEN
    KeyColon(doc, IF c = "\\" /\ quote = "\"" THEN p + 2 ELSE p + 1, IF c = quote THEN "" ELSE quote)
  ELSE IF c \in QuoteChars THEN KeyColon(doc, p + 1, c)
  ELSE IF c = ":" /\ CharAt(doc, p + 1) \in {" "} \cup LineEnd THEN p
  ELSE KeyColon(doc, p + 1, "")

\* where a comment begins in the plain text from p to end; end without one
CommentAt(doc, p, end) ==
  LET comments == {q \in p + 1 .. end - 1 : doc[q] = "#" /\ doc[q - 1] = " "}
  IN  IF comments = {} THEN end ELSE CHOOSE q \in comments : \A r \in comments : q <= r

\* a plain scalar from p ends before position end, or before a comment
PlainToken(doc, p, end, indent) ==
  LET stop == CommentAt(doc, p, end)
  IN  TokenOf("scalar", TrimRight(SubSeq(doc, p, stop - 1)), indent,
              IF stop = end THEN end ELSE Find(doc, stop, {"\n"}))

\* readBlockLine
BlockLine(doc, p, indent) ==
  LET colon == KeyColon(doc, p, "") IN
  IF colon = 0 THEN PlainToken(doc, p, Find(doc, p, {"\n"}), indent)
  ELSE TokenOf("key", TrimRight(SubSeq(doc, p, colon - 1)), indent, Skip(doc, colon + 1, {" "}))

\* readBlockScalar, from the beginning of a line: the lines that are indented as
\* deep as the first one that is not blank, which must be deeper than parent
RECURSIVE BlockScalarLines(_, _, _, _, _)
BlockScalarLines(doc, p, parent, block, lines) ==
  LET q == Skip(doc, p, {" "}) end == Find(doc, q, {"\n"}) after == IF end > Len(doc) THEN end ELSE end + 1
      depth == IF block < 0 THEN q - p ELSE block
  IN
  IF p > Len(doc) THEN [lines |-> lines, next |-> p, found |-> TRUE]
  ELSE IF CharAt(doc, q) \in LineEnd THEN BlockScalarLines(doc, after, parent, block, Append(lines, <<>>))
  ELSE IF block < 0 /\ q - p <= parent THEN [lines |-> <<>>, next |-> p, found |-> FALSE]
  ELSE IF q - p < depth THEN [lines |-> lines, next |-> p, found |-> TRUE]
  ELSE BlockScalarLines(doc, after, parent, depth, Append(lines, SubSeq(doc, p + depth, end - 1)))

\* blank lines at the end are dropped; the lines of a literal scalar each end, those
\* of a folded one are joined by spaces, and a blank one becomes two line ends
BlockScalar(doc, p, indent) ==
  LET q == Skip(doc, p + 1, {" "}) r == IF CharAt(doc, q) = "#" THEN Find(doc, q, {"\n"}) ELSE q
      read == BlockScalarLines(doc, IF CharAt(doc, r) = "\n" THEN r + 1 ELSE r, indent, -1, <<>>)
      lines == SubSeq(read.lines, 1, SelectLastInSeq(read.lines, LAMBDA l : l # <<>>))
      Ended == [k \in DOMAIN lines |-> IF k < Len(lines) THEN Append(lines[k], "\n") ELSE lines[k]]
      Folded == [k \in DOMAIN lines |->
                   IF lines[k] = <<>> THEN <<"\n", "\n">>
                   ELSE IF k > 1 /\ lines[k - 1] # <<>> THEN <<" ">> \o lines[k] ELSE lines[k]]
  IN TokenOf("scalar",
           IF ~read.found THEN <<>>
           ELSE Append(FlattenSeq(IF doc[p] = "|" THEN Ended ELSE Folded), "\n"),
           indent, read.next)

\* nextBlockToken; "-" is an entry only before a space
BlockToken(doc, start) ==
  LET p == SkipBlankLines(doc, start)
      first == p = 1 \/ CharAt(doc, p - 1) = "\n"
      q == IF first THEN Skip(doc, p, {" "}) ELSE p
      indent == q - p
      c == CharAt(doc, q)
  IN
  IF c = "eof" THEN TokenOf("eof", <<>>, 0, q)
  ELSE IF c \in {"[", "{"} THEN TokenOf(c, <<>>, indent, q + 1)
  ELSE IF c = "-" /\ CharAt(doc, q + 1) = " " THEN TokenOf("entry", <<>>, indent, q + 2)
  ELSE IF c \in {"|", ">"} THEN BlockScalar(doc, q, indent)
  ELSE IF c \in QuoteChars THEN QuotedToken(doc, q, indent, {" "})
  ELSE BlockLine(doc, q, indent)

Brackets == {"[", "]", "{", "}", ","}
FlowEnds == {" ", ",", "]", "}"}

\* nextFlowToken and readFlowPlain: a plain text is a key when a colon ends it
\* before a comment does
FlowToken(doc, start) ==
  LET p == SkipFlowBlanks(doc, start)
      c == CharAt(doc, p)
      end == Find(doc, p, Brackets \cup {"\n"})
      colons == {q \in p .. end - 1 : doc[q] = ":" /\ CharAt(doc, q + 1) \in FlowEnds \cup LineEnd}
      colon == CHOOSE q \in colons : \A r \in colons : q <= r
  IN
  IF c = "eof" THEN TokenOf("eof", <<>>, 0, p)
  ELSE IF c \in Brackets THEN TokenOf(c, <<>>, 0, p + 1)
  ELSE IF c \in QuoteChars THEN QuotedToken(doc, p, 0, FlowEnds)
  ELSE IF colons # {} /\ colon < CommentAt(doc, p, end) THEN
    TokenOf("key", TrimRight(SubSeq(doc, p, colon - 1)), 0, Skip(doc, colon + 1, {" "}))
  ELSE PlainToken(doc, p, end, 0)

\* ScanAll; a token of type "error" is the last one
RECURSIVE ScanAll(_, _, _)
Nesting(token) == IF token.type \in {"[", "{"} THEN 1 ELSE IF token.type \in {"]", "}"} THEN -1 ELSE 0
ScanFrom(doc, token, depth) ==
  IF token.type \in {"eof", "error"} THEN <<token>>
  ELSE <<token>> \o ScanAll(doc, token.next, depth + Nesting(token))
ScanAll(doc, p, depth) ==
  ScanFrom(doc, IF depth > 0 THEN FlowToken(doc, p) ELSE BlockToken(doc, p), depth)
-----------------------------------------------------------------------------
(***************************************************************************)
(* parser.go: each function gives the value and the number of the token    *)
(* after it, which is 0 when it fails.                                     *)
(***************************************************************************)
Parsed(v, next) == [v |-> v, next |-> next]
Failed == Parsed(Nil, 0)

\* interpretScalar, of a whole number or a word; quotes are forgotten by now
Interpret(text) ==
  IF text \in {<<>>, <<"~">>} THEN Nil
  ELSE IF \A k \in DOMAIN text : text[k] \in DigitChars THEN
    Number("int", 2 * FoldLeft(LAMBDA n, c : 10 * n + (CHOOSE d \in 0 .. 9 : ToString(d) = c), 0, text))
  ELSE Text(text)

\* nodeToInterface of a mapping: a key that comes twice keeps its last value
MapOfPairs(pairs) ==
  Map([key \in {pairs[k][1] : k \in DOMAIN pairs} |->
         pairs[SelectLastInSeq(pairs, LAMBDA pair : pair[1] = key)][2]])

RECURSIVE FlowSequence(_, _, _), FlowMapping(_, _, _)
\* the rest of the sequence after an item, and of the mapping after a value
FlowItem(toks, item, items) ==
  IF item.next = 0 THEN Failed ELSE FlowSequence(toks, item.next, Append(items, item.v))
FlowPair(toks, key, value, pairs) ==
  IF value.next = 0 THEN Failed ELSE FlowMapping(toks, value.next, Append(pairs, <<key.text, value.v>>))
\* parseFlowValue
FlowValue(toks, k) ==
  CASE toks[k].type = "[" -> FlowSequence(toks, k + 1, <<>>)
    [] toks[k].type = "{" -> FlowMapping(toks, k + 1, <<>>)
    [] toks[k].type \in {"scalar", "key"} -> Parsed(Interpret(toks[k].text), k + 1)
    [] OTHER -> Failed
FlowSequence(toks, k, items) ==
  IF toks[k].type = "]" THEN Parsed(List(items), k + 1)
  ELSE IF toks[k].type = "," THEN FlowSequence(toks, k + 1, items)
  ELSE FlowItem(toks, FlowValue(toks, k), items)
FlowMapping(toks, k, pairs) ==
  LET empty == toks[k].type = "scalar" \/ toks[k + 1].type \in {"}", ","} IN
  IF toks[k].type = "}" THEN Parsed(MapOfPairs(pairs), k + 1)
  ELSE IF toks[k].type = "," THEN FlowMapping(toks, k + 1, pairs)
  ELSE IF toks[k].type \notin {"key", "scalar"} THEN Failed
  ELSE FlowPair(toks, toks[k], IF empty THEN Parsed(Nil, k + 1) ELSE FlowValue(toks, k + 1), pairs)

RECURSIVE BlockMapping(_, _, _, _, _), BlockSequence(_, _, _, _)
\* parseMappingValue, and parseNode for keyIndent = -1
Value(toks, k, keyIndent) ==
  LET tok == toks[k] IN
  CASE tok.type = "scalar" -> Parsed(Interpret(tok.text), k + 1)
    [] tok.type \in {"[", "{"} -> FlowValue(toks, k)
    [] tok.type = "key" /\ tok.indent > keyIndent -> BlockMapping(toks, k, tok.indent, keyIndent, <<>>)
    [] tok.type = "entry" /\ tok.indent > keyIndent -> BlockSequence(toks, k, tok.indent, <<>>)
    [] OTHER -> Parsed(Nil, k)

\* the rest of the mapping after a value, and of the sequence after an item
BlockPair(toks, key, value, mapIndent, minIndent, pairs) ==
  IF value.next = 0 THEN Failed
  ELSE BlockMapping(toks, value.next, mapIndent, minIndent, Append(pairs, <<key.text, value.v>>))
BlockItem(toks, item, seqIndent, items) ==
  IF item.next = 0 THEN Failed ELSE BlockSequence(toks, item.next, seqIndent, Append(items, item.v))

\* variant: the indentation of the first key is kept
BlockMappingFixed(toks, k, mapIndent, minIndent, pairs) ==
  IF toks[k].type # "key" \/ toks[k].indent # mapIndent THEN Parsed(MapOfPairs(pairs), k)
  ELSE BlockPair(toks, toks[k], Value(toks, k + 1, toks[k].indent), mapIndent, minIndent, pairs)

\* parseBlockMapping: the first key of an item has no indentation of its own, so the
\* one of the second key is taken for that of the mapping
BlockMapping(toks, k, mapIndent, minIndent, pairs) ==
  LET tok == toks[k]
      adjusts == tok.indent > mapIndent /\ Len(pairs) = 1 /\ mapIndent <= minIndent
      indent == IF adjusts THEN tok.indent ELSE mapIndent
  IN
  IF tok.type # "key" \/ tok.indent # indent THEN Parsed(MapOfPairs(pairs), k)
  ELSE BlockPair(toks, tok, Value(toks, k + 1, indent), indent, minIndent, pairs)

\* parseBlockSequence
BlockSequence(toks, k, seqIndent, items) ==
  LET item == toks[k + 1]
      child == CASE item.type = "key" -> BlockMapping(toks, k + 1, item.indent, seqIndent, <<>>)
                 [] item.type = "entry" -> BlockSequence(toks, k + 1, item.indent, <<>>)
                 [] item.type = "eof" -> Parsed(Nil, k + 1)
                 [] item.type \in {"scalar", "[", "{"} -> FlowValue(toks, k + 1)
                 [] OTHER -> Failed
  IN
  IF toks[k].type # "entry" \/ toks[k].indent # seqIndent THEN Parsed(List(items), k)
  ELSE BlockItem(toks, child, seqIndent, items)

\* Parse: the value in a sequence, which is empty after an error; tokens that are
\* left over are not looked at
ParseTokens(toks) ==
  LET Accept(node) == IF node.next = 0 THEN <<>> ELSE <<node.v>> IN
  IF Last(toks).type = "error" THEN <<>> ELSE Accept(Value(toks, 1, -1))
ParseDocument(doc) == ParseTokens(ScanAll(doc, 1, 0))
-----------------------------------------------------------------------------
(***************************************************************************)
(* Properties: what is written in the layout of the documentation is read  *)
(* back.  Write is not code: it lays a value out in lines, the items of a  *)
(* list two columns deeper than their key, as docs/getting-started.md does.*)
(***************************************************************************)
Special == {":", "#", "'", "\"", "\\", "-", "[", "]", "{", "}", ",", "|", ">", "\n"}
Escaped(text) == FlattenSeq([k \in DOMAIN text |->
  IF text[k] = "\n" THEN <<"\\", "n">> ELSE IF text[k] \in {"\"", "\\"} THEN <<"\\", text[k]>> ELSE <<text[k]>>])
Written(v) ==
  CASE v.type = "nil" -> <<"~">>
    [] v.type = "int" -> <<ToString(v.num \div 2)>>
    [] v.type = "list" -> <<"[", "]">>
    [] v.type = "map" -> <<"{", "}">>
    [] OTHER -> IF ToSet(v.text) \cap Special = {} THEN v.text ELSE <<"\"">> \o Escaped(v.text) \o <<"\"">>

Leaf(v) == v.type \notin {"list", "map"} \/ (v.items = <<>> /\ v.fields = <<>>)
Keys(v) == SetToSortSeq(DOMAIN v.fields, LAMBDA a, b : a[1] = "a")
Blanks(n) == [k \in 1 .. n |-> " "]

\* a value as one line, and as lines from column n on
RECURSIVE Flow(_), Lines(_, _)
Flow(v) ==
  IF Leaf(v) THEN Written(v)
  ELSE IF v.type = "list" THEN
    <<"[">> \o FlattenSeq([k \in DOMAIN v.items |-> Flow(v.items[k]) \o <<",", " ">>]) \o <<"]">>
  ELSE <<"{">> \o FlattenSeq([k \in DOMAIN Keys(v) |->
         Keys(v)[k] \o <<":", " ">> \o Flow(v.fields[Keys(v)[k]]) \o <<",", " ">>]) \o <<"}">>
Lines(v, n) ==
  IF v.type = "list" THEN FlattenSeq([k \in DOMAIN v.items |->
    LET item == v.items[k] IN
    IF Leaf(item) THEN <<Blanks(n) \o <<"-", " ">> \o Written(item)>>
    ELSE LET body == Lines(item, n + 2) IN
         <<Blanks(n) \o <<"-", " ">> \o SubSeq(body[1], n + 3, Len(body[1]))>> \o Tail(body)])
  ELSE FlattenSeq([k \in DOMAIN Keys(v) |->
    LET w == v.fields[Keys(v)[k]] head == Blanks(n) \o Keys(v)[k] \o <<":">> IN
    IF Leaf(w) THEN <<head \o <<" ">> \o Written(w)>> ELSE <<head>> \o Lines(w, n + 2)])

Write(v) == LET lines == Lines(v, 0) IN FlattenSeq([k \in DOMAIN lines |-> Append(lines[k], "\n")])

RECURSIVE ListInList(_), Separable(_, _)
ListInList(v) ==
  \/ \E k \in DOMAIN v.items : ListInList(v.items[k]) \/ (v.type = "list" /\ ~Leaf(v.items[k]) /\ v.items[k].type = "list")
  \/ \E k \in DOMAIN v.fields : ListInList(v.fields[k])

\* below v no item of one key is the last of its list where another key follows
Separable(v, followed) ==
  /\ v.type = "list" => \A k \in DOMAIN v.items :
       LET item == v.items[k] last == k = Len(v.items) /\ followed IN
       (last => Cardinality(DOMAIN item.fields) # 1) /\ Separable(item, last)
  /\ v.type = "map" => \A k \in DOMAIN Keys(v) :
       Separable(v.fields[Keys(v)[k]], followed \/ k < Len(Keys(v)))

\* A document in flow style, and one in block style without lists in lists in which no
\* item of one key is followed by a key of something else, is read as it was written.
\* (parser.go:126-170 and 218-270)
DocumentReadBack(v) ==
  /\ Leaf(v) \/ ParseDocument(Flow(v)) = <<v>>
  /\ ~Leaf(v) /\ ~ListInList(v) /\ Separable(v, FALSE) => ParseDocument(Write(v)) = <<v>>

\* parser.go:244 "Map item in sequence. The keys should be at seqIndent+2 or more": a
\* key further left is not one of the item, so block documents are read as written.
KeysStayInPlace(v) == ~Leaf(v) /\ ~ListInList(v) => ParseDocument(Write(v)) = <<v>>
=============================================================================
