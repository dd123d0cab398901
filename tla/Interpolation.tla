---------------------------- MODULE Interpolation ----------------------------
(***************************************************************************)
(* core/expression (lexer, parser, evaluator) and core/fixture: how the    *)
(* ${...} of a text are found, read and replaced.                          *)
(*                                                                         *)
(* A text is a sequence of characters.  Two programs read what stands      *)
(* between ${fn: and }: findExpressionEnd, which looks for its end, and    *)
(* the lexer, which reads its tokens.  They must agree on where quoted     *)
(* texts end.                                                              *)
(***************************************************************************)
EXTENDS Builtins

CONSTANTS MaxDepth,   \* maxParseDepth and maxEvalDepth, 256 in the code
          Registry,   \* from the registered identifiers to the names of Builtins
          Stores      \* what the prefixes "fixture" and "capture" stand for

ASSUME InterpolationAssumption == MaxDepth \in Nat \ {0}

Quotes == {"'", "\""}
Figures == {"0", "1", "2", "3", "4", "5", "6", "7", "8", "9"}
\* unicode.IsSpace, and the characters that no token starts with
Spaces == {" "}
Others == {"$", "{", "}", "\\", ":", "*", "?", "."}
IdentStart == {"a", "b", "c", "e", "f", "i", "l", "n", "r", "s", "t", "u", "x", "A", "_"}
IdentPart == IdentStart \cup Figures \cup {"."}

At(s, i) == IF i <= Len(s) THEN s[i] ELSE ""
\* the first position from i on that is not in class
After(s, i, class) ==
  Min({j \in i .. Len(s) : s[j] \notin class} \cup {IF i > Len(s) THEN i ELSE Len(s) + 1})
-----------------------------------------------------------------------------
(***************************************************************************)
(* The lexer.  A token has a type, its text and the position after it; the *)
(* type "error" ends the sequence.                                         *)
(***************************************************************************)
Token(type, text, next) == [type |-> type, text |-> text, next |-> next]
Broken == Token("error", <<>>, 0)

\* readString: from the character after the quote
RECURSIVE ReadString(_, _, _, _)
ReadString(s, i, quote, text) ==
  IF i > Len(s) THEN Broken
  ELSE IF s[i] = "\\" /\ At(s, i + 1) \in {quote, "\\"}
       THEN ReadString(s, i + 2, quote, Append(text, s[i + 1]))
  ELSE IF s[i] = quote THEN Token("string", text, i + 1)
  ELSE ReadString(s, i + 1, quote, Append(text, s[i]))

\* readNumber: a sign, digits, and a point only with digits after it
ReadNumber(s, i) ==
  LET first == IF s[i] = "-" THEN i + 1 ELSE i
      point == After(s, first, Figures)
      end == IF At(s, point) = "." THEN After(s, point + 1, Figures) ELSE point IN
  IF point = first \/ end = point + 1 THEN Broken ELSE Token("number", SubSeq(s, i, end - 1), end)

\* readIdent
ReadIdent(s, i) ==
  LET end == After(s, i, IdentPart) text == SubSeq(s, i, end - 1) IN
  Token(IF text \in {ToText(Bool(TRUE)), ToText(Bool(FALSE))} THEN "bool" ELSE "ident", text, end)

ReadToken(s, i) ==
  CASE s[i] \in {"(", ")", ","} -> Token(s[i], <<s[i]>>, i + 1)
    [] s[i] \in Quotes -> ReadString(s, i + 1, s[i], <<>>)
    [] s[i] \in Figures \cup {"-"} -> ReadNumber(s, i)
    [] s[i] \in IdentStart -> ReadIdent(s, i)
    [] s[i] \in Others -> Broken

RECURSIVE Tokenize(_, _)
Tokenize(s, from) ==
  LET i == After(s, from, Spaces) IN
  IF i > Len(s) THEN <<>>
  ELSE LET token == ReadToken(s, i) IN
       IF token = Broken THEN <<token>> ELSE <<token>> \o Tokenize(s, token.next)
-----------------------------------------------------------------------------
(***************************************************************************)
(* The parser: an expression and the position of the token after it.       *)
(***************************************************************************)
Node(kind, value, args, next) == [kind |-> kind, value |-> value, args |-> args, next |-> next]
Wrong == Node("error", Nil, <<>>, 0)
TypeAt(tokens, i) == IF i <= Len(tokens) THEN tokens[i].type ELSE "end"

\* the value of digits; of the digits after a point only .5 is kept apart from .0
Magnitude(digits) ==
  FoldLeft(LAMBDA n, d : 10 * n + (CHOOSE k \in DOMAIN Digits : Digits[k] = d) - 1, 0, digits)

\* parseNumber: an integer above MaxInt has no value; the others become a
\* float64 and, when they are evaluated, an int again
ParseNumber(text, next) ==
  LET digits == SelectSeq(text, LAMBDA c : c # "-")
      point == SelectInSeq(digits, LAMBDA c : c = ".")
      sign == IF text[1] = "-" THEN -1 ELSE 1
      whole == IF point = 0 THEN digits ELSE SubSeq(digits, 1, point - 1)
      n == sign * Magnitude(whole) IN
  IF point # 0
  THEN Node("literal", OfFloat(2 * n + (IF digits[point + 1] = "5" THEN sign ELSE 0)), <<>>, next)
  ELSE IF n > MaxInt \/ n < -(MaxInt + 1) THEN Wrong
  ELSE Node("literal", OfInt(ToInt(OfFloat(FloatOf(OfInt(n))))), <<>>, next)

RECURSIVE ParseExpr(_, _, _), ParseArgs(_, _, _, _, _)
\* parseFuncCall, with the arguments read so far; a comma must be followed by one
ParseArgs(tokens, i, depth, name, args) ==
  IF TypeAt(tokens, i) = ")" THEN Node("call", Text(name), args, i + 1)
  ELSE IF args # <<>> /\ TypeAt(tokens, i) # "," THEN Wrong
  ELSE LET arg == ParseExpr(tokens, IF args = <<>> THEN i ELSE i + 1, depth) IN
       IF arg.kind = "error" THEN Wrong
       ELSE ParseArgs(tokens, arg.next, depth, name, Append(args, arg))

\* parseExpr, parseIdentOrCall
ParseExpr(tokens, i, depth) ==
  LET type == TypeAt(tokens, i) IN
  IF depth >= MaxDepth \/ type \in {"(", ")", ",", "error", "end"} THEN Wrong
  ELSE CASE type = "string" -> Node("literal", Text(tokens[i].text), <<>>, i + 1)
         [] type = "number" -> ParseNumber(tokens[i].text, i + 1)
         [] type = "bool" -> Node("literal", Bool(tokens[i].text[1] = "t"), <<>>, i + 1)
         [] type = "ident" /\ TypeAt(tokens, i + 1) = "(" ->
              ParseArgs(tokens, i + 2, depth + 1, tokens[i].text, <<>>)
         [] type = "ident" /\ TypeAt(tokens, i + 1) # "(" ->
              Node("variable", Text(tokens[i].text), <<>>, i + 1)

\* Parse: the expression takes all the tokens
Parse(tokens) ==
  LET node == ParseExpr(tokens, 1, 0) IN
  IF \E k \in DOMAIN tokens : tokens[k].type = "error" THEN Wrong
  ELSE IF node.next # Len(tokens) + 1 THEN Wrong ELSE node
-----------------------------------------------------------------------------
(***************************************************************************)
(* The evaluator, and the store that resolves its variables.               *)
(***************************************************************************)
RECURSIVE SplitDots(_)
SplitDots(s) ==
  LET dot == SelectInSeq(s, LAMBDA c : c = ".") IN
  IF dot = 0 THEN <<s>> ELSE <<SubSeq(s, 1, dot - 1)>> \o SplitDots(SubSeq(s, dot + 1, Len(s)))

\* Resolve: {} when there is no such value
Resolve(ref) ==
  LET parts == SplitDots(ref) rest == SubSeq(ref, Len(parts[1]) + 2, Len(ref)) IN
  IF Len(parts) < 2 THEN {}
  ELSE IF parts[1] = <<"e", "n", "v">> THEN {Text(Env[name]) : name \in DOMAIN Env \cap {rest}}
  ELSE IF parts[1] \in DOMAIN Stores THEN ExtractPath(Stores[parts[1]], Tail(parts))
  ELSE {}

RECURSIVE Eval(_), EvalArgs(_, _, _)
\* the arguments from left to right, until one fails
EvalArgs(name, nodes, args) ==
  IF Len(args) = Len(nodes) THEN Apply(name, args)
  ELSE UNION {IF arg.status = "ok" THEN EvalArgs(name, nodes, Append(args, arg.value)) ELSE {arg} :
                arg \in Eval(nodes[Len(args) + 1])}

\* Eval: all that can come of the expression.  A name without a dot that
\* nothing resolves is a text.  What parses is never deeper than maxEvalDepth.
Eval(node) ==
  CASE node.kind = "literal" -> {Ok(node.value)}
    [] node.kind = "variable" ->
         LET path == node.value.text IN
         IF Resolve(path) # {} THEN {Ok(v) : v \in Resolve(path)}
         ELSE IF "." \in ToSet(path) THEN {Error} ELSE {Ok(node.value)}
    [] node.kind = "call" ->
         IF node.value.text \in DOMAIN Registry
         THEN EvalArgs(Registry[node.value.text], node.args, <<>>) ELSE {Error}
    [] node.kind = "error" -> {Error}

EvalString(s) == Eval(Parse(Tokenize(s, 1)))
-----------------------------------------------------------------------------
(***************************************************************************)
(* Interpolate: all that can come of a text.                               *)
(***************************************************************************)
\* variant: a backslash inside quotes does not protect what follows it
RECURSIVE EndUnescaped(_, _, _, _)
EndUnescaped(s, j, depth, quote) ==
  IF j > Len(s) THEN 0
  ELSE IF quote # "" THEN EndUnescaped(s, j + 1, depth, IF s[j] = quote THEN "" ELSE quote)
  ELSE IF s[j] \in Quotes THEN EndUnescaped(s, j + 1, depth, s[j])
  ELSE IF s[j] = "(" THEN EndUnescaped(s, j + 1, depth + 1, quote)
  ELSE IF s[j] = ")" THEN EndUnescaped(s, j + 1, depth - 1, quote)
  ELSE IF s[j] = "}" /\ depth = 0 THEN j
  ELSE EndUnescaped(s, j + 1, depth, quote)

\* findExpressionEnd: the position of the closing brace, 0 when there is none;
\* quote is the quote that is open
RECURSIVE ExpressionEnd(_, _, _, _)
ExpressionEnd(s, j, depth, quote) ==
  IF j > Len(s) THEN 0
  ELSE IF quote # "" /\ s[j] = "\\" /\ j < Len(s) THEN ExpressionEnd(s, j + 2, depth, quote)
  ELSE IF quote # "" THEN ExpressionEnd(s, j + 1, depth, IF s[j] = quote THEN "" ELSE quote)
  ELSE IF s[j] \in Quotes THEN ExpressionEnd(s, j + 1, depth, s[j])
  ELSE IF s[j] = "(" THEN ExpressionEnd(s, j + 1, depth + 1, quote)
  ELSE IF s[j] = ")" THEN ExpressionEnd(s, j + 1, depth - 1, quote)
  ELSE IF s[j] = "}" /\ depth = 0 THEN j
  ELSE ExpressionEnd(s, j + 1, depth, quote)

\* the closing brace of the reference that starts at i, 0 without one
IsFn(s, i) == i + 4 <= Len(s) /\ SubSeq(s, i + 2, i + 4) = <<"f", "n", ":">>
ClosingBrace(s, i) ==
  IF IsFn(s, i) THEN ExpressionEnd(s, i + 2, 0, "")
  ELSE SelectInSubSeq(s, i, Len(s), LAMBDA c : c = "}")

\* evalExpression or Resolve of what stands between the braces
Reference(s, i, end) ==
  LET body == SubSeq(s, i + 2, end - 1) IN
  IF IsFn(s, i) THEN EvalString(SubSeq(s, i + 5, end - 1))
  ELSE IF Resolve(body) = {} THEN {Error} ELSE {Ok(v) : v \in Resolve(body)}

RECURSIVE Interpolate(_, _, _)
Interpolate(s, i, text) ==
  IF i > Len(s) THEN {Ok(Text(text))}
  ELSE IF s[i] = "\\" /\ At(s, i + 1) = "$" THEN Interpolate(s, i + 2, Append(text, "$"))
  ELSE IF s[i] = "$" /\ At(s, i + 1) = "{" /\ ClosingBrace(s, i) # 0
       THEN LET end == ClosingBrace(s, i) IN
            UNION {IF o.status = "ok" THEN Interpolate(s, end + 1, text \o ToText(o.value)) ELSE {o} :
                     o \in Reference(s, i, end)}
  ELSE Interpolate(s, i + 1, Append(text, s[i]))

\* InterpolateMap, interpolateValue: every text of a list or of a map; one that
\* fails fails the whole, and a map is read in any order
RECURSIVE InterpolateValue(_)
InterpolateValue(v) ==
  LET Each(f) ==
        LET outcomes == [k \in DOMAIN f |-> InterpolateValue(f[k])] IN
        [fails |-> {o \in UNION {outcomes[k] : k \in DOMAIN f} : o.status # "ok"},
         values |-> {g \in [DOMAIN f -> {o.value : o \in UNION {outcomes[k] : k \in DOMAIN f}}] :
                       \A k \in DOMAIN f : Ok(g[k]) \in outcomes[k]}]
  IN CASE v.type = "string" -> Interpolate(v.text, 1, <<>>)
       [] v.type = "list" -> Each(v.items).fails \cup {Ok(List(g)) : g \in Each(v.items).values}
       [] v.type = "map" -> Each(v.fields).fails \cup {Ok(Map(g)) : g \in Each(v.fields).values}
       [] OTHER -> {Ok(v)}
-----------------------------------------------------------------------------
(***************************************************************************)
(* Properties, of a text e.                                                *)
(***************************************************************************)
Around(t) == <<"A">> \o t \o <<"A">>
InBraces(e) == Around(<<"$", "{", "f", "n", ":">> \o e \o <<"}">>)
Escape(t) == FlattenSeq([k \in DOMAIN t |-> IF t[k] = "$" THEN <<"\\", "$">> ELSE <<t[k]>>])

\* What an expression is worth does not depend on where it stands: unless it
\* is wrong on its own, Interpolate finds exactly its end and puts its value
\* between what surrounds it.  A text whose dollars are escaped is read back
\* as it was, whatever else it holds, alone and within a map.
\* (fixture.go:103-212 against lexer.go:60-82, which read quotes differently)
InterpolationSound(e) ==
  /\ EvalString(e) = {Error} \/
       Interpolate(InBraces(e), 1, <<>>) =
         {IF o.status = "ok" THEN Ok(Text(Around(ToText(o.value)))) ELSE o : o \in EvalString(e)}
  /\ Interpolate(Escape(e), 1, <<>>) = {Ok(Text(e))}
  /\ LET within(t) == Map([k \in {"k"} |-> List(<<Text(t), Nil>>)]) IN
       InterpolateValue(within(Escape(e))) = {Ok(within(e))}
=============================================================================
