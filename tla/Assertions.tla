----------------------------- MODULE Assertions -----------------------------
(***************************************************************************)
(* core/assertion: the operators of a step's assertions.  DefaultBuilder   *)
(* checks the expected value and the options when the assertion is built;  *)
(* Evaluate compares it with a value taken from a result, which can have   *)
(* any type.  The operators are separate code; the property says how their *)
(* verdicts fit together.                                                  *)
(***************************************************************************)
EXTENDS Values, SequencesExt, FiniteSets
-----------------------------------------------------------------------------
(* Conversions.                                                            *)

\* toInt: integers and floats, which are cut; a duration is not converted
HasInt(x) == x.type \in {"int", "float"}

\* toDuration: numbers are nanoseconds; texts that begin with a digit are durations
HasDuration(x) == Numeric(x) \/ (x.type = "string" /\ x.text # <<>> /\ x.text[1] = "5")
DurationOf(x) == IF x.type = "string" THEN 10 ELSE 2 * IntOf(x)

\* reflect kinds that have a length
Sized(x) == x.type \in {"string", "list", "map", "headers"}
Size(x) == Len(x.text) + Len(x.items) + Cardinality(DOMAIN x.fields)
-----------------------------------------------------------------------------
(* What Evaluate accepts: the expected value e, the actual value x.        *)

BothNumeric(e, x) == Numeric(e) /\ Numeric(x)
NumericEqual(e, x) == BothNumeric(e, x) /\ FloatOf(x) = FloatOf(e)

GreaterThan(e, x) == BothNumeric(e, x) /\ FloatOf(x) > FloatOf(e)
LessThan(e, x) == BothNumeric(e, x) /\ FloatOf(x) < FloatOf(e)

\* variant: the bound itself is left out
GreaterOrEqualStrict(e, x) == BothNumeric(e, x) /\ FloatOf(x) > FloatOf(e)
GreaterOrEqual(e, x) == BothNumeric(e, x) /\ FloatOf(x) >= FloatOf(e)

LessOrEqual(e, x) == BothNumeric(e, x) /\ FloatOf(x) <= FloatOf(e)
InRange(lo, hi, x) ==
  BothNumeric(lo, hi) /\ Numeric(x) /\ FloatOf(x) >= FloatOf(lo) /\ FloatOf(x) <= FloatOf(hi)

\* == of two interfaces that hold slices or maps of one type panics
Panics(e, x) == e.type = x.type /\ e.type \in {"list", "map", "headers"}
Equal(e, x) == e = x \/ NumericEqual(e, x)
NotEqual(e, x) == e # x /\ ~NumericEqual(e, x)
DeepEqual(e, x) == e = x

StatusCode(e, x) == HasInt(x) /\ IntOf(x) = IntOf(e)
\* a class is its first status; here classes have two codes each
Classes == {"1xx", "2xx"}
StatusClass(class, x) == HasInt(x) /\ IntOf(x) \in (IF class = "1xx" THEN {1, 2} ELSE {3, 4})
ResponseTimeBelow(e, x) == x.type = "duration" /\ x.num < DurationOf(e)

Occurs(s, t) == \E i \in 0 .. Len(t) - Len(s) : SubSeq(t, i + 1, i + Len(s)) = s
ContainsText(e, x) == x.type = "string" /\ Occurs(e.text, x.text)
NotContains(e, x) == x.type = "string" /\ ~Occurs(e.text, x.text)
HasPrefix(e, x) == x.type = "string" /\ IsPrefix(e.text, x.text)
HasSuffix(e, x) == x.type = "string" /\ IsSuffix(e.text, x.text)
\* patterns are plain texts here, and one with "(" does not compile
Compiles(e) == ~\E i \in DOMAIN e.text : e.text[i] = "("
Matches(e, x) == x.type = "string" /\ Occurs(e.text, x.text)

LengthIs(e, x) ==
  \/ x = Nil /\ IntOf(e) = 0
  \/ Sized(x) /\ Size(x) = IntOf(e)
Empty(x) == x = Nil \/ (Sized(x) /\ Size(x) = 0)
CollectionNotEmpty(x) == Sized(x) /\ Size(x) > 0
\* what has no length is not empty
NotEmpty(x) == x # Nil /\ (Sized(x) => Size(x) > 0)

\* accepted: the places of the list whose element the inner assertion accepts
EachOf(accepted, x) == x.type = "list" /\ DOMAIN x.items \subseteq accepted
AnyOf(accepted, x) == x.type = "list" /\ DOMAIN x.items \cap accepted # {}
AllOf(accepted, x) == x.type = "list" /\ \A i \in DOMAIN x.items : i \in accepted

\* headersFromActual: of keys that differ in case only the one visited last stays
Lower(key) == IF key = "H" THEN "h" ELSE key
HeaderMaps(x) ==
  LET keys == DOMAIN x.fields lowered == {Lower(k) : k \in keys} IN
  {[l \in lowered |-> x.fields[from[l]]] :
     from \in {f \in [lowered -> keys] : \A l \in lowered : Lower(f[l]) = l}}

HeaderEquals(name, e, headers) ==
  Lower(name) \in DOMAIN headers /\ \E v \in ToSet(headers[Lower(name)]) : v = e.text
HeaderContains(name, e, headers) ==
  Lower(name) \in DOMAIN headers /\ \E v \in ToSet(headers[Lower(name)]) : Occurs(e.text, v)
HeaderExists(name, headers) == Lower(name) \in DOMAIN headers

JSONPath(path, e, x) == \E y \in ExtractPath(x, path) : DeepEqual(e, y) \/ NumericEqual(e, y)
-----------------------------------------------------------------------------
(* DefaultBuilder.Build, with the names that are not aliases.              *)

TextOps == {"contains", "not_contains", "has_prefix", "has_suffix", "matches", "json_path",
            "status_class", "header_contains", "header_exists"}
InnerOps == {"each", "any", "all"}
Operators == TextOps \cup InnerOps \cup
  {"eq", "neq", "deep_equal", "gt", "lt", "gte", "lte", "in_range", "not_empty", "status_code",
   "header_equals", "response_time_below", "length", "empty", "collection_not_empty"}

\* options: those given.  No suite file can hold the Assertion that InnerOps ask for.
Builds(op, e, options) ==
  /\ op \in Operators
  /\ op \in TextOps => e.type = "string"
  /\ op = "matches" => Compiles(e)
  /\ op = "status_class" => Len(e.text) = 1 /\ e.text[1] \in Classes
  /\ op \in {"status_code", "length"} => HasInt(e)
  /\ op = "response_time_below" => HasDuration(e)
  /\ op = "in_range" => {"min", "max"} \subseteq options
  /\ op \in {"header_equals", "header_contains"} => "header" \in options
  /\ op = "json_path" => "expected" \in options
  /\ op \in InnerOps => "assertion" \in options

\* the verdict of the operators without options
Verdict(op, e, x) ==
  IF ~Builds(op, e, {}) THEN "refused"
  ELSE IF op \in {"eq", "neq"} /\ Panics(e, x) THEN "panic"
  ELSE IF \/ op = "eq" /\ Equal(e, x)
          \/ op = "neq" /\ NotEqual(e, x)
          \/ op = "deep_equal" /\ DeepEqual(e, x)
          \/ op = "contains" /\ ContainsText(e, x)
          \/ op = "not_contains" /\ NotContains(e, x)
          \/ op = "has_prefix" /\ HasPrefix(e, x)
          \/ op = "has_suffix" /\ HasSuffix(e, x)
          \/ op = "matches" /\ Matches(e, x)
          \/ op = "gt" /\ GreaterThan(e, x)
          \/ op = "lt" /\ LessThan(e, x)
          \/ op = "gte" /\ GreaterOrEqual(e, x)
          \/ op = "lte" /\ LessOrEqual(e, x)
          \/ op = "not_empty" /\ NotEmpty(x)
          \/ op = "status_code" /\ StatusCode(e, x)
          \/ op = "status_class" /\ StatusClass(e.text[1], x)
          \/ op = "response_time_below" /\ ResponseTimeBelow(e, x)
          \/ op = "length" /\ LengthIs(e, x)
          \/ op = "empty" /\ Empty(x)
          \/ op = "collection_not_empty" /\ CollectionNotEmpty(x)
          \/ op = "header_exists" /\ x.type = "headers" /\
               \A h \in HeaderMaps(x) : HeaderExists(e.text[1], h)
       THEN "pass" ELSE "fail"
-----------------------------------------------------------------------------
\* operators of which exactly one accepts a value of the type they are for
Opposites == {<<"eq", "neq">>, <<"contains", "not_contains">>, <<"empty", "collection_not_empty">>,
              <<"gt", "lte">>, <<"lt", "gte">>}

(* For every expected value e, actual value x and upper bound hi:          *)
(* opposite operators never both accept, and one of them does if the value *)
(* has the type they are for, equal values panic under both; the four      *)
(* comparisons, equality and in_range follow one order, rounding           *)
(* included; equality of any depth agrees with equality where that returns,*)
(* and a path compares without panic; the three ways to ask for size       *)
(* agree; a condition on all elements and its opposite on some exclude each*)
(* other, and nothing holds of some element of an empty list; what is in a *)
(* header as a whole is in it as a part, whatever the case of its name and *)
(* whichever of two keys survives.                                         *)
AssertionsAgree(e, x, hi) ==
  LET P(op) == Verdict(op, e, x) = "pass"
      Right(op) == op \in {"gt", "lt", "gte", "lte"} => BothNumeric(e, x)
      Accepted(op) == {i \in DOMAIN x.items : Verdict(op, e, x.items[i]) = "pass"}
  IN
  /\ \A pair \in Opposites :
       /\ ~(P(pair[1]) /\ P(pair[2]))
       /\ Verdict(pair[1], e, x) = "panic" <=> Verdict(pair[2], e, x) = "panic"
       /\ Right(pair[1]) /\ (pair[1] = "contains" => x.type = "string" /\ e.type = "string")
            /\ (pair[1] = "empty" => Sized(x)) /\ Verdict(pair[1], e, x) # "panic"
          => P(pair[1]) \/ P(pair[2])
       /\ EachOf(Accepted(pair[1]), x) => ~AnyOf(Accepted(pair[2]), x)
       /\ AllOf(Accepted(pair[1]), x) <=> EachOf(Accepted(pair[1]), x)
  /\ BothNumeric(e, x) => Cardinality({op \in {"gt", "eq", "lt"} : P(op)}) = 1
  /\ InRange(e, hi, x) <=> P("gte") /\ Verdict("lte", hi, x) = "pass"
  /\ P("deep_equal") => P("eq") \/ Verdict("eq", e, x) = "panic"
  /\ JSONPath(<<"a", "b">>, e, Map([a |-> Map([b |-> x])])) <=> P("deep_equal") \/ NumericEqual(e, x)
  /\ JSONPath(<<"a", "b">>, e, x) => x.type = "map"
  /\ P("has_prefix") \/ P("has_suffix") => P("contains")
  /\ P("empty") <=> Verdict("length", Number("int", 0), x) = "pass"
  /\ P("empty") => ~P("not_empty")
  /\ P("collection_not_empty") => P("not_empty")
  /\ e.type = "string" /\ x.type = "headers" => \A h \in HeaderMaps(x) :
       /\ HeaderEquals("H", e, h) => HeaderContains("h", e, h)
       /\ HeaderContains("h", e, h) => HeaderExists("H", h)
  /\ HasInt(e) /\ HasInt(x) /\ StatusCode(e, x) =>
       \A class \in Classes : StatusClass(class, x) <=> StatusClass(class, e)

\* the verdicts of operators fit together (core/assertion)
AssertionsHold == Of("assertion") => AssertionsAgree(input.e, input.x, input.hi)

\* one assertion, over any values
AssertionSpec ==
  /\ Of("assertion") => WellShaped(input.e) /\ WellShaped(input.x) /\ WellShaped(input.hi)
  /\ [][UNCHANGED input]_input
=============================================================================
