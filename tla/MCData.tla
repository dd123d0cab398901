------------------------------- MODULE MCData -------------------------------
(***************************************************************************)
(* The data of the program: in a behaviour either the suites of a run write*)
(* their telemetry log, or one input is given to the pure functions that   *)
(* read suite files, evaluate expressions and compare results.             *)
(***************************************************************************)
EXTENDS TelemetryLog, Assertions, Interpolation, Schema, Command, YAML, Messages

CONSTANTS s1, s2, ExpressionSize

OneOf(C, n) == {FlattenSeq(t) : t \in UNION {[1 .. k -> C] : k \in 0 .. n}}
OfType(type, nums) == {Number(type, n) : n \in nums}
T(word) == Text(<<word>>)
I(n) == OfInt(n)
-----------------------------------------------------------------------------
(* Telemetry: an empty record, one with a value of no length and a detail, *)
(* one whose tag is as long as lengths can no longer tell.                 *)
R(time, tags, detail) == [time |-> time, type |-> 3, tags |-> tags, detail |-> detail]
MCRecords == {R(1, <<>>, 0), R(2, (1 :> 2) @@ (2 :> 0), 1), R(3, 1 :> 3, 0)}
-----------------------------------------------------------------------------
(* Assertions: numbers on both sides of Exact, durations, texts that are   *)
(* prefixes of each other, mixed and nested collections, headers.          *)
Numbers == OfType("int", {0, 2, 4, 10, 12, 14}) \cup OfType("float", {1, 2, 4, 12, 16})
             \cup OfType("duration", {2, 10})
Texts == {Text(s) : s \in {<<>>, <<"a">>, <<"a", "b">>, <<"b", "a">>, <<"5">>, <<"1xx">>, <<"(">>}}
Lists == {List(<<>>), List(<<I(1), OfFloat(2)>>), List(<<I(1), T("a")>>),
          List(<<T("a"), Text(<<"a", "b">>)>>), List(<<List(<<>>)>>)}
Maps_ == {Map(<<>>), Map([a |-> I(1)]), Map([a |-> Map([b |-> T("a")])])}
HeaderSets == {Headers([h |-> <<<<"a", "b">>, <<"b">>>>]),
               Headers([h |-> <<<<"a">>>>, H |-> <<<<"b">>>>]), Headers([H |-> <<>>])}
AnyValue == {Nil} \cup Numbers \cup Texts \cup Lists \cup Maps_ \cup HeaderSets

AssertionInputs == [kind : {"assertion"}, e : AnyValue, x : AnyValue, hi : Numbers]
-----------------------------------------------------------------------------
(* Expressions: texts of calls, quotes and braces, of arithmetic and paths,*)
(* of references and escapes, and calls nested up to and past MaxDepth.    *)
MCEnv == <<"A">> :> <<"1">>
MCAnswers == {<<>>, <<Map([c |-> I(1)])>>}
MCRegistry == (<<"c">> :> "concat") @@ (<<"l">> :> "length") @@ (<<"r">> :> "random_int") @@ (<<"s">> :> "substring")
MCStores == <<"f">> :> Map(<<"a">> :> Map(<<"b">> :> T("}")))
Calls == {<<"c", "(">>, <<")">>, <<",">>, <<"'">>, <<"\"">>, <<"\\">>, <<"}">>}
Sums == {<<"r", "(">>, <<"f", ".", "a", ".", "b">>, <<"1">>, <<"-">>, <<",">>, <<")">>, <<" ">>, <<"l", "(">>}
References == {<<"$", "{">>, <<"$">>, <<"\\">>, <<"}">>, <<"f", "n", ":">>, <<"f", ".", "a", ".", "b">>, <<"c", "(">>, <<")">>}
Deep == {FlattenSeq([k \in 1 .. n |-> <<"c", "(">>]) \o <<"1">> \o [k \in 1 .. n |-> ")"] : n \in 1 .. MaxDepth + 1}

Nums == {I(k) : k \in -(MaxInt + 1) .. MaxInt} \cup {OfFloat(k) : k \in {-24, 16} \cup (-5 .. 5)}

ExpressionInputs ==
  [kind : {"expression"},
   text : UNION {OneOf(C, ExpressionSize) : C \in {Calls, Sums, References}} \cup Deep]
BuiltinInputs ==
  [kind : {"builtin"}, s : OneOf({<<"a">>, <<"(">>, <<" ">>}, 3), a : Nums, b : Nums]
-----------------------------------------------------------------------------
(* Suites: steps, tests, interactions and execution blocks, right and wrong*)
MCDurations == (<<"5s">> :> 5) @@ (<<"0s">> :> 0) @@ (<<"-5s">> :> -5)

Steps == {
  Map([action |-> T("get"), url |-> T("u")]),
  Map([connector |-> T("http"), action |-> T("get"), timeout |-> T("5s"),
       assert |-> List(<<Map([status |-> I(200)]), Map([body |-> Nil])>>), capture |-> Map([id |-> T("x")])]),
  Map([action |-> T("get"), timeout |-> I(5), capture |-> Map([id |-> I(1)])]),
  Map([url |-> T("u")]), T("get")}
Extras == {<<>>, [skip |-> Bool(TRUE)], [skip |-> T("yes")], [weight |-> I(2)], [weight |-> I(-1)],
           [weight |-> OfFloat(5)], [connector |-> I(3)], [tags |-> List(<<T("a"), I(1)>>)], [tags |-> List(<<T("a")>>)]}
TestOf(steps, extra) == Map([name |-> T("t"), steps |-> List(steps)] @@ extra)
RawTests ==
  {TestOf(<<step>>, extra) : step \in Steps, extra \in Extras}
    \cup {TestOf(<<>>, <<>>), T("t"), Map([steps |-> List(<<>>)]), Map([name |-> Nil, steps |-> Nil])}
InteractionOf(tests, extra) == Map([name |-> T("i"), tests |-> List(tests)] @@ extra)
Bodies ==
  {<<>>, [tests |-> T("t")], [interactions |-> List(<<T("i")>>)]}
    \cup {[tests |-> List(<<a, b>>)] : a, b \in RawTests}
    \cup {[interactions |-> List(<<InteractionOf(<<a>>, extra)>>)] :
            a \in RawTests, extra \in {<<>>, [mode |-> T("random")], [mode |-> T("fast")], [weight |-> OfFloat(5)]}}

ProviderOf(weight) == Map([provider |-> T("static"), weight |-> weight, static |-> Map([hosts |-> Nil])])
Executions_ ==
  {Nil, T("fast")}
    \cup {Map([mode |-> T(mode), concurrency |-> I(c), repeat |-> r] @@ time) :
            mode \in {"sequential", "concurrent", "weighted", "fast"}, c \in {-1, 0, 1},
            r \in {I(-1), I(0), I(1), OfFloat(1), T("1")},
            time \in {<<>>, [interval |-> T("5")]} \cup {[duration |-> T(d)] : d \in {"5s", "0s", "-5s", "5"}}}
    \cup {Map([repeat |-> I(1), fleet |-> Map([providers |-> List(ps)])]) :
            ps \in {<<>>} \cup {<<ProviderOf(a), ProviderOf(b)>> : a, b \in {I(0), I(100), I(50), I(-50), I(150), Nil}}}

GoodBody == {[tests |-> List(<<TestOf(<<Map([action |-> T("get")])>>, <<>>)>>)],
             [interactions |-> List(<<InteractionOf(<<TestOf(<<Map([action |-> T("get")])>>, <<>>)>>, <<>>)>>)]}

SuiteInputs ==
  [kind : {"suite"},
   raw : {Map([suite |-> T("s")] @@ body) : body \in Bodies}
           \cup {Map([suite |-> T("s"), execution |-> e] @@ body) : e \in Executions_, body \in GoodBody}
           \cup {Map([suite |-> T("s")] @@ a @@ b) : a, b \in GoodBody} \cup {Nil, Map(<<>>)}]
-----------------------------------------------------------------------------
(* Documents: trees of two levels, texts that need quotes, and lists of    *)
(* mappings before another key or another item.                            *)
KeyA == <<"a">>
KeyB == <<"b">>
Trees(S) == {List(t) : t \in UNION {[1 .. n -> S] : n \in 0 .. 2}}
              \cup {Map(f) : f \in UNION {[D -> S] : D \in SUBSET {KeyA, KeyB}}}
Words == {Nil, I(5), T("a")}
QuotedTexts == {Text(s) : s \in {<<"a", " ", "b">>, <<"a", ":", " ", "b">>, <<"a", " ", "#", "b">>, <<"-">>,
  <<"a", "'", "b">>, <<"a", "\"", "\\">>, <<"a", "\n", "b">>, <<"a", ",", "b">>, <<"[", "a">>}}
Nested == Trees({I(5)} \cup Trees(Words))
Mappings == {v \in Nested : v.type = "map"}

DocumentInputs ==
  [kind : {"document"},
   tree : Nested \cup Trees(QuotedTexts)
            \cup {Map((KeyA :> List(<<m>>)) @@ (KeyB :> T("b"))) : m \in Mappings}
            \cup {List(<<m, Map(KeyA :> T("a"))>>) : m \in Mappings}]
-----------------------------------------------------------------------------
(* Messages: a field of every label and kind beside a plain one, and values*)
(* at the ends of its range, past them, and of other types.                *)
MCEnumNumbers == (<<"A">> :> 0) @@ (<<"B">> :> 1)
Kinds == {Kind(k) : k \in {"int32", "uint32", "int64", "uint64", "enum", "float", "double", "bool", "string", "bytes"}}
           \cup {Message([n |-> FieldOf("one", "", Kind("int32")), s |-> FieldOf("one", "", Kind("string"))])}
FieldTypes == {FieldOf(l, "string", k) : l \in {"one", "list", "map"}, k \in Kinds}
                \cup {FieldOf("map", "int32", Kind("string"))}
Atoms == {I(n) : n \in -(2 ^ Bits32) .. 2 ^ Bits32} \cup {OfFloat(0), OfFloat(1), OfFloat(2)}
           \cup {Text(s) : s \in {<<>>, <<"a">>, <<"A">>, <<"B">>}} \cup {Bool(TRUE), Bool(FALSE), Nil}
Few == {I(0), I(-1), I(1), OfFloat(1), T("a"), Bool(TRUE)}
Messages_ == {Map(f) : f \in UNION {[D -> Few] : D \in SUBSET {"n", "s"}}} \cup {Map([z |-> I(1)])}
Given == Atoms \cup Messages_ \cup {List(t) : t \in UNION {[1 .. n -> Few] : n \in 0 .. 2}}
           \cup {List(<<m>>) : m \in Messages_} \cup {Map([k |-> m]) : m \in Messages_ \cup Few}

MessageInputs ==
  [kind : {"message"}, type : {Message([x |-> f, y |-> FieldOf("one", "", Kind("bool"))]) : f \in FieldTypes},
   given : {Map([x |-> v]) : v \in Given} \cup {Map([x |-> v, y |-> Bool(TRUE)]) : v \in Few}]
-----------------------------------------------------------------------------
(* Commands: two configuration files, two suite files and one that is not  *)
(* there, up to two flags, the thresholds 0 and 98.                        *)
MCFiles == ("a.yaml" :> {"smoke"}) @@ ("b.yaml" :> {})

Configs == {[tests |-> tests] @@ gate :
              tests \in {<<>>, <<"a.yaml">>, <<"a.yaml", "b.yaml">>, <<"a.yaml", "c.yaml">>},
              gate \in {<<>>, [threshold |-> 0], [telemetry |-> FALSE, reporters |-> <<"json">>]}}
Arguments == {[flag |-> "tags", value |-> <<"smoke">>], [flag |-> "config", value |-> "x.yaml"],
              [flag |-> "parallelism", value |-> 2], [flag |-> "verbose", value |-> TRUE], [flag |-> "dry"]}

CommandInputs ==
  [kind : {"command"}, files : {<<>>} \cup {"scrutineer.yaml" :> c : c \in Configs},
   args : UNION {[1 .. k -> Arguments] : k \in 0 .. 2}, writable : BOOLEAN,
   failing : SUBSET DOMAIN MCFiles, covered : {97, 98}]
-----------------------------------------------------------------------------
MCInit ==
  \/ LogStarts(TRUE) /\ input = [kind |-> "log"]
  \/ LogStarts(FALSE) /\ \/ input \in AssertionInputs \/ input \in ExpressionInputs
                         \/ input \in BuiltinInputs \/ input \in SuiteInputs \/ input \in CommandInputs
                         \/ input \in DocumentInputs \/ input \in MessageInputs

MCNext == LogNext /\ UNCHANGED input

MCSpec == MCInit /\ [][MCNext]_<<fileVars, input>>

\* expressions are found, evaluated and put in place (core/expression, core/fixture)
ExpressionsHold ==
  /\ Of("expression") => InterpolationSound(input.text)
  /\ Of("builtin") => BuiltinsSound(input.s, input.a, input.b)
\* an accepted suite can be run to its end (core/schema/validate.go, core/engine)
SuitesRun == Of("suite") => SuiteRuns(input.raw)
\* nothing is lost between a file and its suite (core/yaml, core/schema/parse.go)
SuitesReadAlike ==
  /\ Of("suite") => SuiteReadAlike(input.raw)
  /\ Of("document") => DocumentReadBack(input.tree)
\* what a step sends is what it can assert (connector/grpc/reflect.go)
MessagesEchoed ==
  Of("message") => MessageEchoed(input.type, input.given) /\ MessageAccepted(input.type, input.given)
\* parser.go:244, violated: an item of one key takes the keys that follow its list
DocumentsReadBack == Of("document") => KeysStayInPlace(input.tree)
=============================================================================
