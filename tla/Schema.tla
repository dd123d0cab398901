------------------------------- MODULE Schema -------------------------------
(***************************************************************************)
(* core/schema and core/yaml/decoder.go: from the tree of a suite file to  *)
(* the suite that the engine runs.                                         *)
(*                                                                         *)
(* The tree is a value of Values.  ParseSuite reads it twice, once by the  *)
(* types of the fields (decoder.go) and once as it is, and takes the steps *)
(* and the interactions from the second reading, the rest from the first.  *)
(* A text is a sequence of characters as elsewhere, but only whole texts   *)
(* are told apart here, and null is always the empty scalar.               *)
(***************************************************************************)
EXTENDS Values, SequencesExt, FiniteSets

CONSTANT Durations  \* time.ParseDuration, a function on the texts it accepts

Has(m, key) == m.type = "map" /\ key \in DOMAIN m.fields
Field(m, key) == IF Has(m, key) THEN m.fields[key] ELSE Nil
\* m[key].(type): what is of another type counts as missing
TextOf(m, key) == IF Field(m, key).type = "string" THEN Field(m, key).text ELSE <<>>
ItemsOf(m, key) == IF Field(m, key).type = "list" THEN Field(m, key).items ELSE <<>>
Maps(items) == SelectSeq(items, LAMBDA v : v.type = "map")
Scalar(v) == v.type \in {"nil", "int", "float", "bool", "string"}
-----------------------------------------------------------------------------
(***************************************************************************)
(* decoder.go: which trees a Go type accepts, and what becomes of scalars. *)
(***************************************************************************)
Type(kind, of) == [kind |-> kind, of |-> of]
TextType == Type("string", <<>>)
IntType == Type("int", <<>>)
BoolType == Type("bool", <<>>)
AnyType == Type("any", <<>>)
ListOf(type) == Type("list", <<type>>)
MapOf(type) == Type("map", <<type>>)
PointerTo(type) == Type("pointer", <<type>>)
Struct(fields) == Type("struct", fields)

StepType == Struct([connector |-> TextType, action |-> TextType, assert |-> ListOf(MapOf(AnyType)),
                    capture |-> MapOf(TextType), timeout |-> TextType])
TestType == Struct([name |-> TextType, connector |-> TextType, tags |-> ListOf(TextType),
                    skip |-> BoolType, weight |-> IntType, steps |-> ListOf(StepType)])
InteractionType == Struct([name |-> TextType, weight |-> IntType, mode |-> TextType,
                           tests |-> ListOf(TestType)])
ProviderType == Struct([provider |-> TextType, weight |-> IntType, ttl |-> IntType])
ExecutionType == Struct([mode |-> TextType, concurrency |-> IntType, duration |-> TextType,
  repeat |-> IntType, interval |-> TextType,
  fleet |-> PointerTo(Struct([providers |-> ListOf(ProviderType)]))])
SuiteType == Struct([suite |-> TextType, tags |-> ListOf(TextType), setup |-> ListOf(StepType),
  teardown |-> ListOf(StepType), fixtures |-> MapOf(AnyType), tests |-> ListOf(TestType),
  execution |-> PointerTo(ExecutionType), interactions |-> ListOf(InteractionType)])

\* decodeInto succeeds; fields a struct does not know are skipped, and no value
\* at all is only accepted as a text, by a pointer or as anything
RECURSIVE Fits(_, _)
Fits(v, type) ==
  CASE type.kind = "any" -> TRUE
    [] type.kind = "string" -> Scalar(v)
    [] type.kind = "int" -> v.type \in {"int", "float"}
    [] type.kind = "bool" -> v.type = "bool"
    [] type.kind = "list" -> v.type = "list" /\ \A k \in DOMAIN v.items : Fits(v.items[k], type.of[1])
    [] type.kind = "map" -> v.type = "map" /\ \A k \in DOMAIN v.fields : Fits(v.fields[k], type.of[1])
    [] type.kind = "pointer" -> v.type = "nil" \/ Fits(v, type.of[1])
    [] type.kind = "struct" ->
         v.type = "map" /\ \A k \in DOMAIN v.fields \cap DOMAIN type.of : Fits(v.fields[k], type.of[k])

\* decodeScalar into a string keeps the characters of any scalar, into an int
\* cuts a float; a missing field keeps the zero of its type
TypedText(m, key) ==
  LET v == Field(m, key) IN
  CASE v.type = "string" -> v.text [] v.type = "nil" -> <<>> [] OTHER -> <<v.type>>
TypedInt(m, key) == IF Has(m, key) THEN IntOf(Field(m, key)) ELSE 0
TypedTexts(m, key) == [k \in DOMAIN ItemsOf(m, key) |->
                         LET v == ItemsOf(m, key)[k] IN IF v.type = "string" THEN v.text ELSE <<v.type>>]
-----------------------------------------------------------------------------
(***************************************************************************)
(* parse.go.                                                               *)
(***************************************************************************)
KnownStepFields == {"connector", "action", "assert", "capture", "timeout"}

ParseTestStep(raw) ==
  LET captured == Field(raw, "capture").fields IN
  [connector |-> TextOf(raw, "connector"), action |-> TextOf(raw, "action"),
   timeout |-> TextOf(raw, "timeout"), assert |-> Maps(ItemsOf(raw, "assert")),
   capture |-> [k \in {j \in DOMAIN captured : captured[j].type = "string"} |-> captured[k].text],
   parameters |-> [k \in DOMAIN raw.fields \ KnownStepFields |-> raw.fields[k]]]

ParseStepsFromRaw(raw, key) ==
  LET steps == Maps(ItemsOf(raw, key)) IN [k \in DOMAIN steps |-> ParseTestStep(steps[k])]

\* a test of the suite: by its types, except for its steps
TypedTest(raw) ==
  [name |-> TypedText(raw, "name"), connector |-> TypedText(raw, "connector"),
   tags |-> TypedTexts(raw, "tags"), skip |-> Field(raw, "skip").num = 1,
   weight |-> TypedInt(raw, "weight"), steps |-> ParseStepsFromRaw(raw, "steps")]

\* variant: a test of an interaction is never skipped
InteractionTestUnskipped(raw) ==
  [name |-> TextOf(raw, "name"), connector |-> TextOf(raw, "connector"),
   tags |-> <<>>, skip |-> FALSE,
   weight |-> IF Field(raw, "weight").type = "int" THEN IntOf(Field(raw, "weight")) ELSE 0,
   steps |-> ParseStepsFromRaw(raw, "steps")]

\* a test of an interaction, field by field from the tree
InteractionTest(raw) ==
  LET tags == SelectSeq(ItemsOf(raw, "tags"), LAMBDA v : v.type = "string") IN
  [name |-> TextOf(raw, "name"), connector |-> TextOf(raw, "connector"),
   tags |-> [k \in DOMAIN tags |-> tags[k].text],
   skip |-> Field(raw, "skip").type = "bool" /\ Field(raw, "skip").num = 1,
   weight |-> IF Field(raw, "weight").type = "int" THEN IntOf(Field(raw, "weight")) ELSE 0,
   steps |-> ParseStepsFromRaw(raw, "steps")]

ParseInteractions(list) ==
  [k \in DOMAIN Maps(list) |->
     LET raw == Maps(list)[k] tests == Maps(ItemsOf(raw, "tests")) IN
     [name |-> TextOf(raw, "name"), mode |-> TextOf(raw, "mode"),
      weight |-> IF Field(raw, "weight").type = "int" THEN IntOf(Field(raw, "weight")) ELSE 0,
      tests |-> [j \in DOMAIN tests |-> InteractionTest(tests[j])]]]

\* FleetProvider, with the configuration found under the provider's own name
Provider(raw) ==
  LET name == TypedText(raw, "provider") IN
  [provider |-> name, weight |-> TypedInt(raw, "weight"), ttl |-> TypedInt(raw, "ttl"),
   config |-> IF Len(name) = 1 /\ Field(raw, name[1]).type = "map" THEN Field(raw, name[1]) ELSE Nil]

\* Execution, as sequences of at most one for what may be missing
Executions(raw) ==
  LET e == Field(raw, "execution") fleet == Field(e, "fleet") IN
  IF e.type = "nil" THEN <<>>
  ELSE <<[mode |-> TypedText(e, "mode"), concurrency |-> TypedInt(e, "concurrency"),
          duration |-> TypedText(e, "duration"), repeat |-> TypedInt(e, "repeat"),
          interval |-> TypedText(e, "interval"),
          fleets |-> IF fleet.type = "nil" THEN <<>>
                     ELSE <<[k \in DOMAIN ItemsOf(fleet, "providers") |->
                               Provider(ItemsOf(fleet, "providers")[k])]>>]>>

\* what ParseSuite makes of a tree that has the types of a suite
Suite(raw) ==
  [suite |-> TypedText(raw, "suite"), setup |-> ParseStepsFromRaw(raw, "setup"),
   teardown |-> ParseStepsFromRaw(raw, "teardown"),
   tests |-> [k \in DOMAIN ItemsOf(raw, "tests") |-> TypedTest(ItemsOf(raw, "tests")[k])],
   interactions |-> ParseInteractions(ItemsOf(raw, "interactions")),
   executions |-> Executions(raw)]
-----------------------------------------------------------------------------
(***************************************************************************)
(* validate.go, each function as what must hold for it to add no error.    *)
(***************************************************************************)
Modes == {<<"sequential">>, <<"random">>, <<"concurrent">>, <<"weighted">>}
ValidDuration(text) == text = <<>> \/ text \in DOMAIN Durations

ValidTests(tests) ==
  \A k \in DOMAIN tests :
    /\ tests[k].name # <<>> /\ tests[k].steps # <<>> /\ tests[k].weight >= 0
    /\ \A j \in DOMAIN tests[k].steps : tests[k].steps[j].action # <<>>

ValidInteraction(i) ==
  /\ i.name # <<>> /\ i.weight >= 0 /\ i.mode \in Modes \cup {<<>>}
  /\ i.tests # <<>> /\ ValidTests(i.tests)

WeightSum(providers) == FoldLeft(LAMBDA sum, p : sum + p.weight, 0, providers)

ValidFleet(providers) ==
  /\ \A k \in DOMAIN providers :
       providers[k].provider # <<>> /\ providers[k].weight >= 0 /\ providers[k].ttl >= 0
  /\ WeightSum(providers) = 100

\* variant: repeat: 0 is accepted without a duration
ValidExecutionUnbounded(e) ==
  /\ e.mode \in Modes \cup {<<>>} /\ e.concurrency >= 0
  /\ (e.mode = <<"concurrent">>) => e.concurrency > 0
  /\ ValidDuration(e.duration) /\ ValidDuration(e.interval) /\ e.repeat >= 0
  /\ \A k \in DOMAIN e.fleets : ValidFleet(e.fleets[k])

\* the demand for an end in weighted mode follows from the one on repeat
ValidExecution(e) ==
  /\ e.mode \in Modes \cup {<<>>} /\ e.concurrency >= 0
  /\ (e.mode = <<"concurrent">>) => e.concurrency > 0
  /\ ValidDuration(e.duration) /\ ValidDuration(e.interval) /\ e.repeat >= 0
  /\ (e.repeat = 0) => (e.duration # <<>>)
  /\ \A k \in DOMAIN e.fleets : ValidFleet(e.fleets[k])

ValidSuite(s) ==
  /\ s.suite # <<>>
  /\ (s.tests = <<>>) # (s.interactions = <<>>)
  /\ ValidTests(s.tests)
  /\ \A k \in DOMAIN s.interactions : ValidInteraction(s.interactions[k])
  /\ \A k \in DOMAIN s.executions : ValidExecution(s.executions[k])

\* ParseSuite returns a suite and no error
SuiteAccepted(raw) == Fits(raw, SuiteType) /\ ValidSuite(Suite(raw))
-----------------------------------------------------------------------------
(***************************************************************************)
(* What the engine does with an execution block (engine.go:295-323).       *)
(***************************************************************************)
\* no text and a wrong text are both no duration
ParseDuration(text) == IF text \in DOMAIN Durations THEN Durations[text] ELSE 0

\* how often the passes are repeated: without a last pass and a deadline, once
Repeats(e) == IF e.repeat = 0 /\ ParseDuration(e.duration) = 0 THEN 1 ELSE e.repeat

\* the loop controller stops at a last pass or at a deadline
LoopEnds(e) == Repeats(e) > 0 \/ ParseDuration(e.duration) > 0

\* weights of the dispatcher: what is not positive counts as one
Weights(items) == [k \in DOMAIN items |-> IF items[k].weight <= 0 THEN 1 ELSE items[k].weight]
-----------------------------------------------------------------------------
(***************************************************************************)
(* Properties, of a tree.                                                  *)
(***************************************************************************)
AllTests(s) == s.tests \o FlattenSeq([k \in DOMAIN s.interactions |-> s.interactions[k].tests])
AllRawTests(raw) ==
  ItemsOf(raw, "tests") \o
    FlattenSeq([k \in DOMAIN ItemsOf(raw, "interactions") |-> ItemsOf(ItemsOf(raw, "interactions")[k], "tests")])

\* every scalar is written as a value of its field's own type
RECURSIVE Plain(_, _)
Plain(v, type) ==
  CASE type.kind \in {"string", "int"} -> v.type = type.kind
    [] type.kind \in {"list", "map", "pointer"} ->
         v.type \in {"list", "map"} =>
           LET parts == IF v.type = "list" THEN v.items ELSE v.fields IN
           IF type.kind = "pointer" THEN Plain(v, type.of[1])
           ELSE \A k \in DOMAIN parts : Plain(parts[k], type.of[1])
    [] type.kind = "struct" ->
         v.type = "map" => \A k \in DOMAIN v.fields \cap DOMAIN type.of : Plain(v.fields[k], type.of[k])
    [] OTHER -> TRUE

\* A suite that ParseSuite accepts is one the engine can run to its end: it has
\* tests or interactions and not both, its tests and steps are all of those the
\* file has, each with an action, its modes are known, its providers' weights
\* can be drawn from, its loop ends unless the duration is negative, which
\* validation accepts, and no file that asks for unlimited passes gets one.
\* (validate.go:51-187 against engine.go:295-345)
SuiteRuns(raw) ==
  SuiteAccepted(raw) =>
    LET s == Suite(raw) tests == AllTests(s) rawTests == AllRawTests(raw) IN
    /\ Len(tests) = Len(rawTests) /\ tests # <<>>
    /\ \A k \in DOMAIN tests :
         /\ Len(tests[k].steps) = Len(ItemsOf(rawTests[k], "steps"))
         /\ \A j \in DOMAIN tests[k].steps : tests[k].steps[j].action # <<>>
    /\ \A k \in DOMAIN s.executions :
         LET e == s.executions[k] IN
         /\ LoopEnds(e) \/ ParseDuration(e.duration) < 0
         /\ e.duration = <<>> => Repeats(e) = e.repeat
         /\ \A f \in ToSet(e.fleets) : \E p \in ToSet(f) : p.weight > 0

\* Nothing is lost between the file and the suite: when every scalar has the
\* type of its field, each key of a step is a field or a parameter with the
\* value that was written, and a test reads the same whether it stands in the
\* suite, where the decoder reads it, or in an interaction, where
\* parseInteractions does.  (parse.go:11-63 and 115-176)
SuiteReadAlike(raw) ==
  Fits(raw, SuiteType) /\ Plain(raw, SuiteType) =>
    \A test \in ToSet(AllRawTests(raw)) :
      /\ InteractionTest(test) = TypedTest(test)
      /\ \A step \in ToSet(ItemsOf(test, "steps")) :
           LET parsed == ParseTestStep(step) IN
           \A key \in DOMAIN step.fields :
             IF key \in {"connector", "action", "timeout"} THEN Text(parsed[key]) = step.fields[key]
             ELSE IF key = "assert" THEN List(parsed.assert) = step.fields[key]
             ELSE IF key = "capture" THEN DOMAIN parsed.capture = DOMAIN step.fields[key].fields
             ELSE parsed.parameters[key] = step.fields[key]
=============================================================================
