------------------------------- MODULE Values -------------------------------
(***************************************************************************)
(* The values that suite files, results and expressions hold in Go's "any",*)
(* and what core/assertion, core/expression and core/fixture share on them.*)
(*                                                                         *)
(* A value has a type and one field for each kind of content, so that any  *)
(* two can be compared.  A number is counted in halves, so that 3 is the   *)
(* float 1.5.  Integers above Exact (2^53 in the code) are rounded when    *)
(* they become floats.  A text is a sequence of characters.                *)
(***************************************************************************)
EXTENDS Integers, Sequences, FiniteSets

CONSTANT Exact

ASSUME ValuesAssumption == Exact \in Nat

VARIABLE input  \* what the functions are given: a record of its kind and the arguments

Of(kind) == input.kind = kind

Nil == [type |-> "nil", num |-> 0, text |-> <<>>, items |-> <<>>, fields |-> <<>>]
Number(type, halves) == [Nil EXCEPT !.type = type, !.num = halves]
Bool(b) == [Nil EXCEPT !.type = "bool", !.num = IF b THEN 1 ELSE 0]
Text(s) == [Nil EXCEPT !.type = "string", !.text = s]
List(items) == [Nil EXCEPT !.type = "list", !.items = items]
\* map[string]any, and the types of headers: each key has a list of texts
Map(fields) == [Nil EXCEPT !.type = "map", !.fields = fields]
Headers(fields) == [Nil EXCEPT !.type = "headers", !.fields = fields]

\* what every value is, and what it is made of
Shaped(x) ==
  /\ x.num \in Int /\ x.text \in Seq(STRING)
  /\ x.items \in Seq({x.items[i] : i \in DOMAIN x.items})
  /\ IsFiniteSet(DOMAIN x.fields)
WellShaped(x) == Shaped(x) /\ \A i \in DOMAIN x.items : Shaped(x.items[i])

Numeric(x) == x.type \in {"int", "float", "duration"}

\* toFloat64: above Exact the nearest even integer, ties to a multiple of four
FloatOf(x) ==
  LET k == x.num \div 2 IN
  IF x.type = "float" \/ (-Exact <= k /\ k <= Exact) \/ k % 2 = 0 THEN x.num
  ELSE IF (k + 1) % 4 = 0 THEN 2 * (k + 1) ELSE 2 * (k - 1)

\* int(v) cuts the fraction off, towards zero
IntOf(x) == IF x.num >= 0 THEN x.num \div 2 ELSE -((-x.num) \div 2)

\* extractPath, navigatePath, Extract: a key for each part, nothing when one is missing
ExtractPath(x, path) ==
  LET found[k \in 0 .. Len(path)] ==
        IF k = 0 THEN {x}
        ELSE {y.fields[path[k]] :
                y \in {z \in found[k - 1] : z.type = "map" /\ path[k] \in DOMAIN z.fields}}
  IN found[Len(path)]
=============================================================================
