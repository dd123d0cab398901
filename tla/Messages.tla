------------------------------ MODULE Messages ------------------------------
(***************************************************************************)
(* connector/grpc/reflect.go: a step's parameters become a message of the  *)
(* method's input type, and a message that comes back becomes a value.     *)
(*                                                                         *)
(* A type has a kind and, for messages, its fields; a field of a message   *)
(* also has a label: "one", "list" or "map" (with the kind of its key).    *)
(* Integers of 32 bits have Bits32 bits here and those of 64 bits one more;*)
(* a float of 32 bits holds whole numbers only.  The Go types of what comes*)
(* back (int64, uint32, float32) are not told apart from those of a file.  *)
(***************************************************************************)
EXTENDS Values, SequencesExt

CONSTANTS Bits32, EnumNumbers   \* the width, and the names of an enum's values

ASSUME MessagesAssumption == Bits32 \in Nat \ {0}

Kind(kind) == [kind |-> kind, fields |-> <<>>]
Message(fields) == [kind |-> "message", fields |-> fields]
FieldOf(label, key, type) == [label |-> label, key |-> key, type |-> type]

\* int32(v), uint32(v) and their likes keep the low bits
WrapSigned(n, bits) == ((n + 2 ^ (bits - 1)) % 2 ^ bits) - 2 ^ (bits - 1)
WrapUnsigned(n, bits) == n % 2 ^ bits
IsNumber(v) == v.type \in {"int", "float"}

\* variant: an unsigned field is converted like a signed one
CoerceIntegerSigned(kind, v) ==
  LET bits == IF kind \in {"int32", "uint32", "enum"} THEN Bits32 ELSE Bits32 + 1 IN
  IF ~IsNumber(v) THEN {} ELSE {Number("int", 2 * WrapSigned(IntOf(v), bits))}

\* coerceInt32 and its likes, and the numbers of coerceEnum: a fraction is cut off
CoerceInteger(kind, v) ==
  LET bits == IF kind \in {"int32", "uint32", "enum"} THEN Bits32 ELSE Bits32 + 1 IN
  IF ~IsNumber(v) THEN {}
  ELSE {Number("int", 2 * (IF kind \in {"uint32", "uint64"} THEN WrapUnsigned(IntOf(v), bits)
                           ELSE WrapSigned(IntOf(v), bits)))}

\* coerceScalar and buildDynamicMessage: at most one result, none for an error
RECURSIVE CoerceScalar(_, _), BuildMessage(_, _)
CoerceScalar(type, v) ==
  CASE type.kind \in {"int32", "uint32", "int64", "uint64"} -> CoerceInteger(type.kind, v)
    [] type.kind = "enum" ->
         IF v.type # "string" THEN CoerceInteger("enum", v)
         ELSE IF v.text \in DOMAIN EnumNumbers THEN {Number("int", 2 * EnumNumbers[v.text])} ELSE {}
    [] type.kind = "float" -> IF IsNumber(v) THEN {Number("float", 2 * (v.num \div 2))} ELSE {}
    [] type.kind = "double" -> IF IsNumber(v) THEN {Number("float", v.num)} ELSE {}
    [] type.kind = "bytes" -> IF v.type = "string" THEN {[v EXCEPT !.type = "bytes"]} ELSE {}
    [] type.kind = "message" -> IF v.type = "map" THEN BuildMessage(type, v) ELSE {}
    [] OTHER -> IF v.type = type.kind THEN {v} ELSE {}
\* coerceValue; the keys of a map are texts, whatever the map asks for
CoerceValue(field, v) ==
  LET Parts(container) == [k \in DOMAIN container |-> CoerceScalar(field.type, container[k])]
      All(parts) == \A k \in DOMAIN parts : parts[k] # {}
      Some(parts) == [k \in DOMAIN parts |-> CHOOSE w \in parts[k] : TRUE] IN
  CASE field.label = "one" -> CoerceScalar(field.type, v)
    [] field.label = "list" -> IF v.type = "list" /\ All(Parts(v.items)) THEN {List(Some(Parts(v.items)))} ELSE {}
    [] field.label = "map" ->
         IF v.type = "map" /\ (field.key = "string" \/ v.fields = <<>>) /\ All(Parts(v.fields))
           THEN {Map(Some(Parts(v.fields)))} ELSE {}
BuildMessage(type, m) ==
  LET parts == [k \in DOMAIN m.fields \cap DOMAIN type.fields |-> CoerceValue(type.fields[k], m.fields[k])] IN
  IF DOMAIN m.fields \subseteq DOMAIN type.fields /\ \A k \in DOMAIN parts : parts[k] # {}
    THEN {Map([k \in DOMAIN parts |-> CHOOSE w \in parts[k] : TRUE])} ELSE {}

\* Message.Has: an empty list or map is not there, and neither is a scalar that is zero
Present(field, w) ==
  IF field.label # "one" THEN w.items # <<>> \/ w.fields # <<>>
  ELSE field.type.kind = "message" \/ w.num # 0 \/ w.text # <<>>

\* singleProtoValueToGo, protoValueToGo and dynamicMessageToMap
RECURSIVE ScalarToGo(_, _), MessageToMap(_, _)
ScalarToGo(type, w) == IF type.kind = "message" THEN MessageToMap(type, w) ELSE w
ValueToGo(field, w) ==
  CASE field.label = "one" -> ScalarToGo(field.type, w)
    [] field.label = "list" -> List([k \in DOMAIN w.items |-> ScalarToGo(field.type, w.items[k])])
    [] field.label = "map" -> Map([k \in DOMAIN w.fields |-> ScalarToGo(field.type, w.fields[k])])
MessageToMap(type, w) ==
  Map([k \in {j \in DOMAIN w.fields : Present(type.fields[j], w.fields[j])} |->
         ValueToGo(type.fields[k], w.fields[k])])
-----------------------------------------------------------------------------
\* what a field of the type holds without a loss
RECURSIVE Representable(_, _)
Representable(type, v) ==
  CASE type.kind \in {"int32", "int64", "uint32", "uint64"} ->
         LET bits == IF type.kind \in {"int32", "uint32"} THEN Bits32 ELSE Bits32 + 1
             low == IF type.kind \in {"int32", "int64"} THEN -(2 ^ (bits - 1)) ELSE 0 IN
         v.type = "int" /\ low <= IntOf(v) /\ IntOf(v) < low + 2 ^ bits
    [] type.kind = "float" -> v.type = "float" /\ v.num % 2 = 0
    [] type.kind = "double" -> v.type = "float"
    [] type.kind = "message" -> 
         /\ v.type = "map" /\ DOMAIN v.fields \subseteq DOMAIN type.fields
         /\ \A k \in DOMAIN v.fields :
              /\ type.fields[k].label = "one" /\ Representable(type.fields[k].type, v.fields[k])
              /\ Present(type.fields[k], v.fields[k])
    [] type.kind \in {"string", "bool"} -> v.type = type.kind
    [] OTHER -> FALSE

\* When a server sends a message back, the step can assert what it has sent: a value
\* that its field can hold comes back the same, except that a zero comes back as a
\* missing key (not so in a list), and no key comes back that was not sent.
\* (reflect.go:264-284 against 495-510)
MessageEchoed(type, m) ==
  \A sent \in BuildMessage(type, m) :
    LET back == MessageToMap(type, sent).fields IN
    /\ DOMAIN back \subseteq DOMAIN m.fields
    /\ \A k \in DOMAIN m.fields :
         LET field == type.fields[k] v == m.fields[k]
             lossless == CASE field.label = "one" -> Representable(field.type, v)
                           [] field.label = "list" -> \A j \in DOMAIN v.items : Representable(field.type, v.items[j])
                           [] OTHER -> \A j \in DOMAIN v.fields : Representable(field.type, v.fields[j])
         IN lossless => IF Present(field, v) THEN k \in DOMAIN back /\ back[k] = v ELSE k \notin DOMAIN back

\* A message that is refused has a field that the type does not have or cannot take:
\* no field that holds its value without a loss is the reason.
MessageAccepted(type, m) ==
  (/\ DOMAIN m.fields \subseteq DOMAIN type.fields
   /\ \A k \in DOMAIN m.fields : type.fields[k].label = "one" /\ Representable(type.fields[k].type, m.fields[k]))
    => BuildMessage(type, m) # {}
=============================================================================
