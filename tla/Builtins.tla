------------------------------ MODULE Builtins ------------------------------
(***************************************************************************)
(* core/expression/builtins.go: the functions of ${fn:...}.  Each checks   *)
(* the number of its arguments, converts them, and fails or returns a      *)
(* value; the random ones return any of several.                           *)
(*                                                                         *)
(* Integers have a width: MaxInt is the largest, and a sum past it wraps.  *)
(* What the clock, the hash and the codec functions return is a text whose *)
(* characters do not matter.                                               *)
(***************************************************************************)
EXTENDS Values, SequencesExt, FiniteSets

CONSTANTS MaxInt,   \* the largest int
          Env,      \* the environment: a function from names to texts
          Answers   \* the rows a registered database may answer; none without one

ASSUME BuiltinsAssumption == MaxInt \in 1 .. 8

Wrap(n) == ((n + MaxInt + 1) % (2 * (MaxInt + 1))) - (MaxInt + 1)
OfInt(n) == Number("int", 2 * n)
OfFloat(halves) == Number("float", halves)

\* int(v) of a float without a fraction: out of range it becomes the smallest
\* int, as on amd64; and toInt
AsInt(n) == IF n \in -MaxInt .. MaxInt THEN n ELSE -(MaxInt + 1)
ToInt(v) == AsInt(IntOf(v))

\* toString: %v of anything.  A number is written with one digit (and .5), a
\* list or a map with a character of its own
Digits == <<"0", "1", "2", "3", "4", "5", "6", "7", "8", "9">>
ToText(v) ==
  LET size == IF v.num < 0 THEN -v.num ELSE v.num IN
  CASE v.type = "string" -> v.text
    [] v.type = "bool" -> IF v.num = 1 THEN <<"t", "r", "u", "e">> ELSE <<"f", "a", "l", "s", "e">>
    [] v.type = "nil" -> <<"<", "n", "i", "l", ">">>
    [] v.type \in {"int", "float"} ->
         (IF v.num < 0 THEN <<"-">> ELSE <<>>) \o <<Digits[(size \div 2) + 1]>>
           \o (IF size % 2 = 1 THEN <<".", "5">> ELSE <<>>)
    [] OTHER -> <<"*">>

\* the text of a clock, a hash or a codec
Opaque == Text(<<"?">>)

Error == [status |-> "error", value |-> Nil]
Panic == [status |-> "panic", value |-> Nil]
Ok(v) == [status |-> "ok", value |-> v]
Checked(ok, v) == IF ok THEN {Ok(v)} ELSE {Error}

\* registerBuiltins, with the number of arguments; concat takes any number
Arity == [random_string |-> 3, uuid |-> 0, upper |-> 1, lower |-> 1, trim |-> 1, substring |-> 3,
  replace |-> 3, length |-> 1, random_int |-> 2, random_float |-> 2, abs |-> 1, ceil |-> 1,
  floor |-> 1, round |-> 1, min |-> 2, max |-> 2, mod |-> 2, now |-> 0, now_unix |-> 0,
  now_iso |-> 0, now_rfc3339 |-> 0, format_time |-> 1, add_duration |-> 2, base64_encode |-> 1,
  base64_decode |-> 1, url_encode |-> 1, url_decode |-> 1, json_encode |-> 1, md5 |-> 1,
  sha256 |-> 1, sha512 |-> 1, hmac_sha256 |-> 2, env |-> 1, env_or |-> 2, db_query |-> 2,
  db_query_one |-> 2, db_count |-> 2]

\* the arguments that toInt or toFloat must accept
NumberArgs(name) ==
  CASE name \in {"random_string", "substring"} -> {2, 3}
    [] name \in {"random_int", "random_float", "min", "max", "mod"} -> {1, 2}
    [] name \in {"abs", "ceil", "floor", "round"} -> {1}
    [] OTHER -> {}

Accepted(name, args) ==
  name = "concat" \/
    /\ name \in DOMAIN Arity /\ Len(args) = Arity[name]
    /\ \A k \in NumberArgs(name) : args[k].type \in {"int", "float"}
-----------------------------------------------------------------------------
\* crypto/rand.Int draws one of n values and panics when n is not positive
Draw(n, Result(_)) == IF n <= 0 THEN {Panic} ELSE {Ok(Result(k)) : k \in 0 .. n - 1}

Letters(n) == [k \in 1 .. n |-> "r"]

\* the only known charset is the text <<"c">> here
RandomString(args) ==
  LET lo == ToInt(args[2]) hi == ToInt(args[3]) IN
  IF args[1] # Text(<<"c">>) \/ lo < 0 \/ hi < lo THEN {Error}
  ELSE IF hi = lo THEN {Ok(Text(Letters(lo)))}
  ELSE Draw(Wrap(hi - lo + 1), LAMBDA k : Text(Letters(lo + k)))

\* a slice of the runes, when it lies within them
Substring(args) ==
  LET s == ToText(args[1]) from == ToInt(args[2]) to == ToInt(args[3]) IN
  Checked(0 <= from /\ to <= Len(s) /\ from <= to, Text(SubSeq(s, from + 1, to)))

\* ReplaceAll; an empty old text is found before every character and at the end
RECURSIVE Replace(_, _, _)
Replace(s, old, new) ==
  IF old = <<>> THEN new \o FlattenSeq([k \in DOMAIN s |-> <<s[k]>> \o new])
  ELSE IF Len(s) < Len(old) THEN s
  ELSE IF IsPrefix(old, s) THEN new \o Replace(SubSeq(s, Len(old) + 1, Len(s)), old, new)
  ELSE <<Head(s)>> \o Replace(Tail(s), old, new)

\* TrimSpace: what is left between the first and the last other character
Trim(s) ==
  LET kept == {k \in DOMAIN s : s[k] # " "} IN
  IF kept = {} THEN <<>> ELSE SubSeq(s, Min(kept), Max(kept))

Capital(c) == IF c = "a" THEN "A" ELSE c
Small(c) == IF c = "A" THEN "a" ELSE c

StringFunction(name, args) ==
  CASE name = "random_string" -> RandomString(args)
    [] name = "uuid" -> {Ok(Opaque)}
    [] name = "upper" -> {Ok(Text([k \in DOMAIN ToText(args[1]) |-> Capital(ToText(args[1])[k])]))}
    [] name = "lower" -> {Ok(Text([k \in DOMAIN ToText(args[1]) |-> Small(ToText(args[1])[k])]))}
    [] name = "trim" -> {Ok(Text(Trim(ToText(args[1]))))}
    [] name = "concat" -> {Ok(Text(FlattenSeq([k \in DOMAIN args |-> ToText(args[k])])))}
    [] name = "substring" -> Substring(args)
    [] name = "replace" -> {Ok(Text(Replace(ToText(args[1]), ToText(args[2]), ToText(args[3]))))}
    [] name = "length" -> {Ok(OfInt(Len(ToText(args[1]))))}

\* variant: the upper end is never drawn
RandomIntShort(args) ==
  LET lo == ToInt(args[1]) hi == ToInt(args[2]) IN
  IF lo > hi THEN {Error}
  ELSE IF lo = hi THEN {Ok(OfInt(lo))}
  ELSE Draw(Wrap(hi - lo), LAMBDA k : OfInt(Wrap(lo + k)))

RandomInt(args) ==
  LET lo == ToInt(args[1]) hi == ToInt(args[2]) IN
  IF lo > hi THEN {Error}
  ELSE IF lo = hi THEN {Ok(OfInt(lo))}
  ELSE Draw(Wrap(hi - lo + 1), LAMBDA k : OfInt(Wrap(lo + k)))

\* rounding up, and half away from zero, of a number of halves
Ceil(h) == -((-h) \div 2)
Round(h) == IF h >= 0 THEN (h + 1) \div 2 ELSE -((1 - h) \div 2)
\* % has the sign of the dividend
Remainder(a, b) ==
  LET r == (IF a < 0 THEN -a ELSE a) % (IF b < 0 THEN -b ELSE b) IN IF a < 0 THEN -r ELSE r

MathFunction(name, args) ==
  LET h == FloatOf(args[1]) g == FloatOf(args[Len(args)]) IN
  CASE name = "random_int" -> RandomInt(args)
    [] name = "random_float" -> IF h > g THEN {Error} ELSE {Ok(OfFloat(k)) : k \in h .. g}
    [] name = "abs" -> {Ok(OfFloat(IF h < 0 THEN -h ELSE h))}
    [] name = "ceil" -> {Ok(OfInt(AsInt(Ceil(h))))}
    [] name = "floor" -> {Ok(OfInt(AsInt(h \div 2)))}
    [] name = "round" -> {Ok(OfInt(AsInt(Round(h))))}
    [] name = "min" -> {Ok(OfFloat(IF h < g THEN h ELSE g))}
    [] name = "max" -> {Ok(OfFloat(IF h > g THEN h ELSE g))}
    [] name = "mod" -> Checked(ToInt(args[2]) # 0,
         OfInt(IF ToInt(args[2]) = 0 THEN 0 ELSE Remainder(ToInt(args[1]), ToInt(args[2]))))

\* add_duration fails unless it is given a time and a duration
TimeFunction(name, args) ==
  CASE name = "add_duration" -> {Error, Ok(Opaque)}
    [] name = "now_unix" -> {Ok(OfInt(MaxInt))}
    [] OTHER -> {Ok(Opaque)}

\* the decoders fail on what no encoder writes
EncodeFunction(name, args) ==
  (IF name \in {"base64_decode", "url_decode"} THEN {Error} ELSE {}) \cup {Ok(Opaque)}

CryptoFunction(name, args) == {Ok(Opaque)}

EnvFunction(name, args) ==
  LET key == ToText(args[1]) IN
  IF key \in DOMAIN Env THEN {Ok(Text(Env[key]))}
  ELSE IF name = "env_or" THEN {Ok(Text(ToText(args[2])))} ELSE {Error}

\* without a driver every query fails, with one any query may
DBFunction(name, args) ==
  {Error} \cup
    CASE name = "db_query" -> {Ok(List(rows)) : rows \in Answers}
      [] name = "db_query_one" -> {Ok(rows[1]) : rows \in Answers \ {<<>>}}
      [] name = "db_count" -> {Ok(OfInt(Len(rows))) : rows \in Answers}

\* fn(args) of a registered function: all that can come of it
Apply(name, args) ==
  IF ~Accepted(name, args) THEN {Error}
  ELSE CASE name \in {"random_string", "uuid", "upper", "lower", "trim", "concat", "substring",
                      "replace", "length"} -> StringFunction(name, args)
         [] name \in {"random_int", "random_float", "abs", "ceil", "floor", "round", "min", "max",
                      "mod"} -> MathFunction(name, args)
         [] name \in {"now", "now_unix", "now_iso", "now_rfc3339", "format_time",
                      "add_duration"} -> TimeFunction(name, args)
         [] name \in {"base64_encode", "base64_decode", "url_encode", "url_decode",
                      "json_encode"} -> EncodeFunction(name, args)
         [] name \in {"md5", "sha256", "sha512", "hmac_sha256"} -> CryptoFunction(name, args)
         [] name \in {"env", "env_or"} -> EnvFunction(name, args)
         [] name \in {"db_query", "db_query_one", "db_count"} -> DBFunction(name, args)
-----------------------------------------------------------------------------
(***************************************************************************)
(* What the functions promise, for a text s and numbers a and b.           *)
(***************************************************************************)
\* random_int(a, b) draws every integer of a..b and no other, and panics when
\* there are more of them than the largest int (builtins.go:243-266); cutting
\* a text in two and concatenating the halves gives it back, and only a cut
\* within the text works (188-209); the remainder is smaller than the divisor
\* and leaves a multiple of it (360-376); floor and ceil are the integers next
\* to the number, round is one of them (297-328), and all three are the smallest
\* integer when the number as a float is out of range, which it is for the
\* largest integer itself.
BuiltinsSound(s, a, b) ==
  LET lo == ToInt(a) hi == ToInt(b) size == OfInt(Len(s))
      Part(from, to) == Apply("substring", <<Text(s), from, to>>) IN
  /\ Apply("random_int", <<a, b>>) =
       (IF lo > hi THEN {Error} ELSE IF hi - lo >= MaxInt THEN {Panic}
        ELSE {Ok(OfInt(k)) : k \in lo .. hi})
  /\ (lo \in 0 .. Len(s)) <=> (Part(OfInt(0), a) # {Error})
  /\ \A p \in Part(OfInt(0), a), q \in Part(a, size) :
       p.status = "ok" => Apply("concat", <<p.value, q.value>>) = {Ok(Text(s))}
  /\ \A r \in Apply("mod", <<a, b>>) : r.status = "ok" =>
       LET m == IntOf(r.value) IN
       (lo - m) % (IF hi < 0 THEN -hi ELSE hi) = 0 /\ m * m < hi * hi
  /\ \A f \in Apply("floor", <<a>>), c \in Apply("ceil", <<a>>), r \in Apply("round", <<a>>) :
       IF FloatOf(a) \notin -2 * (MaxInt + 1) .. 2 * MaxInt THEN {f, c, r} = {Ok(OfInt(-(MaxInt + 1)))}
       ELSE /\ f.value.num <= FloatOf(a) /\ FloatOf(a) <= c.value.num
            /\ c.value.num - f.value.num = 2 * (FloatOf(a) % 2) /\ r \in {f, c}
  /\ Replace(Replace(s, <<"a">>, <<"(", "(">>), <<"(", "(">>, <<"a">>) = s \/ "(" \in ToSet(s)
=============================================================================
