----------------------------- MODULE ValueCodec -----------------------------
(***************************************************************************)
(* The conversions between RTT values and JSON: JsonConversion and         *)
(* TypedTypeCodec (include/rtt/http/typed_codec.hpp), ReflectedCodec       *)
(* (src/reflected_codec.cpp) and the canonical types (canonical_types.cpp).*)
(*                                                                         *)
(* Integers of 64 bits have WideBits here and the shorter ones SmallBits.  *)
(* A number is counted in halves; one of floating point has DoubleBits or  *)
(* FloatBits significant bits, fewer than an integer may need, so that     *)
(* conversions round.  A string is a sequence of characters, of which a    *)
(* quote needs an escape, a control character a longer one, and "bad" is   *)
(* not UTF-8.  In the text of a document a control character may have a    *)
(* short escape, such as \n, instead: "short".                             *)
(***************************************************************************)
EXTENDS Integers, Sequences, SequencesExt, CodecContext

CONSTANTS SmallBits, WideBits, \* widths of short integers and of 64 bit ones
          DoubleBits, FloatBits, \* significant bits of Float64 and Float32
          FloatMax,            \* the largest Float32, in halves
          Composites           \* types beyond the canonical ones, by name

Integer(bits, signed) == [kind |-> "integer", bits |-> bits, signed |-> signed]

(* canonicalProtocol, one name for the types that differ only in width.    *)
Types == [
  Bool |-> [kind |-> "boolean"],
  Int32 |-> Integer(SmallBits, TRUE), UInt32 |-> Integer(SmallBits, FALSE),
  Int64 |-> Integer(WideBits, TRUE), UInt64 |-> Integer(WideBits, FALSE),
  Float32 |-> [kind |-> "float", single |-> TRUE],
  Float64 |-> [kind |-> "float", single |-> FALSE],
  String |-> [kind |-> "string"],
  Float64Array |-> [kind |-> "vector", element |-> "Float64"],
  Int32Array |-> [kind |-> "vector", element |-> "Int32"],
  StringArray |-> [kind |-> "vector", element |-> "String"],
  FlowStatus |-> [kind |-> "enum", wire |-> "Int32"],
  Void |-> [kind |-> "void"]]

TypeOf(name) == IF name \in DOMAIN Types THEN Types[name] ELSE Composites[name]

----------------------------------------------------------------------------
CharBytes(ch) == CASE ch = "quote" -> 2 [] ch = "control" -> 6 [] OTHER -> 1

AccountJsonString(c, s) ==
  IF "bad" \in ToSet(s) THEN Fail(c, "invalid_utf8")
  ELSE FoldLeft(LAMBDA r, ch : Then(r, LAMBDA d : Account(d, CharBytes(ch))), Account(c, 2), s)

(* F for each element of s in turn, the outcomes collected in a list.      *)
ForEach(c, s, F(_, _)) ==
  FoldLeft(LAMBDA r, x : Then(r, LAMBDA d :
             LET q == F(d, x)
             IN  IF q.err # "none" THEN q ELSE Done(q.ctx, [list |-> Append(r.out.list, q.out)])),
           Done(c, [list |-> <<>>]), s)

----------------------------------------------------------------------------
(* Integers.                                                               *)

Wide(T) == T.bits = WideBits
Lowest(T) == IF T.signed THEN -(2^(T.bits - 1)) ELSE 0
Highest(T) == IF T.signed THEN 2^(T.bits - 1) - 1 ELSE 2^T.bits - 1
InRange(T, n) == Lowest(T) <= n /\ n <= Highest(T)

DigitChars == <<"0", "1", "2", "3", "4", "5", "6", "7", "8", "9">>
DigitValue(ch) == (CHOOSE i \in DOMAIN DigitChars : DigitChars[i] = ch) - 1

RECURSIVE Decimal(_)
Decimal(n) == IF n < 10 THEN <<DigitChars[n + 1]>>
              ELSE Append(Decimal(n \div 10), DigitChars[(n % 10) + 1])

(* std::to_chars                                                           *)
ToChars(n) == IF n < 0 THEN <<"-">> \o Decimal(-n) ELSE Decimal(n)

(* std::from_chars accepts all of s: a minus sign if the type has one,     *)
(* digits, a value in range.                                               *)
Magnitude(s) == IF s # <<>> /\ s[1] = "-" THEN Tail(s) ELSE s
Parsed(s) ==
  LET n == FoldLeft(LAMBDA sum, ch : 10 * sum + DigitValue(ch), 0, Magnitude(s))
  IN  IF Magnitude(s) = s THEN n ELSE -n
FromChars(T, s) ==
  /\ Magnitude(s) # <<>> /\ ToSet(Magnitude(s)) \subseteq ToSet(DigitChars)
  /\ Magnitude(s) # s => T.signed
  /\ InRange(T, Parsed(s))

EncodeNumber(T, v, c) ==
  Then(Account(c, Len(ToChars(v.int))), LAMBDA d :
    Done(d, IF T.signed THEN [n |-> v.int] ELSE [u |-> v.int]))

EncodeInteger(T, v, c) ==
  Then(Account(c, Len(ToChars(v.int)) + (IF Wide(T) THEN 2 ELSE 0)), LAMBDA d :
    Done(d, IF Wide(T) THEN [s |-> ToChars(v.int)]
            ELSE IF T.signed THEN [n |-> v.int] ELSE [u |-> v.int]))

(* A decimal string in the one form that to_chars gives.                   *)
DecodeWide(T, j, c) ==
  IF "s" \in DOMAIN j /\ FromChars(T, j.s) /\ ToChars(Parsed(j.s)) = j.s
  THEN Done(c, [int |-> Parsed(j.s)])
  ELSE Fail(c, "type_mismatch")

DecodeSmallUpper(T, j, c) ==
  CASE "n" \in DOMAIN j /\ j.n <= Highest(T) -> Done(c, [int |-> j.n])
    [] "u" \in DOMAIN j /\ j.u <= Highest(T) -> Done(c, [int |-> j.u])
    [] "h" \in DOMAIN j /\ j.h % 2 = 0 /\ InRange(T, j.h \div 2) -> Done(c, [int |-> j.h \div 2])
    [] OTHER -> Fail(c, "type_mismatch")

(* An int64, a uint64, or a double without a fraction, if it fits.         *)
DecodeSmall(T, j, c) ==
  CASE "n" \in DOMAIN j /\ InRange(T, j.n) -> Done(c, [int |-> j.n])
    [] "u" \in DOMAIN j /\ j.u <= Highest(T) -> Done(c, [int |-> j.u])
    [] "h" \in DOMAIN j /\ j.h % 2 = 0 /\ InRange(T, j.h \div 2) -> Done(c, [int |-> j.h \div 2])
    [] OTHER -> Fail(c, "type_mismatch")

----------------------------------------------------------------------------
(* Floating point.                                                         *)

FloatNames == {"NaN", "Infinity", "-Infinity"}

EncodeFloat(v, c) ==
  Then(Account(c, 1), LAMBDA d : Done(d, IF "non" \in DOMAIN v THEN [s |-> <<v.non>>] ELSE [h |-> v.flt]))

Absolute(h) == IF h < 0 THEN -h ELSE h

(* static_cast<double>, static_cast<float>: to the nearest number of so    *)
(* many significant bits, ties to even.                                    *)
Rounded(bits, h) ==
  LET m == Absolute(h)
      unit == 2^(CHOOSE e \in 0 .. m : m < 2^(bits + e) /\ (e = 0 \/ m >= 2^(bits + e - 1)))
      q == m \div unit
      r == m % unit
      n == unit * (IF 2 * r > unit \/ (2 * r = unit /\ q % 2 = 1) THEN q + 1 ELSE q)
  IN  IF h < 0 THEN -n ELSE n

(* `staged`: the parser's double, or the nearest one to an integer.        *)
DecodeFloat(T, j, c) ==
  IF "s" \in DOMAIN j
  THEN IF Len(j.s) = 1 /\ j.s[1] \in FloatNames THEN Done(c, [non |-> j.s[1]]) ELSE Fail(c, "type_mismatch")
  ELSE IF DOMAIN j \cap {"h", "n", "u"} = {} THEN Fail(c, "type_mismatch")
  ELSE LET h == IF "h" \in DOMAIN j THEN j.h
                ELSE Rounded(DoubleBits, 2 * (IF "n" \in DOMAIN j THEN j.n ELSE j.u))
       IN  IF T.single /\ Absolute(h) > FloatMax THEN Fail(c, "type_mismatch")
           ELSE Done(c, [flt |-> IF T.single THEN Rounded(FloatBits, h) ELSE h])

----------------------------------------------------------------------------
(* Booleans, strings, Void.                                                *)

EncodeBool(v, c) == Then(Account(c, IF v.bool THEN 4 ELSE 5), LAMBDA d : Done(d, [b |-> v.bool]))
DecodeBool(j, c) == IF "b" \in DOMAIN j THEN Done(c, [bool |-> j.b]) ELSE Fail(c, "type_mismatch")

EncodeString(v, c) == Then(AccountJsonString(c, v.str), LAMBDA d : Done(d, [s |-> v.str]))
DecodeString(j, c) ==
  IF "s" \notin DOMAIN j THEN Fail(c, "type_mismatch")
  ELSE Then(AccountJsonString(c, j.s), LAMBDA d : Done(d, [str |-> j.s]))

EncodeVoid(c) == Then(Account(c, 4), LAMBDA d : Done(d, [null |-> 0]))

----------------------------------------------------------------------------
(* Lists and structures, whose elements and members are converted by the   *)
(* codecs of their types.                                                  *)

RECURSIVE Encode(_, _, _)
RECURSIVE Decode(_, _, _)

EncodeElements(c, type, s) ==
  LET r == ForEach(c, s, LAMBDA d, x : Encode(type, x, d))
  IN  IF r.err # "none" THEN r ELSE Done(r.ctx, [a |-> r.out.list])
DecodeElements(c, type, s) == ForEach(c, s, LAMBDA d, x : Decode(type, x, d))

(* std::vector and std::array.                                             *)
EncodeVector(T, v, c) ==
  Scope(Enter(c),
    Then(Account(Enter(c).ctx, IF v.list = <<>> THEN 2 ELSE Len(v.list) + 1), LAMBDA d :
      EncodeElements(d, T.element, v.list)))

DecodeVector(T, j, c) ==
  Scope(Enter(c),
    IF "a" \notin DOMAIN j THEN Fail(Enter(c).ctx, "type_mismatch")
    ELSE Then(Account(Enter(c).ctx, Len(j.a)), LAMBDA d : DecodeElements(d, T.element, j.a)))

DecodeArray(T, j, c) ==
  Scope(Enter(c),
    IF "a" \notin DOMAIN j \/ Len(j.a) # T.length THEN Fail(Enter(c).ctx, "type_mismatch")
    ELSE Then(Account(Enter(c).ctx, T.length), LAMBDA d : DecodeElements(d, T.element, j.a)))

(* ReflectedCodec: sequences, whose length -1 is any, and structures.      *)
EncodeSequence(T, v, c) ==
  Scope(Enter(c),
    Then(Account(Enter(c).ctx, 2), LAMBDA d :
      Then(Account(d, Len(v.list)), LAMBDA e : EncodeElements(e, T.element, v.list))))

DecodeSequence(T, j, c) ==
  Scope(Enter(c),
    IF "a" \notin DOMAIN j \/ (T.length # -1 /\ Len(j.a) # T.length)
    THEN Fail(Enter(c).ctx, "type_mismatch")
    ELSE Then(Account(Enter(c).ctx, Len(j.a)), LAMBDA d : DecodeElements(d, T.element, j.a)))

(* Member i of a structure: its name, a colon and a comma, its value.      *)
EncodeMember(T, v, c, i) ==
  Then(AccountJsonString(c, <<T.members[i].name>>), LAMBDA d :
    Then(Account(d, 2), LAMBDA e : Encode(T.members[i].type, v.list[i], e)))

EncodeStructure(T, v, c) ==
  Scope(Enter(c),
    LET r == Then(Account(Enter(c).ctx, 2), LAMBDA d :
               ForEach(d, [i \in DOMAIN T.members |-> i], LAMBDA e, i : EncodeMember(T, v, e, i)))
    IN  IF r.err # "none" THEN r
        ELSE Done(r.ctx, [o |-> [i \in DOMAIN T.members |->
                                  [name |-> T.members[i].name, value |-> r.out.list[i]]]]))

(* The member of a JSON object by its name.                                *)
Has(j, m) == \E i \in DOMAIN j.o : j.o[i].name = m
At(j, m) == j.o[CHOOSE i \in DOMAIN j.o : j.o[i].name = m].value

DecodeStructure(T, j, c) ==
  Scope(Enter(c),
    IF \/ "o" \notin DOMAIN j \/ Len(j.o) # Len(T.members)
       \/ \E i \in DOMAIN T.members : ~Has(j, T.members[i].name)
    THEN Fail(Enter(c).ctx, "type_mismatch")
    ELSE ForEach(Enter(c).ctx, T.members, LAMBDA d, m : Decode(m.type, At(j, m.name), d)))

----------------------------------------------------------------------------
(* The codec of a type.                                                    *)

Encode(name, v, c) ==
  LET T == TypeOf(name)
  IN CASE T.kind = "void" -> EncodeVoid(c)
       [] T.kind = "boolean" -> EncodeBool(v, c)
       [] T.kind = "integer" -> EncodeInteger(T, v, c)
       [] T.kind = "enum" -> Encode(T.wire, v, c)
       [] T.kind = "float" -> EncodeFloat(v, c)
       [] T.kind = "string" -> EncodeString(v, c)
       [] T.kind \in {"vector", "array"} -> EncodeVector(T, v, c)
       [] T.kind = "sequence" -> EncodeSequence(T, v, c)
       [] T.kind = "structure" -> EncodeStructure(T, v, c)

Decode(name, j, c) ==
  LET T == TypeOf(name)
  IN CASE T.kind = "void" -> Fail(c, "type_mismatch")
       [] T.kind = "boolean" -> DecodeBool(j, c)
       [] T.kind = "integer" -> IF Wide(T) THEN DecodeWide(T, j, c) ELSE DecodeSmall(T, j, c)
       [] T.kind = "enum" -> Decode(T.wire, j, c)
       [] T.kind = "float" -> DecodeFloat(T, j, c)
       [] T.kind = "string" -> DecodeString(j, c)
       [] T.kind = "vector" -> DecodeVector(T, j, c)
       [] T.kind = "array" -> DecodeArray(T, j, c)
       [] T.kind = "sequence" -> DecodeSequence(T, j, c)
       [] T.kind = "structure" -> DecodeStructure(T, j, c)

----------------------------------------------------------------------------
(* The document as the parser hands it on: a control character is one,     *)
(* however its escape was written.                                         *)

RECURSIVE Unescaped(_)
Unescaped(j) ==
  CASE "s" \in DOMAIN j -> [s |-> [i \in DOMAIN j.s |-> IF j.s[i] = "short" THEN "control" ELSE j.s[i]]]
    [] "a" \in DOMAIN j -> [a |-> [i \in DOMAIN j.a |-> Unescaped(j.a[i])]]
    [] "o" \in DOMAIN j -> [o |-> [i \in DOMAIN j.o |-> [j.o[i] EXCEPT !.value = Unescaped(@)]]]
    [] OTHER -> j

----------------------------------------------------------------------------
(* Definitions to compare with.                                            *)

(* The numbers of a floating point type near those of the documents.       *)
WithBits(bits, limit) ==
  {h \in -limit .. limit : \E m \in 0 .. 2^bits - 1, e \in 0 .. DoubleBits + WideBits :
                             Absolute(h) = m * 2^e}
Float32s == WithBits(FloatBits, FloatMax)
Float64s == WithBits(DoubleBits, 2 * FloatMax)

RECURSIVE WellTyped(_, _)
WellTyped(name, v) ==
  LET T == TypeOf(name)
  IN CASE T.kind = "void" -> TRUE
       [] T.kind = "boolean" -> v.bool \in BOOLEAN
       [] T.kind = "integer" -> InRange(T, v.int)
       [] T.kind = "enum" -> WellTyped(T.wire, v)
       [] T.kind = "float" -> IF "non" \in DOMAIN v THEN v.non \in FloatNames
                              ELSE v.flt \in IF T.single THEN Float32s ELSE Float64s
       [] T.kind = "string" -> DOMAIN v = {"str"}
       [] T.kind \in {"vector", "array", "sequence"} ->
            /\ T.kind = "array" \/ (T.kind = "sequence" /\ T.length # -1) => Len(v.list) = T.length
            /\ \A i \in DOMAIN v.list : WellTyped(T.element, v.list[i])
       [] T.kind = "structure" ->
            /\ DOMAIN v.list = DOMAIN T.members
            /\ \A i \in DOMAIN v.list : WellTyped(T.members[i].type, v.list[i])

RECURSIVE Denotes(_, _, _)
(* What a document says, without the order of the code's tests.  To a type *)
(* of floating point it says the nearest number the type has; but that of  *)
(* an integer is rounded twice on its way to a Float32, to one of the two  *)
(* numbers around it.                                                      *)
Denotes(name, j, v) ==
  LET T == TypeOf(name)
      Number == DOMAIN j \cap {"n", "u", "h"} # {}
      Halves == IF "n" \in DOMAIN j THEN 2 * j.n ELSE IF "u" \in DOMAIN j THEN 2 * j.u ELSE j.h
      Nearest(S) == \A x \in S : Absolute(Halves - v.flt) <= Absolute(Halves - x)
      Around(S) == \A x \in S : ~(Halves <= x /\ x < v.flt) /\ ~(v.flt < x /\ x <= Halves)
  IN CASE T.kind = "void" -> FALSE
       [] T.kind = "boolean" -> "b" \in DOMAIN j /\ j.b = v.bool
       [] T.kind = "integer" -> IF Wide(T) THEN "s" \in DOMAIN j /\ j.s = ToChars(v.int)
                                ELSE Number /\ Halves = 2 * v.int
       [] T.kind = "enum" -> Denotes(T.wire, j, v)
       [] T.kind = "float" -> IF "non" \in DOMAIN v THEN "s" \in DOMAIN j /\ j.s = <<v.non>>
                              ELSE IF ~T.single THEN Number /\ Nearest(Float64s)
                              ELSE /\ Number /\ Absolute(Halves) <= FloatMax
                                   /\ Around(Float32s) /\ ("h" \in DOMAIN j => Nearest(Float32s))
       [] T.kind = "string" -> "s" \in DOMAIN j /\ j.s = v.str
       [] T.kind = "structure" ->
            /\ "o" \in DOMAIN j /\ Len(j.o) = Len(v.list)
            /\ \A i \in DOMAIN v.list : /\ Has(j, T.members[i].name)
                                        /\ Denotes(T.members[i].type, At(j, T.members[i].name), v.list[i])
       [] OTHER ->
            /\ "a" \in DOMAIN j /\ Len(j.a) = Len(v.list)
            /\ \A i \in DOMAIN v.list : Denotes(T.element, j.a[i], v.list[i])

(* A sum of numbers.                                                       *)
Total(s) == FoldLeft(LAMBDA sum, x : sum + x, 0, s)

RECURSIVE Text(_)
(* Bytes of the text of a document, numbers counted as one byte.           *)
Text(j) ==
  LET Escaped(ch) == CASE ch \in {"quote", "short"} -> 2 [] ch = "control" -> 6 [] OTHER -> 1
      Separators(s) == IF s = <<>> THEN 2 ELSE Len(s) + 1
  IN CASE "s" \in DOMAIN j -> 2 + Total([i \in DOMAIN j.s |-> Escaped(j.s[i])])
       [] "a" \in DOMAIN j -> Separators(j.a) + Total([i \in DOMAIN j.a |-> Text(j.a[i])])
       [] "o" \in DOMAIN j -> Separators(j.o) + Total([i \in DOMAIN j.o |-> 4 + Text(j.o[i].value)])
       [] OTHER -> 1

RECURSIVE Shorts(_)
(* How many control characters of a document have a short escape.          *)
Shorts(j) ==
  CASE "s" \in DOMAIN j -> Total([i \in DOMAIN j.s |-> IF j.s[i] = "short" THEN 1 ELSE 0])
    [] "a" \in DOMAIN j -> Total([i \in DOMAIN j.a |-> Shorts(j.a[i])])
    [] "o" \in DOMAIN j -> Total([i \in DOMAIN j.o |-> Shorts(j.o[i].value)])
    [] OTHER -> 0
=============================================================================
