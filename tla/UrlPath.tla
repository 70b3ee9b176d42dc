------------------------------- MODULE UrlPath ------------------------------
(***************************************************************************)
(* Names and URL paths of src/object_model.cpp: childPath gives a resource *)
(* its route when it is published, canonicalRequestPath turns the target   *)
(* of a request into the route it asks for.  A path is a sequence of       *)
(* bytes.                                                                  *)
(***************************************************************************)
EXTENDS Integers, Sequences, SequencesExt, Increasing, Utf8

CONSTANTS MaxName, MaxRoute, MaxTarget \* 1024, 4096 and 8192 bytes in the code

(* There are names, and every route fits a request.                        *)
ASSUME LimitAssumption ==
  MaxName \in Nat \ {0} /\ MaxRoute \in Nat /\ MaxTarget \in Nat /\ MaxRoute <= MaxTarget

Slash == 47
Percent == 37
Question == 63
Hash == 35

Root == <<114>>

ValidName(name) ==
  /\ name # <<>> /\ Len(name) <= MaxName
  /\ name \notin {<<46>>, <<46, 46>>}
  /\ 0 \notin ToSet(name)
  /\ ValidUtf8(name)

Unreserved(c) ==
  \/ c \in 65 .. 90 \/ c \in 97 .. 122 \/ c \in 48 .. 57
  \/ c \in {45, 46, 95, 126}

Digit(d) == IF d < 10 THEN 48 + d ELSE 55 + d

EncodeByte(c) == IF Unreserved(c) THEN <<c>> ELSE <<Percent, Digit(c \div 16), Digit(c % 16)>>

EncodeSegment(name) == FlattenSeq([i \in DOMAIN name |-> EncodeByte(name[i])])

Hex(c) ==
  CASE c \in 48 .. 57 -> c - 48
    [] c \in 65 .. 70 -> c - 55
    [] c \in 97 .. 102 -> c - 87
    [] OTHER -> -1

(* Bytes that stand for themselves.                                        *)
PlainLenient(c) == c > 32 /\ c \notin {127, 92}

Plain(c) == c > 32 /\ c \notin {127, 92, Percent}

(* One step over the bytes of a segment: skip counts the hexadecimal       *)
(* digits that an escape has already used.                                 *)
Scan(segment, s, i) ==
  LET c == segment[i]
      escape == Len(segment) - i >= 2 /\ Hex(segment[i + 1]) >= 0 /\ Hex(segment[i + 2]) >= 0
      reads == s.ok /\ s.skip = 0
  IN CASE ~s.ok -> s
       [] s.ok /\ s.skip > 0 -> [s EXCEPT !.skip = @ - 1]
       [] reads /\ c = Percent /\ escape ->
            [s EXCEPT !.skip = 2, !.out = Append(@, 16 * Hex(segment[i + 1]) + Hex(segment[i + 2]))]
       [] reads /\ Plain(c) -> [s EXCEPT !.out = Append(@, c)]
       [] OTHER -> [s EXCEPT !.ok = FALSE]

DecodeSegment(segment) ==
  LET scan[i \in 0 .. Len(segment)] ==
        IF i = 0 THEN [ok |-> TRUE, skip |-> 0, out |-> <<>>] ELSE Scan(segment, scan[i - 1], i)
  IN  scan[Len(segment)]

BeforeQuery(target) ==
  IF Question \in ToSet(target)
  THEN SubSeq(target, 1, SelectInSeq(target, LAMBDA c : c = Question) - 1) ELSE target

(* What follows each slash, up to the next one.                            *)
Segments(path) ==
  LET starts == InOrder({i \in DOMAIN path : path[i] = Slash})
      end(k) == IF k = Len(starts) THEN Len(path) ELSE starts[k + 1] - 1
  IN  [k \in DOMAIN starts |-> SubSeq(path, starts[k] + 1, end(k))]

Refused == [ok |-> FALSE, path |-> <<>>]

CanonicalRequestPath(target) ==
  LET segments == Segments(BeforeQuery(target))
      decoded == [k \in DOMAIN segments |-> DecodeSegment(segments[k])]
  IN  IF \/ target = <<>> \/ target[1] # Slash
         \/ Len(target) > MaxTarget \/ Hash \in ToSet(target)
         \/ \E k \in DOMAIN decoded : ~decoded[k].ok \/ ~ValidName(decoded[k].out)
      THEN Refused
      ELSE [ok |-> TRUE,
            path |-> FlattenSeq([k \in DOMAIN decoded |-> <<Slash>> \o EncodeSegment(decoded[k].out)])]

(* The route of a child; childPath throws for a name or a length it does   *)
(* not support.                                                            *)
ChildPath(parent, name) ==
  LET path == parent \o <<Slash>> \o EncodeSegment(name)
  IN  IF ValidName(name) /\ Len(path) <= MaxRoute THEN [ok |-> TRUE, path |-> path] ELSE Refused

----------------------------------------------------------------------------
(* A definition to compare with.                                           *)

(* The ways to spell a resource: each byte as it is, where a path may have *)
(* it, or as an escape with digits of either case.                         *)

Literal(c) == c > 32 /\ c \notin {127, 92, Slash, Percent, Question, Hash}
DigitSpellings(d) == IF d < 10 THEN {48 + d} ELSE {55 + d, 87 + d}
ByteSpellings(c) ==
  (IF Literal(c) THEN {<<c>>} ELSE {}) \cup
  {<<Percent, h, l>> : h \in DigitSpellings(c \div 16), l \in DigitSpellings(c % 16)}
Joined(S, R) == {s \o r : s \in S, r \in R}
JoinAll(sets) ==
  LET upto[k \in 0 .. Len(sets)] == IF k = 0 THEN {<<>>} ELSE Joined(upto[k - 1], sets[k])
  IN  upto[Len(sets)]
NameSpellings(name) == JoinAll([i \in DOMAIN name |-> ByteSpellings(name[i])])
Spellings(ns) == JoinAll([k \in DOMAIN ns |-> Joined({<<Slash>>}, NameSpellings(ns[k]))])

Spells(target, ns) ==
  /\ Len(target) <= MaxTarget /\ Hash \notin ToSet(target)
  /\ \E s \in Spellings(ns) : s = target \/ IsPrefix(s \o <<Question>>, target)
=============================================================================
