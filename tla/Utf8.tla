-------------------------------- MODULE Utf8 --------------------------------
(***************************************************************************)
(* validUtf8 (src/codec_context.cpp), as an operator.                      *)
(* A byte is a number, a text a sequence of bytes.                         *)
(***************************************************************************)
EXTENDS Integers, Sequences, SequencesExt

(* The lead byte of a sequence: the bits of the value it has, the number   *)
(* of bytes that follow and the least value that needs so many.            *)
Lead(value, count, minimum) == [value |-> value, count |-> count, minimum |-> minimum]

HasLead(first) == first >= 194 /\ first <= 244

LeadOf(first) ==
  CASE first >= 194 /\ first <= 223 -> Lead(first % 32, 1, 128)
    [] first >= 224 /\ first <= 239 -> Lead(first % 16, 2, 2048)
    [] first >= 240 /\ first <= 244 -> Lead(first % 8, 3, 65536)

Continues(next) == next \div 64 = 2

IsScalarNoSurrogates(lead, value) == value >= lead.minimum /\ value <= 1114111

IsScalar(lead, value) ==
  value >= lead.minimum /\ value <= 1114111 /\ ~(value >= 55296 /\ value <= 57343)

(* The end of the sequence that starts at index, 0 if there is none.       *)
SequenceEnd(text, index) ==
  LET first == text[index]
      lead == LeadOf(first)
      value[k \in 0 .. lead.count] ==
        IF k = 0 THEN lead.value ELSE (64 * value[k - 1]) + (text[index + k] % 64)
  IN  IF first < 128 THEN index
      ELSE IF /\ HasLead(first) /\ lead.count <= Len(text) - index
              /\ \A k \in 1 .. lead.count : Continues(text[index + k])
              /\ IsScalar(lead, value[lead.count])
      THEN index + lead.count ELSE 0

ValidUtf8(text) ==
  LET from[index \in 1 .. Len(text) + 1] ==
        index <= Len(text) =>
          SequenceEnd(text, index) # 0 /\ from[SequenceEnd(text, index) + 1]
  IN  from[1]

----------------------------------------------------------------------------
(* A definition to compare with: table 3-7 of the Unicode standard.        *)

Tails == 128 .. 191
Units == {<<0 .. 127>>, <<194 .. 223, Tails>>,
          <<{224}, 160 .. 191, Tails>>, <<225 .. 236, Tails, Tails>>,
          <<{237}, 128 .. 159, Tails>>, <<238 .. 239, Tails, Tails>>,
          <<{240}, 144 .. 191, Tails, Tails>>, <<241 .. 243, Tails, Tails, Tails>>,
          <<{244}, 128 .. 143, Tails, Tails>>}

(* A text is well formed if it ends with a unit and is well formed before. *)
WellFormed(s) ==
  LET upto[n \in 0 .. Len(s)] ==
        n = 0 \/ \E u \in Units : /\ Len(u) <= n
                                  /\ \A i \in DOMAIN u : s[n - Len(u) + i] \in u[i]
                                  /\ upto[n - Len(u)]
  IN  upto[Len(s)]
=============================================================================
