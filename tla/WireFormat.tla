----------------------------- MODULE WireFormat -----------------------------
(***************************************************************************)
(* What a client sees of rtt_http: the functions that turn names into      *)
(* paths, values into JSON and results into replies, and back.  They keep  *)
(* nothing from one call to the next, so a behaviour is a call of one of   *)
(* them; an argument that is a sequence grows by an element at a time.     *)
(***************************************************************************)
EXTENDS Integers, Sequences, SequencesExt, ResourceFormat, ValueCodec, JsonOutput

CONSTANTS Values, Documents, \* values and documents, by type
          JsonValues         \* values for serializeJson

PutValue ==
  /\ call = Idle
  /\ \E type \in DOMAIN Values : \E j \in Documents[type] :
       Returns("makeDataSource", [type |-> type, doc |-> j], Decode(type, Unescaped(j), Fresh))

GetValue ==
  /\ call = Idle
  /\ \E type \in DOMAIN Values : \E v \in Values[type] :
       Returns("toJson", [type |-> type, value |-> v], Encode(type, v, Fresh))

WriteValue ==
  /\ call = Idle
  /\ \E v \in JsonValues, place \in {"string", "null"}, exceeds \in {"none", "walk", "serializer"} :
       Returns("serializeJson", [value |-> v, place |-> place, exceeds |-> exceeds],
               SerializeJson(v, place, exceeds))

Next ==
  ResourceNext \/ PutValue \/ GetValue \/ WriteValue

Spec == ResourceInit /\ [][Next]_call

----------------------------------------------------------------------------
(* Properties.                                                             *)

(* A document that makeDataSource accepts says the value that is stored,   *)
(* and that value belongs to the type: nothing wraps, is truncated, has    *)
(* the wrong length or lacks a member, and only floating point rounds, to  *)
(* the nearest number or, from an integer to a Float32, to one of the two  *)
(* around it.  One that is refused for its type says no value the type     *)
(* has.  One refused as too long is, or would be if every control          *)
(* character had its long escape: accountJsonString charges that, so a     *)
(* document within the limit is refused only for its short escapes.        *)
(* However the conversion ends, it has left every scope that it entered.   *)
PutExact ==
  call.fn = "makeDataSource" =>
    LET type == call.arg.type
        doc == call.arg.doc
        r == call.out
    IN  /\ r.err = "none" => WellTyped(type, r.out) /\ Denotes(type, Unescaped(doc), r.out)
        /\ r.err = "type_mismatch" => \A v \in Values[type] : ~Denotes(type, Unescaped(doc), v)
        /\ r.err = "document_limit" => Text(doc) + 4 * Shorts(doc) > MaxBytes
        /\ r.ctx.depth = 0

(* What toJson writes, makeDataSource reads back as the same value within  *)
(* the same limits, also at the ends of the ranges of the 64 bit integers  *)
(* and for what JSON has no number for.                                    *)
GotCanBePut ==
  call.fn = "toJson" =>
    /\ call.out.err = "none" /\ call.arg.type # "Void" =>
         LET r == Decode(call.arg.type, call.out.out, Fresh)
         IN  r.err = "none" /\ r.out = call.arg.value
    /\ call.out.ctx.depth = 0

(* The walk of validateOutput misses nothing and invents nothing: what is  *)
(* written has only UTF-8 strings and keys, finite numbers and nesting     *)
(* within the limit, and is the whole text, in however many parts it came; *)
(* an error is one that the value has.                                     *)
SerializeExact ==
  call.fn = "serializeJson" =>
    LET v == call.arg.value
        r == call.out
        flaws == {e \in {"invalid_utf8", "type_mismatch", "depth_limit"} :
                    CASE e = "invalid_utf8" -> Holds(v, "bad") \/ BadKey(v)
                      [] e = "type_mismatch" -> Holds(v, "inf")
                      [] e = "depth_limit" -> Height(v) > MaxDepth}
    IN  CASE r.err = "none" -> flaws = {} /\ r.out = TextSize(v) /\ TextSize(v) <= MaxBytes
          [] r.err = "document_limit" -> flaws = {} /\ TextSize(v) > MaxBytes
          [] r.err = "internal_error" -> call.arg.place = "null"
          [] r.err = "allocation_limit" -> call.arg.exceeds # "none"
          [] OTHER -> r.err \in flaws

(* What leaves the process is whole, clean and can be put back.            *)
WriteExact == GotCanBePut /\ SerializeExact
=============================================================================
