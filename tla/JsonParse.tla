----------------------------- MODULE JsonParse ------------------------------
(***************************************************************************)
(* parseJson with its DuplicateHandler (src/codec_context.cpp).  A text is *)
(* what Boost's parser makes of it: the events it sends to the handler and *)
(* the fault, if any, that ends them.  A key comes in parts.               *)
(***************************************************************************)
EXTENDS Integers, Sequences, SequencesExt, FiniteSets, CodecContext

CONSTANT KeyParts \* the parts of keys

ASSUME KeyAssumption == KeyParts \subseteq Seq(STRING)

----------------------------------------------------------------------------
(* DuplicateHandler: a frame for each open object or array.                *)

Frame == [keys |-> {}, key |-> <<>>]
NoFrames == [frames |-> <<>>, duplicate |-> FALSE]
Replace(h, frame) == [h EXCEPT !.frames = Append(Front(@), frame)]

OnKeyPart(h, part) == Replace(h, [Last(h.frames) EXCEPT !.key = @ \o part])

OnKeyLastPart(h, part) ==
  LET top == Last(h.frames)
  IN  [Replace(h, [keys |-> top.keys \cup {part}, key |-> <<>>])
         EXCEPT !.duplicate = @ \/ part \in top.keys]

OnKey(h, part) ==
  LET top == Last(OnKeyPart(h, part).frames)
  IN  [Replace(h, [keys |-> top.keys \cup {top.key}, key |-> <<>>])
         EXCEPT !.duplicate = @ \/ top.key \in top.keys]

(* on_object_begin, on_array_begin, on_object_end, on_array_end, the keys; *)
(* the events of scalars change nothing.                                   *)
On(h, e) ==
  CASE e.on \in {"object", "array"} -> [h EXCEPT !.frames = Append(@, Frame)]
    [] e.on = "end" -> [h EXCEPT !.frames = Front(@)]
    [] e.on = "part" -> OnKeyPart(h, e.text)
    [] e.on = "key" -> OnKey(h, e.text)
    [] e.on = "scalar" -> h

Validator(events) ==
  LET upto[i \in 0 .. Len(events)] == IF i = 0 THEN NoFrames ELSE On(upto[i - 1], events[i])
  IN  upto[Len(events)]

----------------------------------------------------------------------------
ParseError(fault) ==
  CASE fault = "too_deep" -> "depth_limit"
    [] fault = "exponent_overflow" -> "type_mismatch"
    [] OTHER -> "invalid_json"

(* Text behind the value is not consumed, which is one more fault; place   *)
(* is where the caller's value is and exceeds which pass, if any, runs out *)
(* of memory.  The second pass finds no other fault in the same text.      *)
ParseJson(events, fault, place, size, exceeds) ==
  IF place = "null" THEN Fail(Fresh, "internal_error")
  ELSE IF size > MaxBytes THEN Fail(Fresh, "document_limit")
  ELSE IF exceeds = "validator" THEN Fail(Fresh, "allocation_limit")
  ELSE IF fault # "none" THEN Fail(Fresh, ParseError(fault))
  ELSE IF Validator(events).duplicate THEN Fail(Fresh, "duplicate_key")
  ELSE IF exceeds = "parser" THEN Fail(Fresh, "allocation_limit")
  ELSE IF place = "foreign" THEN Fail(Fresh, "invalid_data_source")
  ELSE Done(Fresh, events)

----------------------------------------------------------------------------
(* Boost's grammar: what each open level waits for after the events: a key *)
(* or its end, the rest of a key, a value, an element or its end.          *)
ValueTaken(nest) ==
  IF nest # <<>> /\ Last(nest) = "value" THEN Append(Front(nest), "key") ELSE nest
Grow(nest, e) ==
  CASE e.on = "object" -> Append(ValueTaken(nest), "key")
    [] e.on = "array" -> Append(ValueTaken(nest), "element")
    [] e.on = "end" -> Front(nest)
    [] e.on = "part" -> Append(Front(nest), "part")
    [] e.on = "key" -> Append(Front(nest), "value")
    [] e.on = "scalar" -> ValueTaken(nest)
Nest(events) ==
  LET upto[i \in 0 .. Len(events)] == IF i = 0 THEN <<>> ELSE Grow(upto[i - 1], events[i])
  IN  upto[Len(events)]
Complete(events) == events # <<>> /\ Nest(events) = <<>>

(* The events that may come next.                                          *)
Following(events) ==
  LET nest == Nest(events)
      Waits(S) == nest # <<>> /\ Last(nest) \in S
  IN  (IF events = <<>> \/ Waits({"value", "element"})
       THEN {[on |-> "scalar"]} \cup
            (IF Len(nest) < MaxDepth THEN {[on |-> "object"], [on |-> "array"]} ELSE {})
       ELSE {})
      \cup (IF Waits({"key", "element"}) THEN {[on |-> "end"]} ELSE {})
      \cup (IF Waits({"key", "part"})
            THEN {[on |-> k, text |-> p] : k \in {"part", "key"}, p \in KeyParts} ELSE {})

----------------------------------------------------------------------------
(* Definitions to compare with.                                            *)

(* The keys of a document, from its events alone: the parts of the key     *)
(* that ends at i, and whether i and j are in one object.                  *)
Level(doc, i) ==
  Cardinality({k \in 1 .. i : doc[k].on \in {"object", "array"}})
    - Cardinality({k \in 1 .. i : doc[k].on = "end"})
KeyAt(doc, i) ==
  LET first == CHOOSE f \in 2 .. i : /\ doc[f - 1].on # "part"
                                     /\ \A g \in f .. i - 1 : doc[g].on = "part"
  IN  FlattenSeq([n \in 1 .. i - first + 1 |-> doc[first + n - 1].text])
SameObject(doc, i, j) ==
  Level(doc, i) = Level(doc, j) /\ \A k \in i .. j : Level(doc, k) >= Level(doc, i)
Repeats(doc) ==
  \E i, j \in DOMAIN doc : /\ i < j /\ doc[i].on = "key" /\ doc[j].on = "key"
                           /\ SameObject(doc, i, j) /\ KeyAt(doc, i) = KeyAt(doc, j)
=============================================================================
