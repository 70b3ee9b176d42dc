----------------------------- MODULE JsonOutput -----------------------------
(***************************************************************************)
(* serializeJson and validateOutput (src/codec_context.cpp).  A value to   *)
(* write is [kind |-> ..., items |-> ..., keys |-> ...], where the kind    *)
(* "bad" is a string that is not UTF-8, "inf" a number that is not finite, *)
(* and keys[i] is whether the key of items[i] is UTF-8.                    *)
(***************************************************************************)
EXTENDS Integers, Sequences, SequencesExt, FiniteSetsExt, CodecContext

CONSTANT Buffer \* bytes of the buffer of serializeJson, 4096 in the code

----------------------------------------------------------------------------
(* validateOutput: a walk with a stack of its own.                         *)

Composite(v) == v.kind \in {"array", "object"}

(* The composites that are not exhausted.                                  *)
Open(stack) == {k \in DOMAIN stack : stack[k].next < Len(stack[k].value.items)}

Take(stack, top) == [SubSeq(stack, 1, top) EXCEPT ![top].next = @ + 1]

RECURSIVE ValidateOutput(_, _)
(* One round of the loop, and the rest: visit the current value, drop the  *)
(* exhausted composites from the top, take the next item of what is left.  *)
ValidateOutput(current, parents) ==
  LET stack == IF Composite(current) THEN Append(parents, [value |-> current, next |-> 0]) ELSE parents
      top == Max(Open(stack))
      next == stack[top].next + 1
  IN CASE current.kind = "bad" -> "invalid_utf8"
       [] current.kind = "inf" -> "type_mismatch"
       [] Composite(current) /\ Len(parents) = MaxDepth -> "depth_limit"
       [] OTHER -> IF Open(stack) = {} THEN "none"
                   ELSE IF ~stack[top].value.keys[next] THEN "invalid_utf8"
                   ELSE ValidateOutput(stack[top].value.items[next], Take(stack, top))

RECURSIVE TextSize(_)
(* Boost: the length of the text of a value, names and scalars of a byte.  *)
TextSize(v) ==
  IF ~Composite(v) THEN 1
  ELSE LET sizes == [i \in DOMAIN v.items |-> TextSize(v.items[i]) + (IF v.kind = "object" THEN 4 ELSE 0)]
       IN  FoldLeft(LAMBDA sum, n : sum + n, IF v.items = <<>> THEN 2 ELSE Len(v.items) + 1, sizes)

Fits(part, staged) == part <= MaxBytes - staged

RECURSIVE Read(_, _)
(* The loop over the parts of a text: what is staged when it ends, -1 if   *)
(* the limit does.                                                         *)
Read(left, staged) ==
  LET part == Min({Buffer, left})
  IN  IF left = 0 THEN staged
      ELSE IF Fits(part, staged) THEN Read(left - part, staged + part) ELSE -1

(* As for parseJson; the stack of the walk, the serializer, or neither     *)
(* runs out of memory.                                                     *)
SerializeJson(v, place, exceeds) ==
  LET verdict == ValidateOutput(v, <<>>)
      staged == Read(TextSize(v), 0)
  IN  IF place = "null" THEN Fail(Fresh, "internal_error")
      ELSE IF exceeds = "walk" THEN Fail(Fresh, "allocation_limit")
      ELSE IF verdict # "none" THEN Fail(Fresh, verdict)
      ELSE IF exceeds = "serializer" THEN Fail(Fresh, "allocation_limit")
      ELSE IF staged = -1 THEN Fail(Fresh, "document_limit") ELSE Done(Fresh, staged)

----------------------------------------------------------------------------
(* Definitions to compare with.                                            *)

RECURSIVE Height(_)
Height(v) ==
  IF Composite(v) THEN 1 + Max({0} \cup {Height(v.items[i]) : i \in DOMAIN v.items}) ELSE 0

RECURSIVE Holds(_, _)
Holds(v, kind) == v.kind = kind \/ \E i \in DOMAIN v.items : Holds(v.items[i], kind)

RECURSIVE BadKey(_)
BadKey(v) == \E i \in DOMAIN v.items : ~v.keys[i] \/ BadKey(v.items[i])
=============================================================================
