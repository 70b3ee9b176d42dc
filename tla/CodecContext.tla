---------------------------- MODULE CodecContext ----------------------------
(***************************************************************************)
(* CodecContext and CodecScope (codec_context.cpp, codec_context.hpp): the *)
(* byte and depth budgets of a conversion.  A conversion takes a context   *)
(* and yields a result: an error or an outcome, and the context it leaves. *)
(***************************************************************************)
EXTENDS Integers

CONSTANTS MaxBytes, MaxDepth \* limits().maxDocumentBytes, limits().maxDepth

Fresh == [depth |-> 0, left |-> MaxBytes]

Nothing == [nothing |-> 0]
Done(c, out) == [err |-> "none", out |-> out, ctx |-> c]
Fail(c, code) == [err |-> code, out |-> Nothing, ctx |-> c]

Account(c, bytes) ==
  IF bytes > c.left THEN Fail(c, "document_limit")
  ELSE Done([c EXCEPT !.left = @ - bytes], Nothing)

Enter(c) ==
  IF c.depth = MaxDepth THEN Fail(c, "depth_limit")
  ELSE Done([c EXCEPT !.depth = @ + 1], Nothing)

(* F in the context that r leaves, unless r failed.                        *)
Then(r, F(_)) == IF r.err # "none" THEN r ELSE F(r.ctx)

Leave(r) == [r EXCEPT !.ctx.depth = @ - 1]

(* CodecScope: the destructor leaves on every path, if it entered.  r is   *)
(* the outcome of what the scope encloses.                                 *)
Scope(entered, r) == IF entered.err # "none" THEN entered ELSE Leave(r)
=============================================================================
