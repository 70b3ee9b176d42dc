--------------------------- MODULE OperationSchema ---------------------------
(***************************************************************************)
(* The path of an operation's values from its signature to the reply: the  *)
(* Operation that describeService records (src/src/object_model.cpp), the  *)
(* data sources that prepareInvocation wires (operation_executor.cpp), and *)
(* the encoding of the reply in handle (server.cpp).  Three pieces of code *)
(* count results and outputs by index and must agree.                      *)
(*                                                                         *)
(* RTT is external: it reports a signature, maybe an inconsistent one; a   *)
(* call writes its result and the arguments it takes by mutable reference, *)
(* in place when called directly, into the collector's sources when sent.  *)
(***************************************************************************)
EXTENDS Integers, Sequences, SequencesExt, Increasing

CONSTANT Catalog \* the types that have a codec

----------------------------------------------------------------------------
(* describeService                                                         *)

(* isMutableReference of the documented arguments, in order.               *)
Outputs(s) ==
  InOrder({i \in DOMAIN s.args : i <= s.documented /\ s.args[i].mutable})

HasResult(s) == s.result # "Void"
Shift(hasResult) == IF hasResult THEN 1 ELSE 0

Bindable(type) == type \in Catalog \ {"Void"}

(* The type that collect position i should have.                           *)
ExpectedType(s, i) ==
  IF HasResult(s) /\ i = 1 THEN s.result ELSE s.args[Outputs(s)[i - Shift(HasResult(s))]].type

SupportedAnyArity(s) ==
  /\ \A i \in DOMAIN s.args : Bindable(s.args[i].type)
  /\ s.result \in Catalog
  /\ \A i \in DOMAIN s.collect : Bindable(s.collect[i])

(* No reason against the operation was found.                              *)
Supported(s) ==
  /\ \A i \in DOMAIN s.args : Bindable(s.args[i].type)
  /\ s.result \in Catalog
  /\ Len(s.collect) = Len(Outputs(s)) + Shift(HasResult(s))
  /\ \A i \in DOMAIN s.collect : Bindable(s.collect[i]) /\ s.collect[i] = ExpectedType(s, i)

Describe(s) ==
  [arguments |-> [i \in DOMAIN s.args |-> s.args[i].type],
   outputs |-> Outputs(s), collect |-> s.collect,
   hasResult |-> HasResult(s), supported |-> Supported(s)]

----------------------------------------------------------------------------
(* prepareInvocation                                                       *)

(* The call is sent to the component's engine.                             *)
Sent(s) == s.ownThread /\ s.sendable

(* Collect position i of a direct call is in an argument's own source.     *)
InPlace(op, send, i) == ~send /\ ~(op.hasResult /\ i = 1)

(* The data source of collect position i: an argument's own one, or a new  *)
(* one made through the codec.                                             *)
Source(op, send, i) ==
  IF InPlace(op, send, i) THEN <<"argument", op.outputs[i - Shift(op.hasResult)]>> ELSE <<"new", i>>

Wire(op, send) == [i \in DOMAIN op.collect |-> Source(op, send, i)]

----------------------------------------------------------------------------
(* RTT                                                                     *)

(* What RTT produces, in the order in which it collects it.                *)
Mutables(s) == InOrder({i \in DOMAIN s.args : s.args[i].mutable})
Produced(s) ==
  (IF HasResult(s) THEN <<<<"result">>>> ELSE <<>>)
    \o [k \in 1 .. Len(Mutables(s)) |-> <<"mutated", Mutables(s)[k]>>]

(* Sent, the collector's sources receive what was produced; called, ret()  *)
(* and the arguments do.                                                   *)
Run(s, send, values) ==
  IF send
  THEN {<<values[k], Produced(s)[k]>> : k \in DOMAIN values \cap DOMAIN Produced(s)}
  ELSE {<<<<"argument", i>>, <<"mutated", i>>>> : i \in ToSet(Mutables(s))}
         \cup (IF HasResult(s) THEN {<<<<"new", 1>>, <<"result">>>>} ELSE {})

----------------------------------------------------------------------------
(* handle                                                                  *)

(* What toJson finds in a data source.                                     *)
Content(store, source) ==
  IF \E v \in store : v[1] = source THEN (CHOOSE v \in store : v[1] = source)[2] ELSE <<"initial">>

(* The first value is the result of an operation that has one, the others  *)
(* are its outputs.                                                        *)
Reply(op, values, store) ==
  LET contents == [k \in DOMAIN values |-> Content(store, values[k])]
  IN  IF op.hasResult /\ values # <<>>
      THEN [result |-> Head(contents), outputs |-> Tail(contents)]
      ELSE [result |-> <<"null">>, outputs |-> contents]

----------------------------------------------------------------------------
(* Definitions to compare with.                                            *)

(* Every index and every codec that the wiring uses exists, and a source   *)
(* of an argument has the type of the codec that will read it.             *)
IndicesValid(op, send) ==
  \A i \in DOMAIN op.collect :
    /\ Bindable(op.collect[i])
    /\ InPlace(op, send, i) =>
         /\ i - Shift(op.hasResult) \in DOMAIN op.outputs
         /\ op.outputs[i - Shift(op.hasResult)] \in DOMAIN op.arguments
         /\ op.arguments[op.outputs[i - Shift(op.hasResult)]] = op.collect[i]

(* RTT collects what it produces, and documents in the order of arguments. *)
Faithful(s) ==
  s.collect = [k \in DOMAIN Produced(s) |->
                 IF Produced(s)[k] = <<"result">> THEN s.result
                 ELSE s.args[Produced(s)[k][2]].type]
=============================================================================
