--------------------------- MODULE ResourceFormat ---------------------------
(***************************************************************************)
(* What a client sees of a published resource: the functions that check    *)
(* its name, make its route, find it again from the target of a request,   *)
(* describe an operation and parse what is sent to it.  They keep nothing  *)
(* from one call to the next, so a behaviour is a call of one of them; an  *)
(* argument that is a sequence grows by an element at a time.              *)
(***************************************************************************)
EXTENDS Integers, Sequences, SequencesExt, UrlPath, OperationSchema, JsonParse

CONSTANTS Alphabet, MaxText, \* texts for validUtf8
          Names, Targets,    \* names of resources and targets of requests
          Signatures,        \* signatures that RTT may report
          MaxEvents, Cases   \* texts for parseJson, and how it is called

Octets == 0 .. 255

ASSUME TextAssumption ==
  Alphabet \subseteq Octets /\ Names \subseteq Seq(Octets) /\ Targets \subseteq Seq(Octets)

ASSUME SignatureAssumption ==
  \A s \in Signatures :
    /\ s.args \in Seq([type : STRING, mutable : BOOLEAN]) /\ s.documented \in Nat
    /\ s.result \in STRING /\ s.collect \in Seq(STRING)

VARIABLE call \* the function, its argument and what it returned

Idle == [fn |-> "none", arg |-> <<>>, out |-> <<>>]

Argument(fn) == IF call.fn = fn THEN call.arg ELSE <<>>
Calls(fn) == call = Idle \/ call.fn = fn
Returns(fn, arg, out) == call' = [fn |-> fn, arg |-> arg, out |-> out]

ValidateText ==
  /\ Calls("validUtf8") /\ Len(Argument("validUtf8")) < MaxText
  /\ \E b \in Alphabet : LET text == Append(Argument("validUtf8"), b)
                         IN  Returns("validUtf8", text, ValidUtf8(text))

(* The names from the root to a resource, and its route.                   *)
RootPath == [ok |-> TRUE, path |-> <<Slash>> \o Root]
PublishName ==
  /\ Calls("childPath")
  /\ \E name \in Names :
       LET parent == IF call = Idle THEN RootPath ELSE call.out
           child == ChildPath(parent.path, name)
       IN  child.ok /\ Returns("childPath", Append(Argument("childPath"), name), child)

(* A request for a target while that resource is published.                *)
AskTarget ==
  /\ call.fn = "childPath"
  /\ \E target \in Targets :
       Returns("canonicalRequestPath",
               [target |-> target, names |-> call.arg, route |-> call.out.path],
               CanonicalRequestPath(target))

DescribeOperation ==
  call = Idle /\ \E s \in Signatures : Returns("describeService", s, Describe(s))

(* The text of these events, in each of the cases: what fault, if any,     *)
(* follows them, what the caller passes, which pass runs out of memory.    *)
ParseText ==
  /\ Calls("parseJson") /\ Len(Argument("parseJson")) < MaxEvents
  /\ \E e \in Following(Argument("parseJson")) :
       LET events == Append(Argument("parseJson"), e)
       IN  Returns("parseJson", events,
                   [c \in {d \in Cases : d.fault = "none" => Complete(events)} |->
                      ParseJson(events, c.fault, c.place, c.size, c.exceeds)])

ResourceInit == call = Idle

ResourceNext == ValidateText \/ PublishName \/ AskTarget \/ DescribeOperation \/ ParseText

ResourceSpec == ResourceInit /\ [][ResourceNext]_call

----------------------------------------------------------------------------
(* Properties.                                                             *)

(* validUtf8 accepts exactly the well formed texts: nothing overlong, cut  *)
(* short, beyond U+10FFFF or a surrogate, and it never refuses another.    *)
Utf8Exact == call.fn = "validUtf8" => (call.out <=> WellFormed(call.arg))

(* childPath and canonicalRequestPath agree on what a path means: the href *)
(* of a published resource and every other spelling of its names, with a   *)
(* query or without, lead to its route, and nothing else does.  So no two  *)
(* resources share a route, and a slash or a dot segment in escapes never  *)
(* leads to another resource.                                              *)
PathExact ==
  LET LeadsTo(target, route) == CanonicalRequestPath(target) = [ok |-> TRUE, path |-> route]
  IN  /\ call.fn = "childPath" =>
           /\ LeadsTo(call.out.path, call.out.path)
           /\ \A target \in Joined(Spellings(<<Root>> \o call.arg),
                                  {<<>>, <<Question>>, <<Question, Slash>>}) :
                Len(target) <= MaxTarget => LeadsTo(target, call.out.path)
      /\ call.fn = "canonicalRequestPath" =>
           (call.out.ok /\ call.out.path = call.arg.route =>
              Spells(call.arg.target, <<Root>> \o call.arg.names))

(* Whatever signature RTT reports, the indices and types that              *)
(* prepareInvocation uses for an operation that describeService supports   *)
(* are valid.  If RTT collects what it produces, the reply holds the       *)
(* result and, in the order of the published outputs, what the call left   *)
(* in each argument: sent or called, no value is swapped, lost or stale.   *)
OperationExact ==
  call.fn = "describeService" /\ call.out.supported =>
    LET s == call.arg
        op == call.out
        values == Wire(op, Sent(s))
    IN  /\ IndicesValid(op, Sent(s))
        /\ Faithful(s) =>
             Reply(op, values, Run(s, Sent(s), values)) =
               [result |-> IF HasResult(s) THEN <<"result">> ELSE <<"null">>,
                outputs |-> [k \in DOMAIN op.outputs |-> <<"mutated", op.outputs[k]>>]]

(* parseJson hands over a value only for a whole document without a        *)
(* repeated key, however its keys come in parts; duplicate_key is reported *)
(* only for a repeated key of one object, and as the comment at            *)
(* DuplicateHandler says, only if the document is not malformed.  The      *)
(* handler has a frame for every open object and array, so it never pops   *)
(* or reads the back of an empty vector.                                   *)
ParseExact ==
  call.fn = "parseJson" =>
    /\ Len(Validator(call.arg).frames) = Len(Nest(call.arg))
    /\ \A c \in DOMAIN call.out :
         LET r == call.out[c]
         IN  /\ r.err = "none" => r.out = call.arg /\ Complete(call.arg) /\ ~Repeats(call.arg)
             /\ r.err = "duplicate_key" => c.fault = "none" /\ Repeats(call.arg)
=============================================================================
