---------------------------- MODULE MCWireFormat ----------------------------
(* WireFormat for inputs around every boundary of the functions: bytes at  *)
(* which a test of validUtf8 changes its outcome, names of two bytes,      *)
(* integers of three and five bits, floating point of two and three,       *)
(* documents three levels deep.                                            *)
EXTENDS WireFormat

Upto(n, S) == UNION {[1 .. k -> S] : k \in 0 .. n}

----------------------------------------------------------------------------
(* Paths.                                                                  *)

MCNames == {<<>>, <<97>>, <<46>>, <<46, 46>>, <<46, 97>>, <<47>>, <<37>>, <<0>>, <<32>>,
            <<195>>, <<195, 169>>, <<97, 47>>, <<65, 70>>, <<97, 97, 97>>}

(* a, dot, slash, percent, 2, F, f, question mark, hash, backslash, in up  *)
(* to four bytes after the root or up to two alone.                        *)
MCTexts(n) == Upto(n, {97, 46, 47, 37, 50, 70, 102, 63, 35, 92})
MCTargets == Joined({<<Slash>> \o Root}, MCTexts(4)) \cup (MCTexts(2) \ {<<>>})

----------------------------------------------------------------------------
(* Values and documents.                                                   *)

MCComposites == [
  Pair |-> [kind |-> "array", element |-> "UInt32", length |-> 2],
  Path |-> [kind |-> "sequence", element |-> "String", length |-> -1],
  Point |-> [kind |-> "sequence", element |-> "Int32", length |-> 2],
  Pose |-> [kind |-> "structure", members |-> <<[name |-> "x", type |-> "Bool"],
                                                [name |-> "y", type |-> "Path"]>>],
  Plan |-> [kind |-> "sequence", element |-> "Pose", length |-> -1]]

Ints(name) == {[int |-> n] : n \in Lowest(Types[name]) .. Highest(Types[name])}
Floats(S) == {[flt |-> h] : h \in S} \cup {[non |-> x] : x \in FloatNames}
Strs == {[str |-> s] : s \in Upto(2, {"1", "quote", "control", "bad"})}
Bools == {[bool |-> b] : b \in BOOLEAN}
Lists(n, S) == {[list |-> l] : l \in Upto(n, S)}
Paths == Lists(2, {[str |-> s] : s \in Upto(1, {"1", "control"})})
Poses == {[list |-> <<b, p>>] : b \in Bools, p \in Paths}

MCValues == [
  Bool |-> Bools, Int32 |-> Ints("Int32"), UInt32 |-> Ints("UInt32"),
  Int64 |-> Ints("Int64"), UInt64 |-> Ints("UInt64"),
  Float32 |-> Floats(Float32s), Float64 |-> Floats(Float64s), String |-> Strs,
  Float64Array |-> Lists(1, Floats(-2 .. 2)), Int32Array |-> Lists(2, Ints("Int32")),
  StringArray |-> Paths, FlowStatus |-> Ints("Int32"), Void |-> {[nothing |-> 0]},
  Pair |-> {[list |-> <<x, y>>] : x, y \in Ints("UInt32")}, Path |-> Paths,
  Point |-> {[list |-> <<x, y>>] : x, y \in Ints("Int32")}, Pose |-> Poses,
  Plan |-> Lists(1, Poses)]

(* A number that fits an int64 is parsed as one, a larger one as a uint64. *)
Numbers == {[n |-> i] : i \in Lowest(Types.Int64) .. Highest(Types.Int64)}
             \cup {[u |-> i] : i \in Highest(Types.Int64) + 1 .. Highest(Types.UInt64)}
             \cup {[h |-> i] : i \in Float64s}
Digits == {[s |-> t] : t \in Upto(3, {"-", "+", "0", "1", "2", "3", "5", "6", "7"})}
Texts == {[s |-> t] : t \in {<<x>> : x \in FloatNames} \cup Upto(3, {"quote", "control", "short"})}
Few == {[n |-> 1], [n |-> 9], [u |-> 31], [h |-> 3], [s |-> <<"1">>], [s |-> <<"short">>],
        [b |-> TRUE], [null |-> 0], [a |-> <<>>], [o |-> <<>>]}
Arrays == {[a |-> l] : l \in Upto(2, Few)}
Objects == {[o |-> <<[name |-> m[1], value |-> x], [name |-> m[2], value |-> y]>>] :
              m \in {<<"x", "y">>, <<"y", "x">>, <<"x", "z">>},
              x, y \in {[b |-> TRUE], [n |-> 1], [a |-> <<>>], [a |-> <<[s |-> <<"1">>]>>],
                        [a |-> <<[n |-> 1]>>]}}

MCDocuments ==
  [name \in DOMAIN MCValues |->
     Few \cup CASE name \in {"Int32", "UInt32", "FlowStatus"} -> Numbers
               [] name \in {"Float32", "Float64"} -> Numbers \cup Texts
               [] name \in {"Int64", "UInt64"} -> Digits
               [] name = "String" -> Texts
               [] name \in {"Pose", "Plan"} -> Objects \cup {[a |-> <<j>>] : j \in Objects}
               [] OTHER -> Arrays]

----------------------------------------------------------------------------
(* Texts to parse: keys of any number of a, in parts of at most one.       *)

MCKeyParts == {<<>>, <<"a">>}

Usual == [fault |-> "none", place |-> "same", size |-> MaxBytes, exceeds |-> "none"]
MCCases == {Usual} \cup {[Usual EXCEPT !.fault = f] : f \in {"syntax", "too_deep", "trailing"}}
             \cup {[Usual EXCEPT !.place = p] : p \in {"null", "foreign"}}
             \cup {[Usual EXCEPT !.size = MaxBytes + 1]}
             \cup {[Usual EXCEPT !.exceeds = x] : x \in {"validator", "parser"}}

----------------------------------------------------------------------------
(* Values to write: arrays and objects of up to two items, three levels    *)
(* deep where one item is the deep one.                                    *)

Leaf(kind) == [kind |-> kind, items |-> <<>>, keys |-> <<>>]
Array(items) == [kind |-> "array", items |-> items, keys |-> [i \in DOMAIN items |-> TRUE]]
Object(items, keys) == [kind |-> "object", items |-> items, keys |-> keys]

Leaves == {Leaf(kind) : kind \in {"scalar", "bad", "inf"}}
Over(S, R) == {<<>>} \cup {<<x>> : x \in S} \cup {<<x, y>> : x \in R, y \in S} \cup {<<x, y>> : x \in S, y \in R}
OverAll(S, R) ==
  {Array(items) : items \in Over(S, R)} \cup
  UNION {{Object(items, keys) : keys \in [DOMAIN items -> BOOLEAN]} : items \in Over(S, R)}

One == OverAll({Leaf("scalar"), Leaf("bad")}, {Leaf("scalar"), Leaf("inf")})
Two == OverAll(One, {Leaf("scalar"), Array(<<>>)})
MCJsonValues == Leaves \cup One \cup Two \cup {Array(<<Leaf("scalar"), v>>) : v \in Two}

----------------------------------------------------------------------------
(* Signatures of up to two arguments over two types with a codec, one      *)
(* without and Void, reported faithfully or with any collect types.        *)

MCCatalog == {"a", "b", "Void"}

Parameter == [type : {"a", "b", "x", "Void"}, mutable : BOOLEAN]
Shapes == {s \in [args : Upto(2, Parameter), documented : 0 .. 2, result : {"Void", "a", "b", "x"}] :
             s.documented <= Len(s.args)}

CollectOf(s) ==
  [k \in DOMAIN Produced(s) |-> IF Produced(s)[k] = <<"result">> THEN s.result
                                ELSE s.args[Produced(s)[k][2]].type]

Dispatch == {d \in [ownThread : BOOLEAN, sendable : BOOLEAN] : d.sendable => d.ownThread}

MCSignatures ==
  {[args |-> s.args, documented |-> s.documented, result |-> s.result, collect |-> collect,
    ownThread |-> d.ownThread, sendable |-> d.sendable] :
     d \in Dispatch, <<s, collect>> \in
       {<<s, CollectOf(s)>> : s \in Shapes} \cup (Shapes \X Upto(3, {"a", "b"}))}
=============================================================================
