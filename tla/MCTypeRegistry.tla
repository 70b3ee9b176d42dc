--------------------------- MODULE MCTypeRegistry ---------------------------
(* TypeRegistry on a small instance: a canonical integer and an array of   *)
(* it, a structure of both, a sequence of that structure, a structure that *)
(* contains itself, and two servers.  Plugins may give the structure a     *)
(* codec, which makes the catalog cyclic or not, or an enum of something   *)
(* that is an integer or not, or take the canonical array; the slot of the *)
(* array or of the structure may be taken or changed.                      *)
EXTENDS TypeRegistry, TLC

CONSTANTS int, array, struct, seq, node, s1, s2

MCTypes == {int, array, struct, seq, node}
MCCanonical == <<int, array>>
Def(k, d) == [kind |-> k, deps |-> d]
MCCanonicalDefs == int :> Def("integer", {}) @@ array :> Def("other", {int})
MCMembers ==
  int :> {} @@ array :> {int} @@ struct :> {int, array} @@ seq :> {struct} @@ node :> {node, int}
MCCustom ==
  {<<struct, Def("enum", {array})>>, <<struct, Def("other", {seq})>>,
   <<struct, Def("enum", {int})>>, <<array, Def("other", {})>>}
MCForeign == {array, struct}
MCServers == {s1, s2}
=============================================================================
