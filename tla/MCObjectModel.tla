---------------------------- MODULE MCObjectModel ----------------------------
(* ObjectModel with four services, one of them without a port, nesting     *)
(* limited to two levels: a chain of the four is too deep, two of them     *)
(* can be reached on two ways, and there are cycles of one to four        *)
(* services.  Two components have one name and two have one service.       *)
EXTENDS ObjectModel, TLC

CONSTANTS arm, arm2, base, armName, baseName, s1, s2, s3, s4, c1, c2, c3

MCComponents == {arm, arm2, base}
MCName == arm :> armName @@ arm2 :> armName @@ base :> baseName
MCRoot == arm :> s1 @@ arm2 :> s2 @@ base :> s1
MCServices == {s1, s2, s3, s4}
MCWithPort == {s1, s3, s4}
MCCalls == {c1, c2, c3}

MCGraphs ==
  {s1 :> a @@ s2 :> b @@ s3 :> c @@ s4 :> d :
     a \in SUBSET {s2, s3}, b \in SUBSET {s1, s3, s4},
     c \in SUBSET {s2, s3, s4}, d \in SUBSET {s1}}

(* The calls are alike.                                                    *)
MCSymmetry == Permutations(MCCalls)
=============================================================================
