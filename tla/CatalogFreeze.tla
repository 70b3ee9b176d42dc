---------------------------- MODULE CatalogFreeze ----------------------------
(***************************************************************************)
(* The iterative depth-first search of freezeTypeCatalog                   *)
(* (src/src/type_protocol.cpp) that accepts or rejects the registered type *)
(* definitions, one loop iteration per step, for every small set of        *)
(* definitions that validateRegistration lets through.                     *)
(*                                                                         *)
(* A type name is a number; std::map iterates in that order.  A definition *)
(* is the descriptor's kind and the vector of dependencies, which the      *)
(* constructor of TypeProtocol sorts and rids of repetitions, and which    *)
(* may name a type that nobody registered.                                 *)
(***************************************************************************)
EXTENDS Naturals, Sequences, FiniteSets, SequencesExt

CONSTANT N \* the registered names are 1..N; N + 1 is unregistered

ASSUME FreezeAssumption == N \in Nat \ {0}

VARIABLES types,  \* staged->types_: the definitions; never changes
          root,   \* the outer loop's next name
          stack,  \* the nodes entered, each with its index `next`
          marks,  \* 0 unseen, 1 on the stack, 2 finished
          result  \* "running", "ok" or why the freeze failed

vars == <<types, root, stack, marks, result>>

Names == 1..N

(* validateRegistration: the dependencies are exactly the descriptor's     *)
(* references: none for a scalar, one for an enum, any number for an       *)
(* object's fields (an array is an object with one field to this search).  *)
References(kind) ==
  CASE kind = "integer" -> {{}}
    [] kind = "enum" -> {{n} : n \in 1..(N + 1)}
    [] kind = "object" -> SUBSET (1..(N + 1))

(* TypeProtocol's constructor: std::sort, then std::unique, leave the one  *)
(* increasing sequence of the references.                                  *)
Sorted(refs) ==
  {s \in [1..Cardinality(refs) -> refs] : \A i, j \in DOMAIN s : i < j => s[i] < s[j]}

Definition(kind) == [kind : {kind}, dependencies : UNION {Sorted(refs) : refs \in References(kind)}]

Definitions == UNION {Definition(k) : k \in {"integer", "enum", "object"}}

Init ==
  /\ types \in [Names -> Definitions]
  /\ root = 1 /\ stack = <<>>
  /\ marks = [n \in Names |-> 0]
  /\ result = "running"

Push(n) == [name |-> n, next |-> 1]

NextRoot ==
  /\ result = "running" /\ stack = <<>> /\ root \in Names
  /\ root' = root + 1
  /\ IF marks[root] = 2
     THEN UNCHANGED <<stack, marks>>
     ELSE /\ stack' = <<Push(root)>>
          /\ marks' = [marks EXCEPT ![root] = 1]
  /\ UNCHANGED <<types, result>>

Current == Last(stack).name
Dependencies == types[Current].dependencies
Dependency == Dependencies[Last(stack).next]

FinishNode ==
  /\ result = "running" /\ stack # <<>>
  /\ Last(stack).next = Len(Dependencies) + 1
  /\ marks' = [marks EXCEPT ![Current] = 2]
  /\ stack' = Front(stack)
  /\ UNCHANGED <<types, root, result>>

VerdictNoMarks ==
  IF Dependency \notin Names THEN "missing"
  ELSE IF types[Current].kind = "enum" /\ types[Dependency].kind # "integer" THEN "enum"
  ELSE "running"

(* The tests on the next dependency, in the code's order.                  *)
Verdict ==
  IF Dependency \notin Names THEN "missing"
  ELSE IF types[Current].kind = "enum" /\ types[Dependency].kind # "integer" THEN "enum"
  ELSE IF marks[Dependency] = 1 THEN "recursive" ELSE "running"

VisitStays ==
  /\ result = "running" /\ stack # <<>>
  /\ Last(stack).next <= Len(Dependencies)
  /\ result' = Verdict
  /\ IF Verdict = "running" /\ marks[Dependency] = 0
     THEN /\ stack' = Append(stack, Push(Dependency))
          /\ marks' = [marks EXCEPT ![Dependency] = 1]
     ELSE UNCHANGED <<stack, marks>>
  /\ UNCHANGED <<types, root>>

VisitDependency ==
  /\ result = "running" /\ stack # <<>>
  /\ Last(stack).next <= Len(Dependencies)
  /\ result' = Verdict
  /\ LET advanced == [stack EXCEPT ![Len(stack)].next = @ + 1]
     IN  IF Verdict = "running" /\ marks[Dependency] = 0
         THEN /\ stack' = Append(advanced, Push(Dependency))
              /\ marks' = [marks EXCEPT ![Dependency] = 1]
         ELSE stack' = advanced /\ UNCHANGED marks
  /\ UNCHANGED <<types, root>>

Accept ==
  /\ result = "running" /\ stack = <<>> /\ root \notin Names
  /\ result' = "ok"
  /\ UNCHANGED <<types, root, stack, marks>>

Next == NextRoot \/ FinishNode \/ VisitDependency \/ Accept

Spec == Init /\ [][Next]_vars

(* The loops run under the registry's mutex until they end.                *)
FairSpec == Spec /\ WF_vars(Next)

----------------------------------------------------------------------------
(* Properties.                                                             *)

Deps(n) == ToSet(types[n].dependencies)

(* The reference: every dependency is registered, an enum's is an integer, *)
(* and every set of types has a member that depends on none of them.       *)
Closed == \A n \in Names : Deps(n) \subseteq Names
EnumsAreIntegers ==
  \A n \in Names : types[n].kind = "enum" =>
    \A d \in Deps(n) \cap Names : types[d].kind = "integer"
Acyclic ==
  \A S \in SUBSET Names : S # {} => \E n \in S : Deps(n) \cap S = {}

(* freezeTypeCatalog accepts exactly the closed, acyclic catalogs whose    *)
(* enums have integer types, and names a real reason when it refuses.      *)
VerdictCorrect ==
  /\ result = "ok" => Closed /\ EnumsAreIntegers /\ Acyclic
  /\ result = "missing" => ~Closed
  /\ result = "enum" => ~EnumsAreIntegers
  /\ result = "recursive" => ~Acyclic

(* The marks mean what the search relies on: 1 exactly for the nodes on    *)
(* the stack, each entered once and reached from the one below it; 2 only  *)
(* for nodes whose dependencies are all finished.                          *)
MarksMeaning ==
  /\ \A n \in Names : marks[n] = 1 <=> \E i \in DOMAIN stack : stack[i].name = n
  /\ \A i, j \in DOMAIN stack : stack[i].name = stack[j].name => i = j
  /\ \A i \in DOMAIN stack : i > 1 =>
       stack[i].name = types[stack[i - 1].name].dependencies[stack[i - 1].next - 1]
  /\ \A n \in Names : marks[n] = 2 => \A d \in Deps(n) : d \in Names /\ marks[d] = 2

(* The search reaches the right verdict, for the right reason.             *)
FreezeCorrect == VerdictCorrect /\ MarksMeaning

(* The search ends on every set of definitions, also the cyclic ones.      *)
Terminates == <>(result # "running")
=============================================================================
