------------------------- MODULE CatalogFreezeProofs -------------------------
(***************************************************************************)
(* Proofs about CatalogFreeze, for any number of registered types and any  *)
(* definitions.                                                            *)
(***************************************************************************)
EXTENDS CatalogFreeze, FiniteSetTheorems, SequenceTheorems, TLAPS

----------------------------------------------------------------------------
(* The inductive invariant.                                                *)

(* The definitions never change; the search's variables have their types.  *)
TypeInv ==
  /\ types \in [Names -> Definitions]
  /\ root \in 1..(N + 1)
  /\ stack \in Seq([name : Names, next : Nat \ {0}])
  /\ marks \in [Names -> {0, 1, 2}]
  /\ result \in {"running", "ok", "missing", "enum", "recursive"}

(* A tested dependency of a node.                                          *)
Passed(tys, n, d) ==
  /\ d \in Names
  /\ tys[n].kind = "enum" => tys[d].kind = "integer"

(* A node on the stack has its index among its dependencies, ...           *)
Indexed(tys, stk, i) ==
  /\ stk[i].next <= Len(tys[stk[i].name].dependencies) + 1
  /\ i < Len(stk) => stk[i].next > 1

(* ... and those before the index are tested and, but for the one above it *)
(* on the stack, finished.                                                 *)
Tested(tys, stk, mrk, i) ==
  \A j \in 1..(stk[i].next - 1) :
    LET d == tys[stk[i].name].dependencies[j]
    IN  /\ Passed(tys, stk[i].name, d)
        /\ mrk[d] = 2 \/ (i < Len(stk) /\ j = stk[i].next - 1)

StackInv ==
  \A i \in DOMAIN stack :
    /\ Indexed(types, stack, i)
    /\ result = "running" => Tested(types, stack, marks, i)

(* Finished nodes have only good dependencies.                             *)
FinishedInv == \A n \in Names : marks[n] = 2 => \A d \in Deps(n) : Passed(types, n, d) /\ marks[d] = 2

(* No set of finished nodes depends on itself.                             *)
AcyclicInv ==
  \A S \in SUBSET {n \in Names : marks[n] = 2} : S # {} => \E n \in S : Deps(n) \cap S = {}

(* The outer loop leaves no node behind that it has not entered.           *)
RootsInv == \A n \in Names : n < root => marks[n] # 0

IInv ==
  /\ TypeInv /\ MarksMeaning /\ StackInv /\ FinishedInv /\ AcyclicInv
  /\ RootsInv /\ VerdictCorrect

----------------------------------------------------------------------------
(* Sequences and definitions.                                              *)

(* All but the last of a sequence, and the last.                           *)
LEMMA FrontFacts ==
  ASSUME NEW T, NEW s \in Seq(T), s # <<>>
  PROVE  /\ Len(s) \in Nat \ {0} /\ Last(s) = s[Len(s)] /\ Last(s) \in T
         /\ Front(s) \in Seq(T) /\ Len(Front(s)) = Len(s) - 1
         /\ \A i \in 1..(Len(s) - 1) : Front(s)[i] = s[i]
BY DEF Front, Last

(* Dependencies are a sequence of names, registered or not.                *)
LEMMA DependencyTypes ==
  ASSUME TypeInv, NEW n \in Names
  PROVE  /\ types[n].dependencies \in Seq(1..(N + 1))
         /\ Deps(n) = {types[n].dependencies[j] : j \in 1..Len(types[n].dependencies)}
<1>1. types[n] \in Definitions
  BY DEF TypeInv
<1>2. PICK kind \in {"integer", "enum", "object"} : types[n] \in Definition(kind)
  BY <1>1 DEF Definitions
<1>3. PICK refs \in References(kind) : types[n].dependencies \in Sorted(refs)
  BY <1>2 DEF Definition
<1>4. refs \subseteq 1..(N + 1)
  BY <1>2, <1>3, FreezeAssumption DEF References
<1>5. IsFiniteSet(1..(N + 1))
  BY FS_Interval, FreezeAssumption
<1>6. Cardinality(refs) \in Nat
  BY <1>4, <1>5, FS_Subset, FS_CardinalityType
<1>7. types[n].dependencies \in [1..Cardinality(refs) -> 1..(N + 1)]
  BY <1>3, <1>4 DEF Sorted
<1>8. types[n].dependencies \in Seq(1..(N + 1))
  BY <1>6, <1>7, SeqDef
<1> QED
  BY <1>8 DEF Deps, ToSet

(* While a node is on the stack, its index and its dependencies.           *)
LEMMA TopFacts ==
  ASSUME IInv, stack # <<>>
  PROVE  /\ Len(stack) \in Nat \ {0} /\ Last(stack) = stack[Len(stack)]
         /\ Current \in Names /\ Current = stack[Len(stack)].name
         /\ Dependencies \in Seq(1..(N + 1))
         /\ Last(stack).next \in Nat \ {0} /\ Last(stack).next <= Len(Dependencies) + 1
         /\ \A j \in 1..Len(Dependencies) : Dependencies[j] \in Deps(Current)
<1>1. stack \in Seq([name : Names, next : Nat \ {0}])
  BY DEF IInv, TypeInv
<1>2. /\ Len(stack) \in Nat \ {0} /\ Last(stack) = stack[Len(stack)]
      /\ Last(stack) \in [name : Names, next : Nat \ {0}]
  BY <1>1, FrontFacts
<1>3. Current \in Names
  BY <1>2 DEF Current
<1>4. /\ Dependencies \in Seq(1..(N + 1))
      /\ \A j \in 1..Len(Dependencies) : Dependencies[j] \in Deps(Current)
  BY <1>3, DependencyTypes DEF IInv, Dependencies
<1>5. Last(stack).next <= Len(Dependencies) + 1
  BY <1>1, <1>2 DEF IInv, StackInv, Indexed, Dependencies, Current
<1> QED
  BY <1>2, <1>3, <1>4, <1>5 DEF Current

(* A step that leaves no verdict keeps VerdictCorrect.                     *)
LEMMA NoVerdict == result' = "running" => VerdictCorrect'
BY DEF VerdictCorrect

----------------------------------------------------------------------------
(* The invariant holds when the search starts,                             *)
LEMMA InitInv == Init => IInv
<1> SUFFICES ASSUME Init PROVE IInv
  OBVIOUS
<1>1. TypeInv
  BY FreezeAssumption DEF Init, TypeInv
<1>2. MarksMeaning /\ StackInv /\ FinishedInv /\ AcyclicInv
  BY DEF Init, MarksMeaning, StackInv, FinishedInv, AcyclicInv
<1>3. RootsInv /\ VerdictCorrect
  BY DEF Init, RootsInv, VerdictCorrect, Names
<1> QED
  BY <1>1, <1>2, <1>3 DEF IInv

(* A new root is unseen: nothing is on the stack.                          *)
LEMMA NextRootKeeps ==
  ASSUME IInv, NextRoot
  PROVE  IInv'
<1>1. CASE marks[root] = 2
  BY <1>1, FreezeAssumption DEF NextRoot, IInv, TypeInv, MarksMeaning, StackInv, Passed, FinishedInv,
     Deps, AcyclicInv, RootsInv, VerdictCorrect, Names
<1>2. CASE marks[root] # 2
  <2>1. /\ root \in Names /\ root' = root + 1 /\ stack = <<>> /\ result' = "running"
        /\ stack' = <<Push(root)>> /\ types' = types
        /\ marks \in [Names -> {0, 1, 2}] /\ marks' = [marks EXCEPT ![root] = 1]
    BY <1>2 DEF NextRoot, IInv, TypeInv
  <2>2. marks[root] = 0 /\ \A n \in Names : marks[n] # 1
    BY <1>2, <2>1 DEF IInv, MarksMeaning
  <2>3. /\ Len(stack') = 1 /\ DOMAIN stack' = {1}
        /\ stack'[1].name = root /\ stack'[1].next = 1
    BY <2>1 DEF Push
  <2>4. marks'[root] = 1 /\ \A n \in Names \ {root} : marks'[n] = marks[n]
    BY <2>1
  <2>5. TypeInv'
    BY <2>1, FreezeAssumption DEF IInv, TypeInv, Push, Names, NextRoot
  <2>6. FinishedInv'
    BY <2>1, <2>2, <2>4 DEF IInv, FinishedInv, Passed, Deps
  <2>7. MarksMeaning'
    BY <2>1, <2>2, <2>3, <2>4 DEF IInv, MarksMeaning, Deps
  <2>8. StackInv'
    <3>1. types[root].dependencies \in Seq(1..(N + 1))
      BY <2>1, DependencyTypes DEF IInv
    <3> QED
      BY <2>1, <2>3, <3>1 DEF StackInv, Indexed, Tested
  <2>9. AcyclicInv'
    <3>1. {n \in Names : marks'[n] = 2} = {n \in Names : marks[n] = 2}
      BY <2>2, <2>4
    <3> QED
      BY <2>1, <3>1 DEF IInv, AcyclicInv, Deps
  <2>10. RootsInv'
    BY <2>1, <2>4 DEF IInv, RootsInv, Names
  <2> QED
    BY <2>1, <2>5, <2>6, <2>7, <2>8, <2>9, <2>10, NoVerdict DEF IInv
<1> QED
  BY <1>1, <1>2

(* A finished node joins the finished ones: it depends only on those.      *)
LEMMA FinishNodeKeeps ==
  ASSUME IInv, FinishNode
  PROVE  IInv'
<1> DEFINE top == Len(stack)
           n == stack[top].name
           ds == types[n].dependencies
<1>a. stack # <<>> /\ stack' = Front(stack)
  BY DEF FinishNode
<1>1. /\ result = "running" /\ result' = "running" /\ types' = types /\ root' = root
      /\ marks' = [marks EXCEPT ![n] = 2] /\ stack[top].next = Len(ds) + 1
      /\ top \in Nat \ {0} /\ n \in Names /\ ds \in Seq(1..(N + 1))
  BY TopFacts DEF FinishNode, Current, Dependencies
<1>2. /\ stack \in Seq([name : Names, next : Nat \ {0}]) /\ marks \in [Names -> {0, 1, 2}]
      /\ stack' \in Seq([name : Names, next : Nat \ {0}]) /\ Len(stack') = top - 1
      /\ \A i \in 1..(top - 1) : stack'[i] = stack[i]
  BY <1>a, FrontFacts DEF IInv, TypeInv
<1>b. DOMAIN stack = 1..top /\ DOMAIN stack' = 1..(top - 1)
  BY <1>1, <1>2
<1>c. \A i \in 1..(top - 1) : i \in 1..top /\ stack'[i] = stack[i]
  BY <1>1, <1>2, SMTT(30)
<1>3. marks'[n] = 2 /\ \A m \in Names \ {n} : marks'[m] = marks[m]
  BY <1>1, <1>2
<1>4. marks[n] = 1
  BY <1>1, <1>2 DEF IInv, MarksMeaning
<1>5. \A d \in Deps(n) : Passed(types, n, d) /\ marks[d] = 2
  <2>1. \A j \in 1..Len(ds) : Passed(types, n, ds[j]) /\ marks[ds[j]] = 2
    <3>1. top \in DOMAIN stack
      BY <1>1, <1>b
    <3>2. \A j \in 1..(stack[top].next - 1) : Passed(types, n, ds[j]) /\ marks[ds[j]] = 2
      BY <1>1, <3>1 DEF IInv, StackInv, Tested
    <3>3. stack[top].next - 1 = Len(ds)
      BY <1>1
    <3> QED
      BY <3>2, <3>3
  <2>2. Deps(n) = {ds[j] : j \in 1..Len(ds)}
    BY <1>1, DependencyTypes DEF IInv
  <2> QED
    BY <2>1, <2>2
<1>6. \A m \in Names : Deps(m)' = Deps(m)
  BY <1>1 DEF Deps
<1>8. TypeInv'
  BY <1>1, <1>2 DEF IInv, TypeInv
<1> HIDE DEF top, n, ds
<1>9. FinishedInv'
  <2>1. \A d \in Deps(n) : Passed(types, n, d) /\ marks'[d] = 2
    BY <1>3, <1>5 DEF Passed
  <2>2. ASSUME NEW m \in Names \ {n}, marks[m] = 2, NEW d \in Deps(m)
        PROVE  Passed(types, m, d) /\ marks'[d] = 2
    BY <1>3, <2>2 DEF IInv, FinishedInv, Passed
  <2> QED
    BY <1>1, <1>3, <1>6, <2>1, <2>2 DEF FinishedInv
<1>10. MarksMeaning'
  <2>1. ASSUME NEW m \in Names
        PROVE  marks'[m] = 1 <=> \E i \in DOMAIN stack' : stack'[i].name = m
    <3>1. CASE m = n
      <4>1. \A i \in DOMAIN stack : stack[i].name = n => i = top
        <5>1. \A i, j \in DOMAIN stack : stack[i].name = stack[j].name => i = j
          BY DEF IInv, MarksMeaning
        <5>2. top \in DOMAIN stack
          BY <1>1, <1>b
        <5> QED
          BY <5>1, <5>2 DEF n
      <4> QED
        BY <1>1, <1>3, <1>b, <1>c, <3>1, <4>1
    <3>2. CASE m # n
      <4>1. marks'[m] = 1 <=> \E i \in DOMAIN stack : stack[i].name = m
        BY <1>3, <3>2 DEF IInv, MarksMeaning
      <4>2. \A i \in DOMAIN stack : stack[i].name = m => i \in DOMAIN stack' /\ stack'[i] = stack[i]
        <5>1. \A i \in 1..top : stack[i].name = m => i # top
          BY <3>2 DEF n
        <5> QED
          BY <1>1, <1>b, <1>c, <5>1
      <4>3. \A i \in DOMAIN stack' : i \in DOMAIN stack /\ stack'[i] = stack[i]
        BY <1>b, <1>c
      <4> QED
        BY <4>1, <4>2, <4>3
    <3> QED
      BY <3>1, <3>2
  <2>2. \A i \in DOMAIN stack' : i \in DOMAIN stack /\ stack'[i] = stack[i]
    BY <1>b, <1>c
  <2>3. \A i, j \in DOMAIN stack' : stack'[i].name = stack'[j].name => i = j
    BY <2>2 DEF IInv, MarksMeaning
  <2>4. ASSUME NEW i \in DOMAIN stack', i > 1
        PROVE  stack'[i].name = types'[stack'[i - 1].name].dependencies[stack'[i - 1].next - 1]
    <3>1. i \in 1..(top - 1) /\ i - 1 \in 1..(top - 1)
      BY <1>1, <1>b, <2>4
    <3>2. i - 1 \in DOMAIN stack' /\ stack'[i - 1] = stack[i - 1]
      BY <1>b, <1>c, <3>1
    <3> QED
      BY <1>1, <2>2, <2>4, <3>2 DEF IInv, MarksMeaning
  <2>5. \A m \in Names : marks'[m] = 2 => \A d \in Deps(m)' : d \in Names /\ marks'[d] = 2
    BY <1>9 DEF FinishedInv, Passed
  <2> QED
    BY <2>1, <2>3, <2>4, <2>5 DEF MarksMeaning
<1>11. StackInv'
  <2> SUFFICES ASSUME NEW i \in 1..(top - 1)
               PROVE  Indexed(types, stack', i) /\ Tested(types, stack', marks', i)
    BY <1>1, <1>b DEF StackInv
  <2> DEFINE m == stack[i].name
             es == types[m].dependencies
             k == stack[i].next - 1
  <2>1. i \in DOMAIN stack /\ i < top /\ i + 1 \in DOMAIN stack /\ stack'[i] = stack[i]
    BY <1>1, <1>b, <1>c
  <2>2. Indexed(types, stack, i) /\ Tested(types, stack, marks, i)
    BY <1>1, <2>1 DEF IInv, StackInv
  <2>3. Indexed(types, stack', i)
    BY <1>1, <1>2, <2>1, <2>2 DEF Indexed, top
  <2>4. ASSUME NEW j \in 1..k
        PROVE  /\ Passed(types, m, es[j]) /\ es[j] \in Names
               /\ marks'[es[j]] = 2 \/ (i < top - 1 /\ j = k)
    <3>1. Passed(types, m, es[j]) /\ es[j] \in Names /\ (marks[es[j]] = 2 \/ j = k)
      BY <2>2 DEF Tested, Passed
    <3>2. marks[es[j]] = 2 => marks'[es[j]] = 2
      BY <1>3, <3>1
    <3>3. stack[i + 1].name = es[k]
      <4>1. \A l \in DOMAIN stack : l > 1 =>
              stack[l].name = types[stack[l - 1].name].dependencies[stack[l - 1].next - 1]
        BY DEF IInv, MarksMeaning
      <4>2. i + 1 > 1 /\ (i + 1) - 1 = i
        BY <1>1
      <4> QED
        BY <2>1, <4>1, <4>2
    <3>4. i = top - 1 => es[k] = n
      BY <1>1, <3>3 DEF n
    <3>5. i = top - 1 \/ i < top - 1
      BY <1>1
    <3> QED
      BY <1>3, <3>1, <3>2, <3>4, <3>5
  <2>5. Tested(types, stack', marks', i)
    <3>1. Len(stack') = top - 1 /\ stack'[i] = stack[i]
      BY <1>2, <2>1
    <3> QED
      BY <2>4, <3>1 DEF Tested
  <2> QED
    BY <2>3, <2>5
<1>12. AcyclicInv'
  <2> SUFFICES ASSUME NEW S \in SUBSET {m \in Names : marks'[m] = 2}, S # {}
               PROVE  \E m \in S : Deps(m) \cap S = {}
    BY <1>6 DEF AcyclicInv
  <2>1. CASE S \ {n} = {}
    <3>1. S = {n} /\ n \notin Deps(n)
      BY <1>4, <1>5, <2>1
    <3> QED
      BY <3>1
  <2>2. CASE S \ {n} # {}
    <3>1. S \ {n} \in SUBSET {m \in Names : marks[m] = 2}
      BY <1>3
    <3>2. PICK m \in S \ {n} : Deps(m) \cap (S \ {n}) = {}
      BY <2>2, <3>1 DEF IInv, AcyclicInv
    <3>3. n \notin Deps(m)
      BY <1>4, <3>1 DEF IInv, FinishedInv
    <3> QED
      BY <3>2, <3>3
  <2> QED
    BY <2>1, <2>2
<1>13. RootsInv'
  BY <1>1, <1>3 DEF IInv, RootsInv
<1> QED
  BY <1>1, <1>8, <1>9, <1>10, <1>11, <1>12, <1>13, NoVerdict DEF IInv

(* What one test of a dependency does to the stack and the marks.          *)
LEMMA VisitFacts ==
  ASSUME IInv, VisitDependency
  PROVE  LET top == Len(stack)
             n == stack[top].name
             k == stack[top].next
             d == types[n].dependencies[k]
             deeper == Verdict = "running" /\ marks[d] = 0
         IN  /\ top \in Nat \ {0} /\ DOMAIN stack = 1..top
             /\ n \in Names /\ k \in Nat \ {0} /\ k <= Len(types[n].dependencies)
             /\ Dependency = d /\ Current = n /\ d \in Deps(n)
             /\ Len(stack') = (IF deeper THEN top + 1 ELSE top)
             /\ DOMAIN stack' = 1..Len(stack')
             /\ \A i \in 1..(top - 1) : stack'[i] = stack[i]
             /\ stack'[top].name = n /\ stack'[top].next = k + 1
             /\ deeper => stack'[top + 1] = Push(d)
             /\ stack' \in Seq([name : Names, next : Nat \ {0}])
<1> DEFINE top == Len(stack)
           n == stack[top].name
           k == stack[top].next
           d == types[n].dependencies[k]
           T == [name : Names, next : Nat \ {0}]
           node == [name |-> n, next |-> k + 1]
           advanced == [stack EXCEPT ![top].next = @ + 1]
<1>1. stack # <<>> /\ stack \in Seq(T)
  BY DEF VisitDependency, IInv, TypeInv
<1>2. /\ top \in Nat \ {0} /\ Last(stack) = stack[top] /\ n \in Names /\ k \in Nat \ {0}
      /\ Current = n /\ Dependencies = types[n].dependencies /\ Dependencies \in Seq(1..(N + 1))
      /\ \A j \in 1..Len(Dependencies) : Dependencies[j] \in Deps(n)
  BY <1>1, TopFacts DEF Dependencies
<1>3. DOMAIN stack = 1..top
  BY <1>1
<1>4. k <= Len(Dependencies) /\ Dependency = d
  BY <1>2 DEF VisitDependency, Dependency
<1>5. d \in Deps(n)
  BY <1>2, <1>4
<1>6. stack[top] \in T
  <2>1. top \in 1..Len(stack)
    BY <1>2
  <2> QED
    BY <1>1, <2>1, ElementOfSeq
<1>7. node \in T /\ advanced = [stack EXCEPT ![top] = node]
  <2>1. node \in T
    BY <1>2
  <2>2. [stack[top] EXCEPT !.next = @ + 1] = node
    BY <1>6
  <2> QED
    BY <2>1, <2>2
<1>8. /\ advanced \in Seq(T) /\ Len(advanced) = top
      /\ \A i \in 1..(top - 1) : advanced[i] = stack[i]
      /\ advanced[top] = node
  BY <1>1, <1>2, <1>3, <1>7, ExceptSeq
<1> HIDE DEF T, advanced
<1>9. CASE Verdict = "running" /\ marks[d] = 0
  <2>1. stack' = Append(advanced, Push(d))
    BY <1>4, <1>9 DEF VisitDependency, advanced
  <2>2. d \in Names
    BY <1>4, <1>9 DEF Verdict
  <2>3. Push(d) \in T
    BY <2>2 DEF Push, T
  <2>4. /\ stack' \in Seq(T) /\ Len(stack') = top + 1
        /\ \A i \in 1..top : stack'[i] = advanced[i]
        /\ stack'[top + 1] = Push(d)
    BY <1>2, <1>8, <2>1, <2>3, AppendProperties
  <2>5. DOMAIN stack' = 1..Len(stack') /\ top \in 1..top /\ \A i \in 1..(top - 1) : i \in 1..top
    BY <1>2, <2>4
  <2>6. stack'[top] = node /\ \A i \in 1..(top - 1) : stack'[i] = stack[i]
    BY <1>8, <2>4, <2>5
  <2> QED
    BY <1>2, <1>3, <1>4, <1>5, <1>9, <2>4, <2>5, <2>6 DEF T
<1>10. CASE ~(Verdict = "running" /\ marks[d] = 0)
  <2>1. stack' = advanced
    BY <1>4, <1>10 DEF VisitDependency, advanced
  <2>2. DOMAIN stack' = 1..Len(stack') /\ Len(stack') = top /\ stack' \in Seq(T)
    BY <1>8, <2>1
  <2>3. /\ \A i \in 1..(top - 1) : stack'[i] = stack[i]
        /\ stack'[top].name = n /\ stack'[top].next = k + 1
    BY <1>8, <2>1
  <2> QED
    BY <1>2, <1>3, <1>4, <1>5, <1>10, <2>2, <2>3 DEF T
<1> QED
  BY <1>9, <1>10

(* The reasons to refuse are real: above all, the nodes from the marked    *)
(* dependency to the top of the stack depend on each other.                *)
LEMMA RefusalJustified ==
  ASSUME IInv, VisitDependency
  PROVE  /\ Verdict = "missing" => ~Closed
         /\ Verdict = "enum" => ~EnumsAreIntegers
         /\ Verdict = "recursive" => ~Acyclic
<1> DEFINE top == Len(stack)
           n == stack[top].name
           d == types[n].dependencies[stack[top].next]
<1>1. /\ top \in Nat \ {0} /\ DOMAIN stack = 1..top
      /\ n \in Names /\ Dependency = d /\ Current = n /\ d \in Deps(n)
  BY VisitFacts
<1>a. \A i \in 1..top : stack[i].name \in Names /\ stack[i].next \in Nat
  <2>1. stack \in Seq([name : Names, next : Nat \ {0}])
    BY DEF IInv, TypeInv
  <2>2. \A i \in 1..top : stack[i] \in [name : Names, next : Nat \ {0}]
    BY <2>1, ElementOfSeq
  <2> QED
    BY <2>2
<1> HIDE DEF top, n, d
<1>2. Verdict = "missing" => ~Closed
  BY <1>1 DEF Verdict, Closed
<1>3. Verdict = "enum" => ~EnumsAreIntegers
  BY <1>1 DEF Verdict, EnumsAreIntegers
<1>4. ASSUME Verdict = "recursive" PROVE ~Acyclic
  <2>1. d \in Names /\ marks[d] = 1
    BY <1>1, <1>4 DEF Verdict
  <2>2. PICK j \in 1..top : stack[j].name = d
    BY <1>1, <2>1 DEF IInv, MarksMeaning
  <2> DEFINE S == {stack[i].name : i \in j..top}
  <2>3. j..top \subseteq 1..top /\ top \in j..top /\ j \in j..top
    BY <1>1, <2>2
  <2>4. \A i \in 1..top : stack[i].name \in Names
    BY <1>a
  <2>5. S \in SUBSET Names /\ S # {}
    BY <2>3, <2>4
  <2>6. ASSUME NEW i \in j..top PROVE Deps(stack[i].name) \cap S # {}
    <3>1. CASE i = top
      BY <1>1, <2>2, <2>3, <3>1 DEF n
    <3>2. CASE i # top
      <4>1. i \in 1..top /\ i < top /\ i + 1 \in j..top /\ i + 1 \in 1..top /\ i + 1 > 1
        BY <1>1, <2>2, <3>2
      <4> DEFINE m == stack[i].name
                 k == stack[i].next - 1
      <4>2. stack[i + 1].name = types[m].dependencies[k]
        <5>1. \A l \in DOMAIN stack : l > 1 =>
                stack[l].name = types[stack[l - 1].name].dependencies[stack[l - 1].next - 1]
          BY DEF IInv, MarksMeaning
        <5>2. (i + 1) - 1 = i
          BY <4>1
        <5> QED
          BY <1>1, <4>1, <5>1, <5>2
      <4>3. m \in Names /\ stack[i].next \in Nat /\ Indexed(types, stack, i)
        BY <1>1, <1>a, <4>1 DEF IInv, StackInv
      <4>4. /\ types[m].dependencies \in Seq(1..(N + 1))
            /\ Deps(m) = {types[m].dependencies[l] : l \in 1..Len(types[m].dependencies)}
        BY <4>3, DependencyTypes DEF IInv
      <4>5. k \in 1..Len(types[m].dependencies)
        BY <4>1, <4>3, <4>4, SMTT(30) DEF Indexed, top
      <4>6. stack[i + 1].name \in Deps(m) /\ stack[i + 1].name \in S
        BY <4>1, <4>2, <4>4, <4>5, SMTT(30)
      <4> QED
        BY <4>6
    <3> QED
      BY <3>1, <3>2
  <2>7. \A m \in S : Deps(m) \cap S # {}
    BY <2>6
  <2> HIDE DEF S
  <2> QED
    BY <2>5, <2>7 DEF Acyclic
<1> QED
  BY <1>2, <1>3, <1>4, SMTT(30)

(* A test of a dependency advances the index, enters an unseen dependency  *)
(* or ends the search.                                                     *)
LEMMA VisitKeeps ==
  ASSUME IInv, VisitDependency
  PROVE  IInv'
<1> DEFINE top == Len(stack)
           n == stack[top].name
           k == stack[top].next
           ds == types[n].dependencies
           d == ds[k]
           deeper == Verdict = "running" /\ marks[d] = 0
<1>1. /\ result = "running" /\ result' = Verdict /\ types' = types /\ root' = root
      /\ marks' = (IF deeper THEN [marks EXCEPT ![d] = 1] ELSE marks)
      /\ marks \in [Names -> {0, 1, 2}]
  <2>1. Dependency = d
    BY VisitFacts, ZenonT(40)
  <2> QED
    BY <2>1, SMTT(30) DEF VisitDependency, IInv, TypeInv
<1>2. /\ top \in Nat \ {0} /\ DOMAIN stack = 1..top
      /\ n \in Names /\ k \in Nat \ {0} /\ k <= Len(ds)
      /\ Dependency = d /\ Current = n /\ d \in Deps(n)
  BY VisitFacts, ZenonT(40)
<1>3. /\ Len(stack') = (IF deeper THEN top + 1 ELSE top)
      /\ DOMAIN stack' = 1..Len(stack')
      /\ \A i \in 1..(top - 1) : stack'[i] = stack[i]
      /\ stack'[top].name = n /\ stack'[top].next = k + 1
      /\ deeper => stack'[top + 1] = Push(d)
  BY VisitFacts, ZenonT(40)
<1>4. stack' \in Seq([name : Names, next : Nat \ {0}])
  BY VisitFacts
<1>5. ds \in Seq(1..(N + 1))
  BY <1>2, DependencyTypes, SMTT(30) DEF IInv
<1>6. /\ Verdict \in {"running", "missing", "enum", "recursive"}
      /\ Verdict = "running" => d \in Names /\ marks[d] # 1 /\ Passed(types, n, d)
  BY <1>2 DEF Verdict, Passed
<1> HIDE DEF n, k, ds, d, deeper
<1>7. /\ deeper => d \in Names /\ marks[d] = 0 /\ marks'[d] = 1
      /\ \A m \in Names : (deeper => m # d) => marks'[m] = marks[m]
      /\ \A m \in Names : marks'[m] = 2 <=> marks[m] = 2
  BY <1>1, <1>6 DEF deeper
<1>8. TypeInv'
  BY <1>1, <1>4, <1>6 DEF IInv, TypeInv, deeper
<1>9. \A m : Deps(m)' = Deps(m)
  BY <1>1 DEF Deps
<1>10. FinishedInv'
  <2>1. \A m \in Names : marks[m] = 2 => \A e \in Deps(m) : Passed(types, m, e) /\ e \in Names /\ marks[e] = 2
    BY DEF IInv, FinishedInv, Passed
  <2> QED
    BY <1>1, <1>7, <1>9, <2>1 DEF FinishedInv
<1>11. AcyclicInv'
  <2>1. {m \in Names : marks'[m] = 2} = {m \in Names : marks[m] = 2}
    BY <1>7
  <2> QED
    BY <1>9, <2>1 DEF IInv, AcyclicInv
<1>12. RootsInv'
  BY <1>1, <1>7 DEF IInv, RootsInv
<1>13. VerdictCorrect'
  <2>1. /\ Closed' <=> Closed
        /\ EnumsAreIntegers' <=> EnumsAreIntegers
        /\ Acyclic' <=> Acyclic
    BY <1>1, <1>9 DEF Closed, EnumsAreIntegers, Acyclic
  <2>2. result' # "ok"
    BY <1>1, <1>6
  <2> QED
    BY <1>1, <2>1, <2>2, RefusalJustified DEF VerdictCorrect
<1>14. \A i \in 1..top : stack'[i].name = stack[i].name
  BY <1>2, <1>3 DEF n
<1>15. MarksMeaning'
  <2>1. ASSUME NEW m \in Names
        PROVE  marks'[m] = 1 <=> \E i \in DOMAIN stack' : stack'[i].name = m
    <3>1. marks[m] = 1 <=> \E i \in 1..top : stack[i].name = m
      BY <1>2 DEF IInv, MarksMeaning
    <3>2. CASE deeper
      <4>1. DOMAIN stack' = 1..(top + 1) /\ stack'[top + 1].name = d
        BY <1>3, <3>2 DEF Push
      <4>2. \A i \in 1..(top + 1) : i \in 1..top \/ i = top + 1
        BY <1>2
      <4>3. \A i \in 1..top : i \in 1..(top + 1)
        BY <1>2
      <4>4. top + 1 \in 1..(top + 1)
        BY <1>2
      <4>5. CASE m = d
        BY <1>7, <3>2, <4>1, <4>4, <4>5
      <4>6. CASE m # d
        BY <1>7, <1>14, <3>1, <3>2, <4>1, <4>2, <4>3, <4>6
      <4> QED
        BY <4>5, <4>6
    <3>3. CASE ~deeper
      BY <1>3, <1>7, <1>14, <3>1, <3>3
    <3> QED
      BY <3>2, <3>3
  <2>2. \A i, j \in DOMAIN stack' : stack'[i].name = stack'[j].name => i = j
    <3>1. \A i, j \in 1..top : stack'[i].name = stack'[j].name => i = j
      BY <1>2, <1>14 DEF IInv, MarksMeaning
    <3>2. CASE deeper
      <4>1. DOMAIN stack' = 1..(top + 1) /\ stack'[top + 1].name = d
        BY <1>3, <3>2 DEF Push
      <4>2. \A i \in 1..top : stack'[i].name # d
        BY <1>2, <1>7, <1>14, <3>2 DEF IInv, MarksMeaning
      <4>3. \A i \in 1..(top + 1) : i \in 1..top \/ i = top + 1
        BY <1>2
      <4> QED
        BY <3>1, <4>1, <4>2, <4>3
    <3>3. CASE ~deeper
      BY <1>3, <3>1, <3>3
    <3> QED
      BY <3>2, <3>3
  <2>3. ASSUME NEW i \in DOMAIN stack', i > 1
        PROVE  stack'[i].name = types[stack'[i - 1].name].dependencies[stack'[i - 1].next - 1]
    <3>1. CASE i = top + 1
      <4>1. deeper
        BY <1>2, <1>3, <2>3, <3>1
      <4>2. stack'[i].name = d /\ i - 1 = top
        BY <1>2, <1>3, <3>1, <4>1 DEF Push
      <4>3. (k + 1) - 1 = k
        BY <1>2
      <4> QED
        BY <1>3, <4>2, <4>3 DEF d, ds
    <3>2. CASE i # top + 1
      <4>1. i \in 1..top /\ i - 1 \in 1..(top - 1)
        BY <1>2, <1>3, <2>3, <3>2
      <4>2. stack[i].name = types[stack[i - 1].name].dependencies[stack[i - 1].next - 1]
        BY <1>2, <2>3, <4>1 DEF IInv, MarksMeaning
      <4> QED
        BY <1>3, <1>14, <4>1, <4>2
    <3> QED
      BY <3>1, <3>2
  <2>4. \A m \in Names : marks'[m] = 2 => \A e \in Deps(m)' : e \in Names /\ marks'[e] = 2
    BY <1>10 DEF FinishedInv, Passed
  <2> QED
    BY <1>1, <2>1, <2>2, <2>3, <2>4 DEF MarksMeaning
<1>16. StackInv'
  <2> SUFFICES ASSUME NEW i \in DOMAIN stack'
               PROVE  /\ Indexed(types, stack', i)
                      /\ Verdict = "running" => Tested(types, stack', marks', i)
    BY <1>1 DEF StackInv
  <2>1. CASE i \in 1..(top - 1)
    <3>1. /\ i \in DOMAIN stack /\ i < top /\ stack'[i] = stack[i] /\ i < Len(stack')
      BY <1>2, <1>3, <2>1
    <3>2. Indexed(types, stack, i) /\ Tested(types, stack, marks, i)
      BY <1>1, <3>1 DEF IInv, StackInv
    <3>3. Indexed(types, stack', i)
      BY <3>1, <3>2 DEF Indexed
    <3>4. Tested(types, stack', marks', i)
      BY <1>7, <3>1, <3>2 DEF Tested, Passed
    <3> QED
      BY <3>3, <3>4
  <2>2. CASE i = top
    <3>1. Indexed(types, stack, top) /\ Tested(types, stack, marks, top)
      BY <1>1, <1>2 DEF IInv, StackInv
    <3>2. \A j \in 1..(k - 1) : Passed(types, n, ds[j]) /\ marks[ds[j]] = 2
      BY <1>2, <3>1 DEF Tested, n, k, ds
    <3>3. \A j \in 1..(k - 1) : marks'[ds[j]] = 2
      BY <1>7, <3>2 DEF Passed
    <3>4. Indexed(types, stack', top)
      BY <1>2, <1>3, <1>5 DEF Indexed, ds
    <3>5. ASSUME Verdict = "running", NEW j \in 1..k
          PROVE  Passed(types, n, ds[j]) /\ (marks'[ds[j]] = 2 \/ (top < Len(stack') /\ j = k))
      <4>1. CASE j = k
        <5>1. Passed(types, n, ds[j])
          BY <1>6, <3>5, <4>1 DEF d
        <5>2. deeper => top < Len(stack')
          BY <1>2, <1>3
        <5>3. ~deeper => marks[d] = 2
          BY <1>1, <1>6, <3>5 DEF deeper
        <5>4. ~deeper => marks'[d] = 2
          BY <1>6, <1>7, <3>5, <5>3
        <5> QED
          BY <4>1, <5>1, <5>2, <5>4 DEF d
      <4>2. CASE j # k
        <5>1. j \in 1..(k - 1)
          BY <1>2, <4>2
        <5> QED
          BY <3>2, <3>3, <5>1
      <4> QED
        BY <4>1, <4>2
    <3>6. stack'[top].name = n /\ stack'[top].next - 1 = k
      BY <1>2, <1>3
    <3>7. Verdict = "running" => Tested(types, stack', marks', top)
      BY <3>5, <3>6 DEF Tested, ds
    <3> QED
      BY <2>2, <3>4, <3>7
  <2>3. CASE i = top + 1
    <3>1. deeper /\ stack'[i] = Push(d) /\ Len(stack') = top + 1
      BY <1>2, <1>3, <2>3
    <3>2. types[d].dependencies \in Seq(1..(N + 1))
      BY <1>7, <3>1, DependencyTypes DEF IInv
    <3>3. stack'[i].name = d /\ stack'[i].next = 1
      BY <3>1 DEF Push
    <3> QED
      BY <1>2, <2>3, <3>1, <3>2, <3>3 DEF Indexed, Tested
  <2> QED
    BY <1>2, <1>3, <2>1, <2>2, <2>3
<1> QED
  BY <1>8, <1>10, <1>11, <1>12, <1>13, <1>15, <1>16 DEF IInv

(* At the end every node is finished.                                      *)
LEMMA AcceptKeeps ==
  ASSUME IInv, Accept
  PROVE  IInv'
<1>1. /\ UNCHANGED <<types, root, stack, marks>> /\ result' = "ok" /\ stack = <<>>
      /\ root \notin Names /\ root \in 1..(N + 1)
  BY DEF Accept, IInv, TypeInv
<1>2. \A n \in Names : n < root
  BY <1>1, FreezeAssumption DEF Names
<1>3. \A n \in Names : marks[n] = 2
  <2>1. \A n \in Names : marks[n] # 1
    BY <1>1 DEF IInv, MarksMeaning
  <2>2. marks \in [Names -> {0, 1, 2}] /\ \A n \in Names : marks[n] # 0
    BY <1>2 DEF IInv, TypeInv, RootsInv
  <2> QED
    BY <2>1, <2>2
<1>4. Closed /\ EnumsAreIntegers
  BY <1>3 DEF IInv, FinishedInv, Passed, Closed, EnumsAreIntegers
<1>5. Acyclic
  BY <1>3 DEF IInv, AcyclicInv, Acyclic
<1>6. types' = types /\ stack' = stack /\ marks' = marks /\ root' = root
  BY <1>1
<1>7. VerdictCorrect'
  BY <1>1, <1>4, <1>5, <1>6 DEF VerdictCorrect, Closed, EnumsAreIntegers, Acyclic, Deps
<1>8. TypeInv' /\ MarksMeaning' /\ FinishedInv' /\ AcyclicInv' /\ RootsInv'
  BY <1>1, <1>6 DEF IInv, TypeInv, MarksMeaning, FinishedInv, AcyclicInv, RootsInv, Deps
<1>9. StackInv'
  BY <1>1, <1>6 DEF StackInv
<1> QED
  BY <1>7, <1>8, <1>9 DEF IInv

(* and every iteration of the loop keeps it.                               *)
LEMMA StepInv == IInv /\ [Next]_vars => IInv'
<1>1. ASSUME IInv, UNCHANGED vars PROVE IInv'
  BY <1>1 DEF IInv, vars, TypeInv, MarksMeaning, StackInv, FinishedInv, AcyclicInv, RootsInv,
     VerdictCorrect, Closed, EnumsAreIntegers, Acyclic, Deps
<1> QED
  BY <1>1, NextRootKeeps, FinishNodeKeeps, VisitKeeps, AcceptKeeps DEF Next

(* The invariant holds for every number of types and all definitions.      *)
THEOREM InvariantHolds == Spec => []IInv
BY InitInv, StepInv, PTL DEF Spec

(* freezeTypeCatalog accepts exactly the closed, acyclic catalogs whose    *)
(* enums have integer types, refuses for a real reason, and its marks mean *)
(* what the search relies on.                                              *)
THEOREM FreezeIsCorrect == Spec => []FreezeCorrect
<1>1. IInv => FreezeCorrect
  BY DEF IInv, FreezeCorrect
<1> QED
  BY <1>1, InvariantHolds, PTL
=============================================================================
