-------------------------- MODULE ObjectModelProofs --------------------------
(***************************************************************************)
(* Proofs about ObjectModel, for any components, service graphs, limit of  *)
(* the nesting and number of calls.                                        *)
(***************************************************************************)
EXTENDS ObjectModel, SequenceTheorems, WellFoundedInduction, TLAPS

----------------------------------------------------------------------------
(* Chains of sub-services in a service graph g.                            *)

ServiceGraphs == [Services -> SUBSET Services]

Chains(g, k, n) ==
  {p \in [1..n -> Services] :
     \A i \in 1..n : p[i] \in g[IF i = 1 THEN Root[k] ELSE p[i - 1]]}

Routed(g, k) == UNION {Chains(g, k, n) : n \in 0..MaxDepth}

(* The properties' words in those of the proof, for this graph.            *)
LEMMA BelowIsChains ==
  /\ \A k, n : Below(k, n) = Chains(children, k, n)
  /\ \A k : AllPaths(k) = Routed(children, k)
  /\ \A k : WellFormed(k) <=> Chains(children, k, MaxDepth + 1) = {}
BY DEF Below, Chains, AllPaths, Routed, WellFormed

(* A chain is a path of its length that ends at its last service.          *)
LEMMA ChainTypes ==
  ASSUME NEW g, NEW k, NEW n \in Nat, NEW p \in Chains(g, k, n)
  PROVE  /\ p \in Seq(Services) /\ Len(p) = n /\ p \in [1..n -> Services]
         /\ n <= MaxDepth => p \in Paths
         /\ p = <<>> <=> n = 0
         /\ Target(k, p) = IF n = 0 THEN Root[k] ELSE p[n]
<1>1. p \in [1..n -> Services]
  BY DEF Chains
<1>2. p \in Seq(Services)
  BY <1>1
<1>3. Len(p) = n
  BY <1>1, <1>2, LenProperties
<1>4. p = <<>> <=> n = 0
  <2>1. p = <<>> => n = 0
    BY <1>3, EmptySeq
  <2>2. p # <<>> => n # 0
    BY <1>2, <1>3, EmptySeq
  <2> QED
    BY <2>1, <2>2
<1>5. n <= MaxDepth => p \in Paths
  BY <1>1, ModelAssumption DEF Paths
<1> QED
  BY <1>1, <1>2, <1>3, <1>4, <1>5 DEF Target, Last

(* The root is reached by no step.                                         *)
LEMMA RootChain ==
  ASSUME NEW g, NEW k
  PROVE  <<>> \in Chains(g, k, 0)
<1>1. <<>> \in Seq(Services) /\ Len(<<>>) = 0
  BY EmptySeq
<1>2. <<>> \in [1..0 -> Services]
  BY <1>1, LenProperties
<1> QED
  BY <1>2 DEF Chains

(* A chain goes on with any sub-service of its last service.               *)
LEMMA ChainGrows ==
  ASSUME NEW g \in ServiceGraphs, NEW k \in Components, NEW n \in Nat, NEW p \in Chains(g, k, n),
         NEW t \in g[Target(k, p)]
  PROVE  /\ Append(p, t) \in Chains(g, k, n + 1) /\ t \in Services
         /\ Target(k, Append(p, t)) = t /\ Len(Append(p, t)) = n + 1
         /\ \A i \in 1..n : Append(p, t)[i] = p[i]
         /\ Append(p, t)[n + 1] = t
<1>1. /\ p \in Seq(Services) /\ Len(p) = n /\ p \in [1..n -> Services]
      /\ Target(k, p) = IF n = 0 THEN Root[k] ELSE p[n]
  BY ChainTypes
<1>2. Target(k, p) \in Services
  BY <1>1, ModelAssumption
<1>3. t \in Services
  BY <1>2 DEF ServiceGraphs
<1> DEFINE q == Append(p, t)
<1>4. /\ q \in Seq(Services) /\ Len(q) = n + 1
      /\ \A i \in 1..n : q[i] = p[i]
      /\ q[n + 1] = t
  BY <1>1, <1>3, AppendProperties
<1> HIDE DEF q
<1>5. q \in [1..(n + 1) -> Services]
  BY <1>4, LenProperties
<1>6. ASSUME NEW i \in 1..(n + 1)
      PROVE  q[i] \in g[IF i = 1 THEN Root[k] ELSE q[i - 1]]
  <2>1. CASE i = n + 1
    <3>1. CASE n = 0
      BY <1>1, <1>4, <2>1, <3>1
    <3>2. CASE n # 0
      <4>1. n \in 1..n /\ i # 1 /\ i - 1 = n
        BY <2>1, <3>2
      <4>2. q[i - 1] = p[n]
        BY <1>4, <4>1
      <4> QED
        BY <1>1, <1>4, <2>1, <3>2, <4>1, <4>2
    <3> QED
      BY <3>1, <3>2
  <2>2. CASE i # n + 1
    <3>1. i \in 1..n /\ (i # 1 => i - 1 \in 1..n)
      BY <2>2
    <3>2. p[i] \in g[IF i = 1 THEN Root[k] ELSE p[i - 1]]
      BY <3>1 DEF Chains
    <3> QED
      BY <1>4, <3>1, <3>2
  <2> QED
    BY <2>1, <2>2
<1>7. q \in Chains(g, k, n + 1)
  BY <1>5, <1>6 DEF Chains
<1>8. Target(k, q) = t
  <2>1. n + 1 \in Nat /\ n + 1 # 0
    OBVIOUS
  <2>2. Target(k, q) = IF n + 1 = 0 THEN Root[k] ELSE q[n + 1]
    BY <1>7, <2>1, ChainTypes
  <2> QED
    BY <1>4, <2>1, <2>2
<1> QED
  BY <1>3, <1>4, <1>7, <1>8 DEF q

(* A set of numbers has a least one.                                       *)
LEMMA LeastNumber ==
  ASSUME NEW S \in SUBSET Nat, S # {}
  PROVE  \E n \in S : \A m \in S : n <= m
<1>1. \E n \in S : \A m \in S : ~(<<m, n>> \in OpToRel(<, Nat))
  BY NatLessThanWellFounded, WFMin
<1>2. PICK n \in S : \A m \in S : ~(<<m, n>> \in OpToRel(<, Nat))
  BY <1>1
<1>3. \A m \in S : ~(m < n)
  BY <1>2 DEF OpToRel
<1> QED
  BY <1>3

(* Chains that enter a set of services they need not leave have any length.*)
LEMMA ChainsInCycle ==
  ASSUME NEW g \in ServiceGraphs, NEW k \in Components, NEW C,
         \A x \in C : \E y \in C : y \in g[x],
         NEW m \in Nat, NEW p \in Chains(g, k, m), Target(k, p) \in C,
         NEW n \in Nat, m <= n
  PROVE  Chains(g, k, n) # {}
<1> DEFINE Good(i) == \E q \in Chains(g, k, i) : Target(k, q) \in C
           Bad == {i \in Nat : m <= i /\ ~Good(i)}
<1>1. ASSUME Bad # {} PROVE FALSE
  <2>1. PICK i \in Bad : \A j \in Bad : i <= j
    BY <1>1, LeastNumber
  <2>2. i \in Nat /\ m <= i /\ ~Good(i)
    BY <2>1
  <2>3. i # m
    BY <2>2
  <2>4. i - 1 \in Nat /\ m <= i - 1 /\ i - 1 \notin Bad
    BY <2>1, <2>2, <2>3
  <2>5. Good(i - 1)
    BY <2>4
  <2>6. PICK q \in Chains(g, k, i - 1) : Target(k, q) \in C
    BY <2>5
  <2>7. PICK y \in C : y \in g[Target(k, q)]
    BY <2>6
  <2>8. Append(q, y) \in Chains(g, k, (i - 1) + 1) /\ Target(k, Append(q, y)) = y
    BY <2>4, <2>7, ChainGrows
  <2>9. (i - 1) + 1 = i
    BY <2>2
  <2> QED
    BY <2>2, <2>7, <2>8, <2>9
<1> QED
  BY <1>1

----------------------------------------------------------------------------
(* The inductive invariant.                                                *)

(* Every chain on from a chain p ends below the limit and has its route.   *)
Extends(q, m, p) == Len(p) <= m /\ \A i \in 1..Len(p) : q[i] = p[i]

Explored(g, k, p, done) ==
  \A m \in 0..(MaxDepth + 1) : \A q \in Chains(g, k, m) :
    Extends(q, m, p) => m <= MaxDepth /\ q \in done

(* An activation of describeService: it is at its path, and of the         *)
(* sub-services it has left behind all but the one it is in are explored.  *)
Activation(g, k, st, done, i) ==
  /\ st[i].path \in Chains(g, k, i - 1) /\ st[i].service = Target(k, st[i].path)
  /\ st[i].todo \subseteq g[st[i].service]
  /\ \A t \in g[st[i].service] \ st[i].todo :
       \/ i < Len(st) /\ t = st[i + 1].service
       \/ Explored(g, k, Append(st[i].path, t), done)

(* An activation inside another one.                                       *)
Nested(g, st, i) ==
  /\ st[i + 1].service \in g[st[i].service]
  /\ st[i + 1].path = Append(st[i].path, st[i + 1].service)

(* A walk of describeService over the graph of a component.                *)
Walk(g, k, st, done) ==
  /\ Len(st) \in 1..(MaxDepth + 1)
  /\ \A i \in 1..Len(st) : Activation(g, k, st, done, i)
  /\ \A i \in 1..(Len(st) - 1) : Nested(g, st, i)
  /\ done \subseteq Routed(g, k)

Frames == [service : Services, path : Paths, todo : SUBSET Services]

(* One call at a time is inside, and only it has activations.              *)
CallInv ==
  /\ children \in ServiceGraphs /\ stack \in Seq(Frames)
  /\ \A c, d \in Calls : pc[c] \in {"walk", "staged"} /\ pc[d] \in {"walk", "staged"} => c = d
  /\ \A c \in Calls : pc[c] \in {"walk", "staged"} => comp[c] \in Components
  /\ \A c \in Calls : pc[c] = "new" => routes[c] = {}

WalkInv == \A c \in Calls : pc[c] = "walk" => Walk(children, comp[c], stack, routes[c])

(* A staged publication is whole, and so is a published one.               *)
Whole(g, k, done) == Chains(g, k, MaxDepth + 1) = {} /\ done = Routed(g, k)

StagedInv ==
  \A c \in Calls : pc[c] = "staged" => Whole(children, comp[c], routes[c])

OwnerInv ==
  \A n \in Names : published[n] # None =>
    LET c == published[n]
    IN  /\ pc[c] = "done" /\ comp[c] \in Components /\ Name[comp[c]] = n
        /\ Whole(children, comp[c], routes[c])

(* Every route with a port has its connection.                             *)
Linked(c) == \A p \in routes[c] : Target(comp[c], p) \in WithPort => <<c, p>> \in links

LinkInv == \A c \in Calls : Live(c) => Linked(c)

VerdictInv ==
  \A c \in Calls : pc[c] = "malformed" => Chains(children, comp[c], MaxDepth + 1) # {}

IInv ==
  /\ TypeOK /\ CallInv /\ WalkInv /\ StagedInv /\ OwnerInv /\ LinkInv /\ VerdictInv
  /\ NoLeakedLink

----------------------------------------------------------------------------
(* The walk.                                                               *)

(* What is explored stays explored.                                        *)
LEMMA ExploredGrows ==
  ASSUME NEW g, NEW k, NEW p, NEW done, NEW more, done \subseteq more, Explored(g, k, p, done)
  PROVE  Explored(g, k, p, more)
BY DEF Explored

(* Once the component's own service is explored the publication is whole.  *)
LEMMA ExploredRoot ==
  ASSUME NEW g, NEW k, NEW done, done \subseteq Routed(g, k), Explored(g, k, <<>>, done)
  PROVE  Whole(g, k, done)
<1>1. Len(<<>>) = 0
  BY EmptySeq
<1>2. \A m \in 0..(MaxDepth + 1) : \A q \in Chains(g, k, m) : Extends(q, m, <<>>)
  BY <1>1 DEF Extends
<1>3. \A m \in 0..(MaxDepth + 1) : \A q \in Chains(g, k, m) : m <= MaxDepth /\ q \in done
  BY <1>2 DEF Explored
<1>4. MaxDepth + 1 \in 0..(MaxDepth + 1) /\ ~(MaxDepth + 1 <= MaxDepth)
      /\ \A m \in 0..MaxDepth : m \in 0..(MaxDepth + 1)
  BY ModelAssumption
<1>5. Chains(g, k, MaxDepth + 1) = {}
  BY <1>3, <1>4
<1>6. Routed(g, k) \subseteq done
  BY <1>3, <1>4 DEF Routed
<1> QED
  BY <1>5, <1>6 DEF Whole

(* A service is explored with its sub-services and its own route.          *)
LEMMA ServiceExplored ==
  ASSUME NEW g \in ServiceGraphs, NEW k \in Components, NEW done,
         NEW n \in 0..MaxDepth, NEW p \in Chains(g, k, n), p \in done,
         \A t \in g[Target(k, p)] : Explored(g, k, Append(p, t), done)
  PROVE  Explored(g, k, p, done)
<1> SUFFICES ASSUME NEW m \in 0..(MaxDepth + 1), NEW q \in Chains(g, k, m), Extends(q, m, p)
             PROVE  m <= MaxDepth /\ q \in done
  BY DEF Explored
<1>1. m \in Nat /\ n \in Nat /\ MaxDepth \in Nat
  BY ModelAssumption
<1>2. /\ p \in [1..n -> Services] /\ Len(p) = n
      /\ Target(k, p) = IF n = 0 THEN Root[k] ELSE p[n]
  BY <1>1, ChainTypes
<1>3. q \in [1..m -> Services]
  BY <1>1, ChainTypes
<1>4. n <= m /\ \A i \in 1..n : q[i] = p[i]
  BY <1>2 DEF Extends
<1>5. CASE m = n
  <2>1. q = p
    BY <1>2, <1>3, <1>4, <1>5
  <2> QED
    BY <1>5, <2>1
<1>6. CASE m # n
  <2> DEFINE t == q[n + 1]
  <2>1. n + 1 \in 1..m /\ n + 1 <= m
    BY <1>1, <1>4, <1>6
  <2>2. t \in g[IF n + 1 = 1 THEN Root[k] ELSE q[(n + 1) - 1]]
    BY <2>1 DEF Chains
  <2>3. t \in g[Target(k, p)]
    <3>1. CASE n = 0
      BY <1>2, <2>2, <3>1
    <3>2. CASE n # 0
      <4>1. n + 1 # 1 /\ (n + 1) - 1 = n /\ n \in 1..n
        BY <1>1, <3>2
      <4> QED
        BY <1>2, <1>4, <2>2, <3>2, <4>1
    <3> QED
      BY <3>1, <3>2
  <2> HIDE DEF t
  <2>4. /\ Len(Append(p, t)) = n + 1
        /\ \A i \in 1..n : Append(p, t)[i] = p[i]
        /\ Append(p, t)[n + 1] = t
    BY <1>1, <2>3, ChainGrows
  <2>5. \A i \in 1..(n + 1) : q[i] = Append(p, t)[i]
    <3> TAKE i \in 1..(n + 1)
    <3>1. i = n + 1 \/ i \in 1..n
      BY <1>1
    <3> QED
      BY <1>4, <2>4, <3>1 DEF t
  <2>6. Extends(q, m, Append(p, t))
    BY <2>1, <2>4, <2>5 DEF Extends
  <2> QED
    BY <2>3, <2>6 DEF Explored
<1> QED
  BY <1>5, <1>6

(* The walk may begin with the root alone on the stack;                    *)
LEMMA WalkBegins ==
  ASSUME NEW g \in ServiceGraphs, NEW k \in Components, NEW st, Len(st) = 1,
         st[1] = [service |-> Root[k], path |-> <<>>, todo |-> g[Root[k]]]
  PROVE  Walk(g, k, st, {})
<1>1. <<>> \in Chains(g, k, 0) /\ Target(k, <<>>) = Root[k]
  BY RootChain DEF Target
<1>2. /\ st[1].path \in Chains(g, k, 1 - 1) /\ st[1].service = Target(k, st[1].path)
      /\ st[1].todo = g[st[1].service]
  BY <1>1
<1>3. Activation(g, k, st, {}, 1)
  BY <1>2 DEF Activation
<1>4. MaxDepth \in Nat
  BY ModelAssumption
<1> QED
  BY <1>3, <1>4 DEF Walk

(* The sub-service entered is on top, and gone from what is to do.         *)
Entered(g, st, n, t, st2) ==
  /\ n \in Nat /\ n = Len(st) /\ n <= MaxDepth /\ t \in st[n].todo
  /\ Len(st2) = n + 1 /\ \A i \in 1..(n - 1) : st2[i] = st[i]
  /\ st2[n].service = st[n].service /\ st2[n].path = st[n].path
  /\ st2[n].todo = st[n].todo \ {t}
  /\ st2[n + 1].service = t /\ st2[n + 1].path = Append(st[n].path, t)
  /\ st2[n + 1].todo = g[t]

(* entering a sub-service keeps it a walk,                                 *)
LEMMA WalkEnters ==
  ASSUME NEW g \in ServiceGraphs, NEW k \in Components, NEW st, NEW done, Walk(g, k, st, done),
         NEW n, NEW t, NEW st2, Entered(g, st, n, t, st2)
  PROVE  Walk(g, k, st2, done)
<1> USE DEF Entered
<1>1. n \in 1..(MaxDepth + 1) /\ MaxDepth \in Nat /\ n + 1 \in 1..(MaxDepth + 1) /\ n - 1 \in Nat
  BY ModelAssumption DEF Walk
<1>2. \A i \in 1..n : Activation(g, k, st, done, i)
  BY DEF Walk
<1>3. \A i \in 1..(n - 1) : Nested(g, st, i)
  BY DEF Walk
<1>4. /\ st[n].path \in Chains(g, k, n - 1) /\ st[n].service = Target(k, st[n].path)
      /\ st[n].todo \subseteq g[st[n].service]
      /\ \A u \in g[st[n].service] \ st[n].todo : Explored(g, k, Append(st[n].path, u), done)
  BY <1>1, <1>2 DEF Activation
<1>5. t \in g[Target(k, st[n].path)]
  BY <1>4
<1>6. /\ Append(st[n].path, t) \in Chains(g, k, (n - 1) + 1)
      /\ Target(k, Append(st[n].path, t)) = t
  BY <1>1, <1>4, <1>5, ChainGrows
<1>7. ASSUME NEW i \in 1..(n + 1) PROVE Activation(g, k, st2, done, i)
  <2>1. CASE i = n + 1
    <3>1. i - 1 = (n - 1) + 1
      BY <2>1
    <3> QED
      BY <1>6, <2>1, <3>1 DEF Activation
  <2>2. CASE i = n
    <3>1. i < Len(st2)
      BY <2>2
    <3>2. \A u \in g[st[n].service] \ (st[n].todo \ {t}) : u = t \/ u \in g[st[n].service] \ st[n].todo
      OBVIOUS
    <3> QED
      BY <1>4, <2>2, <3>1, <3>2 DEF Activation
  <2>3. CASE i # n /\ i # n + 1
    <3>1. i \in 1..(n - 1) /\ i \in 1..n /\ i < Len(st2)
      BY <2>3
    <3>2. st2[i + 1].service = st[i + 1].service
      <4>1. i + 1 = n \/ i + 1 \in 1..(n - 1)
        BY <3>1
      <4> QED
        BY <4>1
    <3>3. Activation(g, k, st, done, i) /\ st2[i] = st[i]
      BY <1>2, <3>1
    <3> QED
      BY <3>1, <3>2, <3>3 DEF Activation
  <2> QED
    BY <2>1, <2>2, <2>3
<1>8. ASSUME NEW i \in 1..n PROVE Nested(g, st2, i)
  <2>1. CASE i = n
    BY <1>4, <2>1 DEF Nested
  <2>2. CASE i # n
    <3>1. i \in 1..(n - 1) /\ (i + 1 = n \/ i + 1 \in 1..(n - 1))
      BY <2>2
    <3>2. Nested(g, st, i) /\ st2[i] = st[i]
      BY <1>3, <3>1
    <3>3. st2[i + 1].service = st[i + 1].service /\ st2[i + 1].path = st[i + 1].path
      BY <3>1
    <3> QED
      BY <3>2, <3>3 DEF Nested
  <2> QED
    BY <2>1, <2>2
<1>9. done \subseteq Routed(g, k) /\ (n + 1) - 1 = n
  BY DEF Walk
<1> QED
  BY <1>1, <1>7, <1>8, <1>9 DEF Walk

(* A sub-service that is around itself, or too deep, is the end of a chain *)
(* that is longer than the limit or can be prolonged at will.              *)
LEMMA WalkRefutes ==
  ASSUME NEW g \in ServiceGraphs, NEW k \in Components, NEW st, NEW done, Walk(g, k, st, done),
         NEW n \in Nat, n = Len(st), NEW t \in st[n].todo,
         n > MaxDepth \/ \E j \in 1..n : t = st[j].service
  PROVE  Chains(g, k, MaxDepth + 1) # {}
<1>1. n \in 1..(MaxDepth + 1) /\ MaxDepth \in Nat /\ n - 1 \in Nat
  BY ModelAssumption DEF Walk
<1>2. \A i \in 1..n : Activation(g, k, st, done, i)
  BY DEF Walk
<1>3. \A i \in 1..n : st[i].path \in Chains(g, k, i - 1) /\ st[i].service = Target(k, st[i].path)
  BY <1>2 DEF Activation
<1>4. t \in g[st[n].service]
  BY <1>1, <1>2 DEF Activation
<1>5. CASE n > MaxDepth
  <2>1. Append(st[n].path, t) \in Chains(g, k, (n - 1) + 1)
    BY <1>1, <1>3, <1>4, ChainGrows
  <2>2. (n - 1) + 1 = MaxDepth + 1
    BY <1>1, <1>5
  <2> QED
    BY <2>1, <2>2
<1>6. ASSUME NEW j \in 1..n, t = st[j].service PROVE Chains(g, k, MaxDepth + 1) # {}
  <2> DEFINE C == {st[i].service : i \in j..n}
  <2>1. ASSUME NEW x \in C PROVE \E y \in C : y \in g[x]
    <3>1. PICK i \in j..n : x = st[i].service
      OBVIOUS
    <3>2. CASE i = n
      <4>1. t \in C
        BY <1>6
      <4> QED
        BY <1>4, <3>1, <3>2, <4>1
    <3>3. CASE i # n
      <4>1. i \in 1..(n - 1) /\ i + 1 \in j..n
        BY <3>3
      <4>2. st[i + 1].service \in g[st[i].service]
        BY <4>1 DEF Walk, Nested
      <4> QED
        BY <3>1, <4>1, <4>2
    <3> QED
      BY <3>2, <3>3
  <2>2. /\ j - 1 \in Nat /\ st[j].path \in Chains(g, k, j - 1) /\ Target(k, st[j].path) \in C
        /\ MaxDepth + 1 \in Nat /\ j - 1 <= MaxDepth + 1
    BY <1>1, <1>3
  <2> HIDE DEF C
  <2> QED
    BY <2>1, <2>2, ChainsInCycle
<1> QED
  BY <1>5, <1>6

(* A finished service is explored.                                         *)
Finished(st, n, done, more) ==
  /\ n \in Nat /\ n = Len(st) /\ st[n].todo = {}
  /\ more = done \cup {st[n].path}

(* and so does finishing one; at the root everything is done.              *)
LEMMA WalkFinishes ==
  ASSUME NEW g \in ServiceGraphs, NEW k \in Components, NEW st, NEW done, Walk(g, k, st, done),
         NEW n, NEW more, Finished(st, n, done, more)
  PROVE  /\ n = 1 => Whole(g, k, more)
         /\ \A st2 : n # 1 /\ Len(st2) = n - 1 /\ (\A i \in 1..(n - 1) : st2[i] = st[i])
                       => Walk(g, k, st2, more)
         /\ st[n].path \in Paths
<1> USE DEF Finished
<1>1. n \in 1..(MaxDepth + 1) /\ MaxDepth \in Nat /\ n - 1 \in Nat /\ n - 1 \in 0..MaxDepth
  BY ModelAssumption DEF Walk
<1>2. \A i \in 1..n : Activation(g, k, st, done, i)
  BY DEF Walk
<1>3. /\ st[n].path \in Chains(g, k, n - 1) /\ st[n].service = Target(k, st[n].path)
      /\ \A t \in g[st[n].service] : Explored(g, k, Append(st[n].path, t), done)
  <2>1. Activation(g, k, st, done, n) /\ ~(n < Len(st))
    BY <1>1, <1>2
  <2>2. \A t \in g[st[n].service] : t \in g[st[n].service] \ st[n].todo
    OBVIOUS
  <2> QED
    BY <2>1, <2>2 DEF Activation
<1>4. \A t \in g[st[n].service] : Explored(g, k, Append(st[n].path, t), more)
  BY <1>3, ExploredGrows
<1>5. st[n].path \in Chains(g, k, n - 1) /\ st[n].path \in more
  BY <1>3
<1>6. Explored(g, k, st[n].path, more)
  BY <1>1, <1>3, <1>4, <1>5, ServiceExplored
<1>7. more \subseteq Routed(g, k)
  <2>1. st[n].path \in Routed(g, k)
    BY <1>1, <1>3 DEF Routed
  <2> QED
    BY <2>1 DEF Walk
<1>8. st[n].path \in Paths
  BY <1>1, <1>3, ChainTypes
<1>9. ASSUME n = 1 PROVE Whole(g, k, more)
  <2>1. st[n].path \in Chains(g, k, 0)
    BY <1>3, <1>9
  <2>2. st[n].path = <<>>
    BY <2>1, ChainTypes
  <2> QED
    BY <1>6, <1>7, <2>2, ExploredRoot
<1>10. ASSUME NEW st2, n # 1, Len(st2) = n - 1, \A i \in 1..(n - 1) : st2[i] = st[i]
       PROVE  Walk(g, k, st2, more)
  <2>1. \A i \in 1..(n - 1) : Nested(g, st, i)
    BY DEF Walk
  <2>2. ASSUME NEW i \in 1..(n - 1) PROVE Activation(g, k, st2, more, i)
    <3>1. i \in 1..n /\ i < n /\ st2[i] = st[i]
      BY <1>10
    <3>2. /\ st[i].path \in Chains(g, k, i - 1) /\ st[i].service = Target(k, st[i].path)
          /\ st[i].todo \subseteq g[st[i].service]
          /\ \A t \in g[st[i].service] \ st[i].todo :
               t = st[i + 1].service \/ Explored(g, k, Append(st[i].path, t), done)
      BY <1>2, <3>1 DEF Activation
    <3>3. \A t \in g[st[i].service] \ st[i].todo :
            t = st[i + 1].service \/ Explored(g, k, Append(st[i].path, t), more)
      BY <3>2, ExploredGrows
    <3>4. CASE i = n - 1
      <4>1. i + 1 = n /\ st[n].path = Append(st[i].path, st[n].service)
        BY <2>1, <3>4 DEF Nested
      <4>2. \A t \in g[st[i].service] \ st[i].todo : Explored(g, k, Append(st[i].path, t), more)
        BY <1>6, <3>3, <4>1
      <4> QED
        BY <3>1, <3>2, <4>2 DEF Activation
    <3>5. CASE i # n - 1
      <4>1. i < Len(st2) /\ i + 1 \in 1..(n - 1)
        BY <1>10, <3>5
      <4>2. st2[i + 1] = st[i + 1]
        BY <1>10, <4>1
      <4> QED
        BY <3>1, <3>2, <3>3, <4>1, <4>2 DEF Activation
    <3> QED
      BY <3>4, <3>5
  <2>3. ASSUME NEW i \in 1..((n - 1) - 1) PROVE Nested(g, st2, i)
    <3>1. i \in 1..(n - 1) /\ i + 1 \in 1..(n - 1)
      OBVIOUS
    <3>2. st2[i] = st[i] /\ st2[i + 1] = st[i + 1] /\ Nested(g, st, i)
      BY <1>10, <2>1, <3>1
    <3> QED
      BY <3>2 DEF Nested
  <2>4. Len(st2) \in 1..(MaxDepth + 1)
    BY <1>1, <1>10
  <2> QED
    BY <1>7, <1>10, <2>2, <2>3, <2>4 DEF Walk
<1> QED
  BY <1>8, <1>9, <1>10

----------------------------------------------------------------------------
(* The stack of the activations.                                           *)

(* What the invariant says of the stack itself.                            *)
LEMMA StackFacts ==
  ASSUME IInv
  PROVE  /\ Len(stack) \in Nat /\ DOMAIN stack = 1..Len(stack)
         /\ \A i \in 1..Len(stack) : stack[i] \in Frames
         /\ Top = stack[Len(stack)]
         /\ Ancestry = {stack[i].service : i \in 1..Len(stack)}
<1>1. stack \in Seq(Frames)
  BY DEF IInv, CallInv
<1>2. Len(stack) \in Nat /\ DOMAIN stack = 1..Len(stack)
  BY <1>1, LenProperties
<1>3. \A i \in 1..Len(stack) : stack[i] \in Frames
  BY <1>1, ElementOfSeq
<1>4. Ancestry = {stack[i].service : i \in 1..Len(stack)}
  BY <1>2 DEF Ancestry, ToSet
<1> QED
  BY <1>2, <1>3, <1>4 DEF Top, Last

(* A sequence of frames that is not too long is what TypeOK asks for.      *)
LEMMA FramesTyped ==
  ASSUME NEW g, NEW k, NEW done, NEW st \in Seq(Frames), Walk(g, k, st, done)
  PROVE  /\ Len(st) <= MaxDepth + 1 /\ st # <<>>
         /\ \A f \in ToSet(st) : /\ f.service \in Services /\ f.path \in Paths
                                 /\ f.todo \subseteq g[f.service]
<1>1. Len(st) \in 1..(MaxDepth + 1) /\ MaxDepth \in Nat
  BY ModelAssumption DEF Walk
<1>2. DOMAIN st = 1..Len(st)
  BY LenProperties
<1>3. \A f \in ToSet(st) : \E i \in 1..Len(st) : f = st[i]
  BY <1>2 DEF ToSet
<1>4. \A i \in 1..Len(st) : st[i] \in Frames
  BY ElementOfSeq
<1>5. \A i \in 1..Len(st) : st[i].todo \subseteq g[st[i].service]
  BY DEF Walk, Activation
<1>6. \A i \in 1..Len(st) : st[i].service \in Services /\ st[i].path \in Paths
  BY <1>4 DEF Frames
<1>7. st # <<>>
  BY <1>1, EmptySeq
<1> QED
  BY <1>1, <1>3, <1>5, <1>6, <1>7

(* The stack after describeService was entered for t.                      *)
LEMMA Pushed ==
  ASSUME IInv, NEW n \in Nat, n = Len(stack), n # 0, NEW t \in Services, NEW p \in Paths,
         stack' = Append([stack EXCEPT ![Len(stack)].todo = @ \ {t}], Frame(t, p))
  PROVE  /\ stack' \in Seq(Frames) /\ Len(stack') = n + 1
         /\ \A i \in 1..(n - 1) : stack'[i] = stack[i]
         /\ stack'[n].service = stack[n].service /\ stack'[n].path = stack[n].path
         /\ stack'[n].todo = stack[n].todo \ {t}
         /\ stack'[n + 1].service = t /\ stack'[n + 1].path = p
         /\ stack'[n + 1].todo = children[t]
<1>1. stack \in Seq(Frames) /\ n \in 1..Len(stack) /\ children \in [Services -> SUBSET Services]
  BY DEF IInv, CallInv, ServiceGraphs
<1>2. stack[n] \in Frames
  BY <1>1, ElementOfSeq
<1> DEFINE e == [stack[n] EXCEPT !.todo = @ \ {t}]
           low == [stack EXCEPT ![n] = e]
           f == Frame(t, p)
<1>3. e \in Frames /\ e.service = stack[n].service /\ e.path = stack[n].path
      /\ e.todo = stack[n].todo \ {t}
  BY <1>2 DEF Frames
<1>4. f \in Frames /\ f.service = t /\ f.path = p /\ f.todo = children[t]
  BY <1>1 DEF Frame, Frames
<1>5. [stack EXCEPT ![Len(stack)].todo = @ \ {t}] = low
  OBVIOUS
<1> HIDE DEF e, f
<1>6. /\ low \in Seq(Frames) /\ Len(low) = n
      /\ \A j \in 1..n : low[j] = IF j = n THEN e ELSE stack[j]
  BY <1>1, <1>3, ExceptSeq
<1>7. stack' = Append(low, f)
  BY <1>5 DEF f
<1> HIDE DEF low
<1>8. /\ stack' \in Seq(Frames) /\ Len(stack') = n + 1
      /\ \A i \in 1..n : stack'[i] = low[i]
      /\ stack'[n + 1] = f
  <2>1. /\ Append(low, f) \in Seq(Frames) /\ Len(Append(low, f)) = Len(low) + 1
        /\ \A i \in 1..Len(low) : Append(low, f)[i] = low[i]
        /\ Append(low, f)[Len(low) + 1] = f
    BY <1>4, <1>6, AppendProperties
  <2> QED
    BY <1>6, <1>7, <2>1, Zenon
<1>9. \A i \in 1..(n - 1) : stack'[i] = stack[i]
  BY <1>6, <1>8
<1>10. stack'[n] = e
  BY <1>1, <1>6, <1>8
<1> QED
  BY <1>3, <1>4, <1>8, <1>9, <1>10

(* The stack after describeService has returned.                           *)
LEMMA Popped ==
  ASSUME IInv, NEW n \in Nat, n = Len(stack), n # 0, stack' = Front(stack)
  PROVE  /\ stack' \in Seq(Frames) /\ Len(stack') = n - 1
         /\ \A i \in 1..(n - 1) : stack'[i] = stack[i]
<1>1. stack' = SubSeq(stack, 1, n - 1)
  BY DEF Front
<1>2. \A i \in 1..(n - 1) : stack[i] \in Frames
  BY StackFacts
<1>3. /\ stack' \in Seq(Frames) /\ Len(stack') = IF 1 <= n - 1 THEN (n - 1) - 1 + 1 ELSE 0
      /\ \A i \in 1..((n - 1) - 1 + 1) : stack'[i] = stack[1 + i - 1]
  BY <1>1, <1>2, SubSeqProperties
<1> QED
  BY <1>3

(* A stack of one frame.                                                   *)
LEMMA Single ==
  ASSUME NEW f \in Frames
  PROVE  <<f>> \in Seq(Frames) /\ Len(<<f>>) = 1 /\ <<f>>[1] = f
OBVIOUS

(* A stack without frames.                                                 *)
LEMMA NoFrames ==
  /\ <<>> \in Seq(Frames) /\ Len(<<>>) = 0 /\ ToSet(<<>>) = {}
<1>1. <<>> \in Seq(Frames) /\ Len(<<>>) = 0
  BY EmptySeq
<1>2. DOMAIN <<>> = 1..0
  BY <1>1, LenProperties
<1> QED
  BY <1>1, <1>2 DEF ToSet

----------------------------------------------------------------------------
(* The invariant holds when the server starts.                             *)
LEMMA InitInv == Init => IInv
<1> SUFFICES ASSUME Init PROVE IInv
  OBVIOUS
<1>1. /\ published = [n \in Names |-> None] /\ pc = [c \in Calls |-> "new"]
      /\ comp = [c \in Calls |-> None] /\ routes = [c \in Calls |-> {}] /\ links = {}
      /\ children \in ServiceGraphs
  BY ModelAssumption DEF Init, ServiceGraphs
<1>2. stack = <<>>
  BY DEF Init
<1>3. stack \in Seq(Frames) /\ Len(stack) = 0 /\ ToSet(stack) = {}
  BY <1>2, NoFrames
<1>4. TypeOK
  <2>1. /\ published \in [Names -> Calls \cup {None}]
        /\ comp \in [Calls -> Components \cup {None}]
        /\ routes \in [Calls -> SUBSET Paths] /\ links \subseteq Calls \X Paths
    BY <1>1
  <2>2. pc \in [Calls -> {"new", "walk", "staged", "done", "malformed", "conflict", "failed"}]
    BY <1>1
  <2>3. ~(\E c \in Calls : pc[c] = "walk")
    BY <1>1
  <2>4. Len(stack) <= MaxDepth + 1
    BY <1>3, ModelAssumption
  <2> QED
    BY <1>2, <1>3, <2>1, <2>2, <2>3, <2>4 DEF TypeOK
<1>5. CallInv
  BY <1>1, <1>3 DEF CallInv
<1>6. WalkInv /\ StagedInv /\ OwnerInv /\ VerdictInv
  BY <1>1 DEF WalkInv, StagedInv, OwnerInv, VerdictInv
<1>7. LinkInv /\ NoLeakedLink
  BY <1>1 DEF LinkInv, Linked, NoLeakedLink
<1> QED
  BY <1>4, <1>5, <1>6, <1>7 DEF IInv

(* A call acts, the others standing by: what is left to show of it.        *)
LEMMA ActorKeeps ==
  ASSUME IInv, NEW c \in Calls, pc[c] # "done", \A d \in Calls \ {c} : pc[d] \notin {"walk", "staged"},
         TypeOK', children' = children, stack' \in Seq(Frames),
         \A d \in Calls \ {c} : pc'[d] = pc[d] /\ comp'[d] = comp[d] /\ routes'[d] = routes[d],
         \A l : l[1] # c => (l \in links' <=> l \in links),
         \A n \in Names : published[n] # None => published'[n] = published[n],
         \A n \in Names : published'[n] = published[n]
                          \/ /\ published'[n] = c /\ pc'[c] = "done"
                             /\ comp'[c] \in Components /\ Name[comp'[c]] = n
                             /\ Whole(children', comp'[c], routes'[c]),
         pc'[c] \in {"walk", "staged"} => comp'[c] \in Components,
         pc'[c] = "new" => routes'[c] = {},
         pc'[c] = "walk" => Walk(children', comp'[c], stack', routes'[c]),
         pc'[c] = "staged" => Whole(children', comp'[c], routes'[c]),
         pc'[c] = "malformed" => Chains(children', comp'[c], MaxDepth + 1) # {},
         Live(c)' => Linked(c)',
         (\E l \in links' : l[1] = c) => Live(c)'
  PROVE  IInv'
<1>1. /\ CallInv /\ WalkInv /\ StagedInv /\ OwnerInv /\ LinkInv /\ VerdictInv /\ NoLeakedLink
      /\ TypeOK
  BY DEF IInv
<1>2. CallInv'
  BY <1>1 DEF CallInv
<1>3. WalkInv'
  BY <1>1 DEF WalkInv
<1>4. StagedInv' /\ VerdictInv'
  BY <1>1 DEF StagedInv, VerdictInv
<1>5. OwnerInv'
  <2> SUFFICES ASSUME NEW n \in Names, published'[n] # None
               PROVE  /\ pc'[published'[n]] = "done" /\ comp'[published'[n]] \in Components
                      /\ Name[comp'[published'[n]]] = n
                      /\ Whole(children', comp'[published'[n]], routes'[published'[n]])
    BY DEF OwnerInv
  <2>1. CASE published'[n] = published[n]
    <3> DEFINE d == published[n]
    <3>1. /\ pc[d] = "done" /\ comp[d] \in Components /\ Name[comp[d]] = n
          /\ Whole(children, comp[d], routes[d]) /\ d \in Calls
      BY <1>1, <2>1 DEF OwnerInv, TypeOK
    <3>2. d \in Calls \ {c}
      BY <3>1
    <3> HIDE DEF d
    <3>3. pc'[d] = pc[d] /\ comp'[d] = comp[d] /\ routes'[d] = routes[d]
      BY <3>2
    <3> QED
      BY <2>1, <3>1, <3>3 DEF d
  <2> QED
    BY <2>1
<1>6. ASSUME NEW d \in Calls \ {c} PROVE Live(d)' <=> Live(d)
  <2>1. \A n \in Names : published'[n] = d <=> published[n] = d
    <3> TAKE n \in Names
    <3>1. d # None /\ d # c
      BY ModelAssumption
    <3> QED
      BY <3>1
  <2> QED
    BY <2>1 DEF Live
<1>7. LinkInv'
  <2> SUFFICES ASSUME NEW d \in Calls, Live(d)' PROVE Linked(d)'
    BY DEF LinkInv
  <2>1. CASE d # c
    <3>1. Live(d) /\ Linked(d) /\ d \in Calls \ {c}
      BY <1>1, <1>6, <2>1 DEF LinkInv
    <3>2. \A p : <<d, p>> \in links => <<d, p>> \in links'
      BY <2>1
    <3> QED
      BY <3>1, <3>2 DEF Linked
  <2> QED
    BY <2>1
<1>8. NoLeakedLink'
  <2> SUFFICES ASSUME NEW l \in links' PROVE Live(l[1])'
    BY DEF NoLeakedLink
  <2>1. CASE l[1] # c
    <3>1. l \in links /\ l[1] \in Calls \ {c} /\ Live(l[1])
      BY <1>1, <2>1 DEF NoLeakedLink, TypeOK
    <3> QED
      BY <1>6, <3>1
  <2>2. CASE l[1] = c
    BY <2>2
  <2> QED
    BY <2>1, <2>2
<1> QED
  BY <1>2, <1>3, <1>4, <1>5, <1>7, <1>8 DEF IInv

(* A call that is not inside has neither activations nor connections.      *)
LEMMA NewCall ==
  ASSUME IInv, Idle, NEW c \in Calls, pc[c] = "new"
  PROVE  /\ \A d \in Calls : pc[d] \notin {"walk", "staged"}
         /\ \A l \in links : l[1] # c
         /\ routes[c] = {} /\ stack = <<>>
         /\ \A n \in Names : published[n] # c
<1>1. \A d \in Calls : pc[d] \notin {"walk", "staged"}
  BY DEF Idle
<1>2. \A n \in Names : published[n] # c
  BY ModelAssumption DEF IInv, OwnerInv
<1>3. ~Live(c)
  BY <1>1, <1>2 DEF Live
<1>4. \A l \in links : l[1] # c
  BY <1>3 DEF IInv, NoLeakedLink
<1>5. routes[c] = {}
  BY DEF IInv, CallInv
<1>6. stack = <<>>
  BY <1>1 DEF IInv, TypeOK
<1> QED
  BY <1>1, <1>2, <1>4, <1>5, <1>6

(* The only call inside.                                                   *)
LEMMA InsideCall ==
  ASSUME IInv, NEW c \in Calls, pc[c] \in {"walk", "staged"}
  PROVE  /\ \A d \in Calls \ {c} : pc[d] \notin {"walk", "staged"}
         /\ comp[c] \in Components /\ children \in ServiceGraphs
         /\ \A n \in Names : published[n] # c
         /\ Live(c) /\ Linked(c) /\ pc[c] # "done"
<1>1. comp[c] \in Components /\ children \in ServiceGraphs
  BY DEF IInv, CallInv
<1>2. \A d \in Calls \ {c} : pc[d] \notin {"walk", "staged"}
  BY DEF IInv, CallInv
<1>3. \A n \in Names : published[n] # c
  BY ModelAssumption DEF IInv, OwnerInv
<1>4. Live(c) /\ Linked(c)
  BY DEF IInv, LinkInv, Live
<1> QED
  BY <1>1, <1>2, <1>3, <1>4

PcLabels == {"new", "walk", "staged", "done", "malformed", "conflict", "failed"}

(* One publication moves on, the others stay.                              *)
LEMMA PcFacts ==
  ASSUME IInv, NEW c \in Calls, NEW l \in PcLabels, pc' = [pc EXCEPT ![c] = l]
  PROVE  /\ pc'[c] = l /\ \A d \in Calls \ {c} : pc'[d] = pc[d]
         /\ pc' \in [Calls -> PcLabels]
<1>1. pc \in [Calls -> PcLabels]
  BY DEF IInv, TypeOK, PcLabels
<1> HIDE DEF PcLabels
<1> QED
  BY <1>1

(* A publication refused since the server does not run changes nothing.    *)
LEMMA NotRunningKeeps ==
  ASSUME IInv, NEW c \in Calls, NotRunning(c)
  PROVE  IInv'
<1>1. /\ pc[c] = "new" /\ Idle /\ pc' = [pc EXCEPT ![c] = "failed"]
      /\ UNCHANGED <<children, published, comp, routes, links, stack, closed>>
  BY DEF NotRunning
<1>2. /\ pc'[c] = "failed" /\ \A d \in Calls \ {c} : pc'[d] = pc[d]
      /\ pc' \in [Calls -> PcLabels]
  BY <1>1, PcFacts DEF PcLabels
<1>3. /\ \A d \in Calls : pc[d] \notin {"walk", "staged"}
      /\ \A l \in links : l[1] # c
      /\ \A n \in Names : published[n] # c
  BY <1>1, NewCall
<1>4. stack' \in Seq(Frames)
  BY <1>1 DEF IInv, CallInv
<1>5. TypeOK'
  <2>1. (\E d \in Calls : pc'[d] = "walk") <=> (\E d \in Calls : pc[d] = "walk")
    BY <1>2, <1>3
  <2> QED
    BY <1>1, <1>2, <2>1 DEF IInv, TypeOK, PcLabels
<1>6. ~Live(c)'
  BY <1>1, <1>2, <1>3 DEF Live
<1> QED
  BY <1>1, <1>2, <1>3, <1>4, <1>5, <1>6, ActorKeeps

(* stage begins with the root of its component.                            *)
LEMMA BeginKeeps ==
  ASSUME IInv, NEW c \in Calls, Begin(c)
  PROVE  IInv'
<1>1. PICK k \in Components :
        /\ comp' = [comp EXCEPT ![c] = k]
        /\ IF IsPublished(k)
           THEN pc' = [pc EXCEPT ![c] = "done"] /\ UNCHANGED stack
           ELSE /\ pc' = [pc EXCEPT ![c] = "walk"]
                /\ stack' = <<Frame(Root[k], <<>>)>>
  BY DEF Begin
<1>2. pc[c] = "new" /\ Idle /\ UNCHANGED <<children, published, routes, links, closed>>
  BY DEF Begin
<1>3. /\ \A d \in Calls : pc[d] \notin {"walk", "staged"}
      /\ \A l \in links : l[1] # c
      /\ \A n \in Names : published[n] # c
      /\ routes[c] = {}
  BY <1>2, NewCall
<1>4. children \in ServiceGraphs /\ stack \in Seq(Frames) /\ stack = <<>>
  BY <1>2, NewCall DEF IInv, CallInv
<1>5. /\ comp'[c] = k /\ \A d \in Calls \ {c} : comp'[d] = comp[d]
      /\ comp' \in [Calls -> Components \cup {None}]
  BY <1>1 DEF IInv, TypeOK
<1>6. Linked(c)'
  BY <1>2, <1>3 DEF Linked
<1>7. CASE IsPublished(k)
  <2>1. /\ pc'[c] = "done" /\ \A d \in Calls \ {c} : pc'[d] = pc[d]
        /\ pc' \in [Calls -> PcLabels]
    BY <1>1, <1>7, PcFacts DEF PcLabels
  <2>2. stack' = stack
    BY <1>1, <1>7
  <2>3. (\E d \in Calls : pc'[d] = "walk") <=> (\E d \in Calls : pc[d] = "walk")
    BY <1>3, <2>1
  <2>4. TypeOK'
    BY <1>2, <1>5, <2>1, <2>2, <2>3 DEF IInv, TypeOK, PcLabels
  <2>5. ~Live(c)'
    BY <1>2, <1>3, <2>1 DEF Live
  <2> QED
    BY <1>2, <1>3, <1>4, <1>5, <2>1, <2>2, <2>4, <2>5, ActorKeeps
<1>8. CASE ~IsPublished(k)
  <2>1. /\ pc'[c] = "walk" /\ \A d \in Calls \ {c} : pc'[d] = pc[d]
        /\ pc' \in [Calls -> PcLabels]
    BY <1>1, <1>8, PcFacts DEF PcLabels
  <2> DEFINE f == Frame(Root[k], <<>>)
  <2>2. f = [service |-> Root[k], path |-> <<>>, todo |-> children[Root[k]]]
    BY DEF Frame
  <2>3. f \in Frames
    <3>1. <<>> \in Chains(children, k, 0) /\ 0 <= MaxDepth /\ 0 \in Nat
      BY RootChain, ModelAssumption
    <3>2. <<>> \in Paths
      BY <3>1, ChainTypes
    <3>3. Root[k] \in Services /\ children[Root[k]] \in SUBSET Services
      BY <1>4, ModelAssumption DEF ServiceGraphs
    <3> QED
      BY <2>2, <3>2, <3>3 DEF Frames
  <2>4. stack' = <<f>>
    BY <1>1, <1>8
  <2> HIDE DEF f
  <2>5. stack' \in Seq(Frames) /\ Len(stack') = 1 /\ stack'[1] = f
    BY <2>3, <2>4, Single
  <2>6. Walk(children, k, stack', {})
    BY <1>4, <2>2, <2>5, WalkBegins
  <2>7. /\ Len(stack') <= MaxDepth + 1 /\ stack' # <<>>
        /\ \A e \in ToSet(stack') : /\ e.service \in Services /\ e.path \in Paths
                                    /\ e.todo \subseteq children[e.service]
    BY <2>5, <2>6, FramesTyped
  <2>8. TypeOK'
    BY <1>2, <1>5, <2>1, <2>7 DEF IInv, TypeOK, PcLabels
  <2>9. Live(c)'
    BY <2>1 DEF Live
  <2> QED
    BY <1>2, <1>3, <1>5, <1>6, <2>1, <2>5, <2>6, <2>8, <2>9, ActorKeeps
<1> QED
  BY <1>7, <1>8

(* The staged publication is dropped with its connections.                 *)
LEMMA DropKeeps ==
  ASSUME IInv, NEW c \in Calls, pc[c] \in {"walk", "staged"},
         NEW outcome \in {"malformed", "failed", "done", "conflict"}, Drop(c, outcome),
         UNCHANGED <<children, published, comp, closed>>,
         outcome = "malformed" => Chains(children, comp[c], MaxDepth + 1) # {}
  PROVE  IInv'
<1>1. /\ pc' = [pc EXCEPT ![c] = outcome] /\ routes' = [routes EXCEPT ![c] = {}]
      /\ links' = {l \in links : l[1] # c}
  BY DEF Drop
<1>2. stack' = <<>>
  BY DEF Drop
<1>3. /\ \A d \in Calls \ {c} : pc[d] \notin {"walk", "staged"}
      /\ \A n \in Names : published[n] # c
      /\ pc[c] # "done"
  BY InsideCall
<1>4. /\ pc'[c] = outcome /\ \A d \in Calls \ {c} : pc'[d] = pc[d]
      /\ pc' \in [Calls -> PcLabels]
  BY <1>1, PcFacts DEF PcLabels
<1>5. /\ \A d \in Calls \ {c} : routes'[d] = routes[d]
      /\ routes' \in [Calls -> SUBSET Paths]
  BY <1>1 DEF IInv, TypeOK
<1>6. stack' \in Seq(Frames) /\ Len(stack') = 0 /\ ToSet(stack') = {}
  BY <1>2, NoFrames
<1>7. TypeOK'
  <2>1. ~(\E d \in Calls : pc'[d] = "walk")
    BY <1>3, <1>4
  <2>2. Len(stack') <= MaxDepth + 1
    BY <1>6, ModelAssumption
  <2> QED
    BY <1>1, <1>2, <1>4, <1>5, <1>6, <2>1, <2>2 DEF IInv, TypeOK, PcLabels
<1>8. ~Live(c)'
  BY <1>3, <1>4 DEF Live
<1>9. \A l : (l[1] # c => (l \in links' <=> l \in links)) /\ (l \in links' => l[1] # c)
  BY <1>1
<1> QED
  BY <1>3, <1>4, <1>5, <1>6, <1>7, <1>8, <1>9, ActorKeeps

(* describeService is entered for a sub-service.                           *)
LEMMA EnterKeeps ==
  ASSUME IInv, NEW c \in Calls, Enter(c)
  PROVE  IInv'
<1>1. PICK t \in Top.todo :
        IF TooDeep(t)
        THEN Drop(c, "malformed")
        ELSE /\ stack' = Append([stack EXCEPT ![Len(stack)].todo = @ \ {t}],
                                Frame(t, Append(Top.path, t)))
             /\ UNCHANGED <<pc, routes, links>>
  BY DEF Enter
<1>2. pc[c] = "walk" /\ UNCHANGED <<children, published, comp, closed>>
  BY DEF Enter
<1> DEFINE n == Len(stack)
           k == comp[c]
<1>3. /\ \A d \in Calls \ {c} : pc[d] \notin {"walk", "staged"}
      /\ k \in Components /\ children \in ServiceGraphs
      /\ Live(c) /\ Linked(c) /\ pc[c] # "done"
  BY <1>2, InsideCall
<1>4. Walk(children, k, stack, routes[c])
  BY <1>2 DEF IInv, WalkInv
<1>5. /\ n \in Nat /\ Top = stack[n]
      /\ Ancestry = {stack[i].service : i \in 1..n} /\ n \in 1..(MaxDepth + 1)
  BY <1>4, StackFacts DEF Walk
<1>6. t \in stack[n].todo
  BY <1>1, <1>5
<1>7. CASE TooDeep(t)
  <2>1. n > MaxDepth \/ \E j \in 1..n : t = stack[j].service
    BY <1>5, <1>7 DEF TooDeep
  <2>2. Chains(children, k, MaxDepth + 1) # {}
    BY <1>3, <1>4, <1>5, <1>6, <2>1, WalkRefutes
  <2>3. Drop(c, "malformed")
    BY <1>1, <1>7
  <2> QED
    BY <1>2, <2>2, <2>3, DropKeeps
<1>8. CASE ~TooDeep(t)
  <2> DEFINE p == Append(stack[n].path, t)
  <2>1. n <= MaxDepth
    BY <1>5, <1>8, ModelAssumption DEF TooDeep
  <2>2. /\ stack[n].path \in Chains(children, k, n - 1) /\ n - 1 \in Nat
        /\ t \in children[Target(k, stack[n].path)]
    BY <1>4, <1>5, <1>6 DEF Walk, Activation
  <2>3. t \in Services /\ p \in Chains(children, k, (n - 1) + 1)
    BY <1>3, <2>2, ChainGrows
  <2>4. p \in Paths
    <3>1. (n - 1) + 1 \in Nat /\ (n - 1) + 1 <= MaxDepth
      BY <1>5, <2>1
    <3> HIDE DEF p
    <3> QED
      BY <2>3, <3>1, ChainTypes
  <2>5. /\ stack' = Append([stack EXCEPT ![Len(stack)].todo = @ \ {t}], Frame(t, p))
        /\ UNCHANGED <<pc, routes, links>>
    BY <1>1, <1>5, <1>8
  <2>6. n # 0 /\ n = Len(stack) /\ p = Append(stack[n].path, t)
    BY <1>5
  <2> HIDE DEF n, k, p
  <2>7. /\ stack' \in Seq(Frames) /\ Len(stack') = n + 1
        /\ \A i \in 1..(n - 1) : stack'[i] = stack[i]
        /\ stack'[n].service = stack[n].service /\ stack'[n].path = stack[n].path
        /\ stack'[n].todo = stack[n].todo \ {t}
        /\ stack'[n + 1].service = t /\ stack'[n + 1].path = p
        /\ stack'[n + 1].todo = children[t]
    <3>1. n \in Nat /\ n = Len(stack) /\ n # 0 /\ t \in Services /\ p \in Paths
      BY <1>5, <2>3, <2>4, <2>6
    <3>2. stack' = Append([stack EXCEPT ![Len(stack)].todo = @ \ {t}], Frame(t, p))
      BY <2>5
    <3> QED
      BY <3>1, <3>2, Pushed, ZenonT(40)
  <2>8. Walk(children, k, stack', routes[c])
    <3>1. stack'[n + 1].path = Append(stack[n].path, t)
      BY <2>6, <2>7
    <3>2. n \in Nat /\ n = Len(stack) /\ k \in Components /\ children \in ServiceGraphs
      BY <1>3, <1>5, <2>6
    <3>3. Entered(children, stack, n, t, stack')
      BY <1>6, <2>1, <2>7, <3>1, <3>2 DEF Entered
    <3> QED
      BY <1>4, <3>2, <3>3, WalkEnters
  <2>9. /\ Len(stack') <= MaxDepth + 1 /\ stack' # <<>>
        /\ \A e \in ToSet(stack') : /\ e.service \in Services /\ e.path \in Paths
                                    /\ e.todo \subseteq children[e.service]
    BY <2>7, <2>8, FramesTyped
  <2>10. TypeOK'
    BY <1>2, <2>5, <2>9 DEF IInv, TypeOK
  <2>11. Live(c)' /\ Linked(c)'
    BY <1>2, <1>3, <2>5 DEF Live, Linked
  <2> QED
    BY <1>2, <1>3, <2>5, <2>7, <2>8, <2>10, <2>11, ActorKeeps DEF k
<1> QED
  BY <1>7, <1>8

(* A port is connected.                                                    *)
LEMMA ConnectKeeps ==
  ASSUME IInv, NEW c \in Calls, Connect(c)
  PROVE  IInv'
<1>1. /\ pc[c] = "walk" /\ links' = links \cup {<<c, Top.path>>}
      /\ UNCHANGED <<children, published, pc, comp, routes, stack, closed>>
  BY DEF Connect
<1>2. /\ \A d \in Calls \ {c} : pc[d] \notin {"walk", "staged"}
      /\ comp[c] \in Components /\ Live(c) /\ Linked(c) /\ pc[c] # "done"
  BY <1>1, InsideCall
<1>3. Walk(children, comp[c], stack, routes[c]) /\ stack \in Seq(Frames)
  BY <1>1 DEF IInv, WalkInv, CallInv
<1>4. Top.path \in Paths
  <2>1. Len(stack) \in 1..Len(stack)
    BY <1>3, ModelAssumption DEF Walk
  <2>2. Top \in Frames
    BY <2>1, StackFacts
  <2> QED
    BY <2>2 DEF Frames
<1>5. TypeOK'
  BY <1>1, <1>4 DEF IInv, TypeOK
<1>6. Live(c)' /\ Linked(c)'
  BY <1>1, <1>2 DEF Live, Linked
<1>7. \A l : l[1] # c => (l \in links' <=> l \in links)
  BY <1>1
<1> QED
  BY <1>1, <1>2, <1>3, <1>5, <1>6, <1>7, ActorKeeps

(* describeService returns.                                                *)
LEMMA FinishKeeps ==
  ASSUME IInv, NEW c \in Calls, Finish(c)
  PROVE  IInv'
<1> DEFINE n == Len(stack)
           k == comp[c]
           p == stack[n].path
<1>1. /\ pc[c] = "walk" /\ UNCHANGED <<children, published, comp, links, closed>>
      /\ Top.todo = {} /\ Connected(c) /\ stack' = Front(stack)
      /\ routes' = [routes EXCEPT ![c] = @ \cup {Top.path}]
  BY DEF Finish
<1>2. /\ \A d \in Calls \ {c} : pc[d] \notin {"walk", "staged"}
      /\ k \in Components /\ children \in ServiceGraphs
      /\ Live(c) /\ Linked(c) /\ pc[c] # "done"
  BY <1>1, InsideCall
<1>3. Walk(children, k, stack, routes[c])
  BY <1>1 DEF IInv, WalkInv
<1>4. n \in Nat /\ Top = stack[n] /\ n \in 1..(MaxDepth + 1) /\ n # 0 /\ n \in 1..n
  BY <1>3, StackFacts DEF Walk
<1>5. /\ pc' = [pc EXCEPT ![c] = IF n = 1 THEN "staged" ELSE "walk"]
  BY DEF Finish
<1>6. /\ routes'[c] = routes[c] \cup {p}
      /\ \A d \in Calls \ {c} : routes'[d] = routes[d]
  BY <1>1, <1>4 DEF IInv, TypeOK
<1>7. /\ pc'[c] = IF n = 1 THEN "staged" ELSE "walk"
      /\ \A d \in Calls \ {c} : pc'[d] = pc[d]
      /\ pc' \in [Calls -> PcLabels]
  <2>1. (IF n = 1 THEN "staged" ELSE "walk") \in PcLabels
    BY DEF PcLabels
  <2> QED
    BY <1>5, <2>1, PcFacts
<1>8. Live(c)'
  BY <1>7 DEF Live
<1>9. stack[n].service = Target(k, p)
  BY <1>3, <1>4 DEF Walk, Activation
<1>10. Linked(c)'
  <2>1. Target(k, p) \in WithPort => <<c, p>> \in links
    BY <1>1, <1>4, <1>9 DEF Connected
  <2> QED
    BY <1>1, <1>2, <1>6, <2>1 DEF Linked
<1>11. /\ stack' \in Seq(Frames) /\ Len(stack') = n - 1
       /\ \A i \in 1..(n - 1) : stack'[i] = stack[i]
  BY <1>1, <1>4, Popped
<1>12. /\ n = 1 => Whole(children, k, routes'[c])
       /\ \A st2 : n # 1 /\ Len(st2) = n - 1 /\ (\A i \in 1..(n - 1) : st2[i] = stack[i])
                     => Walk(children, k, st2, routes'[c])
       /\ p \in Paths
  <2>1. Finished(stack, n, routes[c], routes'[c])
    BY <1>1, <1>4, <1>6 DEF Finished
  <2> HIDE DEF n, k
  <2> QED
    BY <1>2, <1>3, <2>1, WalkFinishes
<1> HIDE DEF n, k, p
<1>13. routes' \in [Calls -> SUBSET Paths]
  <2>1. p = Top.path /\ routes \in [Calls -> SUBSET Paths]
    BY <1>4 DEF p, IInv, TypeOK
  <2> QED
    BY <1>1, <1>12, <2>1
<1>14. CASE n = 1
  <2>1. stack' = <<>>
    BY <1>11, <1>14, EmptySeq
  <2>2. Len(stack') = 0 /\ ToSet(stack') = {}
    BY <2>1, NoFrames
  <2>3. ~(\E d \in Calls : pc'[d] = "walk")
    BY <1>2, <1>7, <1>14
  <2>4. Len(stack') <= MaxDepth + 1
    BY <2>2, ModelAssumption
  <2>5. TypeOK'
    BY <1>1, <1>7, <1>13, <2>1, <2>2, <2>3, <2>4 DEF IInv, TypeOK, PcLabels
  <2> QED
    BY <1>1, <1>2, <1>6, <1>7, <1>8, <1>10, <1>11, <1>12, <1>14, <2>5, ActorKeeps DEF k
<1>15. CASE n # 1
  <2>1. Walk(children, k, stack', routes'[c])
    BY <1>11, <1>12, <1>15
  <2>2. /\ Len(stack') <= MaxDepth + 1 /\ stack' # <<>>
        /\ \A e \in ToSet(stack') : /\ e.service \in Services /\ e.path \in Paths
                                    /\ e.todo \subseteq children[e.service]
    BY <1>11, <2>1, FramesTyped
  <2>3. TypeOK'
    BY <1>1, <1>7, <1>13, <1>15, <2>2 DEF IInv, TypeOK, PcLabels
  <2> QED
    BY <1>1, <1>2, <1>6, <1>7, <1>8, <1>10, <1>11, <1>15, <2>1, <2>3, ActorKeeps DEF k
<1> QED
  BY <1>14, <1>15

(* commit publishes what was staged.                                       *)
LEMMA CommitKeeps ==
  ASSUME IInv, NEW c \in Calls, Commit(c)
  PROVE  IInv'
<1> DEFINE n == Name[comp[c]]
<1>1. /\ pc[c] = "staged" /\ published[n] = None
      /\ published' = [published EXCEPT ![n] = c] /\ pc' = [pc EXCEPT ![c] = "done"]
      /\ UNCHANGED <<children, comp, routes, links, stack, closed>>
  BY DEF Commit
<1>2. /\ \A d \in Calls \ {c} : pc[d] \notin {"walk", "staged"}
      /\ comp[c] \in Components /\ Linked(c) /\ pc[c] # "done"
  BY <1>1, InsideCall
<1>3. n \in Names
  BY <1>2 DEF Names
<1>4. /\ pc'[c] = "done" /\ \A d \in Calls \ {c} : pc'[d] = pc[d]
      /\ pc' \in [Calls -> PcLabels]
  BY <1>1, PcFacts DEF PcLabels
<1>5. /\ published' \in [Names -> Calls \cup {None}] /\ published'[n] = c
      /\ \A m \in Names \ {n} : published'[m] = published[m]
  BY <1>1, <1>3 DEF IInv, TypeOK
<1>6. Whole(children, comp[c], routes[c]) /\ stack \in Seq(Frames)
  BY <1>1 DEF IInv, StagedInv, CallInv
<1>7. TypeOK'
  <2>1. (\E d \in Calls : pc'[d] = "walk") <=> (\E d \in Calls : pc[d] = "walk")
    BY <1>1, <1>2, <1>4
  <2> QED
    BY <1>1, <1>4, <1>5, <2>1 DEF IInv, TypeOK, PcLabels
<1>8. Live(c)' /\ Linked(c)'
  BY <1>1, <1>2, <1>3, <1>5 DEF Live, Linked
<1> QED
  BY <1>1, <1>2, <1>4, <1>5, <1>6, <1>7, <1>8, ActorKeeps

(* The end of the model gives up every connection.                         *)
LEMMA ReleaseKeeps ==
  ASSUME IInv, ReleaseModel
  PROVE  IInv'
<1>1. /\ Idle /\ published' = [n \in Names |-> None] /\ links' = {}
      /\ UNCHANGED <<children, pc, comp, routes, stack>>
  BY DEF ReleaseModel
<1>2. TypeOK'
  BY <1>1 DEF IInv, TypeOK
<1>3. CallInv' /\ WalkInv' /\ StagedInv' /\ VerdictInv'
  BY <1>1 DEF IInv, CallInv, WalkInv, StagedInv, VerdictInv
<1>4. OwnerInv' /\ NoLeakedLink'
  BY <1>1 DEF OwnerInv, NoLeakedLink
<1>5. \A c \in Calls : ~Live(c)'
  BY <1>1, ModelAssumption DEF Idle, Live
<1>6. LinkInv'
  BY <1>5 DEF LinkInv
<1> QED
  BY <1>2, <1>3, <1>4, <1>6 DEF IInv

(* Every step keeps the invariant.                                         *)
LEMMA StepInv == IInv /\ [Next]_vars => IInv'
<1> SUFFICES ASSUME IInv, [Next]_vars PROVE IInv'
  OBVIOUS
<1>1. CASE ReleaseModel
  BY <1>1, ReleaseKeeps
<1>2. ASSUME NEW c \in Calls, Publish(c) PROVE IInv'
  <2>1. CASE Begin(c) \/ NotRunning(c)
    BY <2>1, BeginKeeps, NotRunningKeeps
  <2>2. CASE Enter(c) \/ Connect(c) \/ Finish(c) \/ Commit(c)
    BY <2>2, EnterKeeps, ConnectKeeps, FinishKeeps, CommitKeeps
  <2>3. CASE Throw(c)
    BY <2>3, DropKeeps DEF Throw
  <2>4. CASE CommitRefused(c)
    BY <2>4, DropKeeps DEF CommitRefused
  <2>5. CASE Stopped(c)
    BY <2>5, DropKeeps DEF Stopped
  <2> QED
    BY <1>2, <2>1, <2>2, <2>3, <2>4, <2>5 DEF Publish
<1>3. CASE UNCHANGED vars
  <2>1. TypeOK' /\ CallInv' /\ WalkInv' /\ StagedInv' /\ OwnerInv' /\ VerdictInv'
    BY <1>3 DEF vars, IInv, TypeOK, CallInv, WalkInv, StagedInv, OwnerInv, VerdictInv
  <2>2. LinkInv' /\ NoLeakedLink'
    BY <1>3 DEF vars, IInv, LinkInv, Linked, Live, NoLeakedLink
  <2> QED
    BY <2>1, <2>2 DEF IInv
<1> QED
  BY <1>1, <1>2, <1>3 DEF Next

(* The inductive invariant holds throughout, whatever graphs the           *)
(* components have and whatever fails.                                     *)
THEOREM InvariantHolds == Spec => []IInv
BY InitInv, StepInv, PTL DEF Spec

(* Every connection with a PortBridge belongs to a publication that is     *)
(* staged or committed: ObjectModel::stage leaves none behind.             *)
THEOREM LinksAreOwned == Spec => []NoLeakedLink
<1>1. IInv => NoLeakedLink
  BY DEF IInv
<1> QED
  BY InvariantHolds, <1>1, PTL

(* describeService's walk publishes exactly the graphs without a chain     *)
(* beyond the limit of the nesting, every service and port of them, and    *)
(* refuses the others only.                                                *)
THEOREM PublishesExactly == Spec => []PublishedExactly
<1>1. ASSUME IInv PROVE PublishedExactly
  <2>1. TypeOK
    BY <1>1 DEF IInv
  <2>2. PublishedWhole
    <3> SUFFICES ASSUME NEW n \in Names, published[n] # None
                 PROVE  LET c == published[n]
                        IN  /\ Name[comp[c]] = n /\ pc[c] = "done"
                            /\ WellFormed(comp[c]) /\ routes[c] = AllPaths(comp[c])
                            /\ \A p \in routes[c] :
                                 Target(comp[c], p) \in WithPort => <<c, p>> \in links
      BY DEF PublishedWhole
    <3> DEFINE c == published[n]
    <3>1. c \in Calls /\ Live(c)
      BY <2>1 DEF TypeOK, Live
    <3>2. Name[comp[c]] = n /\ pc[c] = "done" /\ Whole(children, comp[c], routes[c])
      BY <1>1 DEF IInv, OwnerInv
    <3>3. Linked(c)
      BY <1>1, <3>1 DEF IInv, LinkInv
    <3>4. WellFormed(comp[c]) /\ routes[c] = AllPaths(comp[c])
      BY <3>2, BelowIsChains DEF Whole
    <3> QED
      BY <3>2, <3>3, <3>4 DEF Linked
  <2>3. WalkVerdict
    BY <1>1, BelowIsChains DEF IInv, WalkVerdict, VerdictInv, StagedInv, Whole
  <2> QED
    BY <2>1, <2>2, <2>3 DEF PublishedExactly
<1> QED
  BY InvariantHolds, <1>1, PTL

(* No call disturbs a publication before the model is released.            *)
THEOREM PublicationIsStable == Spec => PublicationStable
<1>1. ASSUME IInv, [Next]_vars, NEW n \in Names, published[n] # None, ~closed'
      PROVE  /\ published'[n] = published[n]
             /\ routes'[published[n]] = routes[published[n]]
             /\ {l \in links : l[1] = published[n]} \subseteq links'
  <2> DEFINE d == published[n]
  <2>1. d \in Calls /\ pc[d] = "done"
    BY <1>1 DEF IInv, TypeOK, OwnerInv
  <2>2. published \in [Names -> Calls \cup {None}] /\ routes \in [Calls -> SUBSET Paths]
    BY <1>1 DEF IInv, TypeOK
  <2> HIDE DEF d
  <2>3. CASE UNCHANGED vars
    BY <2>3 DEF vars, d
  <2>4. CASE ReleaseModel
    BY <1>1, <2>4 DEF ReleaseModel
  <2>5. ASSUME NEW c \in Calls, NEW o, Drop(c, o), UNCHANGED published, pc[c] # "done"
        PROVE  /\ published'[n] = d /\ routes'[d] = routes[d]
               /\ {l \in links : l[1] = d} \subseteq links'
    <3>1. routes' = [routes EXCEPT ![c] = {}] /\ links' = {l \in links : l[1] # c} /\ c # d
      BY <2>1, <2>5 DEF Drop
    <3> QED
      BY <2>1, <2>2, <2>5, <3>1 DEF d
  <2>6. ASSUME NEW c \in Calls, Publish(c)
        PROVE  /\ published'[n] = d /\ routes'[d] = routes[d]
               /\ {l \in links : l[1] = d} \subseteq links'
    <3>1. CASE Begin(c) \/ NotRunning(c)
      BY <3>1 DEF Begin, NotRunning, d
    <3>2. CASE Enter(c)
      <4>1. Drop(c, "malformed") \/ UNCHANGED <<routes, links>>
        BY <3>2 DEF Enter
      <4>2. pc[c] = "walk" /\ UNCHANGED published
        BY <3>2 DEF Enter
      <4> QED
        BY <2>5, <4>1, <4>2 DEF d
    <3>3. CASE Connect(c)
      BY <3>3 DEF Connect, d
    <3>4. CASE Finish(c)
      <4>1. /\ pc[c] = "walk" /\ UNCHANGED <<published, links>>
            /\ routes' = [routes EXCEPT ![c] = @ \cup {Top.path}]
        BY <3>4 DEF Finish
      <4>2. c # d
        BY <2>1, <4>1
      <4> QED
        BY <2>1, <2>2, <4>1, <4>2 DEF d
    <3>5. CASE Commit(c)
      <4>1. /\ published[Name[comp[c]]] = None /\ UNCHANGED <<routes, links>>
            /\ published' = [published EXCEPT ![Name[comp[c]]] = c]
        BY <3>5 DEF Commit
      <4>2. Name[comp[c]] # n
        BY <1>1, <4>1
      <4> QED
        BY <2>2, <4>1, <4>2 DEF d
    <3>6. CASE Throw(c) \/ Stopped(c)
      BY <2>5, <3>6 DEF Throw, Stopped
    <3>7. CASE CommitRefused(c)
      BY <2>5, <3>7 DEF CommitRefused
    <3> QED
      BY <2>6, <3>1, <3>2, <3>3, <3>4, <3>5, <3>6, <3>7 DEF Publish
  <2> QED
    BY <1>1, <2>3, <2>4, <2>6 DEF Next, d
<1>2. IInv /\ [Next]_vars =>
        [\A n \in Names : published[n] # None /\ ~closed' =>
           /\ published'[n] = published[n]
           /\ routes'[published[n]] = routes[published[n]]
           /\ {l \in links : l[1] = published[n]} \subseteq links']_vars
  BY <1>1
<1> QED
  BY InvariantHolds, <1>2, PTL DEF Spec, PublicationStable
=============================================================================
