----------------------------- MODULE WireProofs -----------------------------
(***************************************************************************)
(* What crosses the wire, for all values of the constants.                 *)
(*                                                                         *)
(* BudgetResource: the counter is exact and the resource implements        *)
(* MemoryBudget, for any number of threads and blocks, every limit and     *)
(* every width of std::size_t.                                             *)
(*                                                                         *)
(* ResourceFormat: validUtf8 accepts exactly the well formed texts, paths  *)
(* and names correspond one to one, a reply holds what the operation left, *)
(* and parseJson finds exactly the repeated keys, for texts, names,        *)
(* targets, signatures and documents of any length.                        *)
(***************************************************************************)
EXTENDS BudgetResource, ResourceFormat, FiniteSetTheorems, SequenceTheorems, WellFoundedInduction, TLAPS

----------------------------------------------------------------------------
(* Unsigned arithmetic that does not wrap.                                 *)

(* used_.fetch_sub and limit_ - used subtract as usual when the result is  *)
(* not negative.                                                           *)
LEMMA MinusExact ==
  ASSUME NEW x \in 0 .. (Word - 1), NEW y \in 0 .. x
  PROVE  Minus(x, y) = x - y
BY BudgetAssumption DEF Minus

(* used + bytes is the sum when it is within the limit.                    *)
LEMMA PlusExact ==
  ASSUME NEW x \in Nat, NEW y \in Nat, x + y <= Limit
  PROVE  Plus(x, y) = x + y
BY BudgetAssumption DEF Plus

----------------------------------------------------------------------------
(* Sizes that a finite set of holders has.                                 *)

Sized(S) == [S -> 0 .. (Word - 1)]

(* What is held is a finite number of bytes.                               *)
LEMMA BytesFinite ==
  ASSUME NEW S, IsFiniteSet(S), NEW f \in Sized(S)
  PROVE  IsFiniteSet(Bytes(f)) /\ Cardinality(Bytes(f)) \in Nat
<1>1. IsFiniteSet(1 .. (Word - 1))
  BY FS_Interval, BudgetAssumption
<1>2. IsFiniteSet(S \X (1 .. (Word - 1)))
  BY <1>1, FS_Product
<1>3. Bytes(f) \in SUBSET (S \X (1 .. (Word - 1)))
  BY DEF Bytes, Sized
<1> QED
  BY <1>2, <1>3, FS_Subset, FS_CardinalityType

(* One holder's bytes are as many as its size.                             *)
LEMMA BytesOfOne ==
  ASSUME NEW x, NEW n \in 0 .. (Word - 1)
  PROVE  /\ IsFiniteSet({x} \X (1 .. n))
         /\ Cardinality({x} \X (1 .. n)) = n
<1>1. IsFiniteSet(1 .. n) /\ Cardinality(1 .. n) = n
  BY FS_Interval
<1>2. IsFiniteSet({x}) /\ Cardinality({x}) = 1
  BY FS_Singleton
<1>3. Cardinality({x} \X (1 .. n)) = 1 * n
  BY <1>1, <1>2, FS_Product
<1> QED
  BY <1>1, <1>2, <1>3, FS_Product

(* When f and g differ in one holder only, which has nothing in f, g has   *)
(* that holder's bytes more: the effect of an allocation from f to g and   *)
(* of a deallocation from g to f.                                          *)
LEMMA BytesDiffer ==
  ASSUME NEW S, IsFiniteSet(S), NEW f \in Sized(S), NEW g \in Sized(S), NEW x \in S,
         f[x] = 0, \A y \in S \ {x} : g[y] = f[y]
  PROVE  /\ Cardinality(Bytes(g)) = Cardinality(Bytes(f)) + g[x]
         /\ Cardinality(Bytes(f)) \in Nat /\ g[x] \in Nat
<1> DEFINE new == {x} \X (1 .. g[x])
<1>0. g[x] \in 0 .. (Word - 1)
  BY DEF Sized
<1>1. Bytes(g) = Bytes(f) \cup new
  BY BudgetAssumption DEF Bytes, Sized
<1>2. Bytes(f) \cap new = {}
  BY DEF Bytes, Sized
<1>3. IsFiniteSet(Bytes(f)) /\ Cardinality(Bytes(f)) \in Nat
  BY BytesFinite
<1>4. IsFiniteSet(new) /\ Cardinality(new) = g[x]
  BY <1>0, BytesOfOne
<1> HIDE DEF new
<1>5. Cardinality(Bytes(f) \cup new) = Cardinality(Bytes(f)) + g[x] - Cardinality({})
  BY <1>2, <1>3, <1>4, FS_Union
<1> QED
  BY <1>0, <1>1, <1>3, <1>5, FS_EmptySet

(* Nobody holds anything at first.                                         *)
LEMMA BytesNone ==
  ASSUME NEW S
  PROVE  Cardinality(Bytes([x \in S |-> 0])) = 0
<1>1. Bytes([x \in S |-> 0]) = {}
  BY DEF Bytes
<1> QED
  BY <1>1, FS_EmptySet

----------------------------------------------------------------------------
(* The inductive invariant.  Accounted alone is not inductive: that an     *)
(* exchange stays within the limit depends on the test that preceded it.   *)

(* What a thread is about to add fits on top of what it has seen.          *)
Fits == \A t \in Threads : pc[t] = "swap" => seen[t] + bytes[t] <= Limit

IInv == TypeOK /\ Accounted /\ Fits

(* The holders' sizes are words, now and after a step.                     *)
LEMMA SizesAreWords ==
  TypeOK => block \in Sized(Blocks) /\ Reserved \in Sized(Threads)
<1> SUFFICES ASSUME TypeOK PROVE block \in Sized(Blocks) /\ Reserved \in Sized(Threads)
  OBVIOUS
<1>1. \A n \in Sizes \cup {0} : n \in 0 .. (Word - 1)
  BY BudgetAssumption
<1>2. \A b \in Blocks : block[b] \in Sizes \cup {0}
  BY DEF TypeOK
<1>3. \A t \in Threads : bytes[t] \in Sizes \cup {0}
  BY DEF TypeOK
<1>4. block \in Sized(Blocks)
  BY <1>1, <1>2 DEF TypeOK, Sized
<1>5. \A t \in Threads : Reserved[t] \in 0 .. (Word - 1)
  BY <1>1, <1>3 DEF Reserved
<1>6. Reserved \in Sized(Threads)
  BY <1>5 DEF Reserved, Sized
<1> QED
  BY <1>4, <1>6

(* No thread has begun and no block is live when the resource is made.     *)
LEMMA InitInv == Init => IInv
<1> SUFFICES ASSUME Init PROVE IInv
  OBVIOUS
<1>1. TypeOK
  BY BudgetAssumption DEF Init, TypeOK
<1>2. Reserved = [t \in Threads |-> 0] /\ block = [b \in Blocks |-> 0]
  BY DEF Init, Reserved
<1>3. Accounted
  BY <1>2, BytesNone, BudgetAssumption DEF Init, Accounted
<1>4. Fits
  BY DEF Init, Fits
<1> QED
  BY <1>1, <1>3, <1>4 DEF IInv

(* A thread that is about to return bytes holds no more than is used, so   *)
(* that fetch_sub does not wrap.                                           *)
LEMMA ReturnsWhatItHolds ==
  ASSUME IInv, NEW t \in Threads, pc[t] = "return"
  PROVE  bytes[t] <= used /\ Minus(used, bytes[t]) = used - bytes[t]
<1> DEFINE rest == [Reserved EXCEPT ![t] = 0]
<1>1. block \in Sized(Blocks) /\ Reserved \in Sized(Threads)
  BY SizesAreWords DEF IInv
<1>2. Reserved[t] = bytes[t]
  BY DEF Reserved
<1>3. rest \in Sized(Threads) /\ rest[t] = 0 /\ \A u \in Threads \ {t} : Reserved[u] = rest[u]
  BY <1>1, BudgetAssumption DEF Sized
<1> HIDE DEF rest
<1>4. /\ Cardinality(Bytes(Reserved)) = Cardinality(Bytes(rest)) + bytes[t]
      /\ Cardinality(Bytes(rest)) \in Nat /\ bytes[t] \in Nat
  BY <1>1, <1>2, <1>3, BytesDiffer, BudgetAssumption
<1>5. Cardinality(Bytes(block)) \in Nat
  BY <1>1, BytesFinite, BudgetAssumption
<1>6. used \in 0 .. (Word - 1) /\ bytes[t] \in 0 .. used
  BY <1>4, <1>5 DEF IInv, Accounted, TypeOK
<1> QED
  BY <1>6, MinusExact

(* Every step keeps the types: used_ is never brought below zero or past   *)
(* the limit, since a thread adds what fits and returns what it holds.     *)
LEMMA StepInv == IInv /\ [Next]_vars => IInv'
<1> SUFFICES ASSUME IInv, [Next]_vars PROVE IInv'
  OBVIOUS
<1>0. TypeOK /\ Accounted /\ Fits /\ Limit \in Nat /\ Word \in Nat /\ Limit < Word
  BY BudgetAssumption DEF IInv
<1> USE <1>0
<1>b. \A t \in Threads : bytes[t] \in 0 .. (Word - 1) /\ seen[t] \in 0 .. Limit
  <2>1. \A n \in Sizes \cup {0} : n \in 0 .. (Word - 1)
    BY BudgetAssumption
  <2>2. \A t \in Threads : bytes[t] \in Sizes \cup {0} /\ seen[t] \in 0 .. Limit
    BY DEF TypeOK
  <2> QED
    BY <2>1, <2>2
<1>f. IsFiniteSet(Threads) /\ IsFiniteSet(Blocks)
  BY BudgetAssumption
<1>p. TypeOK' => (block \in Sized(Blocks) /\ Reserved \in Sized(Threads))'
  BY SizesAreWords, PTL
<1>w. block \in Sized(Blocks) /\ Reserved \in Sized(Threads)
  BY SizesAreWords

<1>1. ASSUME NEW t \in Threads, Allocate(t) PROVE IInv'
  <2>1. TypeOK'
    BY <1>1, BudgetAssumption DEF TypeOK, Allocate
  <2>2. Reserved' = Reserved
    BY <1>1 DEF TypeOK, Allocate, Reserved
  <2>3. Accounted'
    BY <1>1, <2>2 DEF Accounted, Allocate
  <2>4. Fits'
    BY <1>1 DEF TypeOK, Fits, Allocate
  <2> QED
    BY <2>1, <2>3, <2>4 DEF IInv
<1>2. ASSUME NEW t \in Threads, pc[t] \in {"load", "swap"}, Test(t), UNCHANGED <<used, block>>
      PROVE  IInv'
  <2>0. used \in 0 .. Limit /\ Minus(Limit, used) = Limit - used
    BY MinusExact DEF TypeOK, Accounted
  <2>1. TypeOK'
    BY <1>2, <2>0 DEF TypeOK, Test
  <2>2. Reserved' = Reserved
    BY <1>2 DEF TypeOK, Test, Reserved
  <2>3. Accounted'
    BY <1>2, <2>2 DEF Accounted
  <2>4. Fits'
    BY <1>2, <1>b, <2>0 DEF TypeOK, Fits, Test, Exceeds
  <2> QED
    BY <2>1, <2>3, <2>4 DEF IInv
<1>3. ASSUME NEW t \in Threads, Swap(t) PROVE IInv'
  <2>0. used' = used + bytes[t] /\ used + bytes[t] <= Limit /\ bytes[t] \in Nat
    BY <1>3, <1>b, PlusExact DEF Swap, Fits
  <2>1. TypeOK'
    BY <1>3, <2>0 DEF TypeOK, Swap
  <2>2. /\ Reserved' \in Sized(Threads) /\ Reserved[t] = 0 /\ Reserved'[t] = bytes[t]
        /\ \A u \in Threads \ {t} : Reserved'[u] = Reserved[u]
    BY <1>3, <2>1, <1>p DEF Reserved, Swap, TypeOK
  <2>3. /\ Cardinality(Bytes(Reserved')) = Cardinality(Bytes(Reserved)) + bytes[t]
        /\ Cardinality(Bytes(Reserved)) \in Nat
    BY <1>w, <2>2, <1>f, BytesDiffer
  <2>4. Cardinality(Bytes(block)) \in Nat
    BY <1>w, <1>f, BytesFinite
  <2>5. Accounted'
    BY <1>3, <2>0, <2>3, <2>4 DEF Accounted, Swap
  <2>6. Fits'
    BY <1>3 DEF TypeOK, Fits, Swap
  <2> QED
    BY <2>1, <2>5, <2>6 DEF IInv
<1>4. ASSUME NEW t \in Threads, Obtain(t) PROVE IInv'
  <2>1. TypeOK'
    BY <1>4, BudgetAssumption DEF TypeOK, Obtain
  <2>2. PICK b \in Blocks : block[b] = 0 /\ block' = [block EXCEPT ![b] = bytes[t]]
    BY <1>4 DEF Obtain
  <2>3. /\ block' \in Sized(Blocks) /\ block[b] = 0 /\ block'[b] = bytes[t]
        /\ \A c \in Blocks \ {b} : block'[c] = block[c]
    BY <2>1, <2>2, <1>p DEF TypeOK
  <2>4. /\ Reserved' \in Sized(Threads) /\ Reserved'[t] = 0 /\ Reserved[t] = bytes[t]
        /\ \A u \in Threads \ {t} : Reserved[u] = Reserved'[u]
    BY <1>4, <2>1, <1>p DEF Reserved, Obtain, TypeOK
  <2>5. /\ Cardinality(Bytes(block')) = Cardinality(Bytes(block)) + bytes[t]
        /\ Cardinality(Bytes(block)) \in Nat /\ bytes[t] \in Nat
    BY <1>w, <2>3, <1>f, BytesDiffer
  <2>6. /\ Cardinality(Bytes(Reserved)) = Cardinality(Bytes(Reserved')) + bytes[t]
        /\ Cardinality(Bytes(Reserved')) \in Nat
    BY <1>w, <2>4, <1>f, BytesDiffer
  <2>7. Accounted'
    BY <1>4, <2>5, <2>6 DEF Accounted, Obtain
  <2>8. Fits'
    BY <1>4 DEF TypeOK, Fits, Obtain
  <2> QED
    BY <2>1, <2>7, <2>8 DEF IInv
<1>5. ASSUME NEW t \in Threads, ObtainThrows(t) PROVE IInv'
  <2>1. TypeOK'
    BY <1>5 DEF TypeOK, ObtainThrows
  <2>2. Reserved' = Reserved
    BY <1>5 DEF TypeOK, ObtainThrows, Reserved
  <2>3. Accounted'
    BY <1>5, <2>2 DEF Accounted, ObtainThrows
  <2>4. Fits'
    BY <1>5 DEF TypeOK, Fits, ObtainThrows
  <2> QED
    BY <2>1, <2>3, <2>4 DEF IInv
<1>6. ASSUME NEW t \in Threads, Deallocate(t) PROVE IInv'
  <2>1. TypeOK'
    BY <1>6, BudgetAssumption DEF TypeOK, Deallocate
  <2>2. PICK b \in Blocks : /\ block[b] # 0
                            /\ bytes' = [bytes EXCEPT ![t] = block[b]]
                            /\ block' = [block EXCEPT ![b] = 0]
    BY <1>6 DEF Deallocate
  <2>3. /\ block' \in Sized(Blocks) /\ block'[b] = 0
        /\ \A c \in Blocks \ {b} : block[c] = block'[c]
    BY <2>1, <2>2, <1>p DEF TypeOK
  <2>4. /\ Reserved' \in Sized(Threads) /\ Reserved[t] = 0 /\ Reserved'[t] = block[b]
        /\ \A u \in Threads \ {t} : Reserved'[u] = Reserved[u]
    BY <1>6, <2>1, <2>2, <1>p DEF Reserved, Deallocate, TypeOK
  <2>5. /\ Cardinality(Bytes(block)) = Cardinality(Bytes(block')) + block[b]
        /\ Cardinality(Bytes(block')) \in Nat /\ block[b] \in Nat
    BY <1>w, <2>3, <1>f, BytesDiffer
  <2>6. /\ Cardinality(Bytes(Reserved')) = Cardinality(Bytes(Reserved)) + block[b]
        /\ Cardinality(Bytes(Reserved)) \in Nat
    BY <1>w, <2>4, <1>f, BytesDiffer
  <2>7. Accounted'
    BY <1>6, <2>5, <2>6 DEF Accounted, Deallocate
  <2>8. Fits'
    BY <1>6, <2>2 DEF TypeOK, Fits, Deallocate
  <2> QED
    BY <2>1, <2>7, <2>8 DEF IInv
<1>7. ASSUME NEW t \in Threads, Return(t) PROVE IInv'
  <2>1. /\ Reserved[t] = bytes[t] /\ Reserved'[t] = 0
        /\ \A u \in Threads \ {t} : Reserved[u] = Reserved'[u]
    BY <1>7 DEF Reserved, Return, TypeOK
  <2>2. Reserved' \in Sized(Threads)
    <3>1. Reserved' = [u \in Threads |-> Reserved'[u]]
      BY DEF Reserved
    <3> QED
      BY <1>w, <2>1, <3>1 DEF Sized
  <2>3. /\ Cardinality(Bytes(Reserved)) = Cardinality(Bytes(Reserved')) + bytes[t]
        /\ Cardinality(Bytes(Reserved')) \in Nat /\ bytes[t] \in Nat
    BY <1>w, <2>1, <2>2, <1>f, BytesDiffer
  <2>4. Cardinality(Bytes(block)) \in Nat
    BY <1>w, <1>f, BytesFinite
  <2>5. used \in 0 .. (Word - 1) /\ bytes[t] \in 0 .. used
    BY <2>3, <2>4 DEF Accounted, TypeOK
  <2>6. used' = used - bytes[t]
    BY <1>7, <2>5, MinusExact DEF Return
  <2>7. TypeOK'
    BY <1>7, <2>5, <2>6 DEF TypeOK, Return
  <2>8. Accounted'
    BY <1>7, <2>3, <2>4, <2>5, <2>6 DEF Accounted, Return
  <2>9. Fits'
    BY <1>7 DEF TypeOK, Fits, Return
  <2> QED
    BY <2>7, <2>8, <2>9 DEF IInv
<1>8. CASE UNCHANGED vars
  <2>1. Reserved' = Reserved
    BY <1>8 DEF vars, Reserved
  <2> QED
    BY <1>8, <2>1 DEF IInv, TypeOK, Accounted, Fits, vars
<1> QED
  BY <1>1, <1>2, <1>3, <1>4, <1>5, <1>6, <1>7, <1>8 DEF Next, Load, SwapFails

----------------------------------------------------------------------------
(* The theorems.                                                           *)

(* The inductive invariant holds throughout.                               *)
THEOREM InvariantHolds == Spec => []IInv
<1>1. Init => IInv
  BY InitInv
<1>2. IInv /\ [Next]_vars => IInv'
  BY StepInv
<1> QED
  BY <1>1, <1>2, PTL DEF Spec

(* used_ is at all times the bytes of the live blocks and of the calls in  *)
(* flight and within the limit (do_allocate, do_deallocate): no exchange   *)
(* that fails, no exception of the underlying resource and no block freed  *)
(* by another thread loses or gains a byte.                                *)
THEOREM CounterExact == Spec => []BudgetExact
<1>1. IInv => BudgetExact
  BY DEF IInv, BudgetExact
<1> QED
  BY <1>1, InvariantHolds, PTL

(* The compare-exchange loop is one atomic step of a budget: a request is  *)
(* granted or refused by what is left at that moment, and do_deallocate    *)
(* gives back exactly a size that was granted.                             *)
THEOREM BudgetImplemented == Spec => ImplementsBudget
<1> DEFINE ask == [t \in Threads |-> IF pc[t] \in {"load", "swap"} THEN bytes[t] ELSE 0]
<1>1. Init => Budget!Init
  BY DEF Init, Budget!Init
<1>2. IInv /\ [Next]_vars => [Budget!Next]_(Budget!vars)
  <2> SUFFICES ASSUME IInv, [Next]_vars
               PROVE  Budget!Next \/ UNCHANGED Budget!vars
    OBVIOUS
  <2>0. TypeOK /\ Accounted /\ Fits /\ Limit \in Nat /\ Word \in Nat /\ Limit < Word
    BY BudgetAssumption DEF IInv
  <2>b. \A t \in Threads : bytes[t] \in Nat /\ (pc[t] # "idle" => bytes[t] \in Sizes)
    <3>1. \A t \in Threads : bytes[t] \in Sizes \cup {0} /\ (pc[t] = "idle" <=> bytes[t] = 0)
      BY <2>0 DEF TypeOK
    <3>2. \A n \in Sizes : n \in Nat
      BY BudgetAssumption
    <3> QED
      BY <3>1, <3>2
  <2>1. ASSUME NEW t \in Threads, Allocate(t) PROVE Budget!Ask(t)
    <3>1. PICK n \in Sizes : bytes' = [bytes EXCEPT ![t] = n]
      BY <2>1 DEF Allocate
    <3>2. ask[t] = 0 /\ ask' = [ask EXCEPT ![t] = n]
      BY <2>0, <2>1, <3>1 DEF Allocate, TypeOK
    <3> QED
      BY <2>1, <3>2 DEF Allocate, Budget!Ask
  <2>2. ASSUME NEW t \in Threads, pc[t] \in {"load", "swap"}, Test(t), UNCHANGED <<used, block>>
        PROVE  Budget!Refuse(t) \/ UNCHANGED Budget!vars
    <3>0. Minus(Limit, used) = Limit - used /\ used \in Nat
      BY <2>0, MinusExact DEF TypeOK, Accounted
    <3>1. CASE Exceeds(bytes[t], used)
      <4>1. ask[t] = bytes[t] /\ bytes[t] # 0 /\ ask' = [ask EXCEPT ![t] = 0]
        BY <2>0, <2>2, <3>1 DEF Test, TypeOK
      <4>2. used + bytes[t] > Limit
        BY <2>0, <2>b, <3>0, <3>1 DEF Exceeds
      <4> QED
        BY <2>2, <3>1, <4>1, <4>2 DEF Test, Budget!Refuse
    <3>2. CASE ~Exceeds(bytes[t], used)
      <4>1. ask' = ask
        BY <2>0, <2>2, <3>2 DEF Test, TypeOK
      <4> QED
        BY <2>2, <3>2, <4>1 DEF Test, Budget!vars
    <3> QED
      BY <3>1, <3>2
  <2>3. ASSUME NEW t \in Threads, Swap(t) PROVE Budget!Grant(t)
    <3>1. ask[t] = bytes[t] /\ bytes[t] # 0 /\ ask' = [ask EXCEPT ![t] = 0]
      BY <2>0, <2>3 DEF Swap, TypeOK
    <3>2. used + bytes[t] <= Limit /\ used' = used + bytes[t]
      BY <2>0, <2>3, <2>b, PlusExact DEF Swap, Fits, TypeOK
    <3> QED
      BY <2>3, <3>1, <3>2 DEF Swap, Budget!Grant
  <2>4. ASSUME NEW t \in Threads, Obtain(t) \/ ObtainThrows(t) \/ Deallocate(t)
        PROVE  UNCHANGED Budget!vars
    <3>1. ask' = ask
      BY <2>0, <2>4 DEF Obtain, ObtainThrows, Deallocate, TypeOK
    <3> QED
      BY <2>4, <3>1 DEF Obtain, ObtainThrows, Deallocate, Budget!vars
  <2>5. ASSUME NEW t \in Threads, Return(t) PROVE Budget!GiveBack
    <3>1. ask' = ask
      BY <2>0, <2>5 DEF Return, TypeOK
    <3>2. bytes[t] \in Sizes /\ bytes[t] <= used /\ used' = used - bytes[t]
      BY <2>5, <2>b, ReturnsWhatItHolds DEF Return
    <3> QED
      BY <2>5, <3>1, <3>2 DEF Return, Budget!GiveBack
  <2>6. CASE UNCHANGED vars
    BY <2>6 DEF vars, Budget!vars
  <2> QED
    BY <2>1, <2>2, <2>3, <2>4, <2>5, <2>6 DEF Next, Load, SwapFails, Budget!Next
<1> QED
  BY <1>1, <1>2, InvariantHolds, PTL DEF Spec, ImplementsBudget, Budget!Spec
----------------------------------------------------------------------------
(* Induction and recursion.                                                *)

(* A set of numbers has a least one.                                       *)
LEMMA LeastNumber ==
  ASSUME NEW S \in SUBSET Nat, S # {}
  PROVE  \E n \in S : \A m \in S : n <= m
<1>1. \E n \in S : \A m \in S : ~(<<m, n>> \in OpToRel(<, Nat))
  BY NatLessThanWellFounded, WFMin
<1>2. PICK n \in S : \A m \in S : ~(<<m, n>> \in OpToRel(<, Nat))
  BY <1>1
<1>3. \A m \in S : ~(m < n)
  BY <1>2 DEF OpToRel
<1> QED
  BY <1>3

(* A set that has 0, and with a number the next one, has all up to n.      *)
LEMMA Induction ==
  ASSUME NEW n \in Nat, NEW P \in SUBSET (0 .. n), 0 \in P,
         \A k \in 1 .. n : k - 1 \in P => k \in P
  PROVE  P = 0 .. n
<1> DEFINE Bad == (0 .. n) \ P
<1>1. ASSUME Bad # {} PROVE FALSE
  <2>0. Bad \in SUBSET Nat
    OBVIOUS
  <2> HIDE DEF Bad
  <2>1. PICK k \in Bad : \A j \in Bad : k <= j
    BY <1>1, <2>0, LeastNumber
  <2> USE DEF Bad
  <2>2. k \in 1 .. n /\ k - 1 \in P
    BY <2>1
  <2> QED
    BY <2>1, <2>2
<1> QED
  BY <1>1

(* The states of a loop over 1 .. n whose step i is g[i].                  *)
Iterates(f, n, b, g) == f[0] = b /\ \A i \in 1 .. n : f[i] = g[i][f[i - 1]]

(* Such a loop has states, if the steps stay in a set.                     *)
LEMMA Iteration ==
  ASSUME NEW n \in Nat, NEW T, NEW b \in T, NEW g \in [1 .. n -> [T -> T]]
  PROVE  \E f \in [0 .. n -> T] : Iterates(f, n, b, g)
<1> DEFINE P == {k \in 0 .. n : \E f \in [0 .. k -> T] : Iterates(f, k, b, g)}
<1>1. 0 \in P
  <2>1. [i \in 0 .. 0 |-> b] \in [0 .. 0 -> T] /\ Iterates([i \in 0 .. 0 |-> b], 0, b, g)
    BY DEF Iterates
  <2> QED
    BY <2>1
<1>2. ASSUME NEW k \in 1 .. n, k - 1 \in P PROVE k \in P
  <2>1. PICK f \in [0 .. (k - 1) -> T] : Iterates(f, k - 1, b, g)
    BY <1>2
  <2>2. g[k] \in [T -> T] /\ f[k - 1] \in T /\ g[k][f[k - 1]] \in T
    OBVIOUS
  <2> DEFINE h == [i \in 0 .. k |-> IF i < k THEN f[i] ELSE g[k][f[k - 1]]]
  <2>3. h \in [0 .. k -> T]
    BY <2>2
  <2>4. Iterates(h, k, b, g)
    BY <2>1 DEF Iterates
  <2> QED
    BY <2>3, <2>4
<1> HIDE DEF P
<1>3. P = 0 .. n
  BY <1>1, <1>2, Induction DEF P
<1> QED
  BY <1>3 DEF P

(* Two loops with the same steps are in the same states.                   *)
LEMMA SameIterates ==
  ASSUME NEW n \in Nat, NEW b, NEW g, NEW h, \A i \in 1 .. n : g[i] = h[i],
         NEW f, Iterates(f, n, b, g), NEW e, Iterates(e, n, b, h)
  PROVE  \A i \in 0 .. n : f[i] = e[i]
<1> DEFINE P == {i \in 0 .. n : f[i] = e[i]}
<1>1. 0 \in P
  BY DEF Iterates
<1>2. ASSUME NEW k \in 1 .. n, k - 1 \in P PROVE k \in P
  BY <1>2 DEF Iterates
<1> HIDE DEF P
<1>3. P = 0 .. n
  BY <1>1, <1>2, Induction DEF P
<1> QED
  BY <1>3 DEF P

----------------------------------------------------------------------------
(* Numbers in their order.                                                 *)

Rising(s) == \A i, j \in DOMAIN s : i < j => s[i] < s[j]
Enumerates(s, k, S) == s \in [1 .. k -> S] /\ Rising(s) /\ \A x \in S : \E i \in 1 .. k : s[i] = x

(* A set of numbers up to n can be listed in order.                        *)
LEMMA EnumerationExists ==
  ASSUME NEW n \in Nat, NEW S \in SUBSET (1 .. n)
  PROVE  \E k \in Nat : \E s : Enumerates(s, k, S)
<1> DEFINE P == {m \in 0 .. n : \A R \in SUBSET (1 .. m) : \E k \in Nat : \E s : Enumerates(s, k, R)}
<1>1. 0 \in P
  <2> SUFFICES ASSUME NEW R \in SUBSET (1 .. 0) PROVE \E k \in Nat : \E s : Enumerates(s, k, R)
    OBVIOUS
  <2>1. Enumerates([i \in 1 .. 0 |-> 0], 0, R)
    BY DEF Enumerates, Rising
  <2> QED
    BY <2>1
<1>2. ASSUME NEW m \in 1 .. n, m - 1 \in P PROVE m \in P
  <2> SUFFICES ASSUME NEW R \in SUBSET (1 .. m) PROVE \E k \in Nat : \E s : Enumerates(s, k, R)
    OBVIOUS
  <2>1. R \ {m} \in SUBSET (1 .. (m - 1))
    OBVIOUS
  <2>0. PICK k \in Nat : \E s : Enumerates(s, k, R \ {m})
    BY <1>2, <2>1
  <2>2. PICK s : Enumerates(s, k, R \ {m})
    BY <2>0
  <2>3. CASE m \notin R
    <3>1. R \ {m} = R
      BY <2>3
    <3> QED
      BY <2>2, <3>1
  <2>4. CASE m \in R
    <3> DEFINE t == [i \in 1 .. (k + 1) |-> IF i <= k THEN s[i] ELSE m]
    <3>0. \A x \in R \ {m} : x \in Nat /\ x < m
      BY <2>1
    <3>a. s \in [1 .. k -> R \ {m}]
      BY <2>2 DEF Enumerates
    <3>1. \A i \in 1 .. k : s[i] \in R \ {m} /\ s[i] \in Nat /\ s[i] < m
      BY <3>0, <3>a
    <3>2. t \in [1 .. (k + 1) -> R]
      BY <2>4, <3>1
    <3>3. Rising(t)
      <4> SUFFICES ASSUME NEW i \in 1 .. (k + 1), NEW j \in 1 .. (k + 1), i < j PROVE t[i] < t[j]
        BY <3>2 DEF Rising
      <4>1. i \in 1 .. k /\ t[i] = s[i]
        OBVIOUS
      <4> QED
        BY <2>2, <3>1, <4>1 DEF Enumerates, Rising
    <3>4. \A x \in R : \E i \in 1 .. (k + 1) : t[i] = x
      <4> TAKE x \in R
      <4>1. CASE x = m
        <5>1. t[k + 1] = x /\ k + 1 \in 1 .. (k + 1)
          BY <4>1
        <5> QED
          BY <5>1
      <4>2. CASE x # m
        <5>1. PICK i \in 1 .. k : s[i] = x
          BY <2>2, <4>2 DEF Enumerates
        <5>2. i \in 1 .. (k + 1) /\ t[i] = x
          BY <5>1
        <5> QED
          BY <5>2
      <4> QED
        BY <4>1, <4>2
    <3> HIDE DEF t
    <3>5. Enumerates(t, k + 1, R) /\ k + 1 \in Nat
      BY <3>2, <3>3, <3>4 DEF Enumerates
    <3> QED
      BY <3>5
  <2> QED
    BY <2>3, <2>4
<1> HIDE DEF P
<1>3. P = 0 .. n
  BY <1>1, <1>2, Induction DEF P
<1> QED
  BY <1>3 DEF P

(* The number of elements is the length of their enumeration.              *)
LEMMA EnumerationSize ==
  ASSUME NEW n \in Nat, NEW S \in SUBSET (1 .. n), NEW k \in Nat, NEW s, Enumerates(s, k, S)
  PROVE  IsFiniteSet(S) /\ Cardinality(S) = k
<1>1. s \in Bijection(1 .. k, S)
  <2>1. s \in [1 .. k -> S] /\ \A x \in S : \E i \in 1 .. k : s[i] = x
    BY DEF Enumerates
  <2>a. \A x \in S : x \in Nat
    OBVIOUS
  <2>2. \A i, j \in 1 .. k : s[i] = s[j] => i = j
    <3> SUFFICES ASSUME NEW i \in 1 .. k, NEW j \in 1 .. k, s[i] = s[j], i # j PROVE FALSE
      OBVIOUS
    <3>0. i < j \/ j < i
      OBVIOUS
    <3>1. s[i] \in S /\ s[j] \in S /\ s[i] \in Nat /\ s[j] \in Nat
      BY <2>1, <2>a
    <3> QED
      BY <2>1, <3>0, <3>1 DEF Enumerates, Rising
  <2> QED
    BY <2>1, <2>2 DEF Bijection, Injection, Surjection, IsInjective
<1>2. IsFiniteSet(1 .. k) /\ Cardinality(1 .. k) = k
  BY FS_Interval
<1> QED
  <2>1. ExistsBijection(1 .. k, S)
    BY <1>1 DEF ExistsBijection
  <2> QED
    BY <1>2, <2>1, FS_Bijection

(* What InOrder chooses enumerates the set.                                *)
LEMMA InOrderEnumerates ==
  ASSUME NEW n \in Nat, NEW S \in SUBSET (1 .. n)
  PROVE  Cardinality(S) \in Nat /\ IsFiniteSet(S) /\ Enumerates(InOrder(S), Cardinality(S), S)
<1>0. PICK k \in Nat : \E s : Enumerates(s, k, S)
  BY EnumerationExists
<1>1. PICK s : Enumerates(s, k, S)
  BY <1>0
<1>2. IsFiniteSet(S) /\ Cardinality(S) = k
  BY <1>1, EnumerationSize
<1> DEFINE t == InOrder(S)
<1>3. t \in [1 .. k -> S] /\ Rising(t)
  BY <1>1, <1>2 DEF InOrder, Enumerates, Rising
<1> HIDE DEF t
<1> DEFINE R == {t[i] : i \in 1 .. k}
<1>4. R \in SUBSET S /\ R \in SUBSET (1 .. n) /\ Enumerates(t, k, R)
  BY <1>3 DEF Enumerates
<1> HIDE DEF R
<1>5. IsFiniteSet(R) /\ Cardinality(R) = k
  BY <1>4, EnumerationSize
<1>6. R = S
  BY <1>2, <1>4, <1>5, FS_Subset
<1> QED
  BY <1>2, <1>4, <1>6 DEF t

(* There is only one.                                                      *)
LEMMA InOrderUnique ==
  ASSUME NEW n \in Nat, NEW S \in SUBSET (1 .. n), NEW k \in Nat, NEW s, Enumerates(s, k, S)
  PROVE  InOrder(S) = s
<1> DEFINE t == InOrder(S)
<1>1. Enumerates(t, k, S)
  BY EnumerationSize, InOrderEnumerates
<1> HIDE DEF t
<1>a. s \in [1 .. k -> S] /\ t \in [1 .. k -> S] /\ \A x \in S : x \in Nat
  BY <1>1 DEF Enumerates
<1>2. /\ \A i \in 1 .. k : s[i] \in S /\ t[i] \in S /\ s[i] \in Nat /\ t[i] \in Nat
      /\ s \in [1 .. k -> S] /\ t \in [1 .. k -> S]
  BY <1>a
<1> DEFINE Bad == {i \in 1 .. k : s[i] # t[i]}
<1>3. ASSUME Bad # {} PROVE FALSE
  <2>0. Bad \in SUBSET Nat
    OBVIOUS
  <2> HIDE DEF Bad
  <2>1. PICK i \in Bad : \A j \in Bad : i <= j
    BY <1>3, <2>0, LeastNumber
  <2> USE DEF Bad
  <2>2. PICK j \in 1 .. k : t[j] = s[i]
    BY <1>1, <1>2 DEF Enumerates
  <2>3. PICK l \in 1 .. k : s[l] = t[i]
    BY <1>2 DEF Enumerates
  <2>4. ~(j < i) /\ ~(l < i)
    <3>1. ASSUME j < i PROVE FALSE
      <4>1. s[j] = t[j]
        BY <2>1, <3>1
      <4> QED
        BY <1>1, <1>2, <2>1, <2>2, <3>1, <4>1 DEF Enumerates, Rising
    <3>2. ASSUME l < i PROVE FALSE
      <4>1. s[l] = t[l]
        BY <2>1, <3>2
      <4>2. t[l] < t[i]
        BY <1>1, <1>2, <3>2 DEF Enumerates, Rising
      <4> QED
        BY <1>2, <2>3, <4>1, <4>2
    <3> QED
      BY <3>1, <3>2
  <2>5. i < j /\ i < l
    BY <2>1, <2>2, <2>3, <2>4
  <2>6. t[i] < t[j] /\ s[i] < s[l]
    BY <1>1, <1>2, <2>5 DEF Enumerates, Rising
  <2> QED
    BY <1>2, <2>2, <2>3, <2>6
<1>4. \A i \in 1 .. k : s[i] = t[i]
  BY <1>3
<1> QED
  BY <1>2, <1>4 DEF t

----------------------------------------------------------------------------
(* Operations.                                                             *)

(* InOrder gives a sequence of the elements of the set.                    *)
LEMMA InOrderSeq ==
  ASSUME NEW n \in Nat, NEW S \in SUBSET (1 .. n)
  PROVE  /\ InOrder(S) \in Seq(S) /\ IsFiniteSet(S)
         /\ Len(InOrder(S)) = Cardinality(S) /\ Cardinality(S) \in Nat
         /\ \A x \in S : \E i \in DOMAIN InOrder(S) : InOrder(S)[i] = x
<1> DEFINE t == InOrder(S)
           k == Cardinality(S)
<1>1. k \in Nat /\ IsFiniteSet(S) /\ Enumerates(t, k, S)
  BY InOrderEnumerates
<1> HIDE DEF t, k
<1>2. t \in [1 .. k -> S]
  BY <1>1 DEF Enumerates
<1>3. t \in Seq(S) /\ Len(t) = k /\ DOMAIN t = 1 .. k
  BY <1>1, <1>2
<1>4. \A x \in S : \E i \in DOMAIN t : t[i] = x
  BY <1>1, <1>3 DEF Enumerates
<1> QED
  BY <1>1, <1>3, <1>4 DEF t, k

SignatureTyped(s) ==
  /\ s.args \in Seq([type : STRING, mutable : BOOLEAN]) /\ s.documented \in Nat
  /\ s.result \in STRING /\ s.collect \in Seq(STRING)

Mutable(s) == {i \in DOMAIN s.args : s.args[i].mutable}
Documented(s) == {i \in DOMAIN s.args : i <= s.documented /\ s.args[i].mutable}

(* The indices that describeService publishes are those of arguments.      *)
LEMMA OutputIndices ==
  ASSUME NEW s, SignatureTyped(s)
  PROVE  /\ Outputs(s) \in Seq(DOMAIN s.args) /\ Mutables(s) \in Seq(DOMAIN s.args)
         /\ Len(Outputs(s)) = Len(Mutables(s)) => Outputs(s) = Mutables(s)
         /\ \A i \in DOMAIN Mutables(s) : Mutables(s)[i] \in Nat
<1> DEFINE n == Len(s.args)
<1>1. n \in Nat /\ DOMAIN s.args = 1 .. n
  BY DEF SignatureTyped
<1>2. Documented(s) \in SUBSET (1 .. n) /\ Mutable(s) \in SUBSET (1 .. n)
      /\ Documented(s) \in SUBSET Mutable(s)
  BY <1>1 DEF Documented, Mutable
<1> HIDE DEF n
<1>3. /\ Outputs(s) \in Seq(Documented(s)) /\ Len(Outputs(s)) = Cardinality(Documented(s))
      /\ Mutables(s) \in Seq(Mutable(s)) /\ Len(Mutables(s)) = Cardinality(Mutable(s))
      /\ IsFiniteSet(Mutable(s))
  BY <1>1, <1>2, InOrderSeq DEF Outputs, Mutables, Documented, Mutable
<1>4. Outputs(s) \in Seq(1 .. n) /\ Mutables(s) \in Seq(1 .. n)
  BY <1>2, <1>3, SeqMonotonic
<1>5. ASSUME Len(Outputs(s)) = Len(Mutables(s)) PROVE Outputs(s) = Mutables(s)
  <2>1. Documented(s) = Mutable(s)
    BY <1>2, <1>3, <1>5, FS_Subset
  <2> QED
    BY <2>1 DEF Outputs, Mutables, Documented, Mutable
<1>6. \A i \in DOMAIN Mutables(s) : Mutables(s)[i] \in 1 .. n
  BY <1>4, ElementOfSeq, LenProperties
<1>7. \A i \in 1 .. n : i \in Nat
  BY <1>1
<1> QED
  BY <1>1, <1>4, <1>5, <1>6, <1>7

(* What prepareInvocation indexes exists.                                  *)
LEMMA SupportedIndices ==
  ASSUME NEW s, SignatureTyped(s), Supported(s), NEW send \in BOOLEAN
  PROVE  IndicesValid(Describe(s), send)
<1> DEFINE op == Describe(s)
<1>1. /\ op.collect = s.collect /\ op.outputs = Outputs(s) /\ op.hasResult = HasResult(s)
      /\ op.arguments = [i \in DOMAIN s.args |-> s.args[i].type]
  BY DEF Describe
<1> HIDE DEF op
<1> SUFFICES ASSUME NEW i \in DOMAIN op.collect
             PROVE  /\ Bindable(op.collect[i])
                    /\ InPlace(op, send, i) =>
                         /\ i - Shift(op.hasResult) \in DOMAIN op.outputs
                         /\ op.outputs[i - Shift(op.hasResult)] \in DOMAIN op.arguments
                         /\ op.arguments[op.outputs[i - Shift(op.hasResult)]] = op.collect[i]
  BY DEF IndicesValid, op
<1>2. Bindable(s.collect[i]) /\ s.collect[i] = ExpectedType(s, i)
  BY <1>1 DEF Supported
<1>3. ASSUME InPlace(op, send, i)
      PROVE  /\ i - Shift(op.hasResult) \in DOMAIN op.outputs
             /\ op.outputs[i - Shift(op.hasResult)] \in DOMAIN op.arguments
             /\ op.arguments[op.outputs[i - Shift(op.hasResult)]] = op.collect[i]
  <2>1. ~(HasResult(s) /\ i = 1)
    BY <1>1, <1>3 DEF InPlace
  <2>2. Outputs(s) \in Seq(DOMAIN s.args) /\ Len(Outputs(s)) \in Nat
    BY OutputIndices
  <2>3. Len(s.collect) = Len(Outputs(s)) + Shift(HasResult(s)) /\ i \in 1 .. Len(s.collect)
    BY <1>1 DEF Supported, SignatureTyped
  <2> DEFINE j == i - Shift(HasResult(s))
  <2>4. j \in 1 .. Len(Outputs(s))
    BY <2>1, <2>2, <2>3 DEF Shift
  <2>5. ExpectedType(s, i) = s.args[Outputs(s)[j]].type
    BY <2>1 DEF ExpectedType
  <2> HIDE DEF j
  <2>6. j \in DOMAIN Outputs(s) /\ Outputs(s)[j] \in DOMAIN s.args
    BY <2>2, <2>4
  <2> QED
    BY <1>1, <1>2, <2>5, <2>6 DEF j
<1> QED
  BY <1>1, <1>2, <1>3

(* Each value that the call produces, at its place in the reply.           *)
Value(s, k) == IF HasResult(s) /\ k = 1 THEN <<"result">> ELSE <<"mutated", Outputs(s)[k - Shift(HasResult(s))]>>

(* What a faithful RTT collects at each position.                          *)
LEMMA ProducedValues ==
  ASSUME NEW s, SignatureTyped(s), Supported(s), Faithful(s)
  PROVE  /\ Outputs(s) = Mutables(s)
         /\ Len(s.collect) = Len(Outputs(s)) + Shift(HasResult(s))
         /\ DOMAIN Produced(s) = 1 .. Len(s.collect) /\ DOMAIN s.collect = 1 .. Len(s.collect)
         /\ \A k \in 1 .. Len(s.collect) : Produced(s)[k] = Value(s, k)
<1> DEFINE V == {<<"result">>} \cup {<<"mutated", i>> : i \in Nat}
           r == IF HasResult(s) THEN <<<<"result">>>> ELSE <<>>
           m == [k \in 1 .. Len(Mutables(s)) |-> <<"mutated", Mutables(s)[k]>>]
<1>1. Mutables(s) \in Seq(DOMAIN s.args) /\ Len(Mutables(s)) \in Nat
      /\ \A i \in 1 .. Len(Mutables(s)) : Mutables(s)[i] \in Nat
  BY OutputIndices
<1>2. r \in Seq(V) /\ Len(r) = Shift(HasResult(s)) /\ (HasResult(s) => r[1] = <<"result">>)
  BY DEF Shift
<1>3. m \in Seq(V) /\ Len(m) = Len(Mutables(s))
  <2>1. m \in [1 .. Len(Mutables(s)) -> V]
    BY <1>1
  <2> QED
    BY <1>1, <2>1
<1>4. Produced(s) = r \o m
  BY DEF Produced
<1>4a. \A k \in 1 .. Len(m) : m[k] = <<"mutated", Mutables(s)[k]>>
  BY <1>3
<1> HIDE DEF r, m, V
<1>5. /\ Produced(s) \in Seq(V) /\ Len(Produced(s)) = Len(r) + Len(m)
      /\ \A k \in 1 .. Len(r) + Len(m) :
           Produced(s)[k] = IF k <= Len(r) THEN r[k] ELSE m[k - Len(r)]
  <2> HIDE DEF V
  <2>1. /\ r \o m \in Seq(V) /\ Len(r \o m) = Len(r) + Len(m)
        /\ \A k \in 1 .. Len(r) + Len(m) : (r \o m)[k] = IF k <= Len(r) THEN r[k] ELSE m[k - Len(r)]
    BY <1>2, <1>3, ConcatProperties, ZenonT(40)
  <2> QED
    BY <1>4, <2>1
<1>6. DOMAIN s.collect = DOMAIN Produced(s) /\ DOMAIN s.collect = 1 .. Len(s.collect)
      /\ Len(s.collect) \in Nat
  BY DEF Faithful, SignatureTyped
<1>7. Len(s.collect) = Len(r) + Len(m)
  <2>1. DOMAIN Produced(s) = 1 .. Len(Produced(s)) /\ Len(Produced(s)) \in Nat
    BY <1>5, LenProperties
  <2>2. \A a, b \in Nat : 1 .. a = 1 .. b => a = b
    OBVIOUS
  <2> QED
    BY <1>5, <1>6, <2>1, <2>2
<1>8. Len(s.collect) = Len(Outputs(s)) + Shift(HasResult(s))
  BY DEF Supported
<1>9. Outputs(s) \in Seq(DOMAIN s.args) /\ Len(Outputs(s)) \in Nat
  BY OutputIndices
<1>10. Outputs(s) = Mutables(s)
  BY <1>1, <1>2, <1>3, <1>7, <1>8, <1>9, OutputIndices DEF Shift
<1>11. ASSUME NEW k \in 1 .. Len(s.collect) PROVE Produced(s)[k] = Value(s, k)
  <2>1. CASE HasResult(s)
    <3>1. Len(r) = 1 /\ k \in 1 .. Len(r) + Len(m) /\ Shift(HasResult(s)) = 1
      BY <1>2, <1>7, <2>1 DEF Shift
    <3>2. CASE k = 1
      <4>1. k <= Len(r)
        BY <3>1, <3>2
      <4>2. Produced(s)[k] = r[k]
        BY <1>5, <3>1, <4>1
      <4> QED
        BY <1>2, <2>1, <3>2, <4>2 DEF Value
    <3>3. CASE k # 1
      <4>1. ~(k <= Len(r)) /\ k - 1 \in 1 .. Len(m)
        BY <1>1, <1>3, <3>1, <3>3
      <4>2. Produced(s)[k] = <<"mutated", Outputs(s)[k - 1]>>
        BY <1>4a, <1>5, <1>10, <3>1, <4>1
      <4> QED
        BY <3>1, <3>3, <4>2 DEF Value
    <3> QED
      BY <3>2, <3>3
  <2>2. CASE ~HasResult(s)
    BY <1>1, <1>2, <1>3, <1>4a, <1>5, <1>7, <1>10, <2>2 DEF Value, Shift
  <2> QED
    BY <2>1, <2>2
<1> QED
  BY <1>6, <1>8, <1>10, <1>11

(* Sent or called, each source holds its value when it is encoded.         *)
LEMMA SourceContents ==
  ASSUME NEW s, SignatureTyped(s), Supported(s), Faithful(s), NEW send \in BOOLEAN,
         NEW k \in 1 .. Len(s.collect)
  PROVE  LET values == Wire(Describe(s), send)
         IN  Content(Run(s, send, values), values[k]) = Value(s, k)
<1> DEFINE values == Wire(Describe(s), send)
           store == Run(s, send, values)
           n == Len(s.collect)
           h == HasResult(s)
<1>0. Describe(s).collect = s.collect /\ Describe(s).outputs = Outputs(s) /\ Describe(s).hasResult = h
  BY DEF Describe
<1>1. /\ Outputs(s) = Mutables(s) /\ n = Len(Outputs(s)) + Shift(h) /\ n \in Nat
      /\ DOMAIN Produced(s) = 1 .. n /\ DOMAIN s.collect = 1 .. n
      /\ \A i \in 1 .. n : Produced(s)[i] = Value(s, i)
  BY ProducedValues DEF SignatureTyped
<1>2. DOMAIN values = 1 .. n /\ \A i \in 1 .. n : values[i] = Source(Describe(s), send, i)
  BY <1>0, <1>1 DEF Wire
<1>3. Outputs(s) \in Seq(DOMAIN s.args) /\ Len(Outputs(s)) \in Nat /\ DOMAIN Outputs(s) = 1 .. Len(Outputs(s))
  BY OutputIndices
<1> HIDE DEF values, n
<1> SUFFICES \E v \in store : v[1] = values[k] /\ \A w \in store : w[1] = v[1] => w[2] = Value(s, k)
  BY DEF Content, values, n
<1>4. CASE send
  <2>1. store = {<<values[i], Produced(s)[i]>> : i \in 1 .. n}
    BY <1>1, <1>2, <1>4 DEF Run
  <2>2. \A i \in 1 .. n : values[i] = <<"new", i>>
    BY <1>2, <1>4 DEF Source, InPlace
  <2>3. <<values[k], Produced(s)[k]>> \in store
    BY <2>1 DEF n
  <2>4. ASSUME NEW w \in store, w[1] = values[k] PROVE w[2] = Value(s, k)
    <3>1. PICK i \in 1 .. n : w = <<values[i], Produced(s)[i]>>
      BY <2>1
    <3>2. <<"new", i>> = <<"new", k>>
      BY <2>2, <2>4, <3>1 DEF n
    <3>3. i = k
      BY <3>2
    <3> QED
      BY <1>1, <3>1, <3>3
  <2> HIDE DEF store
  <2> QED
    BY <2>3, <2>4
<1>5. CASE ~send
  <2>1. store = {<<<<"argument", i>>, <<"mutated", i>>>> : i \in ToSet(Outputs(s))}
                  \cup (IF h THEN {<<<<"new", 1>>, <<"result">>>>} ELSE {})
    BY <1>1, <1>5 DEF Run
  <2> HIDE DEF store
  <2>2. CASE h /\ k = 1
    <3>1. values[k] = <<"new", 1>> /\ Value(s, k) = <<"result">>
      BY <1>0, <1>2, <2>2 DEF Source, InPlace, Value, n
    <3>2. <<<<"new", 1>>, <<"result">>>> \in store
      BY <2>1, <2>2
    <3>3. ASSUME NEW w \in store, w[1] = <<"new", 1>> PROVE w[2] = <<"result">>
      <4>1. \A i : <<"argument", i>> # <<"new", 1>>
        OBVIOUS
      <4> QED
        BY <2>1, <2>2, <3>3, <4>1
    <3> QED
      BY <3>1, <3>2, <3>3
  <2>3. CASE ~(h /\ k = 1)
    <3> DEFINE j == k - Shift(h)
               o == Outputs(s)[j]
    <3>1. values[k] = <<"argument", o>> /\ Value(s, k) = <<"mutated", o>>
      BY <1>0, <1>2, <1>5, <2>3 DEF Source, InPlace, Value, n
    <3>2. j \in DOMAIN Outputs(s)
      BY <1>1, <1>3, <2>3 DEF Shift, n
    <3>3. o \in ToSet(Outputs(s))
      BY <3>2 DEF ToSet
    <3> HIDE DEF o
    <3>4. <<<<"argument", o>>, <<"mutated", o>>>> \in store
      BY <2>1, <3>3
    <3>5. ASSUME NEW w \in store, w[1] = <<"argument", o>> PROVE w[2] = <<"mutated", o>>
      <4>1. <<"new", 1>> # <<"argument", o>> /\ \A i : <<"argument", i>> = <<"argument", o>> => i = o
        OBVIOUS
      <4> QED
        BY <2>1, <3>5, <4>1
    <3> QED
      BY <3>1, <3>4, <3>5
  <2> QED
    BY <2>2, <2>3
<1> QED
  BY <1>4, <1>5

(* No value is swapped, lost or stale.                                     *)
LEMMA ReplyExact ==
  ASSUME NEW s, SignatureTyped(s), Supported(s), Faithful(s), NEW send \in BOOLEAN
  PROVE  LET op == Describe(s)
             values == Wire(op, send)
         IN  Reply(op, values, Run(s, send, values)) =
               [result |-> IF HasResult(s) THEN <<"result">> ELSE <<"null">>,
                outputs |-> [k \in DOMAIN op.outputs |-> <<"mutated", op.outputs[k]>>]]
<1> DEFINE op == Describe(s)
           values == Wire(op, send)
           store == Run(s, send, values)
           n == Len(s.collect)
           contents == [k \in DOMAIN values |-> Content(store, values[k])]
           V == {Value(s, k) : k \in 1 .. n}
<1>1. op.collect = s.collect /\ op.outputs = Outputs(s) /\ op.hasResult = HasResult(s)
  BY DEF Describe
<1>2. /\ n = Len(Outputs(s)) + Shift(HasResult(s)) /\ n \in Nat /\ DOMAIN s.collect = 1 .. n
      /\ Outputs(s) \in Seq(DOMAIN s.args) /\ Len(Outputs(s)) \in Nat
      /\ DOMAIN Outputs(s) = 1 .. Len(Outputs(s))
  BY ProducedValues, OutputIndices DEF SignatureTyped
<1>3. DOMAIN values = 1 .. n
  BY <1>1, <1>2 DEF Wire
<1>4. \A k \in 1 .. n : contents[k] = Value(s, k)
  BY <1>3, SourceContents
<1>5. contents = [k \in 1 .. n |-> Value(s, k)]
  BY <1>3, <1>4
<1>6. Reply(op, values, store) =
        IF op.hasResult /\ values # <<>>
        THEN [result |-> Head(contents), outputs |-> Tail(contents)]
        ELSE [result |-> <<"null">>, outputs |-> contents]
  BY DEF Reply
<1> HIDE DEF op, values, store, contents
<1>7. CASE HasResult(s)
  <2>1. n = Len(Outputs(s)) + 1 /\ values # <<>>
    BY <1>2, <1>3, <1>7 DEF Shift
  <2>2. contents \in [1 .. n -> V]
    BY <1>5
  <2>3. contents \in Seq(V) /\ Len(contents) = n /\ contents # <<>>
    BY <1>2, <2>1, <2>2
  <2> HIDE DEF V
  <2>4. /\ Head(contents) = contents[1]
        /\ Len(Tail(contents)) = n - 1 /\ Tail(contents) \in Seq(V)
        /\ \A k \in 1 .. n - 1 : Tail(contents)[k] = contents[k + 1]
    BY <1>2, <2>1, <2>3, HeadTailProperties
  <2>5. Head(contents) = <<"result">>
    <3>1. 1 \in 1 .. n
      BY <1>2, <2>1
    <3> QED
      BY <1>5, <1>7, <2>4, <3>1 DEF Value
  <2>6. \A k \in 1 .. n - 1 : contents[k + 1] = <<"mutated", Outputs(s)[k]>>
    BY <1>2, <1>5, <1>7, <2>1 DEF Value, Shift
  <2>7. Tail(contents) = [k \in DOMAIN Outputs(s) |-> <<"mutated", Outputs(s)[k]>>]
    <3> DEFINE tail == Tail(contents)
    <3>1. tail \in Seq(V) /\ Len(tail) = Len(Outputs(s))
      BY <1>2, <2>1, <2>4
    <3>2. \A k \in 1 .. Len(Outputs(s)) : tail[k] = <<"mutated", Outputs(s)[k]>>
      <4>1. n - 1 = Len(Outputs(s))
        BY <1>2, <2>1
      <4>2. \A k \in 1 .. n - 1 : tail[k] = contents[k + 1]
        BY <2>4
      <4> HIDE DEF tail
      <4>3. \A k \in 1 .. n - 1 : tail[k] = <<"mutated", Outputs(s)[k]>>
        BY <2>6, <4>2
      <4> QED
        BY <4>1, <4>3
    <3> HIDE DEF tail
    <3>3. tail \in [1 .. Len(Outputs(s)) -> V]
      BY <3>1, LenProperties
    <3> QED
      BY <1>2, <3>2, <3>3 DEF tail
  <2> QED
    BY <1>1, <1>6, <1>7, <2>1, <2>5, <2>7 DEF op, values, store
<1>8. CASE ~HasResult(s)
  <2>1. n = Len(Outputs(s)) /\ \A k \in 1 .. n : Value(s, k) = <<"mutated", Outputs(s)[k]>>
    BY <1>2, <1>8 DEF Shift, Value
  <2>2. contents = [k \in DOMAIN Outputs(s) |-> <<"mutated", Outputs(s)[k]>>]
    BY <1>2, <1>5, <2>1
  <2> QED
    BY <1>1, <1>6, <1>8, <2>2 DEF op, values, store
<1> QED
  BY <1>7, <1>8

(* What describeService was asked and answered.                            *)
Described == call.fn = "describeService" => call.arg \in Signatures /\ call.out = Describe(call.arg)

(* OperationExact holds in every reachable state, for every set of         *)
(* signatures: the indices that describeService counts, prepareInvocation  *)
(* wires and handle reads are the same ones.                               *)
THEOREM OperationsAreExact == ResourceSpec => []OperationExact
<1>1. ResourceInit => Described
  BY DEF ResourceInit, Idle, Described
<1>2. Described /\ [ResourceNext]_call => Described'
  <2> SUFFICES ASSUME Described, [ResourceNext]_call PROVE Described'
    OBVIOUS
  <2>1. CASE ValidateText
    BY <2>1 DEF ValidateText, Returns, Described
  <2>2. CASE PublishName
    BY <2>2 DEF PublishName, Returns, Described
  <2>3. CASE AskTarget
    BY <2>3 DEF AskTarget, Returns, Described
  <2>4. CASE DescribeOperation
    BY <2>4 DEF DescribeOperation, Returns, Described
  <2>5. CASE ParseText
    BY <2>5 DEF ParseText, Returns, Described
  <2>6. CASE UNCHANGED call
    BY <2>6 DEF Described
  <2> QED
    BY <2>1, <2>2, <2>3, <2>4, <2>5, <2>6 DEF ResourceNext
<1>3. Described => OperationExact
  <2> SUFFICES ASSUME Described, call.fn = "describeService", call.out.supported
               PROVE  LET s == call.arg
                          op == call.out
                          values == Wire(op, Sent(s))
                      IN  /\ IndicesValid(op, Sent(s))
                          /\ Faithful(s) =>
                               Reply(op, values, Run(s, Sent(s), values)) =
                                 [result |-> IF HasResult(s) THEN <<"result">> ELSE <<"null">>,
                                  outputs |-> [k \in DOMAIN op.outputs |-> <<"mutated", op.outputs[k]>>]]
    BY DEF OperationExact
  <2> DEFINE s == call.arg
  <2>1. s \in Signatures /\ call.out = Describe(s) /\ Sent(s) \in BOOLEAN
    BY DEF Described, Sent
  <2>2. SignatureTyped(s) /\ Supported(s)
    BY <2>1, SignatureAssumption DEF SignatureTyped, Describe
  <2> HIDE DEF s
  <2>3. IndicesValid(Describe(s), Sent(s))
    BY <2>1, <2>2, SupportedIndices
  <2>4. Faithful(s) =>
          Reply(Describe(s), Wire(Describe(s), Sent(s)), Run(s, Sent(s), Wire(Describe(s), Sent(s)))) =
            [result |-> IF HasResult(s) THEN <<"result">> ELSE <<"null">>,
             outputs |-> [k \in DOMAIN Describe(s).outputs |-> <<"mutated", Describe(s).outputs[k]>>]]
    BY <2>1, <2>2, ReplyExact
  <2> QED
    BY <2>1, <2>3, <2>4 DEF s
<1> QED
  BY <1>1, <1>2, <1>3, PTL DEF ResourceSpec

----------------------------------------------------------------------------
(* UTF-8.                                                                  *)

(* The bytes t[i] .. t[i + m - 1] are a unit of table 3-7.                 *)
UnitFits(t, i, m) ==
  \/ m = 1 /\ t[i] <= 127
  \/ m = 2 /\ t[i] \in 194 .. 223 /\ t[i + 1] \in Tails
  \/ /\ m = 3 /\ t[i] \in 224 .. 239 /\ t[i + 1] \in Tails /\ t[i + 2] \in Tails
     /\ t[i] = 224 => t[i + 1] >= 160
     /\ t[i] = 237 => t[i + 1] <= 159
  \/ /\ m = 4 /\ t[i] \in 240 .. 244
     /\ t[i + 1] \in Tails /\ t[i + 2] \in Tails /\ t[i + 3] \in Tails
     /\ t[i] = 240 => t[i + 1] >= 144
     /\ t[i] = 244 => t[i + 1] <= 143

(* An octet is a number below 256.                                         *)
LEMMA OctetBounds == \A c \in Octets : c \in Nat /\ c <= 255
BY DEF Octets

(* The arithmetic of lead and continuation bytes.                          *)
LEMMA LeadBytes ==
  ASSUME NEW c \in Octets
  PROVE  /\ c \in 194 .. 223 => LeadOf(c) = Lead(c - 192, 1, 128)
         /\ c \in 224 .. 239 => LeadOf(c) = Lead(c - 224, 2, 2048)
         /\ c \in 240 .. 244 => LeadOf(c) = Lead(c - 240, 3, 65536)
         /\ HasLead(c) <=> c \in 194 .. 244
         /\ Continues(c) <=> c \in Tails
         /\ c \in Tails => c % 64 = c - 128
<1>1. /\ c \in 194 .. 223 => c % 32 = c - 192
      /\ c \in 224 .. 239 => c % 16 = c - 224
      /\ c \in 240 .. 244 => c % 8 = c - 240
      /\ c \div 64 = 2 <=> c \in 128 .. 191
      /\ c \in 128 .. 191 => c % 64 = c - 128
  BY DEF Octets
<1>2. c \in Int
  BY DEF Octets
<1> QED
  BY <1>1, <1>2, SMT DEF LeadOf, HasLead, Continues, Tails

(* The value that the loop over the continuation bytes computes.           *)
ValueAfter(v, t, i, k) ==
  IF k = 0 THEN v
  ELSE IF k = 1 THEN 64 * v + (t[i + 1] % 64)
  ELSE IF k = 2 THEN 64 * (64 * v + (t[i + 1] % 64)) + (t[i + 2] % 64)
  ELSE 64 * (64 * (64 * v + (t[i + 1] % 64)) + (t[i + 2] % 64)) + (t[i + 3] % 64)

(* The loop over continuation bytes, for each of its lengths.              *)
LEMMA ValueLoop ==
  ASSUME NEW v, NEW t, NEW i, NEW c \in 0 .. 3
  PROVE  LET value[k \in 0 .. c] == IF k = 0 THEN v ELSE (64 * value[k - 1]) + (t[i + k] % 64)
         IN  value[c] = ValueAfter(v, t, i, c)
<1> DEFINE R(f) == [k \in 0 .. c |-> IF k = 0 THEN v ELSE (64 * f[k - 1]) + (t[i + k] % 64)]
           w == [k \in 0 .. c |-> ValueAfter(v, t, i, k)]
           chosen == CHOOSE f : f = R(f)
<1>1. w = R(w)
  <2>1. ASSUME NEW k \in 0 .. c PROVE w[k] = R(w)[k]
    <3>1. k \in {0, 1, 2, 3} /\ (k # 0 => k - 1 \in 0 .. c)
      OBVIOUS
    <3> QED
      BY <3>1 DEF ValueAfter
  <2> QED
    BY <2>1
<1>2. chosen = R(chosen)
  BY <1>1
<1> HIDE DEF chosen
<1>3. \A k \in 0 .. c : chosen[k] = IF k = 0 THEN v ELSE (64 * chosen[k - 1]) + (t[i + k] % 64)
  BY <1>2
<1>4. chosen[c] = ValueAfter(v, t, i, c)
  <2>1. c \in {0, 1, 2, 3}
    OBVIOUS
  <2> QED
    BY <1>3, <2>1 DEF ValueAfter
<1> QED
  BY <1>4 DEF chosen

(* The first byte tells the length of a unit.                              *)
LEMMA LengthOfUnit ==
  ASSUME NEW t, NEW i, NEW m, t[i] \in Octets, UnitFits(t, i, m)
  PROVE  /\ t[i] < 128 \/ t[i] \in 194 .. 244
         /\ m = IF t[i] < 128 THEN 1 ELSE IF t[i] < 224 THEN 2 ELSE IF t[i] < 240 THEN 3 ELSE 4
BY SMT DEF UnitFits, Octets

(* The scalar values that need so many bytes.                              *)
LEMMA Scalars2 ==
  ASSUME NEW f \in 194 .. 223, NEW a \in Tails, NEW lead, lead.minimum = 128
  PROVE  IsScalar(lead, 64 * (f - 192) + (a - 128))
BY SMT DEF IsScalar, Tails

(* In three bytes: not overlong and no surrogate.                          *)
LEMMA Scalars3 ==
  ASSUME NEW f \in 224 .. 239, NEW a \in Tails, NEW b \in Tails, NEW lead, lead.minimum = 2048
  PROVE  IsScalar(lead, 64 * (64 * (f - 224) + (a - 128)) + (b - 128)) <=>
           (f = 224 => a >= 160) /\ (f = 237 => a <= 159)
BY SMT DEF IsScalar, Tails

(* In four bytes: not overlong and not past U+10FFFF.                      *)
LEMMA Scalars4 ==
  ASSUME NEW f \in 240 .. 244, NEW a \in Tails, NEW b \in Tails, NEW d \in Tails,
         NEW lead, lead.minimum = 65536
  PROVE  IsScalar(lead, 64 * (64 * (64 * (f - 240) + (a - 128)) + (b - 128)) + (d - 128)) <=>
           (f = 240 => a >= 144) /\ (f = 244 => a <= 143)
BY SMT DEF IsScalar, Tails

(* After a lead byte only the unit of the length that it tells fits.       *)
LeadExact(t, i) ==
  LET lead == LeadOf(t[i])
      c == lead.count
      tails == \A k \in 1 .. c : t[i + k] \in Tails
  IN  /\ c \in 1 .. 3 /\ \A m : UnitFits(t, i, m) => m = c + 1
      /\ tails /\ IsScalar(lead, ValueAfter(lead.value, t, i, c)) <=> UnitFits(t, i, c + 1)

(* A lead byte of a unit of two.                                           *)
LEMMA UnitOfTwo ==
  ASSUME NEW t, NEW i, NEW f \in 194 .. 223, t[i] = f PROVE LeadExact(t, i)
<1>1. f \in Octets /\ ~(f < 128) /\ f < 224
  BY DEF Octets
<1>2. LeadOf(f) = Lead(f - 192, 1, 128)
  BY <1>1, LeadBytes
<1>3. LeadOf(f).count = 1 /\ LeadOf(f).value = f - 192 /\ LeadOf(f).minimum = 128
  BY <1>2 DEF Lead
<1>4. \A m : UnitFits(t, i, m) => m = 2
  BY <1>1, LengthOfUnit
<1>5. UnitFits(t, i, 2) <=> t[i + 1] \in Tails
  BY DEF UnitFits
<1>6. ASSUME t[i + 1] \in Tails PROVE IsScalar(LeadOf(f), ValueAfter(f - 192, t, i, 1))
  <2>1. t[i + 1] \in Octets /\ t[i + 1] \in Int
    BY <1>6 DEF Tails, Octets
  <2>2. t[i + 1] % 64 = t[i + 1] - 128
    BY <1>6, <2>1, LeadBytes
  <2>3. ValueAfter(f - 192, t, i, 1) = 64 * (f - 192) + (t[i + 1] - 128)
    BY <2>2 DEF ValueAfter
  <2> QED
    BY <1>3, <1>6, <2>3, Scalars2
<1>7. (\A k \in 1 .. 1 : t[i + k] \in Tails) <=> t[i + 1] \in Tails
  OBVIOUS
<1> QED
  BY <1>3, <1>4, <1>5, <1>6, <1>7 DEF LeadExact

(* A lead byte of a unit of three.                                         *)
LEMMA UnitOfThree ==
  ASSUME NEW t, NEW i, NEW f \in 224 .. 239, t[i] = f PROVE LeadExact(t, i)
<1>1. f \in Octets /\ ~(f < 128) /\ ~(f < 224) /\ f < 240
  BY DEF Octets
<1>2. LeadOf(f) = Lead(f - 224, 2, 2048)
  BY <1>1, LeadBytes, SMT
<1>3. LeadOf(f).count = 2 /\ LeadOf(f).value = f - 224 /\ LeadOf(f).minimum = 2048
  BY <1>2, SMT DEF Lead
<1>4. \A m : UnitFits(t, i, m) => m = 3
  BY <1>1, LengthOfUnit
<1> DEFINE Both == t[i + 1] \in Tails /\ t[i + 2] \in Tails
           Bounds == (f = 224 => t[i + 1] >= 160) /\ (f = 237 => t[i + 1] <= 159)
<1>5. UnitFits(t, i, 3) <=> Both /\ Bounds
  BY DEF UnitFits
<1>6. ASSUME Both PROVE IsScalar(LeadOf(f), ValueAfter(f - 224, t, i, 2)) <=> Bounds
  <2>1. \A j \in {i + 1, i + 2} : t[j] \in Tails /\ t[j] \in Octets /\ t[j] \in Int
    BY <1>6 DEF Tails, Octets
  <2>2. t[i + 1] % 64 = t[i + 1] - 128 /\ t[i + 2] % 64 = t[i + 2] - 128
    BY <2>1, LeadBytes
  <2>3. ValueAfter(f - 224, t, i, 2) = 64 * (64 * (f - 224) + (t[i + 1] - 128)) + (t[i + 2] - 128)
    BY <2>2 DEF ValueAfter
  <2>4. IsScalar(LeadOf(f), 64 * (64 * (f - 224) + (t[i + 1] - 128)) + (t[i + 2] - 128)) <=> Bounds
    BY <1>3, <2>1, Scalars3, SMT
  <2> QED
    BY <2>3, <2>4
<1>7. (\A k \in 1 .. 2 : t[i + k] \in Tails) <=> Both
  OBVIOUS
<1>8. 2 \in 1 .. 3 /\ 2 + 1 = 3
  OBVIOUS
<1> HIDE DEF Both, Bounds
<1> QED
  BY <1>3, <1>4, <1>5, <1>6, <1>7, <1>8, SMT DEF LeadExact

(* A lead byte of a unit of four.                                          *)
LEMMA UnitOfFour ==
  ASSUME NEW t, NEW i, NEW f \in 240 .. 244, t[i] = f PROVE LeadExact(t, i)
<1>1. f \in Octets /\ ~(f < 128) /\ ~(f < 224) /\ ~(f < 240)
  BY DEF Octets
<1>2. LeadOf(f) = Lead(f - 240, 3, 65536)
  BY <1>1, LeadBytes, SMT
<1>3. LeadOf(f).count = 3 /\ LeadOf(f).value = f - 240 /\ LeadOf(f).minimum = 65536
  BY <1>2, SMT DEF Lead
<1>4. \A m : UnitFits(t, i, m) => m = 4
  BY <1>1, LengthOfUnit
<1> DEFINE All == t[i + 1] \in Tails /\ t[i + 2] \in Tails /\ t[i + 3] \in Tails
           Bounds == (f = 240 => t[i + 1] >= 144) /\ (f = 244 => t[i + 1] <= 143)
<1>5. UnitFits(t, i, 4) <=> All /\ Bounds
  BY DEF UnitFits
<1>6. ASSUME All PROVE IsScalar(LeadOf(f), ValueAfter(f - 240, t, i, 3)) <=> Bounds
  <2>1. \A j \in {i + 1, i + 2, i + 3} : t[j] \in Tails /\ t[j] \in Octets /\ t[j] \in Int
    BY <1>6 DEF Tails, Octets
  <2>2. /\ t[i + 1] % 64 = t[i + 1] - 128 /\ t[i + 2] % 64 = t[i + 2] - 128
        /\ t[i + 3] % 64 = t[i + 3] - 128
    BY <2>1, LeadBytes, SMT
  <2>3. ValueAfter(f - 240, t, i, 3) =
          64 * (64 * (64 * (f - 240) + (t[i + 1] - 128)) + (t[i + 2] - 128)) + (t[i + 3] - 128)
    BY <2>2 DEF ValueAfter
  <2>4. IsScalar(LeadOf(f), 64 * (64 * (64 * (f - 240) + (t[i + 1] - 128)) + (t[i + 2] - 128)) + (t[i + 3] - 128))
          <=> Bounds
    BY <1>3, <2>1, Scalars4, SMT
  <2> QED
    BY <2>3, <2>4
<1>7. (\A k \in 1 .. 3 : t[i + k] \in Tails) <=> All
  OBVIOUS
<1>8. 3 \in 1 .. 3 /\ 3 + 1 = 4
  OBVIOUS
<1> HIDE DEF All, Bounds
<1> QED
  BY <1>3, <1>4, <1>5, <1>6, <1>7, <1>8, SMT DEF LeadExact

(* A unit of m bytes starts at i, within the text.                         *)
UnitAt(t, i, m) == m \in 1 .. 4 /\ i + m - 1 <= Len(t) /\ UnitFits(t, i, m)

(* validUtf8 steps over exactly the units of the table.                    *)
EndExact(t, i) ==
  \/ \E m \in 1 .. 4 : UnitAt(t, i, m) /\ SequenceEnd(t, i) = i + m - 1
  \/ SequenceEnd(t, i) = 0 /\ \A m : ~UnitAt(t, i, m)

(* The loop over the continuation bytes, with its value.                   *)
LEMMA EndAfterLead ==
  ASSUME NEW t, NEW i, HasLead(t[i]), ~(t[i] < 128), LeadOf(t[i]).count \in 0 .. 3
  PROVE  LET lead == LeadOf(t[i])
         IN  SequenceEnd(t, i) =
               IF /\ lead.count <= Len(t) - i /\ \A k \in 1 .. lead.count : Continues(t[i + k])
                  /\ IsScalar(lead, ValueAfter(lead.value, t, i, lead.count))
               THEN i + lead.count ELSE 0
<1> DEFINE lead == LeadOf(t[i])
           c == lead.count
           v == lead.value
           value[k \in 0 .. c] == IF k = 0 THEN v ELSE (64 * value[k - 1]) + (t[i + k] % 64)
<1>1. value[c] = ValueAfter(v, t, i, c)
  <2>1. c \in 0 .. 3
    OBVIOUS
  <2> HIDE DEF c, v
  <2> QED
    BY <2>1, ValueLoop, ZenonT(40)
<1>2. SequenceEnd(t, i) =
        IF /\ c <= Len(t) - i /\ (\A k \in 1 .. c : Continues(t[i + k])) /\ IsScalar(lead, value[c])
        THEN i + c ELSE 0
  BY Zenon DEF SequenceEnd
<1> HIDE DEF value
<1> QED
  BY <1>1, <1>2

(* SequenceEnd is the end of the unit that fits, if one does.              *)
LEMMA EndOfUnit ==
  ASSUME NEW t, NEW n \in Nat, n = Len(t), \A j \in 1 .. n : t[j] \in Octets, NEW i \in 1 .. n
  PROVE  EndExact(t, i)
<1>1. t[i] \in Octets
  OBVIOUS
<1>2. CASE t[i] < 128
  <2>1. SequenceEnd(t, i) = i
    BY <1>2 DEF SequenceEnd
  <2>2. UnitAt(t, i, 1) /\ i = i + 1 - 1 /\ 1 \in 1 .. 4
    <3>1. t[i] <= 127
      BY <1>1, <1>2, OctetBounds
    <3> QED
      BY <3>1 DEF UnitAt, UnitFits
  <2> QED
    BY <2>1, <2>2 DEF EndExact
<1>3. CASE ~HasLead(t[i]) /\ ~(t[i] < 128)
  <2>1. SequenceEnd(t, i) = 0
    BY <1>3 DEF SequenceEnd
  <2>2. t[i] \notin 194 .. 244
    BY <1>1, <1>3, LeadBytes, SMT
  <2>3. \A m : ~UnitAt(t, i, m)
    BY <1>1, <1>3, <2>2, LengthOfUnit DEF UnitAt
  <2> QED
    BY <2>1, <2>3 DEF EndExact
<1>4. CASE HasLead(t[i]) /\ ~(t[i] < 128)
  <2> DEFINE lead == LeadOf(t[i])
             c == lead.count
             conts == \A k \in 1 .. c : Continues(t[i + k])
             tails == \A k \in 1 .. c : t[i + k] \in Tails
             scalar == IsScalar(lead, ValueAfter(lead.value, t, i, c))
  <2>1. t[i] \in 194 .. 244
    BY <1>1, <1>4, LeadBytes, SMT
  <2>2. t[i] \in 194 .. 223 \/ t[i] \in 224 .. 239 \/ t[i] \in 240 .. 244
    BY <2>1
  <2>3. LeadExact(t, i)
    <3>1. CASE t[i] \in 194 .. 223
      BY <3>1, UnitOfTwo, Zenon
    <3>2. CASE t[i] \in 224 .. 239
      BY <3>2, UnitOfThree, Zenon
    <3>3. CASE t[i] \in 240 .. 244
      BY <3>3, UnitOfFour, Zenon
    <3> QED
      BY <2>2, <3>1, <3>2, <3>3
  <2>4. c \in 1 .. 3 /\ (\A m : UnitFits(t, i, m) => m = c + 1) /\ (tails /\ scalar <=> UnitFits(t, i, c + 1))
    BY <2>3 DEF LeadExact
  <2>5. SequenceEnd(t, i) = IF c <= Len(t) - i /\ conts /\ scalar THEN i + c ELSE 0
    <3>1. c \in 0 .. 3
      BY <2>4
    <3> QED
      BY <1>4, <3>1, EndAfterLead
  <2> HIDE DEF lead, c, scalar
  <2>6. ASSUME c <= Len(t) - i PROVE conts <=> tails
    <3>1. \A k \in 1 .. c : i + k \in 1 .. n
      BY <2>4, <2>6
    <3>2. \A k \in 1 .. c : t[i + k] \in Octets
      BY <3>1
    <3> QED
      BY <3>2, LeadBytes
  <2> HIDE DEF conts, tails
  <2>7. c + 1 \in 1 .. 4 /\ i + (c + 1) - 1 = i + c /\ (c <= Len(t) - i <=> i + (c + 1) - 1 <= Len(t))
    BY <2>4
  <2>8. SequenceEnd(t, i) = IF UnitAt(t, i, c + 1) THEN i + c ELSE 0
    BY <2>4, <2>5, <2>6, <2>7 DEF UnitAt
  <2>9. \A m : UnitAt(t, i, m) => m = c + 1
    BY <2>4 DEF UnitAt
  <2> QED
    BY <2>7, <2>8, <2>9 DEF EndExact
<1> QED
  BY <1>2, <1>3, <1>4

(* The bytes after the first b match a row of the table.                   *)
Matches(t, b, u) == \A j \in DOMAIN u : t[b + j] \in u[j]

(* What it means to match a row of the table, by its length.               *)
LEMMA Rows ==
  ASSUME NEW t, NEW b
  PROVE  /\ \A p : Len(<<p>>) = 1 /\ (Matches(t, b, <<p>>) <=> t[b + 1] \in p)
         /\ \A p, q : Len(<<p, q>>) = 2 /\ (Matches(t, b, <<p, q>>) <=> t[b + 1] \in p /\ t[b + 2] \in q)
         /\ \A p, q, r : /\ Len(<<p, q, r>>) = 3
                         /\ Matches(t, b, <<p, q, r>>) <=> t[b + 1] \in p /\ t[b + 2] \in q /\ t[b + 3] \in r
         /\ \A p, q, r, s : /\ Len(<<p, q, r, s>>) = 4
                            /\ Matches(t, b, <<p, q, r, s>>) <=>
                                 t[b + 1] \in p /\ t[b + 2] \in q /\ t[b + 3] \in r /\ t[b + 4] \in s
<1>1. \A p : Len(<<p>>) = 1 /\ DOMAIN <<p>> = {1} /\ <<p>>[1] = p
  OBVIOUS
<1>2. \A p, q : Len(<<p, q>>) = 2 /\ DOMAIN <<p, q>> = {1, 2} /\ <<p, q>>[1] = p /\ <<p, q>>[2] = q
  OBVIOUS
<1>3. \A p, q, r : /\ Len(<<p, q, r>>) = 3 /\ DOMAIN <<p, q, r>> = {1, 2, 3}
                   /\ <<p, q, r>>[1] = p /\ <<p, q, r>>[2] = q /\ <<p, q, r>>[3] = r
  OBVIOUS
<1>4. \A p, q, r, s : /\ Len(<<p, q, r, s>>) = 4 /\ DOMAIN <<p, q, r, s>> = {1, 2, 3, 4}
                      /\ <<p, q, r, s>>[1] = p /\ <<p, q, r, s>>[2] = q
                      /\ <<p, q, r, s>>[3] = r /\ <<p, q, r, s>>[4] = s
  OBVIOUS
<1>5. \A p : Matches(t, b, <<p>>) <=> t[b + 1] \in p
  BY <1>1, Zenon DEF Matches
<1>6. \A p, q : Matches(t, b, <<p, q>>) <=> t[b + 1] \in p /\ t[b + 2] \in q
  <2> TAKE p, q
  <2> DEFINE u == <<p, q>>
  <2>1. DOMAIN u = {1, 2} /\ u[1] = p /\ u[2] = q
    BY <1>2, Zenon
  <2> HIDE DEF u
  <2>2. Matches(t, b, u) <=> t[b + 1] \in p /\ t[b + 2] \in q
    BY <2>1 DEF Matches
  <2> QED
    BY <2>2 DEF u
<1>7. \A p, q, r : Matches(t, b, <<p, q, r>>) <=> t[b + 1] \in p /\ t[b + 2] \in q /\ t[b + 3] \in r
  <2> TAKE p, q, r
  <2> DEFINE u == <<p, q, r>>
  <2>1. DOMAIN u = {1, 2, 3} /\ u[1] = p /\ u[2] = q /\ u[3] = r
    BY <1>3, Zenon
  <2> HIDE DEF u
  <2>2. Matches(t, b, u) <=> t[b + 1] \in p /\ t[b + 2] \in q /\ t[b + 3] \in r
    BY <2>1 DEF Matches
  <2> QED
    BY <2>2 DEF u
<1>8. \A p, q, r, s : Matches(t, b, <<p, q, r, s>>) <=>
                        t[b + 1] \in p /\ t[b + 2] \in q /\ t[b + 3] \in r /\ t[b + 4] \in s
  <2> TAKE p, q, r, s
  <2> DEFINE u == <<p, q, r, s>>
  <2>1. DOMAIN u = {1, 2, 3, 4} /\ u[1] = p /\ u[2] = q /\ u[3] = r /\ u[4] = s
    BY <1>4, Zenon
  <2> HIDE DEF u
  <2>2. Matches(t, b, u) <=> t[b + 1] \in p /\ t[b + 2] \in q /\ t[b + 3] \in r /\ t[b + 4] \in s
    BY <2>1 DEF Matches
  <2> QED
    BY <2>2 DEF u
<1> QED
  BY <1>1, <1>2, <1>3, <1>4, <1>5, <1>6, <1>7, <1>8, Zenon

(* The rows of the table are the units that fit.                           *)
LEMMA TableUnits ==
  ASSUME NEW t, NEW b \in Nat, t[b + 1] \in Octets
  PROVE  /\ \A u \in Units : Len(u) \in 1 .. 4 /\ (Matches(t, b, u) => UnitFits(t, b + 1, Len(u)))
         /\ \A m \in 1 .. 4 : UnitFits(t, b + 1, m) => \E u \in Units : Len(u) = m /\ Matches(t, b, u)
<1> DEFINE f == t[b + 1]
           x == t[b + 2]
           y == t[b + 3]
           z == t[b + 4]
<1>1. (b + 1) + 1 = b + 2 /\ (b + 1) + 2 = b + 3 /\ (b + 1) + 3 = b + 4
  OBVIOUS
<1>2. \A m : UnitFits(t, b + 1, m) <=>
         \/ m = 1 /\ f <= 127
         \/ m = 2 /\ f \in 194 .. 223 /\ x \in Tails
         \/ /\ m = 3 /\ f \in 224 .. 239 /\ x \in Tails /\ y \in Tails
            /\ f = 224 => x >= 160
            /\ f = 237 => x <= 159
         \/ /\ m = 4 /\ f \in 240 .. 244 /\ x \in Tails /\ y \in Tails /\ z \in Tails
            /\ f = 240 => x >= 144
            /\ f = 244 => x <= 143
  BY <1>1 DEF UnitFits
<1>3. f \in 0 .. 255
  BY DEF Octets
<1> HIDE DEF f, x, y, z
<1>4. \A u : u \in Units <=>
         \/ u = <<0 .. 127>> \/ u = <<194 .. 223, Tails>>
         \/ u = <<{224}, 160 .. 191, Tails>> \/ u = <<225 .. 236, Tails, Tails>>
         \/ u = <<{237}, 128 .. 159, Tails>> \/ u = <<238 .. 239, Tails, Tails>>
         \/ u = <<{240}, 144 .. 191, Tails, Tails>> \/ u = <<241 .. 243, Tails, Tails, Tails>>
         \/ u = <<{244}, 128 .. 143, Tails, Tails>>
  BY DEF Units
<1>a. \A p : Len(<<p>>) = 1 /\ (Matches(t, b, <<p>>) <=> f \in p)
  BY Rows, Zenon DEF f
<1>b. \A p, q : Len(<<p, q>>) = 2 /\ (Matches(t, b, <<p, q>>) <=> f \in p /\ x \in q)
  BY Rows, Zenon DEF f, x
<1>c. \A p, q, r : Len(<<p, q, r>>) = 3 /\ (Matches(t, b, <<p, q, r>>) <=> f \in p /\ x \in q /\ y \in r)
  BY Rows, Zenon DEF f, x, y
<1>d. \A p, q, r, s : /\ Len(<<p, q, r, s>>) = 4
                      /\ Matches(t, b, <<p, q, r, s>>) <=> f \in p /\ x \in q /\ y \in r /\ z \in s
  BY Rows, Zenon DEF f, x, y, z
<1>6. ASSUME NEW u \in Units
      PROVE  Len(u) \in 1 .. 4 /\ (Matches(t, b, u) => UnitFits(t, b + 1, Len(u)))
  <2>1. CASE u = <<0 .. 127>>
    <3>1. Len(u) = 1 /\ (Matches(t, b, u) <=> f \in 0 .. 127)
      BY <1>a, <2>1, Zenon
    <3> QED
      BY <1>2, <3>1
  <2>2. CASE u = <<194 .. 223, Tails>>
    <3>1. Len(u) = 2 /\ (Matches(t, b, u) <=> f \in 194 .. 223 /\ x \in Tails)
      BY <1>b, <2>2, ZenonT(40)
    <3> QED
      BY <1>2, <3>1
  <2>3. CASE u = <<{224}, 160 .. 191, Tails>>
    <3>1. Len(u) = 3 /\ (Matches(t, b, u) <=> f \in {224} /\ x \in 160 .. 191 /\ y \in Tails)
      BY <1>c, <2>3, ZenonT(40)
    <3> QED
      BY <1>2, <3>1 DEF Tails
  <2>4. CASE u = <<225 .. 236, Tails, Tails>>
    <3>1. Len(u) = 3 /\ (Matches(t, b, u) <=> f \in 225 .. 236 /\ x \in Tails /\ y \in Tails)
      BY <1>c, <2>4, ZenonT(40)
    <3> QED
      BY <1>2, <3>1 DEF Tails
  <2>5. CASE u = <<{237}, 128 .. 159, Tails>>
    <3>1. Len(u) = 3 /\ (Matches(t, b, u) <=> f \in {237} /\ x \in 128 .. 159 /\ y \in Tails)
      BY <1>c, <2>5, ZenonT(40)
    <3> QED
      BY <1>2, <3>1 DEF Tails
  <2>6. CASE u = <<238 .. 239, Tails, Tails>>
    <3>1. Len(u) = 3 /\ (Matches(t, b, u) <=> f \in 238 .. 239 /\ x \in Tails /\ y \in Tails)
      BY <1>c, <2>6, ZenonT(40)
    <3> QED
      BY <1>2, <3>1 DEF Tails
  <2>7. CASE u = <<{240}, 144 .. 191, Tails, Tails>>
    <3>0. \A p, q : /\ Len(<<p, q, Tails, Tails>>) = 4
                    /\ Matches(t, b, <<p, q, Tails, Tails>>) <=>
                         f \in p /\ x \in q /\ y \in Tails /\ z \in Tails
      BY <1>d, Zenon
    <3>1. Len(u) = 4 /\ (Matches(t, b, u) <=> f \in {240} /\ x \in 144 .. 191 /\ y \in Tails /\ z \in Tails)
      BY <2>7, <3>0, ZenonT(40)
    <3> QED
      BY <1>2, <3>1 DEF Tails
  <2>8. CASE u = <<241 .. 243, Tails, Tails, Tails>>
    <3>1. Len(u) = 4 /\ (Matches(t, b, u) <=> f \in 241 .. 243 /\ x \in Tails /\ y \in Tails /\ z \in Tails)
      <4>1. \A p : /\ Len(<<p, Tails, Tails, Tails>>) = 4
                   /\ Matches(t, b, <<p, Tails, Tails, Tails>>) <=>
                        f \in p /\ x \in Tails /\ y \in Tails /\ z \in Tails
        BY <1>d, Zenon
      <4> QED
        BY <2>8, <4>1, Zenon
    <3> QED
      BY <1>2, <3>1 DEF Tails
  <2>9. CASE u = <<{244}, 128 .. 143, Tails, Tails>>
    <3>0. \A p, q : /\ Len(<<p, q, Tails, Tails>>) = 4
                    /\ Matches(t, b, <<p, q, Tails, Tails>>) <=>
                         f \in p /\ x \in q /\ y \in Tails /\ z \in Tails
      BY <1>d, Zenon
    <3>1. Len(u) = 4 /\ (Matches(t, b, u) <=> f \in {244} /\ x \in 128 .. 143 /\ y \in Tails /\ z \in Tails)
      BY <2>9, <3>0, ZenonT(40)
    <3> QED
      BY <1>2, <3>1 DEF Tails
  <2> QED
    BY <1>4, <1>6, <2>1, <2>2, <2>3, <2>4, <2>5, <2>6, <2>7, <2>8, <2>9, ZenonT(40)
<1>7. ASSUME NEW m \in 1 .. 4, UnitFits(t, b + 1, m)
      PROVE  \E u \in Units : Len(u) = m /\ Matches(t, b, u)
  <2>1. CASE m = 1
    <3>1. f \in 0 .. 127
      BY <1>2, <1>3, <1>7, <2>1
    <3>2. <<0 .. 127>> \in Units
      BY <1>4, Zenon
    <3> QED
      BY <1>a, <2>1, <3>1, <3>2, Zenon
  <2>2. CASE m = 2
    <3>1. f \in 194 .. 223 /\ x \in Tails
      BY <1>2, <1>7, <2>2
    <3>2. <<194 .. 223, Tails>> \in Units
      BY <1>4, ZenonT(40)
    <3> QED
      BY <1>b, <2>2, <3>1, <3>2, ZenonT(40)
  <2>3. CASE m = 3
    <3>1. /\ \/ f \in {224} /\ x \in 160 .. 191
             \/ f \in 225 .. 236 /\ x \in Tails
             \/ f \in {237} /\ x \in 128 .. 159
             \/ f \in 238 .. 239 /\ x \in Tails
          /\ y \in Tails
      BY <1>2, <1>7, <2>3 DEF Tails
    <3>2. ASSUME NEW p, NEW q, <<p, q, Tails>> \in Units, f \in p, x \in q
          PROVE  \E u \in Units : Len(u) = m /\ Matches(t, b, u)
      BY <1>c, <2>3, <3>1, <3>2, Zenon
    <3>3. CASE f \in {224} /\ x \in 160 .. 191
      <4>1. <<{224}, 160 .. 191, Tails>> \in Units
        BY DEF Units
      <4> QED
        BY <3>2, <3>3, <4>1
    <3>4. CASE f \in 225 .. 236 /\ x \in Tails
      <4>1. <<225 .. 236, Tails, Tails>> \in Units
        BY DEF Units
      <4> QED
        BY <3>2, <3>4, <4>1
    <3>5. CASE f \in {237} /\ x \in 128 .. 159
      <4>1. <<{237}, 128 .. 159, Tails>> \in Units
        BY DEF Units
      <4> QED
        BY <3>2, <3>5, <4>1
    <3>6. CASE f \in 238 .. 239 /\ x \in Tails
      <4>1. <<238 .. 239, Tails, Tails>> \in Units
        BY DEF Units
      <4> QED
        BY <3>2, <3>6, <4>1
    <3> QED
      BY <3>1, <3>3, <3>4, <3>5, <3>6, ZenonT(40)
  <2>4. CASE m = 4
    <3>1. /\ \/ f \in {240} /\ x \in 144 .. 191
             \/ f \in 241 .. 243 /\ x \in Tails
             \/ f \in {244} /\ x \in 128 .. 143
          /\ y \in Tails /\ z \in Tails
      BY <1>2, <1>7, <2>4 DEF Tails
    <3>2. ASSUME NEW p, NEW q, <<p, q, Tails, Tails>> \in Units, f \in p, x \in q
          PROVE  \E u \in Units : Len(u) = m /\ Matches(t, b, u)
      BY <1>d, <2>4, <3>1, <3>2, Zenon
    <3>3. CASE f \in {240} /\ x \in 144 .. 191
      <4>1. <<{240}, 144 .. 191, Tails, Tails>> \in Units
        BY DEF Units
      <4> QED
        BY <3>2, <3>3, <4>1, ZenonT(40)
    <3>4. CASE f \in 241 .. 243 /\ x \in Tails
      <4>1. <<241 .. 243, Tails, Tails, Tails>> \in Units
        BY DEF Units
      <4> QED
        BY <3>2, <3>4, <4>1
    <3>5. CASE f \in {244} /\ x \in 128 .. 143
      <4>1. <<{244}, 128 .. 143, Tails, Tails>> \in Units
        BY DEF Units
      <4> QED
        BY <3>2, <3>5, <4>1
    <3> QED
      BY <3>1, <3>3, <3>4, <3>5, Zenon
  <2> QED
    BY <2>1, <2>2, <2>3, <2>4
<1> QED
  BY <1>6, <1>7

(* The functions that ValidUtf8 and WellFormed define exist.               *)
LEMMA ValidFrom ==
  ASSUME NEW t, NEW n \in Nat, n = Len(t),
         \A i \in 1 .. n : SequenceEnd(t, i) # 0 => SequenceEnd(t, i) + 1 \in 1 .. n + 1
  PROVE  \E from : /\ ValidUtf8(t) <=> from[1]
                   /\ \A i \in 1 .. n + 1 :
                        from[i] <=> (i <= n => SequenceEnd(t, i) # 0 /\ from[SequenceEnd(t, i) + 1])
<1> DEFINE R(f) == [i \in 1 .. Len(t) + 1 |->
                      i <= Len(t) => SequenceEnd(t, i) # 0 /\ f[SequenceEnd(t, i) + 1]]
           Closed(S) == \A k \in S : k <= n => SequenceEnd(t, k) # 0 /\ SequenceEnd(t, k) + 1 \in S
           w == [i \in 1 .. n + 1 |-> \E S \in SUBSET (1 .. n + 1) : i \in S /\ Closed(S)]
           from == CHOOSE f : f = R(f)
<1>1. \A i \in 1 .. n + 1 : w[i] <=> (i <= n => SequenceEnd(t, i) # 0 /\ w[SequenceEnd(t, i) + 1])
  <2> TAKE i \in 1 .. n + 1
  <2>1. ASSUME w[i], i <= n PROVE SequenceEnd(t, i) # 0 /\ w[SequenceEnd(t, i) + 1]
    <3>1. PICK S \in SUBSET (1 .. n + 1) : i \in S /\ Closed(S)
      BY <2>1
    <3>2. SequenceEnd(t, i) # 0 /\ SequenceEnd(t, i) + 1 \in S
      BY <2>1, <3>1
    <3> HIDE DEF Closed
    <3> QED
      BY <3>1, <3>2
  <2>2. ASSUME i <= n, SequenceEnd(t, i) # 0, w[SequenceEnd(t, i) + 1] PROVE w[i]
    <3>1. i \in 1 .. n /\ SequenceEnd(t, i) + 1 \in 1 .. n + 1
      BY <2>2
    <3>2. PICK S \in SUBSET (1 .. n + 1) : SequenceEnd(t, i) + 1 \in S /\ Closed(S)
      BY <2>2, <3>1
    <3>3. Closed(S \cup {i}) /\ i \in S \cup {i} /\ S \cup {i} \in SUBSET (1 .. n + 1)
      BY <2>2, <3>2
    <3> HIDE DEF Closed
    <3> QED
      BY <3>3
  <2>3. ASSUME ~(i <= n) PROVE w[i]
    <3>1. Closed({i}) /\ i \in {i} /\ {i} \in SUBSET (1 .. n + 1)
      BY <2>3
    <3> HIDE DEF Closed
    <3> QED
      BY <3>1
  <2> HIDE DEF w
  <2> QED
    BY <2>1, <2>2, <2>3
<1>2. w = R(w)
  <2>1. \A i \in 1 .. n + 1 : w[i] \in BOOLEAN /\ R(w)[i] \in BOOLEAN /\ (w[i] <=> R(w)[i])
    BY <1>1, Zenon
  <2>2. \A i \in 1 .. n + 1 : w[i] = R(w)[i]
    BY <2>1, Zenon
  <2>3. DOMAIN w = 1 .. n + 1 /\ DOMAIN R(w) = 1 .. n + 1
    OBVIOUS
  <2>4. w = [i \in 1 .. n + 1 |-> w[i]] /\ R(w) = [i \in 1 .. n + 1 |-> R(w)[i]]
    BY Zenon
  <2> HIDE DEF w, R
  <2> QED
    BY <2>2, <2>4, Zenon
<1> HIDE DEF w
<1>3. from = R(from)
  BY <1>2, Zenon
<1>4. ValidUtf8(t) = from[1]
  BY Zenon DEF ValidUtf8
<1> HIDE DEF from
<1>5. \A i \in 1 .. n + 1 : R(from)[i] <=> (i <= n => SequenceEnd(t, i) # 0 /\ from[SequenceEnd(t, i) + 1])
  BY Zenon
<1> HIDE DEF R
<1>6. \A i \in 1 .. n + 1 : from[i] = R(from)[i]
  BY <1>3, Zenon
<1> QED
  BY <1>4, <1>5, <1>6, Zenon

(* WellFormed follows its recursion.                                       *)
LEMMA WellFormedUpto ==
  ASSUME NEW t, NEW n \in Nat, n = Len(t), \A u \in Units : Len(u) \in Nat \ {0}
  PROVE  \E upto : /\ WellFormed(t) <=> upto[n]
                   /\ \A k \in 0 .. n :
                        upto[k] <=> \/ k = 0
                                    \/ \E u \in Units : /\ Len(u) <= k /\ Matches(t, k - Len(u), u)
                                                        /\ upto[k - Len(u)]
<1> DEFINE Ends(k, u) == Len(u) <= k /\ \A i \in DOMAIN u : t[k - Len(u) + i] \in u[i]
           R(f) == [k \in 0 .. Len(t) |->
                      k = 0 \/ \E u \in Units : /\ Len(u) <= k
                                                /\ \A i \in DOMAIN u : t[k - Len(u) + i] \in u[i]
                                                /\ f[k - Len(u)]]
           Closed(S) == \A k \in S : k = 0 \/ \E u \in Units : Ends(k, u) /\ k - Len(u) \in S
           w == [k \in 0 .. n |-> \E S \in SUBSET (0 .. n) : k \in S /\ Closed(S)]
           upto == CHOOSE f : f = R(f)
<1>1. \A k \in 0 .. n : w[k] <=> k = 0 \/ \E u \in Units : Ends(k, u) /\ w[k - Len(u)]
  <2> TAKE k \in 0 .. n
  <2>0. \A u \in Units : Len(u) <= k => k - Len(u) \in 0 .. n
    OBVIOUS
  <2>1. ASSUME w[k], k # 0 PROVE \E u \in Units : Ends(k, u) /\ w[k - Len(u)]
    <3>1. PICK S \in SUBSET (0 .. n) : k \in S /\ Closed(S)
      BY <2>1, Zenon
    <3>2. PICK u \in Units : Ends(k, u) /\ k - Len(u) \in S
      BY <2>1, <3>1, Zenon
    <3>3. w[k - Len(u)]
      <4>1. k - Len(u) \in 0 .. n
        BY <2>0, <3>2
      <4> HIDE DEF Closed
      <4> QED
        BY <3>1, <3>2, <4>1
    <3> HIDE DEF w, Ends
    <3> QED
      BY <3>2, <3>3
  <2>2. ASSUME NEW u \in Units, Ends(k, u), w[k - Len(u)] PROVE w[k]
    <3>1. k - Len(u) \in 0 .. n
      BY <2>0, <2>2
    <3>2. PICK S \in SUBSET (0 .. n) : k - Len(u) \in S /\ Closed(S)
      BY <2>2, <3>1, Zenon
    <3> HIDE DEF Ends
    <3>3. Closed(S \cup {k}) /\ k \in S \cup {k} /\ S \cup {k} \in SUBSET (0 .. n)
      BY <2>2, <3>2
    <3> HIDE DEF Closed
    <3> QED
      BY <3>3
  <2>3. ASSUME k = 0 PROVE w[k]
    <3>1. Closed({k}) /\ k \in {k} /\ {k} \in SUBSET (0 .. n)
      BY <2>3
    <3> HIDE DEF Closed
    <3> QED
      BY <3>1
  <2> HIDE DEF w, Ends
  <2> QED
    BY <2>1, <2>2, <2>3
<1>2. w = R(w)
  <2>1. \A k \in 0 .. n : w[k] \in BOOLEAN /\ R(w)[k] \in BOOLEAN /\ (w[k] <=> R(w)[k])
    BY <1>1, Zenon
  <2>2. \A k \in 0 .. n : w[k] = R(w)[k]
    BY <2>1, Zenon
  <2>4. w = [k \in 0 .. n |-> w[k]] /\ R(w) = [k \in 0 .. n |-> R(w)[k]]
    BY Zenon
  <2> HIDE DEF w, R
  <2> QED
    BY <2>2, <2>4, Zenon
<1> HIDE DEF w
<1>3. upto = R(upto)
  BY <1>2, Zenon
<1>4. WellFormed(t) = upto[n]
  BY Zenon DEF WellFormed
<1> HIDE DEF upto
<1>5. \A k \in 0 .. n : R(upto)[k] <=> \/ k = 0
                                       \/ \E u \in Units : /\ Len(u) <= k /\ Matches(t, k - Len(u), u)
                                                           /\ upto[k - Len(u)]
  BY Zenon DEF Matches
<1> HIDE DEF R
<1>6. \A k \in 0 .. n : upto[k] = R(upto)[k]
  BY <1>3, Zenon
<1> QED
  BY <1>4, <1>5, <1>6, Zenon

(* validUtf8 scans from the start, the table is read from the end: both    *)
(* cut the text at the same places.                                        *)
LEMMA Utf8Agrees ==
  ASSUME NEW t \in Seq(Octets)
  PROVE  ValidUtf8(t) <=> WellFormed(t)
<1> DEFINE n == Len(t)
<1>1. n \in Nat /\ n = Len(t) /\ \A j \in 1 .. n : t[j] \in Octets
  BY ElementOfSeq, LenProperties
<1> HIDE DEF n
<1>2. \A i \in 1 .. n : EndExact(t, i)
  BY <1>1, EndOfUnit
<1> DEFINE E(i) == SequenceEnd(t, i)
<1>3. ASSUME NEW i \in 1 .. n, E(i) # 0
      PROVE  \E m \in 1 .. 4 : i + m - 1 <= n /\ UnitFits(t, i, m) /\ E(i) = i + m - 1
  BY <1>1, <1>2, <1>3 DEF EndExact, UnitAt
<1>4. ASSUME NEW i \in 1 .. n, NEW m \in 1 .. 4, i + m - 1 <= n, UnitFits(t, i, m)
      PROVE  E(i) # 0 /\ E(i) = i + m - 1
  <2>1. UnitAt(t, i, m)
    BY <1>1, <1>4 DEF UnitAt
  <2>2. PICK l \in 1 .. 4 : UnitAt(t, i, l) /\ E(i) = i + l - 1
    BY <1>2, <2>1 DEF EndExact
  <2>3. l = m
    BY <1>1, <1>4, <2>2, LengthOfUnit DEF UnitAt
  <2> QED
    BY <2>2, <2>3
<1>5. \A i \in 1 .. n : E(i) # 0 => E(i) + 1 \in 1 .. n + 1
  BY <1>1, <1>3
<1>6. PICK from : /\ ValidUtf8(t) <=> from[1]
                  /\ \A i \in 1 .. n + 1 : from[i] <=> (i <= n => E(i) # 0 /\ from[E(i) + 1])
  <2> HIDE DEF E
  <2> QED
    BY <1>1, <1>5, ValidFrom, Zenon DEF E
<1>7. \A u \in Units : Len(u) \in 1 .. 4
  <2>1. \A b \in Nat : [i \in {b + 1} |-> 0][b + 1] \in Octets
    BY DEF Octets
  <2> QED
    BY <2>1, TableUnits
<1>8. PICK upto : /\ WellFormed(t) <=> upto[n]
                  /\ \A k \in 0 .. n :
                       upto[k] <=> \/ k = 0
                                   \/ \E u \in Units : /\ Len(u) <= k /\ Matches(t, k - Len(u), u)
                                                       /\ upto[k - Len(u)]
  <2>1. \A u \in Units : Len(u) \in Nat \ {0}
    BY <1>7
  <2> QED
    BY <1>1, <2>1, WellFormedUpto, ZenonT(40)
<1> HIDE DEF E
(* One unit, forwards and backwards.                                       *)
<1>9. ASSUME NEW k \in 1 .. n, upto[k]
      PROVE  \E m \in 1 .. 4 : k - m \in 0 .. n /\ upto[k - m] /\ E(k - m + 1) # 0 /\ E(k - m + 1) = k
  <2>1. PICK u \in Units : Len(u) <= k /\ Matches(t, k - Len(u), u) /\ upto[k - Len(u)]
    BY <1>8, <1>9
  <2> DEFINE m == Len(u)
             b == k - m
  <2>2. m \in 1 .. 4
    BY <1>7
  <2>3. b \in 0 .. n /\ b \in Nat /\ b + 1 \in 1 .. n /\ (b + 1) + m - 1 = k
    BY <1>1, <2>1, <2>2
  <2>4. t[b + 1] \in Octets
    BY <1>1, <2>3
  <2>5. UnitFits(t, b + 1, m)
    BY <2>1, <2>3, <2>4, TableUnits
  <2>6. upto[b]
    BY <2>1
  <2> HIDE DEF m, b
  <2>7. E(b + 1) # 0 /\ E(b + 1) = k
    BY <1>1, <1>4, <2>2, <2>3, <2>5
  <2> QED
    BY <2>2, <2>3, <2>6, <2>7 DEF b
<1>10. ASSUME NEW b \in 0 .. n, b < n, upto[b], E(b + 1) # 0
       PROVE  E(b + 1) \in (b + 1) .. n /\ upto[E(b + 1)]
  <2>1. b + 1 \in 1 .. n /\ b \in Nat
    BY <1>1, <1>10
  <2>2. PICK m \in 1 .. 4 : (b + 1) + m - 1 <= n /\ UnitFits(t, b + 1, m) /\ E(b + 1) = (b + 1) + m - 1
    BY <1>3, <1>10, <2>1
  <2>3. t[b + 1] \in Octets
    BY <1>1, <2>1
  <2>4. PICK u \in Units : Len(u) = m /\ Matches(t, b, u)
    BY <2>1, <2>2, <2>3, TableUnits
  <2>5. E(b + 1) = b + m /\ b + m \in 0 .. n /\ (b + m) - m = b /\ m <= b + m
    BY <1>1, <2>1, <2>2
  <2>6. upto[b + m]
    BY <1>8, <1>10, <2>4, <2>5
  <2> QED
    BY <1>1, <2>1, <2>5, <2>6
<1>11. ASSUME upto[n], ~from[1] PROVE FALSE
  <2> DEFINE Bad == {k \in 0 .. n : upto[k] /\ from[k + 1]}
  <2>1. n \in Bad
    <3>1. n + 1 \in 1 .. n + 1 /\ ~(n + 1 <= n)
      BY <1>1
    <3> QED
      BY <1>1, <1>6, <1>11, <3>1
  <2>2. Bad \in SUBSET Nat /\ Bad # {}
    BY <1>1, <2>1
  <2> HIDE DEF Bad
  <2>3. PICK k \in Bad : \A j \in Bad : k <= j
    BY <2>2, LeastNumber
  <2> USE DEF Bad
  <2>4. k \in 1 .. n
    BY <1>1, <1>11, <2>3
  <2>5. PICK m \in 1 .. 4 : k - m \in 0 .. n /\ upto[k - m] /\ E(k - m + 1) # 0 /\ E(k - m + 1) = k
    BY <1>9, <2>4
  <2>6. from[k - m + 1]
    <3>1. k - m + 1 \in 1 .. n + 1 /\ k - m + 1 <= n
      BY <1>1, <2>4, <2>5
    <3> QED
      BY <1>6, <2>5, <3>1
  <2>7. k - m \in Bad /\ ~(k <= k - m)
    BY <2>4, <2>5, <2>6
  <2> QED
    BY <2>3, <2>7
<1>12. ASSUME from[1] PROVE upto[n]
  <2> DEFINE Left == {d \in 0 .. n : upto[n - d] /\ from[n - d + 1]}
  <2>1. n \in Left
    <3>1. n - n = 0 /\ 0 + 1 = 1 /\ 0 \in 0 .. n
      BY <1>1
    <3>2. upto[0]
      BY <1>8, <3>1
    <3> QED
      BY <1>1, <1>12, <3>1, <3>2
  <2>2. Left \in SUBSET Nat /\ Left # {}
    BY <1>1, <2>1
  <2> HIDE DEF Left
  <2>3. PICK d \in Left : \A j \in Left : d <= j
    BY <2>2, LeastNumber
  <2> USE DEF Left
  <2>4. CASE d = 0
    BY <1>1, <2>3, <2>4
  <2>5. CASE d # 0
    <3> DEFINE b == n - d
    <3>1. b \in 0 .. n /\ b < n /\ b + 1 \in 1 .. n + 1 /\ b + 1 <= n /\ upto[b] /\ from[b + 1]
      BY <1>1, <2>3, <2>5
    <3> HIDE DEF b
    <3>2. E(b + 1) # 0 /\ from[E(b + 1) + 1]
      BY <1>6, <3>1
    <3>3. E(b + 1) \in (b + 1) .. n /\ upto[E(b + 1)]
      BY <1>10, <3>1, <3>2
    <3> DEFINE e == E(b + 1)
    <3>4. e \in (b + 1) .. n /\ upto[e] /\ from[e + 1]
      BY <3>2, <3>3
    <3> HIDE DEF e
    <3>5. n - e \in 0 .. n /\ n - (n - e) = e /\ n - e < d
      BY <1>1, <2>3, <3>1, <3>4 DEF b
    <3>6. n - e \in Left
      BY <3>4, <3>5
    <3> HIDE DEF Left
    <3>7. d <= n - e /\ d \in Nat /\ n - e \in Int
      BY <2>2, <2>3, <3>5, <3>6
    <3> QED
      BY <3>5, <3>7
  <2> QED
    BY <2>4, <2>5
<1> QED
  BY <1>6, <1>8, <1>11, <1>12

(* What validUtf8 was asked and answered.                                  *)
Validated == call.fn = "validUtf8" => call.arg \in Seq(Octets) /\ call.out = ValidUtf8(call.arg)

(* Utf8Exact holds in every reachable state, for every text of bytes, of   *)
(* any length: the ranges and the arithmetic of validUtf8 are table 3-7.   *)
THEOREM Utf8IsExact == ResourceSpec => []Utf8Exact
<1>1. ResourceInit => Validated
  BY DEF ResourceInit, Idle, Validated
<1>2. Validated /\ [ResourceNext]_call => Validated'
  <2> SUFFICES ASSUME Validated, [ResourceNext]_call PROVE Validated'
    OBVIOUS
  <2>1. CASE ValidateText
    <3>1. PICK b \in Alphabet : LET text == Append(Argument("validUtf8"), b)
                                IN  Returns("validUtf8", text, ValidUtf8(text))
      BY <2>1 DEF ValidateText
    <3> DEFINE old == Argument("validUtf8")
               text == Append(old, b)
    <3>2. call' = [fn |-> "validUtf8", arg |-> text, out |-> ValidUtf8(text)]
      BY <3>1 DEF Returns
    <3>3. old \in Seq(Octets)
      BY DEF Argument, Validated
    <3>4. b \in Octets
      BY TextAssumption
    <3> HIDE DEF old
    <3>5. text \in Seq(Octets)
      BY <3>3, <3>4, AppendProperties
    <3> HIDE DEF text
    <3> QED
      BY <3>2, <3>5 DEF Validated
  <2>2. CASE PublishName
    BY <2>2 DEF PublishName, Returns, Validated
  <2>3. CASE AskTarget
    BY <2>3 DEF AskTarget, Returns, Validated
  <2>4. CASE DescribeOperation
    BY <2>4 DEF DescribeOperation, Returns, Validated
  <2>5. CASE ParseText
    BY <2>5 DEF ParseText, Returns, Validated
  <2>6. CASE UNCHANGED call
    BY <2>6 DEF Validated
  <2> QED
    BY <2>1, <2>2, <2>3, <2>4, <2>5, <2>6 DEF ResourceNext
<1>3. Validated => Utf8Exact
  BY Utf8Agrees DEF Validated, Utf8Exact
<1> QED
  BY <1>1, <1>2, <1>3, PTL DEF ResourceSpec

----------------------------------------------------------------------------
(* Strings of bytes and their parts.                                       *)

Strings == Seq(Octets)

(* Strings are functions to octets.                                        *)
LEMMA StringFacts ==
  ASSUME NEW s \in Strings
  PROVE  Len(s) \in Nat /\ DOMAIN s = 1 .. Len(s) /\ \A i \in 1 .. Len(s) : s[i] \in Octets
BY LenProperties, ElementOfSeq DEF Strings

(* The empty string.                                                       *)
LEMMA EmptyString == <<>> \in Strings /\ Len(<<>>) = 0 /\ \A s \in Strings : Len(s) = 0 => s = <<>>
BY EmptySeq DEF Strings

(* Strings are equal byte by byte.                                         *)
LEMMA SameString ==
  ASSUME NEW s \in Strings, NEW t \in Strings, Len(s) = Len(t), \A i \in 1 .. Len(s) : s[i] = t[i]
  PROVE  s = t
BY SeqEqual DEF Strings

(* The bytes of a concatenation.                                           *)
LEMMA Concatenation ==
  ASSUME NEW s \in Strings, NEW r \in Strings
  PROVE  /\ s \o r \in Strings /\ Len(s \o r) = Len(s) + Len(r)
         /\ \A i \in 1 .. Len(s) : (s \o r)[i] = s[i]
         /\ \A j \in 1 .. Len(r) : (s \o r)[Len(s) + j] = r[j]
<1>1. /\ s \o r \in Seq(Octets) /\ Len(s \o r) = Len(s) + Len(r)
      /\ \A i \in 1 .. Len(s) + Len(r) : (s \o r)[i] = IF i <= Len(s) THEN s[i] ELSE r[i - Len(s)]
  BY ConcatProperties DEF Strings
<1>2. Len(s) \in Nat /\ Len(r) \in Nat
  BY StringFacts
<1>3. ASSUME NEW j \in 1 .. Len(r) PROVE (s \o r)[Len(s) + j] = r[j]
  <2>1. Len(s) + j \in 1 .. Len(s) + Len(r) /\ ~(Len(s) + j <= Len(s)) /\ (Len(s) + j) - Len(s) = j
    BY <1>2
  <2> QED
    BY <1>1, <2>1
<1>4. ASSUME NEW i \in 1 .. Len(s) PROVE (s \o r)[i] = s[i]
  <2>1. i \in 1 .. Len(s) + Len(r) /\ i <= Len(s)
    BY <1>2
  <2> QED
    BY <1>1, <2>1
<1> QED
  BY <1>1, <1>3, <1>4 DEF Strings

(* The bytes after a, up to b.                                             *)
LEMMA Substring ==
  ASSUME NEW s \in Strings, NEW a \in Nat, NEW b \in Nat, a <= b, b <= Len(s)
  PROVE  /\ SubSeq(s, a + 1, b) \in Strings /\ Len(SubSeq(s, a + 1, b)) = b - a
         /\ \A j \in 1 .. b - a : SubSeq(s, a + 1, b)[j] = s[a + j]
<1>1. Len(s) \in Nat /\ \A i \in 1 .. Len(s) : s[i] \in Octets
  BY StringFacts
<1>2. \A i \in (a + 1) .. b : s[i] \in Octets
  BY <1>1
<1> DEFINE r == SubSeq(s, a + 1, b)
<1>3. /\ r \in Seq(Octets) /\ Len(r) = IF a + 1 <= b THEN b - (a + 1) + 1 ELSE 0
      /\ \A i \in 1 .. b - (a + 1) + 1 : r[i] = s[(a + 1) + i - 1]
  BY <1>2, SubSeqProperties
<1> HIDE DEF r
<1>4. Len(r) = b - a
  BY <1>3
<1>5. ASSUME NEW j \in 1 .. b - a PROVE r[j] = s[a + j]
  <2>1. j \in 1 .. b - (a + 1) + 1 /\ (a + 1) + j - 1 = a + j
    OBVIOUS
  <2> QED
    BY <1>3, <2>1
<1> QED
  BY <1>3, <1>4, <1>5 DEF r, Strings

(* s is x[1] .. x[n] one after the other; P has the places between them.   *)
Spans(s, n, P, x) ==
  /\ s \in Strings /\ x \in [1 .. n -> Strings] /\ P \in [0 .. n -> Nat]
  /\ P[0] = 0 /\ P[n] = Len(s)
  /\ \A k \in 1 .. n : /\ P[k] = P[k - 1] + Len(x[k])
                       /\ \A j \in 1 .. Len(x[k]) : s[P[k - 1] + j] = x[k][j]

(* The places between the parts do not decrease.                           *)
LEMMA SpanPlaces ==
  ASSUME NEW n \in Nat, NEW P, NEW s, NEW x, Spans(s, n, P, x)
  PROVE  /\ \A k \in 0 .. n : P[k] \in Nat /\ P[k] <= Len(s)
         /\ \A k \in 1 .. n : x[k] \in Strings /\ Len(x[k]) \in Nat /\ P[k - 1] \in Nat
                              /\ P[k] = P[k - 1] + Len(x[k])
         /\ \A j \in 0 .. n : \A k \in 0 .. j : P[k] <= P[j]
<1>1. \A k \in 0 .. n : P[k] \in Nat
  BY DEF Spans
<1>2. \A k \in 1 .. n : x[k] \in Strings
  BY DEF Spans
<1>3. \A k \in 1 .. n : Len(x[k]) \in Nat
  BY <1>2, StringFacts
<1>4. \A k \in 1 .. n : P[k] = P[k - 1] + Len(x[k]) /\ P[k - 1] \in Nat
  BY <1>1 DEF Spans
<1> DEFINE S == {j \in 0 .. n : \A k \in 0 .. j : P[k] <= P[j]}
<1>5. 0 \in S
  BY <1>1
<1>6. ASSUME NEW j \in 1 .. n, j - 1 \in S PROVE j \in S
  <2>1. P[j - 1] <= P[j] /\ P[j] \in Nat /\ P[j - 1] \in Nat
    BY <1>1, <1>3, <1>4, SMTT(30)
  <2>2. ASSUME NEW k \in 0 .. j PROVE P[k] <= P[j]
    <3>1. CASE k = j
      BY <2>1, <3>1
    <3>2. CASE k # j
      <4>1. k \in 0 .. (j - 1) /\ k \in 0 .. n
        BY <3>2
      <4>2. P[k] <= P[j - 1] /\ P[k] \in Nat
        BY <1>1, <1>6, <4>1
      <4> QED
        BY <2>1, <4>2
    <3> QED
      BY <3>1, <3>2
  <2> QED
    BY <2>2
<1> HIDE DEF S
<1>7. S = 0 .. n
  BY <1>5, <1>6, Induction DEF S
<1>8. \A j \in 0 .. n : \A k \in 0 .. j : P[k] <= P[j]
  BY <1>7 DEF S
<1>9. n \in 0 .. n /\ P[n] = Len(s)
  BY DEF Spans
<1> QED
  BY <1>1, <1>2, <1>3, <1>4, <1>8, <1>9

(* Every place of s is in one of the parts.                                *)
LEMMA SpanCovers ==
  ASSUME NEW n \in Nat, NEW P, NEW s, NEW x, Spans(s, n, P, x), NEW i \in 1 .. Len(s)
  PROVE  \E k \in 1 .. n : \E j \in 1 .. Len(x[k]) : i = P[k - 1] + j
<1> DEFINE S == {k \in 0 .. n : i <= P[k]}
<1>1. P[0] = 0 /\ P[n] = Len(s) /\ n \in 0 .. n
  BY DEF Spans
<1>2. S # {} /\ S \in SUBSET Nat /\ i \in Nat /\ i >= 1
  BY <1>1
<1> HIDE DEF S
<1>3. PICK k \in S : \A j \in S : k <= j
  BY <1>2, LeastNumber
<1>4. k \in 1 .. n /\ i <= P[k]
  BY <1>1, <1>2, <1>3 DEF S
<1>5. k - 1 \in 0 .. n /\ k - 1 \notin S
  BY <1>3, <1>4
<1>6. P[k - 1] \in Nat /\ Len(x[k]) \in Nat /\ P[k] = P[k - 1] + Len(x[k])
  BY <1>4, SpanPlaces
<1>7. ~(i <= P[k - 1])
  BY <1>5 DEF S
<1>8. i - P[k - 1] \in 1 .. Len(x[k]) /\ i = P[k - 1] + (i - P[k - 1])
  BY <1>2, <1>4, <1>6, <1>7, SMTT(30)
<1> QED
  BY <1>4, <1>8

(* The parts determine the string.                                         *)
LEMMA SpanUnique ==
  ASSUME NEW n \in Nat, NEW x, NEW s, NEW P, Spans(s, n, P, x), NEW t, NEW Q, Spans(t, n, Q, x)
  PROVE  s = t
<1> DEFINE S == {k \in 0 .. n : P[k] = Q[k]}
<1>1. 0 \in S
  BY DEF Spans
<1>2. ASSUME NEW k \in 1 .. n, k - 1 \in S PROVE k \in S
  BY <1>2 DEF Spans
<1> HIDE DEF S
<1>3. S = 0 .. n
  BY <1>1, <1>2, Induction DEF S
<1>4. \A k \in 0 .. n : P[k] = Q[k]
  BY <1>3 DEF S
<1>5. s \in Strings /\ t \in Strings /\ Len(s) = Len(t)
  BY <1>4 DEF Spans
<1>6. ASSUME NEW i \in 1 .. Len(s) PROVE s[i] = t[i]
  <2>1. PICK k \in 1 .. n : \E j \in 1 .. Len(x[k]) : i = P[k - 1] + j
    BY SpanCovers
  <2>2. PICK j \in 1 .. Len(x[k]) : i = P[k - 1] + j
    BY <2>1
  <2>3. P[k - 1] = Q[k - 1]
    BY <1>4
  <2> QED
    BY <2>2, <2>3 DEF Spans
<1> QED
  BY <1>5, <1>6, SameString

(* The empty string is no parts.                                           *)
LEMMA SpanEmpty == Spans(<<>>, 0, [k \in 0 .. 0 |-> 0], [k \in 1 .. 0 |-> <<>>])
BY EmptyString DEF Spans

(* One part more.                                                          *)
LEMMA SpanExtend ==
  ASSUME NEW n \in Nat, NEW P, NEW s, NEW x, Spans(s, n, P, x), NEW r \in Strings
  PROVE  \E Q, y : Spans(s \o r, n + 1, Q, y) /\ (\A k \in 1 .. n : y[k] = x[k]) /\ y[n + 1] = r
<1> DEFINE l == Len(s)
           Q == [k \in 0 .. n + 1 |-> IF k <= n THEN P[k] ELSE l + Len(r)]
           y == [k \in 1 .. n + 1 |-> IF k <= n THEN x[k] ELSE r]
           c == s \o r
<1>1. s \in Strings /\ l \in Nat /\ Len(r) \in Nat /\ P[n] = l
  BY StringFacts DEF Spans
<1>2. /\ c \in Strings /\ Len(c) = l + Len(r)
      /\ \A i \in 1 .. l : c[i] = s[i]
      /\ \A j \in 1 .. Len(r) : c[l + j] = r[j]
  BY <1>1, Concatenation
<1>3. /\ \A k \in 0 .. n : P[k] \in Nat /\ P[k] <= l
      /\ \A k \in 1 .. n : /\ x[k] \in Strings /\ Len(x[k]) \in Nat /\ P[k - 1] \in Nat
                           /\ P[k] = P[k - 1] + Len(x[k])
  BY SpanPlaces
<1> HIDE DEF l, c
<1>4. Q \in [0 .. n + 1 -> Nat] /\ y \in [1 .. n + 1 -> Strings] /\ Q[0] = 0 /\ Q[n + 1] = Len(c)
  <2>1. P[0] = 0
    BY DEF Spans
  <2> QED
    BY <1>1, <1>2, <1>3, <2>1
<1>5. ASSUME NEW k \in 1 .. n + 1
      PROVE  Q[k] = Q[k - 1] + Len(y[k]) /\ \A j \in 1 .. Len(y[k]) : c[Q[k - 1] + j] = y[k][j]
  <2>1. CASE k <= n
    <3>1. k \in 1 .. n /\ k - 1 \in 0 .. n /\ y[k] = x[k] /\ Q[k] = P[k] /\ Q[k - 1] = P[k - 1]
      BY <2>1
    <3>2. ASSUME NEW j \in 1 .. Len(x[k]) PROVE c[P[k - 1] + j] = x[k][j]
      <4>1. P[k - 1] + j \in 1 .. l
        <5>1. P[k - 1] \in Nat /\ Len(x[k]) \in Nat /\ P[k - 1] + Len(x[k]) <= l
          BY <1>3, <3>1
        <5> QED
          BY <1>1, <5>1, SMTT(30)
      <4>2. s[P[k - 1] + j] = x[k][j]
        BY <3>1 DEF Spans
      <4> QED
        BY <1>2, <4>1, <4>2
    <3> QED
      BY <1>3, <3>1, <3>2
  <2>2. CASE k = n + 1
    <3>1. y[k] = r /\ Q[k] = l + Len(r) /\ Q[k - 1] = l
      BY <1>1, <2>2
    <3> QED
      BY <1>2, <3>1
  <2>3. k <= n \/ k = n + 1
    OBVIOUS
  <2> HIDE DEF Q, y
  <2> QED
    BY <2>1, <2>2, <2>3
<1>a. (\A k \in 1 .. n : y[k] = x[k]) /\ y[n + 1] = r
  OBVIOUS
<1> HIDE DEF Q, y
<1>6. Spans(c, n + 1, Q, y)
  BY <1>2, <1>4, <1>5 DEF Spans
<1> QED
  BY <1>6, <1>a DEF c

(* The last part, and what is before it.                                   *)
LEMMA SpanSplit ==
  ASSUME NEW n \in Nat \ {0}, NEW P, NEW s, NEW x, Spans(s, n, P, x)
  PROVE  \E a, Q, y : s = a \o x[n] /\ Spans(a, n - 1, Q, y) /\ \A k \in 1 .. n - 1 : y[k] = x[k]
<1> DEFINE b == P[n - 1]
           a == SubSeq(s, 1, b)
           Q == [k \in 0 .. n - 1 |-> P[k]]
           y == [k \in 1 .. n - 1 |-> x[k]]
<1>1. s \in Strings /\ Len(s) \in Nat /\ P[n] = Len(s) /\ P[0] = 0
  BY StringFacts DEF Spans
<1>2. /\ \A k \in 0 .. n : P[k] \in Nat /\ P[k] <= Len(s)
      /\ \A k \in 1 .. n : /\ x[k] \in Strings /\ Len(x[k]) \in Nat /\ P[k - 1] \in Nat
                           /\ P[k] = P[k - 1] + Len(x[k])
      /\ \A j \in 0 .. n : \A k \in 0 .. j : P[k] <= P[j]
  BY SpanPlaces
<1>3. n \in 1 .. n /\ n - 1 \in 0 .. n /\ n - 1 \in Nat
  OBVIOUS
<1>4. b \in Nat /\ b <= Len(s) /\ Len(s) = b + Len(x[n]) /\ x[n] \in Strings /\ Len(x[n]) \in Nat
  BY <1>1, <1>2, <1>3
<1>5. a \in Strings /\ Len(a) = b /\ \A j \in 1 .. b : a[j] = s[j]
  <2>1. SubSeq(s, 0 + 1, b) = a /\ b - 0 = b /\ \A j \in 1 .. b : 0 + j = j
    BY <1>4
  <2> HIDE DEF a, b
  <2>2. /\ SubSeq(s, 0 + 1, b) \in Strings /\ Len(SubSeq(s, 0 + 1, b)) = b - 0
        /\ \A j \in 1 .. b - 0 : SubSeq(s, 0 + 1, b)[j] = s[0 + j]
    BY <1>1, <1>4, Substring
  <2> QED
    BY <2>1, <2>2
<1> HIDE DEF a
<1>6. s = a \o x[n]
  <2>1. /\ a \o x[n] \in Strings /\ Len(a \o x[n]) = b + Len(x[n])
        /\ \A i \in 1 .. b : (a \o x[n])[i] = a[i]
        /\ \A j \in 1 .. Len(x[n]) : (a \o x[n])[b + j] = x[n][j]
    <3> HIDE DEF b
    <3>1. /\ a \o x[n] \in Strings /\ Len(a \o x[n]) = Len(a) + Len(x[n])
          /\ \A i \in 1 .. Len(a) : (a \o x[n])[i] = a[i]
          /\ \A j \in 1 .. Len(x[n]) : (a \o x[n])[Len(a) + j] = x[n][j]
      BY <1>4, <1>5, Concatenation
    <3> QED
      BY <1>5, <3>1
  <2>2. \A j \in 1 .. Len(x[n]) : s[b + j] = x[n][j]
    BY <1>3 DEF Spans
  <2> DEFINE d == a \o x[n]
  <2> HIDE DEF d, b
  <2>3. ASSUME NEW i \in 1 .. Len(s) PROVE s[i] = d[i]
    <3>1. CASE i <= b
      BY <1>4, <1>5, <2>1, <3>1 DEF d
    <3>2. CASE ~(i <= b)
      <4>1. i - b \in 1 .. Len(x[n]) /\ i = b + (i - b)
        BY <1>4, <3>2
      <4>2. s[b + (i - b)] = x[n][i - b] /\ d[b + (i - b)] = x[n][i - b]
        BY <2>1, <2>2, <4>1 DEF d
      <4> QED
        BY <4>1, <4>2
    <3> QED
      BY <3>1, <3>2
  <2>4. d \in Strings /\ Len(d) = Len(s)
    BY <1>4, <2>1 DEF d
  <2>5. s = d
    BY <1>1, <2>3, <2>4, SameString
  <2> QED
    BY <2>5 DEF d
<1>7. Spans(a, n - 1, Q, y)
  <2>1. /\ Q \in [0 .. n - 1 -> Nat] /\ y \in [1 .. n - 1 -> Strings] /\ Q[0] = 0 /\ Q[n - 1] = Len(a)
    BY <1>1, <1>2, <1>3, <1>5
  <2>2. ASSUME NEW k \in 1 .. n - 1
        PROVE  Q[k] = Q[k - 1] + Len(y[k]) /\ \A j \in 1 .. Len(y[k]) : a[Q[k - 1] + j] = y[k][j]
    <3>1. k \in 1 .. n /\ k - 1 \in 0 .. n /\ Q[k] = P[k] /\ Q[k - 1] = P[k - 1] /\ y[k] = x[k]
      OBVIOUS
    <3>2. P[k] <= b /\ b \in Nat
      BY <1>2, <1>3, <1>4
    <3> HIDE DEF b, Q, y
    <3>3. ASSUME NEW j \in 1 .. Len(x[k]) PROVE a[P[k - 1] + j] = x[k][j]
      <4>1. P[k - 1] + j \in 1 .. b
        BY <1>2, <3>1, <3>2, SMTT(30)
      <4>2. s[P[k - 1] + j] = x[k][j]
        BY <3>1 DEF Spans
      <4> QED
        BY <1>5, <4>1, <4>2
    <3> QED
      BY <1>2, <3>1, <3>3
  <2> HIDE DEF Q, y
  <2> QED
    BY <1>5, <2>1, <2>2 DEF Spans
<1>8. \A k \in 1 .. n - 1 : y[k] = x[k]
  OBVIOUS
<1> HIDE DEF Q, y
<1> QED
  BY <1>6, <1>7, <1>8

(* Nothing before or after a string.                                       *)
LEMMA ConcatEmpty == \A s \in Strings : <<>> \o s = s /\ s \o <<>> = s
BY ConcatEmptySeq DEF Strings

(* FlattenSeq puts the parts one after the other.                          *)
LEMMA FlattenSpans ==
  ASSUME NEW n \in Nat, NEW q \in [1 .. n -> Strings]
  PROVE  \E P : Spans(FlattenSeq(q), n, P, q)
<1>1. q \in Seq(Strings) /\ Len(q) = n
  OBVIOUS
<1>2. CASE n = 0
  <2>1. q = <<>> /\ FlattenSeq(q) = q
    <3>1. q = <<>>
      BY <1>1, <1>2, EmptySeq
    <3> QED
      BY <1>1, <1>2, <3>1 DEF FlattenSeq
  <2>2. [k \in 1 .. 0 |-> <<>>] = <<>>
    OBVIOUS
  <2> QED
    BY <1>2, <2>1, <2>2, SpanEmpty
<1>3. CASE n # 0
  <2> DEFINE R(f) == [i \in 1 .. Len(q) |-> IF i = 1 THEN q[i] ELSE f[i - 1] \o q[i]]
             g == [i \in 1 .. n |-> [z \in Strings |-> z \o q[i]]]
             h == CHOOSE f : f = R(f)
  <2>0. \A i \in 1 .. n : q[i] \in Strings
    OBVIOUS
  <2>1. g \in [1 .. n -> [Strings -> Strings]]
    BY <2>0, Concatenation
  <2>2. PICK f \in [0 .. n -> Strings] : Iterates(f, n, <<>>, g)
    <3> HIDE DEF g
    <3> QED
      BY <2>1, EmptyString, Iteration
  <2>3. \A i \in 1 .. n : f[i] = f[i - 1] \o q[i] /\ f[i - 1] \in Strings
    <3>1. \A i \in 1 .. n : f[i - 1] \in Strings
      OBVIOUS
    <3>2. \A i \in 1 .. n : f[i] = g[i][f[i - 1]]
      BY <2>2 DEF Iterates
    <3>3. \A i \in 1 .. n : \A z \in Strings : g[i][z] = z \o q[i]
      OBVIOUS
    <3> HIDE DEF g
    <3> QED
      BY <3>1, <3>2, <3>3
  <2>4. f[0] = <<>>
    BY <2>2 DEF Iterates
  <2> DEFINE w == [i \in 1 .. n |-> f[i]]
  <2>5. w = R(w)
    <3>1. ASSUME NEW i \in 1 .. n PROVE w[i] = R(w)[i]
      <4>1. CASE i = 1
        <5>1. f[1] = <<>> \o q[1]
          <6>1. 1 \in 1 .. n /\ 1 - 1 = 0
            BY <4>1
          <6> QED
            BY <2>3, <2>4, <6>1
        <5>2. f[1] = q[1]
          BY <2>0, <4>1, <5>1, ConcatEmpty
        <5> QED
          BY <1>1, <4>1, <5>2
      <4>2. CASE i # 1
        <5>1. i - 1 \in 1 .. n
          BY <4>2
        <5> QED
          BY <1>1, <2>3, <4>2, <5>1
      <4> QED
        BY <4>1, <4>2
    <3> QED
      BY <1>1, <3>1
  <2>6. h = R(h)
    <3> HIDE DEF w
    <3> QED
      BY <2>5, Zenon
  <2>7. FlattenSeq(q) = h[n]
    BY <1>1, <1>3, Zenon DEF FlattenSeq
  <2> HIDE DEF h
  <2>8. \A i \in 1 .. n : h[i] = IF i = 1 THEN q[i] ELSE h[i - 1] \o q[i]
    BY <1>1, <2>6
  <2> DEFINE A == {k \in 0 .. n : k = 0 \/ \E P, x : Spans(h[k], k, P, x) /\ \A j \in 1 .. k : x[j] = q[j]}
  <2>9. 0 \in A
    OBVIOUS
  <2>10. ASSUME NEW k \in 1 .. n, k - 1 \in A PROVE k \in A
    <3> DEFINE a == IF k = 1 THEN <<>> ELSE h[k - 1]
    <3>1. PICK P, x : Spans(a, k - 1, P, x) /\ \A j \in 1 .. k - 1 : x[j] = q[j]
      <4>1. CASE k = 1
        <5>1. k - 1 = 0 /\ \A j \in 1 .. 0 : FALSE
          BY <4>1
        <5> QED
          BY <4>1, <5>1, SpanEmpty
      <4>2. CASE k # 1
        BY <2>10, <4>2
      <4> QED
        BY <4>1, <4>2
    <3>2. h[k] = a \o q[k]
      <4>1. CASE k = 1
        BY <2>0, <2>8, <4>1, ConcatEmpty
      <4>2. CASE k # 1
        BY <2>8, <4>2
      <4> QED
        BY <4>1, <4>2
    <3> HIDE DEF a
    <3>3. k - 1 \in Nat /\ q[k] \in Strings /\ (k - 1) + 1 = k
      BY <2>0
    <3>4. PICK Q, y : Spans(a \o q[k], k, Q, y) /\ (\A j \in 1 .. k - 1 : y[j] = x[j]) /\ y[k] = q[k]
      BY <3>1, <3>3, SpanExtend
    <3>5. \A j \in 1 .. k : y[j] = q[j]
      <4>1. \A j \in 1 .. k : j \in 1 .. k - 1 \/ j = k
        OBVIOUS
      <4> QED
        BY <3>1, <3>4, <4>1
    <3>6. Spans(h[k], k, Q, y)
      BY <3>2, <3>4
    <3>7. k \in 0 .. n
      OBVIOUS
    <3> QED
      BY <3>5, <3>6, <3>7, Zenon
  <2> HIDE DEF A
  <2>11. A = 0 .. n
    BY <2>9, <2>10, Induction DEF A
  <2>12. PICK P, x : Spans(h[n], n, P, x) /\ \A j \in 1 .. n : x[j] = q[j]
    BY <1>3, <2>11 DEF A
  <2>13. x = q
    BY <2>12 DEF Spans
  <2> QED
    BY <2>7, <2>12, <2>13
<1> QED
  BY <1>2, <1>3

(* What is in a join.                                                      *)
LEMMA JoinedMember ==
  ASSUME NEW S, NEW R, NEW s \in S, NEW r \in R PROVE s \o r \in Joined(S, R)
BY DEF Joined

(* A join of strings has strings.                                          *)
LEMMA JoinedStrings == \A S, R \in SUBSET Strings : Joined(S, R) \in SUBSET Strings
<1> SUFFICES ASSUME NEW S \in SUBSET Strings, NEW R \in SUBSET Strings, NEW z \in Joined(S, R)
             PROVE  z \in Strings
  OBVIOUS
<1>1. PICK a \in S, r \in R : z = a \o r
  BY DEF Joined
<1>2. a \in Strings /\ r \in Strings
  OBVIOUS
<1> QED
  BY <1>1, <1>2, Concatenation

(* JoinAll has every string with one part of each set.                     *)
LEMMA JoinAllSpans ==
  ASSUME NEW n \in Nat, NEW sets \in [1 .. n -> SUBSET Strings], NEW s
  PROVE  s \in JoinAll(sets) <=> \E P, x : Spans(s, n, P, x) /\ \A k \in 1 .. n : x[k] \in sets[k]
<1>1. sets \in Seq(SUBSET Strings) /\ Len(sets) = n
  OBVIOUS
<1> DEFINE R(f) == [k \in 0 .. Len(sets) |-> IF k = 0 THEN {<<>>} ELSE Joined(f[k - 1], sets[k])]
           g == [i \in 1 .. n |-> [Z \in SUBSET Strings |-> Joined(Z, sets[i])]]
           h == CHOOSE f : f = R(f)
<1>2. g \in [1 .. n -> [SUBSET Strings -> SUBSET Strings]]
  BY JoinedStrings
<1>3. PICK f \in [0 .. n -> SUBSET Strings] : Iterates(f, n, {<<>>}, g)
  <2>1. {<<>>} \in SUBSET Strings
    BY EmptyString
  <2> HIDE DEF g
  <2> QED
    BY <1>2, <2>1, Iteration
<1>4. f = R(f)
  <2>1. f[0] = {<<>>} /\ \A i \in 1 .. n : f[i] = Joined(f[i - 1], sets[i])
    <3>1. \A i \in 1 .. n : f[i - 1] \in SUBSET Strings
      OBVIOUS
    <3>2. f[0] = {<<>>} /\ \A i \in 1 .. n : f[i] = g[i][f[i - 1]]
      BY <1>3 DEF Iterates
    <3>3. \A i \in 1 .. n : \A Z \in SUBSET Strings : g[i][Z] = Joined(Z, sets[i])
      OBVIOUS
    <3> HIDE DEF g
    <3> QED
      BY <3>1, <3>2, <3>3
  <2>2. \A k \in 0 .. n : k # 0 => k \in 1 .. n
    OBVIOUS
  <2>3. \A k \in 0 .. n : f[k] = R(f)[k]
    BY <1>1, <2>1, <2>2
  <2>4. DOMAIN R(f) = 0 .. n /\ DOMAIN f = 0 .. n /\ f = [k \in 0 .. n |-> f[k]]
    BY <1>1
  <2>5. R(f) = [k \in 0 .. n |-> R(f)[k]]
    BY <1>1
  <2> HIDE DEF R
  <2> QED
    BY <2>3, <2>4, <2>5
<1>5. h = R(h)
  BY <1>4, Zenon
<1>6. JoinAll(sets) = h[n]
  BY <1>1, Zenon DEF JoinAll
<1> HIDE DEF h
<1>7. h[0] = {<<>>} /\ \A k \in 1 .. n : h[k] = Joined(h[k - 1], sets[k])
  <2>1. \A k \in 0 .. n : R(h)[k] = IF k = 0 THEN {<<>>} ELSE Joined(h[k - 1], sets[k])
    BY <1>1
  <2>2. 0 \in 0 .. n /\ \A k \in 1 .. n : k \in 0 .. n /\ k # 0
    OBVIOUS
  <2> HIDE DEF R
  <2>3. \A k \in 0 .. n : h[k] = IF k = 0 THEN {<<>>} ELSE Joined(h[k - 1], sets[k])
    BY <1>5, <2>1
  <2> QED
    BY <2>2, <2>3
<1> DEFINE Made(z, k) == \E P, x : Spans(z, k, P, x) /\ \A j \in 1 .. k : x[j] \in sets[j]
           A == {k \in 0 .. n : \A z : z \in h[k] <=> Made(z, k)}
<1>8. 0 \in A
  <2>1. ASSUME NEW z, z \in h[0] PROVE Made(z, 0)
    BY <1>7, <2>1, SpanEmpty
  <2>2. ASSUME NEW z, Made(z, 0) PROVE z \in h[0]
    <3>1. PICK P, x : Spans(z, 0, P, x)
      BY <2>2
    <3>2. z \in Strings /\ Len(z) = 0
      BY <3>1 DEF Spans
    <3> QED
      BY <1>7, <3>2, EmptyString
  <2> HIDE DEF Made
  <2> QED
    BY <2>1, <2>2
<1>9. ASSUME NEW k \in 1 .. n, k - 1 \in A PROVE k \in A
  <2>0. h[k] = Joined(h[k - 1], sets[k]) /\ \A z : z \in h[k - 1] <=> Made(z, k - 1)
    BY <1>7, <1>9
  <2>a. sets[k] \in SUBSET Strings /\ k - 1 \in Nat /\ k \in Nat \ {0} /\ (k - 1) + 1 = k
    OBVIOUS
  <2>1. ASSUME NEW z, z \in h[k] PROVE Made(z, k)
    <3>1. PICK a \in h[k - 1], r \in sets[k] : z = a \o r
      BY <2>0, <2>1, SMTT(30) DEF Joined
    <3>2. PICK P, x : Spans(a, k - 1, P, x) /\ \A j \in 1 .. k - 1 : x[j] \in sets[j]
      BY <2>0
    <3>3. r \in Strings
      BY <2>a
    <3>4. PICK Q, y : Spans(a \o r, k, Q, y) /\ (\A j \in 1 .. k - 1 : y[j] = x[j]) /\ y[k] = r
      BY <2>a, <3>2, <3>3, SpanExtend
    <3>5. \A j \in 1 .. k : y[j] \in sets[j]
      <4>1. \A j \in 1 .. k : j \in 1 .. k - 1 \/ j = k
        OBVIOUS
      <4> QED
        BY <3>2, <3>4, <4>1
    <3> QED
      BY <3>1, <3>4, <3>5
  <2>2. ASSUME NEW z, Made(z, k) PROVE z \in h[k]
    <3>1. PICK P, x : Spans(z, k, P, x) /\ \A j \in 1 .. k : x[j] \in sets[j]
      BY <2>2
    <3>2. PICK a, Q, y : z = a \o x[k] /\ Spans(a, k - 1, Q, y) /\ \A j \in 1 .. k - 1 : y[j] = x[j]
      BY <2>a, <3>1, SpanSplit, SMTT(30)
    <3>3. Made(a, k - 1)
      <4>1. \A j \in 1 .. k - 1 : y[j] \in sets[j]
        BY <3>1, <3>2
      <4> QED
        BY <3>2, <4>1
    <3> HIDE DEF Made
    <3>4. a \in h[k - 1] /\ x[k] \in sets[k]
      BY <2>0, <3>1, <3>3
    <3>5. a \o x[k] \in Joined(h[k - 1], sets[k])
      BY <3>4, JoinedMember
    <3> QED
      BY <2>0, <3>2, <3>5
  <2> HIDE DEF Made
  <2> QED
    BY <2>1, <2>2
<1> HIDE DEF A
<1>10. A = 0 .. n
  BY <1>8, <1>9, Induction DEF A
<1>11. n \in A
  BY <1>10
<1> HIDE DEF Made
<1>12. s \in h[n] <=> Made(s, n)
  BY <1>11 DEF A
<1> QED
  BY <1>6, <1>12 DEF Made

----------------------------------------------------------------------------
(* Paths and their segments.                                               *)

Without(s, c) == \A i \in 1 .. Len(s) : s[i] # c

(* The bytes of a segment with its slash.                                  *)
LEMMA AfterSlash ==
  ASSUME NEW r \in Strings
  PROVE  /\ <<Slash>> \in Strings /\ <<Slash>> \o r \in Strings
         /\ Len(<<Slash>> \o r) = Len(r) + 1 /\ (<<Slash>> \o r)[1] = Slash
         /\ \A j \in 1 .. Len(r) : (<<Slash>> \o r)[j + 1] = r[j]
<1> DEFINE a == <<Slash>>
<1>1. a \in Strings /\ Len(a) = 1 /\ a[1] = Slash
  BY DEF Strings, Octets, Slash
<1>2. Len(r) \in Nat
  BY StringFacts
<1> HIDE DEF a
<1>3. /\ a \o r \in Strings /\ Len(a \o r) = Len(a) + Len(r)
      /\ \A i \in 1 .. Len(a) : (a \o r)[i] = a[i]
      /\ \A j \in 1 .. Len(r) : (a \o r)[Len(a) + j] = r[j]
  BY <1>1, Concatenation
<1>4. Len(a \o r) = Len(r) + 1 /\ (a \o r)[1] = Slash /\ \A j \in 1 .. Len(r) : (a \o r)[j + 1] = r[j]
  BY <1>1, <1>2, <1>3
<1> QED
  BY <1>1, <1>3, <1>4 DEF a

(* Each part is a segment after a slash.                                   *)
Pieces(n, y, x) == \A k \in 1 .. n : y[k] = <<Slash>> \o x[k] /\ Without(x[k], Slash)

(* Segments finds the segments again that were put together.               *)
LEMMA SegmentsOfSpan ==
  ASSUME NEW n \in Nat, NEW s, NEW P, NEW y, Spans(s, n, P, y), NEW x \in [1 .. n -> Strings],
         Pieces(n, y, x)
  PROVE  Segments(s) = x
<1> DEFINE l == Len(s)
           Z == {i \in DOMAIN s : s[i] = Slash}
           t == [k \in 1 .. n |-> P[k - 1] + 1]
<1>1. s \in Strings /\ l \in Nat /\ DOMAIN s = 1 .. l /\ P[0] = 0 /\ P[n] = l
  BY StringFacts DEF Spans
<1>2. /\ \A k \in 0 .. n : P[k] \in Nat /\ P[k] <= l
      /\ \A k \in 1 .. n : P[k - 1] \in Nat /\ P[k] = P[k - 1] + Len(y[k])
      /\ \A j \in 0 .. n : \A k \in 0 .. j : P[k] <= P[j]
  BY SpanPlaces
<1>3. \A k \in 1 .. n : x[k] \in Strings /\ Len(x[k]) \in Nat
  BY StringFacts
<1>4. \A k \in 1 .. n : /\ Len(y[k]) = Len(x[k]) + 1 /\ y[k][1] = Slash
                        /\ \A j \in 1 .. Len(x[k]) : y[k][j + 1] = x[k][j]
  BY <1>3, AfterSlash DEF Pieces
<1>4a. ASSUME NEW k \in 1 .. n
       PROVE  /\ Len(x[k]) \in Nat /\ Len(y[k]) = Len(x[k]) + 1
              /\ P[k - 1] \in Nat /\ P[k] \in Nat /\ P[k] <= l /\ P[k] = P[k - 1] + Len(y[k])
  <2>1. k \in 0 .. n
    OBVIOUS
  <2> QED
    BY <1>2, <1>3, <1>4, <2>1
<1>5. ASSUME NEW k \in 1 .. n PROVE P[k] = P[k - 1] + Len(x[k]) + 1
  <2>1. /\ Len(x[k]) \in Nat /\ Len(y[k]) = Len(x[k]) + 1
        /\ P[k - 1] \in Nat /\ P[k] \in Nat /\ P[k] = P[k - 1] + Len(y[k])
    BY <1>4a
  <2> QED
    BY <2>1
<1>6. \A k \in 1 .. n : \A j \in 1 .. Len(y[k]) : s[P[k - 1] + j] = y[k][j]
  BY DEF Spans
<1> HIDE DEF l
<1>7. ASSUME NEW k \in 1 .. n PROVE t[k] \in Z
  <2>1. P[k - 1] + 1 \in 1 .. l
    <3>1. /\ Len(x[k]) \in Nat /\ P[k - 1] \in Nat /\ P[k] \in Nat /\ P[k] <= l
          /\ P[k] = P[k - 1] + Len(x[k]) + 1
      BY <1>4a, <1>5
    <3> QED
      BY <1>1, <3>1
  <2>2. s[P[k - 1] + 1] = Slash
    <3>1. 1 \in 1 .. Len(y[k])
      BY <1>3, <1>4
    <3> QED
      BY <1>4, <1>6, <3>1
  <2> QED
    BY <1>1, <2>1, <2>2
<1>8. ASSUME NEW i \in 1 .. n, NEW j \in 1 .. n, i < j PROVE t[i] < t[j]
  <2>1. i \in 0 .. j - 1 /\ j - 1 \in 0 .. n /\ i \in 0 .. n /\ i - 1 \in 0 .. n
    BY <1>8
  <2>2. P[i] <= P[j - 1] /\ P[i - 1] < P[i] /\ P[i] \in Nat /\ P[i - 1] \in Nat /\ P[j - 1] \in Nat
    BY <1>2, <1>3, <1>5, <2>1
  <2> QED
    BY <2>2
<1>9. ASSUME NEW i \in Z PROVE \E k \in 1 .. n : t[k] = i
  <2>1. i \in 1 .. Len(s) /\ s[i] = Slash
    BY <1>1 DEF l
  <2>2. PICK k \in 1 .. n : \E j \in 1 .. Len(y[k]) : i = P[k - 1] + j
    <3> HIDE DEF Z, t
    <3> QED
      BY <2>1, SpanCovers
  <2>3. PICK j \in 1 .. Len(y[k]) : i = P[k - 1] + j
    BY <2>2
  <2>4. y[k][j] = Slash
    BY <1>6, <2>1, <2>3
  <2>5. j = 1
    <3>1. ASSUME j # 1 PROVE FALSE
      <4>1. j - 1 \in 1 .. Len(x[k]) /\ (j - 1) + 1 = j
        BY <1>3, <1>4, <3>1
      <4>2. y[k][(j - 1) + 1] = x[k][j - 1]
        BY <1>4, <4>1
      <4>3. x[k][j - 1] = Slash
        BY <2>4, <4>1, <4>2
      <4> QED
        BY <4>1, <4>3 DEF Without, Pieces
    <3> QED
      BY <3>1
  <2> QED
    BY <2>3, <2>5
<1>10. Enumerates(t, n, Z) /\ Z \in SUBSET (1 .. l)
  <2>1. t \in [1 .. n -> Z]
    BY <1>7
  <2>2. Z \in SUBSET (1 .. l)
    BY <1>1
  <2> HIDE DEF Z
  <2>3. Rising(t)
    BY <1>8 DEF Rising
  <2> HIDE DEF t
  <2> QED
    BY <1>9, <2>1, <2>2, <2>3 DEF Enumerates
<1> HIDE DEF Z, t
<1>11. InOrder(Z) = t
  BY <1>1, <1>10, InOrderUnique
<1>12. t \in Seq(Nat) /\ Len(t) = n /\ DOMAIN t = 1 .. n
  <2>1. t \in [1 .. n -> Nat]
    BY <1>2 DEF t
  <2> QED
    BY <2>1
<1> DEFINE end(k) == IF k = n THEN l ELSE t[k + 1] - 1
           g == [k \in 1 .. n |-> SubSeq(s, t[k] + 1, end(k))]
<1>13. Segments(s) = g
  <2>1. Segments(s) = [k \in DOMAIN t |->
                         SubSeq(s, t[k] + 1, IF k = Len(t) THEN Len(s) ELSE t[k + 1] - 1)]
    BY <1>11 DEF Segments, Z
  <2> QED
    BY <1>12, <2>1 DEF l
<1>14. ASSUME NEW k \in 1 .. n PROVE g[k] = x[k]
  <2> DEFINE b == P[k - 1] + 1
             e == P[k]
             u == SubSeq(s, b + 1, e)
  <2>1. t[k] = b /\ end(k) = e
    <3>1. CASE k = n
      BY <1>1, <3>1 DEF t
    <3>2. CASE k # n
      <4>1. k + 1 \in 1 .. n /\ (k + 1) - 1 = k /\ P[k] \in Nat
        BY <1>2, <3>2
      <4> QED
        BY <3>2, <4>1 DEF t
    <3> QED
      BY <3>1, <3>2
  <2>2. g[k] = u
    BY <2>1
  <2>3. b \in Nat /\ e \in Nat /\ b <= e /\ e <= l /\ e - b = Len(x[k])
    <3>1. /\ Len(x[k]) \in Nat /\ P[k - 1] \in Nat /\ P[k] \in Nat /\ P[k] <= l
          /\ P[k] = P[k - 1] + Len(x[k]) + 1
      BY <1>4a, <1>5
    <3> QED
      BY <3>1, SMTT(30)
  <2>4. u \in Strings /\ Len(u) = e - b /\ \A j \in 1 .. e - b : u[j] = s[b + j]
    <3> HIDE DEF b, e
    <3> QED
      BY <1>1, <2>3, Substring DEF l
  <2>5. ASSUME NEW j \in 1 .. Len(x[k]) PROVE s[b + j] = x[k][j]
    <3>1. j + 1 \in 1 .. Len(y[k]) /\ b + j = P[k - 1] + (j + 1)
      <4>1. Len(x[k]) \in Nat /\ Len(y[k]) = Len(x[k]) + 1 /\ P[k - 1] \in Nat
        BY <1>4a
      <4> QED
        BY <4>1, SMTT(30)
    <3>2. s[P[k - 1] + (j + 1)] = y[k][j + 1]
      BY <1>6, <3>1
    <3> QED
      BY <1>4, <3>1, <3>2
  <2> HIDE DEF u, b, e
  <2>6. u = x[k]
    <3>1. Len(u) = Len(x[k]) /\ \A j \in 1 .. Len(u) : u[j] = x[k][j]
      BY <2>3, <2>4, <2>5
    <3> QED
      BY <1>3, <2>4, <3>1, SameString
  <2> QED
    BY <2>2, <2>6
<1> HIDE DEF g
<1>15. DOMAIN g = 1 .. n /\ g = [k \in 1 .. n |-> g[k]]
  BY DEF g
<1>16. g = x
  BY <1>14, <1>15
<1> QED
  BY <1>13, <1>16

(* A path is its segments, each after a slash.                             *)
LEMMA SegmentsSpan ==
  ASSUME NEW s \in Strings, s # <<>>, s[1] = Slash
  PROVE  \E n \in Nat : \E P, y :
           /\ n > 0 /\ Spans(s, n, P, y)
           /\ Segments(s) \in [1 .. n -> Strings] /\ Pieces(n, y, Segments(s))
<1> DEFINE l == Len(s)
           Z == {i \in DOMAIN s : s[i] = Slash}
           t == InOrder(Z)
           n == Cardinality(Z)
<1>1. l \in Nat /\ DOMAIN s = 1 .. l /\ \A i \in 1 .. l : s[i] \in Octets
  BY StringFacts
<1>2. l > 0 /\ 1 \in 1 .. l
  BY <1>1, EmptyString
<1>3. Z \in SUBSET (1 .. l) /\ 1 \in Z
  BY <1>1, <1>2
<1>3a. \A i \in Z : i \in 1 .. l /\ i \in Nat
  BY <1>1, <1>3
<1>4. n \in Nat /\ Enumerates(t, n, Z)
  <2> HIDE DEF Z
  <2> QED
    BY <1>1, <1>3, InOrderEnumerates
<1> HIDE DEF l, n, t
<1>5. t \in [1 .. n -> Z] /\ t \in Seq(Z) /\ Len(t) = n /\ DOMAIN t = 1 .. n
  <2> HIDE DEF Z
  <2>1. t \in [1 .. n -> Z]
    BY <1>4 DEF Enumerates
  <2> QED
    BY <1>4, <2>1
<1>6. \A k \in 1 .. n : t[k] \in Nat /\ t[k] \in 1 .. l /\ s[t[k]] = Slash
  <2>1. \A k \in 1 .. n : t[k] \in Z
    BY <1>5
  <2>2. \A i \in Z : s[i] = Slash
    OBVIOUS
  <2> HIDE DEF Z
  <2> QED
    BY <1>3a, <2>1, <2>2
<1>7. \A i, j \in 1 .. n : i < j => t[i] < t[j]
  BY <1>4, <1>5 DEF Enumerates, Rising
<1>8. \A i \in 1 .. l : s[i] = Slash => \E k \in 1 .. n : t[k] = i
  BY <1>1, <1>4 DEF Enumerates
<1>9. n > 0 /\ 1 \in 1 .. n /\ t[1] = 1
  <2>1. PICK k \in 1 .. n : t[k] = 1
    BY <1>2, <1>8
  <2>2. n > 0 /\ 1 \in 1 .. n
    BY <1>4
  <2>3. k = 1
    <3>1. ASSUME 1 < k PROVE FALSE
      <4>1. t[1] < t[k] /\ t[1] \in 1 .. l
        BY <1>6, <1>7, <2>2, <3>1
      <4> QED
        BY <1>1, <2>1, <4>1
    <3> QED
      BY <3>1
  <2> QED
    BY <2>1, <2>2, <2>3
<1> DEFINE e == [k \in 0 .. n |-> IF k = n THEN l ELSE t[k + 1] - 1]
           g == [k \in 1 .. n |-> SubSeq(s, t[k] + 1, e[k])]
           y == [k \in 1 .. n |-> <<Slash>> \o g[k]]
<1>10. Segments(s) = g
  <2>1. Segments(s) = [k \in DOMAIN t |->
                         SubSeq(s, t[k] + 1, IF k = Len(t) THEN Len(s) ELSE t[k + 1] - 1)]
    BY DEF Segments, t
  <2>2. \A k \in 1 .. n : e[k] = IF k = Len(t) THEN Len(s) ELSE t[k + 1] - 1
    BY <1>4, <1>5 DEF l
  <2> HIDE DEF e
  <2> QED
    BY <1>5, <2>1, <2>2
<1>11. ASSUME NEW k \in 0 .. n PROVE e[k] \in Nat /\ e[k] <= l /\ (k < n => e[k] = t[k + 1] - 1)
  <2>1. CASE k = n
    BY <1>1, <2>1
  <2>2. CASE k # n
    <3>1. k + 1 \in 1 .. n
      BY <1>4, <2>2
    <3>2. t[k + 1] \in 1 .. l
      BY <1>6, <3>1
    <3> QED
      BY <1>1, <2>2, <3>2
  <2> QED
    BY <2>1, <2>2
<1>12. ASSUME NEW k \in 1 .. n PROVE e[k - 1] = t[k] - 1 /\ t[k] <= e[k] /\ e[k] \in Nat /\ e[k] <= l
  <2>1. k - 1 \in 0 .. n /\ k - 1 < n /\ (k - 1) + 1 = k /\ k \in 0 .. n
    BY <1>4
  <2>2. e[k - 1] = t[k] - 1 /\ e[k] \in Nat /\ e[k] <= l
    BY <1>11, <2>1
  <2>3. t[k] <= e[k]
    <3>1. CASE k = n
      <4>1. e[k] = l
        BY <2>1, <3>1
      <4> QED
        BY <1>1, <1>6, <4>1
    <3>2. CASE k # n
      <4>1. k + 1 \in 1 .. n /\ k < n
        BY <1>4, <3>2
      <4>2. t[k] < t[k + 1] /\ t[k] \in Nat /\ t[k + 1] \in Nat /\ e[k] = t[k + 1] - 1
        BY <1>6, <1>7, <1>11, <2>1, <4>1
      <4> QED
        BY <4>2
    <3> QED
      BY <3>1, <3>2
  <2> QED
    BY <2>2, <2>3
<1>13. e[0] = 0 /\ e[n] = l
  <2>1. 0 \in 0 .. n /\ 0 < n /\ 0 + 1 = 1 /\ n \in 0 .. n
    BY <1>4, <1>9
  <2> QED
    BY <1>9, <1>11, <2>1
<1>14. e \in [0 .. n -> Nat]
  BY <1>11
<1> HIDE DEF e
<1>15. ASSUME NEW k \in 1 .. n
       PROVE  g[k] \in Strings /\ Len(g[k]) = e[k] - t[k] /\ \A j \in 1 .. e[k] - t[k] : g[k][j] = s[t[k] + j]
  <2> DEFINE a == t[k]
             b == e[k]
             u == SubSeq(s, a + 1, b)
  <2>1. a \in Nat /\ b \in Nat /\ a <= b /\ b <= Len(s)
    BY <1>6, <1>12 DEF l
  <2>2. g[k] = u
    OBVIOUS
  <2>3. u \in Strings /\ Len(u) = b - a /\ \A j \in 1 .. b - a : u[j] = s[a + j]
    <3> HIDE DEF a, b
    <3> QED
      BY <2>1, Substring
  <2> QED
    BY <2>2, <2>3
<1>16. g \in [1 .. n -> Strings]
  BY <1>15
<1>17. ASSUME NEW k \in 1 .. n PROVE Without(g[k], Slash)
  <2> SUFFICES ASSUME NEW j \in 1 .. Len(g[k]), g[k][j] = Slash PROVE FALSE
    BY DEF Without
  <2> DEFINE i == t[k] + j
  <2>1. s[i] = Slash /\ i \in Nat /\ t[k] < i /\ i <= e[k] /\ i \in 1 .. l
    <3>1. /\ t[k] \in Nat /\ t[k] >= 1 /\ e[k] \in Nat /\ e[k] <= l /\ t[k] <= e[k]
          /\ Len(g[k]) = e[k] - t[k] /\ g[k][j] = s[t[k] + j]
      <4>1. t[k] \in Nat /\ t[k] \in 1 .. l
        BY <1>6
      <4>2. e[k] \in Nat /\ e[k] <= l /\ t[k] <= e[k]
        BY <1>12
      <4>3. Len(g[k]) = e[k] - t[k] /\ \A h \in 1 .. e[k] - t[k] : g[k][h] = s[t[k] + h]
        BY <1>15
      <4> HIDE DEF g
      <4> QED
        BY <1>1, <4>1, <4>2, <4>3
    <3>2. j \in Nat /\ j >= 1 /\ j <= e[k] - t[k]
      BY <3>1
    <3> HIDE DEF g
    <3> QED
      BY <1>1, <3>1, <3>2
  <2>2. PICK m \in 1 .. n : t[m] = i
    BY <1>8, <2>1
  <2> HIDE DEF i
  <2>3. k < m
    <3>1. ASSUME m <= k PROVE FALSE
      <4>1. m = k \/ m < k
        BY <1>4, <3>1
      <4>2. t[m] <= t[k]
        BY <1>6, <1>7, <4>1
      <4> QED
        BY <1>6, <2>1, <2>2, <4>2
    <3> QED
      BY <1>4, <3>1
  <2>4. k \in 0 .. n /\ k < n /\ k + 1 \in 1 .. n /\ (k + 1 = m \/ k + 1 < m)
    BY <1>4, <2>3
  <2>5. e[k] = t[k + 1] - 1 /\ t[k + 1] <= t[m]
    BY <1>6, <1>7, <1>11, <2>4, SMTT(30)
  <2> QED
    BY <1>6, <1>12, <2>1, <2>2, <2>4, <2>5
<1> HIDE DEF g
<1>18. \A k \in 1 .. n : /\ y[k] \in Strings /\ Len(y[k]) = Len(g[k]) + 1 /\ y[k][1] = Slash
                         /\ \A j \in 1 .. Len(g[k]) : y[k][j + 1] = g[k][j]
  BY <1>16, AfterSlash
<1>19. Spans(s, n, e, y)
  <2>1. y \in [1 .. n -> Strings]
    BY <1>18
  <2>2. ASSUME NEW k \in 1 .. n
        PROVE  e[k] = e[k - 1] + Len(y[k]) /\ \A j \in 1 .. Len(y[k]) : s[e[k - 1] + j] = y[k][j]
    <3> HIDE DEF y
    <3>1. e[k] = e[k - 1] + Len(y[k])
      BY <1>6, <1>12, <1>15, <1>18, SMTT(30)
    <3>2. ASSUME NEW j \in 1 .. Len(y[k]) PROVE s[e[k - 1] + j] = y[k][j]
      <4>1. CASE j = 1
        <5>1. e[k - 1] + j = t[k]
          BY <1>6, <1>12, <4>1
        <5> QED
          BY <1>6, <1>18, <4>1, <5>1
      <4>2. CASE j # 1
        <5>1. j - 1 \in 1 .. e[k] - t[k] /\ e[k - 1] + j = t[k] + (j - 1) /\ (j - 1) + 1 = j
          <6>1. /\ t[k] \in Nat /\ e[k] \in Nat /\ t[k] <= e[k] /\ e[k - 1] = t[k] - 1
                /\ Len(y[k]) = e[k] - t[k] + 1
            BY <1>6, <1>12, <1>15, <1>18
          <6>2. j \in Nat /\ j >= 1 /\ j <= e[k] - t[k] + 1
            BY <6>1
          <6> QED
            BY <4>2, <6>1, <6>2, SMTT(30)
        <5>2. g[k][j - 1] = s[t[k] + (j - 1)] /\ y[k][(j - 1) + 1] = g[k][j - 1]
          BY <1>15, <1>18, <5>1
        <5> QED
          BY <5>1, <5>2
      <4> QED
        BY <4>1, <4>2
    <3> QED
      BY <3>1, <3>2
  <2> HIDE DEF y
  <2> QED
    BY <1>13, <1>14, <2>1, <2>2 DEF Spans, l
<1>20. \A k \in 1 .. n : y[k] = <<Slash>> \o g[k]
  OBVIOUS
<1> HIDE DEF y
<1>21. Pieces(n, y, g)
  BY <1>17, <1>20 DEF Pieces
<1> QED
  BY <1>4, <1>9, <1>10, <1>16, <1>19, <1>21

----------------------------------------------------------------------------
(* Bytes in a path.                                                        *)

(* A byte as itself or as an escape.                                       *)
ByteForm(r, c) ==
  \/ Len(r) = 1 /\ r[1] = c /\ Literal(c)
  \/ /\ Len(r) = 3 /\ r[1] = Percent
     /\ Hex(r[2]) \in 0 .. 15 /\ Hex(r[3]) \in 0 .. 15 /\ c = 16 * Hex(r[2]) + Hex(r[3])

Harmless(c) == c \in Octets /\ c \notin {Slash, Question, Hash}

(* A hexadecimal digit spells its value.                                   *)
LEMMA HexDigits ==
  ASSUME NEW h \in Octets
  PROVE  /\ Hex(h) \in -1 .. 15
         /\ Hex(h) >= 0 => h \in DigitSpellings(Hex(h)) /\ Harmless(h)
BY SMT DEF Octets, Hex, DigitSpellings, Harmless, Slash, Question, Hash

(* Every spelling of a digit has its value, and Digit is one.              *)
LEMMA DigitsOfValue ==
  ASSUME NEW d \in 0 .. 15
  PROVE  /\ Digit(d) \in DigitSpellings(d)
         /\ \A h \in DigitSpellings(d) : h \in Octets /\ Hex(h) = d
<1>1. Digit(d) \in DigitSpellings(d)
  BY SMT DEF Digit, DigitSpellings
<1>2. ASSUME NEW h \in DigitSpellings(d) PROVE h \in Octets /\ Hex(h) = d
  <2>1. CASE d < 10
    <3>1. h = 48 + d
      BY <2>1 DEF DigitSpellings
    <3> QED
      BY <2>1, <3>1, SMT DEF Octets, Hex
  <2>2. CASE ~(d < 10)
    <3>1. h = 55 + d \/ h = 87 + d
      BY <2>2 DEF DigitSpellings
    <3> QED
      BY <2>2, <3>1, SMT DEF Octets, Hex
  <2> QED
    BY <2>1, <2>2
<1> QED
  BY <1>1, <1>2

(* An octet has two hexadecimal digits.                                    *)
LEMMA TwoDigits ==
  ASSUME NEW c \in Octets
  PROVE  c \div 16 \in 0 .. 15 /\ c % 16 \in 0 .. 15 /\ c = 16 * (c \div 16) + (c % 16)
BY SMT DEF Octets

(* Two digits are an octet.                                                *)
LEMMA FromDigits ==
  ASSUME NEW h \in 0 .. 15, NEW d \in 0 .. 15
  PROVE  16 * h + d \in Octets /\ (16 * h + d) \div 16 = h /\ (16 * h + d) % 16 = d
BY SMT DEF Octets

(* Strings of one, two and three bytes.                                    *)
LEMMA ShortStrings ==
  ASSUME NEW a \in Octets, NEW b \in Octets, NEW c \in Octets
  PROVE  /\ <<a>> \in Strings /\ Len(<<a>>) = 1 /\ <<a>>[1] = a
         /\ <<a, b>> \in Strings /\ Len(<<a, b>>) = 2 /\ <<a, b>>[1] = a /\ <<a, b>>[2] = b
         /\ <<a, b, c>> \in Strings /\ Len(<<a, b, c>>) = 3
         /\ <<a, b, c>>[1] = a /\ <<a, b, c>>[2] = b /\ <<a, b, c>>[3] = c
BY DEF Strings

(* The bytes with a meaning in a path are octets.                          *)
LEMMA PercentOctet == Percent \in Octets /\ Slash \in Octets /\ Question \in Octets /\ Hash \in Octets
BY DEF Percent, Slash, Question, Hash, Octets

(* ByteSpellings are the strings of these forms.                           *)
LEMMA SpellingForm ==
  ASSUME NEW c \in Octets, NEW r \in ByteSpellings(c)
  PROVE  r \in Strings /\ ByteForm(r, c)
<1>1. CASE Literal(c) /\ r = <<c>>
  BY <1>1, ShortStrings DEF ByteForm
<1>2. CASE \E h \in DigitSpellings(c \div 16), l \in DigitSpellings(c % 16) : r = <<Percent, h, l>>
  <2>1. PICK h \in DigitSpellings(c \div 16), l \in DigitSpellings(c % 16) : r = <<Percent, h, l>>
    BY <1>2
  <2> DEFINE u == c \div 16
             v == c % 16
  <2>2. u \in 0 .. 15 /\ v \in 0 .. 15 /\ c = 16 * u + v
    BY TwoDigits
  <2> HIDE DEF u, v
  <2>3. h \in DigitSpellings(u) /\ l \in DigitSpellings(v)
    BY DEF u, v
  <2>4. h \in Octets /\ l \in Octets /\ Hex(h) = u /\ Hex(l) = v
    BY <2>2, <2>3, DigitsOfValue
  <2>5. r \in Strings /\ Len(r) = 3 /\ r[1] = Percent /\ r[2] = h /\ r[3] = l
    BY <2>1, <2>4, PercentOctet, ShortStrings
  <2> QED
    BY <2>2, <2>4, <2>5 DEF ByteForm
<1> QED
  BY <1>1, <1>2 DEF ByteSpellings

(* A literal byte spells itself.                                           *)
LEMMA LiteralSpelling ==
  ASSUME NEW c, Literal(c) PROVE <<c>> \in ByteSpellings(c)
BY DEF ByteSpellings

(* An escape spells its value.                                             *)
LEMMA EscapeSpelling ==
  ASSUME NEW h \in Octets, NEW l \in Octets, Hex(h) >= 0, Hex(l) >= 0
  PROVE  /\ 16 * Hex(h) + Hex(l) \in Octets
         /\ <<Percent, h, l>> \in ByteSpellings(16 * Hex(h) + Hex(l))
<1> DEFINE u == Hex(h)
           v == Hex(l)
           c == 16 * u + v
<1>1. u \in 0 .. 15 /\ v \in 0 .. 15
  BY HexDigits
<1>2. h \in DigitSpellings(u) /\ l \in DigitSpellings(v)
  BY HexDigits
<1> HIDE DEF u, v
<1>3. c \in Octets /\ c \div 16 = u /\ c % 16 = v
  BY <1>1, FromDigits
<1> HIDE DEF c
<1>4. <<Percent, h, l>> \in ByteSpellings(c)
  BY <1>2, <1>3 DEF ByteSpellings
<1> QED
  BY <1>3, <1>4 DEF c, u, v

(* An escape of a name is one of its spellings.                            *)
LEMMA EncodedByte ==
  ASSUME NEW c \in Octets PROVE EncodeByte(c) \in ByteSpellings(c) /\ EncodeByte(c) \in Strings
<1>1. CASE Unreserved(c)
  <2>1. Literal(c)
    BY <1>1, SMT DEF Unreserved, Literal, Octets, Slash, Percent, Question, Hash
  <2> QED
    BY <1>1, <2>1, LiteralSpelling, SpellingForm DEF EncodeByte
<1>2. CASE ~Unreserved(c)
  <2> DEFINE u == c \div 16
             v == c % 16
  <2>1. u \in 0 .. 15 /\ v \in 0 .. 15
    BY TwoDigits
  <2> HIDE DEF u, v
  <2>2. Digit(u) \in DigitSpellings(u) /\ Digit(v) \in DigitSpellings(v)
    BY <2>1, DigitsOfValue
  <2>3. <<Percent, Digit(u), Digit(v)>> \in ByteSpellings(c)
    BY <2>2 DEF ByteSpellings, u, v
  <2> QED
    BY <1>2, <2>3, SpellingForm DEF EncodeByte, u, v
<1> QED
  BY <1>1, <1>2

(* No spelling of a byte has a slash, a question mark or a hash in it.     *)
LEMMA FormHarmless ==
  ASSUME NEW r \in Strings, NEW c \in Octets, ByteForm(r, c), NEW j \in 1 .. Len(r)
  PROVE  Harmless(r[j])
<1>1. r[j] \in Octets
  BY StringFacts
<1>2. CASE Len(r) = 1 /\ r[1] = c /\ Literal(c)
  <2>1. j = 1
    BY <1>2
  <2> QED
    BY <1>2, <2>1 DEF Literal, Harmless
<1>3. CASE Len(r) = 3 /\ r[1] = Percent /\ Hex(r[2]) \in 0 .. 15 /\ Hex(r[3]) \in 0 .. 15
  <2>1. j = 1 \/ j = 2 \/ j = 3
    BY <1>3
  <2>2. CASE j = 1
    BY <1>3, <2>2, SMT DEF Harmless, Percent, Octets, Slash, Question, Hash
  <2>3. CASE j # 1
    <3>1. Hex(r[j]) >= 0
      BY <1>3, <2>1, <2>3
    <3> QED
      BY <1>1, <3>1, HexDigits
  <2> QED
    BY <2>2, <2>3
<1> QED
  BY <1>2, <1>3 DEF ByteForm

----------------------------------------------------------------------------
(* Decoding a segment.                                                     *)

ScanStates == [ok : BOOLEAN, skip : 0 .. 2, out : Strings]
Start == [ok |-> TRUE, skip |-> 0, out |-> <<>>]
Escape(g, i) == Len(g) - i >= 2 /\ Hex(g[i + 1]) >= 0 /\ Hex(g[i + 2]) >= 0
EscapeValue(g, i) == 16 * Hex(g[i + 1]) + Hex(g[i + 2])

(* One byte more.                                                          *)
LEMMA AppendByte ==
  ASSUME NEW s \in Strings, NEW c \in Octets
  PROVE  /\ Append(s, c) \in Strings /\ Append(s, c) = s \o <<c>> /\ Len(Append(s, c)) = Len(s) + 1
         /\ \A i \in 1 .. Len(s) : Append(s, c)[i] = s[i]
         /\ Append(s, c)[Len(s) + 1] = c
BY AppendProperties, AppendIsConcat DEF Strings

(* An escape lies inside its segment.                                      *)
LEMMA EscapeBytes ==
  ASSUME NEW g \in Strings, NEW i \in 1 .. Len(g), Escape(g, i)
  PROVE  /\ i + 2 \in 1 .. Len(g) /\ g[i + 1] \in Octets /\ g[i + 2] \in Octets
         /\ Hex(g[i + 1]) >= 0 /\ Hex(g[i + 2]) >= 0 /\ EscapeValue(g, i) \in Octets
<1>1. Len(g) \in Nat /\ Len(g) - i >= 2 /\ Hex(g[i + 1]) >= 0 /\ Hex(g[i + 2]) >= 0
  BY StringFacts DEF Escape
<1>2. i + 1 \in 1 .. Len(g) /\ i + 2 \in 1 .. Len(g)
  BY <1>1
<1>3. g[i + 1] \in Octets /\ g[i + 2] \in Octets
  BY <1>2, StringFacts
<1> QED
  BY <1>1, <1>2, <1>3, EscapeSpelling DEF EscapeValue

(* The cases of one step.                                                  *)
LEMMA ScanCases ==
  ASSUME NEW g \in Strings, NEW i \in 1 .. Len(g), NEW s \in ScanStates
  PROVE  /\ ~s.ok => Scan(g, s, i) = s
         /\ s.ok /\ s.skip > 0 => Scan(g, s, i) = [ok |-> TRUE, skip |-> s.skip - 1, out |-> s.out]
         /\ s.ok /\ s.skip = 0 /\ g[i] = Percent /\ Escape(g, i) =>
              Scan(g, s, i) = [ok |-> TRUE, skip |-> 2, out |-> Append(s.out, EscapeValue(g, i))]
         /\ s.ok /\ s.skip = 0 /\ Plain(g[i]) =>
              Scan(g, s, i) = [ok |-> TRUE, skip |-> 0, out |-> Append(s.out, g[i])]
         /\ s.ok /\ s.skip = 0 /\ ~(g[i] = Percent /\ Escape(g, i)) /\ ~Plain(g[i]) =>
              Scan(g, s, i) = [ok |-> FALSE, skip |-> 0, out |-> s.out]
<1>1. s = [ok |-> s.ok, skip |-> s.skip, out |-> s.out] /\ s.ok \in BOOLEAN /\ s.skip \in 0 .. 2 /\ s.out \in Strings
  BY DEF ScanStates
<1>2. ~s.ok => Scan(g, s, i) = s
  BY DEF Scan
<1>3. s.ok /\ s.skip > 0 => Scan(g, s, i) = [s EXCEPT !.skip = @ - 1]
  BY DEF Scan
<1>4. Plain(g[i]) => g[i] # Percent
  BY DEF Plain
<1>5. s.ok /\ s.skip = 0 /\ g[i] = Percent /\ Escape(g, i) =>
        Scan(g, s, i) = [s EXCEPT !.skip = 2, !.out = Append(@, EscapeValue(g, i))]
  BY <1>4 DEF Scan, Escape, EscapeValue
<1>6. s.ok /\ s.skip = 0 /\ Plain(g[i]) => Scan(g, s, i) = [s EXCEPT !.out = Append(@, g[i])]
  BY <1>4 DEF Scan
<1>7. s.ok /\ s.skip = 0 /\ ~(g[i] = Percent /\ Escape(g, i)) /\ ~Plain(g[i]) =>
        Scan(g, s, i) = [s EXCEPT !.ok = FALSE]
  BY DEF Scan, Escape
<1> QED
  BY <1>1, <1>2, <1>3, <1>5, <1>6, <1>7 DEF ScanStates

(* Scan stays among its states.                                            *)
LEMMA ScanTyped ==
  ASSUME NEW g \in Strings, NEW i \in 1 .. Len(g), NEW s \in ScanStates
  PROVE  Scan(g, s, i) \in ScanStates
<1>1. s.ok \in BOOLEAN /\ s.skip \in 0 .. 2 /\ s.out \in Strings /\ g[i] \in Octets
  BY StringFacts DEF ScanStates
<1>2. CASE ~s.ok
  BY <1>2, ScanCases
<1>3. CASE s.ok /\ s.skip > 0
  <2>1. s.skip - 1 \in 0 .. 2
    BY <1>1, <1>3
  <2>2. Scan(g, s, i) = [ok |-> TRUE, skip |-> s.skip - 1, out |-> s.out]
    BY <1>3, ScanCases
  <2> QED
    BY <1>1, <2>1, <2>2 DEF ScanStates
<1>4. CASE s.ok /\ s.skip = 0 /\ g[i] = Percent /\ Escape(g, i)
  <2>1. Append(s.out, EscapeValue(g, i)) \in Strings
    BY <1>1, <1>4, EscapeBytes, AppendByte
  <2>2. Scan(g, s, i) = [ok |-> TRUE, skip |-> 2, out |-> Append(s.out, EscapeValue(g, i))]
    BY <1>4, ScanCases
  <2> QED
    BY <2>1, <2>2 DEF ScanStates
<1>5. CASE s.ok /\ s.skip = 0 /\ Plain(g[i])
  <2>1. Append(s.out, g[i]) \in Strings
    BY <1>1, AppendByte
  <2>2. Scan(g, s, i) = [ok |-> TRUE, skip |-> 0, out |-> Append(s.out, g[i])]
    BY <1>5, ScanCases
  <2> QED
    BY <2>1, <2>2 DEF ScanStates
<1>6. CASE s.ok /\ s.skip = 0 /\ ~(g[i] = Percent /\ Escape(g, i)) /\ ~Plain(g[i])
  <2>1. Scan(g, s, i) = [ok |-> FALSE, skip |-> 0, out |-> s.out]
    BY <1>6, ScanCases
  <2> QED
    BY <1>1, <2>1 DEF ScanStates
<1> QED
  BY <1>1, <1>2, <1>3, <1>4, <1>5, <1>6

(* The states of the loop over a segment.                                  *)
Scans(g, h) ==
  /\ h \in [0 .. Len(g) -> ScanStates] /\ h[0] = Start
  /\ \A i \in 1 .. Len(g) : h[i] = Scan(g, h[i - 1], i)
  /\ DecodeSegment(g) = h[Len(g)]

(* The scan has a state after every byte.                                  *)
LEMMA ScanExists ==
  ASSUME NEW g \in Strings PROVE \E h : Scans(g, h)
<1> DEFINE n == Len(g)
           R(f) == [i \in 0 .. Len(g) |->
                      IF i = 0 THEN [ok |-> TRUE, skip |-> 0, out |-> <<>>] ELSE Scan(g, f[i - 1], i)]
           a == [i \in 1 .. n |-> [z \in ScanStates |-> Scan(g, z, i)]]
           h == CHOOSE f : f = R(f)
<1>1. n \in Nat
  BY StringFacts
<1>2. a \in [1 .. n -> [ScanStates -> ScanStates]]
  BY ScanTyped
<1>3. Start \in ScanStates
  BY EmptyString DEF Start, ScanStates
<1> HIDE DEF n
<1>4. PICK f \in [0 .. n -> ScanStates] : Iterates(f, n, Start, a)
  <2> HIDE DEF a
  <2> QED
    BY <1>1, <1>2, <1>3, Iteration
<1>5. ASSUME NEW i \in 1 .. n PROVE f[i] = Scan(g, f[i - 1], i)
  <2>1. f[i] = a[i][f[i - 1]] /\ i - 1 \in 0 .. n
    BY <1>1, <1>4 DEF Iterates
  <2>2. f[i - 1] \in ScanStates
    BY <2>1
  <2> QED
    BY <2>1, <2>2
<1>6. f[0] = Start
  BY <1>4 DEF Iterates
<1> HIDE DEF a
<1>7. f = R(f)
  <2>1. ASSUME NEW i \in 0 .. n PROVE f[i] = R(f)[i]
    <3>1. CASE i = 0
      BY <1>6, <3>1 DEF Start, n
    <3>2. CASE i # 0
      <4>1. i \in 1 .. n
        BY <1>1, <3>2
      <4> QED
        BY <1>5, <3>2, <4>1 DEF n
    <3> QED
      BY <3>1, <3>2
  <2>2. f = [i \in 0 .. n |-> f[i]]
    OBVIOUS
  <2>3. R(f) = [i \in 0 .. n |-> R(f)[i]]
    BY DEF n
  <2> HIDE DEF R
  <2> QED
    BY <2>1, <2>2, <2>3
<1>8. DecodeSegment(g) = h[n]
  BY Zenon DEF DecodeSegment, n
<1>9. h = R(h)
  BY <1>7, Zenon
<1> HIDE DEF h
<1> DEFINE A == {i \in 0 .. n : h[i] \in ScanStates}
<1>10. DOMAIN h = 0 .. n /\ h = [i \in 0 .. n |-> h[i]]
  BY <1>9 DEF n
<1>11. h[0] = Start
  <2>1. 0 \in 0 .. Len(g)
    BY <1>1 DEF n
  <2> QED
    BY <1>9, <2>1 DEF Start
<1>12. ASSUME NEW i \in 1 .. n PROVE h[i] = Scan(g, h[i - 1], i)
  <2>1. i \in 0 .. Len(g) /\ i # 0
    BY <1>1 DEF n
  <2> QED
    BY <1>9, <2>1
<1>13. 0 \in A
  BY <1>1, <1>3, <1>11
<1>14. ASSUME NEW i \in 1 .. n, i - 1 \in A PROVE i \in A
  <2>1. h[i - 1] \in ScanStates /\ i \in 0 .. n /\ i \in 1 .. Len(g)
    BY <1>14 DEF n
  <2> QED
    BY <1>12, <2>1, ScanTyped
<1> HIDE DEF A
<1>15. A = 0 .. n
  BY <1>1, <1>13, <1>14, Induction DEF A
<1>16. h \in [0 .. n -> ScanStates]
  BY <1>10, <1>15 DEF A
<1> QED
  BY <1>8, <1>11, <1>12, <1>16 DEF Scans, n

(* And each follows from the one before.                                   *)
LEMMA ScanStep ==
  ASSUME NEW g \in Strings, NEW h, Scans(g, h), NEW p \in Nat, p < Len(g)
  PROVE  p + 1 \in 1 .. Len(g) /\ h[p] \in ScanStates /\ h[p + 1] = Scan(g, h[p], p + 1)
<1>1. Len(g) \in Nat
  BY StringFacts
<1>2. p + 1 \in 1 .. Len(g) /\ (p + 1) - 1 = p /\ p \in 0 .. Len(g)
  BY <1>1
<1> QED
  BY <1>2 DEF Scans

(* A digit that an escape has used is skipped.                             *)
LEMMA ScanSkips ==
  ASSUME NEW g \in Strings, NEW i \in 1 .. Len(g), NEW z \in ScanStates, z.ok, z.skip > 0
  PROVE  Scan(g, z, i) = [ok |-> TRUE, skip |-> z.skip - 1, out |-> z.out]
BY ScanCases

(* An escape gives its byte.                                               *)
LEMMA ScanEscape ==
  ASSUME NEW g \in Strings, NEW i \in 1 .. Len(g), NEW z \in ScanStates, z.ok, z.skip = 0,
         g[i] = Percent, Escape(g, i)
  PROVE  Scan(g, z, i) = [ok |-> TRUE, skip |-> 2, out |-> Append(z.out, EscapeValue(g, i))]
BY ScanCases

Holds(g, p, r) == p + Len(r) <= Len(g) /\ \A j \in 1 .. Len(r) : g[p + j] = r[j]
Ready(z) == z.ok /\ z.skip = 0

(* Where a spelling of a byte starts, the scan finds that byte.            *)
LEMMA ReadByte ==
  ASSUME NEW g \in Strings, NEW h, Scans(g, h), NEW p \in Nat, NEW r \in Strings, NEW c \in Octets,
         ByteForm(r, c), Holds(g, p, r), Ready(h[p])
  PROVE  h[p + Len(r)] = [ok |-> TRUE, skip |-> 0, out |-> Append(h[p].out, c)]
<1>1. /\ Len(g) \in Nat /\ p + Len(r) <= Len(g) /\ h[p].ok /\ h[p].skip = 0
      /\ \A j \in 1 .. Len(r) : g[p + j] = r[j]
  BY StringFacts DEF Holds, Ready
<1>2. CASE Len(r) = 1 /\ r[1] = c /\ Literal(c)
  <2>1. p < Len(g) /\ 1 \in 1 .. Len(r) /\ g[p + 1] = c
    BY <1>1, <1>2
  <2>2. Plain(c)
    BY <1>2 DEF Plain, Literal
  <2>3. p + 1 \in 1 .. Len(g) /\ h[p] \in ScanStates /\ h[p + 1] = Scan(g, h[p], p + 1)
    BY <2>1, ScanStep
  <2>4. Scan(g, h[p], p + 1) = [ok |-> TRUE, skip |-> 0, out |-> Append(h[p].out, g[p + 1])]
    BY <1>1, <2>1, <2>2, <2>3, ScanCases, ZenonT(40)
  <2> QED
    BY <1>2, <2>1, <2>3, <2>4
<1>3. CASE /\ Len(r) = 3 /\ r[1] = Percent
           /\ Hex(r[2]) \in 0 .. 15 /\ Hex(r[3]) \in 0 .. 15 /\ c = 16 * Hex(r[2]) + Hex(r[3])
  <2>0. 1 \in 1 .. Len(r) /\ 2 \in 1 .. Len(r) /\ 3 \in 1 .. Len(r)
    BY <1>3
  <2>1. g[p + 1] = Percent /\ g[p + 2] = r[2] /\ g[p + 3] = r[3]
    BY <1>1, <1>3, <2>0
  <2>2. /\ p + 3 <= Len(g) /\ p < Len(g) /\ p + 1 < Len(g) /\ p + 2 < Len(g) /\ p + 1 \in Nat /\ p + 2 \in Nat
        /\ (p + 1) + 1 = p + 2 /\ (p + 2) + 1 = p + 3 /\ (p + 1) + 2 = p + 3 /\ Len(g) - (p + 1) >= 2
    BY <1>1, <1>3
  <2> DEFINE i == p + 1
             j == p + 2
             o == Append(h[p].out, c)
  <2>3. i \in Nat /\ i < Len(g) /\ j \in Nat /\ j < Len(g) /\ i + 1 = j /\ i + 2 = j + 1 /\ Len(g) - i >= 2
    BY <2>2
  <2>a. g[i] = Percent /\ g[i + 1] = r[2] /\ g[i + 2] = r[3]
    BY <2>1, <2>2
  <2>b. h[i + 1] = h[j] /\ h[j + 1] = h[p + 3] /\ h[p + 1] = h[i]
    BY <2>2
  <2> HIDE DEF i, j
  <2>c. Hex(g[i + 1]) >= 0 /\ Hex(g[i + 2]) >= 0
    BY <1>3, <2>a
  <2>d. Escape(g, i)
    BY <2>3, <2>c DEF Escape
  <2>4. EscapeValue(g, i) = c
    BY <1>3, <2>a DEF EscapeValue
  <2>5. h[i] = [ok |-> TRUE, skip |-> 2, out |-> o]
    <3>1. i \in 1 .. Len(g) /\ h[p] \in ScanStates /\ h[i] = Scan(g, h[p], i)
      BY <2>2, ScanStep DEF i
    <3>2. Scan(g, h[p], i) = [ok |-> TRUE, skip |-> 2, out |-> Append(h[p].out, EscapeValue(g, i))]
      BY <1>1, <2>a, <2>d, <3>1, ScanEscape
    <3> QED
      BY <2>4, <3>1, <3>2
  <2> HIDE DEF o
  <2>6. h[j] = [ok |-> TRUE, skip |-> 1, out |-> o]
    <3> DEFINE z == h[i]
    <3>1. i + 1 \in 1 .. Len(g) /\ z \in ScanStates /\ h[i + 1] = Scan(g, z, i + 1)
      BY <2>3, ScanStep
    <3>2. z.ok /\ z.skip = 2 /\ z.skip > 0 /\ z.skip - 1 = 1 /\ z.out = o
      BY <2>5
    <3> HIDE DEF z
    <3>3. Scan(g, z, i + 1) = [ok |-> TRUE, skip |-> z.skip - 1, out |-> z.out]
      BY <3>1, <3>2, ScanSkips
    <3> QED
      BY <2>b, <3>1, <3>2, <3>3
  <2>7. h[p + 3] = [ok |-> TRUE, skip |-> 0, out |-> o]
    <3> DEFINE z == h[j]
    <3>1. j + 1 \in 1 .. Len(g) /\ z \in ScanStates /\ h[j + 1] = Scan(g, z, j + 1)
      BY <2>3, ScanStep
    <3>2. z.ok /\ z.skip = 1 /\ z.skip > 0 /\ z.skip - 1 = 0 /\ z.out = o
      BY <2>6
    <3> HIDE DEF z
    <3>3. Scan(g, z, j + 1) = [ok |-> TRUE, skip |-> z.skip - 1, out |-> z.out]
      BY <3>1, <3>2, ScanSkips
    <3> QED
      BY <2>b, <3>1, <3>2, <3>3
  <2> QED
    BY <1>3, <2>7 DEF o
<1> QED
  BY <1>2, <1>3 DEF ByteForm

(* The spellings of a name are those of its bytes, one after the other.    *)
LEMMA SpellingSpans ==
  ASSUME NEW name \in Strings, NEW s
  PROVE  s \in NameSpellings(name) <=>
           \E P, x : Spans(s, Len(name), P, x) /\ \A k \in 1 .. Len(name) : x[k] \in ByteSpellings(name[k])
<1> DEFINE n == Len(name)
           sets == [i \in DOMAIN name |-> ByteSpellings(name[i])]
<1>1. n \in Nat /\ DOMAIN name = 1 .. n /\ \A k \in 1 .. n : name[k] \in Octets
  BY StringFacts
<1>2. \A k \in 1 .. n : ByteSpellings(name[k]) \in SUBSET Strings
  BY <1>1, SpellingForm
<1>3. sets \in [1 .. n -> SUBSET Strings] /\ \A k \in 1 .. n : sets[k] = ByteSpellings(name[k])
  BY <1>1, <1>2
<1>4. NameSpellings(name) = JoinAll(sets)
  BY DEF NameSpellings
<1> HIDE DEF n, sets
<1>5. s \in JoinAll(sets) <=> \E P, x : Spans(s, n, P, x) /\ \A k \in 1 .. n : x[k] \in sets[k]
  BY <1>1, <1>3, JoinAllSpans
<1> QED
  BY <1>3, <1>4, <1>5 DEF n

(* Every spelling of a name decodes to that name.                          *)
LEMMA DecodeSpelling ==
  ASSUME NEW name \in Strings, NEW s \in NameSpellings(name)
  PROVE  /\ s \in Strings /\ DecodeSegment(s).ok /\ DecodeSegment(s).out = name
         /\ \A i \in 1 .. Len(s) : Harmless(s[i])
<1> DEFINE n == Len(name)
<1>1. n \in Nat /\ \A k \in 1 .. n : name[k] \in Octets
  BY StringFacts
<1>2. PICK P, x : Spans(s, n, P, x) /\ \A k \in 1 .. n : x[k] \in ByteSpellings(name[k])
  BY SpellingSpans
<1> HIDE DEF n
<1>3. s \in Strings /\ Len(s) \in Nat /\ P[0] = 0 /\ P[n] = Len(s)
  BY <1>2, StringFacts DEF Spans
<1>4. PICK h : Scans(s, h)
  BY <1>3, ScanExists
<1>5. ASSUME NEW k \in 1 .. n
      PROVE  /\ x[k] \in Strings /\ Len(x[k]) \in Nat /\ ByteForm(x[k], name[k]) /\ name[k] \in Octets
             /\ P[k - 1] \in Nat /\ P[k] = P[k - 1] + Len(x[k]) /\ P[k] \in Nat /\ P[k] <= Len(s)
             /\ \A j \in 1 .. Len(x[k]) : s[P[k - 1] + j] = x[k][j]
  <2>1. name[k] \in Octets /\ x[k] \in ByteSpellings(name[k]) /\ k \in 0 .. n
    BY <1>1, <1>2
  <2>2. x[k] \in Strings /\ ByteForm(x[k], name[k])
    BY <2>1, SpellingForm
  <2>3. P[k] \in Nat /\ P[k] <= Len(s) /\ P[k - 1] \in Nat /\ P[k] = P[k - 1] + Len(x[k]) /\ Len(x[k]) \in Nat
    BY <1>1, <1>2, <2>1, SpanPlaces
  <2>4. \A j \in 1 .. Len(x[k]) : s[P[k - 1] + j] = x[k][j]
    BY <1>2 DEF Spans
  <2> QED
    BY <2>1, <2>2, <2>3, <2>4
<1> DEFINE Read(z, k) == /\ z.ok /\ z.skip = 0 /\ z.out \in Strings /\ Len(z.out) = k
                         /\ \A j \in 1 .. k : z.out[j] = name[j]
           A == {k \in 0 .. n : Read(h[P[k]], k)}
<1>6. 0 \in A
  BY <1>1, <1>3, <1>4, EmptyString DEF Scans, Start
<1>7. ASSUME NEW k \in 1 .. n, k - 1 \in A PROVE k \in A
  <2> DEFINE p == P[k - 1]
             r == x[k]
             c == name[k]
             o == h[p].out
  <2>1. /\ h[p].ok /\ h[p].skip = 0 /\ o \in Strings /\ Len(o) = k - 1
        /\ \A j \in 1 .. k - 1 : o[j] = name[j]
    BY <1>7
  <2>2. /\ r \in Strings /\ ByteForm(r, c) /\ c \in Octets /\ p \in Nat /\ P[k] = p + Len(r)
        /\ p + Len(r) <= Len(s) /\ \A j \in 1 .. Len(r) : s[p + j] = r[j]
    BY <1>5
  <2> HIDE DEF p, r, o
  <2>3. h[p + Len(r)] = [ok |-> TRUE, skip |-> 0, out |-> Append(h[p].out, c)]
    <3>1. Holds(s, p, r) /\ Ready(h[p])
      BY <2>1, <2>2 DEF Holds, Ready
    <3>2. r \in Strings /\ ByteForm(r, c) /\ c \in Octets /\ p \in Nat
      BY <2>2
    <3> HIDE DEF c, A
    <3> QED
      BY <1>3, <1>4, <3>1, <3>2, ReadByte
  <2>4. h[P[k]] = [ok |-> TRUE, skip |-> 0, out |-> Append(o, c)]
    BY <2>2, <2>3 DEF o
  <2> DEFINE a == Append(o, c)
  <2>5. /\ a \in Strings /\ Len(a) = Len(o) + 1 /\ (\A j \in 1 .. Len(o) : a[j] = o[j]) /\ a[Len(o) + 1] = c
    <3> HIDE DEF c
    <3> QED
      BY <2>1, <2>2, AppendByte, ZenonT(40)
  <2> HIDE DEF a
  <2>6. Len(a) = k /\ a[k] = c /\ \A j \in 1 .. k - 1 : a[j] = name[j]
    BY <2>1, <2>5
  <2>7. \A j \in 1 .. k : a[j] = name[j]
    BY <2>6
  <2>8. Read(h[P[k]], k)
    <3>1. h[P[k]].ok /\ h[P[k]].skip = 0 /\ h[P[k]].out = a
      BY <2>4 DEF a
    <3> QED
      BY <2>5, <2>6, <2>7, <3>1
  <2> QED
    BY <2>8
<1> HIDE DEF A
<1>8. A = 0 .. n
  BY <1>1, <1>6, <1>7, Induction DEF A
<1>9. n \in A
  BY <1>1, <1>8
<1>10. Read(h[P[n]], n)
  BY <1>9 DEF A
<1>11. DecodeSegment(s) = h[P[n]]
  BY <1>3, <1>4 DEF Scans
<1>12. DecodeSegment(s).ok /\ DecodeSegment(s).out = name
  <2>1. h[P[n]].out \in Strings /\ Len(h[P[n]].out) = Len(name) /\ \A j \in 1 .. Len(h[P[n]].out) : h[P[n]].out[j] = name[j]
    BY <1>10 DEF n
  <2> QED
    BY <1>10, <1>11, <2>1, SameString
<1>13. ASSUME NEW i \in 1 .. Len(s) PROVE Harmless(s[i])
  <2>1. PICK k \in 1 .. n : \E j \in 1 .. Len(x[k]) : i = P[k - 1] + j
    BY <1>1, <1>2, SpanCovers
  <2>2. PICK j \in 1 .. Len(x[k]) : i = P[k - 1] + j
    BY <2>1
  <2>3. s[i] = x[k][j] /\ x[k] \in Strings /\ ByteForm(x[k], name[k]) /\ name[k] \in Octets
    BY <1>5, <2>2
  <2> QED
    BY <2>3, FormHarmless
<1> QED
  BY <1>3, <1>12, <1>13

(* The first p bytes.                                                      *)
LEMMA PrefixOf ==
  ASSUME NEW g \in Strings, NEW p \in Nat, p <= Len(g)
  PROVE  /\ SubSeq(g, 1, p) \in Strings /\ Len(SubSeq(g, 1, p)) = p
         /\ \A j \in 1 .. p : SubSeq(g, 1, p)[j] = g[j]
<1>1. /\ SubSeq(g, 0 + 1, p) \in Strings /\ Len(SubSeq(g, 0 + 1, p)) = p - 0
      /\ \A j \in 1 .. p - 0 : SubSeq(g, 0 + 1, p)[j] = g[0 + j]
  BY Substring
<1> QED
  BY <1>1

(* A string that follows a prefix extends it.                              *)
LEMMA PrefixMore ==
  ASSUME NEW g \in Strings, NEW p \in Nat, NEW r \in Strings, Holds(g, p, r)
  PROVE  SubSeq(g, 1, p + Len(r)) = SubSeq(g, 1, p) \o r
<1> DEFINE l == Len(r)
           q == p + l
           a == SubSeq(g, 1, p)
           b == SubSeq(g, 1, q)
           c == a \o r
<1>1. Len(g) \in Nat /\ l \in Nat /\ q \in Nat /\ q <= Len(g) /\ p <= Len(g)
  BY StringFacts DEF Holds
<1>2. \A j \in 1 .. l : g[p + j] = r[j]
  BY DEF Holds
<1>3. a \in Strings /\ Len(a) = p /\ \A j \in 1 .. p : a[j] = g[j]
  BY <1>1, PrefixOf
<1>4. b \in Strings /\ Len(b) = q /\ \A j \in 1 .. q : b[j] = g[j]
  <2> HIDE DEF q
  <2> QED
    BY <1>1, PrefixOf
<1> HIDE DEF a, b
<1>5. /\ c \in Strings /\ Len(c) = Len(a) + Len(r)
      /\ \A i \in 1 .. Len(a) : c[i] = a[i]
      /\ \A j \in 1 .. Len(r) : c[Len(a) + j] = r[j]
  BY <1>3, Concatenation
<1> HIDE DEF c, l
<1>6. Len(c) = q /\ (\A i \in 1 .. p : c[i] = a[i]) /\ \A j \in 1 .. l : c[p + j] = r[j]
  BY <1>3, <1>5 DEF l
<1>7. ASSUME NEW i \in 1 .. q PROVE b[i] = c[i]
  <2>1. CASE i <= p
    <3>1. i \in 1 .. p /\ i \in 1 .. q
      BY <1>1, <2>1
    <3> QED
      BY <1>3, <1>4, <1>6, <3>1
  <2>2. CASE ~(i <= p)
    <3>1. i - p \in 1 .. l /\ p + (i - p) = i
      BY <1>1, <2>2
    <3>2. b[i] = g[p + (i - p)] /\ g[p + (i - p)] = r[i - p] /\ c[p + (i - p)] = r[i - p]
      <4>1. b[i] = g[i] /\ g[p + (i - p)] = r[i - p] /\ c[p + (i - p)] = r[i - p]
        BY <1>2, <1>4, <1>6, <3>1
      <4> QED
        BY <3>1, <4>1
    <3> QED
      BY <3>1, <3>2
  <2> QED
    BY <2>1, <2>2
<1>8. b = c
  BY <1>4, <1>5, <1>6, <1>7, SameString
<1> QED
  BY <1>8 DEF a, b, c, l

(* The empty name is spelled by nothing.                                   *)
LEMMA SpellNothing == <<>> \in NameSpellings(<<>>)
<1> DEFINE P == [k \in 0 .. 0 |-> 0]
           x == [k \in 1 .. 0 |-> <<>>]
           e == <<>>
<1>1. Spans(e, 0, P, x)
  BY SpanEmpty
<1>2. e \in Strings /\ Len(e) = 0
  BY EmptyString
<1> HIDE DEF P, x, e
<1>3. \A k \in 1 .. Len(e) : x[k] \in ByteSpellings(e[k])
  BY <1>2
<1>4. e \in NameSpellings(e)
  BY <1>1, <1>2, <1>3, SpellingSpans
<1> QED
  BY <1>4 DEF e

(* A spelling of a name and of one byte more.                              *)
LEMMA SpellMore ==
  ASSUME NEW m \in Strings, NEW z \in NameSpellings(m), NEW c \in Octets, NEW r \in ByteSpellings(c)
  PROVE  z \o r \in NameSpellings(Append(m, c))
<1> DEFINE n == Len(m)
           a == Append(m, c)
<1>1. PICK P, x : Spans(z, n, P, x) /\ \A k \in 1 .. n : x[k] \in ByteSpellings(m[k])
  BY SpellingSpans
<1>2. n \in Nat /\ r \in Strings
  BY StringFacts, SpellingForm
<1>3. a \in Strings /\ Len(a) = n + 1 /\ (\A k \in 1 .. n : a[k] = m[k]) /\ a[n + 1] = c
  BY AppendByte
<1> HIDE DEF n, a
<1>4. PICK Q, y : Spans(z \o r, n + 1, Q, y) /\ (\A k \in 1 .. n : y[k] = x[k]) /\ y[n + 1] = r
  BY <1>1, <1>2, SpanExtend
<1>5. ASSUME NEW k \in 1 .. n + 1 PROVE y[k] \in ByteSpellings(a[k])
  <2>1. k = n + 1 \/ k \in 1 .. n
    BY <1>2
  <2> QED
    BY <1>1, <1>3, <1>4, <2>1
<1>6. z \o r \in NameSpellings(a)
  BY <1>3, <1>4, <1>5, SpellingSpans
<1> QED
  BY <1>6 DEF a

(* A segment that decodes spells what it decodes to.                       *)
LEMMA DecodedSpelling ==
  ASSUME NEW g \in Strings, \A i \in 1 .. Len(g) : Harmless(g[i]), DecodeSegment(g).ok
  PROVE  DecodeSegment(g).out \in Strings /\ g \in NameSpellings(DecodeSegment(g).out)
<1> DEFINE n == Len(g)
<1>1. n \in Nat /\ \A i \in 1 .. n : g[i] \in Octets
  BY StringFacts
<1>2. PICK h : Scans(g, h)
  BY ScanExists
<1>3. h[0] = Start /\ DecodeSegment(g) = h[n] /\ \A i \in 0 .. n : h[i] \in ScanStates
  BY <1>2 DEF Scans
<1> DEFINE Spelt(p, z) == z.ok => p + z.skip <= n /\ SubSeq(g, 1, p + z.skip) \in NameSpellings(z.out)
           A == {p \in 0 .. n : Spelt(p, h[p])}
<1>4. 0 \in A
  <2>1. SubSeq(g, 1, 0) \in Strings /\ Len(SubSeq(g, 1, 0)) = 0
    BY <1>1, PrefixOf
  <2>2. SubSeq(g, 1, 0) = <<>>
    BY <2>1, EmptyString
  <2>3. h[0].skip = 0 /\ h[0].out = <<>>
    BY <1>3 DEF Start
  <2>4. Spelt(0, h[0])
    <3>1. 0 + h[0].skip = 0 /\ 0 <= n
      BY <1>1, <2>3
    <3> QED
      BY <2>2, <2>3, <3>1, SpellNothing
  <2> QED
    BY <1>1, <2>4
<1>5. ASSUME NEW i \in 1 .. n, i - 1 \in A PROVE i \in A
  <2> DEFINE p == i - 1
             z == h[p]
             w == h[i]
  <2>1. p \in Nat /\ p < n /\ p + 1 = i /\ p \in 0 .. n /\ i \in 0 .. n
    BY <1>1
  <2>2. Spelt(p, z)
    BY <1>5
  <2> HIDE DEF A
  <2>3. z \in ScanStates /\ w = Scan(g, z, i)
    <3>1. z \in ScanStates /\ h[p + 1] = Scan(g, z, p + 1)
      <4> HIDE DEF p
      <4> QED
        BY <1>2, <2>1, ScanStep
    <3> QED
      BY <2>1, <3>1
  <2>4. z.ok \in BOOLEAN /\ z.skip \in 0 .. 2 /\ z.out \in Strings
    BY <2>3 DEF ScanStates
  <2>5. g[i] \in Octets /\ Harmless(g[i])
    BY <1>1
  <2> HIDE DEF p, z, w
  <2>6. CASE ~z.ok
    <3>1. w = z
      BY <2>3, <2>6, ScanCases
    <3> QED
      BY <2>1, <2>6, <3>1 DEF A, w
  <2>7. CASE z.ok /\ z.skip > 0
    <3>1. w = [ok |-> TRUE, skip |-> z.skip - 1, out |-> z.out]
      BY <2>3, <2>7, ScanSkips
    <3>2. w.skip = z.skip - 1 /\ w.out = z.out
      BY <3>1
    <3>3. i + w.skip = p + z.skip
      BY <2>1, <2>4, <3>2
    <3>4. Spelt(i, w)
      BY <2>2, <2>7, <3>2, <3>3
    <3> QED
      BY <2>1, <3>4 DEF A, w
  <2>8. CASE z.ok /\ z.skip = 0
    <3>1. p + z.skip = p /\ SubSeq(g, 1, p) \in NameSpellings(z.out)
      BY <2>1, <2>2, <2>8
    <3>2. CASE g[i] = Percent /\ Escape(g, i)
      <4> DEFINE v == EscapeValue(g, i)
                 r == <<Percent, g[i + 1], g[i + 2]>>
      <4>1. w = [ok |-> TRUE, skip |-> 2, out |-> Append(z.out, v)]
        BY <2>3, <2>8, <3>2, ScanEscape
      <4>2. /\ i + 2 \in 1 .. n /\ g[i + 1] \in Octets /\ g[i + 2] \in Octets
            /\ Hex(g[i + 1]) >= 0 /\ Hex(g[i + 2]) >= 0
        BY <3>2, EscapeBytes
      <4>3. v \in Octets /\ r \in ByteSpellings(v)
        BY <4>2, EscapeSpelling DEF EscapeValue
      <4>4. r \in Strings /\ Len(r) = 3 /\ r[1] = Percent /\ r[2] = g[i + 1] /\ r[3] = g[i + 2]
        BY <4>2, PercentOctet, ShortStrings
      <4> HIDE DEF v, r
      <4>5. Holds(g, p, r)
        <5>1. p + 3 <= n /\ p + 1 = i /\ p + 2 = i + 1 /\ p + 3 = i + 2
          BY <2>1, <4>2
        <5>2. ASSUME NEW j \in 1 .. 3 PROVE g[p + j] = r[j]
          <6>1. j = 1 \/ j = 2 \/ j = 3
            OBVIOUS
          <6> QED
            BY <3>2, <4>4, <5>1, <6>1
        <5> QED
          BY <4>4, <5>1, <5>2 DEF Holds, n
      <4>6. SubSeq(g, 1, p + Len(r)) = SubSeq(g, 1, p) \o r
        BY <2>1, <4>4, <4>5, PrefixMore
      <4>7. SubSeq(g, 1, p) \o r \in NameSpellings(Append(z.out, v))
        BY <2>4, <3>1, <4>3, SpellMore
      <4>8. w.skip = 2 /\ w.out = Append(z.out, v) /\ i + w.skip = p + Len(r) /\ i + w.skip <= n
        <5>1. w.skip = 2 /\ w.out = Append(z.out, v)
          BY <4>1
        <5> QED
          BY <2>1, <4>2, <4>4, <5>1
      <4>9. Spelt(i, w)
        BY <4>6, <4>7, <4>8
      <4> QED
        BY <2>1, <4>9 DEF A, w
    <3>3. CASE Plain(g[i])
      <4> DEFINE c == g[i]
                 r == <<c>>
      <4>1. w = [ok |-> TRUE, skip |-> 0, out |-> Append(z.out, c)]
        BY <2>3, <2>8, <3>3, ScanCases
      <4>2. Literal(c)
        BY <2>5, <3>3 DEF Harmless, Plain, Literal
      <4>3. r \in ByteSpellings(c) /\ c \in Octets
        BY <2>5, <4>2, LiteralSpelling
      <4>4. r \in Strings /\ Len(r) = 1 /\ r[1] = g[i]
        BY <2>5, ShortStrings
      <4>5. c = g[i]
        OBVIOUS
      <4> HIDE DEF c, r
      <4>6. Holds(g, p, r)
        <5>1. ASSUME NEW j \in 1 .. 1 PROVE g[p + j] = r[j]
          <6>1. j = 1
            OBVIOUS
          <6> QED
            BY <2>1, <4>4, <6>1
        <5> QED
          BY <2>1, <4>4, <5>1 DEF Holds, n
      <4>7. SubSeq(g, 1, p + Len(r)) = SubSeq(g, 1, p) \o r
        BY <2>1, <4>4, <4>6, PrefixMore
      <4>8. SubSeq(g, 1, p) \o r \in NameSpellings(Append(z.out, c))
        BY <2>4, <3>1, <4>3, SpellMore
      <4>9. w.skip = 0 /\ w.out = Append(z.out, c) /\ i + w.skip = p + Len(r) /\ i + w.skip <= n
        <5>1. w.skip = 0 /\ w.out = Append(z.out, c)
          BY <4>1
        <5> QED
          BY <2>1, <4>4, <5>1
      <4>10. Spelt(i, w)
        BY <4>7, <4>8, <4>9
      <4> QED
        BY <2>1, <4>10 DEF A, w
    <3>4. CASE ~(g[i] = Percent /\ Escape(g, i)) /\ ~Plain(g[i])
      <4>1. w = [ok |-> FALSE, skip |-> 0, out |-> z.out]
        BY <2>3, <2>8, <3>4, ScanCases
      <4>2. ~w.ok
        BY <4>1
      <4> QED
        BY <2>1, <4>2 DEF A, w
    <3> QED
      BY <3>2, <3>3, <3>4
  <2> QED
    BY <2>4, <2>6, <2>7, <2>8
<1> HIDE DEF A
<1>6. A = 0 .. n
  BY <1>1, <1>4, <1>5, Induction DEF A
<1>7. Spelt(n, h[n]) /\ h[n] \in ScanStates
  BY <1>1, <1>3, <1>6 DEF A
<1>8. h[n].skip \in 0 .. 2 /\ h[n].out \in Strings
  BY <1>7 DEF ScanStates
<1>9. n + h[n].skip <= n /\ SubSeq(g, 1, n + h[n].skip) \in NameSpellings(h[n].out)
  BY <1>3, <1>7
<1>10. n + h[n].skip = n
  BY <1>1, <1>8, <1>9
<1>11. SubSeq(g, 1, n) = g
  <2>1. SubSeq(g, 1, n) \in Strings /\ Len(SubSeq(g, 1, n)) = n /\ \A j \in 1 .. n : SubSeq(g, 1, n)[j] = g[j]
    BY <1>1, PrefixOf
  <2> QED
    BY <2>1, SameString
<1> QED
  BY <1>3, <1>8, <1>9, <1>10, <1>11

(* The escapes of encodeSegment are one spelling.                          *)
LEMMA EncodedSpelling ==
  ASSUME NEW name \in Strings
  PROVE  EncodeSegment(name) \in NameSpellings(name)
<1> DEFINE n == Len(name)
           q == [i \in DOMAIN name |-> EncodeByte(name[i])]
<1>1. n \in Nat /\ DOMAIN name = 1 .. n /\ \A k \in 1 .. n : name[k] \in Octets
  BY StringFacts
<1>2. q \in [1 .. n -> Strings] /\ \A k \in 1 .. n : q[k] \in ByteSpellings(name[k])
  BY <1>1, EncodedByte
<1>3. EncodeSegment(name) = FlattenSeq(q)
  BY DEF EncodeSegment
<1> HIDE DEF n, q
<1>4. PICK P : Spans(FlattenSeq(q), n, P, q)
  BY <1>1, <1>2, FlattenSpans
<1> QED
  BY <1>2, <1>3, <1>4, SpellingSpans DEF n

----------------------------------------------------------------------------
(* Paths and their spellings.                                              *)

Route(ns) == FlattenSeq([k \in DOMAIN ns |-> <<Slash>> \o EncodeSegment(ns[k])])

(* The segments of s spell the names.                                      *)
SegmentsSpell(n, s, ns) ==
  Segments(s) \in [1 .. n -> Strings] /\ \A k \in 1 .. n : Segments(s)[k] \in NameSpellings(ns[k])

Searchable(c) == c \in Octets /\ c \notin {Question, Hash}

(* Spellings are those of the names, each after a slash.                   *)
LEMMA SpellingSets ==
  ASSUME NEW n \in Nat, NEW ns \in [1 .. n -> Strings], NEW s
  PROVE  s \in Spellings(ns) <=>
           \E P, y : Spans(s, n, P, y) /\ \A k \in 1 .. n : y[k] \in Joined({<<Slash>>}, NameSpellings(ns[k]))
<1> DEFINE J(k) == Joined({<<Slash>>}, NameSpellings(ns[k]))
           sets == [k \in DOMAIN ns |-> J(k)]
<1>1. ASSUME NEW k \in 1 .. n PROVE J(k) \in SUBSET Strings
  <2>1. ns[k] \in Strings
    OBVIOUS
  <2>2. NameSpellings(ns[k]) \in SUBSET Strings
    BY <2>1, DecodeSpelling
  <2>3. {<<Slash>>} \in SUBSET Strings
    BY PercentOctet, ShortStrings
  <2> QED
    BY <2>2, <2>3, JoinedStrings
<1>2. sets \in [1 .. n -> SUBSET Strings] /\ \A k \in 1 .. n : sets[k] = J(k)
  BY <1>1
<1>3. Spellings(ns) = JoinAll(sets)
  BY DEF Spellings
<1> HIDE DEF sets, J
<1>4. s \in JoinAll(sets) <=> \E P, y : Spans(s, n, P, y) /\ \A k \in 1 .. n : y[k] \in sets[k]
  BY <1>2, JoinAllSpans
<1>5. s \in Spellings(ns) <=> \E P, y : Spans(s, n, P, y) /\ \A k \in 1 .. n : y[k] \in J(k)
  BY <1>2, <1>3, <1>4
<1> QED
  BY <1>5, Zenon DEF J

(* The segments of a spelling of a path are spellings of its names.        *)
LEMMA SpelledSegments ==
  ASSUME NEW n \in Nat, NEW ns \in [1 .. n -> Strings], NEW s \in Spellings(ns)
  PROVE  /\ s \in Strings /\ SegmentsSpell(n, s, ns)
         /\ \A i \in 1 .. Len(s) : Searchable(s[i])
         /\ n > 0 => Len(s) > 0 /\ s[1] = Slash
<1>1. PICK P, y : Spans(s, n, P, y) /\ \A k \in 1 .. n : y[k] \in Joined({<<Slash>>}, NameSpellings(ns[k]))
  BY SpellingSets
<1>2. \A k \in 1 .. n : \E r \in NameSpellings(ns[k]) : y[k] = <<Slash>> \o r
  <2> TAKE k \in 1 .. n
  <2> DEFINE R == NameSpellings(ns[k])
             a == <<Slash>>
  <2>1. y[k] \in Joined({a}, R)
    BY <1>1
  <2> HIDE DEF R, a
  <2>2. \E r \in R : y[k] = a \o r
    BY <2>1 DEF Joined
  <2> QED
    BY <2>2 DEF R, a
<1> DEFINE x == [k \in 1 .. n |-> CHOOSE r \in NameSpellings(ns[k]) : y[k] = <<Slash>> \o r]
<1>3. \A k \in 1 .. n : x[k] \in NameSpellings(ns[k]) /\ y[k] = <<Slash>> \o x[k]
  BY <1>2
<1>a. DOMAIN x = 1 .. n /\ x = [k \in 1 .. n |-> x[k]]
  OBVIOUS
<1> HIDE DEF x
<1>4. ASSUME NEW k \in 1 .. n PROVE x[k] \in Strings /\ \A i \in 1 .. Len(x[k]) : Harmless(x[k][i])
  <2>1. ns[k] \in Strings /\ x[k] \in NameSpellings(ns[k])
    BY <1>3
  <2> QED
    BY <2>1, DecodeSpelling
<1>5. x \in [1 .. n -> Strings]
  BY <1>4, <1>a
<1>6. Pieces(n, y, x)
  BY <1>3, <1>4 DEF Pieces, Without, Harmless
<1>7. Segments(s) = x
  BY <1>1, <1>5, <1>6, SegmentsOfSpan
<1>8. s \in Strings /\ P[0] = 0
  BY <1>1 DEF Spans
<1>9. ASSUME NEW i \in 1 .. Len(s) PROVE Searchable(s[i])
  <2>1. PICK k \in 1 .. n : \E j \in 1 .. Len(y[k]) : i = P[k - 1] + j
    BY <1>1, SpanCovers
  <2>2. PICK j \in 1 .. Len(y[k]) : i = P[k - 1] + j
    BY <2>1
  <2>3. s[i] = y[k][j]
    BY <1>1, <2>2 DEF Spans
  <2>4. /\ y[k] = <<Slash>> \o x[k] /\ x[k] \in Strings /\ Len(x[k]) \in Nat
        /\ \A m \in 1 .. Len(x[k]) : Harmless(x[k][m])
    BY <1>3, <1>4, StringFacts
  <2>5. /\ Len(y[k]) = Len(x[k]) + 1 /\ y[k][1] = Slash
        /\ \A m \in 1 .. Len(x[k]) : y[k][m + 1] = x[k][m]
    BY <2>4, AfterSlash
  <2>6. CASE j = 1
    BY <2>3, <2>5, <2>6, PercentOctet DEF Searchable, Slash, Question, Hash
  <2>7. CASE j # 1
    <3>1. j - 1 \in 1 .. Len(x[k]) /\ (j - 1) + 1 = j
      BY <2>4, <2>5, <2>7
    <3>2. y[k][(j - 1) + 1] = x[k][j - 1] /\ Harmless(x[k][j - 1])
      BY <2>4, <2>5, <3>1
    <3> QED
      BY <2>3, <3>1, <3>2 DEF Harmless, Searchable
  <2> QED
    BY <2>6, <2>7
<1>10. ASSUME n > 0 PROVE Len(s) > 0 /\ s[1] = Slash
  <2>1. 1 \in 1 .. n /\ 1 \in 0 .. n
    BY <1>10
  <2>2. y[1] = <<Slash>> \o x[1] /\ x[1] \in Strings /\ Len(x[1]) \in Nat
    BY <1>3, <1>4, <2>1, StringFacts
  <2>3. Len(y[1]) = Len(x[1]) + 1 /\ y[1][1] = Slash
    BY <2>2, AfterSlash
  <2>4. 1 \in 1 .. Len(y[1])
    BY <2>2, <2>3
  <2>5. P[1] = P[1 - 1] + Len(y[1]) /\ s[P[1 - 1] + 1] = y[1][1]
    BY <1>1, <2>1, <2>4 DEF Spans
  <2>6. 1 - 1 = 0 /\ 0 + 1 = 1
    OBVIOUS
  <2>7. s[1] = Slash /\ P[1] = Len(y[1])
    BY <1>8, <2>2, <2>3, <2>5, <2>6
  <2>8. P[1] <= Len(s) /\ Len(s) \in Nat
    BY <1>1, <1>8, <2>1, SpanPlaces, StringFacts
  <2> QED
    BY <2>2, <2>3, <2>7, <2>8
<1> QED
  BY <1>3, <1>5, <1>7, <1>8, <1>9, <1>10 DEF SegmentsSpell

(* A path whose segments spell the names is one of their spellings.        *)
LEMMA SegmentsSpelled ==
  ASSUME NEW n \in Nat, NEW ns \in [1 .. n -> Strings], NEW s \in Strings, s # <<>>, s[1] = Slash,
         SegmentsSpell(n, s, ns)
  PROVE  s \in Spellings(ns)
<1> DEFINE x == Segments(s)
<1>0. PICK m \in Nat :
           \E P, y : m > 0 /\ Spans(s, m, P, y) /\ x \in [1 .. m -> Strings] /\ Pieces(m, y, x)
  BY SegmentsSpan
<1>1. PICK P, y : m > 0 /\ Spans(s, m, P, y) /\ x \in [1 .. m -> Strings] /\ Pieces(m, y, x)
  BY <1>0
<1>2. x \in [1 .. n -> Strings] /\ \A k \in 1 .. n : x[k] \in NameSpellings(ns[k])
  BY DEF SegmentsSpell
<1> HIDE DEF x
<1>3. m = n
  <2>1. 1 .. m = 1 .. n
    BY <1>1, <1>2
  <2>2. m \in 1 .. m
    BY <1>1
  <2>3. m \in 1 .. n /\ n \in 1 .. m
    BY <2>1, <2>2
  <2> QED
    BY <2>3
<1>4. ASSUME NEW k \in 1 .. n PROVE y[k] \in Joined({<<Slash>>}, NameSpellings(ns[k]))
  <2>1. y[k] = <<Slash>> \o x[k] /\ x[k] \in NameSpellings(ns[k])
    BY <1>1, <1>2, <1>3 DEF Pieces
  <2> QED
    BY <2>1, JoinedMember
<1>5. Spans(s, n, P, y)
  BY <1>1, <1>3
<1> QED
  BY <1>4, <1>5, SpellingSets

(* A route is the encoded names, each after a slash.                       *)
LEMMA RouteSpans ==
  ASSUME NEW n \in Nat, NEW ns \in [1 .. n -> Strings]
  PROVE  \E P, y : /\ Spans(Route(ns), n, P, y)
                   /\ \A k \in 1 .. n : y[k] = <<Slash>> \o EncodeSegment(ns[k])
<1> DEFINE y == [k \in DOMAIN ns |-> <<Slash>> \o EncodeSegment(ns[k])]
<1>1. ASSUME NEW k \in 1 .. n PROVE <<Slash>> \o EncodeSegment(ns[k]) \in Strings
  <2>1. ns[k] \in Strings
    OBVIOUS
  <2>2. EncodeSegment(ns[k]) \in Strings
    BY <2>1, EncodedSpelling, DecodeSpelling
  <2> QED
    BY <2>2, AfterSlash
<1>2. y \in [1 .. n -> Strings] /\ \A k \in 1 .. n : y[k] = <<Slash>> \o EncodeSegment(ns[k])
  BY <1>1
<1>3. Route(ns) = FlattenSeq(y)
  BY DEF Route
<1> HIDE DEF y
<1>4. PICK P : Spans(FlattenSeq(y), n, P, y)
  BY <1>2, FlattenSpans
<1> QED
  BY <1>2, <1>3, <1>4

(* A route is a spelling of its names.                                     *)
LEMMA RouteSpelling ==
  ASSUME NEW n \in Nat, NEW ns \in [1 .. n -> Strings]
  PROVE  Route(ns) \in Spellings(ns)
<1>1. PICK P, y : Spans(Route(ns), n, P, y) /\ \A k \in 1 .. n : y[k] = <<Slash>> \o EncodeSegment(ns[k])
  BY RouteSpans
<1>2. ASSUME NEW k \in 1 .. n PROVE y[k] \in Joined({<<Slash>>}, NameSpellings(ns[k]))
  <2>1. ns[k] \in Strings
    OBVIOUS
  <2>2. EncodeSegment(ns[k]) \in NameSpellings(ns[k])
    BY <2>1, EncodedSpelling
  <2> QED
    BY <1>1, <2>2, JoinedMember
<1> QED
  BY <1>1, <1>2, SpellingSets

(* No two paths of names share a route.                                    *)
LEMMA RouteInjective ==
  ASSUME NEW n \in Nat \ {0}, NEW ns \in [1 .. n -> Strings],
         NEW m \in Nat \ {0}, NEW ms \in [1 .. m -> Strings], Route(ns) = Route(ms)
  PROVE  n = m /\ ns = ms
<1> DEFINE s == Route(ns)
           x == Segments(s)
<1>1. SegmentsSpell(n, s, ns)
  BY RouteSpelling, SpelledSegments
<1>2. SegmentsSpell(m, s, ms)
  BY RouteSpelling, SpelledSegments
<1>3. x \in [1 .. n -> Strings] /\ x \in [1 .. m -> Strings]
  BY <1>1, <1>2 DEF SegmentsSpell
<1>4. n = m
  <2>1. 1 .. m = 1 .. n
    BY <1>3
  <2>2. m \in 1 .. m /\ n \in 1 .. n
    OBVIOUS
  <2>3. m \in 1 .. n /\ n \in 1 .. m
    BY <2>1, <2>2
  <2> QED
    BY <2>3
<1>5. ASSUME NEW k \in 1 .. n PROVE ns[k] = ms[k]
  <2>1. x[k] \in NameSpellings(ns[k]) /\ x[k] \in NameSpellings(ms[k]) /\ ns[k] \in Strings /\ ms[k] \in Strings
    BY <1>1, <1>2, <1>4 DEF SegmentsSpell
  <2> HIDE DEF x
  <2>2. DecodeSegment(x[k]).out = ns[k] /\ DecodeSegment(x[k]).out = ms[k]
    BY <2>1, DecodeSpelling
  <2> QED
    BY <2>2
<1> QED
  BY <1>4, <1>5

----------------------------------------------------------------------------
(* Targets with and without a query.                                       *)

(* s is what t has before its first question mark.                         *)
Before(t, s) ==
  /\ s \in Strings /\ Len(s) <= Len(t) /\ Without(s, Question)
  /\ \A i \in 1 .. Len(s) : s[i] = t[i]
  /\ Len(s) # Len(t) => t[Len(s) + 1] = Question

(* There is one text before the query.                                     *)
LEMMA BeforeUnique ==
  ASSUME NEW t \in Strings, NEW s, NEW r, Before(t, s), Before(t, r)
  PROVE  s = r
<1>1. s \in Strings /\ r \in Strings /\ Len(s) \in Nat /\ Len(r) \in Nat /\ Len(t) \in Nat
  BY StringFacts DEF Before
<1>2. ASSUME NEW a, NEW b, a \in Strings, b \in Strings, Len(a) \in Nat, Len(b) \in Nat, Before(t, a), Before(t, b),
             Len(a) < Len(b)
      PROVE  FALSE
  <2>1. Len(a) + 1 \in 1 .. Len(b) /\ Len(a) # Len(t)
    BY <1>1, <1>2 DEF Before
  <2>2. t[Len(a) + 1] = Question /\ b[Len(a) + 1] = t[Len(a) + 1] /\ b[Len(a) + 1] # Question
    BY <1>2, <2>1 DEF Before, Without
  <2> QED
    BY <2>2
<1>3. ~(Len(s) < Len(r)) /\ ~(Len(r) < Len(s))
  BY <1>1, <1>2
<1>4. Len(s) = Len(r)
  BY <1>1, <1>3
<1>5. \A i \in 1 .. Len(s) : s[i] = r[i]
  BY <1>4 DEF Before
<1> QED
  BY <1>1, <1>4, <1>5, SameString

(* ToSet has the bytes that occur.                                         *)
LEMMA InString ==
  ASSUME NEW t \in Strings, NEW c
  PROVE  c \in ToSet(t) <=> ~Without(t, c)
<1>1. DOMAIN t = 1 .. Len(t)
  BY StringFacts
<1> QED
  BY <1>1 DEF ToSet, Without

(* BeforeQuery finds it.                                                   *)
LEMMA QueryStart ==
  ASSUME NEW t \in Strings
  PROVE  Before(t, BeforeQuery(t))
<1>1. Len(t) \in Nat
  BY StringFacts
<1>2. CASE Question \in ToSet(t)
  <2> DEFINE I == {i \in 1 .. Len(t) : t[i] = Question}
             q == SelectInSeq(t, LAMBDA c : c = Question)
             s == SubSeq(t, 1, q - 1)
  <2>1. I # {} /\ I \in SUBSET Nat
    BY <1>1, <1>2, InString DEF Without
  <2>2. q = Min(I)
    BY <2>1 DEF SelectInSeq
  <2>3. Min(I) \in I /\ \A j \in I : Min(I) <= j
    <3> HIDE DEF I
    <3>1. \E i \in I : \A j \in I : i <= j
      BY <2>1, LeastNumber
    <3> QED
      BY <3>1, Zenon DEF Min
  <2>4. q \in 1 .. Len(t) /\ t[q] = Question /\ \A j \in 1 .. Len(t) : t[j] = Question => q <= j
    BY <2>2, <2>3
  <2> HIDE DEF I, q
  <2>5. q - 1 \in Nat /\ q - 1 <= Len(t) /\ (q - 1) + 1 = q
    BY <1>1, <2>4
  <2>6. s \in Strings /\ Len(s) = q - 1 /\ \A j \in 1 .. q - 1 : s[j] = t[j]
    BY <2>5, PrefixOf
  <2>7. BeforeQuery(t) = s
    BY <1>2 DEF BeforeQuery, q
  <2> HIDE DEF s
  <2>8. ASSUME NEW i \in 1 .. Len(s) PROVE s[i] # Question
    <3>1. i \in 1 .. q - 1 /\ i \in 1 .. Len(t) /\ ~(q <= i)
      BY <1>1, <2>4, <2>6
    <3> QED
      BY <2>4, <2>6, <3>1
  <2>9. Before(t, s)
    BY <1>1, <2>4, <2>5, <2>6, <2>8 DEF Before, Without
  <2> QED
    BY <2>7, <2>9
<1>3. CASE Question \notin ToSet(t)
  <2>1. BeforeQuery(t) = t
    BY <1>3 DEF BeforeQuery
  <2>2. Without(t, Question)
    BY <1>3, InString
  <2> QED
    BY <1>1, <2>1, <2>2 DEF Before
<1> QED
  BY <1>2, <1>3

(* A text without a query, then one, is the text before it.                *)
LEMMA PrefixQuery ==
  ASSUME NEW t \in Strings, NEW s \in Strings, NEW r \in Strings, t = s \o r,
         Without(s, Question), Len(r) > 0 => r[1] = Question
  PROVE  Before(t, s)
<1>1. Len(t) \in Nat /\ Len(s) \in Nat /\ Len(r) \in Nat
  BY StringFacts
<1>2. /\ Len(t) = Len(s) + Len(r) /\ \A i \in 1 .. Len(s) : t[i] = s[i]
      /\ \A j \in 1 .. Len(r) : t[Len(s) + j] = r[j]
  BY Concatenation
<1>3. ASSUME Len(s) # Len(t) PROVE t[Len(s) + 1] = Question
  <2>1. Len(r) > 0 /\ 1 \in 1 .. Len(r)
    BY <1>1, <1>2, <1>3
  <2> QED
    BY <1>2, <2>1
<1> QED
  BY <1>1, <1>2, <1>3 DEF Before

(* The text before a query, and the question mark, start the target.       *)
LEMMA QueryPrefix ==
  ASSUME NEW t \in Strings, NEW s, Before(t, s)
  PROVE  s = t \/ IsPrefix(s \o <<Question>>, t)
<1>1. s \in Strings /\ Len(s) \in Nat /\ Len(t) \in Nat /\ Len(s) <= Len(t) /\ \A i \in 1 .. Len(s) : s[i] = t[i]
  BY StringFacts DEF Before
<1>2. CASE Len(s) = Len(t)
  BY <1>1, <1>2, SameString
<1>3. CASE Len(s) # Len(t)
  <2> DEFINE q == <<Question>>
             c == s \o q
             n == Len(s) + 1
  <2>1. q \in Strings /\ Len(q) = 1 /\ q[1] = Question
    BY PercentOctet, ShortStrings
  <2> HIDE DEF q
  <2>2. /\ c \in Strings /\ Len(c) = Len(s) + Len(q)
        /\ \A i \in 1 .. Len(s) : c[i] = s[i]
        /\ \A j \in 1 .. Len(q) : c[Len(s) + j] = q[j]
    BY <1>1, <2>1, Concatenation
  <2>3. n \in Nat /\ Len(c) = n /\ n <= Len(t) /\ t[n] = Question
    BY <1>1, <1>3, <2>1, <2>2 DEF Before
  <2>4. c[n] = Question
    BY <2>1, <2>2
  <2> HIDE DEF c
  <2>5. ASSUME NEW i \in 1 .. n PROVE c[i] = t[i]
    <3>1. i = n \/ i \in 1 .. Len(s)
      BY <1>1
    <3> QED
      BY <1>1, <2>2, <2>3, <2>4, <3>1
  <2> HIDE DEF n
  <2>6. SubSeq(c, 1, n) \in Strings /\ Len(SubSeq(c, 1, n)) = n /\ \A j \in 1 .. n : SubSeq(c, 1, n)[j] = c[j]
    BY <2>2, <2>3, PrefixOf
  <2>7. SubSeq(t, 1, n) \in Strings /\ Len(SubSeq(t, 1, n)) = n /\ \A j \in 1 .. n : SubSeq(t, 1, n)[j] = t[j]
    BY <2>3, PrefixOf
  <2>8. SubSeq(c, 1, n) = SubSeq(t, 1, n)
    <3>1. \A j \in 1 .. n : SubSeq(c, 1, n)[j] = SubSeq(t, 1, n)[j]
      BY <2>5, <2>6, <2>7
    <3> QED
      BY <2>6, <2>7, <3>1, SameString
  <2>9. IsPrefix(c, t)
    BY <2>3, <2>8 DEF IsPrefix
  <2> QED
    BY <2>9 DEF c, q
<1> QED
  BY <1>2, <1>3

----------------------------------------------------------------------------
(* Requests and routes.                                                    *)

(* A target that canonicalRequestPath reads at all.                        *)
Readable(t) == t \in Strings /\ t # <<>> /\ t[1] = Slash /\ Len(t) <= MaxTarget /\ Without(t, Hash)

(* A target whose segments spell valid names leads to their route.         *)
LEMMA CanonicalAccepts ==
  ASSUME NEW t, Readable(t), NEW s, Before(t, s), NEW n \in Nat, NEW ns \in [1 .. n -> Strings],
         SegmentsSpell(n, s, ns), \A k \in 1 .. n : ValidName(ns[k])
  PROVE  CanonicalRequestPath(t) = [ok |-> TRUE, path |-> Route(ns)]
<1> DEFINE x == Segments(BeforeQuery(t))
           d == [k \in DOMAIN x |-> DecodeSegment(x[k])]
<1>1. BeforeQuery(t) = s
  BY QueryStart, BeforeUnique DEF Readable
<1>2. x \in [1 .. n -> Strings] /\ \A k \in 1 .. n : x[k] \in NameSpellings(ns[k])
  BY <1>1 DEF SegmentsSpell
<1> HIDE DEF x
<1>3. ASSUME NEW k \in 1 .. n PROVE d[k].ok /\ d[k].out = ns[k]
  <2>1. x[k] \in NameSpellings(ns[k]) /\ ns[k] \in Strings
    BY <1>2
  <2>2. d[k] = DecodeSegment(x[k])
    BY <1>2
  <2> QED
    BY <2>1, <2>2, DecodeSpelling
<1>4. DOMAIN d = 1 .. n
  BY <1>2
<1> HIDE DEF d
<1>5. Hash \notin ToSet(t)
  BY InString DEF Readable
<1>6. CanonicalRequestPath(t) =
        [ok |-> TRUE, path |-> FlattenSeq([k \in DOMAIN d |-> <<Slash>> \o EncodeSegment(d[k].out)])]
  <2> DEFINE Bad == \/ t = <<>> \/ t[1] # Slash \/ Len(t) > MaxTarget \/ Hash \in ToSet(t)
                    \/ \E k \in DOMAIN d : ~d[k].ok \/ ~ValidName(d[k].out)
  <2>1. CanonicalRequestPath(t) =
          IF Bad THEN Refused
          ELSE [ok |-> TRUE, path |-> FlattenSeq([k \in DOMAIN d |-> <<Slash>> \o EncodeSegment(d[k].out)])]
    BY Zenon DEF CanonicalRequestPath, d, x
  <2>2. t # <<>> /\ t[1] = Slash /\ ~(Len(t) > MaxTarget)
    BY StringFacts, LimitAssumption DEF Readable
  <2>3. \A k \in DOMAIN d : d[k].ok /\ ValidName(d[k].out)
    BY <1>3, <1>4
  <2>4. ~Bad
    BY <1>5, <2>2, <2>3
  <2> HIDE DEF Bad
  <2> QED
    BY <2>1, <2>4
<1>7. [k \in DOMAIN d |-> <<Slash>> \o EncodeSegment(d[k].out)] = [k \in DOMAIN ns |-> <<Slash>> \o EncodeSegment(ns[k])]
  BY <1>3, <1>4
<1> QED
  BY <1>6, <1>7 DEF Route

(* What canonicalRequestPath accepts spells the names of the route.        *)
LEMMA CanonicalSpells ==
  ASSUME NEW t \in Strings, CanonicalRequestPath(t).ok
  PROVE  \E n \in Nat \ {0} : \E ns \in [1 .. n -> Strings] :
           CanonicalRequestPath(t).path = Route(ns) /\ Spells(t, ns)
<1> DEFINE s == BeforeQuery(t)
           x == Segments(s)
           d == [k \in DOMAIN x |-> DecodeSegment(x[k])]
<1> HIDE DEF d
<1>1. /\ t # <<>> /\ t[1] = Slash /\ Len(t) <= MaxTarget /\ Hash \notin ToSet(t)
      /\ \A k \in DOMAIN d : d[k].ok /\ ValidName(d[k].out)
      /\ CanonicalRequestPath(t).path = FlattenSeq([k \in DOMAIN d |-> <<Slash>> \o EncodeSegment(d[k].out)])
  <2> DEFINE Bad == \/ t = <<>> \/ t[1] # Slash \/ ~(Len(t) <= MaxTarget) \/ Hash \in ToSet(t)
                    \/ \E k \in DOMAIN d : ~d[k].ok \/ ~ValidName(d[k].out)
  <2>1. Len(t) > MaxTarget <=> ~(Len(t) <= MaxTarget)
    BY StringFacts, LimitAssumption
  <2>2. CanonicalRequestPath(t) =
          IF Bad THEN Refused
          ELSE [ok |-> TRUE, path |-> FlattenSeq([k \in DOMAIN d |-> <<Slash>> \o EncodeSegment(d[k].out)])]
    BY <2>1, Zenon DEF CanonicalRequestPath, d
  <2>3. ~Refused.ok
    BY DEF Refused
  <2> HIDE DEF Bad
  <2>4. ~Bad
    BY <2>2, <2>3
  <2>5. CanonicalRequestPath(t).path = FlattenSeq([k \in DOMAIN d |-> <<Slash>> \o EncodeSegment(d[k].out)])
    BY <2>2, <2>4
  <2> QED
    BY <2>4, <2>5 DEF Bad
<1>2. Before(t, s)
  BY QueryStart
<1> HIDE DEF s
<1>3. s \in Strings /\ Len(s) \in Nat /\ Len(t) \in Nat /\ Len(s) <= Len(t) /\ \A i \in 1 .. Len(s) : s[i] = t[i]
  BY <1>2, StringFacts DEF Before
<1>4. s # <<>> /\ s[1] = Slash
  <2>1. Len(t) # 0
    BY <1>1, EmptyString
  <2>2. Len(s) # 0
    <3>1. ASSUME Len(s) = 0 PROVE FALSE
      <4>1. t[0 + 1] = Question
        BY <1>2, <2>1, <3>1 DEF Before
      <4> QED
        BY <1>1, <4>1 DEF Slash, Question
    <3> QED
      BY <3>1
  <2>3. 1 \in 1 .. Len(s)
    BY <1>3, <2>2
  <2> QED
    BY <1>1, <1>3, <2>2, <2>3, EmptyString
<1>a. PICK n \in Nat :
           \E P, y : n > 0 /\ Spans(s, n, P, y) /\ x \in [1 .. n -> Strings] /\ Pieces(n, y, x)
  BY <1>3, <1>4, SegmentsSpan
<1>5. PICK P, y : n > 0 /\ Spans(s, n, P, y) /\ x \in [1 .. n -> Strings] /\ Pieces(n, y, x)
  BY <1>a
<1> HIDE DEF x
<1>6. DOMAIN d = 1 .. n /\ \A k \in 1 .. n : d[k] = DecodeSegment(x[k])
  BY <1>5 DEF d
<1>7. Without(t, Hash)
  BY <1>1, InString
<1>8. ASSUME NEW k \in 1 .. n, NEW i \in 1 .. Len(x[k]) PROVE Harmless(x[k][i])
  <2>1. /\ x[k] \in Strings /\ y[k] = <<Slash>> \o x[k] /\ Without(x[k], Slash)
        /\ Len(x[k]) \in Nat /\ x[k][i] \in Octets
    <3>1. x[k] \in Strings /\ y[k] = <<Slash>> \o x[k] /\ Without(x[k], Slash)
      BY <1>5 DEF Pieces
    <3> QED
      BY <3>1, StringFacts
  <2>2. Len(y[k]) = Len(x[k]) + 1 /\ y[k][i + 1] = x[k][i]
    BY <2>1, AfterSlash
  <2>3. i + 1 \in 1 .. Len(y[k])
    BY <2>1, <2>2
  <2>4. s[P[k - 1] + (i + 1)] = y[k][i + 1]
    BY <1>5, <2>3 DEF Spans
  <2> DEFINE j == P[k - 1] + (i + 1)
  <2>5. j \in 1 .. Len(s)
    <3>1. k \in 0 .. n
      OBVIOUS
    <3>2. P[k - 1] \in Nat /\ P[k] = P[k - 1] + Len(y[k]) /\ P[k] <= Len(s)
      BY <1>5, <3>1, SpanPlaces
    <3> QED
      BY <1>3, <2>1, <2>2, <3>2, SMTT(30)
  <2> HIDE DEF j
  <2>6. s[j] # Question /\ s[j] = t[j] /\ j \in 1 .. Len(t)
    BY <1>2, <1>3, <2>5 DEF Before, Without
  <2>7. s[j] # Hash
    BY <1>7, <2>6 DEF Without
  <2>8. x[k][i] = s[j]
    BY <2>2, <2>4 DEF j
  <2>9. x[k][i] # Slash
    BY <2>1 DEF Without
  <2> QED
    BY <2>1, <2>6, <2>7, <2>8, <2>9 DEF Harmless
<1> DEFINE ns == [k \in 1 .. n |-> d[k].out]
<1>9. ASSUME NEW k \in 1 .. n PROVE ns[k] \in Strings /\ x[k] \in NameSpellings(ns[k]) /\ ns[k] = d[k].out
  <2>1. d[k] = DecodeSegment(x[k]) /\ d[k].ok /\ x[k] \in Strings
    BY <1>1, <1>5, <1>6
  <2>2. DecodeSegment(x[k]).out \in Strings /\ x[k] \in NameSpellings(DecodeSegment(x[k]).out)
    BY <1>8, <2>1, DecodedSpelling
  <2> QED
    BY <2>1, <2>2
<1>10. ns \in [1 .. n -> Strings]
  BY <1>9
<1>11. DOMAIN ns = 1 .. n
  OBVIOUS
<1> HIDE DEF ns
<1>12. CanonicalRequestPath(t).path = Route(ns)
  <2>1. [k \in DOMAIN d |-> <<Slash>> \o EncodeSegment(d[k].out)] = [k \in DOMAIN ns |-> <<Slash>> \o EncodeSegment(ns[k])]
    BY <1>6, <1>9, <1>11
  <2> QED
    BY <1>1, <2>1 DEF Route
<1>13. SegmentsSpell(n, s, ns)
  BY <1>5, <1>9 DEF SegmentsSpell, x
<1>14. s \in Spellings(ns)
  BY <1>3, <1>4, <1>10, <1>13, SegmentsSpelled
<1>15. s = t \/ IsPrefix(s \o <<Question>>, t)
  BY <1>2, QueryPrefix
<1>16. Spells(t, ns)
  BY <1>1, <1>14, <1>15 DEF Spells
<1>17. n \in Nat \ {0}
  BY <1>5
<1> QED
  BY <1>10, <1>12, <1>16, <1>17

(* childPath puts the name of the child at the end of the route.           *)
LEMMA RouteAppend ==
  ASSUME NEW n \in Nat, NEW ns \in [1 .. n -> Strings], NEW ms \in [1 .. n + 1 -> Strings],
         \A k \in 1 .. n : ms[k] = ns[k]
  PROVE  Route(ns) \o <<Slash>> \o EncodeSegment(ms[n + 1]) = Route(ms)
<1> DEFINE a == <<Slash>>
           e == EncodeSegment(ms[n + 1])
           r == a \o e
<1>1. PICK P, x : Spans(Route(ns), n, P, x) /\ \A k \in 1 .. n : x[k] = <<Slash>> \o EncodeSegment(ns[k])
  BY RouteSpans
<1>0. n + 1 \in Nat
  OBVIOUS
<1>2. PICK Q, y : Spans(Route(ms), n + 1, Q, y) /\ \A k \in 1 .. n + 1 : y[k] = <<Slash>> \o EncodeSegment(ms[k])
  BY <1>0, RouteSpans
<1>3. n + 1 \in 1 .. n + 1 /\ ms[n + 1] \in Strings
  OBVIOUS
<1>4. Route(ns) \in Strings /\ y[n + 1] = r
  BY <1>1, <1>2, <1>3 DEF Spans
<1>5. a \in Strings /\ e \in Strings
  BY <1>3, PercentOctet, ShortStrings, EncodedSpelling, DecodeSpelling
<1> HIDE DEF a, e
<1>6. r \in Strings
  BY <1>5, Concatenation
<1>7. Route(ns) \o a \o e = Route(ns) \o r
  <2> DEFINE w == Route(ns)
  <2>1. w \in Seq(Octets) /\ a \in Seq(Octets) /\ e \in Seq(Octets)
    BY <1>4, <1>5 DEF Strings
  <2> HIDE DEF w
  <2>2. (w \o a) \o e = w \o (a \o e)
    BY <2>1, ConcatAssociative, SMTT(30)
  <2> QED
    BY <2>2 DEF w
<1> HIDE DEF r
<1>8. PICK R, z : Spans(Route(ns) \o r, n + 1, R, z) /\ (\A k \in 1 .. n : z[k] = x[k]) /\ z[n + 1] = r
  BY <1>1, <1>6, SpanExtend
<1>9. y = z
  <2>1. y \in [1 .. n + 1 -> Strings] /\ z \in [1 .. n + 1 -> Strings]
    BY <1>2, <1>8 DEF Spans
  <2>2. ASSUME NEW k \in 1 .. n + 1 PROVE y[k] = z[k]
    <3>1. k = n + 1 \/ k \in 1 .. n
      OBVIOUS
    <3>2. CASE k = n + 1
      BY <1>4, <1>8, <3>2
    <3>3. CASE k \in 1 .. n
      <4>1. z[k] = x[k] /\ ms[k] = ns[k]
        BY <1>8, <3>3
      <4>2. x[k] = <<Slash>> \o EncodeSegment(ns[k]) /\ y[k] = <<Slash>> \o EncodeSegment(ms[k])
        BY <1>1, <1>2, <3>3
      <4> QED
        BY <4>1, <4>2
    <3> QED
      BY <3>1, <3>2, <3>3
  <2> QED
    BY <2>1, <2>2
<1>10. Route(ns) \o r = Route(ms)
  <2>1. Spans(Route(ms), n + 1, Q, z)
    BY <1>2, <1>9
  <2> QED
    BY <1>0, <1>8, <2>1, SpanUnique
<1> QED
  BY <1>7, <1>10 DEF a, e

(* The names below the root, when they are published.                      *)
Published(names) == names \in Seq(Strings) /\ \A k \in 1 .. Len(names) : ValidName(names[k])

(* The root is one byte,                                                   *)
LEMMA RootString == Root \in Strings /\ Len(Root) = 1 /\ Root[1] = 114
BY DEF Root, Strings, Octets

(* valid UTF-8                                                             *)
LEMMA RootUtf8 == ValidUtf8(Root)
<1> DEFINE t == Root
<1>1. Len(t) = 1 /\ t[1] = 114
  BY RootString
<1> HIDE DEF t
<1>2. SequenceEnd(t, 1) = 1
  BY <1>1, SMT DEF SequenceEnd
<1>3. \A i \in 1 .. 1 : SequenceEnd(t, i) # 0 => SequenceEnd(t, i) + 1 \in 1 .. 1 + 1
  BY <1>2
<1>4. PICK from : /\ ValidUtf8(t) <=> from[1]
                  /\ \A i \in 1 .. 1 + 1 :
                       from[i] <=> (i <= 1 => SequenceEnd(t, i) # 0 /\ from[SequenceEnd(t, i) + 1])
  BY <1>1, <1>3, ValidFrom
<1>5. from[2]
  <2>1. 2 \in 1 .. 1 + 1 /\ ~(2 <= 1)
    OBVIOUS
  <2> QED
    BY <1>4, <2>1
<1>6. from[1]
  <2>1. 1 \in 1 .. 1 + 1 /\ SequenceEnd(t, 1) # 0 /\ SequenceEnd(t, 1) + 1 = 2
    BY <1>2
  <2> QED
    BY <1>4, <1>5, <2>1
<1> QED
  BY <1>4, <1>6 DEF t

(* and a valid name.                                                       *)
LEMMA RootValid == ValidName(Root)
<1>1. Len(Root) <= MaxName /\ Root # <<>>
  BY RootString, LimitAssumption, EmptyString
<1>2. Root # <<46>> /\ Root # <<46, 46>>
  BY DEF Root
<1>3. 0 \notin ToSet(Root)
  <2>1. Without(Root, 0)
    BY RootString DEF Without
  <2> QED
    BY <2>1, RootString, InString
<1> QED
  BY <1>1, <1>2, <1>3, RootUtf8 DEF ValidName

(* The names from the root.                                                *)
LEMMA NamesFromRoot ==
  ASSUME NEW names, Published(names)
  PROVE  LET ns == <<Root>> \o names
             n == Len(names) + 1
         IN  /\ Len(names) \in Nat /\ n \in Nat \ {0} /\ ns \in [1 .. n -> Strings]
             /\ ns[1] = Root /\ (\A k \in 1 .. Len(names) : ns[k + 1] = names[k])
             /\ \A k \in 1 .. n : ValidName(ns[k])
<1> DEFINE l == Len(names)
           a == <<Root>>
           ns == a \o names
           n == l + 1
<1>1. names \in Seq(Strings) /\ \A k \in 1 .. l : ValidName(names[k])
  BY DEF Published
<1>2. l \in Nat
  BY <1>1, LenProperties
<1>3. a \in Seq(Strings) /\ Len(a) = 1 /\ a[1] = Root
  BY RootString
<1> HIDE DEF a
<1>4. /\ ns \in Seq(Strings) /\ Len(ns) = Len(a) + l
      /\ \A i \in 1 .. Len(a) + l : ns[i] = IF i <= Len(a) THEN a[i] ELSE names[i - Len(a)]
  BY <1>1, <1>3, ConcatProperties
<1> HIDE DEF l
<1>5. Len(ns) = n /\ \A i \in 1 .. n : ns[i] = IF i <= 1 THEN Root ELSE names[i - 1]
  <2>1. Len(a) + l = n
    BY <1>2, <1>3
  <2>2. ASSUME NEW i \in 1 .. n PROVE ns[i] = IF i <= 1 THEN Root ELSE names[i - 1]
    <3>1. ns[i] = IF i <= 1 THEN a[i] ELSE names[i - 1]
      BY <1>3, <1>4, <2>1
    <3>2. i <= 1 => i = 1
      BY <1>2
    <3> QED
      BY <1>3, <3>1, <3>2
  <2> QED
    BY <1>4, <2>1, <2>2
<1>6. ns \in [1 .. n -> Strings]
  <2>1. ns \in [1 .. Len(ns) -> Strings]
    <3> HIDE DEF ns
    <3> QED
      BY <1>4
  <2> QED
    BY <1>5, <2>1
<1> HIDE DEF ns
<1>7. ns[1] = Root
  BY <1>2, <1>5
<1>8. ASSUME NEW k \in 1 .. l PROVE ns[k + 1] = names[k]
  <2>1. k + 1 \in 1 .. n /\ ~(k + 1 <= 1) /\ (k + 1) - 1 = k
    BY <1>2
  <2> QED
    BY <1>5, <2>1
<1>9. ASSUME NEW k \in 1 .. n PROVE ValidName(ns[k])
  <2>1. CASE k = 1
    BY <1>7, <2>1, RootValid
  <2>2. CASE k # 1
    <3>1. k - 1 \in 1 .. l /\ (k - 1) + 1 = k
      BY <1>2, <2>2
    <3>2. ns[(k - 1) + 1] = names[k - 1] /\ ValidName(names[k - 1])
      BY <1>1, <1>8, <3>1
    <3> QED
      BY <3>1, <3>2
  <2> QED
    BY <2>1, <2>2
<1>10. n \in Nat \ {0}
  BY <1>2
<1> QED
  BY <1>2, <1>6, <1>7, <1>8, <1>9, <1>10 DEF ns, a, l

(* A part alone.                                                           *)
LEMMA SpanOne ==
  ASSUME NEW s, NEW P, NEW x, Spans(s, 1, P, x)
  PROVE  s = x[1]
<1>1. /\ s \in Strings /\ x \in [1 .. 1 -> Strings] /\ P[0] = 0 /\ P[1] = Len(s)
      /\ P[1] = P[1 - 1] + Len(x[1]) /\ \A j \in 1 .. Len(x[1]) : s[P[1 - 1] + j] = x[1][j]
  BY DEF Spans
<1>2. x[1] \in Strings /\ 1 - 1 = 0
  BY <1>1
<1>3. Len(x[1]) \in Nat
  BY <1>2, StringFacts
<1>4. Len(s) = Len(x[1])
  BY <1>1, <1>2, <1>3
<1>5. ASSUME NEW j \in 1 .. Len(x[1]) PROVE s[j] = x[1][j]
  <2>1. s[0 + j] = x[1][j] /\ 0 + j = j
    BY <1>1, <1>2
  <2> QED
    BY <2>1
<1> QED
  BY <1>1, <1>2, <1>4, <1>5, SameString

(* RttHttpService starts at the route of the root.                         *)
LEMMA RootRoute == <<Slash>> \o Root = Route(<<Root>> \o <<>>)
<1>1. EncodeSegment(Root) = Root
  <2> DEFINE q == [i \in DOMAIN Root |-> EncodeByte(Root[i])]
  <2>1. DOMAIN Root = 1 .. 1
    BY RootString, StringFacts
  <2>2. EncodeByte(114) = Root
    BY DEF EncodeByte, Unreserved, Root
  <2>3. q \in [1 .. 1 -> Strings] /\ q[1] = Root
    BY <2>1, <2>2, RootString
  <2>4. EncodeSegment(Root) = FlattenSeq(q)
    BY DEF EncodeSegment
  <2> HIDE DEF q
  <2>5. PICK P : Spans(FlattenSeq(q), 1, P, q)
    BY <2>3, FlattenSpans
  <2> QED
    BY <2>3, <2>4, <2>5, SpanOne
<1> DEFINE ns == <<Root>> \o <<>>
<1>2. ns \in [1 .. 1 -> Strings] /\ ns[1] = Root
  <2>1. Published(<<>>) /\ Len(<<>>) = 0
    BY EmptySeq DEF Published
  <2> DEFINE e == <<>>
  <2> HIDE DEF e
  <2>2. Published(e) /\ Len(e) = 0
    BY <2>1 DEF e
  <2>3. <<Root>> \o e \in [1 .. Len(e) + 1 -> Strings] /\ (<<Root>> \o e)[1] = Root
    BY <2>2, NamesFromRoot
  <2>4. Len(e) + 1 = 1
    BY <2>2
  <2> QED
    BY <2>3, <2>4 DEF e
<1> HIDE DEF ns
<1>3. PICK P, y : Spans(Route(ns), 1, P, y) /\ \A k \in 1 .. 1 : y[k] = <<Slash>> \o EncodeSegment(ns[k])
  BY <1>2, RouteSpans
<1>4. Route(ns) = y[1] /\ y[1] = <<Slash>> \o EncodeSegment(ns[1])
  BY <1>3, SpanOne
<1> QED
  BY <1>1, <1>2, <1>4 DEF ns

(* A query, or none.                                                       *)
QueryText(r) == r \in Strings /\ (Len(r) > 0 => r[1] = Question) /\ Without(r, Hash)

(* The three continuations of a target are queries or nothing.             *)
LEMMA Queries == \A r \in {<<>>, <<Question>>, <<Question, Slash>>} : QueryText(r)
<1>1. QueryText(<<>>)
  BY EmptyString DEF QueryText, Without
<1>2. QueryText(<<Question>>)
  <2> DEFINE r == <<Question>>
  <2>1. r \in Strings /\ Len(r) = 1 /\ r[1] = Question
    BY PercentOctet, ShortStrings
  <2> HIDE DEF r
  <2>2. QueryText(r)
    BY <2>1 DEF QueryText, Without, Question, Hash
  <2> QED
    BY <2>2 DEF r
<1>3. QueryText(<<Question, Slash>>)
  <2> DEFINE r == <<Question, Slash>>
  <2>1. r \in Strings /\ Len(r) = 2 /\ r[1] = Question /\ r[2] = Slash
    BY PercentOctet, ShortStrings
  <2> HIDE DEF r
  <2>2. QueryText(r)
    BY <2>1 DEF QueryText, Without, Question, Slash, Hash
  <2> QED
    BY <2>2 DEF r
<1> QED
  BY <1>1, <1>2, <1>3

(* A spelling of a path, with a query or without, leads to the route.      *)
LEMMA SpellingLeads ==
  ASSUME NEW n \in Nat \ {0}, NEW ns \in [1 .. n -> Strings], \A k \in 1 .. n : ValidName(ns[k]),
         NEW s \in Spellings(ns), NEW r, QueryText(r), Len(s \o r) <= MaxTarget
  PROVE  CanonicalRequestPath(s \o r) = [ok |-> TRUE, path |-> Route(ns)]
<1> DEFINE t == s \o r
<1>1. /\ s \in Strings /\ SegmentsSpell(n, s, ns) /\ Len(s) > 0 /\ s[1] = Slash
      /\ \A i \in 1 .. Len(s) : Searchable(s[i])
  BY SpelledSegments
<1>2. r \in Strings /\ (Len(r) > 0 => r[1] = Question) /\ Without(r, Hash)
  BY DEF QueryText
<1>3. Len(s) \in Nat /\ Len(r) \in Nat
  BY <1>1, <1>2, StringFacts
<1>4. /\ t \in Strings /\ Len(t) = Len(s) + Len(r)
      /\ \A i \in 1 .. Len(s) : t[i] = s[i]
      /\ \A j \in 1 .. Len(r) : t[Len(s) + j] = r[j]
  BY <1>1, <1>2, Concatenation
<1>5. Without(s, Question)
  BY <1>1 DEF Without, Searchable
<1>6. Before(t, s)
  BY <1>1, <1>2, <1>4, <1>5, PrefixQuery
<1> HIDE DEF t
<1>7. t[1] = Slash /\ t # <<>>
  <2>1. 1 \in 1 .. Len(s) /\ Len(t) # 0
    BY <1>1, <1>3, <1>4
  <2> QED
    BY <1>1, <1>4, <2>1, EmptyString
<1>8. Without(t, Hash)
  <2> SUFFICES ASSUME NEW i \in 1 .. Len(t) PROVE t[i] # Hash
    BY DEF Without
  <2>1. CASE i \in 1 .. Len(s)
    BY <1>1, <1>4, <2>1 DEF Searchable
  <2>2. CASE i \notin 1 .. Len(s)
    <3>1. i - Len(s) \in 1 .. Len(r) /\ Len(s) + (i - Len(s)) = i
      BY <1>3, <1>4, <2>2
    <3>2. t[Len(s) + (i - Len(s))] = r[i - Len(s)] /\ r[i - Len(s)] # Hash
      BY <1>2, <1>4, <3>1 DEF Without
    <3> QED
      BY <3>1, <3>2
  <2> QED
    BY <2>1, <2>2
<1>9. Readable(t)
  BY <1>4, <1>7, <1>8 DEF Readable, t
<1>10. CanonicalRequestPath(t) = [ok |-> TRUE, path |-> Route(ns)]
  BY <1>1, <1>6, <1>9, CanonicalAccepts
<1> QED
  BY <1>10 DEF t

(* A published resource: its route, which a request can hold.              *)
RouteOf(names, path) == Published(names) /\ path = Route(<<Root>> \o names) /\ Len(path) <= MaxRoute

(* The route and every spelling of its names lead to it.                   *)
LEMMA RouteLeads ==
  ASSUME NEW names, NEW path, RouteOf(names, path)
  PROVE  /\ CanonicalRequestPath(path) = [ok |-> TRUE, path |-> path]
         /\ \A target \in Joined(Spellings(<<Root>> \o names), {<<>>, <<Question>>, <<Question, Slash>>}) :
              Len(target) <= MaxTarget => CanonicalRequestPath(target) = [ok |-> TRUE, path |-> path]
<1> DEFINE ns == <<Root>> \o names
           n == Len(names) + 1
           queries == {<<>>, <<Question>>, <<Question, Slash>>}
<1>1. Published(names) /\ path = Route(ns) /\ Len(path) <= MaxRoute
  BY DEF RouteOf
<1>2. n \in Nat \ {0} /\ ns \in [1 .. n -> Strings] /\ \A k \in 1 .. n : ValidName(ns[k])
  BY <1>1, NamesFromRoot
<1>3. \A r \in queries : QueryText(r)
  BY Queries
<1>a. <<>> \in queries
  OBVIOUS
<1> HIDE DEF ns, n, queries
<1>4. ASSUME NEW target \in Joined(Spellings(ns), queries), Len(target) <= MaxTarget
      PROVE  CanonicalRequestPath(target) = [ok |-> TRUE, path |-> path]
  <2>1. PICK s \in Spellings(ns), r \in queries : target = s \o r
    BY DEF Joined
  <2>2. QueryText(r) /\ Len(s \o r) <= MaxTarget
    BY <1>3, <1>4, <2>1
  <2>3. CanonicalRequestPath(s \o r) = [ok |-> TRUE, path |-> Route(ns)]
    BY <1>2, <2>2, SpellingLeads
  <2> QED
    BY <1>1, <2>1, <2>3
<1>5. path \in Spellings(ns) /\ path \in Strings
  BY <1>1, <1>2, RouteSpelling, SpelledSegments
<1>6. path \o <<>> = path /\ Len(path) \in Nat
  BY <1>5, ConcatEmpty, StringFacts
<1>7. path \in Joined(Spellings(ns), queries)
  <2>1. path \o <<>> \in Joined(Spellings(ns), queries)
    BY <1>5, <1>a, JoinedMember
  <2> QED
    BY <1>6, <2>1
<1>8. Len(path) <= MaxTarget
  BY <1>1, <1>6, LimitAssumption
<1> QED
  BY <1>4, <1>7, <1>8 DEF ns, queries

(* A target that leads to a route spells the names of its resource.        *)
LEMMA TargetSpells ==
  ASSUME NEW target \in Strings, NEW names, Published(names), CanonicalRequestPath(target).ok,
         CanonicalRequestPath(target).path = Route(<<Root>> \o names)
  PROVE  Spells(target, <<Root>> \o names)
<1> DEFINE ns == <<Root>> \o names
           n == Len(names) + 1
<1>1. n \in Nat \ {0} /\ ns \in [1 .. n -> Strings]
  BY NamesFromRoot
<1> HIDE DEF ns, n
<1>2. PICK m \in Nat \ {0} : \E ms \in [1 .. m -> Strings] :
           CanonicalRequestPath(target).path = Route(ms) /\ Spells(target, ms)
  BY CanonicalSpells
<1>3. PICK ms \in [1 .. m -> Strings] : CanonicalRequestPath(target).path = Route(ms) /\ Spells(target, ms)
  BY <1>2
<1>4. Route(ns) = Route(ms)
  BY <1>3 DEF ns
<1>5. ns = ms
  BY <1>1, <1>4, RouteInjective
<1> QED
  BY <1>3, <1>5 DEF ns

(* One name more.                                                          *)
LEMMA ChildRoute ==
  ASSUME NEW names, NEW path, Published(names), path = Route(<<Root>> \o names),
         NEW name \in Strings, ChildPath(path, name).ok
  PROVE  /\ RouteOf(Append(names, name), ChildPath(path, name).path)
         /\ ChildPath(path, name) = [ok |-> TRUE, path |-> ChildPath(path, name).path]
<1> DEFINE l == Len(names)
           n == l + 1
           ns == <<Root>> \o names
           more == Append(names, name)
           ms == <<Root>> \o more
           child == path \o <<Slash>> \o EncodeSegment(name)
<1>1. ValidName(name) /\ Len(child) <= MaxRoute /\ ChildPath(path, name) = [ok |-> TRUE, path |-> child]
  <2> HIDE DEF child
  <2>1. ChildPath(path, name) =
          IF ValidName(name) /\ Len(child) <= MaxRoute THEN [ok |-> TRUE, path |-> child] ELSE Refused
    BY Zenon DEF ChildPath, child
  <2>2. ~Refused.ok
    BY DEF Refused
  <2> QED
    BY <2>1, <2>2
<1>2. names \in Seq(Strings) /\ \A k \in 1 .. l : ValidName(names[k])
  BY DEF Published
<1>3. l \in Nat /\ n \in Nat /\ ns \in [1 .. n -> Strings] /\ ns[1] = Root /\ \A k \in 1 .. l : ns[k + 1] = names[k]
  BY NamesFromRoot
<1>4. /\ more \in Seq(Strings) /\ Len(more) = n /\ more[n] = name
      /\ \A k \in 1 .. l : more[k] = names[k]
  BY <1>2, AppendProperties
<1> HIDE DEF l, child, more
<1>5. Published(more)
  <2>1. ASSUME NEW k \in 1 .. n PROVE ValidName(more[k])
    <3>1. k = n \/ k \in 1 .. l
      BY <1>3
    <3> QED
      BY <1>1, <1>2, <1>4, <3>1
  <2> QED
    BY <1>4, <2>1 DEF Published
<1>6. ms \in [1 .. n + 1 -> Strings] /\ ms[1] = Root /\ \A k \in 1 .. n : ms[k + 1] = more[k]
  <2>1. ms \in [1 .. Len(more) + 1 -> Strings] /\ ms[1] = Root /\ \A k \in 1 .. Len(more) : ms[k + 1] = more[k]
    BY <1>5, NamesFromRoot
  <2> QED
    BY <1>4, <2>1
<1> HIDE DEF ms, ns
<1>7. ASSUME NEW k \in 1 .. n PROVE ms[k] = ns[k]
  <2>1. CASE k = 1
    BY <1>3, <1>6, <2>1
  <2>2. CASE k # 1
    <3>1. k - 1 \in 1 .. l /\ k - 1 \in 1 .. n /\ (k - 1) + 1 = k
      BY <1>3, <2>2
    <3>2. ms[(k - 1) + 1] = more[k - 1] /\ ns[(k - 1) + 1] = names[k - 1] /\ more[k - 1] = names[k - 1]
      BY <1>3, <1>4, <1>6, <3>1
    <3> QED
      BY <3>1, <3>2
  <2> QED
    BY <2>1, <2>2
<1>8. ms[n + 1] = name
  <2>1. n \in 1 .. n
    BY <1>3
  <2> QED
    BY <1>4, <1>6, <2>1
<1>9. Route(ns) \o <<Slash>> \o EncodeSegment(ms[n + 1]) = Route(ms)
  <2> HIDE DEF n
  <2> QED
    BY <1>3, <1>6, <1>7, RouteAppend
<1>10. child = Route(ms)
  BY <1>8, <1>9 DEF child, ns
<1>11. RouteOf(more, child)
  BY <1>1, <1>5, <1>10 DEF RouteOf, ms
<1>12. ChildPath(path, name).path = child
  BY <1>1
<1> QED
  BY <1>1, <1>11, <1>12 DEF more

(* What a call of childPath or canonicalRequestPath has done.              *)
Routed ==
  /\ call.fn = "childPath" =>
       RouteOf(call.arg, call.out.path) /\ call.out = [ok |-> TRUE, path |-> call.out.path]
  /\ call.fn = "canonicalRequestPath" =>
       /\ call.arg.target \in Strings /\ Published(call.arg.names)
       /\ call.arg.route = Route(<<Root>> \o call.arg.names)
       /\ call.out = CanonicalRequestPath(call.arg.target)

(* PathExact holds in every reachable state, for all names, all targets    *)
(* and all limits: encodeSegment and decodeSegment are inverse up to the   *)
(* spelling, and no two published resources share a route.                 *)
THEOREM PathsAreExact == ResourceSpec => []PathExact
<1>1. ResourceInit => Routed
  BY DEF ResourceInit, Idle, Routed
<1>2. Routed /\ [ResourceNext]_call => Routed'
  <2> SUFFICES ASSUME Routed, [ResourceNext]_call PROVE Routed'
    OBVIOUS
  <2>1. CASE ValidateText
    BY <2>1 DEF ValidateText, Returns, Routed
  <2>2. CASE PublishName
    <3> DEFINE names == Argument("childPath")
               parent == IF call = Idle THEN RootPath ELSE call.out
    <3>1. PICK name \in Names : /\ ChildPath(parent.path, name).ok
                                /\ Returns("childPath", Append(names, name), ChildPath(parent.path, name))
      BY <2>2 DEF PublishName
    <3>2. name \in Strings
      BY TextAssumption DEF Strings
    <3>3. Published(names) /\ parent.path = Route(<<Root>> \o names)
      <4>1. CASE call = Idle
        <5>1. names = <<>> /\ parent.path = <<Slash>> \o Root
          BY <4>1 DEF Argument, Idle, RootPath
        <5>2. Published(<<>>)
          BY EmptySeq DEF Published
        <5> HIDE DEF names, parent
        <5> QED
          BY <5>1, <5>2, RootRoute
      <4>2. CASE call # Idle
        <5>1. call.fn = "childPath" /\ names = call.arg /\ parent = call.out
          BY <2>2, <4>2 DEF PublishName, Calls, Argument
        <5> HIDE DEF names, parent
        <5> QED
          BY <5>1 DEF Routed, RouteOf
      <4> QED
        BY <4>1, <4>2
    <3> DEFINE path == parent.path
               more == Append(names, name)
               child == ChildPath(path, name)
    <3>4. RouteOf(more, child.path) /\ child = [ok |-> TRUE, path |-> child.path]
      <4> HIDE DEF names, parent
      <4> QED
        BY <3>1, <3>2, <3>3, ChildRoute
    <3>5. call' = [fn |-> "childPath", arg |-> more, out |-> child]
      BY <3>1 DEF Returns
    <3> HIDE DEF more, child
    <3>6. call'.fn = "childPath" /\ call'.arg = more /\ call'.out = child
      BY <3>5
    <3> QED
      BY <3>4, <3>6 DEF Routed
  <2>3. CASE AskTarget
    <3>1. PICK target \in Targets :
             call' = [fn |-> "canonicalRequestPath",
                      arg |-> [target |-> target, names |-> call.arg, route |-> call.out.path],
                      out |-> CanonicalRequestPath(target)]
      BY <2>3 DEF AskTarget, Returns
    <3>2. target \in Strings
      BY TextAssumption DEF Strings
    <3>3. RouteOf(call.arg, call.out.path)
      BY <2>3 DEF AskTarget, Routed
    <3>4. /\ call'.fn = "canonicalRequestPath" /\ call'.out = CanonicalRequestPath(target)
          /\ call'.arg.target = target /\ call'.arg.names = call.arg /\ call'.arg.route = call.out.path
      BY <3>1
    <3> QED
      BY <3>2, <3>3, <3>4 DEF Routed, RouteOf
  <2>4. CASE DescribeOperation
    BY <2>4 DEF DescribeOperation, Returns, Routed
  <2>5. CASE ParseText
    BY <2>5 DEF ParseText, Returns, Routed
  <2>6. CASE UNCHANGED call
    BY <2>6 DEF Routed
  <2> QED
    BY <2>1, <2>2, <2>3, <2>4, <2>5, <2>6 DEF ResourceNext
<1>3. Routed => PathExact
  <2>1. ASSUME Routed, call.fn = "childPath"
        PROVE  /\ CanonicalRequestPath(call.out.path) = [ok |-> TRUE, path |-> call.out.path]
               /\ \A target \in Joined(Spellings(<<Root>> \o call.arg),
                                       {<<>>, <<Question>>, <<Question, Slash>>}) :
                    Len(target) <= MaxTarget =>
                      CanonicalRequestPath(target) = [ok |-> TRUE, path |-> call.out.path]
    BY <2>1, RouteLeads DEF Routed
  <2>2. ASSUME Routed, call.fn = "canonicalRequestPath", call.out.ok, call.out.path = call.arg.route
        PROVE  Spells(call.arg.target, <<Root>> \o call.arg.names)
    BY <2>2, TargetSpells DEF Routed
  <2> QED
    BY <2>1, <2>2, Zenon DEF PathExact
<1> QED
  BY <1>1, <1>2, <1>3, PTL DEF ResourceSpec

----------------------------------------------------------------------------
(* Texts in parts.                                                         *)

Texts == Seq(STRING)
Flattens(q, f) == f = [i \in 1 .. Len(q) |-> IF i = 1 THEN q[i] ELSE f[i - 1] \o q[i]]

(* FlattenSeq follows its recursion,                                       *)
LEMMA FlattenBy ==
  ASSUME NEW q \in Seq(Texts), Len(q) # 0, NEW f, Flattens(q, f)
  PROVE  FlattenSeq(q) = f[Len(q)]
<1> DEFINE n == Len(q)
           h == CHOOSE g : Flattens(q, g)
<1>1. n \in Nat
  OBVIOUS
<1>2. Flattens(q, h)
  BY Zenon
<1>3. FlattenSeq(q) = h[n]
  BY Zenon DEF FlattenSeq, Flattens
<1> HIDE DEF h
<1> DEFINE P == {i \in 0 .. n : i = 0 \/ f[i] = h[i]}
<1>4. 0 \in P
  OBVIOUS
<1>5. ASSUME NEW k \in 1 .. n, k - 1 \in P PROVE k \in P
  <2>1. f[k] = (IF k = 1 THEN q[k] ELSE f[k - 1] \o q[k]) /\ h[k] = IF k = 1 THEN q[k] ELSE h[k - 1] \o q[k]
    BY <1>2 DEF Flattens
  <2>2. k \in 0 .. n /\ (k = 1 \/ f[k - 1] = h[k - 1])
    BY <1>1, <1>5
  <2>3. f[k] = h[k]
    BY <2>1, <2>2
  <2> QED
    BY <2>2, <2>3
<1> HIDE DEF P
<1>6. P = 0 .. n
  BY <1>1, <1>4, <1>5, Induction DEF P
<1>7. f[n] = h[n]
  BY <1>1, <1>6 DEF P
<1> QED
  BY <1>3, <1>7

(* which has a solution.                                                   *)
LEMMA FlattenExists ==
  ASSUME NEW q \in Seq(Texts)
  PROVE  \E f : Flattens(q, f)
<1> DEFINE n == Len(q)
           Upto(k, f) == f = [i \in 1 .. k |-> IF i = 1 THEN q[i] ELSE f[i - 1] \o q[i]]
           P == {k \in 0 .. n : \E f : Upto(k, f)}
<1>1. n \in Nat
  OBVIOUS
<1>2. 0 \in P
  <2> DEFINE f0 == [i \in 1 .. 0 |-> 0]
  <2>1. Upto(0, f0)
    OBVIOUS
  <2> HIDE DEF f0, Upto
  <2>2. 0 \in 0 .. n
    BY <1>1
  <2> QED
    BY <2>1, <2>2, Zenon
<1>3. ASSUME NEW k \in 1 .. n, k - 1 \in P PROVE k \in P
  <2>1. PICK f : Upto(k - 1, f)
    BY <1>3
  <2> DEFINE h == [i \in 1 .. k |-> IF i < k THEN f[i] ELSE IF k = 1 THEN q[k] ELSE f[k - 1] \o q[k]]
  <2>2. ASSUME NEW i \in 1 .. k PROVE h[i] = IF i = 1 THEN q[i] ELSE h[i - 1] \o q[i]
    <3>1. CASE i < k
      <4>1. i \in 1 .. k - 1
        BY <3>1
      <4>2. f[i] = IF i = 1 THEN q[i] ELSE f[i - 1] \o q[i]
        BY <2>1, <4>1
      <4>3. i # 1 => i - 1 \in 1 .. k /\ i - 1 < k
        BY <3>1
      <4> QED
        BY <3>1, <4>2, <4>3
    <3>2. CASE i = k
      <4>1. i # 1 => i - 1 \in 1 .. k /\ i - 1 < k
        BY <3>2
      <4> QED
        BY <3>2, <4>1
    <3> QED
      BY <3>1, <3>2
  <2>3. Upto(k, h)
    BY <2>2
  <2> HIDE DEF h, Upto
  <2>4. k \in 0 .. n
    BY <1>1
  <2> QED
    BY <2>3, <2>4, Zenon
<1> HIDE DEF P
<1>4. P = 0 .. n
  BY <1>1, <1>2, <1>3, Induction DEF P
<1>5. \E f : Upto(n, f)
  <2> HIDE DEF Upto
  <2>1. n \in P
    BY <1>1, <1>4
  <2> QED
    BY <2>1, Zenon DEF P
<1> QED
  BY <1>5 DEF Flattens

(* One part more.                                                          *)
LEMMA FlattenAppend ==
  ASSUME NEW p \in Seq(Texts), Len(p) # 0, NEW q \in Seq(Texts), Len(q) = Len(p) + 1,
         \A i \in 1 .. Len(p) : q[i] = p[i]
  PROVE  FlattenSeq(q) = FlattenSeq(p) \o q[Len(q)]
<1> DEFINE k == Len(p)
<1>1. k \in Nat /\ k # 0 /\ Len(q) = k + 1
  OBVIOUS
<1>2. PICK f : Flattens(q, f)
  BY FlattenExists
<1>3. \A i \in 1 .. k + 1 : f[i] = IF i = 1 THEN q[i] ELSE f[i - 1] \o q[i]
  BY <1>1, <1>2 DEF Flattens
<1> DEFINE e == [i \in 1 .. k |-> f[i]]
<1>4. ASSUME NEW i \in 1 .. k PROVE e[i] = IF i = 1 THEN p[i] ELSE e[i - 1] \o p[i]
  <2>1. i \in 1 .. k + 1 /\ (i # 1 => i - 1 \in 1 .. k)
    BY <1>1
  <2> QED
    BY <1>3, <2>1
<1>5. Flattens(p, e)
  BY <1>4 DEF Flattens
<1>6. e[k] = f[k] /\ f[k + 1] = f[k] \o q[k + 1]
  <2>1. k \in 1 .. k /\ k + 1 \in 1 .. k + 1 /\ k + 1 # 1 /\ (k + 1) - 1 = k
    BY <1>1
  <2> QED
    BY <1>3, <2>1
<1> HIDE DEF e
<1>7. FlattenSeq(p) = e[k] /\ FlattenSeq(q) = f[k + 1]
  BY <1>1, <1>2, <1>5, FlattenBy
<1> QED
  BY <1>1, <1>6, <1>7

(* One part alone.                                                         *)
LEMMA FlattenOne ==
  ASSUME NEW q \in Seq(Texts), Len(q) = 1
  PROVE  FlattenSeq(q) = q[1]
<1>1. PICK f : Flattens(q, f)
  BY FlattenExists
<1>2. f[1] = q[1]
  BY <1>1 DEF Flattens
<1>3. Len(q) # 0
  OBVIOUS
<1>4. FlattenSeq(q) = f[Len(q)]
  BY <1>1, <1>3, FlattenBy, Zenon
<1> QED
  BY <1>2, <1>4

----------------------------------------------------------------------------
(* The events of a text: what appending one does to what they mean.        *)

Events == [on : {"object", "array", "end", "scalar"}] \cup [on : {"part", "key"}, text : Texts]

(* The parts of keys have a text.                                          *)
LEMMA EventText ==
  \A e \in Events : /\ e.on \in {"object", "array", "end", "scalar", "part", "key"}
                    /\ e.on \in {"part", "key"} => e.text \in Texts
  BY DEF Events

(* One event more.                                                         *)
LEMMA OneMore ==
  ASSUME NEW doc \in Seq(Events), NEW e \in Events
  PROVE  /\ Append(doc, e) \in Seq(Events) /\ Len(Append(doc, e)) = Len(doc) + 1
         /\ \A i \in 1 .. Len(doc) : Append(doc, e)[i] = doc[i] /\ doc[i] \in Events
         /\ Append(doc, e)[Len(doc) + 1] = e
  OBVIOUS

(* The handler's states.                                                   *)
IsRun(doc, f) == f = [i \in 0 .. Len(doc) |-> IF i = 0 THEN NoFrames ELSE On(f[i - 1], doc[i])]

(* Validator is the last of these states,                                  *)
LEMMA ValidatorBy ==
  ASSUME NEW doc \in Seq(Events), NEW f, IsRun(doc, f)
  PROVE  Validator(doc) = f[Len(doc)]
<1> DEFINE n == Len(doc)
           h == CHOOSE g : IsRun(doc, g)
<1>1. n \in Nat
  OBVIOUS
<1>2. IsRun(doc, h)
  BY Zenon
<1>3. Validator(doc) = h[n]
  BY Zenon DEF Validator, IsRun
<1> HIDE DEF h
<1> DEFINE P == {i \in 0 .. n : f[i] = h[i]}
<1>4. 0 \in P
  <2>1. 0 \in 0 .. n
    BY <1>1
  <2>2. f[0] = NoFrames /\ h[0] = NoFrames
    BY <1>2, <2>1 DEF IsRun
  <2> QED
    BY <2>1, <2>2
<1>5. ASSUME NEW k \in 1 .. n, k - 1 \in P PROVE k \in P
  <2>1. k \in 0 .. n /\ k # 0
    BY <1>1
  <2>2. f[k] = On(f[k - 1], doc[k]) /\ h[k] = On(h[k - 1], doc[k])
    BY <1>2, <2>1 DEF IsRun
  <2> QED
    BY <1>5, <2>1, <2>2
<1> HIDE DEF P
<1>6. P = 0 .. n
  BY <1>1, <1>4, <1>5, Induction DEF P
<1>7. f[n] = h[n]
  BY <1>1, <1>6 DEF P
<1> QED
  BY <1>3, <1>7

(* and one event more is one call of the handler more.                     *)
LEMMA ValidatorAppend ==
  ASSUME NEW doc \in Seq(Events), NEW e \in Events, \E f : IsRun(doc, f)
  PROVE  /\ \E f : IsRun(Append(doc, e), f)
         /\ Validator(Append(doc, e)) = On(Validator(doc), e)
<1> DEFINE n == Len(doc)
           more == Append(doc, e)
<1>1. n \in Nat /\ more \in Seq(Events) /\ Len(more) = n + 1 /\ more[n + 1] = e
      /\ \A i \in 1 .. n : more[i] = doc[i]
  BY OneMore
<1> HIDE DEF more
<1>2. PICK f : IsRun(doc, f)
  OBVIOUS
<1> DEFINE h == [i \in 0 .. n + 1 |-> IF i <= n THEN f[i] ELSE On(f[n], e)]
<1>3. ASSUME NEW i \in 0 .. n + 1 PROVE h[i] = IF i = 0 THEN NoFrames ELSE On(h[i - 1], more[i])
  <2>1. CASE i <= n
    <3>1. i \in 0 .. n /\ h[i] = f[i] /\ (i # 0 => h[i - 1] = f[i - 1] /\ more[i] = doc[i])
      BY <1>1, <2>1
    <3>2. f[i] = IF i = 0 THEN NoFrames ELSE On(f[i - 1], doc[i])
      BY <1>2, <3>1 DEF IsRun
    <3> QED
      BY <3>1, <3>2
  <2>2. CASE i = n + 1
    <3>1. i # 0 /\ h[i] = On(f[n], e) /\ i - 1 = n /\ h[n] = f[n]
      BY <1>1, <2>2
    <3> QED
      BY <1>1, <2>2, <3>1
  <2> QED
    BY <1>1, <2>1, <2>2
<1>4. IsRun(more, h)
  BY <1>1, <1>3 DEF IsRun
<1>5. h[n + 1] = On(f[n], e)
  BY <1>1
<1> HIDE DEF h
<1>6. Validator(doc) = f[n] /\ Validator(more) = h[n + 1]
  BY <1>1, <1>2, <1>4, ValidatorBy
<1> QED
  BY <1>4, <1>5, <1>6 DEF more

(* The same for the grammar.                                               *)
IsNest(doc, f) == f = [i \in 0 .. Len(doc) |-> IF i = 0 THEN <<>> ELSE Grow(f[i - 1], doc[i])]

(* Nest is the last of these states,                                       *)
LEMMA NestBy ==
  ASSUME NEW doc \in Seq(Events), NEW f, IsNest(doc, f)
  PROVE  Nest(doc) = f[Len(doc)]
<1> DEFINE n == Len(doc)
           h == CHOOSE g : IsNest(doc, g)
<1>1. n \in Nat
  OBVIOUS
<1>2. IsNest(doc, h)
  BY Zenon
<1>3. Nest(doc) = h[n]
  BY Zenon DEF Nest, IsNest
<1> HIDE DEF h
<1> DEFINE P == {i \in 0 .. n : f[i] = h[i]}
<1>4. 0 \in P
  <2>1. 0 \in 0 .. n
    BY <1>1
  <2>2. f[0] = <<>> /\ h[0] = <<>>
    BY <1>2, <2>1 DEF IsNest
  <2> QED
    BY <2>1, <2>2
<1>5. ASSUME NEW k \in 1 .. n, k - 1 \in P PROVE k \in P
  <2>1. k \in 0 .. n /\ k # 0
    BY <1>1
  <2>2. f[k] = Grow(f[k - 1], doc[k]) /\ h[k] = Grow(h[k - 1], doc[k])
    BY <1>2, <2>1 DEF IsNest
  <2> QED
    BY <1>5, <2>1, <2>2
<1> HIDE DEF P
<1>6. P = 0 .. n
  BY <1>1, <1>4, <1>5, Induction DEF P
<1>7. f[n] = h[n]
  BY <1>1, <1>6 DEF P
<1> QED
  BY <1>3, <1>7

(* and one event more is one step of the grammar more.                     *)
LEMMA NestAppend ==
  ASSUME NEW doc \in Seq(Events), NEW e \in Events, \E f : IsNest(doc, f)
  PROVE  /\ \E f : IsNest(Append(doc, e), f)
         /\ Nest(Append(doc, e)) = Grow(Nest(doc), e)
<1> DEFINE n == Len(doc)
           more == Append(doc, e)
<1>1. n \in Nat /\ more \in Seq(Events) /\ Len(more) = n + 1 /\ more[n + 1] = e
      /\ \A i \in 1 .. n : more[i] = doc[i]
  BY OneMore
<1> HIDE DEF more
<1>2. PICK f : IsNest(doc, f)
  OBVIOUS
<1> DEFINE h == [i \in 0 .. n + 1 |-> IF i <= n THEN f[i] ELSE Grow(f[n], e)]
<1>3. ASSUME NEW i \in 0 .. n + 1 PROVE h[i] = IF i = 0 THEN <<>> ELSE Grow(h[i - 1], more[i])
  <2>1. CASE i <= n
    <3>1. i \in 0 .. n /\ h[i] = f[i] /\ (i # 0 => h[i - 1] = f[i - 1] /\ more[i] = doc[i])
      BY <1>1, <2>1
    <3>2. f[i] = IF i = 0 THEN <<>> ELSE Grow(f[i - 1], doc[i])
      BY <1>2, <3>1 DEF IsNest
    <3> QED
      BY <3>1, <3>2
  <2>2. CASE i = n + 1
    <3>1. i # 0 /\ h[i] = Grow(f[n], e) /\ i - 1 = n /\ h[n] = f[n]
      BY <1>1, <2>2
    <3> QED
      BY <1>1, <2>2, <3>1
  <2> QED
    BY <1>1, <2>1, <2>2
<1>4. IsNest(more, h)
  BY <1>1, <1>3 DEF IsNest
<1>5. h[n + 1] = Grow(f[n], e)
  BY <1>1
<1> HIDE DEF h
<1>6. Nest(doc) = f[n] /\ Nest(more) = h[n + 1]
  BY <1>1, <1>2, <1>4, NestBy
<1> QED
  BY <1>4, <1>5, <1>6 DEF more

(* How deep a place is.                                                    *)
Rise(e) == IF e.on \in {"object", "array"} THEN 1 ELSE IF e.on = "end" THEN -1 ELSE 0

(* Later events do not change the level of a place.                        *)
LEMMA LevelSame ==
  ASSUME NEW doc \in Seq(Events), NEW e \in Events, NEW i \in 0 .. Len(doc)
  PROVE  Level(Append(doc, e), i) = Level(doc, i)
<1> DEFINE more == Append(doc, e)
<1>1. \A k \in 1 .. i : more[k] = doc[k]
  BY OneMore
<1> HIDE DEF more
<1>2. {k \in 1 .. i : more[k].on \in {"object", "array"}} = {k \in 1 .. i : doc[k].on \in {"object", "array"}}
  BY <1>1
<1>3. {k \in 1 .. i : more[k].on = "end"} = {k \in 1 .. i : doc[k].on = "end"}
  BY <1>1
<1> QED
  BY <1>2, <1>3 DEF Level, more

(* An event changes the level by its rise.                                 *)
LEMMA LevelStep ==
  ASSUME NEW doc \in Seq(Events), NEW i \in 1 .. Len(doc)
  PROVE  Level(doc, i - 1) \in Int /\ Level(doc, i) = Level(doc, i - 1) + Rise(doc[i])
<1> DEFINE A(k) == {j \in 1 .. k : doc[j].on \in {"object", "array"}}
           B(k) == {j \in 1 .. k : doc[j].on = "end"}
<1>1. i \in Nat /\ i - 1 \in Nat
  OBVIOUS
<1>2. IsFiniteSet(A(i - 1)) /\ IsFiniteSet(B(i - 1))
  <2>1. IsFiniteSet(1 .. i - 1)
    BY <1>1, FS_Interval
  <2>2. A(i - 1) \subseteq 1 .. i - 1 /\ B(i - 1) \subseteq 1 .. i - 1
    OBVIOUS
  <2> HIDE DEF A, B
  <2> QED
    BY <2>1, <2>2, FS_Subset
<1>3. A(i) = (IF doc[i].on \in {"object", "array"} THEN A(i - 1) \cup {i} ELSE A(i - 1))
  BY <1>1
<1>4. B(i) = (IF doc[i].on = "end" THEN B(i - 1) \cup {i} ELSE B(i - 1))
  BY <1>1
<1>5. i \notin A(i - 1) /\ i \notin B(i - 1)
  BY <1>1
<1>6. Level(doc, i) = Cardinality(A(i)) - Cardinality(B(i)) /\ Level(doc, i - 1) = Cardinality(A(i - 1)) - Cardinality(B(i - 1))
  BY Zenon DEF Level
<1> HIDE DEF A, B
<1>7. Cardinality(A(i - 1)) \in Nat /\ Cardinality(B(i - 1)) \in Nat
  BY <1>2, FS_CardinalityType
<1>8. Cardinality(A(i)) = Cardinality(A(i - 1)) + IF doc[i].on \in {"object", "array"} THEN 1 ELSE 0
  <2>1. Cardinality(A(i - 1) \cup {i}) = Cardinality(A(i - 1)) + 1
    BY <1>2, <1>5, FS_AddElement
  <2> QED
    BY <1>3, <1>7, <2>1
<1>9. Cardinality(B(i)) = Cardinality(B(i - 1)) + IF doc[i].on = "end" THEN 1 ELSE 0
  <2>1. Cardinality(B(i - 1) \cup {i}) = Cardinality(B(i - 1)) + 1
    BY <1>2, <1>5, FS_AddElement
  <2> QED
    BY <1>4, <1>7, <2>1
<1>10. ~(doc[i].on \in {"object", "array"} /\ doc[i].on = "end")
  OBVIOUS
<1> QED
  BY <1>6, <1>7, <1>8, <1>9, <1>10 DEF Rise

(* Nothing is open before the first event.                                 *)
LEMMA LevelZero == \A doc : Level(doc, 0) = 0
<1> TAKE doc
<1>1. {k \in 1 .. 0 : doc[k].on \in {"object", "array"}} = {} /\ {k \in 1 .. 0 : doc[k].on = "end"} = {}
  OBVIOUS
<1>2. Cardinality({}) = 0
  BY FS_EmptySet
<1> QED
  BY <1>1, <1>2 DEF Level

(* A level is a number.                                                    *)
LEMMA LevelInt ==
  ASSUME NEW doc \in Seq(Events), NEW i \in 0 .. Len(doc)
  PROVE  Level(doc, i) \in Int
<1>1. CASE i = 0
  BY <1>1, LevelZero
<1>2. CASE i # 0
  <2>1. i \in 1 .. Len(doc) /\ Rise(doc[i]) \in Int
    BY <1>2 DEF Rise
  <2> QED
    BY <2>1, LevelStep
<1> QED
  BY <1>1, <1>2

(* The level after one event more.                                         *)
LEMMA LevelAppend ==
  ASSUME NEW doc \in Seq(Events), NEW e \in Events
  PROVE  Level(Append(doc, e), Len(doc) + 1) = Level(doc, Len(doc)) + Rise(e)
<1> DEFINE n == Len(doc)
           more == Append(doc, e)
<1>1. n \in Nat /\ more \in Seq(Events) /\ Len(more) = n + 1 /\ more[n + 1] = e
  BY OneMore
<1>2. Level(more, n) = Level(doc, n)
  BY <1>1, LevelSame
<1> HIDE DEF more
<1>3. n + 1 \in 1 .. Len(more) /\ (n + 1) - 1 = n
  BY <1>1
<1>4. Level(more, n + 1) = Level(more, n) + Rise(e)
  BY <1>1, <1>3, LevelStep
<1> QED
  BY <1>2, <1>4 DEF more

----------------------------------------------------------------------------
(* The key that ends at an event.                                          *)

(* The parts of the key at i start at f.                                   *)
KeyStart(doc, i, f) == f \in 2 .. i /\ doc[f - 1].on # "part" /\ \A g \in f .. i - 1 : doc[g].on = "part"

(* The parts of a key start at one place,                                  *)
LEMMA KeyFrom ==
  ASSUME NEW doc, NEW i \in Nat, NEW f, KeyStart(doc, i, f)
  PROVE  KeyAt(doc, i) = FlattenSeq([m \in 1 .. i - f + 1 |-> doc[f + m - 1].text])
<1> DEFINE first == CHOOSE g \in 2 .. i : /\ doc[g - 1].on # "part"
                                          /\ \A h \in g .. i - 1 : doc[h].on = "part"
<1>1. KeyStart(doc, i, first)
  BY Zenon DEF KeyStart
<1>2. KeyAt(doc, i) = FlattenSeq([m \in 1 .. i - first + 1 |-> doc[first + m - 1].text])
  BY Zenon DEF KeyAt
<1> HIDE DEF first
<1>3. ~(first < f)
  <2>1. ASSUME first < f PROVE FALSE
    <3>1. f - 1 \in first .. i - 1
      BY <1>1, <2>1 DEF KeyStart
    <3> QED
      BY <1>1, <3>1 DEF KeyStart
  <2> QED
    BY <2>1
<1>4. ~(f < first)
  <2>1. ASSUME f < first PROVE FALSE
    <3>1. first - 1 \in f .. i - 1
      BY <1>1, <2>1 DEF KeyStart
    <3> QED
      BY <1>1, <3>1 DEF KeyStart
  <2> QED
    BY <2>1
<1>5. first = f
  BY <1>1, <1>3, <1>4 DEF KeyStart
<1> QED
  BY <1>2, <1>5

(* and there is one.                                                       *)
LEMMA KeyStarts ==
  ASSUME NEW doc \in Seq(Events), NEW n \in Nat, n <= Len(doc) + 1, doc[1].on # "part",
         NEW i \in 2 .. n
  PROVE  \E f : KeyStart(doc, i, f)
<1> DEFINE P == {k \in 0 .. n : k < 2 \/ \E f : KeyStart(doc, k, f)}
<1>1. 0 \in P
  OBVIOUS
<1>2. ASSUME NEW k \in 1 .. n, k - 1 \in P PROVE k \in P
  <2>1. CASE k < 2
    BY <2>1
  <2>2. CASE k >= 2 /\ doc[k - 1].on # "part"
    <3>1. KeyStart(doc, k, k)
      BY <2>2 DEF KeyStart
    <3> QED
      BY <3>1
  <2>3. CASE k >= 2 /\ doc[k - 1].on = "part"
    <3>1. k # 2
      BY <2>3
    <3>2. PICK f : KeyStart(doc, k - 1, f)
      BY <1>2, <2>3, <3>1
    <3>3. f \in 2 .. k - 1 /\ doc[f - 1].on # "part" /\ \A g \in f .. (k - 1) - 1 : doc[g].on = "part"
      BY <3>2 DEF KeyStart
    <3>4. \A g \in f .. k - 1 : g \in f .. (k - 1) - 1 \/ g = k - 1
      BY <3>3
    <3>5. KeyStart(doc, k, f)
      BY <2>3, <3>3, <3>4 DEF KeyStart
    <3> QED
      BY <3>5
  <2> QED
    BY <2>1, <2>2, <2>3
<1> HIDE DEF P
<1>3. P = 0 .. n
  BY <1>1, <1>2, Induction DEF P
<1>4. i \in P /\ ~(i < 2)
  BY <1>3
<1> QED
  BY <1>4 DEF P

(* An event that follows changes no key.                                   *)
LEMMA KeySame ==
  ASSUME NEW doc \in Seq(Events), NEW e \in Events, doc[1].on # "part", NEW i \in 2 .. Len(doc)
  PROVE  KeyAt(Append(doc, e), i) = KeyAt(doc, i)
<1> DEFINE more == Append(doc, e)
<1>1. \A k \in 1 .. Len(doc) : more[k] = doc[k]
  BY OneMore
<1>2. i \in Nat /\ Len(doc) \in Nat /\ Len(doc) <= Len(doc) + 1
  OBVIOUS
<1>3. PICK f : KeyStart(doc, i, f)
  BY <1>2, KeyStarts
<1> HIDE DEF more
<1>4. KeyStart(more, i, f)
  <2>1. f \in 2 .. i /\ f - 1 \in 1 .. Len(doc) /\ \A g \in f .. i - 1 : g \in 1 .. Len(doc)
    BY <1>3 DEF KeyStart
  <2> QED
    BY <1>1, <1>3, <2>1 DEF KeyStart
<1>5. [m \in 1 .. i - f + 1 |-> more[f + m - 1].text] = [m \in 1 .. i - f + 1 |-> doc[f + m - 1].text]
  <2>1. \A m \in 1 .. i - f + 1 : f + m - 1 \in 1 .. Len(doc)
    BY <1>3 DEF KeyStart
  <2> QED
    BY <1>1, <2>1
<1>6. KeyAt(more, i) = FlattenSeq([m \in 1 .. i - f + 1 |-> more[f + m - 1].text])
  BY <1>2, <1>4, KeyFrom
<1>7. KeyAt(doc, i) = FlattenSeq([m \in 1 .. i - f + 1 |-> doc[f + m - 1].text])
  BY <1>2, <1>3, KeyFrom
<1> QED
  BY <1>5, <1>6, <1>7 DEF more

(* The key that ends with e: what the parts before it have, and e.         *)
LEMMA KeyAppend ==
  ASSUME NEW doc \in Seq(Events), doc # <<>>, NEW e \in Events, e.on \in {"part", "key"}, doc[1].on # "part"
  PROVE  KeyAt(Append(doc, e), Len(doc) + 1) =
           IF doc[Len(doc)].on = "part" THEN KeyAt(doc, Len(doc)) \o e.text ELSE e.text
<1> DEFINE n == Len(doc)
           more == Append(doc, e)
<1>1. n \in Nat /\ n # 0 /\ more \in Seq(Events) /\ Len(more) = n + 1 /\ more[n + 1] = e
      /\ \A k \in 1 .. n : more[k] = doc[k] /\ doc[k] \in Events
  BY OneMore
<1>2. e.text \in Texts
  BY EventText
<1> HIDE DEF more
<1>3. CASE doc[n].on # "part"
  <2>1. KeyStart(more, n + 1, n + 1)
    BY <1>1, <1>3 DEF KeyStart
  <2> DEFINE q == [m \in 1 .. (n + 1) - (n + 1) + 1 |-> more[(n + 1) + m - 1].text]
  <2>2. q \in Seq(Texts) /\ Len(q) = 1 /\ q[1] = e.text
    BY <1>1, <1>2
  <2>3. KeyAt(more, n + 1) = FlattenSeq(q)
    <3>1. n + 1 \in Nat
      BY <1>1
    <3> QED
      BY <2>1, <3>1, KeyFrom
  <2> HIDE DEF q
  <2> QED
    BY <1>3, <2>2, <2>3, FlattenOne DEF more
<1>4. CASE doc[n].on = "part"
  <2>1. n \in 2 .. n /\ n <= n + 1
    BY <1>1, <1>4
  <2>2. PICK f : KeyStart(doc, n, f)
    BY <1>1, <2>1, KeyStarts
  <2>3. f \in 2 .. n /\ doc[f - 1].on # "part" /\ \A g \in f .. n - 1 : doc[g].on = "part"
    BY <2>2 DEF KeyStart
  <2>4. \A g \in f .. n : doc[g].on = "part" /\ g \in 1 .. n
    <3>1. \A g \in f .. n : (g \in f .. n - 1 \/ g = n) /\ g \in 1 .. n
      BY <1>1, <2>3
    <3> QED
      BY <1>4, <2>3, <3>1
  <2>5. KeyStart(more, n + 1, f)
    <3>1. f \in 2 .. n + 1 /\ f - 1 \in 1 .. n /\ (n + 1) - 1 = n
      BY <1>1, <2>3
    <3> QED
      BY <1>1, <2>3, <2>4, <3>1 DEF KeyStart
  <2> DEFINE p == [m \in 1 .. n - f + 1 |-> doc[f + m - 1].text]
             q == [m \in 1 .. (n + 1) - f + 1 |-> more[f + m - 1].text]
             k == n - f + 1
  <2>6. k \in Nat /\ k # 0 /\ (n + 1) - f + 1 = k + 1 /\ f + (k + 1) - 1 = n + 1
    BY <1>1, <2>3
  <2>7. \A m \in 1 .. k : f + m - 1 \in f .. n /\ f + m - 1 \in 1 .. n
    BY <1>1, <2>3
  <2>8. \A m \in 1 .. k : p[m] \in Texts /\ q[m] = p[m]
    <3>1. ASSUME NEW m \in 1 .. k PROVE p[m] \in Texts /\ q[m] = p[m]
      <4>1. doc[f + m - 1].on = "part" /\ doc[f + m - 1] \in Events /\ more[f + m - 1] = doc[f + m - 1]
        BY <1>1, <2>4, <2>7
      <4>2. doc[f + m - 1].text \in Texts
        BY <4>1, EventText
      <4>3. m \in 1 .. (n + 1) - f + 1
        BY <2>6
      <4> QED
        BY <4>1, <4>2, <4>3
    <3> QED
      BY <3>1
  <2>9. q[k + 1] = e.text
    BY <1>1, <2>6
  <2>10. p \in Seq(Texts) /\ Len(p) = k
    <3>1. p \in [1 .. k -> Texts]
      BY <2>8
    <3> HIDE DEF p, k
    <3> QED
      BY <2>6, <3>1
  <2>11. q \in Seq(Texts) /\ Len(q) = k + 1
    <3>1. \A m \in 1 .. k + 1 : m \in 1 .. k \/ m = k + 1
      BY <2>6
    <3>2. \A m \in 1 .. k + 1 : q[m] \in Texts
      BY <1>2, <2>8, <2>9, <3>1
    <3>3. q \in [1 .. k + 1 -> Texts]
      BY <2>6, <3>2
    <3> HIDE DEF q, k
    <3> QED
      BY <2>6, <3>3
  <2>12. KeyAt(doc, n) = FlattenSeq(p) /\ KeyAt(more, n + 1) = FlattenSeq(q)
    BY <1>1, <2>2, <2>5, KeyFrom
  <2> HIDE DEF p, q, k
  <2>13. FlattenSeq(q) = FlattenSeq(p) \o q[Len(q)]
    <3>1. Len(p) # 0 /\ Len(q) = Len(p) + 1 /\ \A m \in 1 .. Len(p) : q[m] = p[m]
      BY <2>6, <2>8, <2>10, <2>11
    <3> QED
      BY <2>10, <2>11, <3>1, FlattenAppend
  <2> QED
    BY <1>4, <2>9, <2>11, <2>12, <2>13 DEF more
<1> QED
  BY <1>3, <1>4

----------------------------------------------------------------------------
(* The keys of the object that is open at a depth, and repeated keys.      *)

InScope(doc, d) ==
  {i \in 1 .. Len(doc) : /\ doc[i].on = "key" /\ Level(doc, i) = d
                         /\ \A k \in i .. Len(doc) : Level(doc, k) >= d}
KeysIn(doc, d) == {KeyAt(doc, i) : i \in InScope(doc, d)}

(* The keys in scope after one event more.                                 *)
LEMMA ScopeAppend ==
  ASSUME NEW doc \in Seq(Events), NEW e \in Events, NEW d \in Int
  PROVE  InScope(Append(doc, e), d) =
           {i \in InScope(doc, d) : Level(doc, Len(doc)) + Rise(e) >= d}
             \cup (IF e.on = "key" /\ Level(doc, Len(doc)) + Rise(e) = d THEN {Len(doc) + 1} ELSE {})
<1> DEFINE n == Len(doc)
           more == Append(doc, e)
           top == Level(doc, n) + Rise(e)
<1>1. n \in Nat /\ Len(more) = n + 1 /\ more[n + 1] = e /\ \A k \in 1 .. n : more[k] = doc[k]
  BY OneMore
<1>2. \A k \in 1 .. n : Level(more, k) = Level(doc, k)
  BY <1>1, LevelSame
<1>3. Level(more, n + 1) = top
  BY LevelAppend
<1> HIDE DEF more, top
<1>4. ASSUME NEW i \in 1 .. n
      PROVE  i \in InScope(more, d) <=> i \in InScope(doc, d) /\ top >= d
  <2>1. i \in 1 .. n + 1 /\ n + 1 \in i .. n + 1 /\ i .. n + 1 = (i .. n) \cup {n + 1} /\ \A k \in i .. n : k \in 1 .. n
    BY <1>1
  <2>2. (\A k \in i .. n + 1 : Level(more, k) >= d) <=> (\A k \in i .. n : Level(doc, k) >= d) /\ top >= d
    BY <1>2, <1>3, <2>1
  <2> QED
    BY <1>1, <1>2, <2>1, <2>2 DEF InScope
<1>5. n + 1 \in InScope(more, d) <=> e.on = "key" /\ top = d
  <2>1. n + 1 \in 1 .. n + 1 /\ (n + 1) .. (n + 1) = {n + 1}
    BY <1>1
  <2>2. top = d => top >= d
    OBVIOUS
  <2> QED
    BY <1>1, <1>3, <2>1, <2>2 DEF InScope
<1>6. InScope(more, d) \subseteq 1 .. n + 1 /\ InScope(doc, d) \subseteq 1 .. n
  BY <1>1 DEF InScope
<1>7. n + 1 \notin 1 .. n /\ 1 .. n + 1 = (1 .. n) \cup {n + 1}
  BY <1>1
<1> HIDE DEF n
<1>8. ASSUME NEW i
      PROVE  i \in InScope(more, d) <=>
               i \in {j \in InScope(doc, d) : top >= d} \cup (IF e.on = "key" /\ top = d THEN {n + 1} ELSE {})
  <2>1. CASE i \in 1 .. n
    BY <1>4, <1>7, <2>1
  <2>2. CASE i = n + 1
    BY <1>5, <1>6, <1>7, <2>2
  <2>3. CASE i \notin 1 .. n + 1
    BY <1>6, <1>7, <2>3
  <2> QED
    BY <1>7, <2>1, <2>2, <2>3
<1> QED
  BY <1>8 DEF more, top, n

(* A key in scope is not the first event, nor deeper than the end.         *)
LEMMA ScopeBounds ==
  ASSUME NEW doc \in Seq(Events), doc # <<>> => doc[1].on # "key", NEW d, NEW i \in InScope(doc, d)
  PROVE  i \in 2 .. Len(doc) /\ doc # <<>> /\ doc[i].on = "key" /\ Level(doc, Len(doc)) >= d
<1>1. i \in 1 .. Len(doc) /\ doc[i].on = "key" /\ \A k \in i .. Len(doc) : Level(doc, k) >= d
  BY DEF InScope
<1>2. doc # <<>> /\ Len(doc) \in i .. Len(doc)
  BY <1>1
<1>3. i # 1
  BY <1>1, <1>2
<1> QED
  BY <1>1, <1>2, <1>3

(* The keys that are in scope do not change unless e is one or ends their  *)
(* object.                                                                 *)
LEMMA KeysAppend ==
  ASSUME NEW doc \in Seq(Events), doc # <<>> => doc[1].on \notin {"part", "key"}, NEW e \in Events,
         NEW d \in Int, Level(doc, Len(doc)) + Rise(e) >= d
  PROVE  KeysIn(Append(doc, e), d) =
           KeysIn(doc, d) \cup (IF e.on = "key" /\ Level(doc, Len(doc)) + Rise(e) = d
                                THEN {KeyAt(Append(doc, e), Len(doc) + 1)} ELSE {})
<1> DEFINE n == Len(doc)
           more == Append(doc, e)
           last == e.on = "key" /\ Level(doc, Len(doc)) + Rise(e) = d
<1>1. InScope(more, d) = InScope(doc, d) \cup IF last THEN {n + 1} ELSE {}
  BY ScopeAppend
<1>2. \A i \in InScope(doc, d) : KeyAt(more, i) = KeyAt(doc, i)
  <2>1. ASSUME NEW i \in InScope(doc, d) PROVE KeyAt(more, i) = KeyAt(doc, i)
    <3>1. i \in 2 .. Len(doc) /\ doc # <<>>
      BY ScopeBounds
    <3> QED
      BY <3>1, KeySame
  <2> QED
    BY <2>1
<1> HIDE DEF more, n, last
<1> QED
  BY <1>1, <1>2, Zenon DEF KeysIn, more, n, last

(* No key is in scope at a depth that is not open.                         *)
LEMMA NothingDeeper ==
  ASSUME NEW doc \in Seq(Events), doc # <<>> => doc[1].on # "key", NEW d \in Int, Level(doc, Len(doc)) < d
  PROVE  KeysIn(doc, d) = {}
<1>1. Level(doc, Len(doc)) \in Int
  BY LevelInt
<1>2. InScope(doc, d) = {}
  BY <1>1, ScopeBounds
<1> QED
  BY <1>2 DEF KeysIn

(* A repeated key is one that is in scope when it comes again.             *)
LEMMA RepeatsAppend ==
  ASSUME NEW doc \in Seq(Events), doc # <<>> => doc[1].on \notin {"part", "key"}, NEW e \in Events
  PROVE  Repeats(Append(doc, e)) <=>
           Repeats(doc) \/ (e.on = "key" /\ KeyAt(Append(doc, e), Len(doc) + 1) \in KeysIn(doc, Level(doc, Len(doc))))
<1> DEFINE n == Len(doc)
           more == Append(doc, e)
           top == Level(doc, n)
           Same(x, i, j) == i < j /\ x[i].on = "key" /\ x[j].on = "key" /\ SameObject(x, i, j) /\ KeyAt(x, i) = KeyAt(x, j)
<1>1. n \in Nat /\ more \in Seq(Events) /\ Len(more) = n + 1 /\ more[n + 1] = e /\ \A k \in 1 .. n : more[k] = doc[k]
  BY OneMore
<1>2. \A k \in 1 .. n : Level(more, k) = Level(doc, k)
  BY <1>1, LevelSame
<1>3. top \in Int /\ (e.on = "key" => Level(more, n + 1) = top)
  <2>1. top \in Int
    BY <1>1, LevelInt
  <2>2. Level(more, n + 1) = top + Rise(e)
    BY LevelAppend
  <2> QED
    BY <2>1, <2>2 DEF Rise
<1>4. \A i \in 1 .. n : doc[i].on = "key" => i \in 2 .. n /\ KeyAt(more, i) = KeyAt(doc, i)
  <2>1. ASSUME NEW i \in 1 .. n, doc[i].on = "key" PROVE i \in 2 .. n /\ KeyAt(more, i) = KeyAt(doc, i)
    <3>1. doc # <<>> /\ i # 1
      BY <2>1
    <3>2. i \in 2 .. Len(doc)
      BY <3>1
    <3> QED
      BY <3>1, <3>2, KeySame
  <2> QED
    BY <2>1
<1> HIDE DEF more, top
<1>5. ASSUME NEW i \in 1 .. n, NEW j \in 1 .. n PROVE Same(more, i, j) <=> Same(doc, i, j)
  <2>1. \A k \in i .. j : k \in 1 .. n
    BY <1>1
  <2>2. SameObject(more, i, j) <=> SameObject(doc, i, j)
    BY <1>2, <2>1 DEF SameObject
  <2> QED
    BY <1>1, <1>4, <2>2
<1>6. ASSUME NEW i \in 1 .. n
      PROVE  Same(more, i, n + 1) <=> e.on = "key" /\ i \in InScope(doc, top) /\ KeyAt(doc, i) = KeyAt(more, n + 1)
  <2>1. i < n + 1 /\ i .. n + 1 = (i .. n) \cup {n + 1} /\ \A k \in i .. n : k \in 1 .. n
    BY <1>1
  <2>2. e.on = "key" => (SameObject(more, i, n + 1) <=> Level(doc, i) = top /\ \A k \in i .. n : Level(doc, k) >= top)
    <3>1. top >= top
      BY <1>3
    <3> QED
      BY <1>2, <1>3, <2>1, <3>1 DEF SameObject
  <2> QED
    BY <1>1, <1>4, <2>1, <2>2 DEF InScope
<1>7. Repeats(doc) <=> \E i, j \in 1 .. n : Same(doc, i, j)
  BY <1>1 DEF Repeats
<1>8. Repeats(more) <=> \E i, j \in 1 .. n + 1 : Same(more, i, j)
  BY <1>1 DEF Repeats
<1>9. \A i, j \in 1 .. n + 1 : i < j => i \in 1 .. n /\ (j \in 1 .. n \/ j = n + 1)
  BY <1>1
<1>10. \A i \in 1 .. n : i \in 1 .. n + 1
  BY <1>1
<1>11. n + 1 \in 1 .. n + 1
  BY <1>1
<1>12. \A i, j : Same(more, i, j) => i < j
  OBVIOUS
<1>13. \A i \in InScope(doc, top) : i \in 1 .. n
  BY DEF InScope
<1> HIDE DEF Same, n
<1>14. (\E i, j \in 1 .. n + 1 : Same(more, i, j)) <=>
         (\E i, j \in 1 .. n : Same(doc, i, j)) \/ (\E i \in 1 .. n : Same(more, i, n + 1))
  <2>1. ASSUME \E i, j \in 1 .. n + 1 : Same(more, i, j)
        PROVE  (\E i, j \in 1 .. n : Same(doc, i, j)) \/ (\E i \in 1 .. n : Same(more, i, n + 1))
    <3>1. PICK i \in 1 .. n + 1, j \in 1 .. n + 1 : Same(more, i, j)
      BY <2>1
    <3>2. i \in 1 .. n /\ (j \in 1 .. n \/ j = n + 1)
      BY <1>9, <1>12, <3>1
    <3> QED
      BY <1>5, <3>1, <3>2
  <2>2. ASSUME \E i, j \in 1 .. n : Same(doc, i, j)
        PROVE  \E i, j \in 1 .. n + 1 : Same(more, i, j)
    <3>1. PICK i \in 1 .. n, j \in 1 .. n : Same(doc, i, j)
      BY <2>2
    <3> QED
      BY <1>5, <1>10, <3>1
  <2>3. ASSUME \E i \in 1 .. n : Same(more, i, n + 1)
        PROVE  \E i, j \in 1 .. n + 1 : Same(more, i, j)
    BY <1>10, <1>11, <2>3
  <2> QED
    BY <2>1, <2>2, <2>3
<1>15. (\E i \in 1 .. n : Same(more, i, n + 1)) <=> e.on = "key" /\ KeyAt(more, n + 1) \in KeysIn(doc, top)
  <2>1. KeyAt(more, n + 1) \in KeysIn(doc, top) <=> \E i \in InScope(doc, top) : KeyAt(doc, i) = KeyAt(more, n + 1)
    BY Zenon DEF KeysIn
  <2> QED
    BY <1>6, <1>13, <2>1, Zenon
<1>16. Repeats(more) <=> Repeats(doc) \/ (e.on = "key" /\ KeyAt(more, n + 1) \in KeysIn(doc, top))
  BY <1>7, <1>8, <1>14, <1>15
<1> QED
  BY <1>16 DEF more, top, n

----------------------------------------------------------------------------
(* The handler follows the text.                                           *)

FrameType == [keys : SUBSET Texts, key : Texts]
Handlers == [frames : Seq(FrameType), duplicate : BOOLEAN]
Expectations == {"key", "part", "value", "element"}

(* After the events of doc the handler is in state h and the grammar in    *)
(* state nest: there is a frame per open level, which has the keys of the  *)
(* object there, and what has come of a key is in the last one.            *)
Tracks(doc, h, nest) ==
  /\ h \in Handlers /\ nest \in Seq(Expectations)
  /\ Len(h.frames) = Len(nest) /\ Level(doc, Len(doc)) = Len(nest)
  /\ doc # <<>> => doc[1].on \notin {"part", "key"}
  /\ \A d \in 1 .. Len(nest) : nest[d] = "part" <=> d = Len(nest) /\ doc[Len(doc)].on = "part"
  /\ \A d \in 1 .. Len(nest) : h.frames[d].keys = KeysIn(doc, d)
  /\ \A d \in 1 .. Len(nest) : h.frames[d].key = IF nest[d] = "part" THEN KeyAt(doc, Len(doc)) ELSE <<>>
  /\ h.duplicate <=> Repeats(doc)

(* All but the last, and the last.                                         *)
LEMMA FrontFacts ==
  ASSUME NEW S, NEW s \in Seq(S), Len(s) # 0
  PROVE  /\ Front(s) \in Seq(S) /\ Len(Front(s)) = Len(s) - 1
         /\ \A i \in 1 .. Len(s) - 1 : Front(s)[i] = s[i]
         /\ Last(s) = s[Len(s)] /\ s[Len(s)] \in S
<1> DEFINE k == Len(s) - 1
<1>1. k \in Nat /\ 1 \in 1 .. Len(s) + 1 /\ k \in 0 .. Len(s) /\ k - 1 + 1 = k /\ \A i \in 1 .. k : 1 + i - 1 = i
  OBVIOUS
<1>2. SubSeq(s, 1, k) \in Seq(S)
  BY <1>1
<1>3. Len(SubSeq(s, 1, k)) = k
  BY <1>1
<1>4. \A i \in 1 .. k : SubSeq(s, 1, k)[i] = s[i]
  BY <1>1
<1>5. s[Len(s)] \in S
  BY <1>1
<1> QED
  BY <1>2, <1>3, <1>4, <1>5 DEF Front, Last

(* A new top.                                                              *)
LEMMA TopFacts ==
  ASSUME NEW S, NEW s \in Seq(S), Len(s) # 0, NEW x \in S
  PROVE  /\ Append(Front(s), x) \in Seq(S) /\ Len(Append(Front(s), x)) = Len(s)
         /\ \A i \in 1 .. Len(s) : Append(Front(s), x)[i] = IF i = Len(s) THEN x ELSE s[i]
<1> DEFINE f == Front(s)
<1>1. f \in Seq(S) /\ Len(f) = Len(s) - 1 /\ \A i \in 1 .. Len(s) - 1 : f[i] = s[i]
  BY FrontFacts
<1>2. Len(s) \in Nat
  OBVIOUS
<1> HIDE DEF f
<1>3. Append(f, x) \in Seq(S) /\ Len(Append(f, x)) = Len(s)
  BY <1>1, <1>2
<1>4. ASSUME NEW i \in 1 .. Len(s) PROVE Append(f, x)[i] = IF i = Len(s) THEN x ELSE s[i]
  BY <1>1, <1>2
<1> QED
  BY <1>3, <1>4 DEF f

(* Assignments to a member.                                                *)
LEMMA Members ==
  /\ \A t \in FrameType : \A k : [t EXCEPT !.key = k] = [keys |-> t.keys, key |-> k]
  /\ \A h \in Handlers : \A f : [h EXCEPT !.frames = f] = [frames |-> f, duplicate |-> h.duplicate]
  /\ \A f, b, c : [[frames |-> f, duplicate |-> b] EXCEPT !.duplicate = c] = [frames |-> f, duplicate |-> c]
  BY DEF FrameType, Handlers

(* What may come next.                                                     *)
LEMMA FollowingEvents ==
  ASSUME NEW doc, NEW e \in Following(doc)
  PROVE  LET nest == Nest(doc)
             value == doc = <<>> \/ (nest # <<>> /\ Last(nest) \in {"value", "element"})
         IN  \/ e = [on |-> "scalar"] /\ value
             \/ e \in {[on |-> "object"], [on |-> "array"]} /\ value
             \/ e = [on |-> "end"] /\ nest # <<>> /\ Last(nest) \in {"key", "element"}
             \/ /\ \E k \in {"part", "key"}, p \in KeyParts : e = [on |-> k, text |-> p]
                /\ nest # <<>> /\ Last(nest) \in {"key", "part"}
  BY DEF Following

(* Nothing is open before the first event.                                 *)
LEMMA TracksNothing == Tracks(<<>>, NoFrames, <<>>) /\ (\E f : IsRun(<<>>, f)) /\ (\E f : IsNest(<<>>, f))
                       /\ Validator(<<>>) = NoFrames /\ Nest(<<>>) = <<>>
<1>1. <<>> \in Seq(Events) /\ Len(<<>>) = 0 /\ 0 .. 0 = {0}
  OBVIOUS
<1>2. Tracks(<<>>, NoFrames, <<>>)
  <2>1. NoFrames \in Handlers
    BY DEF NoFrames, Handlers
  <2>2. ~Repeats(<<>>)
    BY DEF Repeats
  <2> QED
    BY <2>1, <2>2, LevelZero DEF Tracks, NoFrames
<1> DEFINE f == [i \in 0 .. 0 |-> NoFrames]
           g == [i \in 0 .. 0 |-> <<>>]
<1>3. IsRun(<<>>, f) /\ f[0] = NoFrames
  <2>1. f = [i \in 0 .. 0 |-> IF i = 0 THEN NoFrames ELSE On(f[i - 1], <<>>[i])]
    BY <1>1
  <2> QED
    BY <1>1, <2>1 DEF IsRun
<1>4. IsNest(<<>>, g) /\ g[0] = <<>>
  <2>1. g = [i \in 0 .. 0 |-> IF i = 0 THEN <<>> ELSE Grow(g[i - 1], <<>>[i])]
    BY <1>1
  <2> QED
    BY <1>1, <2>1 DEF IsNest
<1> HIDE DEF f, g
<1>5. Validator(<<>>) = NoFrames
  BY <1>1, <1>3, ValidatorBy
<1>6. Nest(<<>>) = <<>>
  BY <1>1, <1>4, NestBy
<1> QED
  BY <1>2, <1>3, <1>4, <1>5, <1>6

(* Every event that the grammar allows keeps them together.                *)
LEMMA TracksStep ==
  ASSUME NEW doc \in Seq(Events), NEW h, Tracks(doc, h, Nest(doc)), NEW e \in Following(doc), doc = <<>> => Nest(doc) = <<>>
  PROVE  e \in Events /\ Tracks(Append(doc, e), On(h, e), Grow(Nest(doc), e))
<1> DEFINE n == Len(doc)
           more == Append(doc, e)
           nest == Nest(doc)
           L == Len(nest)
           value == doc = <<>> \/ (nest # <<>> /\ Last(nest) \in {"value", "element"})
<1>0. \/ e = [on |-> "scalar"] /\ value
      \/ e \in {[on |-> "object"], [on |-> "array"]} /\ value
      \/ e = [on |-> "end"] /\ nest # <<>> /\ Last(nest) \in {"key", "element"}
      \/ /\ \E k \in {"part", "key"}, p \in KeyParts : e = [on |-> k, text |-> p]
         /\ nest # <<>> /\ Last(nest) \in {"key", "part"}
  BY FollowingEvents
<1>1. e \in Events
  BY <1>0, KeyAssumption DEF Events, Texts
<1>2. h \in Handlers /\ nest \in Seq(Expectations) /\ Len(h.frames) = L /\ Level(doc, n) = L
  BY DEF Tracks
<1>3. doc # <<>> => doc[1].on \notin {"part", "key"}
  BY DEF Tracks
<1>4. \A d \in 1 .. L : nest[d] = "part" <=> d = L /\ doc[n].on = "part"
  BY DEF Tracks
<1>5. \A d \in 1 .. L : h.frames[d].keys = KeysIn(doc, d)
  BY DEF Tracks
<1>6. \A d \in 1 .. L : h.frames[d].key = IF nest[d] = "part" THEN KeyAt(doc, n) ELSE <<>>
  BY DEF Tracks
<1>7. (h.duplicate <=> Repeats(doc)) /\ h.duplicate \in BOOLEAN
  BY <1>2 DEF Tracks, Handlers
<1>8. more \in Seq(Events) /\ n \in Nat /\ Len(more) = n + 1 /\ more[n + 1] = e /\ \A i \in 1 .. n : more[i] = doc[i]
  BY <1>1, OneMore
<1>9. L \in Nat /\ h.frames \in Seq(FrameType) /\ (nest # <<>> => L # 0 /\ doc # <<>>)
      /\ \A d \in 1 .. L : h.frames[d] \in FrameType
  BY <1>2 DEF Handlers
<1>10. Level(more, n + 1) = L + Rise(e)
  BY <1>1, <1>2, LevelAppend
<1>11. \A d \in Int : L + Rise(e) >= d =>
         KeysIn(more, d) = KeysIn(doc, d) \cup (IF e.on = "key" /\ L + Rise(e) = d THEN {KeyAt(more, n + 1)} ELSE {})
  BY <1>1, <1>2, <1>3, KeysAppend
<1>12. Repeats(more) <=> Repeats(doc) \/ (e.on = "key" /\ KeyAt(more, n + 1) \in KeysIn(doc, L))
  BY <1>1, <1>2, <1>3, RepeatsAppend
<1>13. e.on \notin {"part", "key"} \/ doc # <<>> => more[1].on \notin {"part", "key"}
  <2>1. CASE doc = <<>>
    BY <1>8, <2>1
  <2>2. CASE doc # <<>>
    BY <1>3, <1>8, <2>2
  <2> QED
    BY <2>1, <2>2
<1>14. more # <<>>
  BY <1>8
<1> HIDE DEF more, nest, n, L
(* A value starts: its level no longer waits for it.                       *)
<1>15. ASSUME value
       PROVE  /\ ValueTaken(nest) \in Seq(Expectations) /\ Len(ValueTaken(nest)) = L
              /\ \A d \in 1 .. L : ValueTaken(nest)[d] # "part" /\ h.frames[d].key = <<>>
  <2>1. \A d \in 1 .. L : nest[d] # "part"
    BY <1>4, <1>9, <1>15 DEF Last, L, nest
  <2>2. \A d \in 1 .. L : h.frames[d].key = <<>>
    BY <1>6, <2>1
  <2>3. CASE nest # <<>> /\ Last(nest) = "value"
    <3>1. "key" \in Expectations /\ Len(nest) = L
      BY DEF Expectations, L
    <3>2. /\ Append(Front(nest), "key") \in Seq(Expectations) /\ Len(Append(Front(nest), "key")) = L
          /\ \A i \in 1 .. L : Append(Front(nest), "key")[i] = IF i = L THEN "key" ELSE nest[i]
      BY <1>2, <1>9, <2>3, <3>1, TopFacts
    <3> QED
      BY <2>1, <2>2, <2>3, <3>2 DEF ValueTaken
  <2>4. CASE ~(nest # <<>> /\ Last(nest) = "value")
    BY <1>2, <2>1, <2>2, <2>4 DEF ValueTaken, L
  <2> QED
    BY <2>3, <2>4
<1>16. CASE e = [on |-> "scalar"] /\ value
  <2>1. e.on = "scalar" /\ Rise(e) = 0 /\ On(h, e) = h /\ Grow(nest, e) = ValueTaken(nest)
    BY <1>16 DEF Rise, On, Grow
  <2> DEFINE nest2 == ValueTaken(nest)
  <2>2. nest2 \in Seq(Expectations) /\ Len(nest2) = L /\ \A d \in 1 .. L : nest2[d] # "part" /\ h.frames[d].key = <<>>
    BY <1>15, <1>16
  <2> HIDE DEF nest2
  <2>3. \A d \in 1 .. L : h.frames[d].keys = KeysIn(more, d)
    BY <1>5, <1>9, <1>11, <2>1
  <2>4. (h.duplicate <=> Repeats(more)) /\ Level(more, n + 1) = L /\ more[1].on \notin {"part", "key"}
    BY <1>7, <1>9, <1>10, <1>12, <1>13, <2>1
  <2>5. Tracks(more, h, nest2)
    BY <1>2, <1>8, <2>1, <2>2, <2>3, <2>4 DEF Tracks
  <2> QED
    BY <1>1, <2>1, <2>5 DEF more, nest, nest2
<1>17. CASE e \in {[on |-> "object"], [on |-> "array"]} /\ value
  <2> DEFINE x == IF e.on = "object" THEN "key" ELSE "element"
             nest1 == ValueTaken(nest)
             nest2 == Append(nest1, x)
             frames2 == Append(h.frames, Frame)
             h2 == [frames |-> frames2, duplicate |-> h.duplicate]
  <2>1. e.on \in {"object", "array"} /\ Rise(e) = 1 /\ Grow(nest, e) = nest2
    BY <1>17 DEF Rise, Grow
  <2>2. On(h, e) = h2
    <3>1. On(h, e) = [h EXCEPT !.frames = Append(@, Frame)]
      BY <2>1 DEF On
    <3> QED
      BY <1>2, <3>1 DEF Handlers
  <2>3. nest1 \in Seq(Expectations) /\ Len(nest1) = L /\ \A d \in 1 .. L : nest1[d] # "part" /\ h.frames[d].key = <<>>
    BY <1>15, <1>17
  <2> HIDE DEF nest1
  <2>4. x \in Expectations /\ x # "part"
    BY DEF Expectations
  <2> HIDE DEF x
  <2>5. nest2 \in Seq(Expectations) /\ Len(nest2) = L + 1 /\ \A d \in 1 .. L + 1 : nest2[d] # "part"
    <3>1. \A d \in 1 .. L + 1 : nest2[d] = IF d = L + 1 THEN x ELSE nest1[d]
      BY <1>9, <2>3, <2>4
    <3> QED
      BY <1>9, <2>3, <2>4, <3>1
  <2>6. Frame \in FrameType /\ Frame.key = <<>> /\ Frame.keys = {}
    BY DEF Frame, FrameType, Texts
  <2>7. /\ frames2 \in Seq(FrameType) /\ Len(frames2) = L + 1
        /\ \A d \in 1 .. L + 1 : frames2[d] = IF d = L + 1 THEN Frame ELSE h.frames[d]
    BY <1>2, <1>9, <2>6
  <2> HIDE DEF nest2, frames2
  <2>8. \A d \in 1 .. L + 1 : (d = L + 1 \/ d \in 1 .. L) /\ d \in Int /\ L + Rise(e) >= d
    BY <1>9, <2>1
  <2>9. KeysIn(doc, L + 1) = {}
    <3>1. Level(doc, Len(doc)) < L + 1 /\ L + 1 \in Int
      BY <1>2, <1>9 DEF n
    <3> QED
      BY <1>3, <3>1, NothingDeeper
  <2>10. \A d \in 1 .. L + 1 : frames2[d].keys = KeysIn(more, d)
    <3>1. \A d \in 1 .. L + 1 : KeysIn(more, d) = KeysIn(doc, d)
      BY <1>11, <2>1, <2>8
    <3> QED
      BY <1>5, <2>6, <2>7, <2>8, <2>9, <3>1
  <2>11. \A d \in 1 .. L + 1 : frames2[d].key = <<>>
    BY <2>3, <2>6, <2>7, <2>8
  <2>12. (h.duplicate <=> Repeats(more)) /\ Level(more, n + 1) = L + 1 /\ more[1].on \notin {"part", "key"}
    BY <1>7, <1>9, <1>10, <1>12, <1>13, <2>1
  <2>13. h2 \in Handlers /\ h2.frames = frames2 /\ h2.duplicate = h.duplicate
    BY <1>7, <2>7 DEF Handlers
  <2> HIDE DEF h2
  <2>14. Tracks(more, h2, nest2)
    BY <1>8, <2>1, <2>5, <2>7, <2>10, <2>11, <2>12, <2>13 DEF Tracks
  <2> QED
    BY <1>1, <2>1, <2>2, <2>14 DEF more, nest
<1>18. CASE e = [on |-> "end"] /\ nest # <<>> /\ Last(nest) \in {"key", "element"}
  <2> DEFINE nest2 == Front(nest)
             frames2 == Front(h.frames)
             h2 == [frames |-> frames2, duplicate |-> h.duplicate]
  <2>1. e.on = "end" /\ Rise(e) = -1 /\ Grow(nest, e) = nest2
    BY <1>18 DEF Rise, Grow
  <2>2. On(h, e) = h2
    <3>1. On(h, e) = [h EXCEPT !.frames = Front(@)]
      BY <2>1 DEF On
    <3> QED
      BY <1>2, <3>1 DEF Handlers
  <2>3. Len(nest) = L /\ L # 0 /\ L - 1 \in Nat /\ \A d \in 1 .. L - 1 : d \in 1 .. L /\ d # L /\ d \in Int /\ L + (-1) >= d
    BY <1>9, <1>18 DEF L
  <2>4. nest2 \in Seq(Expectations) /\ Len(nest2) = L - 1 /\ \A d \in 1 .. L - 1 : nest2[d] = nest[d]
    BY <1>2, <2>3, FrontFacts
  <2>5. frames2 \in Seq(FrameType) /\ Len(frames2) = L - 1 /\ \A d \in 1 .. L - 1 : frames2[d] = h.frames[d]
    BY <1>2, <1>9, <2>3, FrontFacts
  <2> HIDE DEF nest2, frames2
  <2>6. \A d \in 1 .. L - 1 : nest2[d] # "part" /\ frames2[d].key = <<>>
    BY <1>4, <1>6, <2>3, <2>4, <2>5
  <2>7. \A d \in 1 .. L - 1 : frames2[d].keys = KeysIn(more, d)
    BY <1>5, <1>11, <2>1, <2>3, <2>5
  <2>8. (h.duplicate <=> Repeats(more)) /\ Level(more, n + 1) = L - 1 /\ more[1].on \notin {"part", "key"}
    BY <1>7, <1>9, <1>10, <1>12, <1>13, <2>1
  <2>9. h2 \in Handlers /\ h2.frames = frames2 /\ h2.duplicate = h.duplicate
    BY <1>7, <2>5 DEF Handlers
  <2> HIDE DEF h2
  <2>10. Tracks(more, h2, nest2)
    BY <1>8, <2>1, <2>4, <2>5, <2>6, <2>7, <2>8, <2>9 DEF Tracks
  <2> QED
    BY <1>1, <2>1, <2>2, <2>10 DEF more, nest
<1>19. CASE /\ \E k \in {"part", "key"}, p \in KeyParts : e = [on |-> k, text |-> p]
            /\ nest # <<>> /\ Last(nest) \in {"key", "part"}
  <2> DEFINE top == h.frames[L]
             key == top.key \o e.text
  <2>1. e.on \in {"part", "key"} /\ e.text \in Texts
    BY <1>19, KeyAssumption DEF Texts
  <2>2. Len(nest) = L /\ L # 0 /\ doc # <<>> /\ L \in 1 .. L /\ Last(h.frames) = top /\ top \in FrameType
    BY <1>2, <1>9, <1>19 DEF L, Last
  <2>3. Rise(e) = 0
    BY <2>1 DEF Rise
  <2>4. key = KeyAt(more, n + 1) /\ key \in Texts
    <3>1. KeyAt(more, n + 1) = IF doc[n].on = "part" THEN KeyAt(doc, n) \o e.text ELSE e.text
      BY <1>1, <1>3, <2>1, <2>2, KeyAppend DEF more, n
    <3>2. top.key = IF doc[n].on = "part" THEN KeyAt(doc, n) ELSE <<>>
      BY <1>4, <1>6, <2>2
    <3>3. <<>> \o e.text = e.text
      BY <2>1 DEF Texts
    <3>4. top.key \in Texts
      BY <2>2 DEF FrameType
    <3>5. key \in Texts
      BY <2>1, <3>4 DEF Texts
    <3> QED
      BY <3>1, <3>2, <3>3, <3>5
  <2>5. [top EXCEPT !.key = @ \o e.text] = [keys |-> top.keys, key |-> key] /\ top.keys \in SUBSET Texts
    <3>1. [top EXCEPT !.key = key] = [keys |-> top.keys, key |-> key]
      BY <2>2, Members
    <3> QED
      BY <2>2, <3>1 DEF FrameType
  <2>6. OnKeyPart(h, e.text) = [frames |-> Append(Front(h.frames), [keys |-> top.keys, key |-> key]), duplicate |-> h.duplicate]
    <3>1. OnKeyPart(h, e.text) = [h EXCEPT !.frames = Append(Front(h.frames), [keys |-> top.keys, key |-> key])]
      BY <2>2, <2>5 DEF OnKeyPart, Replace
    <3> QED
      BY <1>2, <3>1, Members
  <2>7. top.keys = KeysIn(doc, L)
    BY <1>5, <2>2
  <2> HIDE DEF top, key
  <2>8. [keys |-> top.keys, key |-> key] \in FrameType /\ [keys |-> top.keys \cup {key}, key |-> <<>>] \in FrameType
    BY <2>4, <2>5 DEF FrameType, Texts
  <2>9. \A d \in 1 .. L : d \in Int /\ L + Rise(e) >= d /\ (L + Rise(e) = d <=> d = L)
    BY <1>9, <2>3
  <2>10. Level(more, n + 1) = L /\ more[1].on \notin {"part", "key"}
    BY <1>9, <1>10, <1>13, <2>2, <2>3
  <2>11. CASE e.on = "part"
    <3> DEFINE x == [keys |-> top.keys, key |-> key]
               frames2 == Append(Front(h.frames), x)
               nest2 == Append(Front(nest), "part")
               h2 == [frames |-> frames2, duplicate |-> h.duplicate]
    <3>1. On(h, e) = h2 /\ Grow(nest, e) = nest2
      BY <2>6, <2>11 DEF On, Grow
    <3>2. x \in FrameType /\ x.keys = top.keys /\ x.key = key
      BY <2>8
    <3> HIDE DEF x
    <3>3. /\ frames2 \in Seq(FrameType) /\ Len(frames2) = L
          /\ \A d \in 1 .. L : frames2[d] = IF d = L THEN x ELSE h.frames[d]
      BY <1>2, <1>9, <2>2, <3>2, TopFacts
    <3>4. /\ nest2 \in Seq(Expectations) /\ Len(nest2) = L
          /\ \A d \in 1 .. L : nest2[d] = IF d = L THEN "part" ELSE nest[d]
      <4>1. "part" \in Expectations
        BY DEF Expectations
      <4> QED
        BY <1>2, <2>2, <4>1, TopFacts
    <3>5. h2 \in Handlers /\ h2.frames = frames2 /\ h2.duplicate = h.duplicate
      BY <1>7, <3>3 DEF Handlers
    <3> HIDE DEF frames2, nest2, h2
    <3>6. \A d \in 1 .. L : frames2[d].keys = KeysIn(more, d)
      <4>1. \A d \in 1 .. L : KeysIn(more, d) = KeysIn(doc, d)
        BY <1>11, <2>9, <2>11
      <4> QED
        BY <1>5, <2>7, <3>2, <3>3, <4>1
    <3>7. \A d \in 1 .. L : nest2[d] = "part" <=> d = L /\ more[n + 1].on = "part"
      BY <1>4, <1>8, <2>11, <3>4
    <3>8. \A d \in 1 .. L : frames2[d].key = IF nest2[d] = "part" THEN KeyAt(more, n + 1) ELSE <<>>
      BY <1>4, <1>6, <2>4, <3>2, <3>3, <3>4
    <3>9. h.duplicate <=> Repeats(more)
      BY <1>7, <1>12, <2>11
    <3>10. Tracks(more, h2, nest2)
      BY <1>8, <2>10, <3>3, <3>4, <3>5, <3>6, <3>7, <3>8, <3>9 DEF Tracks
    <3> QED
      BY <1>1, <3>1, <3>10 DEF more, nest
  <2>12. CASE e.on = "key"
    <3> DEFINE x == [keys |-> top.keys \cup {key}, key |-> <<>>]
               frames2 == Append(Front(h.frames), x)
               nest2 == Append(Front(nest), "value")
               duplicate2 == h.duplicate \/ key \in top.keys
               h2 == [frames |-> frames2, duplicate |-> duplicate2]
    <3>1. Last(OnKeyPart(h, e.text).frames) = [keys |-> top.keys, key |-> key]
      <4> DEFINE y == [keys |-> top.keys, key |-> key]
                 g == Append(Front(h.frames), y)
      <4>1. OnKeyPart(h, e.text).frames = g
        BY <2>6
      <4>2. y \in FrameType
        BY <2>8
      <4> HIDE DEF y
      <4>3. Len(g) = L /\ g[L] = y
        BY <1>2, <1>9, <2>2, <4>2, TopFacts
      <4> QED
        BY <4>1, <4>3 DEF Last, y
    <3>2. OnKey(h, e.text) = h2
      <4>1. OnKey(h, e.text) = [Replace(h, x) EXCEPT !.duplicate = @ \/ key \in top.keys]
        BY <3>1 DEF OnKey
      <4>2. Replace(h, x) = [frames |-> frames2, duplicate |-> h.duplicate]
        <5>1. Replace(h, x) = [h EXCEPT !.frames = frames2]
          BY DEF Replace
        <5> QED
          BY <1>2, <5>1, Members
      <4> HIDE DEF frames2
      <4>3. OnKey(h, e.text) = [[frames |-> frames2, duplicate |-> h.duplicate] EXCEPT !.duplicate = duplicate2]
        <5>1. Replace(h, x).duplicate = h.duplicate
          BY <4>2
        <5>2. OnKey(h, e.text) = [Replace(h, x) EXCEPT !.duplicate = duplicate2]
          BY <4>1, <5>1, Zenon
        <5> HIDE DEF duplicate2
        <5> QED
          BY <4>2, <5>2, Zenon
      <4> HIDE DEF duplicate2
      <4> QED
        BY <4>3, Members
    <3>3. On(h, e) = h2 /\ Grow(nest, e) = nest2
      BY <2>12, <3>2 DEF On, Grow
    <3>4. x \in FrameType /\ x.keys = top.keys \cup {key} /\ x.key = <<>>
      BY <2>8
    <3> HIDE DEF x
    <3>5. /\ frames2 \in Seq(FrameType) /\ Len(frames2) = L
          /\ \A d \in 1 .. L : frames2[d] = IF d = L THEN x ELSE h.frames[d]
      <4>1. h.frames \in Seq(FrameType) /\ Len(h.frames) = L /\ L # 0 /\ x \in FrameType
        BY <1>2, <1>9, <2>2, <3>4
      <4>2. /\ frames2 \in Seq(FrameType) /\ Len(frames2) = Len(h.frames)
            /\ \A d \in 1 .. Len(h.frames) : frames2[d] = IF d = Len(h.frames) THEN x ELSE h.frames[d]
        BY <4>1, TopFacts
      <4> QED
        BY <4>1, <4>2
    <3>6. /\ nest2 \in Seq(Expectations) /\ Len(nest2) = L
          /\ \A d \in 1 .. L : nest2[d] = IF d = L THEN "value" ELSE nest[d]
      <4>1. "value" \in Expectations
        BY DEF Expectations
      <4>2. nest \in Seq(Expectations) /\ Len(nest) = L /\ L # 0
        BY <1>2, <2>2
      <4>3. /\ nest2 \in Seq(Expectations) /\ Len(nest2) = Len(nest)
            /\ \A d \in 1 .. Len(nest) : nest2[d] = IF d = Len(nest) THEN "value" ELSE nest[d]
        BY <4>1, <4>2, TopFacts
      <4> QED
        BY <4>2, <4>3
    <3>7. duplicate2 \in BOOLEAN /\ (duplicate2 <=> Repeats(more))
      <4>1. h.duplicate \in BOOLEAN /\ (h.duplicate <=> Repeats(doc))
        BY <1>7
      <4>2. Repeats(more) <=> Repeats(doc) \/ key \in top.keys
        BY <1>12, <2>4, <2>7, <2>12
      <4> QED
        BY <4>1, <4>2
    <3> HIDE DEF frames2, nest2, duplicate2
    <3>8. h2 \in Handlers /\ h2.frames = frames2 /\ h2.duplicate = duplicate2
      BY <3>5, <3>7 DEF Handlers
    <3> HIDE DEF h2
    <3>9. \A d \in 1 .. L : frames2[d].keys = KeysIn(more, d)
      <4>1. \A d \in 1 .. L : KeysIn(more, d) = KeysIn(doc, d) \cup IF d = L THEN {key} ELSE {}
        BY <1>11, <2>4, <2>9, <2>12
      <4> SUFFICES ASSUME NEW d \in 1 .. L PROVE frames2[d].keys = KeysIn(more, d)
        OBVIOUS
      <4>2. CASE d = L
        <5>1. frames2[d] = x /\ KeysIn(more, d) = KeysIn(doc, d) \cup {key}
          BY <3>5, <4>1, <4>2
        <5> QED
          BY <2>7, <3>4, <4>2, <5>1
      <4>3. CASE d # L
        <5>1. frames2[d] = h.frames[d] /\ KeysIn(more, d) = KeysIn(doc, d)
          BY <3>5, <4>1, <4>3
        <5> QED
          BY <1>5, <5>1
      <4> QED
        BY <4>2, <4>3
    <3>10. \A d \in 1 .. L : nest2[d] # "part" /\ frames2[d].key = <<>>
      BY <1>4, <1>6, <3>4, <3>5, <3>6
    <3>11. Tracks(more, h2, nest2)
      BY <1>8, <2>10, <2>12, <3>5, <3>6, <3>7, <3>8, <3>9, <3>10 DEF Tracks
    <3> QED
      BY <1>1, <3>3, <3>11 DEF more, nest
  <2> QED
    BY <2>1, <2>11, <2>12
<1> QED
  BY <1>0, <1>16, <1>17, <1>18, <1>19

(* What parseJson was asked and answered.                                  *)
Parsed ==
  call.fn = "parseJson" =>
    LET doc == call.arg
    IN  /\ doc \in Seq(Events) /\ (\E f : IsRun(doc, f)) /\ (\E f : IsNest(doc, f))
        /\ Tracks(doc, Validator(doc), Nest(doc)) /\ doc # <<>>
        /\ call.out = [c \in {d \in Cases : d.fault = "none" => Complete(doc)} |->
                         ParseJson(doc, c.fault, c.place, c.size, c.exceeds)]

(* What the answers of parseJson say of the handler.                       *)
LEMMA ParseVerdict ==
  ASSUME NEW doc, NEW fault, NEW place, NEW size, NEW exceeds
  PROVE  LET r == ParseJson(doc, fault, place, size, exceeds)
         IN  /\ r.err = "none" => r.out = doc /\ fault = "none" /\ ~Validator(doc).duplicate
             /\ r.err = "duplicate_key" => fault = "none" /\ Validator(doc).duplicate
<1>1. ParseError(fault) \notin {"none", "duplicate_key"}
  BY DEF ParseError
<1>2. \A code : Fail(Fresh, code).err = code
  BY DEF Fail
<1>3. Done(Fresh, doc).err = "none" /\ Done(Fresh, doc).out = doc
  BY DEF Done
<1> QED
  BY <1>1, <1>2, <1>3 DEF ParseJson

(* ParseExact holds in every reachable state, for texts of any length, any *)
(* nesting and keys in any parts: DuplicateHandler reports exactly the     *)
(* repeated keys, and has a frame for every open object and array.         *)
THEOREM ParsesExactly == ResourceSpec => []ParseExact
<1>1. ResourceInit => Parsed
  BY DEF ResourceInit, Idle, Parsed
<1>2. Parsed /\ [ResourceNext]_call => Parsed'
  <2> SUFFICES ASSUME Parsed, [ResourceNext]_call PROVE Parsed'
    OBVIOUS
  <2>1. CASE ParseText
    <3> DEFINE doc == Argument("parseJson")
               Answer(events) == [c \in {d \in Cases : d.fault = "none" => Complete(events)} |->
                                    ParseJson(events, c.fault, c.place, c.size, c.exceeds)]
    <3>1. PICK e \in Following(doc) : Returns("parseJson", Append(doc, e), Answer(Append(doc, e)))
      BY <2>1 DEF ParseText
    <3> DEFINE more == Append(doc, e)
    <3>2. call' = [fn |-> "parseJson", arg |-> more, out |-> Answer(more)]
      BY <3>1 DEF Returns
    <3>3. /\ doc \in Seq(Events) /\ (\E f : IsRun(doc, f)) /\ (\E f : IsNest(doc, f))
          /\ Tracks(doc, Validator(doc), Nest(doc)) /\ (doc = <<>> => Nest(doc) = <<>>)
      <4>1. CASE call.fn = "parseJson"
        BY <4>1 DEF Parsed, Argument
      <4>2. CASE call.fn # "parseJson"
        <5>1. doc = <<>> /\ <<>> \in Seq(Events)
          BY <4>2 DEF Argument
        <5> HIDE DEF doc
        <5> QED
          BY <5>1, TracksNothing
      <4> QED
        BY <4>1, <4>2
    <3> HIDE DEF doc
    <3>4. e \in Events /\ Tracks(more, On(Validator(doc), e), Grow(Nest(doc), e))
      BY <3>1, <3>3, TracksStep
    <3>5. (\E f : IsRun(more, f)) /\ Validator(more) = On(Validator(doc), e)
      BY <3>3, <3>4, ValidatorAppend
    <3>6. (\E f : IsNest(more, f)) /\ Nest(more) = Grow(Nest(doc), e)
      BY <3>3, <3>4, NestAppend
    <3>7. more \in Seq(Events) /\ more # <<>>
      BY <3>3, <3>4
    <3> HIDE DEF more, Answer
    <3>8. Tracks(more, Validator(more), Nest(more))
      BY <3>4, <3>5, <3>6
    <3>9. call'.arg = more /\ call'.out = Answer(more)
      BY <3>2
    <3> QED
      BY <3>5, <3>6, <3>7, <3>8, <3>9, Zenon DEF Parsed, Answer
  <2>2. CASE ValidateText
    BY <2>2 DEF ValidateText, Returns, Parsed
  <2>3. CASE PublishName
    BY <2>3 DEF PublishName, Returns, Parsed
  <2>4. CASE AskTarget
    BY <2>4 DEF AskTarget, Returns, Parsed
  <2>5. CASE DescribeOperation
    BY <2>5 DEF DescribeOperation, Returns, Parsed
  <2>6. CASE UNCHANGED call
    BY <2>6 DEF Parsed
  <2> QED
    BY <2>1, <2>2, <2>3, <2>4, <2>5, <2>6 DEF ResourceNext
<1>3. Parsed => ParseExact
  <2> SUFFICES ASSUME Parsed, call.fn = "parseJson" PROVE ParseExact
    BY DEF ParseExact
  <2> DEFINE doc == call.arg
  <2>1. Len(Validator(doc).frames) = Len(Nest(doc)) /\ (Validator(doc).duplicate <=> Repeats(doc))
    BY DEF Parsed, Tracks
  <2>2. call.out = [c \in {d \in Cases : d.fault = "none" => Complete(doc)} |->
                      ParseJson(doc, c.fault, c.place, c.size, c.exceeds)]
    BY DEF Parsed
  <2>3. ASSUME NEW c \in DOMAIN call.out
        PROVE  /\ call.out[c].err = "none" => call.out[c].out = doc /\ Complete(doc) /\ ~Repeats(doc)
               /\ call.out[c].err = "duplicate_key" => c.fault = "none" /\ Repeats(doc)
    <3>1. (c.fault = "none" => Complete(doc)) /\ call.out[c] = ParseJson(doc, c.fault, c.place, c.size, c.exceeds)
      BY <2>2
    <3> QED
      BY <2>1, <3>1, ParseVerdict
  <2> QED
    BY <2>1, <2>3 DEF ParseExact
<1> QED
  BY <1>1, <1>2, <1>3, PTL DEF ResourceSpec

=============================================================================
