--------------------------- MODULE BudgetResource ---------------------------
(***************************************************************************)
(* BudgetResource (src/src/codec_context.cpp): the memory resource of a    *)
(* conversion, whose blocks an invocation takes along to other threads, so *)
(* that several of them allocate and free at once.                         *)
(*                                                                         *)
(* A step is one access to the atomic used_ or one call of the underlying  *)
(* resource.  std::size_t is a word of Word values.  compare_exchange_weak *)
(* may fail without cause; the underlying resource may throw.              *)
(***************************************************************************)
EXTENDS Naturals, FiniteSets

CONSTANTS Threads, \* threads that allocate and free
          Blocks,  \* blocks of memory that may be live at once
          Sizes,   \* sizes of blocks, the absurd ones included
          Limit,   \* limit_
          Word     \* values of std::size_t

ASSUME BudgetAssumption ==
  /\ Word \in Nat /\ Limit \in 1 .. (Word - 1)
  /\ Sizes \subseteq 1 .. (Word - 1)
  /\ IsFiniteSet(Threads) /\ IsFiniteSet(Blocks)

VARIABLES
  used,    \* used_
  pc,      \* each thread
  seen,    \* its local `used`
  bytes,   \* its argument `bytes`, 0 outside of a call
  refused, \* threads whose last allocation threw BudgetExceeded
  block    \* the size of each live block, 0 of a free one

vars == <<used, pc, seen, bytes, refused, block>>

Init ==
  /\ used = 0 /\ refused = {}
  /\ pc = [t \in Threads |-> "idle"]
  /\ seen = [t \in Threads |-> 0] /\ bytes = [t \in Threads |-> 0]
  /\ block = [b \in Blocks |-> 0]

Minus(x, y) == (x + Word - y) % Word
Plus(x, y) == (x + y) % Word

----------------------------------------------------------------------------
(* do_allocate is called, ...                                              *)
Allocate(t) ==
  /\ pc[t] = "idle" /\ \E b \in Blocks : block[b] = 0
  /\ \E n \in Sizes : bytes' = [bytes EXCEPT ![t] = n]
  /\ pc' = [pc EXCEPT ![t] = "load"]
  /\ refused' = refused \ {t}
  /\ UNCHANGED <<used, seen, block>>

ExceedsSum(n, total) == Plus(total, n) > Limit

(* bytes > limit_ - used                                                   *)
Exceeds(n, total) == n > Minus(Limit, total)

(* ... reads used_, by the load or by a failed exchange, and tests it, ... *)
Test(t) ==
  IF Exceeds(bytes[t], used)
  THEN /\ refused' = refused \cup {t} /\ pc' = [pc EXCEPT ![t] = "idle"]
       /\ bytes' = [bytes EXCEPT ![t] = 0] /\ seen' = [seen EXCEPT ![t] = 0]
  ELSE /\ seen' = [seen EXCEPT ![t] = used] /\ pc' = [pc EXCEPT ![t] = "swap"]
       /\ UNCHANGED <<bytes, refused>>

Load(t) == pc[t] = "load" /\ Test(t) /\ UNCHANGED <<used, block>>

SwapAnyway(t) ==
  /\ pc[t] = "swap" /\ used' = Plus(used, bytes[t])
  /\ pc' = [pc EXCEPT ![t] = "allocate"] /\ seen' = [seen EXCEPT ![t] = 0]
  /\ UNCHANGED <<bytes, refused, block>>

(* ... exchanges it for what it will be, ...                               *)
Swap(t) ==
  /\ pc[t] = "swap" /\ used = seen[t]
  /\ used' = Plus(seen[t], bytes[t]) /\ seen' = [seen EXCEPT ![t] = 0]
  /\ pc' = [pc EXCEPT ![t] = "allocate"]
  /\ UNCHANGED <<bytes, refused, block>>

SwapFails(t) == pc[t] = "swap" /\ Test(t) /\ UNCHANGED <<used, block>>

(* ... and asks the underlying resource, which gives a block or throws.    *)
Obtain(t) ==
  /\ pc[t] = "allocate"
  /\ \E b \in Blocks : block[b] = 0 /\ block' = [block EXCEPT ![b] = bytes[t]]
  /\ pc' = [pc EXCEPT ![t] = "idle"] /\ bytes' = [bytes EXCEPT ![t] = 0]
  /\ UNCHANGED <<used, seen, refused>>

ObtainThrows(t) ==
  /\ pc[t] = "allocate" /\ pc' = [pc EXCEPT ![t] = "return"]
  /\ UNCHANGED <<used, seen, bytes, refused, block>>

(* do_deallocate, by whichever thread the block has got to.                *)
Deallocate(t) ==
  /\ pc[t] = "idle"
  /\ \E b \in Blocks : /\ block[b] # 0
                       /\ bytes' = [bytes EXCEPT ![t] = block[b]]
                       /\ block' = [block EXCEPT ![b] = 0]
  /\ pc' = [pc EXCEPT ![t] = "return"]
  /\ UNCHANGED <<used, seen, refused>>

(* used_.fetch_sub(bytes)                                                  *)
Return(t) ==
  /\ pc[t] = "return" /\ used' = Minus(used, bytes[t])
  /\ pc' = [pc EXCEPT ![t] = "idle"] /\ bytes' = [bytes EXCEPT ![t] = 0]
  /\ UNCHANGED <<seen, refused, block>>

Next ==
  \E t \in Threads :
    \/ Allocate(t) \/ Load(t) \/ Swap(t) \/ SwapFails(t)
    \/ Obtain(t) \/ ObtainThrows(t) \/ Deallocate(t) \/ Return(t)

Spec == Init /\ [][Next]_vars

----------------------------------------------------------------------------
(* Properties.                                                             *)

(* A thread holds a size exactly during a call.                            *)
TypeOK ==
  /\ used \in 0 .. (Word - 1) /\ refused \subseteq Threads
  /\ pc \in [Threads -> {"idle", "load", "swap", "allocate", "return"}]
  /\ seen \in [Threads -> 0 .. Limit] /\ bytes \in [Threads -> Sizes \cup {0}]
  /\ block \in [Blocks -> Sizes \cup {0}]
  /\ \A t \in Threads : pc[t] = "idle" <=> bytes[t] = 0

(* The bytes that f gives its arguments, each with its number.             *)
Bytes(f) == {b \in (DOMAIN f) \X (1 .. (Word - 1)) : b[2] <= f[b[1]]}
Reserved == [t \in Threads |-> IF pc[t] \in {"allocate", "return"} THEN bytes[t] ELSE 0]

(* used_ is what live blocks and calls in flight hold, to the byte and     *)
(* never more than the limit: nothing is lost by an allocation that throws *)
(* or a block freed by another thread, and the unsigned difference of the  *)
(* test never wraps.                                                       *)
Accounted ==
  /\ used = Cardinality(Bytes(block)) + Cardinality(Bytes(Reserved))
  /\ used <= Limit

(* The counter is exact and every thread's view of it within the limit.    *)
BudgetExact == TypeOK /\ Accounted

Budget == INSTANCE MemoryBudget WITH
  Clients <- Threads, total <- used,
  ask <- [t \in Threads |-> IF pc[t] \in {"load", "swap"} THEN bytes[t] ELSE 0]

(* The loop around the exchange implements the budget in one step: what is *)
(* granted fitted, and what is refused did not fit, at that moment.        *)
ImplementsBudget == Budget!Spec
=============================================================================
