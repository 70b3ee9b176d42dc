---------------------------- MODULE MemoryBudget ----------------------------
(***************************************************************************)
(* What a memory budget promises the conversions that share it: a request  *)
(* is granted exactly when it fits into what is left at some moment while  *)
(* it is open, and no more than the limit is ever granted.                 *)
(***************************************************************************)
EXTENDS Naturals

CONSTANTS Clients, \* threads that allocate and free
          Sizes,   \* sizes they ask for
          Limit    \* the budget

VARIABLES total,   \* bytes granted and not given back
          ask,     \* the open request of each client, 0 for none
          refused  \* clients whose last request was refused

vars == <<total, ask, refused>>

Init == total = 0 /\ ask = [c \in Clients |-> 0] /\ refused = {}

Ask(c) ==
  /\ ask[c] = 0 /\ \E n \in Sizes : ask' = [ask EXCEPT ![c] = n]
  /\ refused' = refused \ {c} /\ UNCHANGED total

Grant(c) ==
  /\ ask[c] # 0 /\ total + ask[c] <= Limit
  /\ total' = total + ask[c]
  /\ ask' = [ask EXCEPT ![c] = 0] /\ UNCHANGED refused

Refuse(c) ==
  /\ ask[c] # 0 /\ total + ask[c] > Limit
  /\ refused' = refused \cup {c}
  /\ ask' = [ask EXCEPT ![c] = 0] /\ UNCHANGED total

GiveBack == \E n \in Sizes : n <= total /\ total' = total - n /\ UNCHANGED <<ask, refused>>

Next == GiveBack \/ \E c \in Clients : Ask(c) \/ Grant(c) \/ Refuse(c)

Spec == Init /\ [][Next]_vars
=============================================================================
