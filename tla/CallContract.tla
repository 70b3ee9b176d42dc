---------------------------- MODULE CallContract ----------------------------
(***************************************************************************)
(* What the HTTP server promises of an operation call, whatever threads    *)
(* carry it out (src/README.md, "Operation timeouts return 504 without     *)
(* cancellation or replay. Admitted calls keep capacity and storage until  *)
(* completion, including while HTTP is stopped."):                         *)
(*   - a call is refused without any effect, or accepted and then holds a  *)
(*     place among at most Cap calls;                                      *)
(*   - an accepted call is started at most once and gives up its place     *)
(*     only after it ended;                                                *)
(*   - it is answered once; 200 means the application's function returned; *)
(*   - a final drain ends only when no call holds a place, and nothing is  *)
(*     accepted afterwards.                                                *)
(***************************************************************************)
EXTENDS Naturals, FiniteSets

CONSTANTS Ops, Cap

VARIABLES phase,  \* the life of each call
          held,   \* the calls that hold capacity and storage
          answer, \* what the client was told
          final   \* the final drain is over

vars == <<phase, held, answer, final>>

Ended == {"returned", "threw", "failed"}
Refusals == {"mismatch", "unavailable", "capacity", "closed", "error"}

Init ==
  /\ phase = [o \in Ops |-> "new"]
  /\ held = {}
  /\ answer = [o \in Ops |-> "none"]
  /\ final = FALSE

Refuse(o) ==
  /\ phase[o] = "new"
  /\ phase' = [phase EXCEPT ![o] = "refused"]
  /\ \E a \in Refusals : answer' = [answer EXCEPT ![o] = a]
  /\ UNCHANGED <<held, final>>

Accept(o) ==
  /\ phase[o] = "new" /\ ~final
  /\ Cardinality(held) < Cap
  /\ phase' = [phase EXCEPT ![o] = "accepted"]
  /\ held' = held \cup {o}
  /\ UNCHANGED <<answer, final>>

Start(o) ==
  /\ phase[o] = "accepted" /\ o \in held
  /\ phase' = [phase EXCEPT ![o] = "started"]
  /\ UNCHANGED <<held, answer, final>>

End(o) ==
  /\ o \in held
  /\ \/ phase[o] = "started" /\ \E e \in {"returned", "threw"} : phase' = [phase EXCEPT ![o] = e]
     \/ phase[o] = "accepted" /\ phase' = [phase EXCEPT ![o] = "failed"]
  /\ UNCHANGED <<held, answer, final>>

Release(o) ==
  /\ o \in held /\ phase[o] \in Ended
  /\ held' = held \ {o}
  /\ UNCHANGED <<phase, answer, final>>

Answer(o) ==
  /\ answer[o] = "none" /\ phase[o] \notin {"new", "refused"}
  /\ \/ phase[o] = "returned" /\ answer' = [answer EXCEPT ![o] = "ok"]
     \/ phase[o] \in Ended \ {"returned"} /\ answer' = [answer EXCEPT ![o] = "unavailable"]
     \/ \E a \in {"timeout", "error"} : answer' = [answer EXCEPT ![o] = a]
  /\ UNCHANGED <<phase, held, final>>

Drain ==
  /\ held = {} /\ ~final
  /\ final' = TRUE
  /\ UNCHANGED <<phase, held, answer>>

Next ==
  \/ \E o \in Ops : \/ Refuse(o) \/ Accept(o) \/ Start(o) \/ End(o)
                    \/ Release(o) \/ Answer(o)
  \/ Drain

Spec == Init /\ [][Next]_vars
=============================================================================
