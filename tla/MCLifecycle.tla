----------------------------- MODULE MCLifecycle -----------------------------
(* ServerLifecycle on a small instance: four (safety) or three (liveness)  *)
(* calls of the public API, two HTTP workers or one, two executor widths   *)
(* and two capacities.                                                     *)
EXTENDS ServerLifecycle, TLC

CONSTANTS c1, c2, c3, c4, h1, h2, narrow, wide

MCFourCalls == {c1, c2, c3, c4}
MCThreeCalls == {c1, c2, c3}
MCHandlers == {h1, h2}
MCOneHandler == {h1}
MCWidths == {narrow, wide}

(* Calls, HTTP workers and widths are each alike.                          *)
MCSymmetry == Permutations(MCFourCalls) \cup Permutations(MCHandlers)
              \cup Permutations(MCWidths)
=============================================================================
