---------------------------- MODULE MCNetworkPool ----------------------------
(* NetworkPool with two workers, a queue for one connection and more       *)
(* connections than workers, queue and accept loop can hold at once.       *)
EXTENDS NetworkPool, TLC

CONSTANTS w1, w2, c1, c2, c3, c4, c5

MCWorkers == {w1, w2}
MCConns == {c1, c2, c3, c4, c5}
=============================================================================
