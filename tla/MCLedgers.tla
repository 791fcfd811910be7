----------------------------- MODULE MCLedgers ------------------------------
(* Ledgers with three appends, each of a process of its own.               *)
EXTENDS Ledgers, TLC

CONSTANTS w1, w2, w3

MCWriters == {w1, w2, w3}
MCProcessOf == [w \in MCWriters |-> w]
MCKinds == {"costs", "health", "transcript", "served"}
MCTimes == {0, 1}
Symmetry == Permutations(MCWriters)
============================================================================
