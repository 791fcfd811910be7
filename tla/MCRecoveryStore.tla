-------------------------- MODULE MCRecoveryStore --------------------------
(* RecoveryStore on a small instance: three puts, the first two of which   *)
(* run in one process and make up the same temporary name.                 *)
EXTENDS RecoveryStore, TLC

CONSTANTS w1, w2, w3, p1, p2, n1, n2

MCProcessOf == w1 :> p1 @@ w2 :> p1 @@ w3 :> p2
MCNameOf == w1 :> n1 @@ w2 :> n1 @@ w3 :> n2

Symmetry == Permutations(Key) \cup Permutations(Original)
============================================================================
