------------------------------ MODULE MCRegistry ------------------------------
EXTENDS Registry, TLC

CONSTANTS w1, w2, testnet, mainnet

Processes == {w1, w2}
Nets == {testnet, mainnet}

(* No definition tells one watcher or one network from another. *)
Symmetry == Permutations(Processes) \cup Permutations(Nets)
=============================================================================
