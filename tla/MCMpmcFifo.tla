----------------------------- MODULE MCMpmcFifo -----------------------------
(* Small blocking fifos for module MpmcFifo.                               *)
EXTENDS MpmcFifo, TLC

CONSTANTS p1, p2, c1, c2, v1, v2

MCProducers == {p1, p2}
MCConsumers == {c1, c2}
MCValues == {v1, v2}
MCSymmetry == Permutations(MCProducers) \cup Permutations(MCConsumers) \cup Permutations(MCValues)
=============================================================================
