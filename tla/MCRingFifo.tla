----------------------------- MODULE MCRingFifo -----------------------------
(* Small lock-free fifos for module RingFifo.                              *)
EXTENDS RingFifo

CONSTANTS p1, c1, v1, v2
=============================================================================
