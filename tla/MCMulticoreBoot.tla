--------------------------- MODULE MCMulticoreBoot --------------------------
(* The words of the protocol for module MulticoreBoot.                     *)
EXTENDS MulticoreBoot

CONSTANTS vt, sp, entry, ms, junk
=============================================================================
