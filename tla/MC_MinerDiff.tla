--------------------------- MODULE MC_MinerDiff ---------------------------
(* Model-checking instance of MinerDiff: two sectors, two expirations and *)
(* two values of the other fields, every pair of miner versions.          *)
EXTENDS MinerDiff, TLC

CONSTANTS m0, m2, m3, m4, k0, k2, o1, o2, absent
=============================================================================
