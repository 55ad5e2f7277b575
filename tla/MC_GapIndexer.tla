-------------------------- MODULE MC_GapIndexer --------------------------
(* Model-checking instance of GapIndexer: a chain of four epochs with one *)
(* null round, one task, one or two fill jobs.                                   *)
EXTENDS GapIndexer, TLC

CONSTANTS messages, blocks, f1, f2
=============================================================================
