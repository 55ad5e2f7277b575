------------------------ MODULE MC_VerifregExtractor ------------------------
(* A chain of three heights, one address and two datacap values: enough    *)
(* for an entry to be added, modified and removed, at height 1 or later.   *)
EXTENDS VerifregExtractor, TLC

CONSTANTS a1, absent

=============================================================================
