------------------------- MODULE MC_MessageExtraction -------------------------
(* Two blocks over two messages: a message can be in one block or both,   *)
(* and the blocks can be visited in either order.                          *)
EXTENDS MessageExtractionGas, TLC

CONSTANTS b1, b2, m1, m2

=============================================================================
