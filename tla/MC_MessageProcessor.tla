------------------------ MODULE MC_MessageProcessor ------------------------
(* Model-checking instance of the scheduler: one or two processes, three  *)
(* tipsets of which the height bounds admit two, a relative clock; with   *)
(* the fairness of MessageProcessorLive and the refinement mapping of     *)
(* MessageProcessorLease.                                                 *)
EXTENDS MessageProcessorLive, MessageProcessorLease, TLC

CONSTANTS w1, w2, none

MCWorkers == {w1, w2}
MCOneWorker == {w1}
MCSymmetry == Permutations(MCWorkers)
=============================================================================
