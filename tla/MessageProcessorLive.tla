------------------------ MODULE MessageProcessorLive ------------------------
(***************************************************************************)
(* Progress of the scheduler of MessageProcessor under fairness.           *)
(*                                                                         *)
(* The clock keeps moving (the horizon step of Tick moves claims and       *)
(* deadlines instead of the clock).  A running process keeps executing    *)
(* its loop: Run's RepeatUntil calls processBatch again and processBatch  *)
(* walks its batch, so its next step, once enabled, is eventually taken.  *)
(* Two steps need strong fairness, because the clock can disable them:     *)
(* processItem for a leased tipset and a mark on a live context; assuming *)
(* them says that the lease is long enough for an item to be extracted and *)
(* marked in time, and that the database does not reject every mark.      *)
(* Crashes and lease errors are faults, bounded by MaxCrashes and never    *)
(* forced.                                                                 *)
(***************************************************************************)
EXTENDS MessageProcessor

\* The steps of process w's loop.
Step(w) ==
    LeaseBatch(w) \/ EndBatch(w) \/ ProcessItem(w) \/ MarkComplete(w) \/ MarkFailed(w)

Fairness ==
    /\ WF_vars(Tick)
    /\ \A w \in Workers : /\ WF_vars(Step(w))
                          /\ SF_vars(ProcessItem(w))
                          /\ SF_vars(MarkComplete(w))

LiveSpec == Spec /\ Fairness

InBounds(h) == MinHeight <= h /\ h <= MaxHeight

\* Section 7 of the design: a failure is recorded on the item and never
\* thrown out of the processing loop, and a crashed process's work is
\* reclaimed on lease expiry.  So every tipset within the processor's
\* height bounds is eventually completed, whatever crashes and lease
\* errors happened on the way.
EventuallyAllCompleted ==
    <>(\A h \in Heights : InBounds(h) => rec[h].status # "open")

=============================================================================
