------------------------ MODULE MessageProcessorLease ------------------------
(***************************************************************************)
(* The scheduler of MessageProcessor seen as the lease contract LeaseSpec. *)
(* A process owns a tipset while it holds it (in its batch, or as the item *)
(* it is about to mark) with a live context; the status of a tipset is    *)
(* that of its store row.  Lease exclusion makes the owner unique.         *)
(***************************************************************************)
EXTENDS MessageProcessor

CONSTANT NoWorker  \* the owner of a tipset nobody holds with a live context

ASSUME LeaseAssumptions ==
    /\ NoWorker \notin Workers
    /\ IsFiniteSet(Heights)

\* The live holders of h.
LiveHolders(h) == { w \in Workers : h \in Held(w) /\ ~CtxDone(w) }

\* The owner named by a set of live holders (at most one, by lease exclusion).
OwnerOf(L) == IF L = {} THEN NoWorker ELSE CHOOSE w \in L : TRUE

\* The refinement mapping.
Owner == [h \in Heights |-> OwnerOf(LiveHolders(h))]
RowStatus == [h \in Heights |-> rec[h].status]

LS == INSTANCE LeaseSpec
        WITH owner <- Owner, status <- RowStatus, persisted <- persisted,
             Outcomes <- {"ok"} \cup ErrorKinds

\* The scheduler keeps the design's lease contract: every step of the
\* processes, of the store and of the clock is a step of LeaseSpec or
\* leaves its state alone.  In particular a lease takes only unowned open
\* tipsets, at most BatchSize, for a process that owns nothing; a mark or a
\* persist is made only by the live owner; a completed tipset is never
\* completed again.
ImplementsLeaseSpec == LS!Spec

=============================================================================
