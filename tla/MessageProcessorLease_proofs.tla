-------------------- MODULE MessageProcessorLease_proofs --------------------
(***************************************************************************)
(* Proof that the scheduler implements the lease contract LeaseSpec under  *)
(* the mapping of MessageProcessorLease, for every number of processes and *)
(* tipsets and every lease length and batch size.  The argument rests on   *)
(* the invariant CInv of MessageProcessor_proofs: by lease exclusion a     *)
(* tipset has at most one live holder, so Owner names it; ClaimHeld makes  *)
(* a leased tipset unowned; HeldOpen makes a marked tipset open.           *)
(***************************************************************************)
EXTENDS MessageProcessorLease, MessageProcessor_proofs, FiniteSetTheorems

USE Assumptions, LeaseAssumptions

-----------------------------------------------------------------------------
(* The owner of a tipset.                                                  *)

LEMMA OwnerOfEmpty == OwnerOf({}) = NoWorker
BY DEF OwnerOf

LEMMA OwnerOfSingleton == ASSUME NEW w PROVE OwnerOf({w}) = w
BY DEF OwnerOf

\* Under lease exclusion a tipset has no live holder and no owner, or one
\* live holder, its owner.
LEMMA HoldersOwner ==
    ASSUME LeaseExclusion, NEW h \in Heights
    PROVE  \/ LiveHolders(h) = {} /\ Owner[h] = NoWorker
           \/ Owner[h] \in Workers /\ LiveHolders(h) = {Owner[h]}
<1>1. CASE LiveHolders(h) = {}
    BY <1>1, OwnerOfEmpty DEF Owner
<1>2. CASE LiveHolders(h) # {}
    <2>1. PICK w \in LiveHolders(h) : TRUE
        BY <1>2
    <2>2. LiveHolders(h) = {w}
        BY <2>1 DEF LiveHolders, LeaseExclusion
    <2>3. QED
        BY <2>1, <2>2, OwnerOfSingleton DEF Owner, LiveHolders
<1>3. QED
    BY <1>1, <1>2

\* The owner after a step, from the live holders after it: none, or one.
LEMMA OwnerAfter ==
    ASSUME NEW h \in Heights
    PROVE  /\ LiveHolders(h)' = {} => Owner'[h] = NoWorker
           /\ \A w \in Workers : LiveHolders(h)' = {w} => Owner'[h] = w
BY OwnerOfEmpty, OwnerOfSingleton DEF Owner

-----------------------------------------------------------------------------
(* Initial states.                                                         *)

LEMMA InitRefines == Init => LS!Init
<1> SUFFICES ASSUME Init PROVE LS!Init
    OBVIOUS
<1>1. \A h \in Heights : LiveHolders(h) = {}
    BY DEF Init, LiveHolders, Held
<1>2. Owner = [h \in Heights |-> NoWorker]
    BY <1>1, OwnerOfEmpty DEF Owner
<1>3. QED
    BY <1>2 DEF Init, LS!Init, RowStatus

-----------------------------------------------------------------------------
(* Steps.                                                                  *)

\* A step that changes no live holder, no store status and nothing
\* persisted leaves the contract's state alone.
LEMMA QuietStep ==
    ASSUME \A h \in Heights : LiveHolders(h)' = LiveHolders(h),
           \A h \in Heights : rec'[h].status = rec[h].status,
           persisted' = persisted
    PROVE  UNCHANGED LS!vars
<1>1. Owner' = Owner
    BY DEF Owner
<1>2. RowStatus' = RowStatus
    BY DEF RowStatus
<1>3. QED
    BY <1>1, <1>2 DEF LS!vars

\* A step after which the processes of D are no live holder of anything,
\* and which changes nothing else of the contract's state, is Expire(D).
LEMMA ExpireStep ==
    ASSUME CInv, NEW D \in SUBSET Workers,
           \A h \in Heights : LiveHolders(h)' = {x \in LiveHolders(h) : x \notin D},
           \A h \in Heights : rec'[h].status = rec[h].status,
           persisted' = persisted
    PROVE  LS!Expire(D)
<1>1. \A h \in Heights : Owner'[h] = IF Owner[h] \in D THEN NoWorker ELSE Owner[h]
    <2> SUFFICES ASSUME NEW h \in Heights
                 PROVE  Owner'[h] = IF Owner[h] \in D THEN NoWorker ELSE Owner[h]
        OBVIOUS
    <2>1. CASE LiveHolders(h) = {} /\ Owner[h] = NoWorker
        BY <2>1, OwnerAfter
    <2>2. CASE Owner[h] \in Workers /\ LiveHolders(h) = {Owner[h]}
        <3>1. CASE Owner[h] \in D
            BY <2>2, <3>1, OwnerAfter
        <3>2. CASE Owner[h] \notin D
            BY <2>2, <3>2, OwnerAfter
        <3>3. QED
            BY <3>1, <3>2
    <2>3. QED
        BY <2>1, <2>2, HoldersOwner DEF CInv, IInv
<1>2. QED
    BY <1>1 DEF LS!Expire, Owner, RowStatus

\* A tick ends the leases whose deadline it reaches.
LEMMA TickRefines == CInv /\ Tick => LS!Next
<1> SUFFICES ASSUME CInv, Tick PROVE LS!Next
    OBVIOUS
<1> DEFINE D == {x \in Workers : CtxDone(x)'}
<1>0. /\ \A h \in Heights : rec'[h].status = rec[h].status
      /\ \A w \in Workers : ~CtxDone(w)' => ~CtxDone(w)
    BY TickFacts DEF CInv, IInv
<1>1. \A h \in Heights : LiveHolders(h)' = {x \in LiveHolders(h) : x \notin D}
    BY <1>0 DEF Tick, LiveHolders, Held
<1>2. LS!Expire(D)
    BY <1>0, <1>1, ExpireStep DEF Tick
<1>3. QED
    BY <1>2 DEF LS!Next

\* A crash ends the crashed process's leases.
LEMMA CrashRefines == ASSUME CInv, NEW w \in Workers, Crash(w) PROVE LS!Next
<1>1. \A h \in Heights : LiveHolders(h)' = {x \in LiveHolders(h) : x \notin {w}}
    BY DEF Crash, LiveHolders, Held, CtxDone, CInv, IInv, TypeOK
<1>2. LS!Expire({w})
    BY <1>1, ExpireStep DEF Crash
<1>3. QED
    BY <1>2 DEF LS!Next

\* A mark (completed or failed) by a process with a live context hands
\* back the tipset it marks, which it alone owned, and nothing else.
LEMMA MarkReleases ==
    ASSUME CInv, NEW w \in Workers, pc[w] = "mark", ~CtxDone(w),
           pc' = [pc EXCEPT ![w] = "item"],
           UNCHANGED <<now, batch, claimUntil, cur>>
    PROVE  /\ Owner[cur[w]] = w
           /\ Owner' = [Owner EXCEPT ![cur[w]] = NoWorker]
<1>1. cur[w] \in Heights /\ w \in LiveHolders(cur[w])
    BY DEF LiveHolders, Held, CInv, IInv, TypeOK
<1>2. LiveHolders(cur[w]) = {w} /\ Owner[cur[w]] = w
    BY <1>1, HoldersOwner DEF CInv, IInv
<1>3. LiveHolders(cur[w])' = {}
    BY <1>2 DEF LiveHolders, Held, CtxDone, CInv, CurNotInBatch, IInv, TypeOK
<1>4. \A h \in Heights \ {cur[w]} : LiveHolders(h)' = LiveHolders(h)
    BY DEF LiveHolders, Held, CtxDone, CInv, IInv, TypeOK
<1>5. QED
    BY <1>1, <1>2, <1>3, <1>4, OwnerOfEmpty DEF Owner

LEMMA MarkCompleteRefines ==
    ASSUME CInv, NEW w \in Workers, MarkComplete(w) PROVE LS!Next
<1>1. /\ Owner[cur[w]] = w
      /\ Owner' = [Owner EXCEPT ![cur[w]] = NoWorker]
    BY MarkReleases DEF MarkComplete
<1>2. cur[w] \in Heights /\ rec[cur[w]].status = "open"
    BY DEF MarkComplete, CInv, HeldOpen, Held, IInv, TypeOK
<1>3. RowStatus' = [RowStatus EXCEPT ![cur[w]] = res[w]]
    <2>1. rec'[cur[w]].status = res[w]
        BY <1>2 DEF MarkComplete, MarkTipSetMessagesComplete, CInv, IInv, TypeOK
    <2>2. \A h \in Heights \ {cur[w]} : rec'[h] = rec[h]
        BY <1>2 DEF MarkComplete, MarkTipSetMessagesComplete, CInv, IInv, TypeOK
    <2>3. QED
        BY <1>2, <2>1, <2>2 DEF RowStatus
<1>4. LS!Complete(w, cur[w], res[w])
    BY <1>1, <1>2, <1>3 DEF LS!Complete, RowStatus, MarkComplete
<1>5. res[w] \in {"ok"} \cup ErrorKinds
    BY DEF CInv, IInv, TypeOK
<1>6. QED
    BY <1>2, <1>4, <1>5 DEF LS!Next

LEMMA MarkFailedRefines ==
    ASSUME CInv, NEW w \in Workers, MarkFailed(w) PROVE [LS!Next]_LS!vars
<1>1. CASE CtxDone(w)
    <2>1. \A h \in Heights : LiveHolders(h)' = LiveHolders(h)
        BY <1>1 DEF MarkFailed, LiveHolders, Held, CtxDone
    <2>2. QED
        BY <2>1, QuietStep DEF MarkFailed
<1>2. CASE ~CtxDone(w)
    <2>1. /\ Owner[cur[w]] = w
          /\ Owner' = [Owner EXCEPT ![cur[w]] = NoWorker]
        BY <1>2, MarkReleases DEF MarkFailed
    <2>2. RowStatus' = RowStatus
        BY DEF MarkFailed, RowStatus
    <2>3. cur[w] \in Heights
        BY DEF CInv, IInv, TypeOK
    <2>4. LS!Abandon(w, cur[w])
        BY <2>1, <2>2 DEF LS!Abandon, MarkFailed
    <2>5. QED
        BY <2>3, <2>4 DEF LS!Next
<1>3. QED
    BY <1>1, <1>2

\* processItem keeps what its process holds; a successful one persists the
\* messages of a tipset the process owns.
LEMMA ProcessItemRefines ==
    ASSUME CInv, NEW w \in Workers, ProcessItem(w) PROVE [LS!Next]_LS!vars
<1>1. PICK h \in batch[w] :
        /\ \/ /\ res' = [res EXCEPT ![w] = "ok"]
              /\ persisted' = [persisted EXCEPT ![h] = TRUE]
           \/ /\ \E e \in ErrorKinds : res' = [res EXCEPT ![w] = e]
              /\ UNCHANGED persisted
        /\ batch' = [batch EXCEPT ![w] = @ \ {h}]
        /\ cur' = [cur EXCEPT ![w] = h]
    BY DEF ProcessItem
<1>2. h \in Heights
    BY <1>1 DEF CInv, IInv, TypeOK
<1>3. \A x \in Workers : Held(x)' = Held(x)
    BY <1>1 DEF ProcessItem, Held, CInv, IInv, TypeOK
<1>4. \A g \in Heights : LiveHolders(g)' = LiveHolders(g)
    BY <1>3 DEF ProcessItem, LiveHolders, CtxDone
<1>5. Owner' = Owner /\ RowStatus' = RowStatus
    BY <1>4 DEF ProcessItem, Owner, RowStatus
<1>6. CASE persisted' = [persisted EXCEPT ![h] = TRUE]
    <2>1. Owner[h] = w
        <3>1. w \in LiveHolders(h)
            BY <1>1, <1>2 DEF ProcessItem, LiveHolders, Held
        <3>2. QED
            BY <1>2, <3>1, HoldersOwner DEF CInv, IInv
    <2>2. LS!Persist(w, h)
        BY <1>5, <1>6, <2>1 DEF LS!Persist
    <2>3. QED
        BY <1>2, <2>2 DEF LS!Next
<1>7. CASE UNCHANGED persisted
    BY <1>4, <1>7, QuietStep DEF ProcessItem
<1>8. QED
    BY <1>1, <1>6, <1>7

\* A lease takes, for a process that owns nothing, at most BatchSize open
\* tipsets within the bounds whose claim has expired, which therefore have
\* no live holder.
LEMMA LeaseBatchRefines ==
    ASSUME CInv, NEW w \in Workers, LeaseBatch(w) PROVE LS!Next
<1>1. PICK S \in SUBSET Heights :
            /\ LeaseTipSetMessages(S, now + LeaseLength)
            /\ batch' = [batch EXCEPT ![w] = S]
    BY DEF LeaseBatch
<1>2. \A h \in Heights : w \notin LiveHolders(h)
    BY DEF LeaseBatch, LiveHolders, Held, CInv, IInv, IdleEmpty
<1>3. \A h \in Heights : Owner[h] # w
    BY <1>2, HoldersOwner DEF CInv, IInv
<1>4. \A h \in S : LiveHolders(h) = {}
    BY <1>1 DEF LeaseTipSetMessages, Leasable, LiveHolders, CInv, IInv, ClaimHeld,
              CtxDone, TypeOK, Time
<1>5. S # {} /\ Cardinality(S) <= BatchSize
    <2>1. IsFiniteSet(Leasable) /\ Leasable # {}
        BY FS_Subset DEF LeaseBatch, Leasable
    <2>2. Cardinality(Leasable) \in Nat \ {0}
        BY <2>1, FS_CardinalityType, FS_EmptySet
    <2>3. Cardinality(S) \in Nat \ {0} /\ Cardinality(S) <= BatchSize
        BY <1>1, <2>2 DEF LeaseTipSetMessages
    <2>4. QED
        BY <2>3, FS_EmptySet
<1>6. \A h \in S : /\ rec[h].status = "open"
                   /\ MinHeight <= h /\ h <= MaxHeight
    BY <1>1 DEF LeaseTipSetMessages, Leasable
<1>7. \A h \in Heights : LiveHolders(h)' = LiveHolders(h) \cup (IF h \in S THEN {w} ELSE {})
    BY <1>1, <1>2 DEF LeaseBatch, LiveHolders, Held, CtxDone, CInv, IInv, TypeOK, Time
<1>8. Owner' = [h \in Heights |-> IF h \in S THEN w ELSE Owner[h]]
    <2> SUFFICES ASSUME NEW h \in Heights
                 PROVE  Owner'[h] = IF h \in S THEN w ELSE Owner[h]
        BY DEF Owner
    <2>1. CASE h \in S
        BY <1>4, <1>7, <2>1, OwnerAfter
    <2>2. CASE h \notin S /\ LiveHolders(h) = {} /\ Owner[h] = NoWorker
        BY <1>7, <2>2, OwnerAfter
    <2>3. CASE h \notin S /\ Owner[h] \in Workers /\ LiveHolders(h) = {Owner[h]}
        BY <1>7, <2>3, OwnerAfter
    <2>4. QED
        BY <2>1, <2>2, <2>3, HoldersOwner DEF CInv, IInv
<1>9. \A h \in Heights : rec'[h].status = rec[h].status
    BY <1>1 DEF LeaseTipSetMessages, CInv, IInv, TypeOK
<1>10. RowStatus' = RowStatus
    BY <1>9 DEF RowStatus
<1>11. \A h \in S : Owner[h] = NoWorker /\ RowStatus[h] = "open"
    BY <1>4, <1>6, OwnerOfEmpty DEF Owner, RowStatus
<1>12. LS!Cardinality(S) <= BatchSize
    <2>1. LS!Cardinality(S) = Cardinality(S)
        BY Zenon DEF LS!Cardinality, Cardinality
    <2>2. QED
        BY <1>5, <2>1
<1>13. LS!Acquire(w, S)
    BY <1>3, <1>5, <1>6, <1>8, <1>10, <1>11, <1>12 DEF LS!Acquire, LeaseBatch
<1>14. QED
    BY <1>13 DEF LS!Next

\* Sleeping, a lease error and the end of a batch change no live holder:
\* the process held nothing, or its context was already done.
LEMMA QuietActionsRefine ==
    ASSUME CInv, NEW w \in Workers, Idle(w) \/ LeaseError(w) \/ EndBatch(w)
    PROVE  UNCHANGED LS!vars
<1>1. CASE Idle(w)
    <2>1. \A h \in Heights : LiveHolders(h)' = LiveHolders(h)
        BY <1>1 DEF Idle, vars, LiveHolders, Held, CtxDone
    <2>2. QED
        BY <1>1, <2>1, QuietStep DEF Idle, vars
<1>2. CASE LeaseError(w)
    <2>1. \A x \in Workers : Held(x)' = Held(x)
        BY <1>2 DEF LeaseError, Held, CInv, IInv, IdleEmpty, TypeOK
    <2>2. \A h \in Heights : LiveHolders(h)' = LiveHolders(h)
        BY <1>2, <2>1 DEF LeaseError, LiveHolders, CtxDone
    <2>3. QED
        BY <1>2, <2>2, QuietStep DEF LeaseError
<1>3. CASE EndBatch(w)
    <2>1. \A x \in Workers \ {w} : Held(x)' = Held(x)
        BY <1>3 DEF EndBatch, Held, CInv, IInv, TypeOK
    <2>2. Held(w)' = {} /\ (Held(w) = {} \/ CtxDone(w))
        BY <1>3 DEF EndBatch, Held, CInv, IInv, TypeOK
    <2>3. \A h \in Heights : LiveHolders(h)' = LiveHolders(h)
        BY <1>3, <2>1, <2>2 DEF EndBatch, LiveHolders, CtxDone
    <2>4. QED
        BY <1>3, <2>3, QuietStep DEF EndBatch
<1>4. QED
    BY <1>1, <1>2, <1>3

\* Under CInv every step of the scheduler is a step of the lease contract
\* or leaves its state alone.
LEMMA StepRefines == CInv /\ [Next]_vars => [LS!Next]_LS!vars
<1> SUFFICES ASSUME CInv, [Next]_vars PROVE [LS!Next]_LS!vars
    OBVIOUS
<1>1. CASE Tick
    BY <1>1, TickRefines
<1>2. ASSUME NEW w \in Workers, LeaseBatch(w) PROVE [LS!Next]_LS!vars
    BY <1>2, LeaseBatchRefines
<1>3. ASSUME NEW w \in Workers, Idle(w) \/ LeaseError(w) \/ EndBatch(w)
      PROVE [LS!Next]_LS!vars
    BY <1>3, QuietActionsRefine
<1>4. ASSUME NEW w \in Workers, ProcessItem(w) PROVE [LS!Next]_LS!vars
    BY <1>4, ProcessItemRefines
<1>5. ASSUME NEW w \in Workers, MarkComplete(w) PROVE [LS!Next]_LS!vars
    BY <1>5, MarkCompleteRefines
<1>6. ASSUME NEW w \in Workers, MarkFailed(w) PROVE [LS!Next]_LS!vars
    BY <1>6, MarkFailedRefines
<1>7. ASSUME NEW w \in Workers, Crash(w) PROVE [LS!Next]_LS!vars
    BY <1>7, CrashRefines
<1>8. CASE UNCHANGED vars
    <2>1. \A h \in Heights : LiveHolders(h)' = LiveHolders(h)
        BY <1>8 DEF vars, LiveHolders, Held, CtxDone
    <2>2. QED
        BY <1>8, <2>1, QuietStep DEF vars
<1>9. QED
    BY <1>1, <1>2, <1>3, <1>4, <1>5, <1>6, <1>7, <1>8 DEF Next

-----------------------------------------------------------------------------
(* The refinement.                                                         *)

\* The scheduler implements the design's lease contract for every number
\* of processes and tipsets and every lease length and batch size: through
\* expiries, crashes, lease errors and late marks, every tipset has at most
\* one owner, a lease takes only unowned open tipsets, only the owner
\* persists or completes a tipset, and a completed tipset stays completed.
THEOREM ImplementsLeaseSpecHolds == Spec => ImplementsLeaseSpec
<1>1. Spec => []CInv
    BY InitCInv, NextCInv, PTL DEF Spec
<1>2. QED
    BY <1>1, InitRefines, StepRefines, PTL DEF Spec, ImplementsLeaseSpec, LS!Spec

=============================================================================
