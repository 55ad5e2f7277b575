----------------------- MODULE MessageProcessor_proofs -----------------------
(***************************************************************************)
(* Proofs about the lease-based message processor, for every number of     *)
(* processes and tipsets and every lease length, batch size and bound.     *)
(***************************************************************************)
EXTENDS MessageProcessor, TLAPS

USE Assumptions

-----------------------------------------------------------------------------
(* Type correctness.                                                       *)

LEMMA InitTypeOK == Init => TypeOK
<1>1. (CHOOSE h \in Heights : TRUE) \in Heights
    BY Assumptions
<1>2. QED
    BY <1>1 DEF Init, TypeOK, Time, PC, Status, ErrorKinds

\* A tick keeps the types, no status, the claim of every live holder equal
\* to its deadline, and revives no context: it moves the clock, or at the
\* horizon moves every claim and deadline one tick closer.
LEMMA TickFacts ==
    ASSUME TypeOK, Tick
    PROVE  /\ TypeOK'
           /\ \A h \in Heights : rec'[h].status = rec[h].status
           /\ \A w \in Workers : ~CtxDone(w)' => ~CtxDone(w)
           /\ \A w \in Workers, h \in Heights :
                 rec[h].claim = claimUntil[w] => rec'[h].claim = claimUntil'[w]
<1>1. \A t \in Time : Earlier(t) \in Time /\ Earlier(t) <= t
    BY DEF Earlier, Time
<1>2. CASE now < MaxTime /\ now' = now + 1 /\ UNCHANGED <<rec, claimUntil>>
    BY <1>2 DEF Tick, TypeOK, CtxDone, Time
<1>3. CASE /\ now = MaxTime /\ UNCHANGED now
           /\ rec' = [h \in Heights |-> [rec[h] EXCEPT !.claim = Earlier(rec[h].claim)]]
           /\ claimUntil' = [w \in Workers |-> Earlier(claimUntil[w])]
    <2>1. \A h \in Heights : rec'[h] = [claim |-> Earlier(rec[h].claim), status |-> rec[h].status]
        BY <1>3 DEF TypeOK
    <2>2. TypeOK'
        <3>1. rec' \in [Heights -> [claim : Time, status : Status]]
            <4>1. \A h \in Heights : rec'[h] \in [claim : Time, status : Status]
                <5> SUFFICES ASSUME NEW h \in Heights
                             PROVE  rec'[h] \in [claim : Time, status : Status]
                    OBVIOUS
                <5>1. Earlier(rec[h].claim) \in Time /\ rec[h].status \in Status
                    BY <1>1 DEF TypeOK
                <5>2. rec'[h] = [claim |-> Earlier(rec[h].claim), status |-> rec[h].status]
                    BY <2>1
                <5>3. QED
                    BY <5>1, <5>2
            <4>2. QED
                BY <1>3, <4>1
        <3>2. claimUntil' \in [Workers -> Time]
            BY <1>1, <1>3 DEF TypeOK
        <3>3. QED
            BY <1>3, <3>1, <3>2 DEF Tick, TypeOK
    <2>3. \A w \in Workers : ~CtxDone(w)' => ~CtxDone(w)
        BY <1>1, <1>3 DEF CtxDone, TypeOK, Time
    <2>4. QED
        BY <2>1, <2>2, <2>3, <1>3
<1>4. QED
    BY <1>2, <1>3 DEF Tick

LEMMA NextTypeOK == TypeOK /\ [Next]_vars => TypeOK'
<1> SUFFICES ASSUME TypeOK, [Next]_vars PROVE TypeOK'
    OBVIOUS
<1>1. CASE Tick
    BY <1>1, TickFacts
<1>2. ASSUME NEW w \in Workers, LeaseBatch(w) PROVE TypeOK'
    <2>1. PICK S \in SUBSET Heights :
                /\ LeaseTipSetMessages(S, now + LeaseLength)
                /\ batch' = [batch EXCEPT ![w] = S]
        BY <1>2 DEF LeaseBatch
    <2>2. now + LeaseLength \in Time
        BY DEF TypeOK, Time
    <2>3. rec' \in [Heights -> [claim : Time, status : Status]]
        BY <2>1, <2>2 DEF LeaseTipSetMessages, TypeOK
    <2>4. QED
        BY <1>2, <2>1, <2>2, <2>3 DEF LeaseBatch, TypeOK, PC
<1>3. ASSUME NEW w \in Workers, Idle(w) PROVE TypeOK'
    BY <1>3 DEF Idle, TypeOK, vars
<1>4. ASSUME NEW w \in Workers, LeaseError(w) PROVE TypeOK'
    BY <1>4 DEF LeaseError, TypeOK, PC
<1>5. ASSUME NEW w \in Workers, EndBatch(w) PROVE TypeOK'
    BY <1>5 DEF EndBatch, TypeOK, PC
<1>6. ASSUME NEW w \in Workers, ProcessItem(w) PROVE TypeOK'
    <2>1. PICK h \in batch[w] :
            /\ \/ /\ res' = [res EXCEPT ![w] = "ok"]
                  /\ persisted' = [persisted EXCEPT ![h] = TRUE]
               \/ /\ \E e \in ErrorKinds : res' = [res EXCEPT ![w] = e]
                  /\ UNCHANGED persisted
            /\ batch' = [batch EXCEPT ![w] = @ \ {h}]
            /\ cur' = [cur EXCEPT ![w] = h]
        BY <1>6 DEF ProcessItem
    <2>2. h \in Heights
        BY <2>1 DEF TypeOK
    <2>3. res' \in [Workers -> {"ok"} \cup ErrorKinds]
        BY <2>1 DEF TypeOK
    <2>4. QED
        BY <1>6, <2>1, <2>2, <2>3 DEF ProcessItem, TypeOK, PC
<1>7. ASSUME NEW w \in Workers, MarkComplete(w) PROVE TypeOK'
    BY <1>7 DEF MarkComplete, MarkTipSetMessagesComplete, TypeOK, PC, Status
<1>8. ASSUME NEW w \in Workers, MarkFailed(w) PROVE TypeOK'
    BY <1>8 DEF MarkFailed, TypeOK, PC
<1>9. ASSUME NEW w \in Workers, Crash(w) PROVE TypeOK'
    BY <1>9 DEF Crash, TypeOK, PC
<1>10. CASE UNCHANGED vars
    BY <1>10 DEF vars, TypeOK
<1>11. QED
    BY <1>1, <1>2, <1>3, <1>4, <1>5, <1>6, <1>7, <1>8, <1>9, <1>10 DEF Next

\* Every reachable state has the types TypeOK states.
THEOREM TypeCorrect == Spec => []TypeOK
BY InitTypeOK, NextTypeOK, PTL DEF Spec

-----------------------------------------------------------------------------
(* Lease exclusion.                                                        *)

\* A process that is not "item" or "mark" holds no batch.
IdleEmpty ==
    \A w \in Workers : pc[w] \in {"lease", "stopped"} => batch[w] = {}

\* While a process's context is live, the store still carries its claim on
\* every tipset it holds: nobody has re-leased them since.
ClaimHeld ==
    \A w \in Workers : \A h \in Held(w) :
        ~CtxDone(w) => rec[h].claim = claimUntil[w]

IInv == TypeOK /\ IdleEmpty /\ ClaimHeld /\ LeaseExclusion

LEMMA InitIInv == Init => IInv
<1> SUFFICES ASSUME Init PROVE IInv
    OBVIOUS
<1>1. TypeOK
    BY InitTypeOK
<1>2. \A w \in Workers : Held(w) = {}
    BY DEF Init, Held
<1>3. QED
    BY <1>1, <1>2 DEF IInv, IdleEmpty, ClaimHeld, LeaseExclusion, Init

\* A step that moves neither the clock, nor a deadline, nor a claim, and
\* after which every process holds at most what it held, keeps ClaimHeld
\* and LeaseExclusion.
LEMMA ShrinkingStep ==
    ASSUME IInv, TypeOK', IdleEmpty',
           now' = now, claimUntil' = claimUntil,
           \A h \in Heights : rec'[h].claim = rec[h].claim,
           \A w \in Workers : Held(w)' \subseteq Held(w)
    PROVE  IInv'
<1>1. ClaimHeld'
    <2> SUFFICES ASSUME NEW w \in Workers, NEW h \in Held(w)', ~CtxDone(w)'
                 PROVE  rec'[h].claim = claimUntil'[w]
        BY DEF ClaimHeld
    <2>1. h \in Held(w)
        OBVIOUS
    <2>2. h \in Heights
        BY <2>1 DEF IInv, TypeOK, Held
    <2>3. ~CtxDone(w)
        BY DEF CtxDone
    <2>4. QED
        BY <2>1, <2>2, <2>3 DEF IInv, ClaimHeld
<1>2. LeaseExclusion'
    BY DEF IInv, LeaseExclusion, CtxDone
<1>3. QED
    BY <1>1, <1>2 DEF IInv

LEMMA NextIInv == IInv /\ [Next]_vars => IInv'
<1> SUFFICES ASSUME IInv, [Next]_vars PROVE IInv'
    OBVIOUS
<1>0. TypeOK'
    BY NextTypeOK DEF IInv
<1>1. CASE Tick
    <2>1. \A w \in Workers : ~CtxDone(w)' => ~CtxDone(w)
        BY <1>1, TickFacts DEF IInv
    <2>2. \A w \in Workers : Held(w)' = Held(w)
        BY <1>1 DEF Tick, Held
    <2>3. ClaimHeld'
        <3> SUFFICES ASSUME NEW w \in Workers, NEW h \in Held(w)', ~CtxDone(w)'
                     PROVE  rec'[h].claim = claimUntil'[w]
            BY DEF ClaimHeld
        <3>1. h \in Held(w) /\ ~CtxDone(w) /\ h \in Heights
            BY <2>1, <2>2 DEF IInv, TypeOK, Held
        <3>2. QED
            BY <1>1, <3>1, TickFacts DEF IInv, ClaimHeld
    <2>4. QED
        BY <1>0, <1>1, <2>1, <2>2, <2>3
           DEF Tick, IInv, IdleEmpty, LeaseExclusion
<1>2. ASSUME NEW w \in Workers, LeaseBatch(w) PROVE IInv'
    <2>1. PICK S \in SUBSET Heights :
                /\ LeaseTipSetMessages(S, now + LeaseLength)
                /\ batch' = [batch EXCEPT ![w] = S]
        BY <1>2 DEF LeaseBatch
    <2>2. Held(w) = {}
        BY <1>2 DEF LeaseBatch, IInv, IdleEmpty, Held
    <2>3. Held(w)' = S
        BY <1>2, <2>1 DEF LeaseBatch, Held, IInv, TypeOK
    <2>4. \A x \in Workers \ {w} : Held(x)' = Held(x)
        BY <1>2, <2>1 DEF LeaseBatch, Held, IInv, TypeOK
    \* A tipset the lease takes is held by no process with a live context.
    <2>5. \A x \in Workers, h \in S : h \in Held(x) => CtxDone(x)
        BY <2>1 DEF LeaseTipSetMessages, Leasable, IInv, ClaimHeld, CtxDone, TypeOK, Time
    <2>6. \A h \in Heights : rec'[h].claim = IF h \in S THEN now + LeaseLength
                                                          ELSE rec[h].claim
        BY <2>1 DEF LeaseTipSetMessages, IInv, TypeOK
    <2>7. IdleEmpty'
        BY <1>2, <2>1 DEF LeaseBatch, IInv, IdleEmpty, TypeOK
    <2>8. ClaimHeld'
        <3> SUFFICES ASSUME NEW x \in Workers, NEW h \in Held(x)', ~CtxDone(x)'
                     PROVE  rec'[h].claim = claimUntil'[x]
            BY DEF ClaimHeld
        <3>1. h \in Heights
            BY <2>1, <2>3, <2>4 DEF IInv, TypeOK, Held
        <3>2. CASE x = w
            BY <1>2, <2>3, <2>6, <3>1, <3>2 DEF LeaseBatch, IInv, TypeOK
        <3>3. CASE x # w
            <4>1. h \in Held(x) /\ ~CtxDone(x)
                BY <1>2, <2>4, <3>3 DEF LeaseBatch, CtxDone
            <4>2. h \notin S
                BY <2>5, <4>1
            <4>3. QED
                BY <1>2, <2>6, <3>1, <3>3, <4>1, <4>2
                   DEF LeaseBatch, IInv, ClaimHeld, TypeOK
        <3>4. QED
            BY <3>2, <3>3
    <2>9. LeaseExclusion'
        BY <1>2, <2>2, <2>3, <2>4, <2>5
           DEF LeaseBatch, IInv, LeaseExclusion, CtxDone
    <2>10. QED
        BY <1>0, <2>7, <2>8, <2>9 DEF IInv
<1>3. ASSUME NEW w \in Workers, Idle(w) PROVE IInv'
    <2>1. \A x \in Workers : Held(x)' = Held(x)
        BY <1>3 DEF Idle, vars, Held
    <2>2. QED
        BY <1>0, <1>3, <2>1 DEF Idle, vars, IInv, IdleEmpty, ClaimHeld, LeaseExclusion, CtxDone
<1>4. ASSUME NEW w \in Workers, LeaseError(w) PROVE IInv'
    <2>1. IdleEmpty'
        BY <1>4 DEF LeaseError, IInv, IdleEmpty
    <2>2. \A x \in Workers : Held(x)' \subseteq Held(x)
        BY <1>4 DEF LeaseError, Held, IInv, TypeOK
    <2>3. QED
        BY <1>0, <1>4, <2>1, <2>2, ShrinkingStep DEF LeaseError
<1>5. ASSUME NEW w \in Workers, EndBatch(w) PROVE IInv'
    <2>1. IdleEmpty'
        BY <1>5 DEF EndBatch, IInv, IdleEmpty, TypeOK
    <2>2. \A x \in Workers : Held(x)' \subseteq Held(x)
        BY <1>5 DEF EndBatch, Held, IInv, TypeOK
    <2>3. QED
        BY <1>0, <1>5, <2>1, <2>2, ShrinkingStep DEF EndBatch
<1>6. ASSUME NEW w \in Workers, ProcessItem(w) PROVE IInv'
    <2>1. PICK h \in batch[w] :
            /\ batch' = [batch EXCEPT ![w] = @ \ {h}]
            /\ cur' = [cur EXCEPT ![w] = h]
        BY <1>6 DEF ProcessItem
    <2>2. IdleEmpty'
        BY <1>6 DEF ProcessItem, IInv, IdleEmpty, TypeOK
    <2>3. \A x \in Workers : Held(x)' \subseteq Held(x)
        BY <1>6, <2>1 DEF ProcessItem, Held, IInv, TypeOK
    <2>4. QED
        BY <1>0, <1>6, <2>2, <2>3, ShrinkingStep DEF ProcessItem
<1>7. ASSUME NEW w \in Workers, MarkComplete(w) PROVE IInv'
    <2>1. IdleEmpty'
        BY <1>7 DEF MarkComplete, IInv, IdleEmpty, TypeOK
    <2>2. \A x \in Workers : Held(x)' \subseteq Held(x)
        BY <1>7 DEF MarkComplete, Held, IInv, TypeOK
    <2>3. \A h \in Heights : rec'[h].claim = rec[h].claim
        BY <1>7 DEF MarkComplete, MarkTipSetMessagesComplete, IInv, TypeOK
    <2>4. QED
        BY <1>0, <1>7, <2>1, <2>2, <2>3, ShrinkingStep DEF MarkComplete
<1>8. ASSUME NEW w \in Workers, MarkFailed(w) PROVE IInv'
    <2>1. IdleEmpty'
        BY <1>8 DEF MarkFailed, IInv, IdleEmpty, TypeOK
    <2>2. \A x \in Workers : Held(x)' \subseteq Held(x)
        BY <1>8 DEF MarkFailed, Held, IInv, TypeOK
    <2>3. QED
        BY <1>0, <1>8, <2>1, <2>2, ShrinkingStep DEF MarkFailed
<1>9. ASSUME NEW w \in Workers, Crash(w) PROVE IInv'
    <2>1. IdleEmpty'
        BY <1>9 DEF Crash, IInv, IdleEmpty, TypeOK
    <2>2. \A x \in Workers : Held(x)' \subseteq Held(x)
        BY <1>9 DEF Crash, Held, IInv, TypeOK
    <2>3. QED
        BY <1>0, <1>9, <2>1, <2>2, ShrinkingStep DEF Crash
<1>10. CASE UNCHANGED vars
    <2>1. \A x \in Workers : Held(x)' = Held(x)
        BY <1>10 DEF vars, Held
    <2>2. QED
        BY <1>0, <1>10, <2>1 DEF vars, IInv, IdleEmpty, ClaimHeld, LeaseExclusion, CtxDone
<1>11. QED
    BY <1>1, <1>2, <1>3, <1>4, <1>5, <1>6, <1>7, <1>8, <1>9, <1>10 DEF Next

\* No tipset is ever held by two processes whose lease contexts are both
\* live: a crashed or stalled process's tipsets are re-leased only after
\* its deadline, after which it can no longer persist or mark them.
THEOREM LeaseExclusionHolds == Spec => []LeaseExclusion
BY InitIInv, NextIInv, PTL DEF Spec, IInv

-----------------------------------------------------------------------------
(* Completion is final.                                                    *)

\* A process in "mark" no longer has the tipset it marks in its batch.
CurNotInBatch ==
    \A w \in Workers : pc[w] = "mark" => cur[w] \notin batch[w]

\* Every tipset a process holds with a live context is still open.
HeldOpen ==
    \A w \in Workers : \A h \in Held(w) :
        ~CtxDone(w) => rec[h].status = "open"

CInv == IInv /\ CurNotInBatch /\ HeldOpen


LEMMA InitCInv == Init => CInv
<1> SUFFICES ASSUME Init PROVE CInv
    OBVIOUS
<1>1. \A w \in Workers : Held(w) = {}
    BY DEF Init, Held
<1>2. QED
    BY <1>1, InitIInv DEF CInv, CurNotInBatch, HeldOpen, Init

\* A step that moves neither the clock, nor a deadline, nor a store row,
\* and after which every process holds at most what it held, keeps HeldOpen.
LEMMA ShrinkingOpen ==
    ASSUME HeldOpen, now' = now, claimUntil' = claimUntil, rec' = rec,
           \A w \in Workers : Held(w)' \subseteq Held(w)
    PROVE  HeldOpen'
BY DEF HeldOpen, CtxDone

LEMMA NextCInv == CInv /\ [Next]_vars => CInv'
<1> SUFFICES ASSUME CInv, [Next]_vars PROVE CInv'
    OBVIOUS
<1>0. IInv' /\ TypeOK
    BY NextIInv DEF CInv, IInv
<1>1. CASE Tick
    <2>1. /\ \A w \in Workers : ~CtxDone(w)' => ~CtxDone(w)
          /\ \A h \in Heights : rec'[h].status = rec[h].status
        BY <1>0, <1>1, TickFacts
    <2>2. \A w \in Workers : Held(w)' = Held(w)
        BY <1>1 DEF Tick, Held
    <2>3. HeldOpen'
        <3> SUFFICES ASSUME NEW x \in Workers, NEW h \in Held(x)', ~CtxDone(x)'
                     PROVE  rec'[h].status = "open"
            BY DEF HeldOpen
        <3>1. h \in Held(x) /\ ~CtxDone(x) /\ h \in Heights
            BY <1>0, <2>1, <2>2 DEF TypeOK, Held
        <3>2. QED
            BY <2>1, <3>1 DEF CInv, HeldOpen
    <2>4. QED
        BY <1>0, <1>1, <2>2, <2>3 DEF Tick, CInv, CurNotInBatch
<1>2. ASSUME NEW w \in Workers, LeaseBatch(w) PROVE CInv'
    <2>1. PICK S \in SUBSET Heights :
                /\ LeaseTipSetMessages(S, now + LeaseLength)
                /\ batch' = [batch EXCEPT ![w] = S]
        BY <1>2 DEF LeaseBatch
    <2>2. Held(w)' = S
        BY <1>0, <1>2, <2>1 DEF LeaseBatch, Held, TypeOK
    <2>3. \A x \in Workers \ {w} : Held(x)' = Held(x)
        BY <1>0, <1>2, <2>1 DEF LeaseBatch, Held, TypeOK
    <2>4. \A h \in Heights : rec'[h].status = rec[h].status
        BY <1>0, <2>1 DEF LeaseTipSetMessages, TypeOK
    <2>5. \A h \in S : rec[h].status = "open"
        BY <2>1 DEF LeaseTipSetMessages, Leasable
    <2>6. CurNotInBatch'
        BY <1>0, <1>2, <2>1 DEF LeaseBatch, CInv, CurNotInBatch, TypeOK
    <2>7. HeldOpen'
        <3> SUFFICES ASSUME NEW x \in Workers, NEW h \in Held(x)', ~CtxDone(x)'
                     PROVE  rec'[h].status = "open"
            BY DEF HeldOpen
        <3>1. CASE x = w
            BY <2>1, <2>2, <2>4, <2>5, <3>1
        <3>2. CASE x # w
            <4>1. h \in Held(x) /\ ~CtxDone(x)
                BY <1>2, <2>3, <3>2 DEF LeaseBatch, CtxDone
            <4>2. h \in Heights
                BY <4>1, <1>0 DEF TypeOK, Held
            <4>3. QED
                BY <2>4, <4>1, <4>2 DEF CInv, HeldOpen
        <3>3. QED
            BY <3>1, <3>2
    <2>8. QED
        BY <1>0, <2>6, <2>7 DEF CInv
<1>3. ASSUME NEW w \in Workers, Idle(w) PROVE CInv'
    BY <1>0, <1>3 DEF Idle, vars, CInv, CurNotInBatch, HeldOpen, Held, CtxDone
<1>4. ASSUME NEW w \in Workers, LeaseError(w) PROVE CInv'
    <2>1. \A x \in Workers : Held(x)' \subseteq Held(x)
        BY <1>0, <1>4 DEF LeaseError, Held, TypeOK
    <2>2. CurNotInBatch'
        BY <1>0, <1>4 DEF LeaseError, CInv, CurNotInBatch, TypeOK
    <2>3. QED
        BY <1>0, <1>4, <2>1, <2>2, ShrinkingOpen DEF LeaseError, CInv
<1>5. ASSUME NEW w \in Workers, EndBatch(w) PROVE CInv'
    <2>1. \A x \in Workers : Held(x)' \subseteq Held(x)
        BY <1>0, <1>5 DEF EndBatch, Held, TypeOK
    <2>2. CurNotInBatch'
        BY <1>0, <1>5 DEF EndBatch, CInv, CurNotInBatch, TypeOK
    <2>3. QED
        BY <1>0, <1>5, <2>1, <2>2, ShrinkingOpen DEF EndBatch, CInv
<1>6. ASSUME NEW w \in Workers, ProcessItem(w) PROVE CInv'
    <2>1. PICK h \in batch[w] :
            /\ batch' = [batch EXCEPT ![w] = @ \ {h}]
            /\ cur' = [cur EXCEPT ![w] = h]
        BY <1>6 DEF ProcessItem
    <2>2. \A x \in Workers : Held(x)' \subseteq Held(x)
        BY <1>0, <1>6, <2>1 DEF ProcessItem, Held, TypeOK
    <2>3. CurNotInBatch'
        BY <1>0, <1>6, <2>1 DEF ProcessItem, CInv, CurNotInBatch, TypeOK
    <2>4. QED
        BY <1>0, <1>6, <2>2, <2>3, ShrinkingOpen DEF ProcessItem, CInv
<1>7. ASSUME NEW w \in Workers, MarkComplete(w) PROVE CInv'
    <2>1. CurNotInBatch'
        BY <1>0, <1>7 DEF MarkComplete, CInv, CurNotInBatch, TypeOK
    <2>2. HeldOpen'
        <3> SUFFICES ASSUME NEW x \in Workers, NEW h \in Held(x)', ~CtxDone(x)'
                     PROVE  rec'[h].status = "open"
            BY DEF HeldOpen
        <3>1. h \in Held(x) /\ ~CtxDone(x)
            BY <1>0, <1>7 DEF MarkComplete, Held, CtxDone, TypeOK
        <3>2. h \in Heights
            BY <3>1, <1>0 DEF TypeOK, Held
        \* The marked tipset is held by w with a live context, so by lease
        \* exclusion by nobody else, and no longer by w afterwards.
        <3>3. h # cur[w]
            <4>1. cur[w] \in Held(w) /\ ~CtxDone(w)
                BY <1>7 DEF MarkComplete, Held
            <4>2. CASE x = w
                BY <1>0, <1>7, <4>2 DEF MarkComplete, Held, CInv, CurNotInBatch, TypeOK
            <4>3. CASE x # w
                BY <3>1, <3>2, <4>1, <4>3 DEF CInv, IInv, LeaseExclusion
            <4>4. QED
                BY <4>2, <4>3
        <3>4. QED
            BY <1>0, <1>7, <3>1, <3>2, <3>3
               DEF MarkComplete, MarkTipSetMessagesComplete, CInv, HeldOpen, TypeOK
    <2>3. QED
        BY <1>0, <2>1, <2>2 DEF CInv
<1>8. ASSUME NEW w \in Workers, MarkFailed(w) PROVE CInv'
    <2>1. \A x \in Workers : Held(x)' \subseteq Held(x)
        BY <1>0, <1>8 DEF MarkFailed, Held, TypeOK
    <2>2. CurNotInBatch'
        BY <1>0, <1>8 DEF MarkFailed, CInv, CurNotInBatch, TypeOK
    <2>3. QED
        BY <1>0, <1>8, <2>1, <2>2, ShrinkingOpen DEF MarkFailed, CInv
<1>9. ASSUME NEW w \in Workers, Crash(w) PROVE CInv'
    <2>1. \A x \in Workers : Held(x)' \subseteq Held(x)
        BY <1>0, <1>9 DEF Crash, Held, TypeOK
    <2>2. CurNotInBatch'
        BY <1>0, <1>9 DEF Crash, CInv, CurNotInBatch, TypeOK
    <2>3. QED
        BY <1>0, <1>9, <2>1, <2>2, ShrinkingOpen DEF Crash, CInv
<1>10. CASE UNCHANGED vars
    BY <1>0, <1>10 DEF vars, CInv, CurNotInBatch, HeldOpen, Held, CtxDone
<1>11. QED
    BY <1>1, <1>2, <1>3, <1>4, <1>5, <1>6, <1>7, <1>8, <1>9, <1>10 DEF Next

\* Under CInv, a step changes the status of no completed tipset: the only
\* step that writes a status, MarkComplete, writes that of a tipset its
\* process holds with a live context, which is still open.
LEMMA StepKeepsCompletion ==
    CInv /\ [Next]_vars =>
        [\A h \in Heights : rec[h].status # "open" => rec'[h].status = rec[h].status]_vars
<1> SUFFICES ASSUME CInv, [Next]_vars
             PROVE  \A h \in Heights : rec[h].status # "open" => rec'[h].status = rec[h].status
    OBVIOUS
<1>1. CASE \E w \in Workers : MarkComplete(w)
    <2>1. PICK w \in Workers : MarkComplete(w)
        BY <1>1
    <2>2. rec[cur[w]].status = "open"
        BY <2>1 DEF MarkComplete, CInv, HeldOpen, Held
    <2>3. QED
        BY <2>1, <2>2 DEF MarkComplete, MarkTipSetMessagesComplete, CInv, IInv, TypeOK
<1>2. CASE \E w \in Workers : LeaseBatch(w)
    <2>1. PICK w \in Workers, S \in SUBSET Heights : LeaseTipSetMessages(S, now + LeaseLength)
        BY <1>2 DEF LeaseBatch
    <2>2. QED
        BY <2>1 DEF LeaseTipSetMessages, CInv, IInv, TypeOK
<1>3. CASE Tick
    BY <1>3, TickFacts DEF CInv, IInv
<1>4. CASE ~\E w \in Workers : MarkComplete(w) \/ LeaseBatch(w)
    <2>1. Tick \/ rec' = rec
        BY <1>4 DEF Next, vars, Idle, LeaseError, EndBatch, ProcessItem,
                    MarkFailed, Crash
    <2>2. QED
        BY <1>3, <2>1
<1>5. QED
    BY <1>1, <1>2, <1>4

\* Completion is final for every number of processes, tipsets and every
\* lease length: once a tipset's outcome is recorded, no late mark of a
\* process whose lease was re-taken and no new lease changes it.
THEOREM CompletionIsFinalHolds == Spec => CompletionIsFinal
<1>1. Spec => []CInv
    BY InitCInv, NextCInv, PTL DEF Spec
<1>2. QED
    BY <1>1, StepKeepsCompletion, PTL DEF Spec, CompletionIsFinal

=============================================================================
