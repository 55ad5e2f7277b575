-------------------------- MODULE MessageProcessor --------------------------
(***************************************************************************)
(* The lease-based scheduler of the message task                           *)
(* (src/chain/gap/find.go, second file: MessageProcessor.processBatch).    *)
(*                                                                         *)
(* Several processor processes share one completion store.  Each runs      *)
(* processBatch in a loop: lease up to BatchSize open tipsets until        *)
(* now + LeaseLength, then for every leased tipset check the context       *)
(* deadline (equal to the lease expiry), extract and persist its messages  *)
(* in one transaction, and mark it complete, with the error text if the    *)
(* extraction failed.  A process may crash at any point and restart with   *)
(* empty local state; the store keeps its rows.                            *)
(*                                                                         *)
(* A tipset is identified by its height (one tipset per height).  The      *)
(* store row of a tipset is [claim |-> claimed-until time,                 *)
(* status |-> "open" | "ok" | an error kind]; the error text is abstracted *)
(* to the kind of failure that produced it.                                *)
(***************************************************************************)
EXTENDS Naturals, FiniteSets

CONSTANTS
    Workers,      \* the processor processes sharing the store
    Heights,      \* heights of the tipsets with a row in the store
    MinHeight,    \* processor's minHeight
    MaxHeight,    \* processor's maxHeight
    LeaseLength,  \* processor's leaseLength, in clock ticks
    BatchSize,    \* processor's batchSize
    MaxTime,      \* bound on the clock (model bound)
    MaxCrashes    \* bound on process crashes (model bound)

ASSUME Assumptions ==
    /\ Workers # {}
    /\ Heights # {}
    /\ Heights \subseteq Nat
    /\ MinHeight \in Nat /\ MaxHeight \in Nat
    /\ LeaseLength \in Nat \ {0}
    /\ BatchSize \in Nat \ {0}
    /\ MaxTime \in Nat \ {0}
    /\ MaxCrashes \in Nat

\* Kinds of extraction failure: a transient one (lotus or the database
\* unavailable, deadline hit) and a permanent one (decode error,
\* unsupported actor version).
ErrorKinds == {"transient", "permanent"}
Status == {"open", "ok"} \cup ErrorKinds
Time == 0..(MaxTime + LeaseLength)
PC == {"lease", "item", "mark", "stopped"}

VARIABLES
    now,        \* the clock shared by the processes and the store
    rec,        \* rec[h]: the store row of the tipset at height h
    persisted,  \* persisted[h]: the message rows of h are in the database
    pc,         \* pc[w]: where process w is in processBatch
    batch,      \* batch[w]: leased tipsets not yet processed
    claimUntil, \* claimUntil[w]: lease expiry and context deadline
    cur,        \* cur[w]: the tipset whose completion w is about to mark
    res,        \* res[w]: the outcome of processItem for cur[w]
    crashes     \* number of crashes so far

vars == <<now, rec, persisted, pc, batch, claimUntil, cur, res, crashes>>

TypeOK ==
    /\ now \in 0..MaxTime
    /\ rec \in [Heights -> [claim : Time, status : Status]]
    /\ persisted \in [Heights -> BOOLEAN]
    /\ pc \in [Workers -> PC]
    /\ batch \in [Workers -> SUBSET Heights]
    /\ claimUntil \in [Workers -> Time]
    /\ cur \in [Workers -> Heights]
    /\ res \in [Workers -> {"ok"} \cup ErrorKinds]
    /\ crashes \in 0..MaxCrashes

-----------------------------------------------------------------------------
(* The completion store (storage.Database, outside src/).                  *)

\* Mutant: the lease query ignores claimed_until.
LeasableIgnoringClaim ==
    { h \in Heights : /\ rec[h].status = "open"
                      /\ MinHeight <= h /\ h <= MaxHeight }

\* Rows LeaseTipSetMessages may claim: not completed, claim expired, and
\* within the processor's height bounds.
Leasable ==
    { h \in Heights : /\ rec[h].status = "open"
                      /\ rec[h].claim < now
                      /\ MinHeight <= h /\ h <= MaxHeight }

\* LeaseTipSetMessages: atomically claim up to BatchSize leasable rows.
\* Which ones the query picks is left open.
LeaseTipSetMessages(S, until) ==
    /\ S \subseteq Leasable
    /\ Cardinality(S) = IF Cardinality(Leasable) < BatchSize
                          THEN Cardinality(Leasable) ELSE BatchSize
    /\ rec' = [h \in Heights |-> IF h \in S THEN [rec[h] EXCEPT !.claim = until]
                                            ELSE rec[h]]

\* MarkTipSetMessagesComplete: set completed_at and the error text.
MarkTipSetMessagesComplete(h, outcome) ==
    rec' = [rec EXCEPT ![h].status = outcome]

-----------------------------------------------------------------------------
(* processBatch                                                            *)

\* The context created with the lease expiry as its deadline is done.
CtxDone(w) == now >= claimUntil[w]

Init ==
    /\ now = 0
    /\ rec = [h \in Heights |-> [claim |-> 0, status |-> "open"]]
    /\ persisted = [h \in Heights |-> FALSE]
    /\ pc = [w \in Workers |-> "lease"]
    /\ batch = [w \in Workers |-> {}]
    /\ claimUntil = [w \in Workers |-> 0]
    /\ cur = [w \in Workers |-> CHOOSE h \in Heights : TRUE]
    /\ res = [w \in Workers |-> "ok"]
    /\ crashes = 0

\* Mutant: the process leases only when a full batch is leasable.
LeaseBatchFullOnly(w) ==
    /\ pc[w] = "lease"
    /\ Cardinality(Leasable) >= BatchSize
    /\ \E S \in SUBSET Heights :
          /\ LeaseTipSetMessages(S, now + LeaseLength)
          /\ batch' = [batch EXCEPT ![w] = S]
    /\ claimUntil' = [claimUntil EXCEPT ![w] = now + LeaseLength]
    /\ pc' = [pc EXCEPT ![w] = "item"]
    /\ UNCHANGED <<now, persisted, cur, res, crashes>>

\* Lease a non-empty batch; the deadline of the batch is claimUntil.
LeaseBatch(w) ==
    /\ pc[w] = "lease"
    /\ Leasable # {}
    /\ \E S \in SUBSET Heights :
          /\ LeaseTipSetMessages(S, now + LeaseLength)
          /\ batch' = [batch EXCEPT ![w] = S]
    /\ claimUntil' = [claimUntil EXCEPT ![w] = now + LeaseLength]
    /\ pc' = [pc EXCEPT ![w] = "item"]
    /\ UNCHANGED <<now, persisted, cur, res, crashes>>

\* Nothing to lease: sleep for the jittered idle interval and try again.
Idle(w) ==
    /\ pc[w] = "lease"
    /\ Leasable = {}
    /\ UNCHANGED vars

\* The lease query fails: processBatch returns (true, err) and the
\* RepeatUntil loop of Run ends.  Counted against the crash budget.
LeaseError(w) ==
    /\ pc[w] = "lease"
    /\ crashes < MaxCrashes
    /\ pc' = [pc EXCEPT ![w] = "stopped"]
    /\ crashes' = crashes + 1
    /\ UNCHANGED <<now, rec, persisted, batch, claimUntil, cur, res>>

\* The batch loop ends: every item handled, or the deadline has passed
\* (the remaining items are abandoned, still claimed in the store).
EndBatch(w) ==
    /\ pc[w] = "item"
    /\ batch[w] = {} \/ CtxDone(w)
    /\ pc' = [pc EXCEPT ![w] = "lease"]
    /\ batch' = [batch EXCEPT ![w] = {}]
    /\ UNCHANGED <<now, rec, persisted, claimUntil, cur, res, crashes>>

\* processItem for one leased tipset: fetch messages and receipts, and
\* persist them in one transaction, which commits only before the deadline.
\* A failure of any kind leaves nothing persisted.
ProcessItem(w) ==
    /\ pc[w] = "item"
    /\ ~CtxDone(w)
    /\ \E h \in batch[w] :
         /\ \/ /\ res' = [res EXCEPT ![w] = "ok"]
               /\ persisted' = [persisted EXCEPT ![h] = TRUE]
            \/ /\ \E e \in ErrorKinds : res' = [res EXCEPT ![w] = e]
               /\ UNCHANGED persisted
         /\ batch' = [batch EXCEPT ![w] = @ \ {h}]
         /\ cur' = [cur EXCEPT ![w] = h]
    /\ pc' = [pc EXCEPT ![w] = "mark"]
    /\ UNCHANGED <<now, rec, claimUntil, crashes>>

\* Mutant: the mark is issued on a context without the lease deadline.
MarkCompleteAfterDeadline(w) ==
    /\ pc[w] = "mark"
    /\ MarkTipSetMessagesComplete(cur[w], res[w])
    /\ pc' = [pc EXCEPT ![w] = "item"]
    /\ UNCHANGED <<now, persisted, batch, claimUntil, cur, res, crashes>>

\* MarkTipSetMessagesComplete with the outcome of processItem, on the
\* batch context: it lands only if the deadline has not passed.
MarkComplete(w) ==
    /\ pc[w] = "mark"
    /\ ~CtxDone(w)
    /\ MarkTipSetMessagesComplete(cur[w], res[w])
    /\ pc' = [pc EXCEPT ![w] = "item"]
    /\ UNCHANGED <<now, persisted, batch, claimUntil, cur, res, crashes>>

\* The mark fails (deadline passed, or a database error): logged, and the
\* loop continues with the next item.
MarkFailed(w) ==
    /\ pc[w] = "mark"
    /\ pc' = [pc EXCEPT ![w] = "item"]
    /\ UNCHANGED <<now, rec, persisted, batch, claimUntil, cur, res, crashes>>

\* The process crashes and restarts with no local state.
Crash(w) ==
    /\ pc[w] # "stopped"
    /\ crashes < MaxCrashes
    /\ pc' = [pc EXCEPT ![w] = "lease"]
    /\ batch' = [batch EXCEPT ![w] = {}]
    /\ crashes' = crashes + 1
    /\ UNCHANGED <<now, rec, persisted, claimUntil, cur, res>>

\* A time one tick earlier, floored at 0.  Below now a time is only ever
\* compared with now, so 0 stands for every past time.
Earlier(t) == IF t = 0 THEN 0 ELSE t - 1

\* Time passes.  At the model's horizon MaxTime the clock stays and every
\* claim and deadline moves one tick closer instead: the code only compares
\* times with each other, so this is the same step, and time never stops.
Tick ==
    /\ \/ /\ now < MaxTime
          /\ now' = now + 1
          /\ UNCHANGED <<rec, claimUntil>>
       \/ /\ now = MaxTime
          /\ rec' = [h \in Heights |-> [rec[h] EXCEPT !.claim = Earlier(rec[h].claim)]]
          /\ claimUntil' = [w \in Workers |-> Earlier(claimUntil[w])]
          /\ UNCHANGED now
    /\ UNCHANGED <<persisted, pc, batch, cur, res, crashes>>

Next ==
    \/ Tick
    \/ \E w \in Workers :
          \/ LeaseBatch(w) \/ Idle(w) \/ LeaseError(w) \/ EndBatch(w)
          \/ ProcessItem(w) \/ MarkComplete(w) \/ MarkFailed(w) \/ Crash(w)

Spec == Init /\ [][Next]_vars

-----------------------------------------------------------------------------
(* Properties                                                              *)

\* The tipsets process w still holds: leased and not yet handed back.
Held(w) == batch[w] \cup (IF pc[w] = "mark" THEN {cur[w]} ELSE {})

\* Lease exclusion: no tipset is held by two processes whose contexts are
\* both still live, so two processes never work on the same tipset at the
\* same time, even after one of them crashed and its lease was re-taken.
LeaseExclusion ==
    \A w1, w2 \in Workers, h \in Heights :
        (w1 # w2 /\ h \in Held(w1) \cap Held(w2))
            => (CtxDone(w1) \/ CtxDone(w2))

\* Completion is final: once MarkTipSetMessagesComplete has recorded an
\* outcome for a tipset, no later step (a late mark of a process whose lease
\* was re-taken, a new lease) changes it.
CompletionIsFinal ==
    [][\A h \in Heights : rec[h].status # "open" => rec'[h].status = rec[h].status]_vars

\* Section 7 of the design: a transient failure leaves the tipset
\* un-completed, so that it is retried when its lease expires.
TransientFailureNotCompleted ==
    \A h \in Heights : rec[h].status # "transient"

=============================================================================
