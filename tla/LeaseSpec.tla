------------------------------ MODULE LeaseSpec ------------------------------
(***************************************************************************)
(* What the lease-based scheduler promises (the design's sections 2, 4.1   *)
(* and 7), with no clocks, claims or batches: every tipset has at most one *)
(* owner; a process takes unowned open tipsets within the height bounds,   *)
(* at most BatchSize at a time and only when it owns none; only the owner *)
(* persists a tipset's messages or records its outcome, which it does     *)
(* once; and an owner may lose a tipset at any time (it gives it up, its   *)
(* lease expires or it crashes), after which any process may take it.      *)
(***************************************************************************)
EXTENDS Naturals, FiniteSets

CONSTANTS
    Workers,    \* the processes
    Heights,    \* the tipsets, by height
    MinHeight,  \* height bounds of the work a process takes
    MaxHeight,
    BatchSize,  \* most tipsets taken at once
    Outcomes,   \* what a completion records
    NoWorker    \* the owner of an unowned tipset

VARIABLES
    owner,      \* owner[h]: the process that owns h, or NoWorker
    status,     \* status[h]: "open", or the outcome recorded for h
    persisted   \* persisted[h]: the messages of h are stored

vars == <<owner, status, persisted>>

Init ==
    /\ owner = [h \in Heights |-> NoWorker]
    /\ status = [h \in Heights |-> "open"]
    /\ persisted = [h \in Heights |-> FALSE]

\* Process w, owning nothing, takes a non-empty set S of unowned open
\* tipsets within the bounds.
Acquire(w, S) ==
    /\ \A h \in Heights : owner[h] # w
    /\ S # {} /\ Cardinality(S) <= BatchSize
    /\ \A h \in S : /\ owner[h] = NoWorker /\ status[h] = "open"
                    /\ MinHeight <= h /\ h <= MaxHeight
    /\ owner' = [h \in Heights |-> IF h \in S THEN w ELSE owner[h]]
    /\ UNCHANGED <<status, persisted>>

\* The owner of h stores its messages.
Persist(w, h) ==
    /\ owner[h] = w
    /\ persisted' = [persisted EXCEPT ![h] = TRUE]
    /\ UNCHANGED <<owner, status>>

\* The owner of the open tipset h records outcome o and lets it go.
Complete(w, h, o) ==
    /\ owner[h] = w /\ status[h] = "open"
    /\ status' = [status EXCEPT ![h] = o]
    /\ owner' = [owner EXCEPT ![h] = NoWorker]
    /\ UNCHANGED persisted

\* The owner of h gives it up without recording an outcome.
Abandon(w, h) ==
    /\ owner[h] = w
    /\ owner' = [owner EXCEPT ![h] = NoWorker]
    /\ UNCHANGED <<status, persisted>>

\* The processes of D lose everything they own: their leases expired, or
\* they crashed.
Expire(D) ==
    /\ owner' = [h \in Heights |-> IF owner[h] \in D THEN NoWorker ELSE owner[h]]
    /\ UNCHANGED <<status, persisted>>

Next ==
    \/ \E w \in Workers, S \in SUBSET Heights : Acquire(w, S)
    \/ \E w \in Workers, h \in Heights : Persist(w, h) \/ Abandon(w, h)
    \/ \E w \in Workers, h \in Heights, o \in Outcomes : Complete(w, h, o)
    \/ \E D \in SUBSET Workers : Expire(D)

Spec == Init /\ [][Next]_vars

=============================================================================
