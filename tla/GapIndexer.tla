----------------------------- MODULE GapIndexer -----------------------------
(***************************************************************************)
(* The gap auditor: GapIndexer.Run (src/chain/gap/find.go, first file)     *)
(* finds epochs and tasks that were missed or skipped and records them in  *)
(* the gap report table; GapFiller.Run (src/chain/gap/fill.go) re-drives   *)
(* the indexer for every open gap and writes back its new status.          *)
(*                                                                         *)
(* The chain is fixed: heights 0..MaxEpoch, some of them null rounds.  A   *)
(* tipset is identified by its height, so a gap report is keyed by         *)
(* <<height, task>>.  Processing reports are written by the indexers       *)
(* (an environment action here) and by the walker a fill starts.           *)
(***************************************************************************)
EXTENDS Integers, FiniteSets

CONSTANTS
    MaxEpoch,    \* height of the chain head
    NullRounds,  \* heights at which no block was produced
    Tasks,       \* chain.AllTasks
    Fillers      \* gap fill jobs that may run at the same time

ASSUME GapAssumptions ==
    /\ MaxEpoch \in Nat
    /\ NullRounds \subseteq 0..MaxEpoch
    /\ MaxEpoch \notin NullRounds
    /\ Tasks # {}

Epochs == 0..MaxEpoch
Keys == Epochs \X Tasks
ReportStatus == {"ok", "error", "skip"}
Report == [height : Epochs, task : Tasks, status : ReportStatus]
\* The status column of a gap report: "GAP", "FILLED", or the text of the
\* error a failed fill wrote ("ERROR"); "none" when there is no row.
GapStatus == {"none", "GAP", "FILLED", "ERROR"}

VARIABLES
    reports,     \* rows of visor_processing_reports
    gaps,        \* gaps[k]: status of the visor_gap_reports row with key k
    fpc,         \* where GapIndexer.Run is
    heightGaps,  \* result of detectProcessingGaps in the current run
    skipGaps,    \* result of detectSkippedTipSets in the current run
    seenMax,     \* highest reported height read by detectProcessingGaps
    lastMax,     \* seenMax of the last run whose PersistBatch committed
    gpc,         \* gpc[f]: where GapFiller.Run of job f is
    todo,        \* todo[f]: gaps returned by queryGaps not yet re-driven
    filled       \* filled[f]: the in-memory gap list with updated statuses

vars == <<reports, gaps, fpc, heightGaps, skipGaps, seenMax, lastMax,
          gpc, todo, filled>>

TypeOK ==
    /\ reports \subseteq Report
    /\ gaps \in [Keys -> GapStatus]
    /\ fpc \in {"idle", "skips", "persist"}
    /\ heightGaps \subseteq Keys /\ skipGaps \subseteq Keys
    /\ seenMax \in Epochs \cup {-1} /\ lastMax \in Epochs \cup {-1}
    /\ gpc \in [Fillers -> {"idle", "fill", "update"}]
    /\ todo \in [Fillers -> SUBSET Keys]
    /\ filled \in [Fillers -> [Keys -> GapStatus]]

-----------------------------------------------------------------------------
(* The chain (lens.API) and the processing reports.                        *)

\* ChainGetTipSetByHeight(h, EmptyTSK): the tipset at h, or the next one
\* above it when h is a null round.
TipSetByHeight(h) == CHOOSE g \in h..MaxEpoch :
                        /\ g \notin NullRounds
                        /\ \A x \in h..(g - 1) : x \in NullRounds

ReportedHeights == { r.height : r \in reports }

\* The oldest recorded height (the first of the sorted heights).
Oldest(R) == CHOOSE m \in R : \A x \in R : m <= x

\* The recorded height that follows c in sorted order.
NextAbove(R, c) == CHOOSE p \in R : p > c /\ \A x \in R : x > c => p <= x

\* Mutant: the loop over the heights below the oldest report is missing.
FindEpochGapsNoPrefix(R) ==
    IF R = {} THEN {}
    ELSE UNION { (c + 1)..(NextAbove(R, c) - 1) : c \in { c \in R : \E p \in R : p > c } }

\* The heights findEpochGaps returns for the distinct recorded heights R:
\* every height strictly between two adjacent recorded heights, and every
\* height below the oldest one.
FindEpochGaps(R) ==
    IF R = {} THEN {}
    ELSE (UNION { (c + 1)..(NextAbove(R, c) - 1) : c \in { c \in R : \E p \in R : p > c } })
         \cup 0..(Oldest(R) - 1)

\* Mutant: every candidate height becomes a gap, null rounds included.
DetectProcessingGapsNoNullCheck(R) ==
    { k \in Keys : k[1] \in FindEpochGaps(R) }

\* detectProcessingGaps: a gap for every task at every candidate height
\* that the chain shows to be a real epoch, not a null round.
DetectProcessingGaps(R) ==
    { k \in Keys : /\ k[1] \in FindEpochGaps(R)
                   /\ TipSetByHeight(k[1]) = k[1] }

\* detectSkippedTipSets: a gap at the report's height, for its task, for
\* every report with status skip.
DetectSkippedTipSets ==
    { <<r.height, r.task>> : r \in { r \in reports : r.status = "skip" } }

HighestReported(R) == IF R = {} THEN -1 ELSE CHOOSE m \in R : \A x \in R : x <= m

Init ==
    /\ reports = {}
    /\ gaps = [k \in Keys |-> "none"]
    /\ fpc = "idle"
    /\ heightGaps = {} /\ skipGaps = {}
    /\ seenMax = -1 /\ lastMax = -1
    /\ gpc = [f \in Fillers |-> "idle"]
    /\ todo = [f \in Fillers |-> {}]
    /\ filled = [f \in Fillers |-> [k \in Keys |-> "none"]]

\* An indexer processes a tipset for a task and writes its report; the
\* indexers process each tipset once.
Index(h, t, s) ==
    /\ h \notin NullRounds
    /\ ~\E r \in reports : r.height = h /\ r.task = t
    /\ reports' = reports \cup {[height |-> h, task |-> t, status |-> s]}
    /\ UNCHANGED <<gaps, fpc, heightGaps, skipGaps, seenMax, lastMax, gpc, todo, filled>>

-----------------------------------------------------------------------------
(* GapIndexer.Run                                                          *)

\* detectProcessingGaps over the distinct reported heights.  A lotus error
\* is the other outcome of the run's first step; it ends the run with
\* nothing persisted, which leaves the state unchanged.
FindProcessingGaps ==
    /\ fpc = "idle"
    /\ heightGaps' = DetectProcessingGaps(ReportedHeights)
    /\ seenMax' = HighestReported(ReportedHeights)
    /\ fpc' = "skips"
    /\ UNCHANGED <<reports, gaps, skipGaps, lastMax, gpc, todo, filled>>

\* detectSkippedTipSets, or its lotus or database error ending the run.
FindSkippedTipSets ==
    /\ fpc = "skips"
    /\ \/ /\ skipGaps' = DetectSkippedTipSets
          /\ fpc' = "persist"
          /\ UNCHANGED <<heightGaps, seenMax>>
       \/ /\ fpc' = "idle"
          /\ skipGaps' = {} /\ heightGaps' = {} /\ seenMax' = -1
    /\ UNCHANGED <<reports, gaps, lastMax, gpc, todo, filled>>

\* PersistBatch of both lists in one transaction; a row whose key exists
\* is left as it is.  Or the transaction fails and nothing is written.
PersistGaps ==
    /\ fpc = "persist"
    /\ \/ /\ gaps' = [k \in Keys |-> IF gaps[k] = "none" /\ k \in heightGaps \cup skipGaps
                                       THEN "GAP" ELSE gaps[k]]
          /\ lastMax' = seenMax
       \/ UNCHANGED <<gaps, lastMax>>
    /\ fpc' = "idle"
    /\ heightGaps' = {} /\ skipGaps' = {} /\ seenMax' = -1
    /\ UNCHANGED <<reports, gpc, todo, filled>>

-----------------------------------------------------------------------------
(* GapFiller.Run                                                           *)

\* queryGaps: every gap report with status GAP.
QueryGaps(f) ==
    /\ gpc[f] = "idle"
    /\ todo' = [todo EXCEPT ![f] = { k \in Keys : gaps[k] = "GAP" }]
    /\ filled' = [filled EXCEPT ![f] = [k \in Keys |-> IF gaps[k] = "GAP" THEN "GAP" ELSE "none"]]
    /\ gpc' = [gpc EXCEPT ![f] = "fill"]
    /\ UNCHANGED <<reports, gaps, fpc, heightGaps, skipGaps, seenMax, lastMax>>

\* Re-drive one gap: a walker over its single height for its single task.
\* On success the indexer has written its report and the gap becomes
\* FILLED; on failure its status becomes the error's text.
FillGap(f) ==
    /\ gpc[f] = "fill"
    /\ \E k \in todo[f] :
         /\ \/ /\ reports' = reports \cup {[height |-> k[1], task |-> k[2], status |-> "ok"]}
               /\ filled' = [filled EXCEPT ![f][k] = "FILLED"]
            \/ /\ filled' = [filled EXCEPT ![f][k] = "ERROR"]
               /\ UNCHANGED reports
         /\ todo' = [todo EXCEPT ![f] = @ \ {k}]
    /\ UNCHANGED <<gaps, fpc, heightGaps, skipGaps, seenMax, lastMax, gpc>>

FillDone(f) ==
    /\ gpc[f] = "fill"
    /\ todo[f] = {}
    /\ gpc' = [gpc EXCEPT ![f] = "update"]
    /\ UNCHANGED <<reports, gaps, fpc, heightGaps, skipGaps, seenMax, lastMax, todo, filled>>

\* updateGaps: write back the status of every gap the query returned,
\* by primary key; or the update fails and nothing is written.
UpdateGaps(f) ==
    /\ gpc[f] = "update"
    /\ \/ gaps' = [k \in Keys |-> IF filled[f][k] # "none" THEN filled[f][k] ELSE gaps[k]]
       \/ UNCHANGED gaps
    /\ gpc' = [gpc EXCEPT ![f] = "idle"]
    /\ filled' = [filled EXCEPT ![f] = [k \in Keys |-> "none"]]
    /\ UNCHANGED <<reports, fpc, heightGaps, skipGaps, seenMax, lastMax, todo>>

Next ==
    \/ \E h \in Epochs, t \in Tasks, s \in ReportStatus : Index(h, t, s)
    \/ FindProcessingGaps \/ FindSkippedTipSets \/ PersistGaps
    \/ \E f \in Fillers : QueryGaps(f) \/ FillGap(f) \/ FillDone(f) \/ UpdateGaps(f)

Spec == Init /\ [][Next]_vars

-----------------------------------------------------------------------------
(* Properties                                                              *)

\* Every gap report, whatever its status, names an epoch at which blocks
\* were produced: a null round below the newest report, or the height of
\* a skipped tipset, never becomes a gap to fill.
GapsAreReal ==
    \A k \in Keys : gaps[k] # "none" => k[1] \notin NullRounds

\* Once a find run has committed, every real epoch below the highest height
\* it read that still has no processing report at all has a gap report for
\* every task, whatever the indexers and fills did in between.
FindCompleteness ==
    \A h \in Epochs, t \in Tasks :
        (h < lastMax /\ h \notin NullRounds /\ h \notin ReportedHeights)
            => gaps[<<h, t>>] # "none"

\* Section 4.3 of the design: a fill that fails leaves the gap report with
\* status GAP, so that the next fill run retries it.
FailedGapStaysOpen ==
    \A k \in Keys : gaps[k] \in {"none", "GAP", "FILLED"}

\* Section 5 of the design: the gap ledger is written only through atomic
\* operations, never by reads-then-writes.  So a gap a fill has closed as
\* FILLED stays FILLED: no fill job that read it earlier (queryGaps) writes
\* its own outcome over it in updateGaps.
FilledIsFinal ==
    [][\A k \in Keys : gaps[k] = "FILLED" => gaps'[k] = "FILLED"]_vars

=============================================================================
