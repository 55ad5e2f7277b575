-------------------------- MODULE GapIndexer_proofs --------------------------
(***************************************************************************)
(* Proofs about the gap auditor, for every chain length, every set of null *)
(* rounds and tasks, and any number of concurrent fill jobs.               *)
(***************************************************************************)
EXTENDS GapIndexer, WellFoundedInduction, TLAPS

USE GapAssumptions

-----------------------------------------------------------------------------
(* Least and greatest elements.  The naturals are well-ordered            *)
(* (NatLessThanWellFounded), so a non-empty set of naturals has a least    *)
(* element, and a bounded one a greatest.                                  *)

LEMMA MinExists ==
    ASSUME NEW S \in SUBSET Nat, S # {}
    PROVE  \E m \in S : \A x \in S : m <= x
<1>1. PICK m \in S : \A y \in S : ~(<<y, m>> \in OpToRel(<, Nat))
    BY NatLessThanWellFounded, WFMin
<1>2. \A y \in S : ~(y < m)
    BY <1>1, Zenon DEF OpToRel
<1>3. QED
    BY <1>2

LEMMA MaxExists ==
    ASSUME NEW N \in Nat, NEW S \in SUBSET (0..N), S # {}
    PROVE  \E m \in S : \A x \in S : x <= m
<1> DEFINE T == { N - x : x \in S }
<1>1. T \subseteq Nat /\ T # {}
    <2>1. \A x \in S : N - x \in Nat
        OBVIOUS
    <2>2. PICK x0 \in S : TRUE
        OBVIOUS
    <2>3. QED
        BY <2>1, <2>2
<1>2. PICK d \in T : \A y \in T : d <= y
    BY <1>1, MinExists
<1>3. PICK m \in S : d = N - m
    OBVIOUS
<1>4. \A x \in S : N - m <= N - x
    BY <1>2, <1>3
<1>5. QED
    BY <1>4

-----------------------------------------------------------------------------
(* The chain.                                                              *)

\* ChainGetTipSetByHeight returns a real epoch: the least one at or above
\* the height asked for.  So it returns the height itself exactly when
\* that height is not a null round.
LEMMA TipSetByHeightFacts ==
    ASSUME NEW h \in Epochs
    PROVE  TipSetByHeight(h) = h <=> h \notin NullRounds
<1> DEFINE IsTip(g) == /\ g \notin NullRounds
                       /\ \A x \in h..(g - 1) : x \in NullRounds
           G == { g \in h..MaxEpoch : g \notin NullRounds }
<1>0. G \subseteq Nat /\ MaxEpoch \in G
    BY DEF Epochs
<1>1. PICK m \in G : \A x \in G : m <= x
    BY <1>0, MinExists
<1>2. IsTip(m)
    BY <1>1
<1>3. IsTip(TipSetByHeight(h)) /\ TipSetByHeight(h) \in h..MaxEpoch
    BY <1>1, <1>2 DEF TipSetByHeight
<1>4. h \notin NullRounds => \A g \in h..MaxEpoch : IsTip(g) => g = h
    BY DEF Epochs
<1>5. QED
    BY <1>3, <1>4

\* HighestReported is the greatest recorded height, or -1 when there is none.
LEMMA HighestReportedFacts ==
    ASSUME NEW R \in SUBSET Epochs
    PROVE  /\ R = {} => HighestReported(R) = -1
           /\ R # {} => /\ HighestReported(R) \in R
                        /\ \A x \in R : x <= HighestReported(R)
<1>1. R # {} => \E m \in R : \A x \in R : x <= m
    BY MaxExists DEF Epochs
<1>2. QED
    BY <1>1 DEF HighestReported

\* The oldest recorded height, and the recorded height that follows c, are
\* the least elements they are meant to be whenever they exist.
LEMMA OldestFacts ==
    ASSUME NEW R \in SUBSET Nat, R # {}
    PROVE  Oldest(R) \in R /\ \A x \in R : Oldest(R) <= x
<1>1. \E m \in R : \A x \in R : m <= x
    BY MinExists
<1>2. QED
    BY <1>1, Zenon DEF Oldest

LEMMA NextAboveFacts ==
    ASSUME NEW R \in SUBSET Nat, NEW c \in Nat, NEW p0 \in R, p0 > c
    PROVE  /\ NextAbove(R, c) \in R
           /\ NextAbove(R, c) > c
           /\ \A x \in R : x > c => NextAbove(R, c) <= x
<1>1. { x \in R : x > c } \subseteq Nat /\ { x \in R : x > c } # {}
    OBVIOUS
<1>2. \E p \in { x \in R : x > c } : \A x \in { x \in R : x > c } : p <= x
    BY <1>1, MinExists
<1>3. QED
    BY <1>2, Zenon DEF NextAbove

\* findEpochGaps misses no height: every height below a recorded one that
\* is not itself recorded lies below the oldest recorded height, or
\* strictly between two adjacent recorded heights.
LEMMA FindEpochGapsComplete ==
    ASSUME NEW R \in SUBSET Epochs, NEW h \in Epochs, h \notin R,
           NEW M \in R, h < M
    PROVE  h \in FindEpochGaps(R)
<1> DEFINE Inner == { c \in R : \E p \in R : p > c }
           Mid == UNION { (c + 1)..(NextAbove(R, c) - 1) : c \in Inner }
<1>1. FindEpochGaps(R) = Mid \cup 0..(Oldest(R) - 1)
    BY Zenon DEF FindEpochGaps, Mid, Inner
<1>2. R \subseteq Nat /\ h \in Nat
    BY DEF Epochs
<1>3. PICK o \in R : o = Oldest(R) /\ \A x \in R : o <= x
    BY <1>2, OldestFacts
<1>4. CASE h < o
    <2>1. h \in 0..(o - 1)
        BY <1>2, <1>3, <1>4
    <2>2. QED
        BY <1>1, <1>3, <2>1
<1>5. CASE o <= h
    <2> DEFINE L == { x \in R : x < h }
    <2>1. o \in L
        BY <1>2, <1>3, <1>5 DEF L
    <2>2. PICK b \in L : \A x \in L : x <= b
        BY <2>1, MaxExists DEF Epochs, L
    <2>3. b \in R /\ b < h /\ b \in Nat
        BY <1>2 DEF L
    <2>4. b \in Inner
        BY <1>2, <2>3 DEF Inner
    <2>5. PICK n \in R : /\ n = NextAbove(R, b)
                         /\ n > b
                         /\ \A x \in R : x > b => n <= x
        <3>1. M > b
            BY <1>2, <2>3
        <3>2. QED
            BY <1>2, <2>3, <3>1, NextAboveFacts
    <2>6. n > h
        <3> SUFFICES ASSUME n <= h PROVE FALSE
            BY <1>2, <2>5
        <3>1. n \in L
            BY <1>2, <2>5 DEF L
        <3>2. QED
            BY <1>2, <2>2, <2>3, <2>5, <3>1
    <2>7. h \in (b + 1)..(n - 1)
        BY <1>2, <2>3, <2>5, <2>6
    <2>8. h \in (b + 1)..(NextAbove(R, b) - 1)
        BY <2>5, <2>7
    <2>9. h \in Mid
        BY <2>4, <2>8, Zenon DEF Mid
    <2>10. QED
        BY <1>1, <2>9
<1>6. QED
    BY <1>2, <1>3, <1>4, <1>5

-----------------------------------------------------------------------------
(* Inductive invariants.                                                   *)

\* A key names a height at which blocks were produced.
RealKey(k) == k[1] \notin NullRounds

\* Every processing report, every key a find run or a fill job has in
\* hand, and every status a fill job is about to write back, is at a real
\* epoch: reports are written only for tipsets, and every key comes from a
\* report, from a checked candidate height or from a gap row.
KeysReal ==
    /\ \A r \in reports : r.height \notin NullRounds
    /\ \A k \in heightGaps \cup skipGaps : RealKey(k)
    /\ \A f \in Fillers : \A k \in todo[f] : RealKey(k)
    /\ \A f \in Fillers, k \in Keys : filled[f][k] # "none" => RealKey(k)

GInv == TypeOK /\ KeysReal /\ GapsAreReal

\* While a find run is between detectProcessingGaps and its persist, its
\* height gaps cover every real epoch below the highest height it read
\* that still has no report: reports only ever accumulate.
PendingComplete ==
    fpc \in {"skips", "persist"} =>
        \A h \in Epochs, t \in Tasks :
            (h < seenMax /\ h \notin NullRounds /\ h \notin ReportedHeights)
                => <<h, t>> \in heightGaps

CInv == GInv /\ PendingComplete /\ FindCompleteness

-----------------------------------------------------------------------------
(* Preservation, one lemma per action.                                     *)

\* The recorded heights are epochs, and only grow when reports do.
LEMMA ReportedHeightsType ==
    ASSUME reports \subseteq Report
    PROVE  ReportedHeights \subseteq Epochs
BY DEF ReportedHeights, Report

LEMMA ReportedHeightsGrow ==
    ASSUME reports \subseteq reports'
    PROVE  ReportedHeights \subseteq ReportedHeights'
BY DEF ReportedHeights

LEMMA InitCInv == Init => CInv
BY DEF Init, CInv, GInv, TypeOK, KeysReal, GapsAreReal, PendingComplete,
       FindCompleteness, ReportedHeights, Keys, Epochs, GapStatus

LEMMA IndexCInv ==
    ASSUME CInv, NEW h \in Epochs, NEW t \in Tasks, NEW s \in ReportStatus,
           Index(h, t, s)
    PROVE  CInv'
<1>1. reports \subseteq reports' /\ reports' \subseteq Report
    BY DEF CInv, GInv, TypeOK, Index, Report
<1>2. ReportedHeights \subseteq ReportedHeights'
    BY <1>1, ReportedHeightsGrow
<1>3. TypeOK'
    BY <1>1 DEF CInv, GInv, TypeOK, Index
<1>4. KeysReal'
    BY DEF CInv, GInv, KeysReal, RealKey, Index
<1>5. GapsAreReal'
    BY DEF CInv, GInv, GapsAreReal, Index
<1>6. PendingComplete'
    BY <1>2 DEF CInv, PendingComplete, Index
<1>7. FindCompleteness'
    BY <1>2 DEF CInv, FindCompleteness, Index
<1>8. QED
    BY <1>3, <1>4, <1>5, <1>6, <1>7 DEF CInv, GInv


\* detectProcessingGaps returns only keys at real epochs.
LEMMA DetectedKeysReal ==
    ASSUME NEW R, NEW k \in DetectProcessingGaps(R)
    PROVE  k \in Keys /\ RealKey(k)
<1>1. k \in Keys /\ TipSetByHeight(k[1]) = k[1]
    BY DEF DetectProcessingGaps
<1>2. k[1] \in Epochs
    BY <1>1 DEF Keys
<1>3. QED
    BY <1>1, <1>2, TipSetByHeightFacts DEF RealKey

\* ... and every key at a real epoch below the highest recorded height
\* that has no report.
LEMMA DetectedKeysComplete ==
    ASSUME NEW R \in SUBSET Epochs, NEW h \in Epochs, NEW t \in Tasks,
           h \notin NullRounds, h \notin R, h < HighestReported(R)
    PROVE  <<h, t>> \in DetectProcessingGaps(R)
<1>1. PICK mx \in Epochs \cup {-1} :
          /\ mx = HighestReported(R)
          /\ R = {} => mx = -1
          /\ R # {} => mx \in R
    BY HighestReportedFacts DEF Epochs
<1>2. R # {}
    BY <1>1 DEF Epochs
<1>3. h \in FindEpochGaps(R)
    BY <1>1, <1>2, FindEpochGapsComplete
<1>4. TipSetByHeight(h) = h
    BY TipSetByHeightFacts
<1>5. QED
    BY <1>3, <1>4 DEF DetectProcessingGaps, Keys

LEMMA FindProcessingGapsCInv ==
    ASSUME CInv, FindProcessingGaps
    PROVE  CInv'
<1>1. ReportedHeights \subseteq Epochs
    BY ReportedHeightsType DEF CInv, GInv, TypeOK
<1>2. seenMax' \in Epochs \cup {-1}
    <2>1. HighestReported(ReportedHeights) \in Epochs \cup {-1}
        BY <1>1, HighestReportedFacts
    <2>2. QED
        BY <2>1 DEF FindProcessingGaps
<1>3. \A k \in heightGaps' : k \in Keys /\ RealKey(k)
    BY DetectedKeysReal DEF FindProcessingGaps
<1>4. TypeOK'
    BY <1>2, <1>3 DEF CInv, GInv, TypeOK, FindProcessingGaps
<1>5. KeysReal'
    BY <1>3 DEF CInv, GInv, KeysReal, FindProcessingGaps
<1>6. GapsAreReal'
    BY DEF CInv, GInv, GapsAreReal, FindProcessingGaps
<1>7. PendingComplete'
    <2> SUFFICES ASSUME NEW h \in Epochs, NEW t \in Tasks,
                        h < seenMax', h \notin NullRounds, h \notin ReportedHeights'
                 PROVE  <<h, t>> \in heightGaps'
        BY DEF PendingComplete
    <2>1. ReportedHeights' = ReportedHeights
        BY DEF FindProcessingGaps, ReportedHeights
    <2>2. QED
        BY <1>1, <2>1, DetectedKeysComplete DEF FindProcessingGaps
<1>8. FindCompleteness'
    BY DEF CInv, FindCompleteness, FindProcessingGaps, ReportedHeights
<1>9. QED
    BY <1>4, <1>5, <1>6, <1>7, <1>8 DEF CInv, GInv


\* detectSkippedTipSets returns keys at real epochs: those of reports.
LEMMA SkippedKeysReal ==
    ASSUME reports \subseteq Report, \A r \in reports : r.height \notin NullRounds
    PROVE  \A k \in DetectSkippedTipSets : k \in Keys /\ RealKey(k)
BY DEF DetectSkippedTipSets, Report, Keys, RealKey

LEMMA FindSkippedTipSetsCInv ==
    ASSUME CInv, FindSkippedTipSets
    PROVE  CInv'
<1>1. CASE /\ skipGaps' = DetectSkippedTipSets
           /\ fpc' = "persist"
           /\ UNCHANGED <<heightGaps, seenMax>>
    <2>1. \A k \in skipGaps' : k \in Keys /\ RealKey(k)
        BY <1>1, SkippedKeysReal DEF CInv, GInv, TypeOK, KeysReal
    <2>2. TypeOK' /\ KeysReal'
        BY <1>1, <2>1 DEF CInv, GInv, TypeOK, KeysReal, FindSkippedTipSets
    <2>3. PendingComplete'
        BY <1>1 DEF CInv, PendingComplete, FindSkippedTipSets, ReportedHeights
    <2>4. QED
        BY <2>2, <2>3 DEF CInv, GInv, GapsAreReal, FindCompleteness,
                          FindSkippedTipSets, ReportedHeights
<1>2. CASE /\ fpc' = "idle"
           /\ skipGaps' = {} /\ heightGaps' = {} /\ seenMax' = -1
    BY <1>2 DEF CInv, GInv, TypeOK, KeysReal, GapsAreReal, PendingComplete,
                FindCompleteness, FindSkippedTipSets, ReportedHeights
<1>3. QED
    BY <1>1, <1>2 DEF FindSkippedTipSets

LEMMA PersistGapsCInv ==
    ASSUME CInv, PersistGaps
    PROVE  CInv'
<1>1. /\ fpc' = "idle" /\ heightGaps' = {} /\ skipGaps' = {} /\ seenMax' = -1
      /\ UNCHANGED <<reports, gpc, todo, filled>>
    BY DEF PersistGaps
<1>2. PendingComplete'
    BY <1>1 DEF PendingComplete
<1>3. CASE /\ gaps' = [k \in Keys |-> IF gaps[k] = "none" /\ k \in heightGaps \cup skipGaps
                                       THEN "GAP" ELSE gaps[k]]
           /\ lastMax' = seenMax
    <2>1. TypeOK'
        BY <1>1, <1>3 DEF CInv, GInv, TypeOK, GapStatus
    <2>2. KeysReal'
        BY <1>1 DEF CInv, GInv, KeysReal
    <2>3. GapsAreReal'
        BY <1>3 DEF CInv, GInv, GapsAreReal, KeysReal, RealKey
    <2>4. FindCompleteness'
        <3> SUFFICES ASSUME NEW h \in Epochs, NEW t \in Tasks,
                            h < lastMax', h \notin NullRounds, h \notin ReportedHeights'
                     PROVE  gaps'[<<h, t>>] # "none"
            BY DEF FindCompleteness
        <3>1. <<h, t>> \in heightGaps
            BY <1>1, <1>3 DEF CInv, PendingComplete, PersistGaps, ReportedHeights
        <3>2. QED
            BY <1>3, <3>1 DEF Keys
    <2>5. QED
        BY <1>2, <2>1, <2>2, <2>3, <2>4 DEF CInv, GInv
<1>4. CASE UNCHANGED <<gaps, lastMax>>
    BY <1>1, <1>2, <1>4 DEF CInv, GInv, TypeOK, KeysReal, GapsAreReal,
                            FindCompleteness, ReportedHeights
<1>5. QED
    BY <1>3, <1>4 DEF PersistGaps


LEMMA QueryGapsCInv ==
    ASSUME CInv, NEW f \in Fillers, QueryGaps(f)
    PROVE  CInv'
<1>1. TypeOK'
    BY DEF CInv, GInv, TypeOK, QueryGaps, GapStatus
<1>2. KeysReal'
    BY DEF CInv, GInv, TypeOK, KeysReal, GapsAreReal, RealKey, QueryGaps
<1>3. QED
    BY <1>1, <1>2 DEF CInv, GInv, GapsAreReal, PendingComplete, FindCompleteness,
                      QueryGaps, ReportedHeights

LEMMA FillGapCInv ==
    ASSUME CInv, NEW f \in Fillers, FillGap(f)
    PROVE  CInv'
<1>1. PICK k \in todo[f] :
          /\ \/ /\ reports' = reports \cup {[height |-> k[1], task |-> k[2], status |-> "ok"]}
                /\ filled' = [filled EXCEPT ![f][k] = "FILLED"]
             \/ /\ filled' = [filled EXCEPT ![f][k] = "ERROR"]
                /\ UNCHANGED reports
          /\ todo' = [todo EXCEPT ![f] = @ \ {k}]
    BY DEF FillGap
<1>2. k \in Keys /\ RealKey(k)
    BY DEF CInv, GInv, TypeOK, KeysReal
<1>3. /\ reports \subseteq reports'
      /\ reports' \subseteq Report
      /\ \A r \in reports' : r.height \notin NullRounds
    <2>1. /\ [height |-> k[1], task |-> k[2], status |-> "ok"] \in Report
          /\ [height |-> k[1], task |-> k[2], status |-> "ok"].height \notin NullRounds
        BY <1>2 DEF RealKey, Report, Keys, ReportStatus
    <2>2. QED
        BY <1>1, <2>1 DEF CInv, GInv, TypeOK, KeysReal
<1>4. /\ filled' \in [Fillers -> [Keys -> GapStatus]]
      /\ \A g \in Fillers, j \in Keys : filled'[g][j] # "none" => RealKey(j)
    <2>1. PICK st \in {"FILLED", "ERROR"} : filled' = [filled EXCEPT ![f][k] = st]
        BY <1>1
    <2>2. \A g \in Fillers, j \in Keys :
              filled'[g][j] = IF g = f /\ j = k THEN st ELSE filled[g][j]
        BY <1>2, <2>1 DEF CInv, GInv, TypeOK
    <2>3. QED
        BY <1>2, <2>1, <2>2 DEF CInv, GInv, TypeOK, KeysReal, GapStatus
<1>5. todo' \in [Fillers -> SUBSET Keys] /\ \A g \in Fillers : todo'[g] \subseteq todo[g]
    BY <1>1 DEF CInv, GInv, TypeOK
<1>6. ReportedHeights \subseteq ReportedHeights'
    BY <1>3, ReportedHeightsGrow
<1>7. TypeOK'
    BY <1>3, <1>4, <1>5 DEF CInv, GInv, TypeOK, FillGap
<1>8. KeysReal'
    BY <1>3, <1>4, <1>5 DEF CInv, GInv, KeysReal, FillGap
<1>9. PendingComplete' /\ FindCompleteness'
    BY <1>6 DEF CInv, PendingComplete, FindCompleteness, FillGap
<1>10. QED
    BY <1>7, <1>8, <1>9 DEF CInv, GInv, GapsAreReal, FillGap

LEMMA FillDoneCInv ==
    ASSUME CInv, NEW f \in Fillers, FillDone(f)
    PROVE  CInv'
BY DEF CInv, GInv, TypeOK, KeysReal, GapsAreReal, PendingComplete,
       FindCompleteness, FillDone, ReportedHeights

LEMMA UpdateGapsCInv ==
    ASSUME CInv, NEW f \in Fillers, UpdateGaps(f)
    PROVE  CInv'
<1>1. /\ filled' = [filled EXCEPT ![f] = [k \in Keys |-> "none"]]
      /\ UNCHANGED <<reports, fpc, heightGaps, skipGaps, seenMax, lastMax, todo>>
      /\ gpc' = [gpc EXCEPT ![f] = "idle"]
    BY DEF UpdateGaps
<1>2. /\ filled' \in [Fillers -> [Keys -> GapStatus]]
      /\ \A g \in Fillers, j \in Keys : filled'[g][j] # "none" => RealKey(j)
    BY <1>1 DEF CInv, GInv, TypeOK, KeysReal, GapStatus
<1>3. /\ gaps' \in [Keys -> GapStatus]
      /\ \A k \in Keys : gaps'[k] # "none" => RealKey(k)
      /\ \A k \in Keys : gaps[k] # "none" => gaps'[k] # "none"
    <2>1. CASE gaps' = [k \in Keys |-> IF filled[f][k] # "none" THEN filled[f][k] ELSE gaps[k]]
        BY <2>1 DEF CInv, GInv, TypeOK, KeysReal, GapsAreReal, RealKey
    <2>2. CASE UNCHANGED gaps
        BY <2>2 DEF CInv, GInv, TypeOK, GapsAreReal, RealKey
    <2>3. QED
        BY <2>1, <2>2 DEF UpdateGaps
<1>4. TypeOK' /\ KeysReal' /\ GapsAreReal'
    BY <1>1, <1>2, <1>3 DEF CInv, GInv, TypeOK, KeysReal, GapsAreReal, RealKey
<1>5. PendingComplete' /\ FindCompleteness'
    BY <1>1, <1>3 DEF CInv, PendingComplete, FindCompleteness, ReportedHeights, Keys
<1>6. QED
    BY <1>4, <1>5 DEF CInv, GInv


LEMMA NextCInv ==
    ASSUME CInv, [Next]_vars
    PROVE  CInv'
<1>1. CASE \E h \in Epochs, t \in Tasks, s \in ReportStatus : Index(h, t, s)
    BY <1>1, IndexCInv
<1>2. CASE FindProcessingGaps
    BY <1>2, FindProcessingGapsCInv
<1>3. CASE FindSkippedTipSets
    BY <1>3, FindSkippedTipSetsCInv
<1>4. CASE PersistGaps
    BY <1>4, PersistGapsCInv
<1>5. CASE \E f \in Fillers : QueryGaps(f) \/ FillGap(f) \/ FillDone(f) \/ UpdateGaps(f)
    BY <1>5, QueryGapsCInv, FillGapCInv, FillDoneCInv, UpdateGapsCInv
<1>6. CASE UNCHANGED vars
    BY <1>6 DEF vars, CInv, GInv, TypeOK, KeysReal, RealKey, GapsAreReal,
                PendingComplete, FindCompleteness, ReportedHeights
<1>7. QED
    BY <1>1, <1>2, <1>3, <1>4, <1>5, <1>6 DEF Next

-----------------------------------------------------------------------------
(* The theorems.                                                           *)

\* Whatever the interleaving of find runs, indexers and concurrent fill
\* jobs, and whichever of their database writes fail, GapIndexer.Run and
\* GapFiller.Run never record a gap at a null round: every gap report
\* names an epoch at which blocks were produced.
THEOREM GapsAreRealHolds == Spec => []GapsAreReal
<1>1. Init => CInv
    BY InitCInv
<1>2. CInv /\ [Next]_vars => CInv'
    BY NextCInv
<1>3. CInv => GapsAreReal
    BY DEF CInv, GInv
<1>4. QED
    BY <1>1, <1>2, <1>3, PTL DEF Spec

\* Once a GapIndexer.Run has committed its PersistBatch, every real epoch
\* below the highest height that run read which still has no processing
\* report has a gap report for every task.  It rests on findEpochGaps
\* missing no height between or below the recorded ones
\* (FindEpochGapsComplete), on reports only accumulating, and on no fill
\* ever deleting a gap row.
THEOREM FindCompletenessHolds == Spec => []FindCompleteness
<1>1. Init => CInv
    BY InitCInv
<1>2. CInv /\ [Next]_vars => CInv'
    BY NextCInv
<1>3. CInv => FindCompleteness
    BY DEF CInv
<1>4. QED
    BY <1>1, <1>2, <1>3, PTL DEF Spec

=============================================================================
