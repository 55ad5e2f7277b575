--------------------------- MODULE MinerDiff_proofs ---------------------------
(***************************************************************************)
(* The pre-commit diff of a miner actor is right for every pair of actors  *)
(* versions, every set of sectors and every pair of HAMT contents.         *)
(***************************************************************************)
EXTENDS MinerDiff, TLAPS

USE DiffAssumptions

\* The two codes are those of miner actors: Init picks them and no step
\* changes them.
CodesInv == preCode \in MinerCodes /\ curCode \in MinerCodes

Inv == CodesInv /\ PreCommitDiffCorrect /\ SectorDiffCorrectUnlessBothLegacy

\* Between two miner codes DiffPreCommits never reaches the decode error:
\* a v0 or v2 code on either side selects the legacy diff, and otherwise
\* both HAMTs are in the v3 format the structural walker reads.
LEMMA PreCommitStrategyTotal ==
    ASSUME NEW p \in MinerCodes, NEW c \in MinerCodes
    PROVE  \/ mapRequiresLegacyDiffing(p, c, MapOptsForActorCode(p), MapOptsForActorCode(c))
           \/ StructuralOK(p, c)
BY DEF MinerCodes, mapRequiresLegacyDiffing, StructuralOK, LegacyFormat

\* The miner codes are distinct, and none is a market code.
LEMMA CodesDistinct ==
    /\ Miner0 # Miner3 /\ Miner0 # Miner4 /\ Miner2 # Miner3 /\ Miner2 # Miner4
    /\ \A c \in MinerCodes : c # Market0 /\ c # Market2
<1>1. \A i, j \in 1..6 : CodeIDs[i] = CodeIDs[j] => i = j
    OBVIOUS
<1>2. QED
    BY <1>1 DEF CodeIDs, MinerCodes

\* What DiffSectors returns for two miner codes: the decode error exactly
\* when both are in the pre-v3 format, the diff otherwise.
LEMMA SectorStrategy ==
    ASSUME NEW p \in MinerCodes, NEW c \in MinerCodes, NEW P, NEW C
    PROVE  LET pOpts == SectorsAmtBitwidth(p)
               cOpts == SectorsAmtBitwidth(c)
           IN  (IF pOpts = -1 \/ cOpts = -1 THEN DecodeError
                ELSE IF arrayRequiresLegacyDiffing(p, c, pOpts, cOpts)
                     THEN SectorResult(P, C)
                ELSE IF StructuralOK(p, c) THEN SectorResult(P, C)
                ELSE DecodeError)
               = IF LegacyFormat(p) /\ LegacyFormat(c) THEN DecodeError
                 ELSE SectorResult(P, C)
<1>1. /\ SectorsAmtBitwidth(p) = IF LegacyFormat(p) THEN 3 ELSE 5
      /\ SectorsAmtBitwidth(c) = IF LegacyFormat(c) THEN 3 ELSE 5
    BY CodesDistinct DEF MinerCodes, SectorsAmtBitwidth, LegacyFormat
<1>2. ~(p = Market0 \/ p = Market2 \/ c = Market0 \/ c = Market2)
    BY CodesDistinct
<1>3. (SectorsAmtBitwidth(p) # SectorsAmtBitwidth(c)) <=> (LegacyFormat(p) # LegacyFormat(c))
    BY <1>1 DEF LegacyFormat
<1>4. arrayRequiresLegacyDiffing(p, c, SectorsAmtBitwidth(p), SectorsAmtBitwidth(c))
        <=> LegacyFormat(p) # LegacyFormat(c)
    BY <1>2, <1>3 DEF arrayRequiresLegacyDiffing, LegacyFormat
<1>5. SectorsAmtBitwidth(p) # -1 /\ SectorsAmtBitwidth(c) # -1
    BY <1>1 DEF LegacyFormat
<1>6. CASE LegacyFormat(p) /\ LegacyFormat(c)
    BY <1>4, <1>5, <1>6 DEF StructuralOK, LegacyFormat
<1>7. CASE ~(LegacyFormat(p) /\ LegacyFormat(c))
    BY <1>4, <1>5, <1>7 DEF StructuralOK, LegacyFormat
<1>8. QED
    BY <1>6, <1>7

\* The error and a diff result are different values.
LEMMA DecodeErrorIsNoResult ==
    ASSUME NEW P, NEW C
    PROVE  DecodeError # SectorResult(P, C)
BY DEF DecodeError, SectorResult

LEMMA InitInv == Init => Inv
BY DEF Init, Inv, CodesInv, PreCommitDiffCorrect, SectorDiffCorrectUnlessBothLegacy, NotRun

LEMMA NextInv ==
    ASSUME Inv, [Next]_vars
    PROVE  Inv'
<1>1. CASE DiffSectors
    <2>1. sectorChanges' = IF LegacyFormat(preCode) /\ LegacyFormat(curCode)
                           THEN DecodeError ELSE SectorResult(pre, cur)
        BY <1>1, SectorStrategy DEF DiffSectors, Inv, CodesInv
    <2>2. SectorDiffCorrectUnlessBothLegacy'
        BY <1>1, <2>1, DecodeErrorIsNoResult
           DEF DiffSectors, SectorDiffCorrectUnlessBothLegacy
    <2>3. QED
        BY <1>1, <2>2 DEF DiffSectors, Inv, CodesInv, PreCommitDiffCorrect
<1>2. CASE DiffPreCommits
    <2>1. precommitChanges' = PreCommitResult(pre, cur)
        <3>1. CASE mapRequiresLegacyDiffing(preCode, curCode, MapOptsForActorCode(preCode),
                                            MapOptsForActorCode(curCode))
            BY <1>2, <3>1 DEF DiffPreCommits
        <3>2. CASE ~mapRequiresLegacyDiffing(preCode, curCode, MapOptsForActorCode(preCode),
                                             MapOptsForActorCode(curCode))
            <4>1. StructuralOK(preCode, curCode)
                BY <3>2, PreCommitStrategyTotal DEF Inv, CodesInv
            <4>2. QED
                BY <1>2, <3>2, <4>1 DEF DiffPreCommits
        <3>3. QED
            BY <3>1, <3>2
    <2>2. QED
        BY <1>2, <2>1 DEF DiffPreCommits, Inv, CodesInv, PreCommitDiffCorrect,
                          SectorDiffCorrectUnlessBothLegacy
<1>3. CASE UNCHANGED vars
    BY <1>3 DEF vars, Inv, CodesInv, PreCommitDiffCorrect, SectorDiffCorrectUnlessBothLegacy
<1>4. QED
    BY <1>1, <1>2, <1>3 DEF Next

\* Across every actors upgrade, the pre-commit diff of two miner states
\* (DiffPreCommits in miner/diff.go) succeeds and reports exactly the
\* pre-commits added and removed between them: the strategy choice in
\* mapRequiresLegacyDiffing never sends a v2-format HAMT to the v3 walker.
THEOREM PreCommitDiffCorrectHolds == Spec => []PreCommitDiffCorrect
<1>1. Init => Inv
    BY InitInv
<1>2. Inv /\ [Next]_vars => Inv'
    BY NextInv
<1>3. Inv => PreCommitDiffCorrect
    BY DEF Inv
<1>4. QED
    BY <1>1, <1>2, <1>3, PTL DEF Spec

\* For every pair of miner actor versions and every pair of sector AMTs,
\* DiffSectors (miner/diff.go) returns the right changes exactly when the
\* two states are not both in the pre-v3 node format: the wrong codes
\* tested in arrayRequiresLegacyDiffing break every diff between two
\* v0/v2 states, and no other.
THEOREM SectorDiffCorrectUnlessBothLegacyHolds == Spec => []SectorDiffCorrectUnlessBothLegacy
<1>1. Init => Inv
    BY InitInv
<1>2. Inv /\ [Next]_vars => Inv'
    BY NextInv
<1>3. Inv => SectorDiffCorrectUnlessBothLegacy
    BY DEF Inv
<1>4. QED
    BY <1>1, <1>2, <1>3, PTL DEF Spec

=============================================================================
