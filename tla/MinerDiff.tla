------------------------------ MODULE MinerDiff ------------------------------
(***************************************************************************)
(* The diff of a miner actor's sector and pre-commit containers between    *)
(* two states (src/chain/actors/builtin/miner/diff.go): DiffSectors over   *)
(* the sectors AMT, DiffPreCommits over the pre-commits HAMT.  Each picks  *)
(* a strategy before it reads anything: the legacy generic diff, which     *)
(* loads both containers in full, or the structural diff of               *)
(* go-amt-ipld/v3 and go-hamt-ipld/v3, which can only read containers in   *)
(* the v3 node format.  The classification callbacks (Add, Remove, Modify) *)
(* of the diff containers turn the raw changes into the result.            *)
(*                                                                         *)
(* A container is a function from sector numbers to raw values or Absent; *)
(* a raw value is the pair of fields the callbacks look at, the           *)
(* expiration and the rest of the record.                                  *)
(***************************************************************************)
EXTENDS Integers, FiniteSets

CONSTANTS
    Miner0, Miner2, Miner3, Miner4,  \* StorageMinerActorCodeID of actors v0..v4
    Market0, Market2,                \* StorageMarketActorCodeID of actors v0, v2
    Sectors,                         \* sector numbers
    Expirations,                     \* values of the Expiration field
    Others,                          \* values of the rest of a record
    Absent                           \* no entry under a key

MinerCodes == {Miner0, Miner2, Miner3, Miner4}

\* The six code CIDs are distinct.
CodeIDs == <<Miner0, Miner2, Miner3, Miner4, Market0, Market2>>

ASSUME DiffAssumptions ==
    /\ \A i, j \in 1..6 : CodeIDs[i] = CodeIDs[j] => i = j
    /\ Sectors # {}

Value == [exp : Expirations, other : Others]
Container == [Sectors -> Value \cup {Absent}]

\* The node format each actors version writes its AMTs and HAMTs in: v0 and
\* v2 use go-amt-ipld/v2 and go-hamt-ipld/v2, v3 and v4 the v3 libraries.
LegacyFormat(c) == c \in {Miner0, Miner2}

\* The result variables before the diff has run.
NotRun == [ran |-> FALSE]

VARIABLES
    preCode, curCode,   \* actor code of the previous and current miner state
    pre, cur,           \* the container in the previous and current state
    sectorChanges,      \* result of DiffSectors, or NotRun
    precommitChanges    \* result of DiffPreCommits, or NotRun

vars == <<preCode, curCode, pre, cur, sectorChanges, precommitChanges>>

-----------------------------------------------------------------------------
(* Strategy selection                                                      *)

\* Mutant: the v2 miner is given the bitwidth of v3.
SectorsAmtBitwidthV2Wide(c) ==
    CASE c = Miner0 -> 3
      [] c = Miner2 -> 5
      [] c = Miner3 -> 5
      [] c = Miner4 -> 5
      [] OTHER -> -1

\* SectorsAmtBitwidth: the sectors AMT bitwidth of a miner actor version.
SectorsAmtBitwidth(c) ==
    CASE c = Miner0 -> 3
      [] c = Miner2 -> 3
      [] c = Miner3 -> 5
      [] c = Miner4 -> 5
      [] OTHER -> -1

\* adt.MapOptsForActorCode (outside src/): the pre-commits HAMT of every
\* miner version uses SHA-256 and bitwidth 5.
MapOptsForActorCode(c) == [hashFunc |-> "sha256", bitwidth |-> 5]

arrayRequiresLegacyDiffing(p, c, pOpts, cOpts) ==
    \/ p = Market0 \/ p = Market2
    \/ c = Market0 \/ c = Market2
    \/ pOpts # cOpts

\* Mutant: the check of the previous state's v2 code is missing.
mapRequiresLegacyDiffingNoPreV2(p, c, pOpts, cOpts) ==
    \/ p = Miner0
    \/ c = Miner0 \/ c = Miner2
    \/ pOpts # cOpts

mapRequiresLegacyDiffing(p, c, pOpts, cOpts) ==
    \/ p = Miner0 \/ p = Miner2
    \/ c = Miner0 \/ c = Miner2
    \/ pOpts # cOpts

-----------------------------------------------------------------------------
(* Diffing                                                                 *)

\* The raw changes between two containers: keys only in the new one, only
\* in the old one, and in both with different bytes.  diff.GenericArray and
\* diff.GenericMap compute them by loading both containers.
Added(p, c)    == { k \in Sectors : p[k] = Absent /\ c[k] # Absent }
Removed(p, c)  == { k \in Sectors : p[k] # Absent /\ c[k] = Absent }
Modified(p, c) == { k \in Sectors : p[k] # Absent /\ c[k] # Absent /\ p[k] # c[k] }

\* diff.Amt and diff.Hamt (outside src/) walk both trees with the v3
\* libraries: the same changes when both containers are in the v3 format, a
\* decode error when one of them is not.
StructuralOK(p, c) == ~LegacyFormat(p) /\ ~LegacyFormat(c)

\* sectorDiffContainer: Added and Removed decoded from the new and old
\* side; a modification is an extension only when Expiration differs.
SectorResult(p, c) ==
    [ ok       |-> TRUE,
      added    |-> Added(p, c),
      removed  |-> Removed(p, c),
      extended |-> { k \in Modified(p, c) : p[k].exp # c[k].exp } ]

\* preCommitDiffContainer: modifications are ignored.
PreCommitResult(p, c) ==
    [ ok |-> TRUE, added |-> Added(p, c), removed |-> Removed(p, c) ]

DecodeError == [ok |-> FALSE]

\* DiffSectors: look up both bitwidths (an unknown code is an error), pick
\* the strategy, diff.
DiffSectors ==
    /\ sectorChanges = NotRun
    /\ LET pOpts == SectorsAmtBitwidth(preCode)
           cOpts == SectorsAmtBitwidth(curCode)
       IN  sectorChanges' =
             IF pOpts = -1 \/ cOpts = -1 THEN DecodeError
             ELSE IF arrayRequiresLegacyDiffing(preCode, curCode, pOpts, cOpts)
                  THEN SectorResult(pre, cur)
             ELSE IF StructuralOK(preCode, curCode) THEN SectorResult(pre, cur)
             ELSE DecodeError
    /\ UNCHANGED <<preCode, curCode, pre, cur, precommitChanges>>

\* DiffPreCommits: the same shape over the pre-commits HAMT.
DiffPreCommits ==
    /\ precommitChanges = NotRun
    /\ LET pOpts == MapOptsForActorCode(preCode)
           cOpts == MapOptsForActorCode(curCode)
       IN  precommitChanges' =
             IF mapRequiresLegacyDiffing(preCode, curCode, pOpts, cOpts)
             THEN PreCommitResult(pre, cur)
             ELSE IF StructuralOK(preCode, curCode) THEN PreCommitResult(pre, cur)
             ELSE DecodeError
    /\ UNCHANGED <<preCode, curCode, pre, cur, sectorChanges>>

\* Any two miner states of one actor, in any order of versions.
Init ==
    /\ preCode \in MinerCodes /\ curCode \in MinerCodes
    /\ pre \in Container /\ cur \in Container
    /\ sectorChanges = NotRun /\ precommitChanges = NotRun

Next == DiffSectors \/ DiffPreCommits

Spec == Init /\ [][Next]_vars

-----------------------------------------------------------------------------
(* Properties                                                              *)

\* The pre-commit diff of any two miner states, across every actors
\* upgrade, succeeds and reports exactly the added and removed pre-commits:
\* the strategy choice never sends a v2-format HAMT to the v3 walker.
PreCommitDiffCorrect ==
    precommitChanges # NotRun => precommitChanges = PreCommitResult(pre, cur)

\* The same for the sectors diff (the comment at arrayRequiresLegacyDiffing:
\* "amt/v3 cannot read amt/v2 nodes").
SectorDiffCorrect ==
    sectorChanges # NotRun => sectorChanges = SectorResult(pre, cur)

\* The reach of the strategy bug in DiffSectors: arrayRequiresLegacyDiffing
\* tests the market actor's codes where the miner's are meant, so the
\* sectors diff of two miner states is right exactly when they are not both
\* in the pre-v3 node format (v0 and v2 have the same bitwidth and go to the
\* v3 walker, which cannot read them); across the v2-v3 upgrade the
\* bitwidths differ and the legacy diff saves it.
SectorDiffCorrectUnlessBothLegacy ==
    sectorChanges # NotRun =>
        (sectorChanges = SectorResult(pre, cur)
            <=> ~(LegacyFormat(preCode) /\ LegacyFormat(curCode)))

=============================================================================
