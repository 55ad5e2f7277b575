-------------------------- MODULE MessageExtraction --------------------------
(***************************************************************************)
(* The message extraction of one tipset (src/chain/gap/find.go:            *)
(* fetchMessages and extractMessageModels), one loop iteration per step.   *)
(* The loop runs over the map of block messages, whose iteration order Go  *)
(* leaves unspecified; for every message of a block (its BLS messages then *)
(* its secp messages, the list vmm) it records the (block, message)        *)
(* inclusion, adds to the gas totals and, the first time the message is    *)
(* seen, records the message.  After the loop it computes the gas economy *)
(* of the tipset.                                                          *)
(*                                                                         *)
(* A message is a model value with a gas limit; a block's vmm is a list of *)
(* distinct messages.  The float ratios of the gas economy are kept as     *)
(* their integer numerators over the common denominator                    *)
(* len(blocks) * BlockGasTarget.                                           *)
(***************************************************************************)
EXTENDS Integers, Sequences, FiniteSets

CONSTANTS
    Blocks,           \* the blocks of the tipset
    Msgs,             \* messages
    GasLimits,        \* gas limit values
    BaseFees,         \* parent base fee values
    BlockGasTarget,   \* build.BlockGasTarget
    MinimumBaseFee,   \* build.MinimumBaseFee
    MaxChangeDenom    \* build.BaseFeeMaxChangeDenom

ASSUME ExtractionAssumptions ==
    /\ Blocks # {}
    /\ GasLimits \subseteq Nat /\ BaseFees \subseteq Nat
    /\ BlockGasTarget \in Nat \ {0} /\ MaxChangeDenom \in Nat \ {0}
    /\ MinimumBaseFee \in Nat

\* The values a sequence holds, and whether it holds each at most once.
Range(s) == { s[i] : i \in DOMAIN s }
IsInjective(s) == \A i, j \in DOMAIN s : s[i] = s[j] => i = j

\* A block's message list: distinct messages, at most all of them.
MsgLists == { s \in UNION { [1..n -> Msgs] : n \in 0..Cardinality(Msgs) } : IsInjective(s) }

VARIABLES
    blkMsgs,           \* blkMsgs[b]: vmm of block b (input)
    gasLimit,          \* gasLimit[m]: message.GasLimit (input)
    parentBaseFee,     \* ts.Blocks()[0].ParentBaseFee (input)
    todo,              \* blocks the range loop has not reached yet
    blk,               \* the block of the current iteration
    vmm,               \* the messages of blk not yet visited
    msgsSeen,          \* msgsSeen
    msgModels,         \* msgModels: the unique messages, in order
    bmsgModels,        \* bmsgModels: the <<block, message>> inclusions
    totalGasLimit,     \* totalGasLimit
    totalUniqGasLimit, \* totalUniqGasLimit
    status,            \* "running", "error" or "done"
    econ               \* the MessageGasEconomy, once done

vars == <<blkMsgs, gasLimit, parentBaseFee, todo, blk, vmm, msgsSeen, msgModels,
          bmsgModels, totalGasLimit, totalUniqGasLimit, status, econ>>

NoEcon == [baseFee |-> -1, gasLimitTotal |-> -1, gasLimitUniqueTotal |-> -1,
           fill |-> -1, capacity |-> -1, waste |-> -1]

-----------------------------------------------------------------------------
(* store.ComputeNextBaseFee (lotus, outside src/), after the Smoke upgrade: *)
(* the per-block gas limit's distance from the target, capped at the       *)
(* target, moves the base fee by at most 1/MaxChangeDenom, with a floor.   *)

ClampDelta(d) ==
    IF d > BlockGasTarget THEN BlockGasTarget
    ELSE IF d < -BlockGasTarget THEN -BlockGasTarget ELSE d

ComputeNextBaseFee(baseFee, gasLimitUsed, noOfBlocks) ==
    LET delta  == ClampDelta(gasLimitUsed \div noOfBlocks - BlockGasTarget)
        change == ((baseFee * delta) \div BlockGasTarget) \div MaxChangeDenom
        next   == baseFee + change
    IN  IF next < MinimumBaseFee THEN MinimumBaseFee ELSE next

-----------------------------------------------------------------------------
(* extractMessageModels                                                    *)

\* Any tipset's block messages, gas limits and parent base fee.
Init ==
    /\ blkMsgs \in [Blocks -> MsgLists]
    /\ gasLimit \in [Msgs -> GasLimits]
    /\ parentBaseFee \in BaseFees
    /\ todo = Blocks
    /\ blk = CHOOSE b \in Blocks : TRUE
    /\ vmm = <<>>
    /\ msgsSeen = {} /\ msgModels = <<>> /\ bmsgModels = <<>>
    /\ totalGasLimit = 0 /\ totalUniqGasLimit = 0
    /\ status = "running" /\ econ = NoEcon

\* The range loop takes the next block, in any order; the lease deadline
\* may have passed, which ends the extraction with ctx.Err().
NextBlock ==
    /\ status = "running" /\ vmm = <<>> /\ todo # {}
    /\ \/ \E b \in todo :
            /\ blk' = b /\ vmm' = blkMsgs[b] /\ todo' = todo \ {b}
            /\ UNCHANGED status
       \/ /\ status' = "error"
          /\ UNCHANGED <<blk, vmm, todo>>
    /\ UNCHANGED <<blkMsgs, gasLimit, parentBaseFee, msgsSeen, msgModels,
                   bmsgModels, totalGasLimit, totalUniqGasLimit, econ>>

\* Mutant: the duplicate check is missing.
VisitMessageNoDedup ==
    /\ status = "running" /\ vmm # <<>>
    /\ LET m == Head(vmm) IN
       /\ bmsgModels' = Append(bmsgModels, <<blk, m>>)
       /\ totalUniqGasLimit' = totalUniqGasLimit + gasLimit[m]
       /\ totalGasLimit' = totalGasLimit + gasLimit[m]
       /\ msgModels' = Append(msgModels, m)
       /\ msgsSeen' = msgsSeen \cup {m}
    /\ vmm' = Tail(vmm)
    /\ UNCHANGED <<blkMsgs, gasLimit, parentBaseFee, todo, blk, status, econ>>

\* One message of vmm: record the inclusion and add to totalUniqGasLimit;
\* a message seen before stops here; a new one adds to totalGasLimit and
\* is recorded.  message.Serialize may fail, ending the extraction.
VisitMessage ==
    /\ status = "running" /\ vmm # <<>>
    /\ LET m == Head(vmm) IN
       \/ /\ bmsgModels' = Append(bmsgModels, <<blk, m>>)
          /\ totalUniqGasLimit' = totalUniqGasLimit + gasLimit[m]
          /\ IF m \in msgsSeen
             THEN UNCHANGED <<totalGasLimit, msgModels, msgsSeen>>
             ELSE /\ totalGasLimit' = totalGasLimit + gasLimit[m]
                  /\ msgModels' = Append(msgModels, m)
                  /\ msgsSeen' = msgsSeen \cup {m}
          /\ vmm' = Tail(vmm)
          /\ UNCHANGED status
       \/ /\ m \notin msgsSeen
          /\ status' = "error"
          /\ UNCHANGED <<vmm, bmsgModels, totalUniqGasLimit, totalGasLimit,
                         msgModels, msgsSeen>>
    /\ UNCHANGED <<blkMsgs, gasLimit, parentBaseFee, todo, blk, econ>>

\* After the loop: the next base fee from totalUniqGasLimit, and the gas
\* economy with the fill, capacity and waste ratios' numerators.
Finish ==
    /\ status = "running" /\ vmm = <<>> /\ todo = {}
    /\ LET n == Cardinality(Blocks) IN
       econ' = [baseFee |-> ComputeNextBaseFee(parentBaseFee, totalUniqGasLimit, n),
                gasLimitTotal |-> totalGasLimit,
                gasLimitUniqueTotal |-> totalUniqGasLimit,
                fill |-> totalGasLimit, capacity |-> totalUniqGasLimit,
                waste |-> totalGasLimit - totalUniqGasLimit]
    /\ status' = "done"
    /\ UNCHANGED <<blkMsgs, gasLimit, parentBaseFee, todo, blk, vmm, msgsSeen,
                   msgModels, bmsgModels, totalGasLimit, totalUniqGasLimit>>

Next == NextBlock \/ VisitMessage \/ Finish

Spec == Init /\ [][Next]_vars

-----------------------------------------------------------------------------
(* Properties                                                              *)

\* The inclusions of the tipset, and the messages they include.
Inclusions == UNION { { <<b, m>> : m \in Range(blkMsgs[b]) } : b \in Blocks }
TipSetMsgs == { p[2] : p \in Inclusions }

\* Whatever order the range loop visits the blocks in, a completed
\* extraction records every message of the tipset exactly once and every
\* (block, message) inclusion exactly once.
RecordsComplete ==
    status = "done" =>
        /\ IsInjective(msgModels) /\ Range(msgModels) = TipSetMsgs
        /\ IsInjective(bmsgModels) /\ Range(bmsgModels) = Inclusions

=============================================================================
