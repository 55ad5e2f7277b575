------------------------ MODULE MessageExtraction_proofs ------------------------
(***************************************************************************)
(* The record lists of the message extraction are right for every tipset, *)
(* every set of messages and every order of the range loop.                *)
(***************************************************************************)
EXTENDS MessageExtraction, TLAPS

USE ExtractionAssumptions

-----------------------------------------------------------------------------
(* Sequences.                                                              *)

\* Appending x adds x to the values, and keeps the sequence injective
\* exactly when x was not there.
LEMMA AppendRange ==
    ASSUME NEW S, NEW s \in Seq(S), NEW x \in S
    PROVE  /\ Append(s, x) \in Seq(S)
           /\ Range(Append(s, x)) = Range(s) \cup {x}
           /\ IsInjective(s) /\ x \notin Range(s) => IsInjective(Append(s, x))
<1>1. Append(s, x) \in Seq(S) /\ Len(Append(s, x)) = Len(s) + 1
      /\ DOMAIN Append(s, x) = 1..(Len(s) + 1) /\ DOMAIN s = 1..Len(s)
      /\ \A i \in 1..Len(s) : Append(s, x)[i] = s[i]
      /\ Append(s, x)[Len(s) + 1] = x
    OBVIOUS
<1>2. Range(Append(s, x)) = Range(s) \cup {x}
    BY <1>1 DEF Range
<1>3. IsInjective(s) /\ x \notin Range(s) => IsInjective(Append(s, x))
    BY <1>1 DEF IsInjective, Range
<1>4. QED
    BY <1>1, <1>2, <1>3

\* The tail of a non-empty sequence drops its head.
LEMMA TailFacts ==
    ASSUME NEW S, NEW s \in Seq(S), s # <<>>
    PROVE  /\ Head(s) \in S /\ Head(s) = s[1]
           /\ Tail(s) \in Seq(S) /\ Len(Tail(s)) = Len(s) - 1
           /\ \A i \in 1..Len(Tail(s)) : Tail(s)[i] = s[i + 1]
OBVIOUS

\* The messages of a set of inclusions with one more inclusion <<b, x>>.
LEMMA SecondsAddOne ==
    ASSUME NEW V, NEW b, NEW x
    PROVE  { p[2] : p \in V \cup {<<b, x>>} } = { p[2] : p \in V } \cup {x}
<1>1. <<b, x>>[2] = x
    OBVIOUS
<1>2. QED
    BY <1>1, Zenon

-----------------------------------------------------------------------------
(* Inductive invariant.                                                    *)

\* The blocks the range loop has taken, and how many messages of each it
\* has visited: all of a block it has moved past, and of the current block
\* those before the suffix still in vmm.
Taken == Blocks \ todo
Visited(b) == IF b = blk THEN Len(blkMsgs[b]) - Len(vmm) ELSE Len(blkMsgs[b])
VisitedIncl ==
    { p \in Blocks \X Msgs :
        p[1] \in Taken /\ \E i \in 1..Visited(p[1]) : blkMsgs[p[1]][i] = p[2] }

ETypeOK ==
    /\ blkMsgs \in [Blocks -> MsgLists]
    /\ todo \subseteq Blocks /\ blk \in Blocks
    /\ vmm \in Seq(Msgs) /\ msgModels \in Seq(Msgs)
    /\ bmsgModels \in Seq(Blocks \X Msgs)
    /\ msgsSeen \subseteq Msgs
    /\ status \in {"running", "error", "done"}

\* vmm is what is left of the current block's list; a block not yet taken
\* has nothing left; a completed run has taken every block.
VmmSuffix ==
    /\ blk \in todo => vmm = <<>>
    /\ Len(vmm) <= Len(blkMsgs[blk])
    /\ \A i \in 1..Len(vmm) : vmm[i] = blkMsgs[blk][Len(blkMsgs[blk]) - Len(vmm) + i]
    /\ status = "done" => todo = {} /\ vmm = <<>>

\* The two lists hold exactly the inclusions visited so far and their
\* messages, each once; msgsSeen is the set of messages recorded.
RecordsSoFar ==
    /\ IsInjective(bmsgModels) /\ Range(bmsgModels) = VisitedIncl
    /\ IsInjective(msgModels) /\ Range(msgModels) = msgsSeen
    /\ msgsSeen = { p[2] : p \in VisitedIncl }

IInv == ETypeOK /\ VmmSuffix /\ RecordsSoFar


-----------------------------------------------------------------------------
(* Initial state, and the invariant at the end of a run.                   *)

\* A block's message list is a sequence of distinct messages.
LEMMA MsgListFacts ==
    ASSUME NEW s \in MsgLists
    PROVE  s \in Seq(Msgs) /\ IsInjective(s)
BY DEF MsgLists

LEMMA InitIInv == Init => IInv
<1> SUFFICES ASSUME Init PROVE IInv
    OBVIOUS
<1>1. ETypeOK
    BY DEF Init, ETypeOK
<1>2. VmmSuffix
    BY DEF Init, VmmSuffix
<1>3. VisitedIncl = {}
    BY DEF Init, VisitedIncl, Taken
<1>4. RecordsSoFar
    BY <1>3 DEF Init, RecordsSoFar, IsInjective, Range
<1>5. QED
    BY <1>1, <1>2, <1>4 DEF IInv

\* At the end of a run every block has been visited in full.
LEMMA DoneRecordsComplete == IInv => RecordsComplete
<1> SUFFICES ASSUME IInv, status = "done"
             PROVE  /\ IsInjective(msgModels) /\ Range(msgModels) = TipSetMsgs
                    /\ IsInjective(bmsgModels) /\ Range(bmsgModels) = Inclusions
    BY DEF RecordsComplete
<1>1. todo = {} /\ vmm = <<>>
    BY DEF IInv, VmmSuffix
<1>2. \A b \in Blocks : blkMsgs[b] \in Seq(Msgs) /\ Visited(b) = Len(blkMsgs[b])
    BY <1>1, MsgListFacts DEF IInv, ETypeOK, Visited
<1>3. VisitedIncl = Inclusions
    BY <1>1, <1>2 DEF VisitedIncl, Taken, Inclusions, Range
<1>4. QED
    BY <1>3 DEF IInv, RecordsSoFar, TipSetMsgs

-----------------------------------------------------------------------------
(* Preservation.                                                           *)

\* Taking the next block visits nothing yet: the previous block was
\* finished (vmm is empty), and none of the new one is visited.
LEMMA NextBlockIInv ==
    ASSUME IInv, NextBlock
    PROVE  IInv'
<1>1. vmm = <<>> /\ status = "running"
    BY DEF NextBlock
<1>2. \A b \in Blocks : blkMsgs[b] \in Seq(Msgs)
    BY MsgListFacts DEF IInv, ETypeOK
<1>3. CASE \E b \in todo : blk' = b /\ vmm' = blkMsgs[b] /\ todo' = todo \ {b}
                          /\ UNCHANGED status
    <2>1. PICK b \in todo : blk' = b /\ vmm' = blkMsgs[b] /\ todo' = todo \ {b}
                           /\ UNCHANGED status
        BY <1>3
    <2>2. UNCHANGED <<blkMsgs, msgsSeen, msgModels, bmsgModels>>
        BY DEF NextBlock
    <2>3. b \in Blocks /\ Taken' = Taken \cup {b} /\ b \notin Taken
        BY <2>1 DEF IInv, ETypeOK, Taken
    <2>4. \A c \in Taken' : Visited(c)' = IF c = b THEN 0 ELSE Visited(c)
        BY <1>1, <1>2, <2>1, <2>2, <2>3 DEF Visited, IInv, ETypeOK, Taken
    <2>5. VisitedIncl' = VisitedIncl
        BY <2>2, <2>3, <2>4 DEF VisitedIncl
    <2>6. ETypeOK'
        BY <1>2, <2>1, <2>2, <2>3 DEF IInv, ETypeOK, NextBlock
    <2>7. VmmSuffix'
        BY <1>1, <1>2, <2>1, <2>2, <2>3 DEF VmmSuffix
    <2>8. RecordsSoFar'
        BY <2>2, <2>5 DEF IInv, RecordsSoFar
    <2>9. QED
        BY <2>6, <2>7, <2>8 DEF IInv
<1>4. CASE status' = "error" /\ UNCHANGED <<blk, vmm, todo>>
    <2>1. UNCHANGED <<blkMsgs, msgsSeen, msgModels, bmsgModels>>
        BY DEF NextBlock
    <2>2. VisitedIncl' = VisitedIncl
        BY <1>4, <2>1 DEF VisitedIncl, Visited, Taken
    <2>3. QED
        BY <1>4, <2>1, <2>2 DEF IInv, ETypeOK, VmmSuffix, RecordsSoFar
<1>5. QED
    BY <1>3, <1>4 DEF NextBlock


\* Visiting the head m of vmm visits one more inclusion, <<blk, m>>, which
\* was not visited before because the block's list holds m once.
LEMMA VisitMessageIInv ==
    ASSUME IInv, VisitMessage
    PROVE  IInv'
<1> DEFINE L == blkMsgs[blk]
           m == Head(vmm)
           k == Len(L) - Len(vmm)
<1>1. /\ status = "running" /\ vmm # <<>> /\ vmm \in Seq(Msgs)
      /\ blk \in Blocks /\ blk \notin todo /\ blk \in Taken
      /\ L \in Seq(Msgs) /\ IsInjective(L)
      /\ UNCHANGED <<blkMsgs, todo, blk>>
    BY MsgListFacts DEF VisitMessage, IInv, ETypeOK, VmmSuffix, Taken, L
<1>2. /\ k \in 0..(Len(L) - 1)
      /\ m = L[k + 1] /\ m \in Msgs
      /\ Visited(blk) = k
    BY <1>1, TailFacts DEF IInv, VmmSuffix, Visited, L, m, k
<1>3. <<blk, m>> \notin VisitedIncl
    <2> SUFFICES ASSUME NEW i \in 1..k, L[i] = m PROVE FALSE
        BY <1>2 DEF VisitedIncl, L
    <2>1. i = k + 1
        BY <1>1, <1>2 DEF IsInjective
    <2>2. QED
        BY <1>2, <2>1
<1>4. CASE /\ bmsgModels' = Append(bmsgModels, <<blk, m>>)
           /\ totalUniqGasLimit' = totalUniqGasLimit + gasLimit[m]
           /\ IF m \in msgsSeen
              THEN UNCHANGED <<totalGasLimit, msgModels, msgsSeen>>
              ELSE /\ totalGasLimit' = totalGasLimit + gasLimit[m]
                   /\ msgModels' = Append(msgModels, m)
                   /\ msgsSeen' = msgsSeen \cup {m}
           /\ vmm' = Tail(vmm)
           /\ UNCHANGED status
    <2>1. Tail(vmm) \in Seq(Msgs) /\ Len(Tail(vmm)) = Len(vmm) - 1
          /\ \A i \in 1..Len(Tail(vmm)) : Tail(vmm)[i] = vmm[i + 1]
        BY <1>1, TailFacts
    <2>2. Taken' = Taken /\ Visited(blk)' = k + 1
          /\ \A c \in Taken \ {blk} : Visited(c)' = Visited(c)
        BY <1>1, <1>4, <2>1 DEF Taken, Visited, L, k
    <2>3. VisitedIncl' = VisitedIncl \cup {<<blk, m>>}
        BY <1>1, <1>2, <2>2 DEF VisitedIncl, L
    <2>4. /\ bmsgModels' \in Seq(Blocks \X Msgs)
          /\ Range(bmsgModels') = Range(bmsgModels) \cup {<<blk, m>>}
          /\ IsInjective(bmsgModels')
        <3>1. <<blk, m>> \in Blocks \X Msgs
            BY <1>1, <1>2
        <3>2. <<blk, m>> \notin Range(bmsgModels) /\ IsInjective(bmsgModels)
              /\ bmsgModels \in Seq(Blocks \X Msgs)
            BY <1>3 DEF IInv, RecordsSoFar, ETypeOK
        <3>3. /\ Append(bmsgModels, <<blk, m>>) \in Seq(Blocks \X Msgs)
              /\ Range(Append(bmsgModels, <<blk, m>>)) = Range(bmsgModels) \cup {<<blk, m>>}
              /\ IsInjective(Append(bmsgModels, <<blk, m>>))
            BY <3>1, <3>2, AppendRange
        <3>4. QED
            BY <1>4, <3>3
    <2>seen. { p[2] : p \in VisitedIncl' } = msgsSeen \cup {m}
        <3>1. { p[2] : p \in VisitedIncl \cup {<<blk, m>>} }
                = { p[2] : p \in VisitedIncl } \cup {m}
            BY SecondsAddOne
        <3>2. msgsSeen = { p[2] : p \in VisitedIncl }
            BY DEF IInv, RecordsSoFar
        <3>3. QED
            BY <2>3, <3>1, <3>2, Zenon
    <2>5. msgsSeen' = { p[2] : p \in VisitedIncl' }
          /\ msgModels' \in Seq(Msgs) /\ msgsSeen' \subseteq Msgs
          /\ IsInjective(msgModels') /\ Range(msgModels') = msgsSeen'
        <3>1. CASE m \in msgsSeen
            BY <1>4, <3>1, <2>seen DEF IInv, ETypeOK, RecordsSoFar
        <3>2. CASE m \notin msgsSeen
            <4>1. msgModels' = Append(msgModels, m) /\ msgsSeen' = msgsSeen \cup {m}
                BY <1>4, <3>2
            <4>2. m \notin Range(msgModels) /\ IsInjective(msgModels) /\ msgModels \in Seq(Msgs)
                BY <3>2 DEF IInv, RecordsSoFar, ETypeOK
            <4>3. /\ Append(msgModels, m) \in Seq(Msgs)
                  /\ Range(Append(msgModels, m)) = Range(msgModels) \cup {m}
                  /\ IsInjective(Append(msgModels, m))
                BY <1>2, <4>2, AppendRange
            <4>4. msgsSeen' = { p[2] : p \in VisitedIncl' }
                BY <2>seen, <4>1
            <4>5. QED
                BY <1>2, <4>1, <4>3, <4>4 DEF IInv, RecordsSoFar, ETypeOK
        <3>3. QED
            BY <3>1, <3>2
    <2>6. ETypeOK'
        BY <1>1, <1>4, <2>1, <2>4, <2>5 DEF IInv, ETypeOK
    <2>7. VmmSuffix'
        <3>1. Len(Tail(vmm)) <= Len(L)
            BY <1>1, <2>1 DEF IInv, VmmSuffix, L
        <3>2. \A i \in 1..Len(Tail(vmm)) : Tail(vmm)[i] = L[Len(L) - Len(Tail(vmm)) + i]
            BY <1>1, <2>1 DEF IInv, VmmSuffix, L
        <3>3. QED
            BY <1>1, <1>4, <3>1, <3>2 DEF VmmSuffix, L
    <2>8. RecordsSoFar'
        BY <2>3, <2>4, <2>5 DEF IInv, RecordsSoFar
    <2>9. QED
        BY <2>6, <2>7, <2>8 DEF IInv
<1>5. CASE /\ m \notin msgsSeen
           /\ status' = "error"
           /\ UNCHANGED <<vmm, bmsgModels, totalUniqGasLimit, totalGasLimit,
                          msgModels, msgsSeen>>
    <2>1. VisitedIncl' = VisitedIncl
        BY <1>1, <1>5 DEF VisitedIncl, Visited, Taken
    <2>2. QED
        BY <1>1, <1>5, <2>1 DEF IInv, ETypeOK, VmmSuffix, RecordsSoFar
<1>6. QED
    BY <1>4, <1>5 DEF VisitMessage, m


\* Finish only marks the run done, after the loop has taken every block
\* and emptied vmm.
LEMMA FinishIInv ==
    ASSUME IInv, Finish
    PROVE  IInv'
<1>1. /\ status' = "done" /\ vmm = <<>> /\ todo = {}
      /\ UNCHANGED <<blkMsgs, todo, blk, vmm, msgsSeen, msgModels, bmsgModels>>
    BY DEF Finish
<1>2. VisitedIncl' = VisitedIncl
    BY <1>1 DEF VisitedIncl, Visited, Taken
<1>3. QED
    BY <1>1, <1>2 DEF IInv, ETypeOK, VmmSuffix, RecordsSoFar

LEMMA NextIInv ==
    ASSUME IInv, [Next]_vars
    PROVE  IInv'
<1>1. CASE NextBlock
    BY <1>1, NextBlockIInv
<1>2. CASE VisitMessage
    BY <1>2, VisitMessageIInv
<1>3. CASE Finish
    BY <1>3, FinishIInv
<1>4. CASE UNCHANGED vars
    <2>1. VisitedIncl' = VisitedIncl
        BY <1>4 DEF vars, VisitedIncl, Visited, Taken
    <2>2. QED
        BY <1>4, <2>1 DEF vars, IInv, ETypeOK, VmmSuffix, RecordsSoFar
<1>5. QED
    BY <1>1, <1>2, <1>3, <1>4 DEF Next

-----------------------------------------------------------------------------
(* The theorem.                                                            *)

\* Whatever order Go's map iteration gives the blocks, and wherever the
\* deadline or a serialization error cuts the loop, an extraction that
\* completes (extractMessageModels in find.go) has recorded every message
\* of the tipset exactly once and every (block, message) inclusion exactly
\* once: the msgsSeen check deduplicates across blocks, and the blocks'
\* own lists hold each message once.
THEOREM RecordsCompleteHolds == Spec => []RecordsComplete
<1>1. Init => IInv
    BY InitIInv
<1>2. IInv /\ [Next]_vars => IInv'
    BY NextIInv
<1>3. IInv => RecordsComplete
    BY DoneRecordsComplete
<1>4. QED
    BY <1>1, <1>2, <1>3, PTL DEF Spec

=============================================================================
