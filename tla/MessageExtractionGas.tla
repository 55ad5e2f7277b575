------------------------- MODULE MessageExtractionGas -------------------------
(***************************************************************************)
(* The gas sums of the message extraction: the gas limit of every         *)
(* inclusion of a tipset and of its distinct messages, as sums over sets,  *)
(* and the gas economy row that extractMessageModels computes from its     *)
(* two running totals, against the one the design describes.               *)
(***************************************************************************)
EXTENDS MessageExtraction

LOCAL FSE == INSTANCE FiniteSetsExt

InclusionGas == FSE!MapThenSumSet(LAMBDA p : gasLimit[p[2]], Inclusions)
UniqueGas == FSE!MapThenSumSet(LAMBDA m : gasLimit[m], TipSetMsgs)

\* The gas economy row of a completed extraction is the one the design
\* describes (section 4.2: "next base fee via the protocol's fixed-point
\* update rule", fill, capacity and waste): the next base fee is the one
\* the protocol computes, whose ComputeBaseFee counts each distinct message
\* of the tipset once; GasLimitUniqueTotal is the gas limit of the
\* distinct messages, GasLimitTotal that of every inclusion, so the waste
\* of duplicated inclusions is never negative.
GasEconomyAsDesigned ==
    status = "done" =>
        /\ econ.baseFee = ComputeNextBaseFee(parentBaseFee, UniqueGas, Cardinality(Blocks))
        /\ econ.gasLimitUniqueTotal = UniqueGas
        /\ econ.gasLimitTotal = InclusionGas
        /\ econ.waste >= 0

=============================================================================
