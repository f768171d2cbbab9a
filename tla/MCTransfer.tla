----------------------------- MODULE MCTransfer -----------------------------
(* Two nodes with two layers, quantized weights and grouped heads; three    *)
(* nodes, so that the root serves two workers at a time; a root alone.      *)
EXTENDS Transfer

Two ==
  [dim |-> 16, hiddenDim |-> 4, vocabSize |-> 4, nHeads |-> 4, nKvHeads |-> 2, nLayers |-> 2,
   seqLen |-> 2, slots |-> 2, weightType |-> "F_Q40", syncType |-> "F_Q80",
   nNodes |-> 2, nBatches |-> 2]

Three ==
  [dim |-> 6, hiddenDim |-> 3, vocabSize |-> 3, nHeads |-> 3, nKvHeads |-> 3, nLayers |-> 1,
   seqLen |-> 2, slots |-> 1, weightType |-> "F_32", syncType |-> "F_32",
   nNodes |-> 3, nBatches |-> 2]

Alone == [Two EXCEPT !.nNodes = 1]

MCModels == {Two, Three, Alone}

MCStrlen(str) == Len(str)

=============================================================================
