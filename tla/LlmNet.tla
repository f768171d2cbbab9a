------------------------------- MODULE LlmNet -------------------------------
(***************************************************************************)
(* The configuration of the network: buildLlmNet with the builders of      *)
(* nn-config-builder.hpp (src/src/llm.cpp:132-447), the order in which     *)
(* loadLlmNetWeight hands out the weights (456-492), and the steps that the *)
(* constructor of NnExecutor makes of a configuration.                     *)
(*                                                                         *)
(* Configurations are the records of nn-core.hpp.  Of the configuration of *)
(* an operation only the fields that are indices or slices are kept.       *)
(***************************************************************************)
EXTENDS Slicing, Sequences, SequencesExt, FiniteSetsExt

-----------------------------------------------------------------------------
(* Pipes and the configuration that all nodes share                         *)

Pipes(m) ==
  << [name |-> "POS", size |-> size2D("F_32", m.nBatches, 1)],
     [name |-> "TOK", size |-> size2D("F_32", m.nBatches, 1)],
     [name |-> "X",   size |-> size2D("F_32", m.nBatches, m.dim)],
     [name |-> "LG",  size |-> size2D("F_32", m.nBatches, m.vocabSize)],
     [name |-> "ZQ",  size |-> size2D(m.syncType, m.nBatches, m.dim * m.nNodes)] >>

PipeIndex(m, name) == (CHOOSE i \in DOMAIN Pipes(m) : Pipes(m)[i].name = name) - 1

NetConfig(m) ==
  [nBatches |-> m.nBatches, nNodes |-> m.nNodes, nSlots |-> m.slots,
   nPipes |-> Len(Pipes(m)), pipes |-> Pipes(m),
   nPreSyncs |-> 1, preSyncs |-> << [pipeIndex |-> PipeIndex(m, "POS")] >>]

-----------------------------------------------------------------------------
(* Buffers                                                                  *)

Quantized(m, item) == IF m.syncType = "F_32" THEN <<>> ELSE <<item>>

Slice(m) ==
  [q |-> sliceRowMatmul(m, m.dim, m.dim),  k |-> sliceRowMatmul(m, m.dim, KvDim(m)),
   v |-> sliceRowMatmul(m, m.dim, KvDim(m)), wo |-> sliceColMatmul(m, m.dim, m.dim),
   w1 |-> sliceRowMatmul(m, m.dim, m.hiddenDim), w2 |-> sliceColMatmul(m, m.hiddenDim, m.dim),
   w3 |-> sliceRowMatmul(m, m.dim, m.hiddenDim), wcls |-> sliceRowMatmul(m, m.dim, m.vocabSize)]

Buffer(m, name, type, x) == [name |-> name, size |-> size2D(type, m.nBatches, x)]

(* The buffers that the layers share.  The quantized d is a second "d" in    *)
(* the code and "dq" here.                                                  *)
BufferNames(m) ==
  <<"x", "y">> \o Quantized(m, "yq") \o <<"yq_slice", "q", "k_temp", "v_temp", "d">>
  \o Quantized(m, "dq") \o <<"l", "inv_rms", "rope_cache", "att", "lg">>

SharedBuffer(m, node, name) ==
  CASE name \in {"x", "y"} -> Buffer(m, name, "F_32", m.dim)
    [] name = "yq"         -> Buffer(m, name, m.syncType, m.dim)
    [] name = "yq_slice"   -> Buffer(m, name, m.syncType, m.dim \div m.nNodes)
    [] name = "q"          -> Buffer(m, name, "F_32", Slice(m).q.d0)
    [] name = "k_temp"     -> Buffer(m, name, "F_32", Slice(m).k.d0)
    [] name = "v_temp"     -> Buffer(m, name, "F_32", Slice(m).v.d0)
    [] name = "d"          -> Buffer(m, name, "F_32", Slice(m).w1.d0)
    [] name = "dq"         -> Buffer(m, name, m.syncType, Slice(m).w1.d0)
    [] name = "l"          -> Buffer(m, name, "F_32", Slice(m).w3.d0)
    [] name = "inv_rms"    -> Buffer(m, name, "F_32", 1)
    [] name = "rope_cache" ->
         [name |-> name, size |-> size2D("F_32", m.seqLen, sliceRope(m, node).sliceDim)]
    [] name = "att"        -> Buffer(m, name, "F_32", Heads0(m) * m.seqLen)
    [] name = "lg"         -> Buffer(m, name, "F_32", m.vocabSize \div m.nNodes)

SharedBuffers(m, node) ==
  [i \in DOMAIN BufferNames(m) |-> SharedBuffer(m, node, BufferNames(m)[i])]

LayerBuffers(m) ==
  << [name |-> "k", size |-> size2D("F_32", m.seqLen, KvDim0(m))],
     [name |-> "v", size |-> size2D("F_32", m.seqLen, KvDim0(m))] >>

Buffers(m, node) ==
  SharedBuffers(m, node) \o FlattenSeq([l \in 1 .. m.nLayers |-> LayerBuffers(m)])

BufferIndex(m, name) ==
  LET alias == CASE name = "yq" /\ m.syncType = "F_32" -> "y"
                 [] name = "dq" /\ m.syncType = "F_32" -> "d"
                 [] OTHER -> name
  IN  (CHOOSE i \in DOMAIN BufferNames(m) : BufferNames(m)[i] = alias) - 1

KBuffer(m, l) == Len(BufferNames(m)) + 2 * l

VBuffer(m, l) == KBuffer(m, l) + 1

-----------------------------------------------------------------------------
(* Operations                                                               *)

InBuffer(m, name) ==
  [source |-> "SRC_BUFFER", index |-> BufferIndex(m, name), type |-> "PNTR_BATCH"]

InPipe(m, name) ==
  [source |-> "SRC_PIPE", index |-> PipeIndex(m, name), type |-> "PNTR_BATCH"]

Part(pointer) == [pointer EXCEPT !.type = "PNTR_BATCHED_SLICE"]

Raw(buffer) == [source |-> "SRC_BUFFER", index |-> buffer, type |-> "PNTR_RAW"]

(* addOp; an empty configuration still takes one byte                       *)
Op(code, name, index, input, output, weightSize, config) ==
  [code |-> code, name |-> name, index |-> index, input |-> input, output |-> output,
   weightSize |-> weightSize, config |-> config, configSize |-> Max({1, Len(config)})]

Cast(name, l, input, output) == Op("OP_CAST", name, l, input, output, size0, <<>>)

MergeAdd(m, name, l) ==
  Op("OP_MERGE_ADD", name, l, InPipe(m, "ZQ"), InBuffer(m, "x"), size0, <<>>)

Norm(m, invRms, rmsNorm, l) ==
  << Op("OP_INV_RMS", invRms, l, InBuffer(m, "x"), InBuffer(m, "inv_rms"), size0, <<>>),
     Op("OP_RMS_NORM", rmsNorm, l, InBuffer(m, "x"), InBuffer(m, "y"),
        size2D("F_32", 1, m.dim), <<BufferIndex(m, "inv_rms")>>) >>

Matmul(m, name, l, slice, input, output) ==
  Op("OP_MATMUL", name, l, InBuffer(m, input), InBuffer(m, output), slice.sliceSize, <<>>)

Rope(m, node, name, l, buffer, isQ) ==
  Op("OP_ROPE_LLAMA", name, l, InBuffer(m, buffer), InBuffer(m, buffer), size0,
     <<isQ, PipeIndex(m, "POS"), BufferIndex(m, "rope_cache"), sliceRope(m, node)>>)

Shift(m, name, l, input, buffer) ==
  Op("OP_SHIFT", name, l, InBuffer(m, input), Raw(buffer), size0, <<PipeIndex(m, "POS")>>)

MultiHeadAtt(m, l) ==
  Op("OP_MULTIHEAD_ATT", "block_multihead_att", l, Part(InBuffer(m, "y")), Part(InBuffer(m, "y")),
     size0, <<Heads0(m), KvDim0(m), PipeIndex(m, "POS"), BufferIndex(m, "q"),
              KBuffer(m, l), VBuffer(m, l), BufferIndex(m, "att")>>)

AttOps(m, node, l) ==
  << IF l = 0 THEN Cast("block_cast_x", l, InPipe(m, "X"), InBuffer(m, "x"))
              ELSE MergeAdd(m, "block_merge_add", l) >>
  \o Norm(m, "block_inv_rms_0", "block_rms_norm_0", l)
  \o Quantized(m, Cast("block_cast_y", l, InBuffer(m, "y"), InBuffer(m, "yq")))
  \o << Matmul(m, "block_matmul_q", l, Slice(m).q, "yq", "q"),
        Matmul(m, "block_matmul_k", l, Slice(m).k, "yq", "k_temp"),
        Matmul(m, "block_matmul_v", l, Slice(m).v, "yq", "v_temp"),
        Rope(m, node, "block_rope_q", l, "q", TRUE),
        Rope(m, node, "block_rope_k", l, "k_temp", FALSE),
        Shift(m, "block_shift_k", l, "k_temp", KBuffer(m, l)),
        Shift(m, "block_shift_v", l, "v_temp", VBuffer(m, l)),
        MultiHeadAtt(m, l),
        Cast("block_cast_y2", l, Part(InBuffer(m, "y")), InBuffer(m, "yq_slice")),
        Matmul(m, "block_matmul_wo", l, Slice(m).wo, "yq_slice", "y"),
        Cast("block_cast_d", l, InBuffer(m, "y"), Part(InPipe(m, "ZQ"))) >>

FfOps(m, l) ==
  << MergeAdd(m, "block_merge_add2", l) >>
  \o Norm(m, "block_inv_rms_1", "block_rms_norm_1", l)
  \o Quantized(m, Cast("block_cast_y3", l, InBuffer(m, "y"), InBuffer(m, "yq")))
  \o << Matmul(m, "block_matmul_w1", l, Slice(m).w1, "yq", "d"),
        Matmul(m, "block_matmul_w3", l, Slice(m).w3, "yq", "l"),
        Op("OP_SILU", "block_act", l, InBuffer(m, "d"), InBuffer(m, "d"), size0, <<>>),
        Op("OP_MUL", "block_mul", l, InBuffer(m, "d"), InBuffer(m, "d"), size0,
           <<BufferIndex(m, "l")>>) >>
  \o Quantized(m, Cast("block_cast_d2", l, InBuffer(m, "d"), InBuffer(m, "dq")))
  \o << Matmul(m, "block_matmul_w2", l, Slice(m).w2, "dq", "y"),
        Cast("block_cast_d3", l, InBuffer(m, "y"), Part(InPipe(m, "ZQ"))) >>

EndOps(m) ==
  << MergeAdd(m, "final_merge_add", 0) >>
  \o Norm(m, "final_inv_rms", "final_rms_norm", 0)
  \o Quantized(m, Cast("final_cast_y", 0, InBuffer(m, "y"), InBuffer(m, "yq")))
  \o << Matmul(m, "final_matmul_logits", 0, Slice(m).wcls, "yq", "lg"),
        Cast("final_cast_logits", 0, InBuffer(m, "lg"), Part(InPipe(m, "LG"))) >>

StartOps(m, node) ==
  IF node = 0
  THEN << Op("OP_EMBEDDING", "embedding", 0, InPipe(m, "TOK"), InPipe(m, "X"),
             size2D("F_32", m.vocabSize, m.dim), <<>>) >>
  ELSE <<>>

-----------------------------------------------------------------------------
(* Segments and nodes                                                       *)

Segment(ops, syncs, cacheSyncs) ==
  [nOps |-> Len(ops), ops |-> ops, nSyncs |-> Len(syncs), syncs |-> syncs,
   nCacheSyncs |-> Len(cacheSyncs), cacheSyncs |-> cacheSyncs]

Sync(m, pipe, type) == << [pipeIndex |-> PipeIndex(m, pipe), syncType |-> type] >>

KvSyncs(m, l) ==
  [i \in 1 .. 4 |->
     [bufferIndex   |-> IF i % 2 = 1 THEN KBuffer(m, l) ELSE VBuffer(m, l),
      cacheSyncType |-> IF i <= 2 THEN "CACHE_SYNC_LOAD" ELSE "CACHE_SYNC_SAVE_KV"]]

(* mutant of Start: a node without operations is taken not to wait          *)
StartOfRoot(m, node) ==
  Segment(StartOps(m, node), IF node = 0 THEN Sync(m, "X", "SYNC_WITH_ROOT") ELSE <<>>, <<>>)

Start(m, node) == Segment(StartOps(m, node), Sync(m, "X", "SYNC_WITH_ROOT"), <<>>)

Layer(m, node, l) ==
  << Segment(AttOps(m, node, l), Sync(m, "ZQ", "SYNC_NODE_SLICES"), KvSyncs(m, l)),
     Segment(FfOps(m, l), Sync(m, "ZQ", "SYNC_NODE_SLICES"), <<>>) >>

Segments(m, node) ==
  << Start(m, node) >>
  \o FlattenSeq([l \in 1 .. m.nLayers |-> Layer(m, node, l - 1)])
  \o << Segment(EndOps(m), Sync(m, "LG", "SYNC_NODE_SLICES_EXCEPT_ROOT"), <<>>) >>

NodeConfig(m, node) ==
  [nodeIndex |-> node, nBuffers |-> Len(Buffers(m, node)), buffers |-> Buffers(m, node),
   nSegments |-> Len(Segments(m, node)), segments |-> Segments(m, node)]

(* The steps of the executor (nn-executor.cpp:58-90)                        *)
StepsOf(m, segment) ==
  LET cacheSteps(type) == IF segment.nCacheSyncs > 0 THEN << [type |-> type] >> ELSE <<>>
  IN  cacheSteps("STEP_SYNC_CACHE_LOAD")
      \o [o \in 1 .. segment.nOps |-> [type |-> "STEP_EXECUTE_OP", op |-> segment.ops[o].name]]
      \o cacheSteps("STEP_SYNC_CACHE_SAVE")
      \o IF m.nNodes > 1 /\ segment.nSyncs > 0
         THEN << [type |-> "STEP_SYNC_NODES", syncs |-> segment.syncs] >> ELSE <<>>

Steps(m, config) ==
  FlattenSeq([s \in 1 .. config.nSegments |-> StepsOf(m, config.segments[s])])

-----------------------------------------------------------------------------
(* The weights, in the order of the file                                    *)

Whole(how, size) == [how |-> how, size |-> size, sliceSize |-> size]

Weight(name, index, slice) == [name |-> name, index |-> index, slice |-> slice]

LayerWeights(m, l) ==
  << Weight("block_matmul_q", l, Slice(m).q), Weight("block_matmul_k", l, Slice(m).k),
     Weight("block_matmul_v", l, Slice(m).v), Weight("block_matmul_wo", l, Slice(m).wo),
     Weight("block_matmul_w1", l, Slice(m).w1), Weight("block_matmul_w2", l, Slice(m).w2),
     Weight("block_matmul_w3", l, Slice(m).w3),
     Weight("block_rms_norm_0", l, Whole("all", size2D("F_32", 1, m.dim))),
     Weight("block_rms_norm_1", l, Whole("all", size2D("F_32", 1, m.dim))) >>

Weights(m) ==
  << Weight("embedding", 0, Whole("root", size2D("F_32", m.vocabSize, m.dim))) >>
  \o FlattenSeq([l \in 1 .. m.nLayers |-> LayerWeights(m, l - 1)])
  \o << Weight("final_rms_norm", 0, Whole("all", size2D("F_32", 1, m.dim))),
        Weight("final_matmul_logits", 0, Slice(m).wcls) >>

=============================================================================
