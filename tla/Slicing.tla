------------------------------ MODULE Slicing -------------------------------
(***************************************************************************)
(* How matrices, heads and rotary embeddings are divided among the nodes:  *)
(* the slicers and splitters of src/src/nn/nn-core.cpp:198-303 and what    *)
(* the CPU operations make of the slices.                                  *)
(*                                                                         *)
(* m is a model and how it is run: the fields of LlmHeader, the number of  *)
(* nodes and the largest batch.  A byte count is a number of cells, a cell *)
(* being a float or a block of BlockSize quantized numbers.                *)
(***************************************************************************)
EXTENDS Integers

CONSTANT BlockSize       \* Q40_BLOCK_SIZE and Q80_BLOCK_SIZE

ASSUME BlockAssumption == BlockSize \in Nat \ {0}

getBlockSize(type) == IF type = "F_32" THEN 1 ELSE BlockSize

getBytes(type, n) == n \div getBlockSize(type)

size2D(type, y, x) == [floatType |-> type, y |-> y, x |-> x]

size0 == size2D("F_UNK", 0, 0)

Cells(size) == getBytes(size.floatType, size.y * size.x)

Nodes(m) == 0 .. (m.nNodes - 1)

HeadSize(m) == m.dim \div m.nHeads

KvDim(m) == (m.dim * m.nKvHeads) \div m.nHeads

-----------------------------------------------------------------------------
(* Matrices                                                                 *)

sliceRowMatmul(m, n, d) ==
  LET d0 == d \div m.nNodes
  IN  [how |-> "row", n |-> n, d0 |-> d0,
       size |-> size2D(m.weightType, n, d), sliceSize |-> size2D(m.weightType, n, d0)]

sliceColMatmul(m, n, d) ==
  LET n0 == n \div m.nNodes
  IN  [how |-> "col", n |-> n, n0 |-> n0, d |-> d,
       size |-> size2D(m.weightType, n, d), sliceSize |-> size2D(m.weightType, n0, d)]

(* Cell o of the slice of a node is this cell of the matrix; n and n0 are   *)
(* cells per row of the matrix and of the slice.                            *)
RowFrom(n, d0, node, o) == d0 * node * n + o

(* mutant of ColFrom: the rows of the slice are taken to be whole rows      *)
ColFromWholeRows(n, n0, node, o) == n0 * (o \div n0) + (node * n0 + (o % n0))

ColFrom(n, n0, node, o) == n * (o \div n0) + (node * n0 + (o % n0))

(* splitRowMatmulWeight and splitColMatmulWeight                            *)
Split(slice, node) ==
  LET block == getBlockSize(slice.size.floatType)
      last  == Cells(slice.sliceSize) - 1
  IN  IF slice.how = "row"
      THEN [o \in 0 .. last |-> RowFrom(slice.n \div block, slice.d0, node, o)]
      ELSE [o \in 0 .. last |-> ColFrom(slice.n \div block, slice.n0 \div block, node, o)]

-----------------------------------------------------------------------------
(* Attention                                                                *)

QDim0(m) == m.dim \div m.nNodes

KvDim0(m) == KvDim(m) \div m.nNodes

Heads0(m) == m.nHeads \div m.nNodes

(* where the keys of local head h0 start in a row of the node's KV cache    *)
KeysAt(m, h0) == (h0 \div (m.nHeads \div m.nKvHeads)) * HeadSize(m)

QShift(m, node) == QDim0(m) * node - KvDim0(m) * node

sliceRope(m, node) ==
  [qDim0 |-> QDim0(m), kvDim0 |-> KvDim0(m),
   qDimStart |-> QDim0(m) * node, kvDimStart |-> KvDim0(m) * node,
   qShift |-> QShift(m, node),
   sliceDim |-> QDim0(m) * node + QDim0(m) - KvDim0(m) * node]

(* Entry i of a row of the rope cache of a node is the angle of this        *)
(* dimension of a head.                                                     *)
Angle(m, node, i) == (sliceRope(m, node).kvDimStart + i) % HeadSize(m)

(* The sizes of a model that makes sense: none is zero, and heads have at   *)
(* least one dimension.  loadLlmHeader divides by the number of heads and   *)
(* checks nothing.                                                          *)
IsModel(m) ==
  /\ \A x \in {m.dim, m.hiddenDim, m.vocabSize, m.nHeads, m.nKvHeads, m.nLayers, m.seqLen,
               m.slots, m.nNodes, m.nBatches} : x \in Nat \ {0}
  /\ m.nHeads <= m.dim

(***************************************************************************)
(* What the assertions of the slicers and the checks of runInferenceApp    *)
(* let through                                                             *)
(***************************************************************************)

(* runInferenceApp                                                          *)
Supported(m) ==
  /\ m.nNodes <= m.nKvHeads
  /\ m.weightType = "F_Q40" => m.syncType = "F_Q80"

(* the assertions of sliceKvCache ... sliceMultiHeadAtt and of the splitters *)
Divides(m) ==
  /\ m.dim >= KvDim(m)
  /\ \A d \in {m.dim, KvDim(m), m.nHeads, m.hiddenDim, m.vocabSize} : d % m.nNodes = 0
  /\ QDim0(m) % 2 = 0 /\ KvDim0(m) % 2 = 0
  /\ \A n \in {m.dim, m.dim \div m.nNodes, m.hiddenDim \div m.nNodes} :
       n % getBlockSize(m.weightType) = 0

Accepted(m) == Supported(m) /\ Divides(m)

(***************************************************************************)
(* What a correct division is                                              *)
(***************************************************************************)

(* Each head of a node finds the keys of its own KV head, all of them, in   *)
(* the node's KV cache.                                                     *)
HeadsFindKeys(m) ==
  \A node \in Nodes(m) : \A h0 \in 0 .. (Heads0(m) - 1) :
    /\ KvDim0(m) * node + KeysAt(m, h0)
         = ((Heads0(m) * node + h0) \div (m.nHeads \div m.nKvHeads)) * HeadSize(m)
    /\ KeysAt(m, h0) + HeadSize(m) <= KvDim0(m)

(* Every dimension of a node's queries and keys is rotated by its angle,    *)
(* which is in the node's rope cache.                                       *)
RopeCovers(m) ==
  \A node \in Nodes(m) :
    LET rope == sliceRope(m, node)
    IN  /\ \A i \in 0 .. (rope.qDim0 - 1) :
             /\ rope.qShift + i \in 0 .. (rope.sliceDim - 1)
             /\ Angle(m, node, rope.qShift + i) = (rope.qDimStart + i) % HeadSize(m)
        /\ \A i \in 0 .. (rope.kvDim0 - 1) :
             /\ i \in 0 .. (rope.sliceDim - 1)
             /\ Angle(m, node, i) = (rope.kvDimStart + i) % HeadSize(m)

(* every cell of the matrix is in one slice, once                           *)
Partitioned(m, slice) ==
  LET part   == [node \in Nodes(m) |-> Split(slice, node)]
      places == Nodes(m) \X (0 .. (Cells(slice.sliceSize) - 1))
  IN  /\ {part[p[1]][p[2]] : p \in places} = 0 .. (Cells(slice.size) - 1)
      /\ \A p, q \in places : part[p[1]][p[2]] = part[q[1]][q[2]] => p = q

=============================================================================
