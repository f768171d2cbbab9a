------------------------------ MODULE Transfer ------------------------------
(***************************************************************************)
(* How the root hands configuration and weights to the workers before the  *)
(* first forward pass: NnRootConfigWriter, NnWorkerConfigReader,           *)
(* NnRootWeightLoader and NnWorkerWeightReader                             *)
(* (src/src/nn/nn-network.cpp:593-909), called by runInferenceApp and      *)
(* runWorkerApp (src/src/app.cpp:280-302, 326-351).                        *)
(*                                                                         *)
(* Nothing on a connection says what it is: the reader has to ask for the  *)
(* fields in the order and of the sizes in which they were written, and it *)
(* learns from some fields how many others follow.  A field is modelled by *)
(* its size and its value, and the weight data by which cells of which     *)
(* weight they are.                                                        *)
(***************************************************************************)
EXTENDS LlmNet

CONSTANTS
  Models,     \* models and numbers of nodes, as in Slicing
  strlen(_),  \* of the names of operations, pipes and buffers
  Capacity,   \* fields that the buffers of one connection hold
  MaxKilled   \* processes that may be killed

MaxNodes == Max({m.nNodes : m \in Models})

(* Numbers of nodes are 32-bit numbers, so that one of them is the largest. *)
ASSUME TransferAssumption ==
  /\ \A m \in Models : IsModel(m) /\ Accepted(m)
  /\ MaxNodes \in Nat /\ \A m \in Models : m.nNodes <= MaxNodes
  /\ \A m \in Models : \A k \in DOMAIN Weights(m) : strlen(Weights(m)[k].name) \in Nat
  /\ Capacity \in Nat \ {0}
  /\ MaxKilled \in Nat

VARIABLES
  model,      \* the model that the root loads
  status,     \* status[n]: "running", "ready" for the first pass, or "exited"
  rootPc,     \* how much of its program the root has done
  toWorker,   \* toWorker[w]: written by the root, not read by worker w
  toRoot,     \* and the other way
  want,       \* want[w]: what the worker is going to read
  got,        \* got[w]: the structures it has read, and its locals
  loaded      \* loaded[n]: operation of node n -> the weight it was given

workerVars == <<want, got>>
transferVars == <<model, status, rootPc, toWorker, toRoot, want, got, loaded>>

AllNodes == 0 .. (MaxNodes - 1)

Workers == 1 .. (model.nNodes - 1)

-----------------------------------------------------------------------------
(***************************************************************************)
(* The root: what it writes, reads and loads, in order                     *)
(***************************************************************************)

Field(size, value) == [size |-> size, value |-> value]

UInt(value) == Field(<<"uint">>, value)

Size2D(value) == Field(<<"size2d">>, value)

Pointer(value) == Field(<<"pointer">>, value)

Bytes(n, value) == Field(<<"bytes", n>>, value)

Ack == Field(<<"ack">>, "ACK")

String(str) == << UInt(strlen(str) + 1), Bytes(strlen(str) + 1, str) >>

(* FieldsOf(x) for each x of a list *)
Each(list, FieldsOf(_)) == FlattenSeq([i \in DOMAIN list |-> FieldsOf(list[i])])

BufferFields(b) == << Size2D(b.size) >> \o String(b.name)

SyncFields(s) == << UInt(s.pipeIndex), UInt(s.syncType) >>

CacheSyncFields(c) == << UInt(c.cacheSyncType), UInt(c.bufferIndex) >>

OpFields(op) ==
  << UInt(op.code), UInt(op.index), Size2D(op.weightSize), UInt(op.configSize) >>
  \o String(op.name)
  \o << Pointer(op.input), Pointer(op.output) >>
  \o IF op.configSize > 0 THEN << Bytes(op.configSize, op.config) >> ELSE <<>>

(* mutant of SegmentFields: the counts of operations and syncs swapped      *)
SegmentFieldsSwapped(s) ==
  << UInt(s.nOps), UInt(s.nSyncs), UInt(s.nCacheSyncs) >>
  \o Each(s.syncs, SyncFields) \o Each(s.ops, OpFields) \o Each(s.cacheSyncs, CacheSyncFields)

SegmentFields(s) ==
  << UInt(s.nSyncs), UInt(s.nOps), UInt(s.nCacheSyncs) >>
  \o Each(s.syncs, SyncFields) \o Each(s.ops, OpFields) \o Each(s.cacheSyncs, CacheSyncFields)

writeNet(c) ==
  << Ack, UInt(c.nBatches), UInt(c.nNodes), UInt(c.nPipes), UInt(c.nSlots) >>
  \o Each(c.pipes, BufferFields)
  \o << UInt(c.nPreSyncs) >>
  \o Each(c.preSyncs, LAMBDA p : << UInt(p.pipeIndex) >>)

writeNode(c) ==
  << Ack, UInt(c.nodeIndex), UInt(c.nBuffers), UInt(c.nSegments) >>
  \o Each(c.buffers, BufferFields)
  \o Each(c.segments, SegmentFields)

Write(w, fields) == [i \in DOMAIN fields |-> [do |-> "write", node |-> w, field |-> fields[i]]]

AwaitNothing(w) == <<>>                                   \* mutant of AwaitAck

AwaitAck(w) == << [do |-> "await", node |-> w] >>

(* mutant of writeToWorkers: the configuration is taken by socket, not node *)
writeBySocket(m) ==
  FlattenSeq([w \in 1 .. (m.nNodes - 1) |->
    Write(w, writeNet(NetConfig(m))) \o AwaitAck(w)
    \o Write(w, writeNode(NodeConfig(m, w - 1))) \o AwaitAck(w)])

writeToWorkers(m) ==
  FlattenSeq([w \in 1 .. (m.nNodes - 1) |->
    Write(w, writeNet(NetConfig(m))) \o AwaitAck(w)
    \o Write(w, writeNode(NodeConfig(m, w))) \o AwaitAck(w)])

(* the part of weight k that a node is given *)
WeightPart(k, node) == [weight |-> k, node |-> node]

LoadOwn(k) == << [do |-> "load", node |-> 0, weight |-> k] >>

writeWeight(m, k, node) ==
  LET weight == Weights(m)[k]
      n      == Cells(weight.slice.sliceSize)
  IN  Write(node, String(weight.name)
                  \o << UInt(weight.index), Field(<<"nnsize">>, n), Bytes(n, WeightPart(k, node)) >>)

(* loadRoot, loadAll, loadRowMatmulSlices and loadColMatmulSlices           *)
HandOut(m, k) ==
  LoadOwn(k)
  \o IF Weights(m)[k].slice.how = "root" THEN <<>>
     ELSE FlattenSeq([w \in 1 .. (m.nNodes - 1) |-> writeWeight(m, k, w)])

finish(m) ==
  FlattenSeq([w \in 1 .. (m.nNodes - 1) |-> Write(w, << UInt(0) >>) \o AwaitAck(w)])

(* mutant of Program: the root does not wait for the weights to be loaded   *)
ProgramWithoutFinish(m) ==
  writeToWorkers(m)
  \o FlattenSeq([k \in DOMAIN Weights(m) |-> HandOut(m, k)])
  \o FlattenSeq([w \in 1 .. (m.nNodes - 1) |-> Write(w, << UInt(0) >>)])

(* Before finish the root throws when the file is longer or shorter than    *)
(* its header says ("Missing bytes", llm.cpp:486-488): to the workers that  *)
(* is a root that is killed there.                                          *)
Program(m) ==
  writeToWorkers(m)
  \o FlattenSeq([k \in DOMAIN Weights(m) |-> HandOut(m, k)])
  \o finish(m)

(* The structures of nn-core.hpp, without the arrays in them.  A structure  *)
(* is known by the array it is in, its segment and its number in the array; *)
(* the configurations and the locals of a reader are in none.               *)
StructFields ==
  [net        |-> {"nBatches", "nNodes", "nPipes", "nSlots", "nPreSyncs"},
   node       |-> {"nodeIndex", "nBuffers", "nSegments"},
   pipes      |-> {"size", "name"},
   buffers    |-> {"size", "name"},
   preSyncs   |-> {"pipeIndex"},
   segments   |-> {"nSyncs", "nOps", "nCacheSyncs"},
   syncs      |-> {"pipeIndex", "syncType"},
   ops        |-> {"code", "index", "weightSize", "configSize", "name", "input", "output", "config"},
   cacheSyncs |-> {"cacheSyncType", "bufferIndex"}]

Net == <<"net", 0, 0>>
Node == <<"node", 0, 0>>
Locals == <<"locals", 0, 0>>

OfNet == {"pipes", "preSyncs"}
OfNode == {"buffers", "segments"}
OfSegment == {"syncs", "ops", "cacheSyncs"}

CountOf ==
  [pipes |-> "nPipes", preSyncs |-> "nPreSyncs", buffers |-> "nBuffers", segments |-> "nSegments",
   syncs |-> "nSyncs", ops |-> "nOps", cacheSyncs |-> "nCacheSyncs"]

Ids(net, node) ==
  {Net, Node}
  \cup (UNION {{<<a, 0, i>> : i \in DOMAIN net[a]} : a \in OfNet})
  \cup (UNION {{<<a, 0, i>> : i \in DOMAIN node[a]} : a \in OfNode})
  \cup (UNION {UNION {{<<a, s, i>> : i \in DOMAIN node.segments[s][a]} : a \in OfSegment} :
                s \in DOMAIN node.segments})

StructAt(net, node, id) ==
  CASE id = Net              -> net
    [] id = Node             -> node
    [] id[1] \in OfNet       -> net[id[1]][id[3]]
    [] id[1] \in OfNode      -> node[id[1]][id[3]]
    [] id[1] \in OfSegment   -> node.segments[id[2]][id[1]][id[3]]

Structs(net, node) == 
  [id \in Ids(net, node) |-> [f \in StructFields[id[1]] |-> StructAt(net, node, id)[f]]]

(* tables of constants, so that TLC computes them once                      *)
Programs == [m \in Models |-> Program(m)]
Configs == [m \in Models |-> [n \in Nodes(m) |-> Structs(NetConfig(m), NodeConfig(m, n))]]
WeightTable == [m \in Models |-> Weights(m)]

-----------------------------------------------------------------------------
(***************************************************************************)
(* The worker: items to read                                               *)
(***************************************************************************)

Read(size, id, field) == << [do |-> "read", size |-> size, id |-> id, field |-> field] >>

(* more items, which depend on what has been read by then *)
Expand(of, id) == << [do |-> "expand", of |-> of, id |-> id] >>

Give == << [do |-> "give"] >>

ReadUInt(id, field) == Read(<<"uint">>, id, field)

(* readString; its local variable is kept with the name                     *)
ReadName(id) == ReadUInt(id, "bytes") \o Expand("name", id)

(* mutant of ReadNet: no acknowledgement                                    *)
ReadNetSilently ==
  Read(<<"ack">>, Locals, "ack")
  \o ReadUInt(Net, "nBatches") \o ReadUInt(Net, "nNodes")
  \o ReadUInt(Net, "nPipes") \o ReadUInt(Net, "nSlots") \o Expand("pipes", Net)
  \o ReadUInt(Net, "nPreSyncs") \o Expand("preSyncs", Net)

ReadNet ==
  Read(<<"ack">>, Locals, "ack")
  \o ReadUInt(Net, "nBatches") \o ReadUInt(Net, "nNodes")
  \o ReadUInt(Net, "nPipes") \o ReadUInt(Net, "nSlots") \o Expand("pipes", Net)
  \o ReadUInt(Net, "nPreSyncs") \o Expand("preSyncs", Net)
  \o Give

ReadNode ==
  Read(<<"ack">>, Locals, "ack")
  \o ReadUInt(Node, "nodeIndex") \o ReadUInt(Node, "nBuffers") \o ReadUInt(Node, "nSegments")
  \o Expand("buffers", Node) \o Expand("segments", Node)
  \o Give

(* one turn of the loop of NnWorkerWeightReader::read *)
ReadWeight == ReadUInt(Locals, "bytes") \o Expand("weight", Locals)

(* what an element of an array consists of *)
Element(id) ==
  CASE id[1] \in {"pipes", "buffers"} -> Read(<<"size2d">>, id, "size") \o ReadName(id)
    [] id[1] = "preSyncs" -> ReadUInt(id, "pipeIndex")
    [] id[1] = "segments" ->
         ReadUInt(id, "nSyncs") \o ReadUInt(id, "nOps") \o ReadUInt(id, "nCacheSyncs")
         \o Expand("syncs", id) \o Expand("ops", id) \o Expand("cacheSyncs", id)
    [] id[1] = "syncs" -> ReadUInt(id, "pipeIndex") \o ReadUInt(id, "syncType")
    [] id[1] = "ops" ->
         ReadUInt(id, "code") \o ReadUInt(id, "index") \o Read(<<"size2d">>, id, "weightSize")
         \o ReadUInt(id, "configSize") \o ReadName(id)
         \o Read(<<"pointer">>, id, "input") \o Read(<<"pointer">>, id, "output")
         \o Expand("config", id)
    [] id[1] = "cacheSyncs" -> ReadUInt(id, "cacheSyncType") \o ReadUInt(id, "bufferIndex")

(* element i of an array of a structure *)
ElementId(array, id, i) == <<array, id[3], i>>

Expansion(of, id, g) ==
  CASE of = "name"   -> Read(<<"bytes", g[id].bytes>>, id, "name")
    [] of = "config" ->
         IF g[id].configSize > 0 THEN Read(<<"bytes", g[id].configSize>>, id, "config") ELSE <<>>
    [] of = "weight" ->
         IF g[Locals].bytes = 0 THEN Give
         ELSE Expand("name", Locals) \o ReadUInt(Locals, "index")
              \o Read(<<"nnsize">>, Locals, "nBytes") \o Expand("data", Locals)
              \o << [do |-> "load"] >> \o ReadWeight
    [] of = "data"   -> Read(<<"bytes", g[Locals].nBytes>>, Locals, "data")
    [] of \in DOMAIN CountOf ->
         FlattenSeq([i \in 1 .. g[id][CountOf[of]] |-> Element(ElementId(of, id, i))])

(* f with another value, or an entry more *)
With(f, x, value) == [y \in DOMAIN f \cup {x} |-> IF y = x THEN value ELSE f[y]]

(* a structure is allocated with its first field *)
Put(g, id, field, value) ==
  With(g, id, With(IF id \in DOMAIN g THEN g[id] ELSE <<>>, field, value))

-----------------------------------------------------------------------------
(***************************************************************************)
(* Loading into the executor                                               *)
(***************************************************************************)

(* the operations of a node, whose structures g has *)
OpIds(g) == UNION {{<<"ops", s, i>> : i \in 1 .. g[<<"segments", 0, s>>].nOps} :
                     s \in 1 .. g[Node].nSegments}

(* mutant of Locate: an operation is known by its name alone                *)
LocateByName(g, name, index) == {id \in OpIds(g) : g[id].name = name}

(* NnExecutor::loadWeight: the operations of this name and index            *)
Locate(g, name, index) == {id \in OpIds(g) : g[id].index = index /\ g[id].name = name}

First(ops) ==
  CHOOSE p \in ops : \A q \in ops : p[2] < q[2] \/ (p[2] = q[2] /\ p[3] <= q[3])

(* no "Cannot locate op by name", and assert(weightSize.nBytes == nBytes)   *)
Loadable(g, name, index, nBytes) ==
  LET ops == Locate(g, name, index)
  IN  ops # {} /\ Cells(g[First(ops)].weightSize) = nBytes

LoadInto(n, g, name, index, nBytes, part) ==
  /\ Loadable(g, name, index, nBytes)
  /\ loaded' = [loaded EXCEPT ![n] = With(@, First(Locate(g, name, index)), part)]

-----------------------------------------------------------------------------
(***************************************************************************)
(* Steps                                                                   *)
(***************************************************************************)

TransferInit ==
  /\ model \in Models
  /\ status = [n \in AllNodes |-> IF n < model.nNodes THEN "running" ELSE "absent"]
  /\ rootPc = 0
  /\ toWorker = [n \in AllNodes |-> <<>>]
  /\ toRoot = [n \in AllNodes |-> <<>>]
  /\ want = [n \in AllNodes |->
               IF n \in Workers THEN ReadNet \o ReadNode \o ReadWeight ELSE <<>>]
  /\ got = [n \in AllNodes |-> <<>>]
  /\ loaded = [n \in AllNodes |-> <<>>]

Running(n) == status[n] = "running"

Gone(n) == status[n] \in {"killed", "exited"}

Instruction == Programs[model][rootPc + 1]

RootGoesOn ==
  /\ rootPc' = rootPc + 1
  /\ status' = IF rootPc + 1 = Len(Programs[model])
               THEN [status EXCEPT ![0] = "ready"] ELSE status

RootWrites ==
  /\ Running(0) /\ Instruction.do = "write"
  /\ Len(toWorker[Instruction.node]) < Capacity
  /\ toWorker' = [toWorker EXCEPT ![Instruction.node] = Append(@, Instruction.field)]
  /\ RootGoesOn
  /\ UNCHANGED <<model, toRoot, workerVars, loaded>>

RootReadsAck ==
  /\ Running(0) /\ Instruction.do = "await"
  /\ toRoot[Instruction.node] # <<>>
  /\ toRoot' = [toRoot EXCEPT ![Instruction.node] = Tail(@)]
  /\ RootGoesOn
  /\ UNCHANGED <<model, toWorker, workerVars, loaded>>

RootLoads ==
  /\ Running(0) /\ Instruction.do = "load"
  /\ LET weight == WeightTable[model][Instruction.weight]
     IN  LoadInto(0, Configs[model][0], weight.name, weight.index,
                  Cells(weight.slice.sliceSize), WeightPart(Instruction.weight, 0))
  /\ RootGoesOn
  /\ UNCHANGED <<model, toWorker, toRoot, workerVars>>

Item(w) == Head(want[w])

WorkerReads(w) ==
  /\ Running(w) /\ Item(w).do = "read"
  /\ toWorker[w] # <<>>
  /\ got' = [got EXCEPT ![w] = Put(@, Item(w).id, Item(w).field, Head(toWorker[w]).value)]
  /\ want' = [want EXCEPT ![w] = Tail(@)]
  /\ toWorker' = [toWorker EXCEPT ![w] = Tail(@)]
  /\ UNCHANGED <<model, status, rootPc, toRoot, loaded>>

(* The worker goes on with what the fields it has read call for.            *)
WorkerExpands(w) ==
  /\ Running(w) /\ Item(w).do = "expand"
  /\ want' = [want EXCEPT ![w] = Expansion(Item(w).of, Item(w).id, got[w]) \o Tail(@)]
  /\ UNCHANGED <<model, status, rootPc, toWorker, toRoot, got, loaded>>

WorkerGivesAck(w) ==
  /\ Running(w) /\ Item(w).do = "give"
  /\ toRoot' = [toRoot EXCEPT ![w] = Append(@, Ack)]
  /\ want' = [want EXCEPT ![w] = Tail(@)]
  /\ status' = IF Len(want[w]) = 1 THEN [status EXCEPT ![w] = "ready"] ELSE status
  /\ UNCHANGED <<model, rootPc, toWorker, got, loaded>>

WorkerLoads(w) ==
  /\ Running(w) /\ Item(w).do = "load"
  /\ LET weight == got[w][Locals]
     IN  LoadInto(w, got[w], weight.name, weight.index, weight.nBytes, weight.data)
  /\ want' = [want EXCEPT ![w] = Tail(@)]
  /\ UNCHANGED <<model, status, rootPc, toWorker, toRoot, got>>

(* A process is killed. *)
Killed(n) ==
  /\ Running(n)
  /\ Cardinality({p \in AllNodes : status[p] = "killed"}) < MaxKilled
  /\ status' = [status EXCEPT ![n] = "killed"]
  /\ UNCHANGED <<model, rootPc, toWorker, toRoot, workerVars, loaded>>

(* The connection of a worker is closed or reset: the exception passes the  *)
(* loop of runWorkerApp, which catches only those of the control loop, and  *)
(* ends the process (app.cpp:326-351; dllama.cpp:232).                      *)
WorkerLosesRoot(w) ==
  /\ Running(w) /\ Gone(0)
  /\ status' = [status EXCEPT ![w] = "exited"]
  /\ UNCHANGED <<model, rootPc, toWorker, toRoot, workerVars, loaded>>

RootLosesWorker ==
  /\ Running(0) /\ Gone(Instruction.node) /\ Instruction.do # "load"
  /\ status' = [status EXCEPT ![0] = "exited"]
  /\ UNCHANGED <<model, rootPc, toWorker, toRoot, workerVars, loaded>>

RootStep == RootWrites \/ RootReadsAck \/ RootLoads \/ RootLosesWorker

WorkerStep(w) ==
  \/ WorkerReads(w) \/ WorkerExpands(w) \/ WorkerGivesAck(w) \/ WorkerLoads(w)
  \/ WorkerLosesRoot(w)

TransferNext ==
  \/ RootStep
  \/ \E w \in Workers : WorkerStep(w)
  \/ \E n \in 0 .. (model.nNodes - 1) : Killed(n)

(* each process is one thread, which is blocked only in reads and writes    *)
TransferSpec ==
  /\ TransferInit /\ [][TransferNext]_transferVars
  /\ WF_transferVars(RootStep)
  /\ \A w \in 1 .. (MaxNodes - 1) : WF_transferVars(w \in Workers /\ WorkerStep(w))

-----------------------------------------------------------------------------
(***************************************************************************)
(* Properties                                                              *)
(***************************************************************************)

(* Where each process is; the connections hold no more than they can        *)
(* (nn-network.cpp:364-388).                                                *)
TransferTypeOK ==
  /\ model \in Models
  /\ status \in [AllNodes -> {"running", "ready", "killed", "exited", "absent"}]
  /\ rootPc \in 0 .. Len(Programs[model])
  /\ \A w \in AllNodes : Len(toWorker[w]) <= Capacity /\ Len(toRoot[w]) <= 1
  /\ status[0] = "ready" <=> rootPc = Len(Programs[model])

(* Writers and readers agree on the stream: the next field on a connection  *)
(* has the size its worker asks for (nn-network.cpp:593-773, 808-909), and  *)
(* every weight finds its operation, of its size (nn-executor.cpp:133-147,  *)
(* nn-cpu.cpp:261).                                                         *)
NothingRejected ==
  /\ \A w \in Workers : Running(w) =>
       /\ Item(w).do = "read" /\ toWorker[w] # <<>> => Item(w).size = Head(toWorker[w]).size
       /\ Item(w).do = "load" =>
            LET weight == got[w][Locals]
            IN  Loadable(got[w], weight.name, weight.index, weight.nBytes)
  /\ Running(0) /\ Instruction.do = "load" =>
       LET weight == WeightTable[model][Instruction.weight]
       IN  Loadable(Configs[model][0], weight.name, weight.index, Cells(weight.slice.sliceSize))

(* what a worker has read of the configurations *)
Received(w) ==
  [id \in DOMAIN got[w] \ {Locals} |-> [f \in DOMAIN got[w][id] \ {"bytes"} |-> got[w][id][f]]]

(* A worker that is ready has the configuration the root made for this node *)
(* (nn-network.cpp:611-773): no field is lost, mixed up or read twice.      *)
ConfigArrives ==
  \A w \in Workers : status[w] = "ready" => Received(w) = Configs[model][w]

WeightedOps(g) == {id \in OpIds(g) : Cells(g[id].weightSize) > 0}

(* A node that is ready has for each of its operations the node's own part  *)
(* of the weight of that name and layer (nn-network.cpp:808-863): the slice *)
(* of another node, or of another layer, has the same size and no check     *)
(* would tell.                                                              *)
WeightsInPlace ==
  \A n \in 0 .. (model.nNodes - 1) : status[n] = "ready" =>
    /\ DOMAIN loaded[n] = WeightedOps(Configs[model][n])
    /\ \A p \in DOMAIN loaded[n] :
         LET weight == WeightTable[model][loaded[n][p].weight]
             op     == Configs[model][n][p]
         IN  loaded[n][p].node = n /\ weight.name = op.name /\ weight.index = op.index

WellDivided ==
  [m \in Models |->
     /\ \A k \in DOMAIN WeightTable[m] :
          WeightTable[m][k].slice.how \in {"row", "col"} => Partitioned(m, WeightTable[m][k].slice)
     /\ HeadsFindKeys(m) /\ RopeCovers(m)]

(* The parts the ready nodes hold make up each matrix exactly, each head    *)
(* finds its keys and each rotation its angle in its node's part            *)
(* (nn-core.cpp:198-303, nn-cpu-ops.cpp:755-762, 1097-1109).                *)
PartsMakeTheModel == status[0] = "ready" => WellDivided[model]

SyncOf(step) == IF step.type = "STEP_SYNC_NODES" THEN << step >> ELSE <<>>

SyncSteps(m, n) == Each(Steps(m, NodeConfig(m, n)), SyncOf)

SyncsAgree == [m \in Models |-> \A n \in Nodes(m) : SyncSteps(m, n) = SyncSteps(m, 0)]

(* When the root begins the first forward pass, every worker has loaded all *)
(* its weights (nn-network.cpp:787-792, app.cpp:297-300), and its executor  *)
(* goes through the same synchronisations as the root's                     *)
(* (nn-executor.cpp:58-90): otherwise both would wait for each other.       *)
RootIsLast ==
  status[0] = "ready" =>
    /\ \A w \in Workers : status[w] = "ready"
    /\ SyncsAgree[model]

(* Nobody waits for ever, whoever is killed and when: each process becomes  *)
(* ready or ends (the order of nn-network.cpp:611-680 and 787-863).         *)
TransferEnds == <>(\A n \in AllNodes : ~Running(n))

=============================================================================
