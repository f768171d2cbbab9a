------------------------- MODULE Handshake_proofs ---------------------------
(***************************************************************************)
(* For every number of workers: the connection a worker takes for the      *)
(* root's is the root's, no worker is refused by another, and what serve   *)
(* builds is a full mesh.                                                   *)
(*                                                                         *)
(* What makes the first socket the root's is the "root is ready" packet:   *)
(* no worker connects to another before the root has an ack from every one *)
(* of them, and a worker that acked has accepted the root already.  The    *)
(* mesh is full because a worker accepts exactly as many connections as    *)
(* there are workers before it, each of them connects to it once, and it   *)
(* does not end before: so it still listens when the last of them comes.   *)
(***************************************************************************)
EXTENDS Handshake, FiniteSetTheorems, TLAPS

(* What a worker can be in while the root still configures workers          *)

Untouched(w) ==
  /\ workerPc[w] \in {"off", "accept"}
  /\ backlog[w] = <<>> /\ toWorker[w] = <<>> /\ toRoot[w] = <<>>

Configuring(w) ==
  \/ workerPc[w] = "accept" /\ backlog[w] = <<Root>>
     /\ toWorker[w] = <<"config">> /\ toRoot[w] = <<>>
  \/ workerPc[w] = "config" /\ backlog[w] = <<>>
     /\ toWorker[w] = <<"config">> /\ toRoot[w] = <<>>
  \/ workerPc[w] = "ready" /\ backlog[w] = <<>>
     /\ toWorker[w] = <<>> /\ toRoot[w] = <<"ack">>

Waiting(w) ==
  /\ workerPc[w] \in {"ready", "failed"}
  /\ toWorker[w] = <<>> /\ toRoot[w] = <<>>

InOrder ==
  rootPc \in {"connect", "config", "failed"} =>
    \A w \in Workers :
      /\ w < rootAt => Waiting(w)
      /\ w = rootAt => IF rootPc = "config" THEN Configuring(w) ELSE Untouched(w)
      /\ w > rootAt => Untouched(w)

AllConfigured ==
  rootPc \in {"ready", "done"} =>
    \A w \in Workers : workerPc[w] \in {"ready", "mesh", "done", "failed"}

RootFirst ==
  \A w \in Workers :
    /\ workerPc[w] \in {"off", "accept"} => sockets[w] = <<>>
    /\ workerPc[w] \in {"config", "ready", "mesh"} => sockets[w] # <<>>
    /\ sockets[w] # <<>> => sockets[w][1] = Root

Shape ==
  /\ rootPc \in {"connect", "config", "ready", "done", "failed"}
  /\ rootAt \in Workers
  /\ workerPc \in [Workers -> {"off", "accept", "config", "ready", "mesh", "done", "failed"}]
  /\ backlog \in [Workers -> Seq(Peers)]
  /\ toWorker \in [Workers -> Seq({"config", "ready"})]
  /\ toRoot \in [Workers -> Seq({"ack"})]
  /\ sockets \in [Workers -> Seq(Peers)]

HandshakeInv == Shape /\ InOrder /\ AllConfigured /\ RootFirst

(* How many sockets a worker has, by where it is in serve                   *)
SocketCount ==
  \A w \in Workers :
    /\ workerPc[w] \in {"off", "accept"} => Len(sockets[w]) = 0
    /\ workerPc[w] \in {"config", "ready"} => Len(sockets[w]) = 1
    /\ workerPc[w] = "mesh" => Len(sockets[w]) < NumWorkers
    /\ Len(sockets[w]) <= NumWorkers

-----------------------------------------------------------------------------
LEMMA HostIsWorker ==
  ASSUME NEW w \in Workers, NEW i \in Nat, i < NumWorkers - 1
  PROVE  HostOf(w, i) \in Workers
BY NumWorkersAssumption DEF HostOf, Workers

LEMMA InitInv == HandshakeInit => HandshakeInv
BY NumWorkersAssumption
   DEF HandshakeInit, HandshakeInv, Shape, InOrder, AllConfigured, RootFirst,
       Untouched, Workers, Peers

LEMMA RootConnectsInv == HandshakeInv /\ RootConnects => HandshakeInv'
<1> SUFFICES ASSUME HandshakeInv, RootConnects PROVE HandshakeInv'
  OBVIOUS
<1>1. Root \in Peers
  BY DEF Root, Peers
<1>2. Shape'
  BY <1>1 DEF HandshakeInv, Shape, RootConnects, Connect
<1>3. Untouched(rootAt) /\ workerPc[rootAt] = "accept"
  BY DEF HandshakeInv, InOrder, Shape, RootConnects, Listening, Untouched
<1>4. /\ backlog'[rootAt] = <<Root>> /\ toWorker'[rootAt] = <<"config">>
      /\ workerPc' = workerPc /\ toRoot' = toRoot /\ rootAt' = rootAt
      /\ sockets' = sockets /\ rootPc' = "config"
      /\ \A w \in Workers \ {rootAt} : backlog'[w] = backlog[w] /\ toWorker'[w] = toWorker[w]
  BY <1>3 DEF HandshakeInv, Shape, RootConnects, Connect, Untouched
<1>5. Configuring(rootAt)'
  BY <1>3, <1>4 DEF Configuring, Untouched
<1>6. InOrder'
  BY <1>4, <1>5 DEF HandshakeInv, InOrder, Waiting, Untouched, Shape, Workers, RootConnects
<1>7. AllConfigured' /\ RootFirst'
  BY <1>4 DEF HandshakeInv, AllConfigured, RootFirst
<1> QED
  BY <1>2, <1>6, <1>7 DEF HandshakeInv

LEMMA RootReadsAckInv == HandshakeInv /\ RootReadsAck => HandshakeInv'
<1> SUFFICES ASSUME HandshakeInv, RootReadsAck PROVE HandshakeInv'
  OBVIOUS
<1>1. /\ rootPc = "config" /\ rootAt \in Workers
      /\ workerPc' = workerPc /\ backlog' = backlog
      /\ toWorker' = toWorker /\ sockets' = sockets
  BY DEF HandshakeInv, Shape, RootReadsAck
<1>2. /\ workerPc[rootAt] = "ready" /\ toWorker[rootAt] = <<>>
      /\ toRoot[rootAt] = <<"ack">>
  BY <1>1 DEF HandshakeInv, InOrder, Configuring, RootReadsAck
<1>3. /\ toRoot' \in [Workers -> Seq({"ack"})]
      /\ toRoot'[rootAt] = <<>>
      /\ \A w \in Workers \ {rootAt} : toRoot'[w] = toRoot[w]
  BY <1>1, <1>2 DEF HandshakeInv, Shape, RootReadsAck
<1>4. \A w \in Workers : w <= rootAt => Waiting(w)'
  BY <1>1, <1>2, <1>3 DEF HandshakeInv, InOrder, Waiting, Workers
<1>5. \A w \in Workers : w > rootAt => Untouched(w)'
  BY <1>1, <1>3 DEF HandshakeInv, InOrder, Untouched, Workers
<1>6. CASE rootAt + 1 < NumWorkers
  <2>1. rootAt' = rootAt + 1 /\ rootPc' = "connect" /\ rootAt' \in Workers
    BY <1>1, <1>6, NumWorkersAssumption DEF RootReadsAck, Workers
  <2>2. InOrder'
    BY <1>1, <1>4, <1>5, <2>1 DEF InOrder, Workers
  <2> QED
    BY <1>1, <1>3, <2>1, <2>2 DEF HandshakeInv, Shape, AllConfigured, RootFirst
<1>7. CASE ~(rootAt + 1 < NumWorkers)
  <2>1. rootAt' = 0 /\ rootPc' = "ready" /\ rootAt' \in Workers
    BY <1>1, <1>7, NumWorkersAssumption DEF RootReadsAck, Workers
  <2>2. \A w \in Workers : w <= rootAt
    BY <1>1, <1>7, NumWorkersAssumption DEF Workers
  <2>3. AllConfigured'
    BY <1>4, <2>2 DEF AllConfigured, Waiting
  <2> QED
    BY <1>1, <1>3, <2>1, <2>3 DEF HandshakeInv, Shape, InOrder, RootFirst
<1> QED
  BY <1>6, <1>7

LEMMA RootRefusedInv == HandshakeInv /\ RootRefused => HandshakeInv'
BY DEF HandshakeInv, Shape, InOrder, AllConfigured, RootFirst, RootRefused,
       Waiting, Untouched, Configuring

LEMMA RootReadyInv == HandshakeInv /\ RootReady => HandshakeInv'
<1> SUFFICES ASSUME HandshakeInv, RootReady PROVE HandshakeInv'
  OBVIOUS
<1>1. /\ rootPc = "ready" /\ rootPc' \in {"ready", "done"} /\ rootAt' \in Workers
      /\ workerPc' = workerPc /\ sockets' = sockets
      /\ backlog' = backlog /\ toRoot' = toRoot
  <2>1. rootAt \in Workers
    BY DEF HandshakeInv, Shape
  <2>2. rootAt + 1 < NumWorkers => rootAt + 1 \in Workers
    BY <2>1, NumWorkersAssumption DEF Workers
  <2> QED
    BY <2>1, <2>2 DEF RootReady
<1>2. toWorker' \in [Workers -> Seq({"config", "ready"})]
  BY DEF HandshakeInv, Shape, RootReady
<1> QED
  BY <1>1, <1>2 DEF HandshakeInv, Shape, InOrder, AllConfigured, RootFirst


LEMMA WorkerStartsInv ==
  ASSUME NEW w \in Workers, HandshakeInv, WorkerStarts(w)
  PROVE  HandshakeInv'
<1>1. /\ workerPc[w] = "off" /\ workerPc'[w] = "accept"
      /\ \A v \in Workers \ {w} : workerPc'[v] = workerPc[v]
      /\ workerPc' \in [Workers -> {"off", "accept", "config", "ready", "mesh", "done", "failed"}]
      /\ UNCHANGED <<rootPc, rootAt, backlog, toWorker, toRoot, sockets>>
  BY DEF HandshakeInv, Shape, WorkerStarts
<1>2. InOrder'
  BY <1>1 DEF HandshakeInv, InOrder, Waiting, Untouched, Configuring
<1> QED
  BY <1>1, <1>2 DEF HandshakeInv, Shape, AllConfigured, RootFirst

LEMMA AcceptRootInv ==
  ASSUME NEW w \in Workers, HandshakeInv, AcceptRoot(w)
  PROVE  HandshakeInv'
<1>1. /\ workerPc[w] = "accept" /\ workerPc'[w] = "config"
      /\ \A v \in Workers \ {w} : workerPc'[v] = workerPc[v] /\ backlog'[v] = backlog[v]
                                 /\ sockets'[v] = sockets[v]
      /\ workerPc' \in [Workers -> {"off", "accept", "config", "ready", "mesh", "done", "failed"}]
      /\ UNCHANGED <<rootPc, rootAt, toWorker, toRoot>>
  BY DEF HandshakeInv, Shape, AcceptRoot, Accept
<1>2. rootPc = "config" /\ w = rootAt /\ Configuring(w)
  <2>1. rootPc \notin {"ready", "done"}
    BY <1>1 DEF HandshakeInv, AllConfigured
  <2>2. backlog[w] # <<>>
    BY DEF AcceptRoot, Accept
  <2>3. ~Untouched(w) /\ ~Waiting(w)
    BY <1>1, <2>2 DEF Untouched, Waiting
  <2> QED
    BY <2>1, <2>3 DEF HandshakeInv, InOrder, Shape, Workers
<1>3. /\ backlog[w] = <<Root>> /\ toWorker[w] = <<"config">> /\ toRoot[w] = <<>>
      /\ sockets[w] = <<>>
  BY <1>1, <1>2 DEF Configuring, HandshakeInv, RootFirst
<1>4. /\ backlog'[w] = <<>> /\ sockets'[w] = <<Root>>
      /\ backlog' \in [Workers -> Seq(Peers)] /\ sockets' \in [Workers -> Seq(Peers)]
  <2>1. Root \in Peers
    BY DEF Root, Peers
  <2> QED
    BY <1>3, <2>1 DEF HandshakeInv, Shape, AcceptRoot, Accept
<1>5. Configuring(w)'
  BY <1>1, <1>3, <1>4 DEF Configuring
<1>6. \A v \in Workers : v < rootAt => Waiting(v)'
  BY <1>1, <1>2 DEF HandshakeInv, InOrder, Waiting, Workers
<1>7. \A v \in Workers : v > rootAt => Untouched(v)'
  BY <1>1, <1>2 DEF HandshakeInv, InOrder, Untouched, Workers
<1>8. InOrder'
  BY <1>1, <1>2, <1>5, <1>6, <1>7 DEF InOrder
<1>9. RootFirst'
  <2>1. <<Root>> # <<>> /\ <<Root>>[1] = Root
    OBVIOUS
  <2> QED
    BY <1>1, <1>4, <2>1 DEF HandshakeInv, RootFirst
<1> QED
  BY <1>1, <1>2, <1>4, <1>8, <1>9 DEF HandshakeInv, Shape, AllConfigured

LEMMA ReadConfigInv ==
  ASSUME NEW w \in Workers, HandshakeInv, ReadConfig(w)
  PROVE  HandshakeInv'
<1>1. /\ workerPc[w] = "config" /\ workerPc'[w] = "ready"
      /\ \A v \in Workers \ {w} : workerPc'[v] = workerPc[v] /\ toWorker'[v] = toWorker[v]
                                 /\ toRoot'[v] = toRoot[v]
      /\ workerPc' \in [Workers -> {"off", "accept", "config", "ready", "mesh", "done", "failed"}]
      /\ UNCHANGED <<rootPc, rootAt, backlog, sockets>>
  BY DEF HandshakeInv, Shape, ReadConfig
<1>2. rootPc = "config" /\ w = rootAt /\ Configuring(w)
  <2>1. rootPc \notin {"ready", "done"}
    BY <1>1 DEF HandshakeInv, AllConfigured
  <2>2. ~Untouched(w) /\ ~Waiting(w)
    BY <1>1 DEF Untouched, Waiting
  <2> QED
    BY <2>1, <2>2 DEF HandshakeInv, InOrder, Shape, Workers
<1>3. backlog[w] = <<>> /\ toWorker[w] = <<"config">> /\ toRoot[w] = <<>>
  BY <1>1, <1>2 DEF Configuring
<1>4. /\ toWorker'[w] = <<>> /\ toRoot'[w] = <<"ack">>
      /\ toWorker' \in [Workers -> Seq({"config", "ready"})]
      /\ toRoot' \in [Workers -> Seq({"ack"})]
  BY <1>3 DEF HandshakeInv, Shape, ReadConfig
<1>5. InOrder'
  BY <1>1, <1>2, <1>3, <1>4 DEF HandshakeInv, InOrder, Waiting, Untouched, Configuring, Workers
<1>6. RootFirst'
  BY <1>1 DEF HandshakeInv, RootFirst
<1> QED
  BY <1>1, <1>2, <1>4, <1>5, <1>6 DEF HandshakeInv, Shape, AllConfigured

(* The ready packet is there only when the root has sent it.                *)
LEMMA WaitForRootInv ==
  ASSUME NEW w \in Workers, HandshakeInv, WaitForRoot(w)
  PROVE  HandshakeInv'
<1>1. /\ workerPc[w] = "ready" /\ workerPc'[w] \in {"mesh", "done"}
      /\ \A v \in Workers \ {w} : workerPc'[v] = workerPc[v]
      /\ workerPc' \in [Workers -> {"off", "accept", "config", "ready", "mesh", "done", "failed"}]
      /\ toWorker' \in [Workers -> Seq({"config", "ready"})]
      /\ UNCHANGED <<rootPc, rootAt, backlog, toRoot, sockets>>
  BY DEF HandshakeInv, Shape, WaitForRoot, Meshed
<1>2. rootPc \in {"ready", "done"}
  <2>1. toWorker[w] # <<>>
    BY DEF WaitForRoot
  <2>2. ~Untouched(w) /\ ~Waiting(w) /\ ~Configuring(w)
    BY <1>1, <2>1 DEF Untouched, Waiting, Configuring
  <2> QED
    BY <2>2 DEF HandshakeInv, InOrder, Shape, Workers
<1>3. RootFirst'
  BY <1>1 DEF HandshakeInv, RootFirst
<1> QED
  BY <1>1, <1>2, <1>3 DEF HandshakeInv, Shape, InOrder, AllConfigured

(* A worker that meshes finds the root ready.                               *)
LEMMA MeshAfterReady ==
  ASSUME NEW w \in Workers, HandshakeInv, workerPc[w] = "mesh"
  PROVE  /\ rootPc \in {"ready", "done"}
         /\ sockets[w] \in Seq(Peers) /\ sockets[w] # <<>> /\ sockets[w][1] = Root
<1>1. ~Untouched(w) /\ ~Waiting(w) /\ ~Configuring(w)
  BY DEF Untouched, Waiting, Configuring
<1> QED
  BY <1>1 DEF HandshakeInv, InOrder, RootFirst, Shape, Workers

LEMMA AppendKeepsFirst ==
  ASSUME NEW S, NEW s \in Seq(S), s # <<>>, NEW x \in S
  PROVE  Append(s, x) \in Seq(S) /\ Append(s, x) # <<>> /\ Append(s, x)[1] = s[1]
OBVIOUS

LEMMA AcceptNextInv ==
  ASSUME NEW w \in Workers, HandshakeInv, AcceptNext(w)
  PROVE  HandshakeInv'
<1>1. workerPc[w] = "mesh" /\ backlog[w] # <<>>
  BY DEF AcceptNext, Accept
<1>2. /\ rootPc \in {"ready", "done"}
      /\ sockets[w] \in Seq(Peers) /\ sockets[w] # <<>> /\ sockets[w][1] = Root
  BY <1>1, MeshAfterReady
<1>3. /\ workerPc'[w] \in {"mesh", "done"}
      /\ \A v \in Workers \ {w} : workerPc'[v] = workerPc[v] /\ sockets'[v] = sockets[v]
      /\ workerPc' \in [Workers -> {"off", "accept", "config", "ready", "mesh", "done", "failed"}]
      /\ UNCHANGED <<rootPc, rootAt, toWorker, toRoot>>
  BY DEF HandshakeInv, Shape, AcceptNext, Accept, Meshed
<1>4. backlog' \in [Workers -> Seq(Peers)] /\ Head(backlog[w]) \in Peers
  BY <1>1 DEF HandshakeInv, Shape, AcceptNext, Accept
<1>5. sockets'[w] = Append(sockets[w], Head(backlog[w]))
  BY DEF HandshakeInv, Shape, AcceptNext, Accept
<1>6. /\ sockets' \in [Workers -> Seq(Peers)]
      /\ sockets'[w] # <<>> /\ sockets'[w][1] = Root
  BY <1>2, <1>4, <1>5, AppendKeepsFirst DEF HandshakeInv, Shape, AcceptNext, Accept
<1>7. RootFirst'
  BY <1>3, <1>6 DEF HandshakeInv, RootFirst
<1> QED
  BY <1>2, <1>3, <1>4, <1>6, <1>7 DEF HandshakeInv, Shape, InOrder, AllConfigured

(* The host a worker connects to next is a worker.                          *)
LEMMA ConnectsToWorker ==
  ASSUME NEW w \in Workers, HandshakeInv, SocketCount, ConnectNext(w)
  PROVE  HostOf(w, NextHost(w)) \in Workers
<1>1. workerPc[w] = "mesh"
  BY DEF ConnectNext
<1>2. Len(sockets[w]) < NumWorkers /\ Len(sockets[w]) \in Nat \ {0}
  BY <1>1, MeshAfterReady DEF SocketCount
<1>3. NextHost(w) \in Nat /\ NextHost(w) < NumWorkers - 1
  BY <1>2, NumWorkersAssumption DEF NextHost
<1> QED
  BY <1>3, HostIsWorker

LEMMA ConnectNextInv ==
  ASSUME NEW w \in Workers, HandshakeInv, SocketCount, ConnectNext(w)
  PROVE  HandshakeInv'
<1> DEFINE host == HostOf(w, NextHost(w))
<1>1. workerPc[w] = "mesh"
  BY DEF ConnectNext
<1>2. /\ rootPc \in {"ready", "done"}
      /\ sockets[w] \in Seq(Peers) /\ sockets[w] # <<>> /\ sockets[w][1] = Root
  BY <1>1, MeshAfterReady
<1>3. /\ workerPc'[w] \in {"mesh", "done", "failed"}
      /\ \A v \in Workers \ {w} : workerPc'[v] = workerPc[v]
      /\ workerPc' \in [Workers -> {"off", "accept", "config", "ready", "mesh", "done", "failed"}]
      /\ UNCHANGED <<rootPc, rootAt, toWorker, toRoot>>
  BY DEF HandshakeInv, Shape, ConnectNext, Meshed
<1>4. CASE ~Listening(host)
  <2>1. backlog' = backlog /\ sockets' = sockets
    BY <1>4 DEF ConnectNext
  <2>2. RootFirst'
    BY <1>3, <2>1, <1>2 DEF HandshakeInv, RootFirst
  <2> QED
    BY <1>2, <1>3, <2>1, <2>2 DEF HandshakeInv, Shape, InOrder, AllConfigured
<1>5. CASE Listening(host)
  <2>1. /\ backlog' = [backlog EXCEPT ![host] = Append(@, w)]
        /\ sockets' = [sockets EXCEPT ![w] = Append(@, host)]
    BY <1>5 DEF ConnectNext, Connect
  <2>2. host \in Workers
    BY ConnectsToWorker
  <2>3. host \in Peers /\ w \in Peers
    BY <2>2 DEF Peers
  <2> HIDE DEF host
  <2>4. backlog' \in [Workers -> Seq(Peers)]
    BY <2>1, <2>2, <2>3 DEF HandshakeInv, Shape
  <2>5. /\ sockets'[w] = Append(sockets[w], host)
        /\ \A v \in Workers \ {w} : sockets'[v] = sockets[v]
    BY <2>1 DEF HandshakeInv, Shape
  <2>6. /\ sockets' \in [Workers -> Seq(Peers)]
        /\ sockets'[w] # <<>> /\ sockets'[w][1] = Root
    BY <1>2, <2>1, <2>3, <2>5, AppendKeepsFirst DEF HandshakeInv, Shape
  <2>7. RootFirst'
    BY <1>3, <2>5, <2>6 DEF HandshakeInv, RootFirst
  <2> QED
    BY <1>2, <1>3, <2>4, <2>6, <2>7 DEF HandshakeInv, Shape, InOrder, AllConfigured
<1> QED
  BY <1>4, <1>5

(* The root is gone only before it was ready.                               *)
LEMMA RootGoneInv ==
  ASSUME NEW w \in Workers, HandshakeInv, RootGone(w)
  PROVE  HandshakeInv'
<1>1. /\ rootPc = "failed" /\ workerPc[w] \in {"config", "ready"}
      /\ workerPc'[w] = "failed"
      /\ \A v \in Workers \ {w} : workerPc'[v] = workerPc[v]
      /\ workerPc' \in [Workers -> {"off", "accept", "config", "ready", "mesh", "done", "failed"}]
      /\ UNCHANGED <<rootPc, rootAt, backlog, toWorker, toRoot, sockets>>
  BY DEF HandshakeInv, Shape, RootGone
<1>2. w < rootAt
  <2>1. ~Untouched(w)
    BY <1>1 DEF Untouched
  <2> QED
    BY <1>1, <2>1 DEF HandshakeInv, InOrder, Shape, Workers
<1>3. InOrder'
  <2>1. \A v \in Workers : v < rootAt => Waiting(v)'
    BY <1>1 DEF HandshakeInv, InOrder, Waiting
  <2>2. \A v \in Workers : v >= rootAt => Untouched(v)'
    BY <1>1, <1>2 DEF HandshakeInv, InOrder, Untouched, Shape, Workers
  <2> QED
    BY <1>1, <2>1, <2>2 DEF HandshakeInv, InOrder, Shape, Workers
<1> QED
  BY <1>1, <1>3 DEF HandshakeInv, Shape, AllConfigured, RootFirst

-----------------------------------------------------------------------------
(* The count of a worker's sockets                                          *)

LEMMA CountInit == HandshakeInit => SocketCount
BY NumWorkersAssumption DEF HandshakeInit, SocketCount

(* An action of worker w adds at most one socket, to w's.                   *)
LEMMA CountAppended ==
  ASSUME NEW w \in Workers, HandshakeInv, SocketCount,
         NEW x \in Peers, sockets' = [sockets EXCEPT ![w] = Append(@, x)],
         NEW pc, workerPc' = [workerPc EXCEPT ![w] = pc],
         \/ workerPc[w] = "accept" /\ pc = "config"
         \/ workerPc[w] = "mesh" /\ pc = Meshed(Len(sockets[w]) + 1)
  PROVE  SocketCount'
<1>1. /\ workerPc'[w] = pc /\ sockets'[w] = Append(sockets[w], x)
      /\ \A v \in Workers \ {w} : workerPc'[v] = workerPc[v] /\ sockets'[v] = sockets[v]
      /\ sockets[w] \in Seq(Peers)
  BY DEF HandshakeInv, Shape
<1>2. Len(sockets'[w]) = Len(sockets[w]) + 1 /\ Len(sockets[w]) \in Nat
  BY <1>1
<1>3. CASE workerPc[w] = "accept" /\ pc = "config"
  BY <1>1, <1>2, <1>3, NumWorkersAssumption DEF SocketCount
<1>4. CASE workerPc[w] = "mesh" /\ pc = Meshed(Len(sockets[w]) + 1)
  BY <1>1, <1>2, <1>4, NumWorkersAssumption DEF SocketCount, Meshed
<1> QED
  BY <1>3, <1>4

LEMMA CountStep ==
  ASSUME HandshakeInv, SocketCount, HandshakeNext
  PROVE  SocketCount'
<1>1. CASE RootStep
  BY <1>1 DEF RootStep, RootConnects, RootRefused, RootReadsAck, RootReady, SocketCount
<1>2. ASSUME NEW w \in Workers, WorkerStarts(w) PROVE SocketCount'
  BY <1>2 DEF WorkerStarts, SocketCount, HandshakeInv, Shape
<1>3. ASSUME NEW w \in Workers, ServeStep(w) PROVE SocketCount'
  <2>1. CASE AcceptRoot(w)
    <3>1. Head(backlog[w]) \in Peers
      BY <2>1 DEF AcceptRoot, Accept, HandshakeInv, Shape
    <3> QED
      BY <2>1, <3>1, CountAppended DEF AcceptRoot, Accept
  <2>2. CASE ReadConfig(w)
    BY <2>2 DEF ReadConfig, SocketCount, HandshakeInv, Shape
  <2>3. CASE WaitForRoot(w)
    <3>1. Len(sockets[w]) = 1 /\ 1 <= NumWorkers
      BY <2>3, NumWorkersAssumption DEF WaitForRoot, SocketCount
    <3>2. /\ workerPc' = [workerPc EXCEPT ![w] = Meshed(1)] /\ sockets' = sockets
      BY <2>3 DEF WaitForRoot
    <3>3. /\ workerPc'[w] = Meshed(1) /\ sockets' = sockets
          /\ \A v \in Workers \ {w} : workerPc'[v] = workerPc[v]
      BY <3>2 DEF HandshakeInv, Shape
    <3>4. Meshed(1) = "done" \/ (Meshed(1) = "mesh" /\ 1 < NumWorkers)
      BY NumWorkersAssumption DEF Meshed
    <3> QED
      BY <3>1, <3>3, <3>4 DEF SocketCount
  <2>4. CASE ConnectNext(w)
    <3>1. CASE Listening(HostOf(w, NextHost(w)))
      <4>1. HostOf(w, NextHost(w)) \in Peers
        BY <2>4, ConnectsToWorker DEF Peers
      <4>2. /\ workerPc[w] = "mesh"
            /\ workerPc' = [workerPc EXCEPT ![w] = Meshed(Len(sockets[w]) + 1)]
            /\ sockets' = [sockets EXCEPT ![w] = Append(@, HostOf(w, NextHost(w)))]
        BY <2>4, <3>1 DEF ConnectNext
      <4> QED
        BY <4>1, <4>2, CountAppended
    <3>2. CASE ~Listening(HostOf(w, NextHost(w)))
      BY <2>4, <3>2 DEF ConnectNext, SocketCount, HandshakeInv, Shape
    <3> QED
      BY <3>1, <3>2
  <2>5. CASE AcceptNext(w)
    <3>1. Head(backlog[w]) \in Peers
      BY <2>5 DEF AcceptNext, Accept, HandshakeInv, Shape
    <3> QED
      BY <2>5, <3>1, CountAppended DEF AcceptNext, Accept
  <2>6. CASE RootGone(w)
    BY <2>6 DEF RootGone, SocketCount, HandshakeInv, Shape
  <2> QED
    BY <1>3, <2>1, <2>2, <2>3, <2>4, <2>5, <2>6 DEF ServeStep
<1> QED
  BY <1>1, <1>2, <1>3 DEF HandshakeNext

-----------------------------------------------------------------------------
LEMMA StepInv ==
  HandshakeInv /\ SocketCount /\ [HandshakeNext]_handshakeVars
    => HandshakeInv' /\ SocketCount'
<1> SUFFICES ASSUME HandshakeInv, SocketCount, [HandshakeNext]_handshakeVars
             PROVE  HandshakeInv' /\ SocketCount'
  OBVIOUS
<1>1. CASE UNCHANGED handshakeVars
  BY <1>1 DEF handshakeVars, HandshakeInv, Shape, InOrder, AllConfigured, RootFirst,
              Waiting, Untouched, Configuring, SocketCount
<1>2. CASE RootStep
  BY <1>2, CountStep, RootConnectsInv, RootRefusedInv, RootReadsAckInv, RootReadyInv
     DEF RootStep, HandshakeNext
<1>3. ASSUME NEW w \in Workers, WorkerStarts(w) \/ ServeStep(w)
      PROVE  HandshakeInv' /\ SocketCount'
  <2>1. SocketCount'
    BY <1>3, CountStep DEF HandshakeNext
  <2>2. HandshakeInv'
    BY <1>3, WorkerStartsInv, AcceptRootInv, ReadConfigInv, WaitForRootInv,
       ConnectNextInv, AcceptNextInv, RootGoneInv DEF ServeStep
  <2> QED
    BY <2>1, <2>2
<1> QED
  BY <1>1, <1>2, <1>3 DEF HandshakeNext

LEMMA HandshakeInvariant == HandshakeSpec => [](HandshakeInv /\ SocketCount)
<1>1. HandshakeInit => HandshakeInv /\ SocketCount
  BY InitInv, CountInit
<1> QED
  BY <1>1, StepInv, PTL DEF HandshakeSpec

(* The first socket of every worker is the root's, whatever the number of   *)
(* workers and in whatever order they start and run (lines 259-260, 285).   *)
THEOREM FirstSocketIsRoot == HandshakeSpec => []RootSocketIsRoot
<1>1. HandshakeInv => RootSocketIsRoot
  BY DEF HandshakeInv, RootFirst, RootSocketIsRoot
<1> QED
  BY <1>1, HandshakeInvariant, PTL

(* The state keeps its shape, and no worker ever has more sockets than it   *)
(* allocated (new int[nSockets], line 268).                                 *)
THEOREM HandshakeTypeCorrect == HandshakeSpec => []HandshakeTypeOK
<1>1. HandshakeInv /\ SocketCount => HandshakeTypeOK
  BY DEF HandshakeInv, Shape, SocketCount, HandshakeTypeOK
<1> QED
  BY <1>1, HandshakeInvariant, PTL


-----------------------------------------------------------------------------
(* The mesh: who is connected to whom                                       *)

(* v connected to w: it is behind it, and past the place of w in its list.  *)
ConnectedTo(socks, v, w) == v \in Workers /\ v < w /\ Len(socks[v]) > w

Serving(w) == workerPc[w] \notin {"off", "accept"}

(* The first sockets after the root's were accepted, the others are the     *)
(* connections to the workers after w, in their order.                      *)
SocketsLead ==
  \A w \in Workers : \A i \in 2 .. Len(sockets[w]) :
    IF i <= w + 1 THEN ConnectedTo(sockets, sockets[w][i], w) ELSE sockets[w][i] = i - 1

BacklogLeads ==
  \A w \in Workers : Serving(w) =>
    \A i \in 1 .. Len(backlog[w]) : ConnectedTo(sockets, backlog[w][i], w)

(* Nobody is connected twice, neither in the backlog nor accepted.          *)
NobodyTwice ==
  \A w \in Workers : Serving(w) =>
    /\ \A i, j \in 1 .. Len(sockets[w]) : i # j => sockets[w][i] # sockets[w][j]
    /\ \A i, j \in 1 .. Len(backlog[w]) : i # j => backlog[w][i] # backlog[w][j]
    /\ \A i \in 1 .. Len(sockets[w]), j \in 1 .. Len(backlog[w]) :
         sockets[w][i] # backlog[w][j]

DoneHasAll ==
  \A w \in Workers : workerPc[w] = "done" => Len(sockets[w]) = NumWorkers

MeshInv ==
  SocketsLead /\ BacklogLeads /\ NobodyTwice /\ DoneHasAll /\ WorkersFindEachOther

(* As many different elements as a set has are all its elements.            *)
LEMMA AllAreHit ==
  ASSUME NEW n \in Nat, NEW S, IsFiniteSet(S), Cardinality(S) = n,
         NEW f \in [1 .. n -> S],
         \A i, j \in 1 .. n : i # j => f[i] # f[j]
  PROVE  \A p \in S : \E i \in 1 .. n : f[i] = p
<1>1. IsFiniteSet(1 .. n) /\ Cardinality(1 .. n) = n
  BY FS_Interval
<1>2. f \in Injection(1 .. n, S)
  BY DEF Injection, IsInjective
<1>3. f \in Surjection(1 .. n, S)
  BY <1>1, <1>2, FS_Injection
<1> QED
  BY <1>3 DEF Surjection

(* A worker that is through with accepting has accepted everyone before it. *)
LEMMA AllBeforeAccepted ==
  ASSUME HandshakeInv, MeshInv, NEW w \in Workers, Serving(w), Len(sockets[w]) > w
  PROVE  \A v \in Workers : v < w => ConnectedTo(sockets, v, w)
<1> DEFINE below == 0 .. (w - 1)
           g == [i \in 1 .. w |-> sockets[w][i + 1]]
<1>1. w \in Nat /\ sockets[w] \in Seq(Peers) /\ Len(sockets[w]) \in Nat
  BY DEF Workers, HandshakeInv, Shape
<1>2. \A i \in 1 .. w : ConnectedTo(sockets, sockets[w][i + 1], w)
  <2> TAKE i \in 1 .. w
  <2>1. i + 1 \in 2 .. Len(sockets[w]) /\ i + 1 <= w + 1
    BY <1>1
  <2> QED
    BY <2>1 DEF MeshInv, SocketsLead
<1>3. g \in [1 .. w -> below]
  BY <1>1, <1>2 DEF ConnectedTo, Workers
<1>4. \A i, j \in 1 .. w : i # j => g[i] # g[j]
  <2> SUFFICES ASSUME NEW i \in 1 .. w, NEW j \in 1 .. w, i # j PROVE g[i] # g[j]
    OBVIOUS
  <2>1. i + 1 \in 1 .. Len(sockets[w]) /\ j + 1 \in 1 .. Len(sockets[w]) /\ i + 1 # j + 1
    BY <1>1
  <2>2. sockets[w][i + 1] # sockets[w][j + 1]
    BY <2>1 DEF MeshInv, NobodyTwice
  <2> QED
    BY <2>2
<1>5. IsFiniteSet(below) /\ Cardinality(below) = w
  <2>1. 0 \in Int /\ w - 1 \in Int /\ (w - 1) - 0 + 1 = w /\ (0 > w - 1 => w = 0)
    BY <1>1
  <2> QED
    BY <2>1, FS_Interval
<1> HIDE DEF g, below
<1>6. \A p \in below : \E i \in 1 .. w : g[i] = p
  BY <1>1, <1>3, <1>4, <1>5, AllAreHit
<1> USE DEF g, below
<1>7. ASSUME NEW v \in Workers, v < w PROVE ConnectedTo(sockets, v, w)
  <2>1. v \in below
    BY <1>1, <1>7 DEF Workers
  <2>2. PICK i \in 1 .. w : sockets[w][i + 1] = v
    BY <1>6, <2>1
  <2> QED
    BY <1>2, <2>2
<1> QED
  BY <1>7

(* Whom a worker connects to next still listens: it is past the root's ready *)
(* packet and cannot be through without having accepted this worker.         *)
LEMMA NextListens ==
  ASSUME HandshakeInv, SocketCount, MeshInv, NEW w \in Workers,
         workerPc[w] = "mesh", NextHost(w) >= w
  PROVE  LET host == HostOf(w, NextHost(w))
         IN  /\ host \in Workers /\ host > w /\ host = Len(sockets[w])
             /\ Listening(host) /\ Serving(host)
<1> DEFINE host == HostOf(w, NextHost(w))
<1>1. /\ rootPc \in {"ready", "done"}
      /\ Len(sockets[w]) \in Nat \ {0} /\ Len(sockets[w]) < NumWorkers
  BY MeshAfterReady DEF SocketCount
<1>2. host = Len(sockets[w]) /\ host > w /\ host \in Workers
  BY <1>1, NumWorkersAssumption DEF HostOf, NextHost, Workers
<1> HIDE DEF host
<1>3. workerPc[host] \in {"ready", "mesh", "done"}
  BY <1>1, <1>2 DEF HandshakeInv, AllConfigured, MeshInv, WorkersFindEachOther
<1>4. workerPc[host] # "done"
  <2> SUFFICES ASSUME workerPc[host] = "done" PROVE FALSE
    OBVIOUS
  <2>1. Serving(host) /\ Len(sockets[host]) > host
    BY <1>2 DEF Serving, MeshInv, DoneHasAll, Workers
  <2>2. w \in Workers /\ w < host
    BY <1>2 DEF Workers
  <2>3. ConnectedTo(sockets, w, host)
    BY <1>2, <2>1, <2>2, AllBeforeAccepted
  <2> QED
    BY <1>1, <1>2, <2>3 DEF ConnectedTo, Workers
<1>5. Listening(host) /\ Serving(host)
  BY <1>3, <1>4 DEF Listening, Serving
<1> QED
  BY <1>2, <1>5 DEF host

LEMMA MeshStart == HandshakeInit => MeshInv
BY NumWorkersAssumption
   DEF HandshakeInit, MeshInv, SocketsLead, BacklogLeads, NobodyTwice, DoneHasAll,
       WorkersFindEachOther, Serving

(* A step that neither makes nor accepts a connection of a serving worker.  *)
LEMMA NothingConnected ==
  ASSUME MeshInv, UNCHANGED sockets, DoneHasAll', WorkersFindEachOther',
         \A w \in Workers : Serving(w)' => Serving(w) /\ backlog'[w] = backlog[w]
  PROVE  MeshInv'
<1>1. \A v, w : ConnectedTo(sockets', v, w) <=> ConnectedTo(sockets, v, w)
  BY DEF ConnectedTo
<1>2. SocketsLead'
  BY <1>1 DEF MeshInv, SocketsLead
<1>3. BacklogLeads'
  BY <1>1 DEF MeshInv, BacklogLeads
<1>4. NobodyTwice'
  BY DEF MeshInv, NobodyTwice
<1> QED
  BY <1>2, <1>3, <1>4 DEF MeshInv

LEMMA MeshRootStep ==
  ASSUME HandshakeInv, MeshInv, RootStep
  PROVE  MeshInv'
<1>1. workerPc' = workerPc /\ sockets' = sockets
  BY DEF RootStep, RootConnects, RootRefused, RootReadsAck, RootReady
<1>2. rootPc = "failed" => rootPc' = "failed"
  BY DEF RootStep, RootConnects, RootRefused, RootReadsAck, RootReady
<1>3. DoneHasAll' /\ WorkersFindEachOther'
  BY <1>1, <1>2 DEF MeshInv, DoneHasAll, WorkersFindEachOther
<1>4. ASSUME NEW w \in Workers, Serving(w) PROVE backlog'[w] = backlog[w]
  <2>1. CASE RootConnects
    <3>1. workerPc[rootAt] = "accept" /\ rootAt \in Workers
      BY <2>1 DEF HandshakeInv, InOrder, Shape, RootConnects, Listening, Untouched
    <3>2. w # rootAt
      BY <1>4, <3>1 DEF Serving
    <3> QED
      BY <2>1, <3>1, <3>2 DEF RootConnects, Connect, HandshakeInv, Shape
  <2>2. CASE RootRefused \/ RootReadsAck \/ RootReady
    BY <2>2 DEF RootRefused, RootReadsAck, RootReady
  <2> QED
    BY <2>1, <2>2 DEF RootStep
<1>5. \A w \in Workers : Serving(w)' => Serving(w) /\ backlog'[w] = backlog[w]
  BY <1>1, <1>4 DEF Serving
<1> QED
  BY <1>1, <1>3, <1>5, NothingConnected

LEMMA AcceptRootMesh ==
  ASSUME HandshakeInv, SocketCount, MeshInv, NEW w \in Workers, AcceptRoot(w)
  PROVE  MeshInv'
<1>1. /\ workerPc[w] = "accept" /\ workerPc'[w] = "config"
      /\ \A v \in Workers \ {w} : workerPc'[v] = workerPc[v] /\ backlog'[v] = backlog[v]
                                 /\ sockets'[v] = sockets[v]
      /\ backlog[w] # <<>> /\ backlog'[w] = Tail(backlog[w])
      /\ sockets'[w] = Append(sockets[w], Head(backlog[w]))
      /\ rootPc' = rootPc
  BY DEF HandshakeInv, Shape, AcceptRoot, Accept
<1>2. backlog[w] = <<Root>> /\ sockets[w] = <<>>
  <2>1. rootPc \notin {"ready", "done"} /\ ~Untouched(w) /\ ~Waiting(w)
    BY <1>1 DEF HandshakeInv, AllConfigured, Untouched, Waiting
  <2>2. Configuring(w)
    BY <2>1 DEF HandshakeInv, InOrder, Shape, Workers
  <2> QED
    BY <1>1, <2>2 DEF Configuring, HandshakeInv, RootFirst
<1>3. backlog'[w] = <<>> /\ Len(sockets'[w]) = 1
  BY <1>1, <1>2
<1>4. \A v \in Workers : Len(sockets'[v]) \in Nat /\ Len(sockets'[v]) >= Len(sockets[v])
  <2>1. \A v \in Workers : Len(sockets[v]) \in Nat
    BY DEF HandshakeInv, Shape
  <2> QED
    BY <1>1, <1>2, <1>3, <2>1
<1>5. \A u, v : v \in Workers /\ ConnectedTo(sockets, u, v) => ConnectedTo(sockets', u, v)
  <2> SUFFICES ASSUME NEW u, NEW v \in Workers, ConnectedTo(sockets, u, v) PROVE ConnectedTo(sockets', u, v)
    OBVIOUS
  <2>1. u \in Workers /\ Len(sockets[u]) \in Nat /\ Len(sockets[u]) > v
    BY DEF ConnectedTo, HandshakeInv, Shape
  <2>2. CASE u = w
    <3>1. Len(sockets[w]) = 0
      BY <1>2
    <3> QED
      BY <2>1, <2>2, <3>1 DEF ConnectedTo, Workers
  <2>3. CASE u # w
    BY <1>1, <2>1, <2>3 DEF ConnectedTo
  <2> QED
    BY <2>2, <2>3
<1>6. SocketsLead'
  BY <1>1, <1>3, <1>5 DEF MeshInv, SocketsLead
<1>7. BacklogLeads'
  BY <1>1, <1>3, <1>5 DEF MeshInv, BacklogLeads, Serving
<1>8. NobodyTwice'
  BY <1>1, <1>3 DEF MeshInv, NobodyTwice, Serving
<1>9. DoneHasAll' /\ WorkersFindEachOther'
  BY <1>1 DEF MeshInv, DoneHasAll, WorkersFindEachOther
<1> QED
  BY <1>6, <1>7, <1>8, <1>9 DEF MeshInv

LEMMA AcceptNextMesh ==
  ASSUME HandshakeInv, SocketCount, MeshInv, NEW w \in Workers, AcceptNext(w)
  PROVE  MeshInv'
<1> DEFINE from == Head(backlog[w])
           n == Len(sockets[w])
<1>1. /\ workerPc[w] = "mesh" /\ workerPc'[w] = Meshed(n + 1)
      /\ \A v \in Workers \ {w} : workerPc'[v] = workerPc[v] /\ backlog'[v] = backlog[v]
                                 /\ sockets'[v] = sockets[v]
      /\ backlog[w] # <<>> /\ backlog'[w] = Tail(backlog[w])
      /\ sockets'[w] = Append(sockets[w], from)
      /\ rootPc' = rootPc /\ n - 1 < w
  BY DEF HandshakeInv, Shape, AcceptNext, Accept, NextHost
<1>2. /\ sockets[w] \in Seq(Peers) /\ n \in Nat \ {0}
      /\ backlog[w] \in Seq(Peers) /\ Len(backlog[w]) \in Nat \ {0} /\ from = backlog[w][1]
      /\ w \in Nat /\ Serving(w) /\ n < NumWorkers
  <2>1. sockets[w] \in Seq(Peers) /\ sockets[w] # <<>>
    BY <1>1, MeshAfterReady
  <2>2. backlog[w] \in Seq(Peers) /\ backlog[w] # <<>>
    BY <1>1 DEF HandshakeInv, Shape
  <2>3. n < NumWorkers /\ Serving(w) /\ w \in Nat
    BY <1>1 DEF Serving, SocketCount, Workers
  <2> QED
    BY <2>1, <2>2, <2>3
<1>3. /\ Len(backlog'[w]) = Len(backlog[w]) - 1
      /\ \A i \in 1 .. Len(backlog'[w]) :
           i + 1 \in 1 .. Len(backlog[w]) /\ backlog'[w][i] = backlog[w][i + 1]
  BY <1>1, <1>2
<1>4. /\ Len(sockets'[w]) = n + 1 /\ sockets'[w][n + 1] = from
      /\ \A i \in 1 .. n : sockets'[w][i] = sockets[w][i]
  BY <1>1, <1>2
<1> HIDE DEF from, n
<1>5. ConnectedTo(sockets, from, w)
  BY <1>2 DEF MeshInv, BacklogLeads
<1>6. \A u, v : v \in Workers /\ ConnectedTo(sockets, u, v) => ConnectedTo(sockets', u, v)
  BY <1>1, <1>2, <1>4 DEF ConnectedTo, Workers, n
<1>7. SocketsLead'
  <2> SUFFICES ASSUME NEW v \in Workers, NEW i \in 2 .. Len(sockets'[v])
               PROVE IF i <= v + 1 THEN ConnectedTo(sockets', sockets'[v][i], v) ELSE sockets'[v][i] = i - 1
    BY DEF SocketsLead
  <2>1. CASE v # w
    BY <1>1, <1>6, <2>1 DEF MeshInv, SocketsLead
  <2>2. CASE v = w /\ i = n + 1
    <3>1. i <= v + 1 /\ sockets'[v][i] = from
      BY <1>1, <1>2, <1>4, <2>2
    <3> QED
      BY <1>5, <1>6, <2>2, <3>1
  <2>3. CASE v = w /\ i # n + 1
    <3>1. i \in 2 .. n /\ sockets'[v][i] = sockets[v][i]
      BY <1>2, <1>4, <2>3
    <3> QED
      BY <1>6, <2>3, <3>1 DEF MeshInv, SocketsLead, n
  <2> QED
    BY <2>1, <2>2, <2>3
<1>8. BacklogLeads'
  <2> SUFFICES ASSUME NEW v \in Workers, Serving(v)', NEW i \in 1 .. Len(backlog'[v])
               PROVE ConnectedTo(sockets', backlog'[v][i], v)
    BY DEF BacklogLeads
  <2>1. CASE v # w
    BY <1>1, <1>6, <2>1 DEF MeshInv, BacklogLeads, Serving
  <2>2. CASE v = w
    BY <1>2, <1>3, <1>6, <2>2 DEF MeshInv, BacklogLeads
  <2> QED
    BY <2>1, <2>2
<1>9. NobodyTwice'
  <2>1. ASSUME NEW v \in Workers, v # w, Serving(v)'
        PROVE  /\ \A i, j \in 1 .. Len(sockets'[v]) : i # j => sockets'[v][i] # sockets'[v][j]
               /\ \A i, j \in 1 .. Len(backlog'[v]) : i # j => backlog'[v][i] # backlog'[v][j]
               /\ \A i \in 1 .. Len(sockets'[v]), j \in 1 .. Len(backlog'[v]) :
                    sockets'[v][i] # backlog'[v][j]
    BY <1>1, <2>1 DEF MeshInv, NobodyTwice, Serving
  <2>2. /\ \A i, j \in 1 .. n : i # j => sockets[w][i] # sockets[w][j]
        /\ \A i, j \in 1 .. Len(backlog[w]) : i # j => backlog[w][i] # backlog[w][j]
        /\ \A i \in 1 .. n, j \in 1 .. Len(backlog[w]) : sockets[w][i] # backlog[w][j]
    BY <1>2 DEF MeshInv, NobodyTwice, n
  <2>3. \A i, j \in 1 .. Len(sockets'[w]) : i # j => sockets'[w][i] # sockets'[w][j]
    <3>1. \A i \in 1 .. n : sockets[w][i] # sockets'[w][n + 1]
      BY <1>2, <1>4, <2>2
    <3>2. \A i \in 1 .. Len(sockets'[w]) : i = n + 1 \/ i \in 1 .. n
      BY <1>2, <1>4
    <3> QED
      BY <1>4, <2>2, <3>1, <3>2
  <2>4. \A i, j \in 1 .. Len(backlog'[w]) : i # j => backlog'[w][i] # backlog'[w][j]
    BY <1>2, <1>3, <2>2
  <2>5. \A i \in 1 .. Len(sockets'[w]), j \in 1 .. Len(backlog'[w]) :
          sockets'[w][i] # backlog'[w][j]
    BY <1>2, <1>3, <1>4, <2>2
  <2> QED
    BY <2>1, <2>3, <2>4, <2>5 DEF NobodyTwice
<1>10. DoneHasAll' /\ WorkersFindEachOther'
  BY <1>1, <1>4 DEF MeshInv, DoneHasAll, WorkersFindEachOther, Meshed
<1> QED
  BY <1>7, <1>8, <1>9, <1>10 DEF MeshInv

LEMMA ConnectNextMesh ==
  ASSUME HandshakeInv, SocketCount, MeshInv, NEW w \in Workers, ConnectNext(w)
  PROVE  MeshInv'
<1> DEFINE host == HostOf(w, NextHost(w))
           n == Len(sockets[w])
<1>1. workerPc[w] = "mesh" /\ NextHost(w) >= w
  BY DEF ConnectNext
<1>2. /\ host \in Workers /\ host > w /\ host = n
      /\ Listening(host) /\ Serving(host) /\ Serving(w)
  BY <1>1, NextListens DEF Serving
<1>3. /\ workerPc' = [workerPc EXCEPT ![w] = Meshed(n + 1)]
      /\ backlog' = [backlog EXCEPT ![host] = Append(@, w)]
      /\ sockets' = [sockets EXCEPT ![w] = Append(@, host)]
      /\ rootPc' = rootPc
  BY <1>2 DEF ConnectNext, Connect
<1> HIDE DEF host
<1>4. /\ workerPc'[w] = Meshed(n + 1)
      /\ \A v \in Workers \ {w} : workerPc'[v] = workerPc[v]
      /\ sockets'[w] = Append(sockets[w], host)
      /\ \A v \in Workers \ {w} : sockets'[v] = sockets[v]
      /\ backlog'[host] = Append(backlog[host], w)
      /\ \A v \in Workers \ {host} : backlog'[v] = backlog[v]
  BY <1>2, <1>3 DEF HandshakeInv, Shape
<1>5. /\ sockets[w] \in Seq(Peers) /\ n \in Nat \ {0} /\ sockets[w][1] = Root
      /\ backlog[host] \in Seq(Peers) /\ Len(backlog[host]) \in Nat
      /\ w \in Nat /\ n < NumWorkers
  <2>1. sockets[w] \in Seq(Peers) /\ sockets[w] # <<>> /\ sockets[w][1] = Root
    BY <1>1, MeshAfterReady
  <2>2. backlog[host] \in Seq(Peers)
    BY <1>2 DEF HandshakeInv, Shape
  <2>3. n < NumWorkers /\ w \in Nat
    BY <1>1 DEF SocketCount, Workers
  <2> QED
    BY <2>1, <2>2, <2>3
<1>6. /\ Len(sockets'[w]) = n + 1 /\ sockets'[w][n + 1] = host
      /\ \A i \in 1 .. n : sockets'[w][i] = sockets[w][i]
  BY <1>4, <1>5
<1> HIDE DEF n
<1>7. /\ Len(backlog'[host]) = Len(backlog[host]) + 1
      /\ backlog'[host][Len(backlog[host]) + 1] = w
      /\ \A i \in 1 .. Len(backlog[host]) : backlog'[host][i] = backlog[host][i]
  BY <1>4, <1>5
<1>8. \A u, v : v \in Workers /\ ConnectedTo(sockets, u, v) => ConnectedTo(sockets', u, v)
  BY <1>4, <1>5, <1>6 DEF ConnectedTo, Workers, n
<1>9. ConnectedTo(sockets', w, host) /\ ~ConnectedTo(sockets, w, host)
  BY <1>2, <1>5, <1>6 DEF ConnectedTo, n
<1>10. SocketsLead'
  <2> SUFFICES ASSUME NEW v \in Workers, NEW i \in 2 .. Len(sockets'[v])
               PROVE IF i <= v + 1 THEN ConnectedTo(sockets', sockets'[v][i], v) ELSE sockets'[v][i] = i - 1
    BY DEF SocketsLead
  <2>1. CASE v # w
    BY <1>4, <1>8, <2>1 DEF MeshInv, SocketsLead
  <2>2. CASE v = w /\ i = n + 1
    <3>1. ~(i <= v + 1) /\ sockets'[v][i] = i - 1
      BY <1>2, <1>5, <1>6, <2>2
    <3> QED
      BY <3>1
  <2>3. CASE v = w /\ i # n + 1
    <3>1. i \in 2 .. n /\ sockets'[v][i] = sockets[v][i]
      BY <1>5, <1>6, <2>3
    <3> QED
      BY <1>8, <2>3, <3>1 DEF MeshInv, SocketsLead, n
  <2> QED
    BY <2>1, <2>2, <2>3
<1>11. BacklogLeads'
  <2> SUFFICES ASSUME NEW v \in Workers, Serving(v)', NEW i \in 1 .. Len(backlog'[v])
               PROVE ConnectedTo(sockets', backlog'[v][i], v)
    BY DEF BacklogLeads
  <2>1. Serving(v)
    BY <1>1, <1>4 DEF Serving
  <2>2. CASE v # host
    BY <1>4, <1>8, <2>1, <2>2 DEF MeshInv, BacklogLeads
  <2>3. CASE v = host /\ i = Len(backlog[host]) + 1
    BY <1>7, <1>9, <2>3
  <2>4. CASE v = host /\ i # Len(backlog[host]) + 1
    <3>1. i \in 1 .. Len(backlog[host])
      BY <1>5, <1>7, <2>4
    <3> QED
      BY <1>7, <1>8, <2>1, <2>4, <3>1 DEF MeshInv, BacklogLeads
  <2> QED
    BY <2>2, <2>3, <2>4
<1>12. NobodyTwice'
  <2> SUFFICES ASSUME NEW v \in Workers, Serving(v)'
        PROVE  /\ \A i, j \in 1 .. Len(sockets'[v]) : i # j => sockets'[v][i] # sockets'[v][j]
               /\ \A i, j \in 1 .. Len(backlog'[v]) : i # j => backlog'[v][i] # backlog'[v][j]
               /\ \A i \in 1 .. Len(sockets'[v]), j \in 1 .. Len(backlog'[v]) :
                    sockets'[v][i] # backlog'[v][j]
    BY DEF NobodyTwice
  <2>1. Serving(v)
    BY <1>1, <1>4 DEF Serving
  <2>2. /\ \A i, j \in 1 .. Len(sockets[v]) : i # j => sockets[v][i] # sockets[v][j]
        /\ \A i, j \in 1 .. Len(backlog[v]) : i # j => backlog[v][i] # backlog[v][j]
        /\ \A i \in 1 .. Len(sockets[v]), j \in 1 .. Len(backlog[v]) :
             sockets[v][i] # backlog[v][j]
    BY <2>1 DEF MeshInv, NobodyTwice
  <2>3. CASE v = w
    <3>1. v # host /\ backlog'[v] = backlog[v]
      BY <1>2, <1>4, <1>5, <2>3
    <3>2. \A i \in 1 .. n : sockets[w][i] # host
      <4> SUFFICES ASSUME NEW i \in 1 .. n PROVE sockets[w][i] # host
        OBVIOUS
      <4>1. CASE i = 1
        BY <1>2, <1>5, <4>1 DEF Root, Workers
      <4>2. CASE i # 1
        <5>1. i \in 2 .. Len(sockets[w])
          BY <1>5, <4>2 DEF n
        <5>2. IF i <= w + 1 THEN ConnectedTo(sockets, sockets[w][i], w) ELSE sockets[w][i] = i - 1
          BY <5>1 DEF MeshInv, SocketsLead
        <5> QED
          BY <1>2, <1>5, <5>1, <5>2 DEF ConnectedTo, Workers, n
      <4> QED
        BY <4>1, <4>2
    <3>3. \A j \in 1 .. Len(backlog[w]) : backlog[w][j] # host
      <4> SUFFICES ASSUME NEW j \in 1 .. Len(backlog[w]) PROVE backlog[w][j] # host
        OBVIOUS
      <4>1. ConnectedTo(sockets, backlog[w][j], w)
        BY <1>2 DEF MeshInv, BacklogLeads
      <4> QED
        BY <1>2, <1>5, <4>1 DEF ConnectedTo, Workers
    <3>4. \A i, j \in 1 .. Len(sockets'[w]) : i # j => sockets'[w][i] # sockets'[w][j]
      <4>1. \A i \in 1 .. n : sockets[w][i] # sockets'[w][n + 1]
        BY <1>6, <3>2
      <4>2. \A i, j \in 1 .. n : i # j => sockets[w][i] # sockets[w][j]
        BY <2>2, <2>3 DEF n
      <4>3. \A i \in 1 .. Len(sockets'[w]) : i = n + 1 \/ i \in 1 .. n
        BY <1>5, <1>6
      <4> QED
        BY <1>6, <4>1, <4>2, <4>3
    <3>5. \A i \in 1 .. Len(sockets'[w]), j \in 1 .. Len(backlog'[w]) :
            sockets'[w][i] # backlog'[w][j]
      <4>1. \A j \in 1 .. Len(backlog[w]) : sockets'[w][n + 1] # backlog[w][j]
        BY <1>6, <3>3
      <4>2. \A i \in 1 .. n, j \in 1 .. Len(backlog[w]) : sockets[w][i] # backlog[w][j]
        BY <2>2, <2>3 DEF n
      <4>3. \A i \in 1 .. Len(sockets'[w]) : i = n + 1 \/ i \in 1 .. n
        BY <1>5, <1>6
      <4> QED
        BY <1>6, <2>3, <3>1, <4>1, <4>2, <4>3
    <3> QED
      BY <2>2, <2>3, <3>1, <3>4, <3>5
  <2>4. CASE v = host
    <3>1. v # w /\ sockets'[v] = sockets[v]
      BY <1>2, <1>4, <1>5, <2>4
    <3>2. \A i \in 1 .. Len(sockets[host]) : sockets[host][i] # w
      <4> SUFFICES ASSUME NEW i \in 1 .. Len(sockets[host]) PROVE sockets[host][i] # w
        OBVIOUS
      <4>0. Len(sockets[host]) \in Nat
        BY <1>2 DEF HandshakeInv, Shape
      <4>1. CASE i = 1
        <5>1. sockets[host] # <<>>
          BY <4>0
        <5>2. sockets[host][1] = Root
          BY <1>2, <5>1 DEF HandshakeInv, RootFirst
        <5> QED
          BY <4>1, <5>2 DEF Root, Workers
      <4>2. CASE i # 1
        <5>1. i \in 2 .. Len(sockets[host])
          BY <4>0, <4>2
        <5>2. IF i <= host + 1 THEN ConnectedTo(sockets, sockets[host][i], host) ELSE sockets[host][i] = i - 1
          BY <1>2, <5>1 DEF MeshInv, SocketsLead
        <5>3. CASE i <= host + 1
          BY <1>9, <5>2, <5>3
        <5>4. CASE ~(i <= host + 1)
          BY <1>2, <1>5, <5>1, <5>2, <5>4
        <5> QED
          BY <5>3, <5>4
      <4> QED
        BY <4>1, <4>2
    <3>3. \A j \in 1 .. Len(backlog[host]) : backlog[host][j] # w
      BY <1>2, <1>9 DEF MeshInv, BacklogLeads
    <3>4. \A i, j \in 1 .. Len(backlog'[host]) : i # j => backlog'[host][i] # backlog'[host][j]
      <4>1. \A i \in 1 .. Len(backlog[host]) :
              backlog[host][i] # backlog'[host][Len(backlog[host]) + 1]
        BY <1>7, <3>3
      <4>2. \A i, j \in 1 .. Len(backlog[host]) : i # j => backlog[host][i] # backlog[host][j]
        BY <2>2, <2>4
      <4>3. \A i \in 1 .. Len(backlog'[host]) :
              i = Len(backlog[host]) + 1 \/ i \in 1 .. Len(backlog[host])
        BY <1>5, <1>7
      <4> QED
        BY <1>7, <4>1, <4>2, <4>3
    <3>5. \A i \in 1 .. Len(sockets[host]), j \in 1 .. Len(backlog'[host]) :
            sockets[host][i] # backlog'[host][j]
      <4>1. \A i \in 1 .. Len(sockets[host]) :
              backlog'[host][Len(backlog[host]) + 1] # sockets[host][i]
        BY <1>7, <3>2
      <4>2. \A j \in 1 .. Len(backlog[host]), i \in 1 .. Len(sockets[host]) :
              backlog[host][j] # sockets[host][i]
        BY <2>2, <2>4
      <4>3. \A j \in 1 .. Len(backlog'[host]) :
              j = Len(backlog[host]) + 1 \/ j \in 1 .. Len(backlog[host])
        BY <1>5, <1>7
      <4> QED
        BY <1>7, <4>1, <4>2, <4>3
    <3> QED
      BY <2>2, <2>4, <3>1, <3>4, <3>5
  <2>5. CASE v # w /\ v # host
    BY <1>4, <2>2, <2>5
  <2> QED
    BY <2>3, <2>4, <2>5
<1>13. DoneHasAll' /\ WorkersFindEachOther'
  BY <1>3, <1>4, <1>6 DEF MeshInv, DoneHasAll, WorkersFindEachOther, Meshed
<1> QED
  BY <1>10, <1>11, <1>12, <1>13 DEF MeshInv

LEMMA MeshStep ==
  ASSUME HandshakeInv, SocketCount, MeshInv, HandshakeNext
  PROVE  MeshInv'
<1>1. CASE RootStep
  BY <1>1, MeshRootStep
<1>2. ASSUME NEW w \in Workers, WorkerStarts(w) PROVE MeshInv'
  <2>1. /\ workerPc[w] = "off" /\ workerPc'[w] = "accept"
        /\ \A v \in Workers \ {w} : workerPc'[v] = workerPc[v]
        /\ UNCHANGED <<rootPc, backlog, sockets>>
    BY <1>2 DEF WorkerStarts, HandshakeInv, Shape
  <2>2. \A v \in Workers : Serving(v)' => Serving(v) /\ backlog'[v] = backlog[v]
    BY <2>1 DEF Serving
  <2>3. DoneHasAll' /\ WorkersFindEachOther'
    BY <2>1 DEF MeshInv, DoneHasAll, WorkersFindEachOther
  <2> QED
    BY <2>1, <2>2, <2>3, NothingConnected
<1>3. ASSUME NEW w \in Workers, ReadConfig(w) \/ WaitForRoot(w) \/ RootGone(w)
      PROVE  MeshInv'
  <2>1. /\ workerPc[w] \in {"config", "ready"}
        /\ \/ workerPc'[w] = "ready"
           \/ workerPc'[w] = "failed" /\ rootPc = "failed"
           \/ workerPc[w] = "ready" /\ workerPc'[w] = Meshed(1)
        /\ \A v \in Workers \ {w} : workerPc'[v] = workerPc[v]
        /\ UNCHANGED <<rootPc, backlog, sockets>>
    BY <1>3 DEF ReadConfig, WaitForRoot, RootGone, HandshakeInv, Shape
  <2>2. \A v \in Workers : Serving(v)' => Serving(v) /\ backlog'[v] = backlog[v]
    BY <2>1 DEF Serving
  <2>3. DoneHasAll' /\ WorkersFindEachOther'
    <3>1. Len(sockets[w]) = 1
      BY <2>1 DEF SocketCount
    <3> QED
      BY <2>1, <3>1 DEF MeshInv, DoneHasAll, WorkersFindEachOther, Meshed
  <2> QED
    BY <2>1, <2>2, <2>3, NothingConnected
<1> QED
  BY <1>1, <1>2, <1>3, AcceptRootMesh, AcceptNextMesh, ConnectNextMesh
     DEF HandshakeNext, ServeStep

LEMMA MeshInvariant == HandshakeSpec => [](HandshakeInv /\ SocketCount /\ MeshInv)
<1>1. HandshakeInit => HandshakeInv /\ SocketCount /\ MeshInv
  BY InitInv, CountInit, MeshStart
<1>2. HandshakeInv /\ SocketCount /\ MeshInv /\ [HandshakeNext]_handshakeVars
        => (HandshakeInv /\ SocketCount /\ MeshInv)'
  <2>1. CASE UNCHANGED handshakeVars
    BY <2>1, StepInv DEF handshakeVars, MeshInv, SocketsLead, BacklogLeads, NobodyTwice,
       DoneHasAll, WorkersFindEachOther, ConnectedTo, Serving
  <2>2. CASE HandshakeNext
    BY <2>2, StepInv, MeshStep
  <2> QED
    BY <2>1, <2>2
<1> QED
  BY <1>1, <1>2, PTL DEF HandshakeSpec

(* No worker is refused by another, whatever their number and however they  *)
(* interleave: connectSocket of lines 289-292 finds every host listening,   *)
(* because the root's ready packet says that all are in serve, and a worker *)
(* ends serve only when everyone before it has connected.                   *)
THEOREM NoWorkerRefused == HandshakeSpec => []WorkersFindEachOther
<1>1. MeshInv => WorkersFindEachOther
  BY DEF MeshInv
<1> QED
  BY <1>1, MeshInvariant, PTL

(* What serve builds is a full mesh (lines 287-298): a worker that is       *)
(* through has exactly one socket to every other node.                      *)
THEOREM MeshIsFull == HandshakeSpec => []FullMesh
<1>1. HandshakeInv /\ MeshInv => FullMesh
  <2> SUFFICES ASSUME HandshakeInv, MeshInv, NEW w \in Workers, workerPc[w] = "done",
                      NEW p \in Peers \ {w}
               PROVE  Cardinality({i \in DOMAIN sockets[w] : sockets[w][i] = p}) = 1
    BY DEF FullMesh
  <2> DEFINE others == Peers \ {w}
  <2>1. /\ sockets[w] \in Seq(Peers) /\ Len(sockets[w]) = NumWorkers
        /\ DOMAIN sockets[w] = 1 .. NumWorkers /\ Serving(w)
    BY DEF HandshakeInv, Shape, MeshInv, DoneHasAll, Serving
  <2>2. \A i, j \in 1 .. NumWorkers : i # j => sockets[w][i] # sockets[w][j]
    BY <2>1 DEF MeshInv, NobodyTwice
  <2>3. \A i \in 1 .. NumWorkers : sockets[w][i] \in others
    <3> SUFFICES ASSUME NEW i \in 1 .. NumWorkers PROVE sockets[w][i] # w
      BY <2>1
    <3>1. CASE i = 1
      <4>1. sockets[w] # <<>>
        BY <2>1, NumWorkersAssumption
      <4> QED
        BY <3>1, <4>1 DEF HandshakeInv, RootFirst, Root, Workers
    <3>2. CASE i # 1
      <4>1. i \in 2 .. Len(sockets[w])
        BY <2>1, <3>2, NumWorkersAssumption
      <4>2. IF i <= w + 1 THEN ConnectedTo(sockets, sockets[w][i], w) ELSE sockets[w][i] = i - 1
        BY <4>1 DEF MeshInv, SocketsLead
      <4> QED
        BY <4>1, <4>2 DEF ConnectedTo, Workers
    <3> QED
      BY <3>1, <3>2
  <2>4. IsFiniteSet(others) /\ Cardinality(others) = NumWorkers
    <3>1. Peers = 0 .. NumWorkers
      BY NumWorkersAssumption DEF Peers, Workers, Root
    <3>2. IsFiniteSet(Peers) /\ Cardinality(Peers) = NumWorkers + 1
      BY <3>1, FS_Interval, NumWorkersAssumption
    <3>3. w \in Peers
      BY DEF Peers
    <3>4. IsFiniteSet(others) /\ Cardinality(others) = Cardinality(Peers) - 1
      BY <3>2, <3>3, FS_RemoveElement, Zenon
    <3> QED
      BY <3>2, <3>4, NumWorkersAssumption
  <2>5. sockets[w] \in [1 .. NumWorkers -> others]
    BY <2>1, <2>3
  <2> HIDE DEF others
  <2>6. \A q \in others : \E i \in 1 .. NumWorkers : sockets[w][i] = q
    BY <2>2, <2>4, <2>5, AllAreHit, NumWorkersAssumption
  <2>7. PICK i \in 1 .. NumWorkers : sockets[w][i] = p
    BY <2>6 DEF others
  <2>8. {j \in DOMAIN sockets[w] : sockets[w][j] = p} = {i}
    BY <2>1, <2>2, <2>7
  <2> QED
    BY <2>8, FS_Singleton
<1> QED
  BY <1>1, MeshInvariant, PTL
=============================================================================
