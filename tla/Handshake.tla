----------------------------- MODULE Handshake ------------------------------
(***************************************************************************)
(* How the nodes find each other: NnNetwork::connect on the root and       *)
(* NnNetwork::serve on the workers (src/src/nn/nn-network.cpp:254-338).    *)
(*                                                                         *)
(* The root connects to the workers one after the other, sends each its    *)
(* index and the addresses of the others, and waits for its ack.  When all *)
(* have acked it sends a second ack, "root is ready", and every worker     *)
(* connects to the workers after it and accepts those before it.           *)
(*                                                                         *)
(* A connection is established as soon as the kernel of the listening side *)
(* has queued it (backlog), before the program accepts it, so connections  *)
(* reach accept in the order in which they were made, whoever made them.   *)
(***************************************************************************)
EXTENDS Naturals, Sequences, FiniteSets

CONSTANT NumWorkers

ASSUME NumWorkersAssumption == NumWorkers \in Nat \ {0}

Workers == 0 .. (NumWorkers - 1)

Root == NumWorkers

VARIABLES
  rootPc,     \* "connect", "config", "ready", "done" or "failed"
  rootAt,     \* the loop index of the root
  workerPc,   \* "off", "accept", "config", "ready", "mesh", "done" or "failed"
  backlog,    \* connections made to a worker that it has not accepted
  toWorker,   \* bytes sent by the root and not read, per worker
  toRoot,     \* bytes sent by a worker to the root and not read
  sockets     \* sockets[w]: the peers of worker w, by socket index + 1

handshakeVars == <<rootPc, rootAt, workerPc, backlog, toWorker, toRoot, sockets>>

HandshakeInit ==
  /\ rootPc = "connect"
  /\ rootAt = 0
  /\ workerPc = [w \in Workers |-> "off"]
  /\ backlog = [w \in Workers |-> <<>>]
  /\ toWorker = [w \in Workers |-> <<>>]
  /\ toRoot = [w \in Workers |-> <<>>]
  /\ sockets = [w \in Workers |-> <<>>]

Listening(w) == workerPc[w] \in {"accept", "config", "ready", "mesh"}

Connect(who, w) == backlog' = [backlog EXCEPT ![w] = Append(@, who)]

-----------------------------------------------------------------------------
(* The root                                                                 *)

(* connectSocket and the writes of the configuration (lines 316-329)        *)
RootConnects ==
  /\ rootPc = "connect"
  /\ Listening(rootAt)
  /\ Connect(Root, rootAt)
  /\ toWorker' = [toWorker EXCEPT ![rootAt] = Append(@, "config")]
  /\ rootPc' = "config"
  /\ UNCHANGED <<rootAt, workerPc, toRoot, sockets>>

(* Nobody listens on the port: connectSocket throws and the program ends.   *)
RootRefused ==
  /\ rootPc = "connect"
  /\ ~Listening(rootAt)
  /\ rootPc' = "failed"
  /\ UNCHANGED <<rootAt, workerPc, backlog, toWorker, toRoot, sockets>>

(* Mutant of RootReadsAck: the loop runs once too often.                    *)
RootReadsAckPastLast ==
  /\ rootPc = "config"
  /\ toRoot[rootAt] # <<>>
  /\ toRoot' = [toRoot EXCEPT ![rootAt] = Tail(@)]
  /\ IF rootAt + 1 <= NumWorkers
     THEN rootAt' = rootAt + 1 /\ rootPc' = "connect"
     ELSE rootAt' = 0 /\ rootPc' = "ready"
  /\ UNCHANGED <<workerPc, backlog, toWorker, sockets>>

(* readAck (line 330), then the next worker or the second loop              *)
RootReadsAck ==
  /\ rootPc = "config"
  /\ toRoot[rootAt] # <<>>
  /\ toRoot' = [toRoot EXCEPT ![rootAt] = Tail(@)]
  /\ IF rootAt + 1 < NumWorkers
     THEN rootAt' = rootAt + 1 /\ rootPc' = "connect"
     ELSE rootAt' = 0 /\ rootPc' = "ready"
  /\ UNCHANGED <<workerPc, backlog, toWorker, sockets>>

(* "root is ready" (lines 333-335)                                          *)
RootReady ==
  /\ rootPc = "ready"
  /\ toWorker' = [toWorker EXCEPT ![rootAt] = Append(@, "ready")]
  /\ IF rootAt + 1 < NumWorkers
     THEN rootAt' = rootAt + 1 /\ UNCHANGED rootPc
     ELSE rootPc' = "done" /\ UNCHANGED rootAt
  /\ UNCHANGED <<workerPc, backlog, toRoot, sockets>>

-----------------------------------------------------------------------------
(* A worker w, whose nodeIndex is w                                         *)

WorkerStarts(w) ==
  /\ workerPc[w] = "off"
  /\ workerPc' = [workerPc EXCEPT ![w] = "accept"]
  /\ UNCHANGED <<rootPc, rootAt, backlog, toWorker, toRoot, sockets>>

Accept(w) ==
  /\ backlog[w] # <<>>
  /\ sockets' = [sockets EXCEPT ![w] = Append(@, Head(backlog[w]))]
  /\ backlog' = [backlog EXCEPT ![w] = Tail(@)]

(* The first connection is taken for the root's (lines 259-260).            *)
AcceptRoot(w) ==
  /\ workerPc[w] = "accept"
  /\ Accept(w)
  /\ workerPc' = [workerPc EXCEPT ![w] = "config"]
  /\ UNCHANGED <<rootPc, rootAt, toWorker, toRoot>>

Meshed(n) == IF n = NumWorkers THEN "done" ELSE "mesh"

(* Mutant of ReadConfig: the worker does not wait for "root is ready".      *)
ReadConfigAndMesh(w) ==
  /\ workerPc[w] = "config"
  /\ toWorker[w] # <<>>
  /\ toWorker' = [toWorker EXCEPT ![w] = Tail(@)]
  /\ toRoot' = [toRoot EXCEPT ![w] = Append(@, "ack")]
  /\ workerPc' = [workerPc EXCEPT ![w] = Meshed(1)]
  /\ UNCHANGED <<rootPc, rootAt, backlog, sockets>>

(* Mutant of ReadConfig: no ack.                                            *)
ReadConfigWithoutAck(w) ==
  /\ workerPc[w] = "config"
  /\ toWorker[w] # <<>>
  /\ toWorker' = [toWorker EXCEPT ![w] = Tail(@)]
  /\ workerPc' = [workerPc EXCEPT ![w] = "ready"]
  /\ UNCHANGED <<rootPc, rootAt, backlog, toRoot, sockets>>

(* The configuration is read and acked (lines 262-282).                     *)
ReadConfig(w) ==
  /\ workerPc[w] = "config"
  /\ toWorker[w] # <<>>
  /\ toWorker' = [toWorker EXCEPT ![w] = Tail(@)]
  /\ toRoot' = [toRoot EXCEPT ![w] = Append(@, "ack")]
  /\ workerPc' = [workerPc EXCEPT ![w] = "ready"]
  /\ UNCHANGED <<rootPc, rootAt, backlog, sockets>>

(* "We need to wait here until the root node will send a 'root is ready'    *)
(* packet" (line 285)                                                       *)
WaitForRoot(w) ==
  /\ workerPc[w] = "ready"
  /\ toWorker[w] # <<>>
  /\ toWorker' = [toWorker EXCEPT ![w] = Tail(@)]
  /\ workerPc' = [workerPc EXCEPT ![w] = Meshed(1)]
  /\ UNCHANGED <<rootPc, rootAt, backlog, toRoot, sockets>>

HostOfAll(w, i) == i                                    \* mutant of HostOf

(* The address list of worker w leaves w itself out.                        *)
HostOf(w, i) == IF i < w THEN i ELSE i + 1

NextHost(w) == Len(sockets[w]) - 1

(* lines 289-292 *)
ConnectNext(w) ==
  /\ workerPc[w] = "mesh"
  /\ NextHost(w) >= w
  /\ LET host == HostOf(w, NextHost(w))
     IN  IF Listening(host)
         THEN /\ Connect(w, host)
              /\ sockets' = [sockets EXCEPT ![w] = Append(@, host)]
              /\ workerPc' = [workerPc EXCEPT ![w] = Meshed(Len(sockets[w]) + 1)]
         ELSE /\ workerPc' = [workerPc EXCEPT ![w] = "failed"]
              /\ UNCHANGED <<backlog, sockets>>
  /\ UNCHANGED <<rootPc, rootAt, toWorker, toRoot>>

(* lines 293-297 *)
AcceptNext(w) ==
  /\ workerPc[w] = "mesh"
  /\ NextHost(w) < w
  /\ Accept(w)
  /\ workerPc' = [workerPc EXCEPT ![w] = Meshed(Len(sockets[w]) + 1)]
  /\ UNCHANGED <<rootPc, rootAt, toWorker, toRoot>>

(* The root has ended: its connection reads as closed once what it sent is  *)
(* read, and serve throws out of runWorkerApp.                              *)
RootGone(w) ==
  /\ rootPc = "failed"
  /\ workerPc[w] \in {"config", "ready"}
  /\ toWorker[w] = <<>>
  /\ workerPc' = [workerPc EXCEPT ![w] = "failed"]
  /\ UNCHANGED <<rootPc, rootAt, backlog, toWorker, toRoot, sockets>>

-----------------------------------------------------------------------------

RootStep == RootConnects \/ RootRefused \/ RootReadsAck \/ RootReady

ServeStep(w) ==
  \/ AcceptRoot(w)
  \/ ReadConfig(w)
  \/ WaitForRoot(w)
  \/ ConnectNext(w)
  \/ AcceptNext(w)
  \/ RootGone(w)

HandshakeNext ==
  \/ RootStep
  \/ \E w \in Workers : WorkerStarts(w) \/ ServeStep(w)

HandshakeSpec == HandshakeInit /\ [][HandshakeNext]_handshakeVars

(* Processes that were started are scheduled; nobody has to start a worker. *)
FairHandshakeSpec ==
  /\ HandshakeSpec
  /\ WF_handshakeVars(RootStep)
  /\ \A w \in Workers : WF_handshakeVars(ServeStep(w))

-----------------------------------------------------------------------------
Peers == Workers \cup {Root}

(* The shape of the state; a worker never has more sockets than peers.      *)
HandshakeTypeOK ==
  /\ rootPc \in {"connect", "config", "ready", "done", "failed"}
  /\ rootAt \in Workers
  /\ workerPc \in [Workers -> {"off", "accept", "config", "ready", "mesh", "done", "failed"}]
  /\ backlog \in [Workers -> Seq(Peers)]
  /\ toWorker \in [Workers -> Seq({"config", "ready"})]
  /\ toRoot \in [Workers -> Seq({"ack"})]
  /\ sockets \in [Workers -> Seq(Peers)]
  /\ \A w \in Workers : Len(sockets[w]) <= NumWorkers

(* The connection a worker takes for the root's is the root's (lines        *)
(* 259-260): no other worker connects before the root has configured all.   *)
RootSocketIsRoot ==
  \A w \in Workers : sockets[w] # <<>> => sockets[w][1] = Root

(* An established network is a full mesh: each worker has exactly one       *)
(* socket to every other node (lines 287-298).                              *)
FullMesh ==
  \A w \in Workers : workerPc[w] = "done" =>
    \A p \in Peers \ {w} :
      Cardinality({i \in DOMAIN sockets[w] : sockets[w][i] = p}) = 1

(* No worker is refused by another: the ready packet says that all listen.  *)
WorkersFindEachOther ==
  \A w \in Workers : workerPc[w] = "failed" => rootPc = "failed"

(* The socket a worker logs as "Socket[%d]: wait for %s:%d worker" and then *)
(* accepts is that worker's (nn-network.cpp:294-296): socket i + 1 of a     *)
(* worker leads to the i-th host of its list, as syncNodeSlices assumes     *)
(* (:551).                                                                  *)
SocketsInOrder ==
  \A w \in Workers : \A i \in 2 .. Len(sockets[w]) :
    sockets[w][i] = HostOf(w, i - 2)

(* If all workers listen before the root starts, the network comes up.      *)
NetworkComesUp ==
  (/\ rootPc = "connect" /\ rootAt = 0
   /\ \A w \in Workers : workerPc[w] = "accept")
    ~> (rootPc = "done" /\ \A w \in Workers : workerPc[w] = "done")

=============================================================================
