------------------------------ MODULE NodeSync ------------------------------
(***************************************************************************)
(* How the nodes exchange the results of their slices during a forward     *)
(* pass: NnNetworkNodeSynchronizer::sync, syncWithRoot and syncNodeSlices  *)
(* (src/src/nn/nn-network.cpp:409-481, 500-591), run by the threads of the *)
(* executor (src/src/nn/nn-executor.cpp:149-198).                          *)
(*                                                                         *)
(* Each node has a list of sync steps.  In a step every thread takes every *)
(* NumThreads-th socket and, row of the batch by row, first writes the     *)
(* node's own slice to all its sockets (writeMany) and then reads the      *)
(* slices of the peers from them (readMany).  The node goes on when all    *)
(* its threads are done.  There is no acknowledgement: a connection holds  *)
(* what was written until it is read, as far as its buffers allow.         *)
(*                                                                         *)
(* A thread of the program (threadIndex) is a task for the arena, which    *)
(* has at most NumThreads OS threads, and may have fewer.  An OS thread    *)
(* that takes a task runs it to its end, waiting at the sockets included,  *)
(* before it takes another one.                                            *)
(*                                                                         *)
(* A slice is Units pieces of at most MAX_CHUNK_SIZE bytes; a piece is     *)
(* modelled by where it belongs, <<step, row, unit>>, and the connection   *)
(* it travels on says whose slice it is part of.                           *)
(***************************************************************************)
EXTENDS Integers, Sequences, FiniteSets

CONSTANTS
  NumNodes,     \* netConfig->nNodes; node 0 is the root
  NumThreads,   \* NumThreads[n]: execution->nThreads of node n
  BatchSize,    \* execution->batchSize
  Syncs,        \* the types of the sync steps, in the order of the segments
  Units,        \* pieces per slice
  Capacity      \* pieces that the buffers of one connection hold

ASSUME SyncAssumption ==
  /\ NumNodes \in Nat \ {0, 1}
  /\ NumThreads \in [0 .. (NumNodes - 1) -> Nat \ {0}]
  /\ BatchSize \in Nat \ {0}
  /\ Syncs \in Seq({"SYNC_WITH_ROOT", "SYNC_NODE_SLICES", "SYNC_NODE_SLICES_EXCEPT_ROOT"})
  /\ Units \in Nat \ {0}
  /\ Capacity \in Nat \ {0}

Nodes == 0 .. (NumNodes - 1)

Threads(n) == 0 .. (NumThreads[n] - 1)

VARIABLES
  at,       \* at[n]: the sync step node n is in
  task,     \* task[n][t]: where thread t of node n is in its step
  taken,    \* taken[n]: the threads an OS thread of the arena has begun to run
  pipe,     \* pipe[n][row][j]: what node n has read of slice j of a row
  chan,     \* chan[m][n]: written by m, not read by n
  turbo     \* turbo[n]: the sockets of n are non-blocking

syncVars == <<at, task, taken, pipe, chan, turbo>>

-----------------------------------------------------------------------------
(* The sockets of a thread, and which slice a socket carries                *)

Peer(n, s) == IF s >= n THEN s + 1 ELSE s

Type(k) == IF k \in DOMAIN Syncs THEN Syncs[k] ELSE "END"

NumSockets(n, k) ==
  IF Type(k) # "SYNC_NODE_SLICES" /\ n # 0 THEN 1 ELSE NumNodes - 1

(* mutant of SocketsPerThread: the rest goes to one thread too many         *)
SocketsPerThreadAtLeast(nSockets, n, t) ==
  nSockets \div NumThreads[n] + IF nSockets % NumThreads[n] >= t THEN 1 ELSE 0

SocketsPerThread(nSockets, n, t) ==
  nSockets \div NumThreads[n] + IF nSockets % NumThreads[n] > t THEN 1 ELSE 0

Mine(n, t, k) ==
  {t + i * NumThreads[n] : i \in 0 .. (SocketsPerThread(NumSockets(n, k), n, t) - 1)}

Writes(n, k) == Type(k) = "SYNC_NODE_SLICES" \/ (n = 0) = (Type(k) = "SYNC_WITH_ROOT")

Reads(n, k) == Type(k) = "SYNC_NODE_SLICES" \/ (n = 0) # (Type(k) = "SYNC_WITH_ROOT")

(* The task of a thread for one row: all pieces to write, then all to read  *)
Begun(n, t, k, row, phase) ==
  [phase |-> phase, row |-> row, todo |-> [s \in Mine(n, t, k) |-> Units]]

Finished(row) == [phase |-> "done", row |-> row, todo |-> <<>>]

(* mutant of FirstPhase: the slices of the others are read first            *)
ReadFirst(n, k) == IF Reads(n, k) THEN "read" ELSE "write"

FirstPhase(n, k) == IF Writes(n, k) THEN "write" ELSE "read"

FirstTask(n, t, k) ==
  IF k \in DOMAIN Syncs /\ Mine(n, t, k) # {}
  THEN Begun(n, t, k, 1, FirstPhase(n, k)) ELSE Finished(BatchSize)

(* the thread has only done the first half of its row *)
HalfWay(n, t) ==
  /\ task[n][t].phase = FirstPhase(n, at[n])
  /\ Writes(n, at[n]) /\ Reads(n, at[n])

(* mutant of NextRow: the batch is one row                                  *)
OneRow(n, t, k) == Finished(task[n][t].row)

NextRow(n, t, k) ==
  IF task[n][t].row < BatchSize
  THEN Begun(n, t, k, task[n][t].row + 1, FirstPhase(n, k))
  ELSE Finished(BatchSize)

NextTask(n, t) ==
  IF HalfWay(n, t)
  THEN Begun(n, t, at[n], task[n][t].row, IF task[n][t].phase = "write" THEN "read" ELSE "write")
  ELSE NextRow(n, t, at[n])

EmptyPipe == [row \in 1 .. BatchSize |-> [j \in Nodes |-> <<>>]]

SyncInit ==
  /\ at = [n \in Nodes |-> 1]
  /\ task = [n \in Nodes |-> [t \in Threads(n) |-> FirstTask(n, t, 1)]]
  /\ taken = [n \in Nodes |-> {}]
  /\ pipe = [n \in Nodes |-> EmptyPipe]
  /\ chan = [m \in Nodes |-> [n \in Nodes \ {m} |-> <<>>]]
  /\ turbo \in [Nodes -> BOOLEAN]

-----------------------------------------------------------------------------
(***************************************************************************)
(* writeMany and readMany go round the sockets.  A non-blocking socket that *)
(* is not ready is skipped (EAGAIN); on a blocking one the thread waits.    *)
(***************************************************************************)

Pending(n, t) == {s \in DOMAIN task[n][t].todo : task[n][t].todo[s] > 0}

InTurn(n, t, s) ==
  LET todo == task[n][t].todo
  IN  /\ s \in Pending(n, t)
      /\ turbo[n] \/ \A r \in Pending(n, t) :
           todo[r] < todo[s] \/ (todo[r] = todo[s] /\ s <= r)

Less(todo, s) == [todo EXCEPT !.todo[s] = @ - 1]

(* One piece of socket s is done; with the last piece the task goes on.     *)
Piece(n, t, s) ==
  task' = [task EXCEPT ![n][t] =
             IF Pending(n, t) = {s} /\ task[n][t].todo[s] = 1 THEN NextTask(n, t)
             ELSE Less(task[n][t], s)]

UnitOf(n, t, s) == Units - task[n][t].todo[s] + 1

Send(n, t, s) ==
  /\ task[n][t].phase = "write"
  /\ InTurn(n, t, s)
  /\ Len(chan[n][Peer(n, s)]) < Capacity
  /\ chan' = [chan EXCEPT ![n][Peer(n, s)] =
                Append(@, <<at[n], task[n][t].row, UnitOf(n, t, s)>>)]
  /\ Piece(n, t, s)
  /\ UNCHANGED <<at, taken, pipe, turbo>>

(* What is read goes where the slice of the peer belongs; what the root     *)
(* sends with SYNC_WITH_ROOT is the whole row and is kept as slice 0.       *)
Recv(n, t, s) ==
  /\ task[n][t].phase = "read"
  /\ InTurn(n, t, s)
  /\ chan[Peer(n, s)][n] # <<>>
  /\ pipe' = [pipe EXCEPT ![n][task[n][t].row][Peer(n, s)] =
                Append(@, Head(chan[Peer(n, s)][n]))]
  /\ chan' = [chan EXCEPT ![Peer(n, s)][n] = Tail(@)]
  /\ Piece(n, t, s)
  /\ UNCHANGED <<at, taken, turbo>>

-----------------------------------------------------------------------------
(***************************************************************************)
(* The arena: parallel_for (lines 178-193) offers a step's tasks to at most *)
(* nThreads OS threads (set_max_concurrency, 122-124).  A thread without a  *)
(* socket returns at once and is not told from one that has returned.       *)
(***************************************************************************)

Unfinished(n, t) == task[n][t].phase # "done"

Takes(n, t) ==
  /\ t \notin taken[n] /\ Unfinished(n, t)
  /\ taken' = [taken EXCEPT ![n] = @ \cup {t}]
  /\ UNCHANGED <<at, task, pipe, chan, turbo>>

(* No OS thread of the arena is at work on a task.                          *)
Idle(n) == \A t \in taken[n] : ~Unfinished(n, t)

(* mutant of AllDone: the node goes on when its first thread is done        *)
FirstDone(n) == task[n][0].phase = "done"

AllDone(n) == \A t \in Threads(n) : task[n][t].phase = "done"

(* parallel_for returns when all threads are done; the operations up to the *)
(* next sync step compute new slices from what was gathered.                *)
NextStep(n) ==
  /\ at[n] \in DOMAIN Syncs
  /\ AllDone(n)
  /\ at' = [at EXCEPT ![n] = @ + 1]
  /\ task' = [task EXCEPT ![n] = [t \in Threads(n) |-> FirstTask(n, t, at[n] + 1)]]
  /\ taken' = [taken EXCEPT ![n] = {}]
  /\ pipe' = [pipe EXCEPT ![n] = EmptyPipe]
  /\ UNCHANGED <<chan, turbo>>

ForwardDone == \A n \in Nodes : at[n] \notin DOMAIN Syncs

ThreadStep(n, t) ==
  t \in taken[n] /\ \E s \in DOMAIN task[n][t].todo : Send(n, t, s) \/ Recv(n, t, s)

SyncNext ==
  \/ \E n \in Nodes : NextStep(n)
  \/ \E n \in Nodes : \E t \in Threads(n) : Takes(n, t) \/ ThreadStep(n, t)

SyncSpec == SyncInit /\ [][SyncNext]_syncVars

(* An OS thread goes on with the task it has taken, and an idle arena takes *)
(* one of those that are left.  Nothing says that a second OS thread joins. *)
FairSyncSpec ==
  /\ SyncSpec
  /\ \A n \in Nodes :
       /\ WF_syncVars(NextStep(n))
       /\ WF_syncVars(Idle(n) /\ \E t \in Threads(n) : Takes(n, t))
       /\ \A t \in Threads(n) : WF_syncVars(ThreadStep(n, t))

-----------------------------------------------------------------------------
(* Properties                                                               *)

(* The nodes whose results node n gathers in step k                         *)
Sources(n, k) ==
  CASE Type(k) = "SYNC_NODE_SLICES" -> Nodes \ {n}
    [] Type(k) = "SYNC_WITH_ROOT" -> IF n = 0 THEN {} ELSE {0}
    [] Type(k) = "SYNC_NODE_SLICES_EXCEPT_ROOT" -> IF n = 0 THEN Nodes \ {0} ELSE {}
    [] OTHER -> {}

(* The shape of the state; no connection holds more than its buffers.       *)
SyncTypeOK ==
  /\ at \in [Nodes -> 1 .. (Len(Syncs) + 1)]
  /\ \A n \in Nodes : \A t \in Threads(n) :
       /\ task[n][t].phase \in {"write", "read", "done"}
       /\ task[n][t].row \in 1 .. BatchSize
       /\ DOMAIN task[n][t].todo \subseteq 0 .. (NumNodes - 2)
  /\ \A n \in Nodes : taken[n] \subseteq Threads(n)
  /\ \A m \in Nodes : \A n \in Nodes \ {m} : Len(chan[m][n]) <= Capacity

(* No two threads of a node use the same socket, so the pieces of a slice   *)
(* are never interleaved with those of another, and every socket the step   *)
(* needs has a thread (the division of nn-network.cpp:504, 530).            *)
SocketsPartitioned ==
  \A n \in Nodes : LET k == at[n] IN k \in DOMAIN Syncs =>
    /\ \A t, u \in Threads(n) : t # u => Mine(n, t, k) \cap Mine(n, u, k) = {}
    /\ UNION {Mine(n, t, k) : t \in Threads(n)} = 0 .. (NumSockets(n, k) - 1)

(* A node leaves a sync step with the slices of this very step, row by row  *)
(* and piece by piece, of all the nodes it gathers from and of no other.    *)
(* Nothing on the wire says which step, row or slice a piece is of: that it *)
(* is the right one rests on the order of writes and reads on each side     *)
(* (nn-network.cpp:536-558).                                                *)
SlicesGathered ==
  \A n \in Nodes : at[n] \in DOMAIN Syncs /\ AllDone(n) =>
    \A row \in 1 .. BatchSize, j \in Nodes :
      pipe[n][row][j] = IF j \in Sources(n, at[n])
                        THEN [u \in 1 .. Units |-> <<at[n], row, u>>] ELSE <<>>

(* Nothing is left on the wire when the forward pass is over: the next      *)
(* packet of each connection is the next thing written to it.               *)
WireIsClean ==
  ForwardDone => \A m \in Nodes : \A n \in Nodes \ {m} : chan[m][n] = <<>>

(* A node leaves a step only after every node it gathers from has entered   *)
(* it: the sync steps order the forward passes of the nodes.                *)
Collective ==
  INSTANCE Collective WITH at <- at

GathersInOrder == Collective!CollectiveSpec

(* A task of node n waits for an OS thread, and none comes.                 *)
HeldUp(n) == \E t \in Threads(n) \ taken[n] : Unfinished(n, t)

(* Tasks that run never wait in a circle for room in, or for data from, one *)
(* another: the forward pass ends on every node, unless a task is held up   *)
(* for ever because the arena runs the tasks of a node one after another    *)
(* (nn-executor.cpp:122-124, 178).  A node with one thread, or with as many *)
(* OS threads as tasks, holds up none.                                      *)
ForwardEnds == <>ForwardDone \/ \E n \in Nodes : <>[]HeldUp(n)

=============================================================================
