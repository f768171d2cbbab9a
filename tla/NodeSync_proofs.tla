---------------------------- MODULE NodeSync_proofs -------------------------
(***************************************************************************)
(* Proofs about NodeSync, for every number of nodes, threads, slices and   *)
(* pieces, every capacity of the sockets and every list of operations.     *)
(*                                                                         *)
(* SyncInv says of each connection what it carries: the pieces that lie    *)
(* between the place of the thread that reads it and the place of the      *)
(* thread that writes it, in the order of operation, slice and piece, and  *)
(* nothing else.  A place counts operations before slices before pieces,   *)
(* so the two ends may be in different operations.  Only so is it known    *)
(* that the next piece a thread reads is the one that it waits for; what   *)
(* a buffer holds, that no slice is read by two threads and that nothing   *)
(* is left on the wire at the end all follow from it.                      *)
(***************************************************************************)
EXTENDS NodeSync, SequenceTheorems, TLAPS

(* Pieces, in the order in which they are written and read                  *)

Steps == 1 .. Len(Syncs)

Places == Steps \X (1 .. BatchSize) \X (1 .. Units)

Before(p, q) ==
  \/ p[1] < q[1]
  \/ p[1] = q[1] /\ p[2] < q[2]
  \/ p[1] = q[1] /\ p[2] = q[2] /\ p[3] < q[3]

(* What node m writes to node n in the whole of a forward pass              *)
Stream(m, n) == {p \in Places : m \in Sources(n, p[1])}

(* How far a task has written to its socket s, and read from it: up to and  *)
(* with this place.  used: the slice is exchanged in this step at all.      *)
WrittenBy(todo, k, s, used) ==
  IF ~used THEN <<k, BatchSize, Units>>
  ELSE <<k, todo.row, IF todo.phase = "write" THEN Units - todo.todo[s] ELSE Units>>

ReadBy(todo, k, s, used) ==
  IF ~used THEN <<k, BatchSize, Units>>
  ELSE <<k, todo.row, IF todo.phase = "write" THEN 0
                      ELSE IF todo.phase = "read" THEN Units - todo.todo[s] ELSE Units>>

(* The socket of n to j, and the thread that has it                         *)
Socket(n, j) == IF j > n THEN j - 1 ELSE j

Owner(n, j) == Socket(n, j) % NumThreads[n]

TaskFor(n, j) == task[n][Owner(n, j)]

Written(m, n) == WrittenBy(TaskFor(m, n), at[m], Socket(m, n), m \in Sources(n, at[m]))

Read(n, m) == ReadBy(TaskFor(n, m), at[n], Socket(n, m), m \in Sources(n, at[n]))

(* c carries what is written and not read, in order; from is the last place *)
(* that is read, to the last that is written.                               *)
InOrder(c) == \A i, j \in 1 .. Len(c) : i < j => Before(c[i], c[j])

Between(p, from, to) == Before(from, p) /\ ~Before(to, p)

Carries(m, n, c, from, to) ==
  /\ c \in Seq(Stream(m, n))
  /\ InOrder(c)
  /\ \A i \in 1 .. Len(c) : Between(c[i], from, to)
  /\ \A p \in Stream(m, n) : Between(p, from, to) => \E i \in 1 .. Len(c) : c[i] = p
  /\ \A p \in Stream(m, n) : ~Before(from, p) => ~Before(to, p)

Connections ==
  \A m \in Nodes : \A n \in Nodes \ {m} :
    Carries(m, n, chan[m][n], Read(n, m), Written(m, n))

(* A task under way has something left to do, in a direction of its step    *)
TaskIs(n, t, k, todo) ==
  \/ todo = Finished(BatchSize)
  \/ /\ todo.phase \in {"write", "read"}
     /\ todo.phase = "write" => Writes(n, k)
     /\ todo.phase = "read" => Reads(n, k)
     /\ k \in Steps
     /\ todo = [phase |-> todo.phase, row |-> todo.row, todo |-> todo.todo]
     /\ todo.row \in 1 .. BatchSize
     /\ todo.todo \in [Mine(n, t, k) -> 0 .. Units]
     /\ \E s \in Mine(n, t, k) : todo.todo[s] > 0

Tasks ==
  /\ task = [n \in Nodes |-> [t \in Threads(n) |-> task[n][t]]]
  /\ \A n \in Nodes : \A t \in Threads(n) : TaskIs(n, t, at[n], task[n][t])

(* The pieces of a row that a node has when it has read up to a place       *)
UpTo(row, read) ==
  IF row < read[2] THEN Units ELSE IF row = read[2] THEN read[3] ELSE 0

Slice(k, row, u) == [i \in 1 .. u |-> <<k, row, i>>]

Gathered ==
  /\ pipe = [n \in Nodes |-> [row \in 1 .. BatchSize |-> [j \in Nodes |-> pipe[n][row][j]]]]
  /\ \A n \in Nodes : \A row \in 1 .. BatchSize : \A j \in Nodes :
       pipe[n][row][j] =
         IF j \in Sources(n, at[n]) THEN Slice(at[n], row, UpTo(row, Read(n, j))) ELSE <<>>

Buffers ==
  /\ chan = [m \in Nodes |-> [n \in Nodes \ {m} |-> chan[m][n]]]
  /\ \A m \in Nodes : \A n \in Nodes \ {m} : Len(chan[m][n]) <= Capacity

SyncInv ==
  /\ at \in [Nodes -> 1 .. (Len(Syncs) + 1)]
  /\ Tasks /\ Buffers /\ Connections /\ Gathered

-----------------------------------------------------------------------------
(* The order of the places                                                  *)

Marks == Nat \X Nat \X Nat

LEMMA PlacesAreMarks ==
  ASSUME NEW m, NEW n
  PROVE  Stream(m, n) \subseteq Places /\ Places \subseteq Marks
<1>1. Len(Syncs) \in Nat /\ BatchSize \in Nat /\ Units \in Nat
  BY SyncAssumption
<1>2. Steps \subseteq Nat /\ 1 .. BatchSize \subseteq Nat /\ 1 .. Units \subseteq Nat
  BY <1>1 DEF Steps
<1> QED
  BY <1>2 DEF Stream, Places, Marks

LEMMA OrderTotal ==
  ASSUME NEW p \in Marks, NEW q \in Marks
  PROVE  Before(p, q) \/ Before(q, p) \/ p = q
<1>1. p[1] = q[1] /\ p[2] = q[2] /\ p[3] = q[3] => p = q
  BY DEF Marks
<1> QED
  BY <1>1 DEF Marks, Before

LEMMA OrderStrict ==
  ASSUME NEW p \in Marks, NEW q \in Marks, Before(p, q)
  PROVE  ~Before(q, p) /\ p # q
BY DEF Marks, Before

LEMMA OrderTransitive ==
  ASSUME NEW p \in Marks, NEW q \in Marks, NEW r \in Marks,
         ~Before(q, p), Before(q, r) \/ ~Before(r, q)
  PROVE  /\ ~Before(r, p)
         /\ Before(q, r) => Before(p, r)
         /\ Before(p, q) /\ ~Before(r, q) => Before(p, r)
BY DEF Marks, Before

-----------------------------------------------------------------------------
(* What a connection carries                                                *)

(* Two places that no piece of the stream is between                        *)
Same(S, a, b) == \A p \in S : Before(a, p) <=> Before(b, p)

(* p is the first piece of S after a place                                  *)
First(S, a, p) == Before(a, p) /\ \A q \in S : Before(a, q) => ~Before(q, p)

LEMMA CarriesSame ==
  ASSUME NEW m, NEW n, NEW c, NEW from, NEW to, NEW from1, NEW to1,
         Carries(m, n, c, from, to), Same(Stream(m, n), from, from1), Same(Stream(m, n), to, to1)
  PROVE  Carries(m, n, c, from1, to1)
<1>1. \A p \in Stream(m, n) : Between(p, from, to) <=> Between(p, from1, to1)
  BY DEF Same, Between
<1>2. /\ c \in Seq(Stream(m, n)) /\ InOrder(c)
      /\ \A i \in 1 .. Len(c) : Between(c[i], from, to)
      /\ \A p \in Stream(m, n) : Between(p, from, to) => \E i \in 1 .. Len(c) : c[i] = p
      /\ \A p \in Stream(m, n) : ~Before(from, p) => ~Before(to, p)
  BY DEF Carries
<1>3. \A i \in 1 .. Len(c) : c[i] \in Stream(m, n)
  BY <1>2
<1>4. \A i \in 1 .. Len(c) : Between(c[i], from1, to1)
  BY <1>1, <1>2, <1>3
<1>5. \A p \in Stream(m, n) : ~Before(from1, p) => ~Before(to1, p)
  BY <1>2 DEF Same
<1> QED
  BY <1>1, <1>2, <1>4, <1>5 DEF Carries

LEMMA CarriesOneMore ==
  ASSUME NEW m, NEW n, NEW c, NEW from \in Marks, NEW to \in Marks,
         Carries(m, n, c, from, to), NEW p \in Stream(m, n), First(Stream(m, n), to, p)
  PROVE  Carries(m, n, Append(c, p), from, p)
<1> DEFINE S == Stream(m, n)
           d == Append(c, p)
<1>1. /\ c \in Seq(S) /\ InOrder(c)
      /\ \A i \in 1 .. Len(c) : Between(c[i], from, to)
      /\ \A q \in S : Between(q, from, to) => \E i \in 1 .. Len(c) : c[i] = q
      /\ \A q \in S : ~Before(from, q) => ~Before(to, q)
  BY DEF Carries
<1>2. p \in S /\ S \subseteq Marks /\ Before(to, p) /\ \A q \in S : Before(to, q) => ~Before(q, p)
  BY PlacesAreMarks DEF First
<1> HIDE DEF S
<1>3. /\ d \in Seq(S) /\ Len(d) = Len(c) + 1 /\ d[Len(c) + 1] = p
      /\ \A i \in 1 .. Len(c) : d[i] = c[i]
      /\ Len(c) \in Nat
  BY <1>1, <1>2
<1>4. \A i \in 1 .. Len(d) : i = Len(c) + 1 \/ i \in 1 .. Len(c)
  BY <1>3
<1> HIDE DEF d
<1>5. \A i \in 1 .. Len(c) : c[i] \in Marks /\ c[i] \in S
  BY <1>1, <1>2
<1>6. \A i \in 1 .. Len(c) : Before(c[i], p)
  <2>1. ASSUME NEW i \in 1 .. Len(c) PROVE Before(c[i], p)
    <3>1. c[i] \in Marks /\ ~Before(to, c[i])
      BY <1>1, <1>5 DEF Between
    <3>2. p \in Marks
      BY <1>2
    <3> QED
      BY <1>2, <3>1, <3>2 DEF Marks, Before
  <2> QED
    BY <2>1
<1>7. InOrder(d)
  <2>1. ASSUME NEW i \in 1 .. Len(d), NEW j \in 1 .. Len(d), i < j
        PROVE  Before(d[i], d[j])
    <3>1. i \in 1 .. Len(c)
      BY <1>3, <2>1
    <3>2. CASE j = Len(c) + 1
      BY <1>3, <1>6, <3>1, <3>2
    <3>3. CASE j \in 1 .. Len(c)
      BY <1>1, <1>3, <2>1, <3>1, <3>3 DEF InOrder
    <3> QED
      BY <1>4, <3>2, <3>3
  <2> QED
    BY <2>1 DEF InOrder
<1>8. ~Before(p, p) /\ p \in Marks /\ Before(from, p)
  <2>1. ~Before(p, p) /\ p \in Marks
    BY <1>2 DEF Marks, Before
  <2>2. Before(from, p)
    BY <1>1, <1>2
  <2> QED
    BY <2>1, <2>2
<1>9. \A i \in 1 .. Len(d) : Between(d[i], from, p)
  <2>1. ASSUME NEW i \in 1 .. Len(c) PROVE Between(d[i], from, p)
    BY <1>1, <1>2, <1>3, <1>5, <1>6, <1>8, OrderStrict DEF Between
  <2> QED
    BY <1>3, <1>4, <1>8, <2>1 DEF Between
<1>10. ASSUME NEW q \in S, Between(q, from, p) PROVE \E i \in 1 .. Len(d) : d[i] = q
  <2>1. q \in Marks
    BY <1>2
  <2>2. CASE Before(to, q)
    <3>1. q = p
      BY <1>2, <1>8, <1>10, <2>1, <2>2, OrderTotal DEF Between
    <3> QED
      BY <1>3, <3>1
  <2>3. CASE ~Before(to, q)
    <3>1. PICK i \in 1 .. Len(c) : c[i] = q
      BY <1>1, <1>10, <2>3 DEF Between
    <3> QED
      BY <1>3, <3>1
  <2> QED
    BY <2>2, <2>3
<1>11. ASSUME NEW q \in S, ~Before(from, q) PROVE ~Before(p, q)
  <2>1. q \in Marks /\ ~Before(to, q)
    BY <1>1, <1>2, <1>11
  <2> QED
    BY <1>2, <1>8, <2>1 DEF Marks, Before
<1> QED
  BY <1>3, <1>7, <1>9, <1>10, <1>11 DEF Carries, S, d

(* The head of what is on the wire is the piece the reader takes it for.    *)
LEMMA CarriesNext ==
  ASSUME NEW m, NEW n, NEW c, NEW from \in Marks, NEW to \in Marks,
         Carries(m, n, c, from, to), c # <<>>,
         NEW p \in Stream(m, n), First(Stream(m, n), from, p)
  PROVE  /\ Head(c) = p
         /\ Carries(m, n, Tail(c), p, to)
<1> DEFINE S == Stream(m, n)
           d == Tail(c)
<1>1. /\ c \in Seq(S) /\ InOrder(c)
      /\ \A i \in 1 .. Len(c) : Between(c[i], from, to)
      /\ \A q \in S : Between(q, from, to) => \E i \in 1 .. Len(c) : c[i] = q
      /\ \A q \in S : ~Before(from, q) => ~Before(to, q)
  BY DEF Carries
<1>2. p \in S /\ S \subseteq Marks /\ Before(from, p) /\ \A q \in S : Before(from, q) => ~Before(q, p)
  BY PlacesAreMarks DEF First
<1> HIDE DEF S
<1>3. /\ d \in Seq(S) /\ Len(d) = Len(c) - 1 /\ \A i \in 1 .. Len(d) : d[i] = c[i + 1]
      /\ Len(c) \in Nat \ {0} /\ Head(c) = c[1]
  <2>1. Len(c) \in Nat /\ Len(c) # 0
    BY <1>1, EmptySeq
  <2> QED
    BY <1>1, <2>1, HeadTailProperties
<1> HIDE DEF d
<1>4. \A i \in 1 .. Len(c) : c[i] \in S /\ c[i] \in Marks
  BY <1>1, <1>2
<1>5. p \in Marks /\ 1 \in 1 .. Len(c)
  BY <1>2, <1>3
<1>6. ~Before(to, p)
  <2>1. c[1] \in Marks /\ ~Before(c[1], p) /\ ~Before(to, c[1])
    BY <1>1, <1>2, <1>4, <1>5 DEF Between
  <2> QED
    BY <1>5, <2>1 DEF Marks, Before
<1>7. PICK x \in 1 .. Len(c) : c[x] = p
  BY <1>1, <1>2, <1>6 DEF Between
<1>8. x = 1
  <2>1. ASSUME x # 1 PROVE FALSE
    <3>1. 1 < x
      BY <2>1
    <3>2. Before(c[1], p)
      BY <1>1, <1>5, <1>7, <3>1 DEF InOrder
    <3>3. Before(from, c[1])
      BY <1>1, <1>5 DEF Between
    <3> QED
      BY <1>2, <1>4, <1>5, <3>2, <3>3
  <2> QED
    BY <2>1
<1>9. \A i \in 1 .. Len(d) : i + 1 \in 1 .. Len(c) /\ 1 < i + 1
  BY <1>3
<1>10. InOrder(d)
  <2>1. ASSUME NEW i \in 1 .. Len(d), NEW j \in 1 .. Len(d), i < j
        PROVE  Before(d[i], d[j])
    BY <1>1, <1>3, <1>9, <2>1 DEF InOrder
  <2> QED
    BY <2>1 DEF InOrder
<1>11. \A i \in 1 .. Len(d) : Between(d[i], p, to)
  <2>1. ASSUME NEW i \in 1 .. Len(d) PROVE Between(d[i], p, to)
    <3>1. d[i] = c[i + 1] /\ i + 1 \in 1 .. Len(c) /\ 1 < i + 1
      BY <1>3, <1>9
    <3>2. Before(c[1], c[i + 1])
      BY <1>1, <1>5, <3>1 DEF InOrder
    <3> QED
      BY <1>1, <1>7, <1>8, <3>1, <3>2 DEF Between
  <2> QED
    BY <2>1
<1>12. ASSUME NEW q \in S, Between(q, p, to) PROVE \E i \in 1 .. Len(d) : d[i] = q
  <2>1. q \in Marks /\ Before(from, q)
    BY <1>2, <1>5, <1>12 DEF Between, Marks, Before
  <2>2. PICK i \in 1 .. Len(c) : c[i] = q
    BY <1>1, <1>12, <2>1 DEF Between
  <2>3. i # 1
    BY <1>5, <1>7, <1>8, <1>12, <2>2 DEF Between, Marks, Before
  <2>4. i - 1 \in 1 .. Len(d) /\ (i - 1) + 1 = i
    BY <1>3, <2>3
  <2> QED
    BY <1>3, <2>2, <2>4
<1>13. ASSUME NEW q \in S, ~Before(p, q) PROVE ~Before(to, q)
  <2>1. q \in Marks
    BY <1>2
  <2> QED
    BY <1>5, <1>6, <1>13, <2>1 DEF Marks, Before
<1> QED
  BY <1>3, <1>7, <1>8, <1>10, <1>11, <1>12, <1>13 DEF Carries, S, d

-----------------------------------------------------------------------------
(* The sockets of the threads                                               *)

LEMMA Constant ==
  /\ NumNodes \in Nat \ {0, 1} /\ BatchSize \in Nat \ {0} /\ Units \in Nat \ {0}
  /\ Len(Syncs) \in Nat /\ Steps = DOMAIN Syncs
  /\ \A n \in Nodes : NumThreads[n] \in Nat \ {0}
BY SyncAssumption DEF Nodes, Steps

LEMMA Quotient ==
  ASSUME NEW a \in Nat, NEW b \in Nat \ {0}
  PROVE  /\ a \div b \in Nat /\ a % b \in 0 .. (b - 1)
         /\ a = (a \div b) * b + (a % b)
BY SMT

LEMMA QuotientOf ==
  ASSUME NEW b \in Nat \ {0}, NEW i \in Nat, NEW t \in 0 .. (b - 1)
  PROVE  (t + i * b) % b = t
BY SMT

(* A thread takes every NumThreads-th socket of the step.                   *)
LEMMA MineIs ==
  ASSUME NEW n \in Nodes, NEW t \in Threads(n), NEW k
  PROVE  Mine(n, t, k) = {s \in 0 .. (NumSockets(n, k) - 1) : s % NumThreads[n] = t}
<1> DEFINE b     == NumThreads[n]
           N     == NumSockets(n, k)
           count == SocketsPerThread(N, n, t)
<1>1. b \in Nat \ {0} /\ t \in 0 .. (b - 1) /\ N \in Nat
  BY Constant DEF Threads, NumSockets
<1>2. count = N \div b + IF N % b > t THEN 1 ELSE 0
  BY DEF SocketsPerThread
<1>3. Mine(n, t, k) = {t + i * b : i \in 0 .. (count - 1)}
  BY DEF Mine
<1> HIDE DEF b, N, count
<1>4. N \div b \in Nat /\ N % b \in 0 .. (b - 1) /\ N = (N \div b) * b + (N % b)
  BY <1>1, Quotient
<1>5. count \in Nat
  BY <1>2, <1>4
<1>6. ASSUME NEW i \in 0 .. (count - 1)
      PROVE  t + i * b \in 0 .. (N - 1) /\ (t + i * b) % b = t
  <2>1. i \in Nat /\ i <= count - 1
    BY <1>5
  <2>2. (t + i * b) % b = t
    BY <1>1, <2>1, QuotientOf
  <2>3. i * b \in Nat
    BY <1>1, <2>1
  <2>4. CASE N % b > t
    <3>1. i <= N \div b
      BY <1>2, <1>4, <2>1, <2>4
    <3>2. i * b <= (N \div b) * b
      BY <1>1, <1>4, <2>1, <3>1
    <3>3. (N \div b) * b \in Nat
      BY <1>1, <1>4
    <3> QED
      BY <1>1, <1>4, <2>2, <2>3, <2>4, <3>2, <3>3
  <2>5. CASE ~(N % b > t)
    <3>1. i + 1 <= N \div b
      BY <1>2, <1>4, <2>1, <2>5
    <3>2. (i + 1) * b <= (N \div b) * b
      BY <1>1, <1>4, <2>1, <3>1
    <3>3. (N \div b) * b \in Nat /\ (i + 1) * b = i * b + b
      BY <1>1, <1>4, <2>1
    <3> QED
      BY <1>1, <1>4, <2>2, <2>3, <2>5, <3>2, <3>3
  <2> QED
    BY <2>4, <2>5
<1>7. ASSUME NEW s \in 0 .. (N - 1), s % b = t
      PROVE  \E i \in 0 .. (count - 1) : s = t + i * b
  <2> DEFINE i == s \div b
  <2>1. i \in Nat /\ s = i * b + t /\ s \in Nat /\ s < N
    <3>1. s \in Nat /\ s < N
      BY <1>1
    <3>2. i \in Nat /\ s = i * b + (s % b)
      BY <1>1, <3>1, Quotient
    <3> QED
      BY <1>7, <3>1, <3>2
  <2> HIDE DEF i
  <2>2. i <= N \div b
    <3>1. ASSUME i >= N \div b + 1 PROVE FALSE
      <4>1. i * b >= (N \div b + 1) * b
        BY <1>1, <1>4, <2>1, <3>1
      <4>2. (N \div b + 1) * b = (N \div b) * b + b /\ (N \div b) * b \in Nat /\ i * b \in Nat
        BY <1>1, <1>4, <2>1
      <4> QED
        BY <1>1, <1>4, <2>1, <4>1, <4>2
    <3> QED
      BY <1>4, <2>1, <3>1
  <2>3. i = N \div b => N % b > t
    <3>1. ASSUME i = N \div b PROVE N % b > t
      <4>1. i * b = (N \div b) * b /\ i * b \in Nat
        BY <1>1, <2>1, <3>1
      <4> QED
        BY <1>1, <1>4, <2>1, <4>1
    <3> QED
      BY <3>1
  <2>4. i <= count - 1
    BY <1>2, <1>4, <2>1, <2>2, <2>3
  <2> QED
    BY <1>1, <1>5, <2>1, <2>4
<1> QED
  BY <1>3, <1>6, <1>7 DEF b, N

(* A node has a socket for every other node.                                *)
LEMMA SocketsAndPeers ==
  ASSUME NEW n \in Nodes
  PROVE  /\ \A j \in Nodes \ {n} :
              Socket(n, j) \in 0 .. (NumNodes - 2) /\ Peer(n, Socket(n, j)) = j
         /\ \A s \in 0 .. (NumNodes - 2) :
              Peer(n, s) \in Nodes \ {n} /\ Socket(n, Peer(n, s)) = s
         /\ \A i, j \in Nodes \ {n} : Socket(n, i) = Socket(n, j) => i = j
BY Constant DEF Nodes, Socket, Peer

LEMMA HowManySockets ==
  ASSUME NEW n \in Nodes, NEW k
  PROVE  NumSockets(n, k) \in 1 .. (NumNodes - 1) /\ NumSockets(n, k) \in Nat
BY Constant DEF NumSockets

LEMMA StepTypes ==
  ASSUME NEW k
  PROVE  IF k \in Steps
         THEN Type(k) \in {"SYNC_WITH_ROOT", "SYNC_NODE_SLICES", "SYNC_NODE_SLICES_EXCEPT_ROOT"}
         ELSE Type(k) = "END" /\ \A n : Sources(n, k) = {}
<1>1. k \in Steps => Syncs[k] \in {"SYNC_WITH_ROOT", "SYNC_NODE_SLICES", "SYNC_NODE_SLICES_EXCEPT_ROOT"}
  BY SyncAssumption DEF Steps
<1> QED
  BY <1>1, Constant DEF Type, Sources

(* One node writes a slice where the other reads it.                        *)
LEMMA BothSides ==
  ASSUME NEW n \in Nodes, NEW j \in Nodes \ {n}, NEW k \in Steps
  PROVE  /\ n \in Sources(j, k) <=> Writes(n, k) /\ Socket(n, j) < NumSockets(n, k)
         /\ j \in Sources(n, k) <=> Reads(n, k) /\ Socket(n, j) < NumSockets(n, k)
<1>1. /\ NumNodes \in Nat \ {0, 1} /\ n \in Nat /\ j \in Nat /\ n # j
      /\ n < NumNodes /\ j < NumNodes /\ 0 \in Nodes
  BY Constant DEF Nodes
<1>2. CASE Type(k) = "SYNC_NODE_SLICES"
  BY <1>1, <1>2 DEF Sources, Writes, Reads, NumSockets, Socket
<1>3. CASE Type(k) = "SYNC_WITH_ROOT"
  BY <1>1, <1>3 DEF Sources, Writes, Reads, NumSockets, Socket
<1>4. CASE Type(k) = "SYNC_NODE_SLICES_EXCEPT_ROOT"
  BY <1>1, <1>4 DEF Sources, Writes, Reads, NumSockets, Socket
<1> QED
  BY <1>2, <1>3, <1>4, StepTypes

LEMMA NotItsOwnSource ==
  ASSUME NEW n \in Nodes, NEW k
  PROVE  n \notin Sources(n, k) /\ Sources(n, k) \subseteq Nodes
         /\ (Sources(n, k) # {} => k \in Steps)
<1>1. 0 \in Nodes
  BY Constant DEF Nodes
<1> QED
  BY <1>1, StepTypes DEF Sources

(* The thread that has the socket to a node has it in the steps in which    *)
(* the socket is used.                                                      *)
LEMMA Owned ==
  ASSUME NEW n \in Nodes, NEW j \in Nodes \ {n}
  PROVE  /\ Owner(n, j) \in Threads(n)
         /\ \A t \in Threads(n) : \A k :
              Socket(n, j) \in Mine(n, t, k)
                <=> t = Owner(n, j) /\ Socket(n, j) < NumSockets(n, k)
<1>1. Socket(n, j) \in Nat /\ NumThreads[n] \in Nat \ {0}
  BY SocketsAndPeers, Constant
<1>2. Owner(n, j) \in Threads(n)
  BY <1>1, Quotient DEF Owner, Threads
<1>3. ASSUME NEW t \in Threads(n), NEW k
      PROVE  Socket(n, j) \in Mine(n, t, k)
               <=> t = Owner(n, j) /\ Socket(n, j) < NumSockets(n, k)
  <2>1. NumSockets(n, k) \in Nat
    BY HowManySockets
  <2> QED
    BY <1>1, <2>1, MineIs DEF Owner
<1> QED
  BY <1>2, <1>3

-----------------------------------------------------------------------------
(* The tasks of the threads                                                 *)

LEMMA SameItself ==
  ASSUME NEW S, NEW a
  PROVE  Same(S, a, a)
BY DEF Same

(* No piece is between the last one of a row and the next row,              *)
LEMMA RowEnd ==
  ASSUME NEW m, NEW n, NEW k \in Nat, NEW r \in Nat
  PROVE  Same(Stream(m, n), <<k, r, Units>>, <<k, r + 1, 0>>)
<1>1. ASSUME NEW p \in Stream(m, n)
      PROVE  Before(<<k, r, Units>>, p) <=> Before(<<k, r + 1, 0>>, p)
  <2>1. p \in Marks /\ p[3] \in 1 .. Units /\ Units \in Nat
    BY Constant, PlacesAreMarks DEF Stream, Places
  <2> QED
    BY <2>1 DEF Marks, Before
<1> QED
  BY <1>1 DEF Same

(* and none between a step and the next one in which m writes to n.         *)
LEMMA StepEnd ==
  ASSUME NEW m, NEW n, NEW k \in Nat
  PROVE  /\ Same(Stream(m, n), <<k, BatchSize, Units>>, <<k + 1, 1, 0>>)
         /\ m \notin Sources(n, k + 1) =>
              Same(Stream(m, n), <<k, BatchSize, Units>>, <<k + 1, BatchSize, Units>>)
<1>1. ASSUME NEW p \in Stream(m, n)
      PROVE  /\ Before(<<k, BatchSize, Units>>, p) <=> Before(<<k + 1, 1, 0>>, p)
             /\ m \notin Sources(n, k + 1) =>
                  (Before(<<k, BatchSize, Units>>, p) <=> Before(<<k + 1, BatchSize, Units>>, p))
  <2>1. /\ p \in Marks /\ p[3] \in 1 .. Units /\ Units \in Nat
        /\ p[2] \in 1 .. BatchSize /\ BatchSize \in Nat /\ m \in Sources(n, p[1])
    BY Constant, PlacesAreMarks DEF Stream, Places
  <2>2. m \notin Sources(n, k + 1) => p[1] # k + 1
    BY <2>1
  <2> QED
    BY <2>1, <2>2 DEF Marks, Before
<1> QED
  BY <1>1 DEF Same

(* What a task says of its sockets does not change from a to b.             *)
StaysAt(n, j, k, a, b) ==
  LET w(todo) == WrittenBy(todo, k, Socket(n, j), n \in Sources(j, k))
      r(todo) == ReadBy(todo, k, Socket(n, j), j \in Sources(n, k))
  IN  /\ Same(Stream(n, j), w(a), w(b))
      /\ Same(Stream(j, n), r(a), r(b))
      /\ j \in Sources(n, k) => \A row \in 1 .. BatchSize : UpTo(row, r(a)) = UpTo(row, r(b))

(* a task with nothing left to do in its phase                              *)
UsedUp(n, t, k, todo) ==
  /\ todo.phase \in {"write", "read"} /\ todo.row \in 1 .. BatchSize
  /\ todo.phase = "write" => Writes(n, k)
  /\ todo.phase = "read" => Reads(n, k)
  /\ \A s \in Mine(n, t, k) : todo.todo[s] = 0

LEMMA BegunIs ==
  ASSUME NEW n \in Nodes, NEW t \in Threads(n), NEW k \in Steps, NEW row \in 1 .. BatchSize,
         NEW phase \in {"write", "read"}, Mine(n, t, k) # {},
         phase = "write" => Writes(n, k), phase = "read" => Reads(n, k)
  PROVE  /\ TaskIs(n, t, k, Begun(n, t, k, row, phase))
         /\ Begun(n, t, k, row, phase).phase = phase
         /\ Begun(n, t, k, row, phase).row = row
         /\ \A s \in Mine(n, t, k) : Begun(n, t, k, row, phase).todo[s] = Units
<1>1. Units \in 0 .. Units /\ Units > 0
  BY Constant
<1> QED
  BY <1>1 DEF Begun, TaskIs

(* The task that follows one that is used up                                *)
LEMMA NextTaskIs ==
  ASSUME NEW n \in Nodes, NEW t \in Threads(n), at[n] \in Steps, Mine(n, t, at[n]) # {},
         NEW left, UsedUp(n, t, at[n], left),
         task[n][t].phase = left.phase, task[n][t].row = left.row
  PROVE  /\ TaskIs(n, t, at[n], NextTask(n, t))
         /\ \A j \in Nodes \ {n} :
              Owner(n, j) = t => StaysAt(n, j, at[n], left, NextTask(n, t))
<1> DEFINE k    == at[n]
           row  == left.row
           next == NextTask(n, t)
<1>1. /\ k \in Nat /\ row \in 1 .. BatchSize /\ row \in Nat /\ BatchSize \in Nat /\ Units \in Nat
      /\ left.phase \in {"write", "read"}
  BY Constant DEF UsedUp, Steps
<1>2. ASSUME NEW j \in Nodes \ {n}, Owner(n, j) = t
      PROVE  /\ n \in Sources(j, k) => Socket(n, j) \in Mine(n, t, k) /\ Writes(n, k)
             /\ j \in Sources(n, k) => Socket(n, j) \in Mine(n, t, k) /\ Reads(n, k)
  BY <1>2, BothSides, Owned
<1>3. ASSUME NEW j \in Nodes \ {n}, Owner(n, j) = t
      PROVE  /\ WrittenBy(left, k, Socket(n, j), n \in Sources(j, k))
                  = IF n \in Sources(j, k) THEN <<k, row, Units>> ELSE <<k, BatchSize, Units>>
             /\ ReadBy(left, k, Socket(n, j), j \in Sources(n, k))
                  = IF j \in Sources(n, k)
                    THEN <<k, row, IF left.phase = "write" THEN 0 ELSE Units>>
                    ELSE <<k, BatchSize, Units>>
  <2>1. Units - 0 = Units
    BY <1>1
  <2> QED
    BY <1>1, <1>2, <1>3, <2>1 DEF WrittenBy, ReadBy, UsedUp
<1>4. CASE HalfWay(n, t)
  <2>1. left.phase = "write" /\ Writes(n, k) /\ Reads(n, k)
    BY <1>4 DEF HalfWay, FirstPhase
  <2>2. next = Begun(n, t, k, row, "read")
    BY <1>4, <2>1 DEF NextTask
  <2>3. /\ TaskIs(n, t, k, next) /\ next.phase = "read" /\ next.row = row
        /\ \A s \in Mine(n, t, k) : next.todo[s] = Units
    BY <1>1, <2>1, <2>2, BegunIs
  <2> HIDE DEF next
  <2>4. ASSUME NEW j \in Nodes \ {n}, Owner(n, j) = t
        PROVE  /\ WrittenBy(next, k, Socket(n, j), n \in Sources(j, k))
                    = WrittenBy(left, k, Socket(n, j), n \in Sources(j, k))
               /\ ReadBy(next, k, Socket(n, j), j \in Sources(n, k))
                    = ReadBy(left, k, Socket(n, j), j \in Sources(n, k))
    <3>1. Units - Units = 0
      BY <1>1
    <3> QED
      BY <1>2, <1>3, <2>1, <2>3, <2>4, <3>1 DEF WrittenBy, ReadBy
  <2>5. ASSUME NEW j \in Nodes \ {n}, Owner(n, j) = t PROVE StaysAt(n, j, k, left, next)
    BY <2>4, <2>5, SameItself DEF StaysAt
  <2> QED
    BY <2>3, <2>5 DEF next
<1>5. CASE ~HalfWay(n, t) /\ row < BatchSize
  <2>1. /\ FirstPhase(n, k) \in {"write", "read"}
        /\ FirstPhase(n, k) = "write" => Writes(n, k)
        /\ FirstPhase(n, k) = "read" => Reads(n, k)
        /\ left.phase = "write" => ~Reads(n, k)
        /\ Writes(n, k) => FirstPhase(n, k) = "write"
    BY <1>1, <1>5 DEF FirstPhase, UsedUp, HalfWay
  <2>2. next = Begun(n, t, k, row + 1, FirstPhase(n, k))
    BY <1>5 DEF NextTask, NextRow
  <2>3. /\ TaskIs(n, t, k, next) /\ next.phase = FirstPhase(n, k) /\ next.row = row + 1
        /\ \A s \in Mine(n, t, k) : next.todo[s] = Units
    <3>1. row + 1 \in 1 .. BatchSize
      BY <1>1, <1>5
    <3> QED
      BY <2>1, <2>2, <3>1, BegunIs
  <2> HIDE DEF next
  <2>4. ASSUME NEW j \in Nodes \ {n}, Owner(n, j) = t
        PROVE  /\ WrittenBy(next, k, Socket(n, j), n \in Sources(j, k))
                    = IF n \in Sources(j, k) THEN <<k, row + 1, 0>> ELSE <<k, BatchSize, Units>>
               /\ ReadBy(next, k, Socket(n, j), j \in Sources(n, k))
                    = IF j \in Sources(n, k) THEN <<k, row + 1, 0>> ELSE <<k, BatchSize, Units>>
    <3>1. Units - Units = 0
      BY <1>1
    <3> QED
      BY <1>2, <2>1, <2>3, <2>4, <3>1 DEF WrittenBy, ReadBy
  <2>5. ASSUME NEW j \in Nodes \ {n}, Owner(n, j) = t PROVE StaysAt(n, j, k, left, next)
    <3>1. /\ Same(Stream(n, j), <<k, row, Units>>, <<k, row + 1, 0>>)
          /\ Same(Stream(j, n), <<k, row, Units>>, <<k, row + 1, 0>>)
      BY <1>1, RowEnd
    <3>2. j \in Sources(n, k) => left.phase = "read"
      BY <1>1, <1>2, <2>1, <2>5
    <3>3. \A r \in 1 .. BatchSize : UpTo(r, <<k, row, Units>>) = UpTo(r, <<k, row + 1, 0>>)
      BY <1>1 DEF UpTo
    <3> QED
      BY <1>3, <2>4, <2>5, <3>1, <3>2, <3>3, SameItself DEF StaysAt
  <2> QED
    BY <2>3, <2>5 DEF next
<1>6. CASE ~HalfWay(n, t) /\ ~(row < BatchSize)
  <2>1. next = Finished(BatchSize) /\ row = BatchSize
    BY <1>1, <1>6 DEF NextTask, NextRow
  <2>2. TaskIs(n, t, k, next) /\ next.phase = "done" /\ next.row = BatchSize
    BY <2>1 DEF TaskIs, Finished
  <2> HIDE DEF next
  <2>3. left.phase = "write" => ~Reads(n, k)
    BY <1>1, <1>6 DEF FirstPhase, UsedUp, HalfWay
  <2>4. ASSUME NEW j \in Nodes \ {n}, Owner(n, j) = t
        PROVE  /\ WrittenBy(next, k, Socket(n, j), n \in Sources(j, k))
                    = WrittenBy(left, k, Socket(n, j), n \in Sources(j, k))
               /\ ReadBy(next, k, Socket(n, j), j \in Sources(n, k))
                    = ReadBy(left, k, Socket(n, j), j \in Sources(n, k))
    BY <1>1, <1>2, <1>3, <2>1, <2>2, <2>3, <2>4 DEF WrittenBy, ReadBy
  <2>5. ASSUME NEW j \in Nodes \ {n}, Owner(n, j) = t PROVE StaysAt(n, j, k, left, next)
    BY <2>4, <2>5, SameItself DEF StaysAt
  <2> QED
    BY <2>2, <2>5 DEF next
<1> QED
  BY <1>4, <1>5, <1>6

-----------------------------------------------------------------------------
(* One piece                                                                *)

LEMMA TaskOf ==
  ASSUME SyncInv, NEW n \in Nodes, NEW t \in Threads(n), task[n][t].phase \in {"write", "read"}
  PROVE  /\ at[n] \in Steps
         /\ task[n][t].phase = "write" => Writes(n, at[n])
         /\ task[n][t].phase = "read" => Reads(n, at[n])
         /\ task[n][t] = [phase |-> task[n][t].phase, row |-> task[n][t].row, todo |-> task[n][t].todo]
         /\ task[n][t].row \in 1 .. BatchSize
         /\ task[n][t].todo \in [Mine(n, t, at[n]) -> 0 .. Units]
<1>1. task[n][t] # Finished(BatchSize)
  BY DEF Finished
<1>2. TaskIs(n, t, at[n], task[n][t])
  BY DEF SyncInv, Tasks
<1> QED
  BY <1>1, <1>2 DEF TaskIs

LEMMA LessIs ==
  ASSUME SyncInv, NEW n \in Nodes, NEW t \in Threads(n), task[n][t].phase \in {"write", "read"},
         NEW s \in Pending(n, t)
  PROVE  /\ s \in Mine(n, t, at[n]) /\ task[n][t].todo[s] \in 1 .. Units
         /\ Less(task[n][t], s).phase = task[n][t].phase
         /\ Less(task[n][t], s).row = task[n][t].row
         /\ Less(task[n][t], s).todo \in [Mine(n, t, at[n]) -> 0 .. Units]
         /\ Less(task[n][t], s).todo[s] = task[n][t].todo[s] - 1
         /\ \A r \in Mine(n, t, at[n]) : r # s => Less(task[n][t], s).todo[r] = task[n][t].todo[r]
         /\ Less(task[n][t], s) = [phase |-> task[n][t].phase, row |-> task[n][t].row,
                                   todo |-> Less(task[n][t], s).todo]
<1> DEFINE tk == task[n][t]
           T  == tk.todo
           M  == Mine(n, t, at[n])
<1>1. /\ tk = [phase |-> tk.phase, row |-> tk.row, todo |-> T] /\ T \in [M -> 0 .. Units]
  BY TaskOf
<1>2. s \in M /\ T[s] > 0 /\ Units \in Nat
  BY <1>1, Constant DEF Pending
<1>3. Less(tk, s) = [tk EXCEPT !.todo = [T EXCEPT ![s] = T[s] - 1]]
  BY DEF Less
<1> DEFINE U == [T EXCEPT ![s] = T[s] - 1]
<1> HIDE DEF T, M
<1>4. U \in [M -> 0 .. Units] /\ U[s] = T[s] - 1 /\ \A r \in M : r # s => U[r] = T[r]
  BY <1>1, <1>2
<1>5. Less(tk, s) = [tk EXCEPT !.todo = U]
  BY <1>3
<1> HIDE DEF U, tk
<1>6. Less(tk, s).phase = tk.phase /\ Less(tk, s).row = tk.row /\ Less(tk, s).todo = U
      /\ Less(tk, s) = [phase |-> tk.phase, row |-> tk.row, todo |-> U]
  BY <1>1, <1>5
<1> QED
  BY <1>1, <1>2, <1>4, <1>6 DEF tk, T, M

LEMMA StaysItself ==
  ASSUME NEW n, NEW j, NEW k, NEW a
  PROVE  StaysAt(n, j, k, a, a)
BY SameItself DEF StaysAt

(* The task of the thread moves on by one piece, the others stay.           *)
LEMMA PieceMoves ==
  ASSUME SyncInv, NEW n \in Nodes, NEW t \in Threads(n), task[n][t].phase \in {"write", "read"},
         NEW s \in Pending(n, t), Piece(n, t, s)
  PROVE  /\ task' = [a \in Nodes |-> [b \in Threads(a) |-> task'[a][b]]]
         /\ \A a \in Nodes : \A b \in Threads(a) :
              a # n \/ b # t => task'[a][b] = task[a][b]
         /\ TaskIs(n, t, at[n], task'[n][t])
         /\ \A j \in Nodes \ {n} :
              Owner(n, j) = t => StaysAt(n, j, at[n], Less(task[n][t], s), task'[n][t])
<1> DEFINE T    == task[n][t].todo
           M    == Mine(n, t, at[n])
           left == Less(task[n][t], s)
           last == Pending(n, t) = {s} /\ T[s] = 1
           next == IF last THEN NextTask(n, t) ELSE left
<1>1. task = [a \in Nodes |-> [b \in Threads(a) |-> task[a][b]]]
  BY DEF SyncInv, Tasks
<1>2. task' = [task EXCEPT ![n][t] = next]
  BY DEF Piece
<1> HIDE DEF next
<1>3. /\ task'[n][t] = next
      /\ task' = [a \in Nodes |-> [b \in Threads(a) |-> task'[a][b]]]
      /\ \A a \in Nodes : \A b \in Threads(a) : a # n \/ b # t => task'[a][b] = task[a][b]
  BY <1>1, <1>2
<1>4. /\ at[n] \in Steps /\ task[n][t].row \in 1 .. BatchSize /\ T \in [M -> 0 .. Units]
      /\ task[n][t].phase = "write" => Writes(n, at[n])
      /\ task[n][t].phase = "read" => Reads(n, at[n])
  BY TaskOf
<1>5. /\ s \in M /\ T[s] \in 1 .. Units
      /\ left.phase = task[n][t].phase /\ left.row = task[n][t].row
      /\ left.todo \in [M -> 0 .. Units] /\ left.todo[s] = T[s] - 1
      /\ \A r \in M : r # s => left.todo[r] = T[r]
      /\ left = [phase |-> task[n][t].phase, row |-> task[n][t].row, todo |-> left.todo]
  BY LessIs
<1>6. \A r : r \in Pending(n, t) <=> r \in M /\ T[r] > 0
  BY <1>4 DEF Pending
<1>7. Units \in Nat
  BY Constant
<1> HIDE DEF T, M, left
<1>8. CASE last
  <2>1. \A r \in M : left.todo[r] = 0
    <3>1. ASSUME NEW r \in M, r # s PROVE T[r] = 0
      <4>1. ~(T[r] > 0) /\ T[r] \in 0 .. Units
        BY <1>4, <1>6, <1>8, <3>1
      <4> QED
        BY <1>7, <4>1
    <3> QED
      BY <1>5, <1>8, <3>1
  <2>2. UsedUp(n, t, at[n], left)
    BY <1>4, <1>5, <2>1 DEF UsedUp, M
  <2>3. next = NextTask(n, t)
    BY <1>8 DEF next
  <2>4. /\ TaskIs(n, t, at[n], NextTask(n, t))
        /\ \A j \in Nodes \ {n} :
             Owner(n, j) = t => StaysAt(n, j, at[n], left, NextTask(n, t))
    BY <1>4, <1>5, <2>2, NextTaskIs DEF M
  <2> QED
    BY <1>3, <2>3, <2>4 DEF left
<1>9. CASE ~last
  <2>1. next = left
    BY <1>9 DEF next
  <2>2. \E r \in M : left.todo[r] > 0
    <3>1. CASE T[s] # 1
      BY <1>5, <1>7, <3>1
    <3>2. CASE Pending(n, t) # {s}
      <4>1. PICK r \in M : r # s /\ T[r] > 0
        BY <1>6, <3>2
      <4> QED
        BY <1>5, <4>1
    <3> QED
      BY <1>9, <3>1, <3>2
  <2>3. TaskIs(n, t, at[n], left)
    <3>1. /\ left.phase \in {"write", "read"} /\ left.row \in 1 .. BatchSize
          /\ left.phase = "write" => Writes(n, at[n])
          /\ left.phase = "read" => Reads(n, at[n])
      BY <1>4, <1>5
    <3>2. left = [phase |-> left.phase, row |-> left.row, todo |-> left.todo]
      BY <1>5
    <3> QED
      BY <1>4, <1>5, <2>2, <3>1, <3>2 DEF TaskIs, M
  <2> QED
    BY <1>3, <2>1, <2>3, StaysItself DEF left
<1> QED
  BY <1>8, <1>9

(* The place of a piece is the next one after the last.                     *)
LEMMA NextPiece ==
  ASSUME NEW m, NEW n, NEW k \in Nat, NEW row \in Nat, NEW u \in Nat \ {0}
  PROVE  First(Stream(m, n), <<k, row, u - 1>>, <<k, row, u>>)
<1>1. ASSUME NEW q \in Stream(m, n), Before(<<k, row, u - 1>>, q)
      PROVE  ~Before(q, <<k, row, u>>)
  <2>1. q \in Marks
    BY PlacesAreMarks
  <2> QED
    BY <1>1, <2>1 DEF Marks, Before
<1> QED
  BY <1>1 DEF First, Before

LEMMA MarksOfNode ==
  ASSUME SyncInv, NEW n \in Nodes, NEW j \in Nodes \ {n}
  PROVE  Written(n, j) \in Marks /\ Read(n, j) \in Marks
<1> DEFINE t  == Owner(n, j)
           tk == TaskFor(n, j)
<1>1. t \in Threads(n) /\ tk = task[n][t]
  BY Owned DEF TaskFor
<1>2. /\ at[n] \in Nat /\ BatchSize \in Nat /\ Units \in Nat
  BY Constant DEF SyncInv
<1>3. CASE tk.phase \in {"write", "read"}
  <2>1. /\ at[n] \in Steps /\ tk.row \in Nat
        /\ n \in Sources(j, at[n]) => tk.todo[Socket(n, j)] \in 0 .. Units
        /\ j \in Sources(n, at[n]) => tk.todo[Socket(n, j)] \in 0 .. Units
    <3>1. at[n] \in Steps /\ tk.row \in 1 .. BatchSize /\ tk.todo \in [Mine(n, t, at[n]) -> 0 .. Units]
      BY <1>1, <1>3, TaskOf
    <3> QED
      BY <1>1, <3>1, BothSides, Owned, Constant
  <2> QED
    BY <1>2, <2>1 DEF Written, Read, WrittenBy, ReadBy, Marks
<1>4. CASE tk.phase \notin {"write", "read"}
  <2>1. tk.row = BatchSize
    <3>1. TaskIs(n, t, at[n], tk)
      BY <1>1 DEF SyncInv, Tasks
    <3> QED
      BY <1>4, <3>1 DEF TaskIs, Finished
  <2> QED
    BY <1>2, <1>4, <2>1 DEF Written, Read, WrittenBy, ReadBy, Marks
<1> QED
  BY <1>3, <1>4

-----------------------------------------------------------------------------
(* What a step of a thread leaves alone                                     *)

(* A step of thread t of n, with the task left over, seen from the others   *)
ThreadMoves(n, t, left) ==
  /\ at' = at
  /\ task' = [a \in Nodes |-> [b \in Threads(a) |-> task'[a][b]]]
  /\ \A a \in Nodes : \A b \in Threads(a) : a # n \/ b # t => task'[a][b] = task[a][b]
  /\ TaskIs(n, t, at[n], task'[n][t])
  /\ \A j \in Nodes \ {n} : Owner(n, j) = t => StaysAt(n, j, at[n], left, task'[n][t])

LEMMA TasksStep ==
  ASSUME SyncInv, NEW n \in Nodes, NEW t \in Threads(n), NEW left, ThreadMoves(n, t, left)
  PROVE  Tasks' /\ at' \in [Nodes -> 1 .. (Len(Syncs) + 1)]
<1>1. ASSUME NEW a \in Nodes, NEW b \in Threads(a) PROVE TaskIs(a, b, at'[a], task'[a][b])
  <2>1. CASE a = n /\ b = t
    BY <2>1 DEF ThreadMoves
  <2>2. CASE a # n \/ b # t
    <3>1. TaskIs(a, b, at[a], task[a][b])
      BY DEF SyncInv, Tasks
    <3>2. task'[a][b] = task[a][b] /\ at' = at
      BY <2>2 DEF ThreadMoves
    <3> QED
      BY <3>1, <3>2
  <2> QED
    BY <2>1, <2>2
<1> QED
  BY <1>1 DEF ThreadMoves, Tasks, SyncInv

(* The other nodes                                                          *)
LEMMA OtherNodes ==
  ASSUME SyncInv, NEW n \in Nodes, NEW t \in Threads(n), NEW left, ThreadMoves(n, t, left),
         NEW a \in Nodes \ {n}, NEW b \in Nodes \ {a}
  PROVE  Written(a, b)' = Written(a, b) /\ Read(a, b)' = Read(a, b)
<1>1. Owner(a, b) \in Threads(a)
  BY Owned
<1>2. TaskFor(a, b)' = TaskFor(a, b) /\ at' = at
  BY <1>1 DEF ThreadMoves, TaskFor
<1> QED
  BY <1>2 DEF Written, Read

(* The other threads of the node                                            *)
LEMMA OtherThreads ==
  ASSUME SyncInv, NEW n \in Nodes, NEW t \in Threads(n), NEW left, ThreadMoves(n, t, left),
         NEW j \in Nodes \ {n}, Owner(n, j) # t
  PROVE  Written(n, j)' = Written(n, j) /\ Read(n, j)' = Read(n, j)
<1>1. Owner(n, j) \in Threads(n)
  BY Owned
<1>2. TaskFor(n, j)' = TaskFor(n, j) /\ at' = at
  BY <1>1 DEF ThreadMoves, TaskFor
<1> QED
  BY <1>2 DEF Written, Read

(* The thread itself: from where the task left over stands                  *)
LeftWritten(n, j, left) == WrittenBy(left, at[n], Socket(n, j), n \in Sources(j, at[n]))

LeftRead(n, j, left) == ReadBy(left, at[n], Socket(n, j), j \in Sources(n, at[n]))

LEMMA ThisThread ==
  ASSUME SyncInv, NEW n \in Nodes, NEW t \in Threads(n), NEW left, ThreadMoves(n, t, left),
         NEW j \in Nodes \ {n}, Owner(n, j) = t
  PROVE  /\ Same(Stream(n, j), LeftWritten(n, j, left), Written(n, j)')
         /\ Same(Stream(j, n), LeftRead(n, j, left), Read(n, j)')
         /\ j \in Sources(n, at[n]) => \A row \in 1 .. BatchSize :
              UpTo(row, LeftRead(n, j, left)) = UpTo(row, Read(n, j)')
<1>1. StaysAt(n, j, at[n], left, task'[n][t]) /\ at' = at
  BY DEF ThreadMoves
<1>2. /\ Written(n, j)' = WrittenBy(task'[n][t], at[n], Socket(n, j), n \in Sources(j, at[n]))
      /\ Read(n, j)' = ReadBy(task'[n][t], at[n], Socket(n, j), j \in Sources(n, at[n]))
  BY <1>1 DEF Written, Read, TaskFor
<1> QED
  BY <1>1, <1>2, Zenon DEF StaysAt, LeftWritten, LeftRead

(* Where the task left over stands: where it stood, but for the socket with *)
(* the piece                                                                *)
LEMMA PieceAt ==
  ASSUME SyncInv, NEW n \in Nodes, NEW t \in Threads(n), task[n][t].phase \in {"write", "read"},
         NEW s \in Pending(n, t), NEW j \in Nodes \ {n}, Owner(n, j) = t
  PROVE  LET left == Less(task[n][t], s)
             p    == <<at[n], task[n][t].row, UnitOf(n, t, s)>>
             last == <<at[n], task[n][t].row, UnitOf(n, t, s) - 1>>
         IN  /\ j # Peer(n, s) \/ task[n][t].phase = "read" =>
                  LeftWritten(n, j, left) = Written(n, j)
             /\ j # Peer(n, s) \/ task[n][t].phase = "write" =>
                  LeftRead(n, j, left) = Read(n, j)
             /\ j = Peer(n, s) /\ task[n][t].phase = "write" =>
                  /\ n \in Sources(j, at[n]) /\ Written(n, j) = last
                  /\ LeftWritten(n, j, left) = p
             /\ j = Peer(n, s) /\ task[n][t].phase = "read" =>
                  /\ j \in Sources(n, at[n]) /\ Read(n, j) = last
                  /\ LeftRead(n, j, left) = p
             /\ UnitOf(n, t, s) \in 1 .. Units
<1> DEFINE tk   == task[n][t]
           left == Less(task[n][t], s)
           k    == at[n]
           x    == Socket(n, j)
           M    == Mine(n, t, k)
<1>1. /\ k \in Steps
      /\ tk.phase = "write" => Writes(n, k)
      /\ tk.phase = "read" => Reads(n, k)
      /\ tk.todo \in [M -> 0 .. Units]
  BY TaskOf
<1>2. /\ s \in M /\ tk.todo[s] \in 1 .. Units
      /\ left.phase = tk.phase /\ left.row = tk.row
      /\ left.todo \in [M -> 0 .. Units] /\ left.todo[s] = tk.todo[s] - 1
      /\ \A r \in M : r # s => left.todo[r] = tk.todo[r]
      /\ left = [phase |-> tk.phase, row |-> tk.row, todo |-> left.todo]
  BY LessIs
<1>3. TaskFor(n, j) = tk
  BY DEF TaskFor
<1>4. s \in 0 .. (NumNodes - 2) /\ s < NumSockets(n, k)
  <2>1. s \in 0 .. (NumSockets(n, k) - 1)
    BY <1>2, MineIs
  <2> QED
    BY <2>1, HowManySockets, Constant
<1>5. j = Peer(n, s) <=> x = s
  <2>1. Peer(n, Socket(n, j)) = j /\ Socket(n, Peer(n, s)) = s
    BY <1>4, SocketsAndPeers, Zenon
  <2> QED
    BY <2>1, Zenon
<1>6. /\ n \in Sources(j, k) <=> Writes(n, k) /\ x < NumSockets(n, k)
      /\ j \in Sources(n, k) <=> Reads(n, k) /\ x < NumSockets(n, k)
      /\ x < NumSockets(n, k) => x \in M
  BY <1>1, BothSides, Owned
<1>7. /\ UnitOf(n, t, s) \in 1 .. Units
      /\ UnitOf(n, t, s) = Units - left.todo[s] /\ UnitOf(n, t, s) - 1 = Units - tk.todo[s]
  <2>1. Units \in Nat
    BY Constant
  <2> QED
    BY <1>2, <2>1 DEF UnitOf
<1>8. /\ Written(n, j) = WrittenBy(tk, k, x, n \in Sources(j, k))
      /\ Read(n, j) = ReadBy(tk, k, x, j \in Sources(n, k))
      /\ LeftWritten(n, j, left) = WrittenBy(left, k, x, n \in Sources(j, k))
      /\ LeftRead(n, j, left) = ReadBy(left, k, x, j \in Sources(n, k))
  BY <1>3 DEF Written, Read, LeftWritten, LeftRead
<1> HIDE DEF left, x, k, M
<1>9. j # Peer(n, s) \/ tk.phase = "read" => LeftWritten(n, j, left) = Written(n, j)
  BY <1>2, <1>5, <1>6, <1>8 DEF WrittenBy
<1>10. j # Peer(n, s) \/ tk.phase = "write" => LeftRead(n, j, left) = Read(n, j)
  BY <1>2, <1>5, <1>6, <1>8 DEF ReadBy
<1>11. j = Peer(n, s) /\ tk.phase = "write" =>
         /\ n \in Sources(j, k) /\ Written(n, j) = <<k, tk.row, UnitOf(n, t, s) - 1>>
         /\ LeftWritten(n, j, left) = <<k, tk.row, UnitOf(n, t, s)>>
  BY <1>1, <1>2, <1>4, <1>5, <1>6, <1>7, <1>8 DEF WrittenBy
<1>12. j = Peer(n, s) /\ tk.phase = "read" =>
         /\ j \in Sources(n, k) /\ Read(n, j) = <<k, tk.row, UnitOf(n, t, s) - 1>>
         /\ LeftRead(n, j, left) = <<k, tk.row, UnitOf(n, t, s)>>
  BY <1>1, <1>2, <1>4, <1>5, <1>6, <1>7, <1>8 DEF ReadBy
<1> QED
  BY <1>7, <1>9, <1>10, <1>11, <1>12 DEF left, k

-----------------------------------------------------------------------------
(* Every step of a thread                                                   *)

(* The connections that a step of a thread of n does not use                *)
LEMMA Undisturbed ==
  ASSUME SyncInv, NEW n \in Nodes, NEW t \in Threads(n), NEW left, ThreadMoves(n, t, left),
         NEW a \in Nodes, NEW b \in Nodes \ {a}, chan'[a][b] = chan[a][b],
         a = n /\ Owner(n, b) = t => LeftWritten(n, b, left) = Written(n, b),
         b = n /\ Owner(n, a) = t => LeftRead(n, a, left) = Read(n, a)
  PROVE  Carries(a, b, chan'[a][b], Read(b, a)', Written(a, b)')
<1>1. Carries(a, b, chan[a][b], Read(b, a), Written(a, b))
  BY DEF SyncInv, Connections
<1>2. Same(Stream(a, b), Written(a, b), Written(a, b)')
  <2>1. CASE a # n
    BY <2>1, OtherNodes, SameItself
  <2>2. CASE a = n /\ Owner(n, b) # t
    BY <2>2, OtherThreads, SameItself
  <2>3. CASE a = n /\ Owner(n, b) = t
    BY <2>3, ThisThread
  <2> QED
    BY <2>1, <2>2, <2>3
<1>3. Same(Stream(a, b), Read(b, a), Read(b, a)')
  <2>1. CASE b # n
    BY <2>1, OtherNodes, SameItself
  <2>2. CASE b = n /\ Owner(n, a) # t
    BY <2>2, OtherThreads, SameItself
  <2>3. CASE b = n /\ Owner(n, a) = t
    BY <2>3, ThisThread
  <2> QED
    BY <2>1, <2>2, <2>3
<1> QED
  BY <1>1, <1>2, <1>3, CarriesSame

(* The rows of the nodes that a step of a thread of n does not read into    *)
LEMMA UndisturbedRow ==
  ASSUME SyncInv, NEW n \in Nodes, NEW t \in Threads(n), NEW left, ThreadMoves(n, t, left),
         NEW a \in Nodes, NEW row \in 1 .. BatchSize, NEW j \in Nodes,
         pipe'[a][row][j] = pipe[a][row][j],
         a = n /\ j # n /\ Owner(n, j) = t =>
           UpTo(row, LeftRead(n, j, left)) = UpTo(row, Read(n, j))
  PROVE  pipe'[a][row][j] =
           IF j \in Sources(a, at'[a]) THEN Slice(at'[a], row, UpTo(row, Read(a, j)')) ELSE <<>>
<1>1. pipe[a][row][j] =
        IF j \in Sources(a, at[a]) THEN Slice(at[a], row, UpTo(row, Read(a, j))) ELSE <<>>
  BY DEF SyncInv, Gathered
<1>2. at' = at
  BY DEF ThreadMoves
<1>3. CASE j \notin Sources(a, at[a])
  BY <1>1, <1>2, <1>3
<1>4. CASE j \in Sources(a, at[a])
  <2>1. j # a
    BY <1>4, NotItsOwnSource
  <2>2. UpTo(row, Read(a, j)') = UpTo(row, Read(a, j))
    <3>1. CASE a # n
      BY <2>1, <3>1, OtherNodes
    <3>2. CASE a = n /\ Owner(n, j) # t
      BY <2>1, <3>2, OtherThreads
    <3>3. CASE a = n /\ Owner(n, j) = t
      BY <1>4, <2>1, <3>3, ThisThread
    <3> QED
      BY <3>1, <3>2, <3>3
  <2> QED
    BY <1>1, <1>2, <1>4, <2>2
<1> QED
  BY <1>3, <1>4

(* The socket of a pending piece and its peer                               *)
LEMMA PeerOfPiece ==
  ASSUME SyncInv, NEW n \in Nodes, NEW t \in Threads(n), task[n][t].phase \in {"write", "read"},
         NEW s \in Pending(n, t)
  PROVE  Peer(n, s) \in Nodes \ {n} /\ Owner(n, Peer(n, s)) = t
<1>1. s \in Mine(n, t, at[n])
  BY LessIs
<1>2. s \in 0 .. (NumSockets(n, at[n]) - 1) /\ s % NumThreads[n] = t
  BY <1>1, MineIs
<1>3. s \in 0 .. (NumNodes - 2)
  BY <1>2, HowManySockets, Constant
<1>4. Peer(n, s) \in Nodes \ {n} /\ Socket(n, Peer(n, s)) = s
  BY <1>3, SocketsAndPeers, Zenon
<1> QED
  BY <1>2, <1>4 DEF Owner

LEMMA PieceIsStep ==
  ASSUME SyncInv, NEW n \in Nodes, NEW t \in Threads(n), task[n][t].phase \in {"write", "read"},
         NEW s \in Pending(n, t), Piece(n, t, s), at' = at
  PROVE  ThreadMoves(n, t, Less(task[n][t], s))
BY PieceMoves, Zenon DEF ThreadMoves

LEMMA OneConnection ==
  ASSUME Buffers, NEW n \in Nodes, NEW j \in Nodes \ {n}, NEW v, 
         chan' = [chan EXCEPT ![n][j] = v]
  PROVE  /\ chan'[n][j] = v
         /\ \A a \in Nodes : \A b \in Nodes \ {a} : a # n \/ b # j => chan'[a][b] = chan[a][b]
         /\ chan' = [a \in Nodes |-> [b \in Nodes \ {a} |-> chan'[a][b]]]
<1>1. chan = [a \in Nodes |-> [b \in Nodes \ {a} |-> chan[a][b]]]
  BY DEF Buffers
<1>2. \A a \in Nodes : chan[a] = [b \in Nodes \ {a} |-> chan[a][b]]
  BY <1>1, Zenon
<1> DEFINE row == [chan[n] EXCEPT ![j] = v]
<1>3. /\ row = [b \in Nodes \ {n} |-> row[b]] /\ row[j] = v
      /\ \A b \in Nodes \ {n} : b # j => row[b] = chan[n][b]
  BY <1>2
<1>4. chan' = [chan EXCEPT ![n] = row]
  OBVIOUS
<1> HIDE DEF row
<1>5. chan'[n] = row /\ \A a \in Nodes : a # n => chan'[a] = chan[a]
  BY <1>1, <1>4
<1>6. chan' = [a \in Nodes |-> chan'[a]]
  BY <1>1, <1>4
<1>7. \A a \in Nodes : chan'[a] = [b \in Nodes \ {a} |-> chan'[a][b]]
  BY <1>2, <1>3, <1>5
<1> QED
  BY <1>3, <1>5, <1>6, <1>7

LEMMA SendInv ==
  ASSUME SyncInv, NEW n \in Nodes, NEW t \in Threads(n), NEW s, Send(n, t, s)
  PROVE  SyncInv'
<1> DEFINE left == Less(task[n][t], s)
           j    == Peer(n, s)
           p    == <<at[n], task[n][t].row, UnitOf(n, t, s)>>
           last == <<at[n], task[n][t].row, UnitOf(n, t, s) - 1>>
<1>1. /\ task[n][t].phase = "write" /\ s \in Pending(n, t) /\ Piece(n, t, s)
      /\ Len(chan[n][j]) < Capacity
      /\ chan' = [chan EXCEPT ![n][j] = Append(chan[n][j], p)]
      /\ UNCHANGED <<at, pipe, turbo>>
  BY DEF Send, InTurn
<1>2. ThreadMoves(n, t, left)
  BY <1>1, PieceIsStep
<1>3. j \in Nodes \ {n} /\ Owner(n, j) = t
  BY <1>1, PeerOfPiece
<1>4. /\ \A i \in Nodes \ {n} : Owner(n, i) = t =>
           /\ i # j => LeftWritten(n, i, left) = Written(n, i)
           /\ LeftRead(n, i, left) = Read(n, i)
      /\ n \in Sources(j, at[n]) /\ Written(n, j) = last /\ LeftWritten(n, j, left) = p
      /\ UnitOf(n, t, s) \in 1 .. Units
  BY <1>1, <1>3, PieceAt
<1>5. p \in Stream(n, j) /\ First(Stream(n, j), last, p)
  <2>1. /\ at[n] \in Steps /\ task[n][t].row \in 1 .. BatchSize
    BY <1>1, TaskOf
  <2>2. p \in Stream(n, j)
    BY <1>4, <2>1 DEF Stream, Places
  <2>3. First(Stream(n, j), last, p)
    BY <1>4, <2>1, NextPiece, Constant DEF Steps
  <2> QED
    BY <2>2, <2>3
<1>6. Buffers
  BY DEF SyncInv
<1> HIDE DEF left, j, p, last
<1>7. /\ chan'[n][j] = Append(chan[n][j], p)
      /\ \A a \in Nodes : \A b \in Nodes \ {a} : a # n \/ b # j => chan'[a][b] = chan[a][b]
      /\ chan' = [a \in Nodes |-> [b \in Nodes \ {a} |-> chan'[a][b]]]
  BY <1>1, <1>3, <1>6, OneConnection
<1>8. Carries(n, j, chan[n][j], Read(j, n), last)
  BY <1>3, <1>4 DEF SyncInv, Connections
<1>9. Carries(n, j, chan'[n][j], Read(j, n)', Written(n, j)')
  <2>1. Read(j, n) \in Marks /\ last \in Marks
    BY <1>3, <1>4, MarksOfNode
  <2>2. Carries(n, j, chan'[n][j], Read(j, n), p)
    BY <1>5, <1>7, <1>8, <2>1, CarriesOneMore
  <2>3. Read(j, n)' = Read(j, n)
    BY <1>2, <1>3, OtherNodes
  <2>4. Same(Stream(n, j), p, Written(n, j)')
    BY <1>2, <1>3, <1>4, ThisThread
  <2> QED
    BY <2>2, <2>3, <2>4, SameItself, CarriesSame
<1>10. ASSUME NEW a \in Nodes, NEW b \in Nodes \ {a}
       PROVE  /\ Carries(a, b, chan'[a][b], Read(b, a)', Written(a, b)')
              /\ Len(chan'[a][b]) <= Capacity
  <2>1. CASE a = n /\ b = j
    <3>1. Len(Append(chan[n][j], p)) = Len(chan[n][j]) + 1 /\ Len(chan[n][j]) \in Nat
      BY <1>8 DEF Carries
    <3>2. Len(chan'[n][j]) <= Capacity
      BY <1>1, <1>7, <3>1, SyncAssumption DEF j
    <3> QED
      BY <1>9, <2>1, <3>2
  <2>2. CASE a # n \/ b # j
    <3>1. chan'[a][b] = chan[a][b]
      BY <1>7, <2>2
    <3>2. Carries(a, b, chan'[a][b], Read(b, a)', Written(a, b)')
      BY <1>2, <1>4, <2>2, <3>1, Undisturbed
    <3> QED
      BY <3>1, <3>2 DEF SyncInv, Buffers
  <2> QED
    BY <2>1, <2>2
<1>11. Connections' /\ Buffers'
  BY <1>7, <1>10 DEF Connections, Buffers
<1>12. Gathered'
  <2>1. pipe' = pipe
    BY <1>1
  <2>2. ASSUME NEW a \in Nodes, NEW row \in 1 .. BatchSize, NEW i \in Nodes
        PROVE  pipe'[a][row][i] =
                 IF i \in Sources(a, at'[a]) THEN Slice(at'[a], row, UpTo(row, Read(a, i)')) ELSE <<>>
    BY <1>2, <1>4, <2>1, UndisturbedRow
  <2>3. pipe = [a \in Nodes |-> [row \in 1 .. BatchSize |-> [i \in Nodes |-> pipe[a][row][i]]]]
    BY DEF SyncInv, Gathered
  <2> QED
    BY <2>1, <2>2, <2>3 DEF Gathered
<1> QED
  BY <1>2, <1>11, <1>12, TasksStep DEF SyncInv

(* The pieces of a row                                                      *)
LEMMA SliceIs ==
  ASSUME NEW k \in Nat, NEW row \in Nat, NEW u \in Nat
  PROVE  /\ Slice(k, row, u) \in Seq(Marks) /\ Len(Slice(k, row, u)) = u
         /\ \A i \in 1 .. u : Slice(k, row, u)[i] = <<k, row, i>>
BY DEF Slice, Marks

LEMMA SliceNone ==
  ASSUME NEW k \in Nat, NEW row \in Nat
  PROVE  Slice(k, row, 0) = <<>>
BY SliceIs, EmptySeq

LEMMA SliceOneMore ==
  ASSUME NEW k \in Nat, NEW row \in Nat, NEW u \in Nat \ {0}
  PROVE  Append(Slice(k, row, u - 1), <<k, row, u>>) = Slice(k, row, u)
<1> DEFINE s == Slice(k, row, u - 1)
           p == <<k, row, u>>
           x == Append(s, p)
           y == Slice(k, row, u)
<1>1. u - 1 \in Nat /\ p \in Marks
  BY DEF Marks
<1>2. /\ s \in Seq(Marks) /\ Len(s) = u - 1 /\ \A i \in 1 .. u - 1 : s[i] = <<k, row, i>>
      /\ y \in Seq(Marks) /\ Len(y) = u /\ \A i \in 1 .. u : y[i] = <<k, row, i>>
  BY <1>1, SliceIs
<1> HIDE DEF s, y
<1>3. /\ x \in Seq(Marks) /\ Len(x) = u /\ x[u] = p /\ \A i \in 1 .. u - 1 : x[i] = s[i]
  <2> HIDE DEF p
  <2>1. Len(s) + 1 = u
    BY <1>2
  <2> QED
    BY <1>1, <1>2, <2>1
<1> HIDE DEF x
<1>4. \A i \in 1 .. u : i = u \/ i \in 1 .. u - 1
  OBVIOUS
<1>5. \A i \in 1 .. u : x[i] = y[i]
  <2>1. y[u] = p
    BY <1>2
  <2> QED
    BY <1>2, <1>3, <1>4, <2>1
<1>6. x = y
  BY <1>2, <1>3, <1>5, SeqEqual
<1> QED
  BY <1>6 DEF x, y, s, p

LEMMA OneSliceOfRow ==
  ASSUME Gathered, NEW n \in Nodes, NEW row \in 1 .. BatchSize, NEW j \in Nodes, NEW v,
         pipe' = [pipe EXCEPT ![n][row][j] = v]
  PROVE  /\ pipe'[n][row][j] = v
         /\ \A a \in Nodes : \A r \in 1 .. BatchSize : \A i \in Nodes :
              a # n \/ r # row \/ i # j => pipe'[a][r][i] = pipe[a][r][i]
         /\ pipe' = [a \in Nodes |-> [r \in 1 .. BatchSize |-> [i \in Nodes |-> pipe'[a][r][i]]]]
<1>1. pipe = [a \in Nodes |-> [r \in 1 .. BatchSize |-> [i \in Nodes |-> pipe[a][r][i]]]]
  BY DEF Gathered
<1>2. \A a \in Nodes : pipe[a] = [r \in 1 .. BatchSize |-> [i \in Nodes |-> pipe[a][r][i]]]
  BY <1>1, Zenon
<1>3. \A a \in Nodes : \A r \in 1 .. BatchSize : pipe[a][r] = [i \in Nodes |-> pipe[a][r][i]]
  BY <1>2, Zenon
<1> DEFINE in == [pipe[n][row] EXCEPT ![j] = v]
<1>4. /\ in = [i \in Nodes |-> in[i]] /\ in[j] = v
      /\ \A i \in Nodes : i # j => in[i] = pipe[n][row][i]
  BY <1>3
<1> DEFINE of == [pipe[n] EXCEPT ![row] = in]
<1>5. pipe' = [pipe EXCEPT ![n] = of]
  OBVIOUS
<1> HIDE DEF in
<1>6. /\ of = [r \in 1 .. BatchSize |-> of[r]] /\ of[row] = in
      /\ \A r \in 1 .. BatchSize : r # row => of[r] = pipe[n][r]
  BY <1>2
<1> HIDE DEF of
<1>7. /\ pipe'[n] = of /\ \A a \in Nodes : a # n => pipe'[a] = pipe[a]
      /\ pipe' = [a \in Nodes |-> pipe'[a]]
  BY <1>1, <1>5
<1>8. \A a \in Nodes : \A r \in 1 .. BatchSize : pipe'[a][r] = [i \in Nodes |-> pipe'[a][r][i]]
  BY <1>3, <1>4, <1>6, <1>7
<1>9. \A a \in Nodes : pipe'[a] = [r \in 1 .. BatchSize |-> pipe'[a][r]]
  <2>1. \A a \in Nodes : pipe[a] = [r \in 1 .. BatchSize |-> pipe[a][r]]
    BY <1>2
  <2>2. ASSUME NEW a \in Nodes, a # n PROVE pipe'[a] = [r \in 1 .. BatchSize |-> pipe'[a][r]]
    BY <1>7, <2>1, <2>2
  <2>3. pipe'[n] = [r \in 1 .. BatchSize |-> pipe'[n][r]]
    BY <1>6, <1>7
  <2> QED
    BY <2>2, <2>3
<1>10. pipe'[n][row][j] = v
  BY <1>4, <1>6, <1>7
<1>11. \A a \in Nodes : \A r \in 1 .. BatchSize : \A i \in Nodes :
         a # n \/ r # row \/ i # j => pipe'[a][r][i] = pipe[a][r][i]
  BY <1>4, <1>6, <1>7
<1>12. \A a \in Nodes :
         pipe'[a] = [r \in 1 .. BatchSize |-> [i \in Nodes |-> pipe'[a][r][i]]]
  <2> SUFFICES ASSUME NEW a \in Nodes
               PROVE  pipe'[a] = [r \in 1 .. BatchSize |-> [i \in Nodes |-> pipe'[a][r][i]]]
    OBVIOUS
  <2> DEFINE F == [r \in 1 .. BatchSize |-> [i \in Nodes |-> pipe'[a][r][i]]]
             X == pipe'[a]
  <2>1. \A r \in 1 .. BatchSize : F[r] = X[r]
    BY <1>8
  <2>2. F = [r \in 1 .. BatchSize |-> F[r]] /\ X = [r \in 1 .. BatchSize |-> X[r]]
    BY <1>9
  <2> HIDE DEF F, X
  <2>3. X = F
    BY <2>1, <2>2
  <2> QED
    BY <2>3 DEF F, X
<1>13. pipe' = [a \in Nodes |-> [r \in 1 .. BatchSize |-> [i \in Nodes |-> pipe'[a][r][i]]]]
  BY <1>7, <1>12
<1> QED
  BY <1>10, <1>11, <1>13

LEMMA RecvInv ==
  ASSUME SyncInv, NEW n \in Nodes, NEW t \in Threads(n), NEW s, Recv(n, t, s)
  PROVE  SyncInv'
<1> DEFINE left == Less(task[n][t], s)
           j    == Peer(n, s)
           k    == at[n]
           row  == task[n][t].row
           u    == UnitOf(n, t, s)
           p    == <<k, row, u>>
           last == <<k, row, u - 1>>
<1>1. /\ task[n][t].phase = "read" /\ s \in Pending(n, t) /\ Piece(n, t, s)
      /\ chan[j][n] # <<>>
      /\ pipe' = [pipe EXCEPT ![n][row][j] = Append(pipe[n][row][j], Head(chan[j][n]))]
      /\ chan' = [chan EXCEPT ![j][n] = Tail(chan[j][n])]
      /\ UNCHANGED <<at, turbo>>
  BY DEF Recv, InTurn
<1>2. ThreadMoves(n, t, left)
  BY <1>1, PieceIsStep
<1>3. j \in Nodes \ {n} /\ Owner(n, j) = t /\ n \in Nodes \ {j}
  BY <1>1, PeerOfPiece
<1>4. /\ \A i \in Nodes \ {n} : Owner(n, i) = t =>
           /\ i # j => LeftRead(n, i, left) = Read(n, i)
           /\ LeftWritten(n, i, left) = Written(n, i)
      /\ j \in Sources(n, k) /\ Read(n, j) = last /\ LeftRead(n, j, left) = p
      /\ u \in 1 .. Units
  BY <1>1, <1>3, PieceAt
<1>5. k \in Steps /\ row \in 1 .. BatchSize /\ k \in Nat /\ row \in Nat /\ u \in Nat \ {0}
  <2>1. k \in Steps /\ row \in 1 .. BatchSize
    BY <1>1, TaskOf
  <2> QED
    BY <1>4, <2>1, Constant DEF Steps
<1>6. p \in Stream(j, n) /\ First(Stream(j, n), last, p)
  <2>1. p \in Stream(j, n)
    BY <1>4, <1>5 DEF Stream, Places
  <2>2. First(Stream(j, n), last, p)
    BY <1>5, NextPiece
  <2> QED
    BY <2>1, <2>2
<1>7. Buffers /\ Gathered
  BY DEF SyncInv
<1> HIDE DEF left, j, row, u, k, p, last
<1>8. /\ chan'[j][n] = Tail(chan[j][n])
      /\ \A a \in Nodes : \A b \in Nodes \ {a} : a # j \/ b # n => chan'[a][b] = chan[a][b]
      /\ chan' = [a \in Nodes |-> [b \in Nodes \ {a} |-> chan'[a][b]]]
  BY <1>1, <1>3, <1>7, OneConnection
<1>9. Carries(j, n, chan[j][n], last, Written(j, n))
  BY <1>3, <1>4 DEF SyncInv, Connections
<1>10. /\ Head(chan[j][n]) = p
       /\ Carries(j, n, chan'[j][n], p, Written(j, n))
  <2>1. last \in Marks /\ Written(j, n) \in Marks
    BY <1>3, <1>4, MarksOfNode
  <2> QED
    BY <1>1, <1>6, <1>8, <1>9, <2>1, CarriesNext
<1>11. Carries(j, n, chan'[j][n], Read(n, j)', Written(j, n)')
  <2>1. Written(j, n)' = Written(j, n)
    BY <1>2, <1>3, OtherNodes
  <2>2. Same(Stream(j, n), p, Read(n, j)')
    BY <1>2, <1>3, <1>4, ThisThread
  <2> QED
    BY <1>10, <2>1, <2>2, SameItself, CarriesSame
<1>12. ASSUME NEW a \in Nodes, NEW b \in Nodes \ {a}
       PROVE  /\ Carries(a, b, chan'[a][b], Read(b, a)', Written(a, b)')
              /\ Len(chan'[a][b]) <= Capacity
  <2>1. CASE a = j /\ b = n
    <3>1. Len(Tail(chan[j][n])) = Len(chan[j][n]) - 1 /\ Len(chan[j][n]) \in Nat
      BY <1>1, <1>9, HeadTailProperties DEF Carries
    <3>2. Len(chan'[j][n]) <= Capacity
      BY <1>3, <1>7, <1>8, <3>1, SyncAssumption DEF Buffers
    <3> QED
      BY <1>11, <2>1, <3>2
  <2>2. CASE a # j \/ b # n
    <3>1. chan'[a][b] = chan[a][b]
      BY <1>8, <2>2
    <3>2. Carries(a, b, chan'[a][b], Read(b, a)', Written(a, b)')
      BY <1>2, <1>4, <2>2, <3>1, Undisturbed
    <3> QED
      BY <1>7, <3>1, <3>2 DEF Buffers
  <2> QED
    BY <2>1, <2>2
<1>13. Connections' /\ Buffers'
  BY <1>8, <1>12 DEF Connections, Buffers
<1>14. /\ pipe'[n][row][j] = Append(pipe[n][row][j], p)
       /\ \A a \in Nodes : \A r \in 1 .. BatchSize : \A i \in Nodes :
            a # n \/ r # row \/ i # j => pipe'[a][r][i] = pipe[a][r][i]
       /\ pipe' = [a \in Nodes |-> [r \in 1 .. BatchSize |-> [i \in Nodes |-> pipe'[a][r][i]]]]
  <2>1. pipe' = [pipe EXCEPT ![n][row][j] = Append(pipe[n][row][j], p)]
    BY <1>1, <1>10
  <2> QED
    BY <1>3, <1>5, <1>7, <2>1, OneSliceOfRow
<1>15. \A r \in 1 .. BatchSize : r # row => UpTo(r, p) = UpTo(r, last)
  BY DEF UpTo, p, last
<1>16. UpTo(row, p) = u /\ UpTo(row, last) = u - 1
  BY <1>5 DEF UpTo, p, last
<1>17. ASSUME NEW a \in Nodes, NEW r \in 1 .. BatchSize, NEW i \in Nodes
       PROVE  pipe'[a][r][i] =
                IF i \in Sources(a, at'[a]) THEN Slice(at'[a], r, UpTo(r, Read(a, i)')) ELSE <<>>
  <2>1. CASE a = n /\ r = row /\ i = j
    <3>1. pipe[n][row][j] = Slice(k, row, u - 1)
      BY <1>3, <1>4, <1>5, <1>7, <1>16 DEF Gathered, k
    <3>2. pipe'[n][row][j] = Slice(k, row, u)
      BY <1>5, <1>14, <3>1, SliceOneMore DEF p
    <3>3. UpTo(row, Read(n, j)') = u /\ at'[n] = k
      BY <1>1, <1>2, <1>3, <1>4, <1>5, <1>16, ThisThread DEF k
    <3> QED
      BY <1>4, <2>1, <3>2, <3>3
  <2>2. CASE a # n \/ r # row \/ i # j
    <3>1. pipe'[a][r][i] = pipe[a][r][i]
      BY <1>14, <2>2
    <3>2. a = n /\ i # n /\ Owner(n, i) = t => UpTo(r, LeftRead(n, i, left)) = UpTo(r, Read(n, i))
      BY <1>4, <1>15, <2>2
    <3> QED
      BY <1>2, <3>1, <3>2, UndisturbedRow
  <2> QED
    BY <2>1, <2>2
<1>18. Gathered'
  BY <1>14, <1>17 DEF Gathered
<1> QED
  BY <1>2, <1>13, <1>18, TasksStep DEF SyncInv

-----------------------------------------------------------------------------
(* The beginning and the end of a step of a node                            *)

StartOf(k, used) == IF used THEN <<k, 1, 0>> ELSE <<k, BatchSize, Units>>

LEMMA StartAfterEnd ==
  ASSUME NEW m, NEW n, NEW k \in Nat
  PROVE  Same(Stream(m, n), <<k, BatchSize, Units>>, StartOf(k + 1, m \in Sources(n, k + 1)))
<1>1. CASE m \in Sources(n, k + 1)
  <2>1. StartOf(k + 1, m \in Sources(n, k + 1)) = <<k + 1, 1, 0>>
    BY <1>1 DEF StartOf
  <2> QED
    BY <2>1, StepEnd
<1>2. CASE m \notin Sources(n, k + 1)
  <2>1. StartOf(k + 1, m \in Sources(n, k + 1)) = <<k + 1, BatchSize, Units>>
    BY <1>2 DEF StartOf
  <2> QED
    BY <1>2, <2>1, StepEnd
<1> QED
  BY <1>1, <1>2

LEMMA FirstTaskIs ==
  ASSUME NEW n \in Nodes, NEW t \in Threads(n), NEW k
  PROVE  /\ TaskIs(n, t, k, FirstTask(n, t, k))
         /\ \A j \in Nodes \ {n} : Owner(n, j) = t =>
              /\ WrittenBy(FirstTask(n, t, k), k, Socket(n, j), n \in Sources(j, k))
                   = StartOf(k, n \in Sources(j, k))
              /\ ReadBy(FirstTask(n, t, k), k, Socket(n, j), j \in Sources(n, k))
                   = StartOf(k, j \in Sources(n, k))
<1> DEFINE first == FirstTask(n, t, k)
<1>1. /\ Units \in Nat /\ Units - Units = 0 /\ 1 \in 1 .. BatchSize /\ Steps = DOMAIN Syncs
  BY Constant
<1>2. ASSUME NEW j \in Nodes \ {n}, Owner(n, j) = t
      PROVE  /\ n \in Sources(j, k) =>
                  k \in Steps /\ Socket(n, j) \in Mine(n, t, k) /\ Writes(n, k)
             /\ j \in Sources(n, k) =>
                  k \in Steps /\ Socket(n, j) \in Mine(n, t, k) /\ Reads(n, k)
  <2>1. (n \in Sources(j, k) \/ j \in Sources(n, k)) => k \in Steps
    BY StepTypes
  <2> QED
    BY <1>2, <2>1, BothSides, Owned
<1>3. CASE k \in Steps /\ Mine(n, t, k) # {}
  <2>1. /\ first = Begun(n, t, k, 1, FirstPhase(n, k))
    BY <1>1, <1>3 DEF FirstTask
  <2>2. CASE Writes(n, k) \/ Reads(n, k)
    <3>1. /\ FirstPhase(n, k) \in {"write", "read"}
          /\ FirstPhase(n, k) = "write" => Writes(n, k)
          /\ FirstPhase(n, k) = "read" => Reads(n, k)
          /\ Writes(n, k) => FirstPhase(n, k) = "write"
      BY <2>2 DEF FirstPhase
    <3>2. /\ TaskIs(n, t, k, first) /\ first.phase = FirstPhase(n, k) /\ first.row = 1
          /\ \A s \in Mine(n, t, k) : first.todo[s] = Units
      BY <1>1, <1>3, <2>1, <3>1, BegunIs
    <3> HIDE DEF first
    <3>3. ASSUME NEW j \in Nodes \ {n}, Owner(n, j) = t
          PROVE  /\ WrittenBy(first, k, Socket(n, j), n \in Sources(j, k))
                      = StartOf(k, n \in Sources(j, k))
                 /\ ReadBy(first, k, Socket(n, j), j \in Sources(n, k))
                      = StartOf(k, j \in Sources(n, k))
      BY <1>1, <1>2, <3>1, <3>2, <3>3 DEF WrittenBy, ReadBy, StartOf
    <3> QED
      BY <3>2, <3>3 DEF first
  <2>3. Writes(n, k) \/ Reads(n, k)
    BY DEF Writes, Reads
  <2> QED
    BY <2>2, <2>3
<1>4. CASE ~(k \in Steps /\ Mine(n, t, k) # {})
  <2>1. first = Finished(BatchSize)
    BY <1>1, <1>4 DEF FirstTask
  <2>2. TaskIs(n, t, k, first)
    BY <2>1 DEF TaskIs
  <2>3. ASSUME NEW j \in Nodes \ {n}, Owner(n, j) = t
        PROVE  n \notin Sources(j, k) /\ j \notin Sources(n, k)
    BY <1>2, <1>4, <2>3
  <2> QED
    BY <2>2, <2>3 DEF WrittenBy, ReadBy, StartOf
<1> QED
  BY <1>3, <1>4

LEMMA SyncStart == SyncInit => SyncInv
<1> SUFFICES ASSUME SyncInit PROVE SyncInv
  OBVIOUS
<1>1. at = [n \in Nodes |-> 1] /\ \A n \in Nodes : at[n] = 1
  BY DEF SyncInit
<1>2. Len(Syncs) \in Nat /\ Capacity \in Nat /\ BatchSize \in Nat /\ Units \in Nat
  BY SyncAssumption
<1>3. at \in [Nodes -> 1 .. (Len(Syncs) + 1)]
  BY <1>1, <1>2
<1>4. /\ task = [n \in Nodes |-> [t \in Threads(n) |-> task[n][t]]]
      /\ \A n \in Nodes : \A t \in Threads(n) : task[n][t] = FirstTask(n, t, 1)
  BY DEF SyncInit
<1>5. Tasks
  BY <1>1, <1>4, FirstTaskIs DEF Tasks
<1>6. /\ chan = [m \in Nodes |-> [n \in Nodes \ {m} |-> chan[m][n]]]
      /\ \A m \in Nodes : \A n \in Nodes \ {m} : chan[m][n] = <<>>
  BY DEF SyncInit
<1>7. Buffers
  BY <1>2, <1>6 DEF Buffers
<1>8. ASSUME NEW n \in Nodes, NEW j \in Nodes \ {n}
      PROVE  /\ Written(n, j) = StartOf(1, n \in Sources(j, 1))
             /\ Read(n, j) = StartOf(1, j \in Sources(n, 1))
  <2>1. Owner(n, j) \in Threads(n)
    BY Owned
  <2>2. TaskFor(n, j) = FirstTask(n, Owner(n, j), 1) /\ at[n] = 1
    BY <1>1, <1>4, <2>1 DEF TaskFor
  <2> QED
    BY <2>1, <2>2, FirstTaskIs DEF Written, Read
<1>9. ASSUME NEW m \in Nodes, NEW n \in Nodes \ {m}
      PROVE  Carries(m, n, chan[m][n], Read(n, m), Written(m, n))
  <2>1. Read(n, m) = Written(m, n)
    BY <1>8
  <2>2. chan[m][n] = <<>> /\ <<>> \in Seq(Stream(m, n)) /\ Len(<<>>) = 0
    BY <1>6
  <2> QED
    BY <2>1, <2>2 DEF Carries, InOrder, Between
<1>10. Gathered
  <2>1. /\ pipe = [n \in Nodes |-> [row \in 1 .. BatchSize |-> [j \in Nodes |-> pipe[n][row][j]]]]
        /\ \A n \in Nodes : \A row \in 1 .. BatchSize : \A j \in Nodes : pipe[n][row][j] = <<>>
    BY DEF SyncInit, EmptyPipe
  <2>2. ASSUME NEW n \in Nodes, NEW row \in 1 .. BatchSize, NEW j \in Sources(n, 1)
        PROVE  Slice(1, row, UpTo(row, Read(n, j))) = <<>>
    <3>1. j \in Nodes \ {n}
      BY NotItsOwnSource
    <3>2. UpTo(row, Read(n, j)) = 0
      BY <1>2, <1>8, <3>1 DEF StartOf, UpTo
    <3> QED
      BY <1>2, <3>2, SliceNone
  <2> QED
    BY <1>1, <2>1, <2>2 DEF Gathered
<1> QED
  BY <1>3, <1>5, <1>7, <1>9, <1>10 DEF SyncInv, Connections

(* A node that is done has written and read to the end of its step.         *)
LEMMA DoneAt ==
  ASSUME SyncInv, NEW n \in Nodes, AllDone(n), NEW j \in Nodes \ {n}
  PROVE  /\ Written(n, j) = <<at[n], BatchSize, Units>>
         /\ Read(n, j) = <<at[n], BatchSize, Units>>
<1>1. Owner(n, j) \in Threads(n)
  BY Owned
<1>2. TaskIs(n, Owner(n, j), at[n], TaskFor(n, j)) /\ TaskFor(n, j).phase = "done"
  BY <1>1 DEF SyncInv, Tasks, AllDone, TaskFor
<1>3. TaskFor(n, j).row = BatchSize
  BY <1>2 DEF TaskIs, Finished
<1> QED
  BY <1>2, <1>3 DEF Written, Read, WrittenBy, ReadBy

LEMMA NextStepInv ==
  ASSUME SyncInv, NEW n \in Nodes, NextStep(n)
  PROVE  SyncInv'
<1> DEFINE k == at[n]
<1>1. /\ k \in DOMAIN Syncs /\ AllDone(n)
      /\ at' = [at EXCEPT ![n] = k + 1]
      /\ task' = [task EXCEPT ![n] = [t \in Threads(n) |-> FirstTask(n, t, k + 1)]]
      /\ pipe' = [pipe EXCEPT ![n] = EmptyPipe]
      /\ UNCHANGED <<chan, turbo>>
  BY DEF NextStep
<1>2. /\ at \in [Nodes -> 1 .. (Len(Syncs) + 1)]
      /\ task = [a \in Nodes |-> [t \in Threads(a) |-> task[a][t]]]
      /\ Len(Syncs) \in Nat /\ k \in 1 .. Len(Syncs) /\ BatchSize \in Nat /\ Units \in Nat
  BY <1>1, Constant DEF SyncInv, Tasks, Steps
<1> HIDE DEF k
<1>3. at'[n] = k + 1 /\ \A a \in Nodes : a # n => at'[a] = at[a]
  BY <1>1, <1>2
<1>4. at' \in [Nodes -> 1 .. (Len(Syncs) + 1)]
  BY <1>1, <1>2
<1>5. /\ \A t \in Threads(n) : task'[n][t] = FirstTask(n, t, k + 1)
      /\ \A a \in Nodes : a # n => task'[a] = task[a]
      /\ task' = [a \in Nodes |-> [t \in Threads(a) |-> task'[a][t]]]
  <2> DEFINE new == [t \in Threads(n) |-> FirstTask(n, t, k + 1)]
  <2>1. new = [t \in Threads(n) |-> new[t]] /\ \A t \in Threads(n) : new[t] = FirstTask(n, t, k + 1)
    OBVIOUS
  <2>2. task' = [task EXCEPT ![n] = new]
    BY <1>1
  <2> HIDE DEF new
  <2>3. task'[n] = new /\ (\A a \in Nodes : a # n => task'[a] = task[a])
        /\ task' = [a \in Nodes |-> task'[a]]
    BY <1>2, <2>2
  <2>4. \A a \in Nodes : task[a] = [t \in Threads(a) |-> task[a][t]]
    BY <1>2, Zenon
  <2>5. \A a \in Nodes : task'[a] = [t \in Threads(a) |-> task'[a][t]]
    BY <2>1, <2>3, <2>4
  <2> QED
    BY <2>1, <2>3, <2>5
<1>6. Tasks'
  <2>1. ASSUME NEW a \in Nodes, NEW t \in Threads(a) PROVE TaskIs(a, t, at'[a], task'[a][t])
    <3>1. CASE a = n
      BY <1>3, <1>5, <3>1, FirstTaskIs
    <3>2. CASE a # n
      BY <1>3, <1>5, <3>2 DEF SyncInv, Tasks
    <3> QED
      BY <3>1, <3>2
  <2> QED
    BY <1>5, <2>1 DEF Tasks
<1>7. Buffers'
  BY <1>1 DEF SyncInv, Buffers
<1>8. ASSUME NEW j \in Nodes \ {n}
      PROVE  /\ Written(n, j)' = StartOf(k + 1, n \in Sources(j, k + 1))
             /\ Read(n, j)' = StartOf(k + 1, j \in Sources(n, k + 1))
  <2>1. Owner(n, j) \in Threads(n)
    BY Owned
  <2>2. TaskFor(n, j)' = FirstTask(n, Owner(n, j), k + 1) /\ at'[n] = k + 1
    BY <1>3, <1>5, <2>1 DEF TaskFor
  <2> QED
    BY <2>1, <2>2, FirstTaskIs DEF Written, Read
<1>9. ASSUME NEW a \in Nodes \ {n}, NEW b \in Nodes \ {a}
      PROVE  Written(a, b)' = Written(a, b) /\ Read(a, b)' = Read(a, b)
  <2>1. TaskFor(a, b)' = TaskFor(a, b) /\ at'[a] = at[a]
    BY <1>3, <1>5 DEF TaskFor
  <2> QED
    BY <2>1 DEF Written, Read
<1>10. ASSUME NEW j \in Nodes \ {n}
       PROVE  /\ Same(Stream(n, j), Written(n, j), Written(n, j)')
              /\ Same(Stream(j, n), Read(n, j), Read(n, j)')
  <2>1. Written(n, j) = <<k, BatchSize, Units>> /\ Read(n, j) = <<k, BatchSize, Units>>
    BY <1>1, DoneAt DEF k
  <2>2. Same(Stream(n, j), <<k, BatchSize, Units>>, StartOf(k + 1, n \in Sources(j, k + 1)))
    BY <1>2, StartAfterEnd
  <2>3. Same(Stream(j, n), <<k, BatchSize, Units>>, StartOf(k + 1, j \in Sources(n, k + 1)))
    BY <1>2, StartAfterEnd
  <2>4. /\ Written(n, j)' = StartOf(k + 1, n \in Sources(j, k + 1))
        /\ Read(n, j)' = StartOf(k + 1, j \in Sources(n, k + 1))
    BY <1>8
  <2> QED
    BY <2>1, <2>2, <2>3, <2>4, Zenon
<1>11. Connections'
  <2>1. ASSUME NEW a \in Nodes, NEW b \in Nodes \ {a}
        PROVE  Carries(a, b, chan'[a][b], Read(b, a)', Written(a, b)')
    <3>1. Carries(a, b, chan'[a][b], Read(b, a), Written(a, b))
      BY <1>1 DEF SyncInv, Connections
    <3>2. Same(Stream(a, b), Written(a, b), Written(a, b)')
      BY <1>9, <1>10, SameItself
    <3>3. Same(Stream(a, b), Read(b, a), Read(b, a)')
      BY <1>9, <1>10, SameItself
    <3> QED
      BY <3>1, <3>2, <3>3, CarriesSame
  <2> QED
    BY <2>1 DEF Connections
<1>12. Gathered'
  <2>1. /\ pipe = [a \in Nodes |-> [row \in 1 .. BatchSize |-> [j \in Nodes |-> pipe[a][row][j]]]]
        /\ \A a \in Nodes : \A row \in 1 .. BatchSize : \A j \in Nodes :
             pipe[a][row][j] =
               IF j \in Sources(a, at[a]) THEN Slice(at[a], row, UpTo(row, Read(a, j))) ELSE <<>>
    BY DEF SyncInv, Gathered
  <2>2. /\ pipe'[n] = EmptyPipe /\ (\A a \in Nodes : a # n => pipe'[a] = pipe[a])
        /\ pipe' = [a \in Nodes |-> pipe'[a]]
    BY <1>1, <2>1
  <2>3. /\ EmptyPipe = [row \in 1 .. BatchSize |-> [j \in Nodes |-> EmptyPipe[row][j]]]
        /\ \A row \in 1 .. BatchSize : \A j \in Nodes : EmptyPipe[row][j] = <<>>
    BY DEF EmptyPipe
  <2>4. \A a \in Nodes : pipe[a] = [row \in 1 .. BatchSize |-> [j \in Nodes |-> pipe[a][row][j]]]
    BY <2>1, Zenon
  <2>5. pipe' = [a \in Nodes |-> [row \in 1 .. BatchSize |-> [j \in Nodes |-> pipe'[a][row][j]]]]
    <3>1. ASSUME NEW a \in Nodes
          PROVE  pipe'[a] = [row \in 1 .. BatchSize |-> [j \in Nodes |-> pipe'[a][row][j]]]
      <4>1. CASE a = n
        BY <2>2, <2>3, <4>1, Zenon
      <4>2. CASE a # n
        <5>1. pipe'[a] = pipe[a]
          BY <2>2, <4>2
        <5>2. pipe[a] = [row \in 1 .. BatchSize |-> [j \in Nodes |-> pipe[a][row][j]]]
          BY <2>4, Zenon
        <5> QED
          BY <5>1, <5>2
      <4> QED
        BY <4>1, <4>2
    <3> QED
      BY <2>2, <3>1
  <2>6. ASSUME NEW a \in Nodes, NEW row \in 1 .. BatchSize, NEW j \in Nodes
        PROVE  pipe'[a][row][j] =
                 IF j \in Sources(a, at'[a]) THEN Slice(at'[a], row, UpTo(row, Read(a, j)')) ELSE <<>>
    <3>1. j \in Sources(a, at'[a]) => j # a
      BY NotItsOwnSource
    <3>2. CASE a # n
      <4>1. pipe'[a][row][j] = pipe[a][row][j] /\ at'[a] = at[a]
        BY <1>3, <2>2, <3>2
      <4>2. j \in Sources(a, at[a]) => Read(a, j)' = Read(a, j)
        BY <1>9, <3>1, <3>2, <4>1
      <4> QED
        BY <2>1, <4>1, <4>2
    <3>3. CASE a = n
      <4>1. pipe'[a][row][j] = <<>>
        BY <2>2, <2>3, <3>3
      <4>2. j \in Sources(n, k + 1) => Read(n, j)' = <<k + 1, 1, 0>>
        BY <1>3, <1>8, <3>1, <3>3 DEF StartOf
      <4>3. UpTo(row, <<k + 1, 1, 0>>) = 0
        BY <1>2 DEF UpTo
      <4>4. Slice(k + 1, row, 0) = <<>>
        <5>1. k + 1 \in Nat /\ row \in Nat
          BY <1>2
        <5> QED
          BY <5>1, SliceNone
      <4> QED
        BY <1>3, <3>3, <4>1, <4>2, <4>3, <4>4
    <3> QED
      BY <3>2, <3>3
  <2> QED
    BY <2>5, <2>6 DEF Gathered
<1> QED
  BY <1>4, <1>6, <1>7, <1>11, <1>12 DEF SyncInv

LEMMA SyncStep == SyncInv /\ [SyncNext]_syncVars => SyncInv'
<1> SUFFICES ASSUME SyncInv, [SyncNext]_syncVars PROVE SyncInv'
  OBVIOUS
<1>1. CASE UNCHANGED <<at, task, pipe, chan>>
  <2>1. UNCHANGED <<at, task, pipe, chan>>
    BY <1>1
  <2>2. Tasks' /\ Buffers'
    BY <2>1 DEF SyncInv, Tasks, Buffers
  <2>3. ASSUME NEW n \in Nodes, NEW j \in Nodes
        PROVE  Written(n, j)' = Written(n, j) /\ Read(n, j)' = Read(n, j)
    BY <2>1 DEF Written, Read, TaskFor
  <2>4. Connections'
    BY <2>1, <2>3 DEF SyncInv, Connections
  <2>5. Gathered'
    <3>1. Gathered
      BY DEF SyncInv
    <3> QED
      BY <2>1, <2>3, <3>1 DEF Gathered
  <2> QED
    BY <2>1, <2>2, <2>4, <2>5 DEF SyncInv
<1>2. ASSUME NEW n \in Nodes, NextStep(n) PROVE SyncInv'
  BY <1>2, NextStepInv
<1>3. ASSUME NEW n \in Nodes, NEW t \in Threads(n), ThreadStep(n, t) PROVE SyncInv'
  BY <1>3, SendInv, RecvInv DEF ThreadStep
<1>4. ASSUME NEW n \in Nodes, NEW t \in Threads(n), Takes(n, t) PROVE SyncInv'
  BY <1>1, <1>4 DEF Takes
<1>5. CASE UNCHANGED syncVars
  BY <1>1, <1>5 DEF syncVars
<1> QED
  BY <1>2, <1>3, <1>4, <1>5 DEF SyncNext

LEMMA SyncInvariant == SyncSpec => []SyncInv
<1> QED
  BY SyncStart, SyncStep, PTL DEF SyncSpec

(* The arena takes tasks of the node's own.                                 *)
TakenOwn == taken \in [Nodes -> SUBSET Int] /\ \A n \in Nodes : taken[n] \subseteq Threads(n)

LEMMA TakenInvariant == SyncSpec => []TakenOwn
<1>1. SyncInit => TakenOwn
  BY DEF SyncInit, TakenOwn
<1>2. TakenOwn /\ [SyncNext]_syncVars => TakenOwn'
  <2> SUFFICES ASSUME TakenOwn, [SyncNext]_syncVars PROVE TakenOwn'
    OBVIOUS
  <2>1. CASE UNCHANGED taken
    BY <2>1 DEF TakenOwn
  <2>2. ASSUME NEW n \in Nodes, NextStep(n) PROVE TakenOwn'
    <3>1. taken' = [taken EXCEPT ![n] = {}]
      BY <2>2 DEF NextStep
    <3> QED
      BY <3>1 DEF TakenOwn
  <2>3. ASSUME NEW n \in Nodes, NEW t \in Threads(n), Takes(n, t) PROVE TakenOwn'
    <3>1. taken' = [taken EXCEPT ![n] = @ \cup {t}] /\ t \in Int
      BY <2>3, Constant DEF Takes, Threads
    <3> QED
      BY <3>1 DEF TakenOwn
  <2>4. ASSUME NEW n \in Nodes, NEW t \in Threads(n), ThreadStep(n, t) PROVE UNCHANGED taken
    BY <2>4 DEF ThreadStep, Send, Recv
  <2>5. CASE UNCHANGED syncVars
    BY <2>1, <2>5 DEF syncVars
  <2> QED
    BY <2>1, <2>2, <2>3, <2>4, <2>5 DEF SyncNext
<1> QED
  BY <1>1, <1>2, PTL DEF SyncSpec

-----------------------------------------------------------------------------
(* The theorems                                                             *)

(* The state has its shape, and no connection holds more than its buffers,  *)
(* for all numbers of nodes, threads, rows, pieces and steps                *)
(* (nn-network.cpp:409-481, 500-591).                                       *)
THEOREM SyncTypeCorrect == SyncSpec => []SyncTypeOK
<1>1. SyncInv /\ TakenOwn => SyncTypeOK
  <2> SUFFICES ASSUME SyncInv, TakenOwn PROVE SyncTypeOK
    OBVIOUS
  <2>1. ASSUME NEW n \in Nodes, NEW t \in Threads(n)
        PROVE  /\ task[n][t].phase \in {"write", "read", "done"}
               /\ task[n][t].row \in 1 .. BatchSize
               /\ DOMAIN task[n][t].todo \subseteq 0 .. (NumNodes - 2)
    <3>1. CASE task[n][t].phase \in {"write", "read"}
      <4>1. Mine(n, t, at[n]) \subseteq 0 .. (NumSockets(n, at[n]) - 1)
        BY MineIs
      <4>2. NumSockets(n, at[n]) - 1 <= NumNodes - 2 /\ NumSockets(n, at[n]) \in Nat
        BY HowManySockets, Constant
      <4>3. Mine(n, t, at[n]) \subseteq 0 .. (NumNodes - 2)
        BY <4>1, <4>2, Constant
      <4> QED
        BY <3>1, <4>3, TaskOf
    <3>2. CASE task[n][t].phase \notin {"write", "read"}
      <4>1. TaskIs(n, t, at[n], task[n][t])
        BY DEF SyncInv, Tasks
      <4>2. task[n][t] = Finished(BatchSize)
        BY <3>2, <4>1 DEF TaskIs
      <4>3. BatchSize \in 1 .. BatchSize
        BY Constant
      <4> QED
        BY <4>2, <4>3 DEF Finished
    <3> QED
      BY <3>1, <3>2
  <2> QED
    BY <2>1 DEF SyncTypeOK, SyncInv, Buffers, TakenOwn
<1> QED
  BY <1>1, SyncInvariant, TakenInvariant, PTL

(* The division of the sockets among the threads (nn-network.cpp:504, 530)  *)
(* gives every socket to one thread, however many there are of either.      *)
THEOREM SocketsArePartitioned == SyncSpec => []SocketsPartitioned
<1>1. SocketsPartitioned
  <2> SUFFICES ASSUME NEW n \in Nodes, NEW k
               PROVE  /\ \A t, u \in Threads(n) :
                           t # u => Mine(n, t, k) \cap Mine(n, u, k) = {}
                      /\ UNION {Mine(n, t, k) : t \in Threads(n)} = 0 .. (NumSockets(n, k) - 1)
    BY DEF SocketsPartitioned
  <2>1. \A t \in Threads(n) :
          Mine(n, t, k) = {s \in 0 .. (NumSockets(n, k) - 1) : s % NumThreads[n] = t}
    BY MineIs
  <2>2. ASSUME NEW s \in 0 .. (NumSockets(n, k) - 1) PROVE s % NumThreads[n] \in Threads(n)
    <3>1. s \in Nat /\ NumThreads[n] \in Nat \ {0}
      BY Constant
    <3> QED
      BY <3>1, Quotient DEF Threads
  <2> QED
    BY <2>1, <2>2
<1> QED
  BY <1>1, PTL

(* However the threads of the nodes interleave and however much the         *)
(* buffers of a connection hold, a node leaves a sync step with the slices  *)
(* of this step, whole and in place, of those it gathers from               *)
(* (syncWithRoot and syncNodeSlices, nn-network.cpp:500-558).               *)
THEOREM SlicesAreGathered == SyncSpec => []SlicesGathered
<1>1. SyncInv => SlicesGathered
  <2> SUFFICES ASSUME SyncInv, NEW n \in Nodes, AllDone(n),
                      NEW row \in 1 .. BatchSize, NEW j \in Nodes
               PROVE  pipe[n][row][j] = IF j \in Sources(n, at[n])
                                        THEN [u \in 1 .. Units |-> <<at[n], row, u>>] ELSE <<>>
    BY DEF SlicesGathered
  <2>1. pipe[n][row][j] =
          IF j \in Sources(n, at[n]) THEN Slice(at[n], row, UpTo(row, Read(n, j))) ELSE <<>>
    BY DEF SyncInv, Gathered
  <2>2. ASSUME j \in Sources(n, at[n]) PROVE UpTo(row, Read(n, j)) = Units
    <3>1. Read(n, j) = <<at[n], BatchSize, Units>>
      BY <2>2, DoneAt, NotItsOwnSource
    <3> QED
      BY <3>1, Constant DEF UpTo
  <2> QED
    BY <2>1, <2>2 DEF Slice
<1> QED
  BY <1>1, SyncInvariant, PTL

(* After a forward pass no connection holds anything that could be taken    *)
(* for the next packet on it.                                               *)
THEOREM WireIsCleanAfterwards == SyncSpec => []WireIsClean
<1>1. SyncInv => WireIsClean
  <2> SUFFICES ASSUME SyncInv, ForwardDone, NEW m \in Nodes, NEW n \in Nodes \ {m}
               PROVE  chan[m][n] = <<>>
    BY DEF WireIsClean
  <2>1. at[m] = Len(Syncs) + 1 /\ at[n] = Len(Syncs) + 1
    BY Constant DEF ForwardDone, SyncInv, Steps
  <2>2. Len(Syncs) + 1 \notin Steps
    BY Constant DEF Steps
  <2>3. m \notin Sources(n, Len(Syncs) + 1)
    BY <2>2, StepTypes
  <2>4. Read(n, m) = Written(m, n)
    BY <2>1, <2>3 DEF Read, Written, ReadBy, WrittenBy
  <2>5. Carries(m, n, chan[m][n], Read(n, m), Written(m, n))
    BY DEF SyncInv, Connections
  <2>6. ~(1 \in 1 .. Len(chan[m][n])) /\ chan[m][n] \in Seq(Stream(m, n))
    BY <2>4, <2>5 DEF Carries, Between
  <2>7. Len(chan[m][n]) = 0
    BY <2>6
  <2> QED
    BY <2>6, <2>7, EmptySeq
<1> QED
  BY <1>1, SyncInvariant, PTL

(* The step of the specification that a node takes is one of Collective:    *)
(* it has read the last piece of everyone it hears from, who has written it *)
(* in this step.                                                            *)
LEMMA NextStepAdvances ==
  ASSUME SyncInv, NEW n \in Nodes, NextStep(n)
  PROVE  Collective!Advance(n)
<1> DEFINE k == at[n]
<1>1. k \in DOMAIN Syncs /\ k \in Steps /\ AllDone(n) /\ at' = [at EXCEPT ![n] = k + 1]
  BY Constant DEF NextStep
<1>2. ASSUME NEW m \in Collective!Heard(n, Syncs[k]) PROVE at[m] >= k
  <2>1. m \in Sources(n, k) /\ m \in Nodes \ {n}
    BY <1>1, <1>2, StepTypes DEF Collective!Heard, Collective!Members, Sources, Type, Nodes
  <2> DEFINE p == <<k, BatchSize, Units>>
  <2>2. p \in Stream(m, n) /\ p \in Marks
    <3>1. BatchSize \in 1 .. BatchSize /\ Units \in 1 .. Units
      BY Constant
    <3>2. p \in Stream(m, n)
      BY <1>1, <2>1, <3>1 DEF Stream, Places
    <3> QED
      BY <3>2, PlacesAreMarks
  <2>3. Read(n, m) = p
    BY <1>1, <2>1, DoneAt
  <2> HIDE DEF p
  <2>4. ~Before(p, p)
    BY <2>2 DEF Marks, Before
  <2>5. ~Before(Written(m, n), p)
    BY <2>1, <2>2, <2>3, <2>4 DEF SyncInv, Connections, Carries
  <2>6. Written(m, n)[1] = at[m] /\ at[m] \in Nat /\ k \in Nat
    BY <2>1, Constant DEF Written, WrittenBy, SyncInv
  <2>7. p[1] = k
    BY DEF p
  <2> QED
    BY <2>5, <2>6, <2>7 DEF Before
<1> QED
  BY <1>1, <1>2 DEF Collective!Advance

(* The exchange implements Collective, the promise that a node leaves a     *)
(* step only after all it gathers from have entered it.                     *)
THEOREM SyncImplementsCollective == SyncSpec => GathersInOrder
<1>1. SyncInit => Collective!CollectiveInit
  BY DEF SyncInit, Collective!CollectiveInit, Collective!Members, Nodes
<1>2. SyncInv /\ [SyncNext]_syncVars => [Collective!CollectiveNext]_at
  <2> SUFFICES ASSUME SyncInv, [SyncNext]_syncVars PROVE [Collective!CollectiveNext]_at
    OBVIOUS
  <2>1. CASE UNCHANGED syncVars
    BY <2>1 DEF syncVars
  <2>2. ASSUME NEW n \in Nodes, NextStep(n) PROVE Collective!CollectiveNext
    BY <2>2, NextStepAdvances DEF Collective!CollectiveNext, Collective!Members, Nodes
  <2>3. ASSUME NEW n \in Nodes, NEW t \in Threads(n), Takes(n, t) \/ ThreadStep(n, t)
        PROVE  at' = at
    BY <2>3 DEF Takes, ThreadStep, Send, Recv
  <2> QED
    BY <2>1, <2>2, <2>3 DEF SyncNext
<1> QED
  BY <1>1, <1>2, SyncInvariant, PTL DEF SyncSpec, GathersInOrder, Collective!CollectiveSpec

=============================================================================
