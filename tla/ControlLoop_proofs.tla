------------------------ MODULE ControlLoop_proofs --------------------------
(***************************************************************************)
(* Proofs about ControlLoop, for every number of workers, ids and passes.  *)
(*                                                                         *)
(* ControlInv says of each worker how far it is in the session: between    *)
(* two passes of the root nothing is on the wire; after a forward() a      *)
(* worker has the two halves of that packet still to read, reads them,     *)
(* runs or has run the pass.  Only so is it known that the packet which a  *)
(* worker puts together is the root's last one.                            *)
(*                                                                         *)
(* RowsInv compares the disks: what the root has committed under an id is  *)
(* the beginning of what a worker has there, unless the worker is about to *)
(* commit it.  It needs that no worker is killed just then.                *)
(***************************************************************************)
EXTENDS ControlLoop, SequenceTheorems, WellFoundedInduction, TLAPS

(* What is on the disks and in the packets *)

Rows == Seq(Nat)

SomePacket ==
  [pass : Nat, stop : BOOLEAN, save : CacheIds \cup {CACHE_SKIP},
   load : CacheIds \cup {CACHE_SKIP}, rows : Rows, wanted : Rows]

WorkerPcs == {"off", "serve", "poll", "running", "commit"}

Shape ==
  /\ rootPc \in {"down", "ready", "forward"}
  /\ sent \in SomePacket /\ sent.pass <= MaxPasses /\ sent.stop = FALSE
  /\ rootStage \in Rows
  /\ rootDb \in [CacheIds -> Rows]
  /\ workerPc \in [Workers -> WorkerPcs]
  /\ wire = [w \in Workers |-> wire[w]]
  /\ got = [w \in Workers |-> got[w]]
  /\ began \in [Workers -> Nat]
  /\ ended \in [Workers -> Nat]
  /\ workerDb \in [Workers -> [CacheIds -> Rows]]
  /\ nonBlocking \in [Workers -> BOOLEAN]
  /\ firstAttempt \in [Workers -> BOOLEAN]

InCount ==
  /\ \A w \in Workers : ended[w] <= began[w] /\ began[w] <= sent.pass
  /\ rootPc = "ready" => \A w \in Workers : ended[w] = sent.pass

(* How far a worker is in the session                                       *)

Half(packet, n) == [packet |-> packet, half |-> n]

Both(packet) == <<Half(packet, 1), Half(packet, 2)>>

(* The halves of a packet that are read and those that are on the wire      *)
Arrives(read, rest, packet) ==
  \/ read = <<>> /\ rest = Both(packet)
  \/ read = <<Half(packet, 1)>> /\ rest = <<Half(packet, 2)>>
  \/ read = Both(packet) /\ rest = <<>>

Arriving(w, packet) == Arrives(got[w], wire[w], packet)

Stop == [Idle EXCEPT !.pass = sent.pass, !.stop = TRUE]

UpToDate(w) == began[w] = sent.pass /\ ended[w] = sent.pass

OneBehind(w) == sent.pass = began[w] + 1 /\ ended[w] = began[w]

Waits(w) ==
  /\ UpToDate(w)
  /\ \/ got[w] = <<>> /\ wire[w] = <<>>
     \/ rootPc = "down" /\ Arriving(w, Stop)

Expects(w) == OneBehind(w) /\ Arriving(w, sent)

Runs(w) ==
  /\ began[w] = sent.pass /\ sent.pass = ended[w] + 1
  /\ got[w] = Both(sent) /\ wire[w] = <<>>

Commits(w) ==
  /\ Current(w) \in SomePacket /\ got[w] = Both(Current(w))
  /\ \/ /\ UpToDate(w) /\ Current(w) = sent
        /\ wire[w] = <<>> \/ (rootPc = "down" /\ wire[w] = Both(Stop))
     \/ /\ OneBehind(w)
        /\ wire[w] = Both(sent)

Follows(w) ==
  /\ workerPc[w] = "poll" => Waits(w) \/ Expects(w)
  /\ workerPc[w] = "running" => Runs(w)
  /\ workerPc[w] = "commit" => Commits(w)

InStep == \A w \in Workers : Follows(w)

ControlInv == Shape /\ InCount /\ InStep

(* The rows                                                                 *)

Extends(rows, of) == Len(rows) >= Len(of) /\ \A i \in 1 .. Len(of) : rows[i] = of[i]

SentRows ==
  /\ sent.save # CACHE_SKIP => Extends(sent.rows, rootDb[sent.save])
  /\ sent.save # CACHE_SKIP /\ rootStage # NoRows => rootStage = sent.rows
  /\ sent.load # CACHE_SKIP => Extends(rootDb[sent.load], sent.wanted)

(* w has run its pass and is about to commit it                             *)
AboutTo(w, id) == workerPc[w] = "commit" /\ Current(w).save = id

PendingRows ==
  \A w \in Workers : \A id \in CacheIds :
    AboutTo(w, id) => Extends(Current(w).rows, rootDb[id])

RowsOfPass ==
  sent.save # CACHE_SKIP =>
    \A w \in Workers : ended[w] = sent.pass =>
      \/ workerPc[w] = "commit"
      \/ Extends(workerDb[w][sent.save], sent.rows)

WorkersHaveRows ==
  \A w \in Workers : \A id \in CacheIds :
    AboutTo(w, id) \/ Extends(workerDb[w][id], rootDb[id])

RowsInv == SentRows /\ PendingRows /\ RowsOfPass /\ WorkersHaveRows

-----------------------------------------------------------------------------
(* The identifiers                                                          *)

(* A non-empty set of numbers up to m has a least element,                  *)
LEMMA LeastElement ==
  ASSUME NEW T \in SUBSET Nat, T # {}
  PROVE  \E x \in T : \A y \in T : x <= y
<1>1. IsWellFoundedOn(OpToRel(<, Nat), Nat)
  BY NatLessThanWellFounded
<1>2. PICK x \in T : \A y \in T : ~ (<<y, x>> \in OpToRel(<, Nat))
  BY <1>1, WFMin
<1>3. \A y \in T : ~ (y < x)
  BY <1>2 DEF OpToRel
<1> QED
  BY <1>3

(* and a greatest one, which is what Max chooses.                           *)
LEMMA MaxIsGreatest ==
  ASSUME NEW m \in Nat, NEW S \in SUBSET (0 .. m), S # {}
  PROVE  Max(S) \in S /\ \A y \in S : Max(S) >= y
<1> DEFINE T == {n \in Nat : m - n \in S}
<1>1. T # {}
  <2>1. PICK s \in S : TRUE
    OBVIOUS
  <2>2. m - s \in Nat /\ m - (m - s) = s
    BY <2>1
  <2>3. m - s \in T
    BY <2>1, <2>2
  <2> QED
    BY <2>3
<1>2. PICK x \in T : \A y \in T : x <= y
  BY <1>1, LeastElement
<1>3. m - x \in S /\ \A y \in S : m - x >= y
  <2>1. m - x \in S /\ x \in Nat
    BY <1>2
  <2>2. ASSUME NEW y \in S PROVE m - x >= y
    <3>1. m - y \in T
      <4>1. m - y \in Nat /\ m - (m - y) = y
        BY <2>2
      <4> QED
        BY <4>1, <2>2
    <3>2. x <= m - y
      BY <1>2, <3>1
    <3> QED
      BY <2>1, <2>2, <3>2
  <2> QED
    BY <2>1, <2>2
<1> HIDE DEF T
<1> QED
  BY <1>3 DEF Max

(* An id that is not too large is a fresh or a stored one.                  *)
LEMMA IdsOfPasses ==
  ASSUME rootDb \in [CacheIds -> Rows],
         NEW save \in StoredIds \cup {CACHE_SKIP, FreshId}, save <= MaxCacheId
  PROVE  save \in CacheIds \cup {CACHE_SKIP}
<1>1. MaxCacheId \in Nat
  BY ControlAssumption
<1>2. StoredIds \cup {0} \in SUBSET (0 .. MaxCacheId) /\ StoredIds \cup {0} # {}
  BY <1>1 DEF StoredIds, CacheIds
<1>3. Max(StoredIds \cup {0}) \in 0 .. MaxCacheId
  BY <1>1, <1>2, MaxIsGreatest
<1>4. FreshId \in Nat \ {0}
  BY <1>3 DEF FreshId
<1> QED
  BY <1>1, <1>4 DEF StoredIds, CacheIds

-----------------------------------------------------------------------------
(* The halves of a packet                                                   *)

LEMMA BothHalves ==
  ASSUME NEW packet
  PROVE  /\ Len(Both(packet)) = 2 /\ Both(packet) # <<>>
         /\ Both(packet)[1] = Half(packet, 1) /\ Both(packet)[2] = Half(packet, 2)
         /\ Both(packet)[1].packet = packet
BY DEF Both, Half

LEMMA WrittenOnce ==
  ASSUME NEW packet
  PROVE  <<>> \o Both(packet) = Both(packet)
<1>1. Both(packet) \in Seq({Half(packet, 1), Half(packet, 2)})
  BY DEF Both
<1> QED
  BY <1>1, ConcatEmptySeq

LEMMA OneMoreHalf ==
  ASSUME NEW read, NEW rest, NEW packet,
         Arrives(read, rest, packet), Len(read) # 2
  PROVE  Arrives(Append(read, Head(rest)), Tail(rest), packet)
<1>1. CASE read = <<>> /\ rest = Both(packet)
  BY <1>1 DEF Arrives, Both
<1>2. CASE read = <<Half(packet, 1)>> /\ rest = <<Half(packet, 2)>>
  <2> DEFINE a == Half(packet, 1)
             b == Half(packet, 2)
  <2> HIDE DEF a, b
  <2>1. <<a>> \in Seq({a, b}) /\ <<b>> \in Seq({a, b}) /\ <<b>> # <<>>
    OBVIOUS
  <2>2. Head(<<b>>) = b /\ Tail(<<b>>) \in Seq({a, b}) /\ Len(Tail(<<b>>)) = 0
    BY <2>1
  <2>3. Tail(<<b>>) = <<>>
    BY <2>2, EmptySeq
  <2>4. Append(<<a>>, b) = <<a, b>>
    <3>1. /\ Append(<<a>>, b) \in Seq({a, b}) /\ Len(Append(<<a>>, b)) = 2
          /\ Append(<<a>>, b)[1] = a /\ Append(<<a>>, b)[2] = b
      BY <2>1
    <3>2. <<a, b>> \in Seq({a, b}) /\ Len(<<a, b>>) = 2 /\ <<a, b>>[1] = a /\ <<a, b>>[2] = b
      OBVIOUS
    <3> DEFINE s == Append(<<a>>, b)
               t == <<a, b>>
    <3>3. \A i \in 1 .. Len(s) : s[i] = t[i]
      BY <3>1, <3>2
    <3>4. s \in Seq({a, b}) /\ t \in Seq({a, b}) /\ Len(s) = Len(t)
      BY <3>1, <3>2
    <3> HIDE DEF s, t
    <3>5. s = t
      BY <3>3, <3>4, SeqEqual
    <3> QED
      BY <3>5 DEF s, t
  <2> QED
    BY <1>2, <2>2, <2>3, <2>4, Zenon DEF Arrives, Both, a, b
<1> QED
  BY <1>1, <1>2, BothHalves DEF Arrives

LEMMA AllHalves ==
  ASSUME NEW read, NEW rest, NEW packet,
         Arrives(read, rest, packet), Len(read) = 2
  PROVE  read = Both(packet) /\ rest = <<>>
BY DEF Arrives, Half

LEMMA PacketMade ==
  ASSUME NEW pass \in Nat, NEW stop \in BOOLEAN, NEW save \in CacheIds \cup {CACHE_SKIP},
         NEW load \in CacheIds \cup {CACHE_SKIP}, NEW rows \in Rows, NEW wanted \in Rows
  PROVE  [pass |-> pass, stop |-> stop, save |-> save, load |-> load,
          rows |-> rows, wanted |-> wanted] \in SomePacket
BY DEF SomePacket

(* What a packet says                                                       *)
PacketSays(load, save) ==
  LET packet == Packet(load, save)
  IN  /\ packet \in SomePacket
      /\ packet.pass = sent.pass + 1 /\ packet.stop = FALSE
      /\ packet.save = save /\ packet.load = load
      /\ save # CACHE_SKIP => packet.rows = Append(rootDb[save], sent.pass + 1)
      /\ load # CACHE_SKIP => packet.wanted = rootDb[load]

LEMMA PacketIsPacket ==
  Shape => \A load, save \in CacheIds \cup {CACHE_SKIP} : PacketSays(load, save)
<1> SUFFICES ASSUME Shape, NEW load \in CacheIds \cup {CACHE_SKIP},
                    NEW save \in CacheIds \cup {CACHE_SKIP}
             PROVE  PacketSays(load, save)
  OBVIOUS
<1>1. sent.pass + 1 \in Nat
  BY DEF Shape, SomePacket
<1>2. save # CACHE_SKIP => Append(rootDb[save], sent.pass + 1) \in Rows
  BY <1>1 DEF Shape, Rows
<1>3. load # CACHE_SKIP => rootDb[load] \in Rows
  BY DEF Shape
<1>4. NoRows \in Rows
  BY DEF NoRows, Rows
<1> QED
  BY <1>1, <1>2, <1>3, <1>4 DEF Packet, SomePacket, PacketSays

-----------------------------------------------------------------------------
(* The session: every step of the root                                      *)

LEMMA ControlStart == ControlInit => ControlInv
<1> SUFFICES ASSUME ControlInit PROVE ControlInv
  OBVIOUS
<1>1. sent \in SomePacket /\ sent.pass = 0 /\ sent.stop = FALSE
  BY DEF ControlInit, Idle, SomePacket, NoRows, Rows, CACHE_SKIP
<1>2. Shape
  BY <1>1, ControlAssumption DEF ControlInit, Shape, NoRows, Rows, WorkerPcs
<1>3. InCount /\ InStep
  BY <1>1 DEF ControlInit, InCount, InStep, Follows
<1> QED
  BY <1>2, <1>3 DEF ControlInv

LEMMA SessionStartsInv == ControlInv /\ SessionStarts => ControlInv'
<1> SUFFICES ASSUME ControlInv, SessionStarts PROVE ControlInv'
  OBVIOUS
<1>1. /\ sent.pass \in Nat /\ sent.pass <= MaxPasses
      /\ rootPc' = "ready" /\ sent' = [Idle EXCEPT !.pass = sent.pass]
      /\ UNCHANGED <<rootStage, rootDb, workerDb>>
  BY DEF ControlInv, Shape, SessionStarts, SomePacket
<1>2. sent' \in SomePacket /\ sent'.pass = sent.pass /\ sent'.stop = FALSE
  <2>1. sent' = [pass |-> sent.pass, stop |-> FALSE, save |-> CACHE_SKIP, load |-> CACHE_SKIP,
                 rows |-> NoRows, wanted |-> NoRows]
    BY <1>1 DEF Idle
  <2>2. NoRows \in Rows
    BY DEF NoRows, Rows
  <2>3. sent' \in SomePacket
    <3>1. /\ sent.pass \in Nat /\ FALSE \in BOOLEAN
          /\ CACHE_SKIP \in CacheIds \cup {CACHE_SKIP}
      BY <1>1
    <3> QED
      BY <2>1, <2>2, <3>1, PacketMade, Zenon
  <2> QED
    BY <2>1, <2>3
<1>3. \A w \in Workers :
        /\ workerPc'[w] = "poll" /\ wire'[w] = <<>> /\ got'[w] = <<>>
        /\ began'[w] = sent.pass /\ ended'[w] = sent.pass
  BY DEF SessionStarts
<1>4. Shape'
  BY <1>1, <1>2 DEF ControlInv, Shape, SessionStarts, WorkerPcs
<1>5. InCount'
  BY <1>1, <1>2, <1>3 DEF InCount
<1>6. InStep'
  BY <1>2, <1>3 DEF InStep, Follows, Waits, UpToDate
<1> QED
  BY <1>4, <1>5, <1>6 DEF ControlInv

(* Before the root goes on, nothing is on its way to a worker.              *)
LEMMA AllQuiet ==
  ASSUME ControlInv, rootPc = "ready", NEW w \in Workers
  PROVE  /\ workerPc[w] # "running"
         /\ workerPc[w] = "poll" => UpToDate(w) /\ got[w] = <<>> /\ wire[w] = <<>>
         /\ workerPc[w] = "commit" =>
              /\ UpToDate(w) /\ Current(w) = sent /\ wire[w] = <<>>
              /\ Current(w) \in SomePacket /\ got[w] = Both(Current(w))
<1>1. ended[w] = sent.pass /\ sent.pass \in Nat /\ began[w] \in Nat
  BY DEF ControlInv, InCount, Shape, SomePacket
<1>2. ~OneBehind(w) /\ ~Runs(w)
  BY <1>1 DEF OneBehind, Runs
<1>3. Follows(w)
  BY DEF ControlInv, InStep
<1> QED
  BY <1>2, <1>3 DEF Follows, Waits, Expects, Commits

LEMMA PassesInv == ControlInv /\ Passes => ControlInv'
<1> SUFFICES ASSUME ControlInv, Passes PROVE ControlInv'
  OBVIOUS
<1>1. PICK load \in StoredIds \cup {CACHE_SKIP},
           save \in StoredIds \cup {CACHE_SKIP, FreshId} :
        save <= MaxCacheId /\ Forward(load, save)
  BY DEF Passes
<1>2. load \in CacheIds \cup {CACHE_SKIP} /\ save \in CacheIds \cup {CACHE_SKIP}
  BY <1>1, IdsOfPasses DEF ControlInv, Shape, StoredIds
<1>3. /\ rootPc = "ready" /\ rootPc' = "forward" /\ sent' = Packet(load, save)
      /\ UNCHANGED <<rootDb, workerPc, got, began, ended, workerDb, pollVars>>
  BY <1>1 DEF Forward
<1>4. /\ sent' \in SomePacket /\ sent'.pass = sent.pass + 1 /\ sent'.stop = FALSE
      /\ save # CACHE_SKIP => sent'.rows \in Rows
  <2>0. Shape
    BY DEF ControlInv
  <2>1. PacketSays(load, save)
    BY <1>2, <2>0, PacketIsPacket
  <2> QED
    BY <1>3, <2>1 DEF PacketSays, SomePacket
<1>5. sent.pass \in Nat /\ sent.pass < MaxPasses /\ MaxPasses \in Nat
  BY ControlAssumption DEF Passes, ControlInv, Shape, SomePacket
<1>6. rootStage' \in Rows
  BY <1>1, <1>3, <1>4 DEF Forward, ControlInv, Shape
<1>7. /\ wire' = [w \in Workers |-> wire[w] \o Both(sent')]
  BY <1>1, <1>3 DEF Forward, WriteAll, Both, Half
<1>8. Shape'
  BY <1>3, <1>4, <1>5, <1>6, <1>7 DEF ControlInv, Shape, pollVars
<1>9. InCount'
  BY <1>3, <1>4, <1>5 DEF ControlInv, InCount, Shape
<1>10. ASSUME NEW w \in Workers PROVE Follows(w)'
  <2>1. wire[w] = <<>> => wire'[w] = Both(sent')
    BY <1>7, WrittenOnce
  <2>2. CASE workerPc[w] = "poll"
    <3>1. UpToDate(w) /\ got[w] = <<>> /\ wire[w] = <<>>
      BY <1>3, <2>2, AllQuiet
    <3>2. Arrives(got'[w], wire'[w], sent')
      BY <1>3, <2>1, <3>1 DEF Arrives
    <3> QED
      BY <1>3, <1>4, <2>2, <3>1, <3>2 DEF Follows, Expects, Arriving, OneBehind, UpToDate
  <2>3. CASE workerPc[w] = "commit"
    <3>1. /\ UpToDate(w) /\ Current(w) \in SomePacket /\ got[w] = Both(Current(w))
          /\ wire[w] = <<>>
      BY <1>3, <2>3, AllQuiet
    <3>2. Current(w)' = Current(w)
      BY <1>3 DEF Current
    <3> QED
      BY <1>3, <1>4, <2>1, <2>3, <3>1, <3>2 DEF Follows, Commits, OneBehind, UpToDate
  <2>4. CASE workerPc[w] \notin {"poll", "running", "commit"}
    BY <1>3, <2>4 DEF Follows
  <2> QED
    BY <1>3, <2>2, <2>3, <2>4, AllQuiet
<1> QED
  BY <1>8, <1>9, <1>10 DEF ControlInv, InStep

(* The root goes on or is gone, and nothing else changes.                   *)
LEMMA RootMovesInv ==
  ASSUME ControlInv, UNCHANGED <<sent, workerVars>>,
         rootPc' \in {"down", "ready", "forward"}, rootPc = "down" => rootPc' = "down",
         rootPc' = "ready" => \A w \in Workers : ended[w] = sent.pass,
         rootStage' \in Rows, rootDb' \in [CacheIds -> Rows]
  PROVE  ControlInv'
<1>1. Shape'
  BY DEF ControlInv, Shape, workerVars, pollVars
<1>2. InCount'
  BY DEF ControlInv, InCount, workerVars
<1>3. ASSUME NEW w \in Workers PROVE Follows(w)'
  <2>1. Follows(w)
    BY DEF ControlInv, InStep
  <2> QED
    BY <2>1 DEF Follows, Waits, Expects, Runs, Commits, UpToDate, OneBehind, Arriving,
                Stop, Current, workerVars
<1> QED
  BY <1>1, <1>2, <1>3 DEF ControlInv, InStep

LEMMA RootCommitsShape ==
  ASSUME ControlInv, RootCommits
  PROVE  /\ rootDb' \in [CacheIds -> Rows] /\ rootStage' \in Rows
         /\ sent.save \in CacheIds
<1>1. sent.save \in CacheIds /\ rootStage \in Rows
  BY DEF ControlInv, Shape, SomePacket, RootCommits
<1> QED
  BY <1>1 DEF ControlInv, Shape, RootCommits, NoRows, Rows

LEMMA RootStepsInv ==
  ControlInv /\ (Returned \/ RootFails \/ RootCommits \/ RootKilled) => ControlInv'
<1> SUFFICES ASSUME ControlInv, Returned \/ RootFails \/ RootCommits \/ RootKilled
             PROVE  ControlInv'
  OBVIOUS
<1>1. NoRows \in Rows
  BY DEF NoRows, Rows
<1>2. CASE Returned
  BY <1>2, RootMovesInv DEF Returned, Through, ControlInv, Shape
<1>3. CASE RootFails \/ RootKilled
  BY <1>1, <1>3, RootMovesInv DEF RootFails, RootKilled, ControlInv, Shape
<1>4. CASE RootCommits
  BY <1>4, RootMovesInv, RootCommitsShape DEF RootCommits, ControlInv, InCount
<1> QED
  BY <1>2, <1>3, <1>4

LEMMA FinishInv == ControlInv /\ Finish => ControlInv'
<1> SUFFICES ASSUME ControlInv, Finish PROVE ControlInv'
  OBVIOUS
<1>1. /\ rootPc = "ready" /\ rootPc' = "down" /\ rootStage' = NoRows
      /\ UNCHANGED <<sent, rootDb, workerPc, got, began, ended, workerDb, pollVars>>
  BY DEF Finish
<1>2. wire' = [w \in Workers |-> wire[w] \o Both(Stop)]
  BY DEF Finish, WriteAll, Both, Half, Stop
<1>3. Shape'
  BY <1>1, <1>2 DEF ControlInv, Shape, NoRows, Rows, pollVars
<1>4. InCount'
  BY <1>1 DEF ControlInv, InCount
<1>5. Stop' = Stop
  BY <1>1 DEF Stop
<1>6. ASSUME NEW w \in Workers PROVE Follows(w)'
  <2>1. wire[w] = <<>> => wire'[w] = Both(Stop)
    BY <1>2, WrittenOnce
  <2>2. CASE workerPc[w] = "poll"
    <3>1. UpToDate(w) /\ got[w] = <<>> /\ wire[w] = <<>>
      BY <1>1, <2>2, AllQuiet
    <3>2. Arrives(got'[w], wire'[w], Stop')
      BY <1>1, <1>5, <2>1, <3>1 DEF Arrives
    <3> QED
      BY <1>1, <2>2, <3>1, <3>2 DEF Follows, Waits, Arriving, UpToDate
  <2>3. CASE workerPc[w] = "commit"
    <3>1. /\ UpToDate(w) /\ Current(w) \in SomePacket /\ got[w] = Both(Current(w))
          /\ Current(w) = sent /\ wire[w] = <<>>
      BY <1>1, <2>3, AllQuiet
    <3>2. Current(w)' = Current(w)
      BY <1>1 DEF Current
    <3> QED
      BY <1>1, <1>5, <2>1, <2>3, <3>1, <3>2 DEF Follows, Commits, UpToDate
  <2>4. CASE workerPc[w] \notin {"poll", "running", "commit"}
    BY <1>1, <2>4 DEF Follows
  <2> QED
    BY <1>1, <2>2, <2>3, <2>4, AllQuiet
<1> QED
  BY <1>3, <1>4, <1>6 DEF ControlInv, InStep

-----------------------------------------------------------------------------
(* The session: every step of a worker                                      *)

(* A step of w leaves alone what the invariant says of the others.          *)
OnlyAt(w) ==
  /\ UNCHANGED rootVars
  /\ \A v \in Workers \ {w} :
       /\ workerPc'[v] = workerPc[v] /\ wire'[v] = wire[v] /\ got'[v] = got[v]
       /\ began'[v] = began[v] /\ ended'[v] = ended[v]

LEMMA OthersFollow ==
  ASSUME ControlInv, NEW w \in Workers, OnlyAt(w), Follows(w)'
  PROVE  InStep'
<1>1. ASSUME NEW v \in Workers, v # w PROVE Follows(v)'
  <2>1. Follows(v)
    BY DEF ControlInv, InStep
  <2>2. /\ UNCHANGED <<sent, rootPc>>
        /\ workerPc'[v] = workerPc[v] /\ wire'[v] = wire[v] /\ got'[v] = got[v]
        /\ began'[v] = began[v] /\ ended'[v] = ended[v]
    BY <1>1 DEF OnlyAt, rootVars
  <2> QED
    BY <2>1, <2>2 DEF Follows, Waits, Expects, Runs, Commits, UpToDate, OneBehind,
                      Arriving, Stop, Current
<1> QED
  BY <1>1 DEF InStep

LEMMA ReadsHalfInv ==
  ASSUME ControlInv, NEW w \in Workers, ReadsHalf(w)
  PROVE  ControlInv'
<1>1. /\ workerPc[w] = "poll" /\ Len(got[w]) # 2
      /\ got' = [got EXCEPT ![w] = Append(@, Head(wire[w]))]
      /\ wire' = [wire EXCEPT ![w] = Tail(@)]
      /\ UNCHANGED <<rootVars, workerPc, began, ended, workerDb, pollVars>>
      /\ wire[w] # <<>>
  BY DEF ReadsHalf, Complete
<1>2. Shape' /\ InCount'
  BY <1>1 DEF ControlInv, Shape, InCount, rootVars, pollVars
<1>3. /\ got'[w] = Append(got[w], Head(wire[w])) /\ wire'[w] = Tail(wire[w])
      /\ OnlyAt(w)
  BY <1>1 DEF ControlInv, Shape, OnlyAt
<1>4. \A packet : Arriving(w, packet) => Arrives(got'[w], wire'[w], packet)
  BY <1>1, <1>3, OneMoreHalf DEF Arriving
<1>5. Waits(w) \/ Expects(w)
  BY <1>1 DEF ControlInv, InStep, Follows
<1>6. UNCHANGED <<rootPc, sent, Stop, workerPc, began, ended>>
  BY <1>1 DEF rootVars, Stop
<1>7. ASSUME Waits(w) PROVE Follows(w)'
  BY <1>1, <1>4, <1>6, <1>7 DEF Follows, Waits, Arriving, UpToDate
<1>8. ASSUME Expects(w) PROVE Follows(w)'
  BY <1>1, <1>4, <1>6, <1>8 DEF Follows, Expects, Arriving, OneBehind
<1> QED
  BY <1>2, <1>3, <1>5, <1>7, <1>8, OthersFollow DEF ControlInv, Follows

LEMMA GivesUpInv ==
  ASSUME ControlInv, NEW w \in Workers, GivesUp(w)
  PROVE  ControlInv'
<1>1. got' = got
  BY DEF GivesUp, NothingRead, ControlInv, Shape
<1>2. /\ UNCHANGED <<rootVars, workerPc, wire, began, ended, workerDb>>
      /\ firstAttempt' \in [Workers -> BOOLEAN] /\ nonBlocking' \in [Workers -> BOOLEAN]
  BY DEF GivesUp, ControlInv, Shape
<1>3. Shape' /\ InCount'
  BY <1>1, <1>2 DEF ControlInv, Shape, InCount, rootVars
<1>4. OnlyAt(w)
  BY <1>1, <1>2 DEF OnlyAt
<1>5. Follows(w)'
  BY <1>1, <1>2 DEF ControlInv, InStep, Follows, Waits, Expects, Runs, Commits, UpToDate,
     OneBehind, Arriving, Stop, Current, rootVars
<1> QED
  BY <1>3, <1>4, <1>5, OthersFollow DEF ControlInv

(* The packet a worker has read completely                                  *)
LEMMA PacketRead ==
  ASSUME ControlInv, NEW w \in Workers, workerPc[w] = "poll", Complete(w)
  PROVE  /\ wire[w] = <<>>
         /\ \/ rootPc = "down" /\ UpToDate(w) /\ Current(w).stop = TRUE
            \/ /\ OneBehind(w) /\ Current(w) = sent /\ got[w] = Both(sent)
               /\ Current(w).stop = FALSE
<1>1. Waits(w) \/ Expects(w)
  BY DEF ControlInv, InStep, Follows
<1>2. Len(got[w]) = 2 /\ got[w] # <<>>
  BY DEF Complete
<1>3. \A packet : Arriving(w, packet) =>
        wire[w] = <<>> /\ got[w] = Both(packet) /\ Current(w) = packet
  BY <1>2, AllHalves, BothHalves DEF Arriving, Current
<1>4. Stop.stop = TRUE /\ sent.stop = FALSE
  BY DEF Stop, Idle, ControlInv, Shape
<1> QED
  BY <1>1, <1>2, <1>3, <1>4 DEF Waits, Expects

LEMMA GetsPacketInv ==
  ASSUME ControlInv, NEW w \in Workers, GetsPacket(w)
  PROVE  ControlInv'
<1>1. /\ workerPc[w] = "poll" /\ Complete(w)
      /\ UNCHANGED <<rootVars, wire, got, ended, workerDb, firstAttempt>>
  BY DEF GetsPacket
<1>2. CASE Current(w).stop
  <2>1. /\ workerPc' = [workerPc EXCEPT ![w] = "serve"]
        /\ UNCHANGED <<began, nonBlocking>>
    BY <1>2 DEF GetsPacket
  <2>2. Shape' /\ InCount'
    BY <1>1, <2>1 DEF ControlInv, Shape, InCount, rootVars, WorkerPcs
  <2>3. OnlyAt(w) /\ workerPc'[w] = "serve"
    BY <1>1, <2>1 DEF ControlInv, Shape, OnlyAt
  <2> QED
    BY <2>2, <2>3, OthersFollow DEF ControlInv, Follows
<1>3. CASE ~Current(w).stop
  <2>1. /\ workerPc' = [workerPc EXCEPT ![w] = "running"]
        /\ began' = [began EXCEPT ![w] = Current(w).pass]
        /\ nonBlocking' = [nonBlocking EXCEPT ![w] = @ \/ NetTurbo]
    BY <1>3 DEF GetsPacket
  <2>2. /\ OneBehind(w) /\ Current(w) = sent /\ got[w] = Both(sent) /\ wire[w] = <<>>
    BY <1>1, <1>3, PacketRead
  <2>3. /\ sent.pass \in Nat /\ began[w] \in Nat /\ ended[w] \in Nat
        /\ UNCHANGED <<rootPc, sent>>
    BY <1>1 DEF ControlInv, Shape, SomePacket, rootVars
  <2>4. /\ workerPc'[w] = "running" /\ began'[w] = sent.pass
        /\ OnlyAt(w)
    BY <1>1, <2>1, <2>2 DEF ControlInv, Shape, OnlyAt
  <2>5. nonBlocking' \in [Workers -> BOOLEAN]
    BY <2>1, ControlAssumption DEF ControlInv, Shape
  <2>6. Shape'
    BY <1>1, <2>1, <2>2, <2>3, <2>5 DEF ControlInv, Shape, rootVars, WorkerPcs
  <2>7. InCount'
    BY <1>1, <2>2, <2>3, <2>4 DEF ControlInv, InCount, OneBehind, OnlyAt
  <2>8. Follows(w)'
    BY <1>1, <2>2, <2>3, <2>4 DEF Follows, Runs, OneBehind
  <2> QED
    BY <2>4, <2>6, <2>7, <2>8, OthersFollow DEF ControlInv
<1> QED
  BY <1>2, <1>3

LEMMA PassEndsInv ==
  ASSUME ControlInv, NEW w \in Workers, PassEnds(w)
  PROVE  ControlInv'
<1>1. /\ workerPc[w] = "running"
      /\ workerPc' = [workerPc EXCEPT ![w] = "commit"]
      /\ firstAttempt' = [firstAttempt EXCEPT ![w] = TRUE]
      /\ ended' = [ended EXCEPT ![w] = began[w]]
      /\ UNCHANGED <<rootVars, wire, got, began, workerDb, nonBlocking>>
  BY DEF PassEnds
<1>2. Runs(w)
  BY <1>1 DEF ControlInv, InStep, Follows
<1>3. Current(w) = sent /\ sent \in SomePacket
  BY <1>2, BothHalves DEF Runs, Current, ControlInv, Shape
<1>4. /\ workerPc'[w] = "commit" /\ ended'[w] = sent.pass /\ OnlyAt(w)
      /\ UNCHANGED <<rootPc, sent>> /\ Current(w)' = sent
  BY <1>1, <1>2, <1>3 DEF ControlInv, Shape, OnlyAt, Runs, rootVars, Current
<1>5. Shape'
  BY <1>1 DEF ControlInv, Shape, rootVars, WorkerPcs
<1>6. InCount'
  BY <1>1, <1>2, <1>4 DEF ControlInv, InCount, OnlyAt, Runs, Shape
<1>7. Follows(w)'
  BY <1>1, <1>2, <1>3, <1>4 DEF Follows, Commits, UpToDate, Runs
<1> QED
  BY <1>4, <1>5, <1>6, <1>7, OthersFollow DEF ControlInv

LEMMA WorkerCommitsInv ==
  ASSUME ControlInv, NEW w \in Workers, WorkerCommits(w)
  PROVE  ControlInv'
<1>1. /\ workerPc[w] = "commit"
      /\ workerPc' = [workerPc EXCEPT ![w] = "poll"]
      /\ got' = [got EXCEPT ![w] = <<>>]
      /\ UNCHANGED <<rootVars, wire, began, ended, pollVars>>
  BY DEF WorkerCommits
<1>2. Commits(w)
  BY <1>1 DEF ControlInv, InStep, Follows
<1>3. workerDb' \in [Workers -> [CacheIds -> Rows]]
  <2>1. Current(w).save \in CacheIds \cup {CACHE_SKIP} /\ Current(w).rows \in Rows
    BY <1>2 DEF Commits, SomePacket
  <2> QED
    BY <2>1 DEF WorkerCommits, CommitsTo, ControlInv, Shape
<1>4. /\ workerPc'[w] = "poll" /\ got'[w] = <<>> /\ OnlyAt(w)
      /\ UNCHANGED <<rootPc, sent, Stop>>
  BY <1>1 DEF ControlInv, Shape, OnlyAt, rootVars, Stop
<1>5. Shape'
  BY <1>1, <1>3 DEF ControlInv, Shape, rootVars, WorkerPcs, pollVars
<1>6. InCount'
  BY <1>1 DEF ControlInv, InCount, rootVars
<1>7. Follows(w)'
  BY <1>1, <1>2, <1>4 DEF Follows, Waits, Expects, Commits, UpToDate, OneBehind, Arriving, Arrives
<1> QED
  BY <1>4, <1>5, <1>6, <1>7, OthersFollow DEF ControlInv

(* Workers that are out of the session: nothing is said of them.            *)
LEMMA LeavesInv ==
  ASSUME ControlInv, workerPc' \in [Workers -> WorkerPcs],
         \A w \in Workers : workerPc'[w] = workerPc[w] \/ workerPc'[w] \in {"serve", "off"},
         UNCHANGED <<rootVars, wire, got, began, ended, workerDb, pollVars>>
  PROVE  ControlInv'
<1>1. Shape' /\ InCount'
  BY DEF ControlInv, Shape, InCount, rootVars, pollVars
<1>2. ASSUME NEW w \in Workers PROVE Follows(w)'
  BY DEF ControlInv, InStep, Follows, Waits, Expects, Runs, Commits, UpToDate,
     OneBehind, Arriving, Stop, Current, rootVars
<1> QED
  BY <1>1, <1>2 DEF ControlInv, InStep

LEMMA GoesInv ==
  ASSUME ControlInv, NEW w \in Workers,
         LeavesSession(w) \/ DiesOfPipe(w) \/ WorkerKilled(w) \/ WorkerRestarts(w)
           \/ SessionFails(w)
  PROVE  ControlInv'
<1>1. /\ workerPc' \in [Workers -> WorkerPcs]
      /\ \A v \in Workers : workerPc'[v] = workerPc[v] \/ workerPc'[v] \in {"serve", "off"}
  BY DEF LeavesSession, DiesOfPipe, WorkerKilled, WorkerRestarts, SessionFails,
         ControlInv, Shape, WorkerPcs
<1>2. UNCHANGED <<rootVars, wire, got, began, ended, workerDb, pollVars>>
  BY DEF LeavesSession, DiesOfPipe, WorkerKilled, WorkerRestarts, SessionFails
<1> QED
  BY <1>1, <1>2, LeavesInv

LEMMA ControlStep ==
  ControlInv /\ [ControlNext]_controlVars => ControlInv'
<1> SUFFICES ASSUME ControlInv, [ControlNext]_controlVars PROVE ControlInv'
  OBVIOUS
<1>1. CASE UNCHANGED controlVars
  <2>1. /\ UNCHANGED <<rootVars, wire, got, began, ended, workerDb, pollVars>>
        /\ workerPc' = workerPc
    BY <1>1 DEF controlVars, workerVars
  <2>2. /\ workerPc' \in [Workers -> WorkerPcs]
        /\ \A w \in Workers : workerPc'[w] = workerPc[w]
    BY <2>1 DEF ControlInv, Shape
  <2> QED
    BY <2>1, <2>2, LeavesInv
<1>2. ASSUME NEW w \in Workers,
             \/ SessionFails(w) \/ LoopStep(w) \/ GivesUp(w)
             \/ WorkerKilled(w) \/ WorkerRestarts(w)
      PROVE  ControlInv'
  BY <1>2, ReadsHalfInv, GetsPacketInv, PassEndsInv, WorkerCommitsInv, GivesUpInv, GoesInv
     DEF LoopStep
<1> QED
  BY <1>1, <1>2, SessionStartsInv, PassesInv, RootStepsInv, FinishInv DEF ControlNext

LEMMA ControlInvariant == ControlSpec => []ControlInv
<1> QED
  BY ControlStart, ControlStep, PTL DEF ControlSpec

-----------------------------------------------------------------------------
(* The rows: one sequence of passes is the beginning of another             *)

LEMMA ExtendsItself ==
  ASSUME NEW rows PROVE Extends(rows, rows)
BY DEF Extends

LEMMA ExtendsFurther ==
  ASSUME NEW a \in Rows, NEW b \in Rows, NEW c \in Rows, Extends(a, b), Extends(b, c)
  PROVE  Extends(a, c)
<1>1. Len(a) \in Nat /\ Len(b) \in Nat /\ Len(c) \in Nat
  BY DEF Rows
<1>2. 1 .. Len(c) \subseteq 1 .. Len(b)
  BY <1>1 DEF Extends
<1> QED
  BY <1>1, <1>2 DEF Extends

LEMMA ExtendsByOne ==
  ASSUME NEW rows \in Rows, NEW n \in Nat
  PROVE  Extends(Append(rows, n), rows)
BY DEF Rows, Extends

LEMMA BeginsWith ==
  ASSUME NEW rows \in Rows, NEW of \in Rows, Extends(rows, of)
  PROVE  Len(rows) >= Len(of) /\ SubSeq(rows, 1, Len(of)) = of
<1>1. Len(of) \in Nat /\ Len(rows) \in Nat /\ Len(rows) >= Len(of)
  BY DEF Rows, Extends
<1>2. \A i \in 1 .. Len(of) : rows[i] \in Nat
  BY <1>1 DEF Rows
<1> DEFINE first == SubSeq(rows, 1, Len(of))
<1>3. /\ first \in Seq(Nat) /\ Len(first) = IF 1 <= Len(of) THEN Len(of) - 1 + 1 ELSE 0
      /\ \A i \in 1 .. Len(of) - 1 + 1 : first[i] = rows[1 + i - 1]
  BY <1>1, <1>2, SubSeqProperties
<1> HIDE DEF first
<1>4. Len(first) = Len(of) /\ \A i \in 1 .. Len(of) : first[i] = of[i]
  BY <1>1, <1>3 DEF Extends
<1>5. first = of
  BY <1>3, <1>4, SeqEqual DEF Rows
<1> QED
  BY <1>1, <1>5 DEF first

-----------------------------------------------------------------------------
(* The rows: every step.  A worker may be killed where it likes, but not    *)
(* between its pass and the commit of that pass.                            *)

LEMMA RowsStart == ControlInit => RowsInv
<1> SUFFICES ASSUME ControlInit PROVE RowsInv
  OBVIOUS
<1>1. SentRows /\ PendingRows /\ RowsOfPass
  BY DEF ControlInit, SentRows, PendingRows, RowsOfPass, AboutTo, Idle
<1>2. WorkersHaveRows
  BY ExtendsItself DEF ControlInit, WorkersHaveRows
<1> QED
  BY <1>1, <1>2 DEF RowsInv

(* Steps that put nothing on a disk and end no pass                         *)
LEMMA RowsStay ==
  ASSUME RowsInv, UNCHANGED <<sent, rootDb, workerDb, ended>>,
         rootStage' = rootStage \/ rootStage' = NoRows,
         \A w \in Workers :
           /\ workerPc'[w] = "commit" <=> workerPc[w] = "commit"
           /\ workerPc[w] = "commit" => got'[w] = got[w]
  PROVE  RowsInv'
<1>1. \A w \in Workers : \A id \in CacheIds :
        /\ AboutTo(w, id)' <=> AboutTo(w, id)
        /\ AboutTo(w, id) => Current(w)' = Current(w)
  BY DEF AboutTo, Current
<1>2. SentRows'
  BY DEF RowsInv, SentRows
<1>3. PendingRows'
  <2>1. ASSUME NEW w \in Workers, NEW id \in CacheIds, AboutTo(w, id)'
        PROVE  Extends(Current(w).rows, rootDb[id])'
    <3>1. AboutTo(w, id) /\ Current(w)' = Current(w)
      BY <1>1, <2>1
    <3>2. Extends(Current(w).rows, rootDb[id])
      BY <3>1 DEF RowsInv, PendingRows
    <3> QED
      BY <3>1, <3>2
  <2> QED
    BY <2>1 DEF PendingRows
<1>4. RowsOfPass'
  BY DEF RowsInv, RowsOfPass
<1>5. WorkersHaveRows'
  BY <1>1 DEF RowsInv, WorkersHaveRows
<1> QED
  BY <1>2, <1>3, <1>4, <1>5 DEF RowsInv

LEMMA SessionStartsRows ==
  ASSUME ControlInv, RowsInv, SessionStarts
  PROVE  RowsInv'
<1>1. /\ \A w \in Workers : workerPc[w] = "serve" /\ workerPc'[w] = "poll"
      /\ sent'.save = CACHE_SKIP /\ sent'.load = CACHE_SKIP
      /\ UNCHANGED <<rootDb, workerDb>>
  BY DEF SessionStarts, Idle
<1>2. \A w \in Workers : \A id \in CacheIds : ~AboutTo(w, id) /\ ~AboutTo(w, id)'
  BY <1>1 DEF AboutTo
<1>3. SentRows' /\ RowsOfPass'
  BY <1>1 DEF SentRows, RowsOfPass
<1>4. PendingRows'
  BY <1>2 DEF PendingRows
<1>5. WorkersHaveRows'
  BY <1>1, <1>2 DEF RowsInv, WorkersHaveRows
<1> QED
  BY <1>3, <1>4, <1>5 DEF RowsInv

LEMMA PassesRows ==
  ASSUME ControlInv, RowsInv, Passes
  PROVE  RowsInv'
<1>1. PICK load \in StoredIds \cup {CACHE_SKIP},
           save \in StoredIds \cup {CACHE_SKIP, FreshId} :
        save <= MaxCacheId /\ Forward(load, save)
  BY DEF Passes
<1>2. load \in CacheIds \cup {CACHE_SKIP} /\ save \in CacheIds \cup {CACHE_SKIP}
  <2>1. rootDb \in [CacheIds -> Rows]
    BY DEF ControlInv, Shape
  <2>2. save \in CacheIds \cup {CACHE_SKIP}
    BY <1>1, <2>1, IdsOfPasses
  <2> QED
    BY <1>1, <2>2 DEF StoredIds
<1>3. /\ rootPc = "ready" /\ sent' = Packet(load, save)
      /\ rootStage' = IF save = CACHE_SKIP THEN rootStage ELSE Packet(load, save).rows
      /\ UNCHANGED <<rootDb, workerPc, got, ended, workerDb>>
  BY <1>1 DEF Forward
<1>4. PacketSays(load, save)
  BY <1>2, PacketIsPacket DEF ControlInv
<1>5. /\ sent'.pass = sent.pass + 1 /\ sent'.save = save /\ sent'.load = load
      /\ save # CACHE_SKIP => sent'.rows = Append(rootDb[save], sent.pass + 1)
      /\ load # CACHE_SKIP => sent'.wanted = rootDb[load]
  BY <1>3, <1>4 DEF PacketSays
<1>6. /\ sent.pass \in Nat /\ rootDb \in [CacheIds -> Rows]
      /\ \A w \in Workers : ended[w] = sent.pass
  BY <1>3 DEF ControlInv, Shape, InCount, SomePacket
<1>7. SentRows'
  <2>1. save # CACHE_SKIP => Extends(sent'.rows, rootDb[save])
    <3>1. sent.pass + 1 \in Nat
      BY <1>6
    <3>2. ASSUME save # CACHE_SKIP PROVE rootDb[save] \in Rows
      BY <1>2, <1>6, <3>2
    <3> QED
      BY <1>5, <3>1, <3>2, ExtendsByOne
  <2>2. load # CACHE_SKIP => Extends(rootDb[load], sent'.wanted)
    BY <1>5, ExtendsItself
  <2> QED
    BY <1>3, <1>5, <2>1, <2>2 DEF SentRows
<1>8. RowsOfPass'
  BY <1>3, <1>5, <1>6 DEF RowsOfPass
<1>9. PendingRows' /\ WorkersHaveRows'
  BY <1>3 DEF RowsInv, PendingRows, WorkersHaveRows, AboutTo, Current
<1> QED
  BY <1>7, <1>8, <1>9 DEF RowsInv

LEMMA RootCommitsRows ==
  ASSUME ControlInv, RowsInv, RootCommits
  PROVE  RowsInv'
<1>1. /\ rootPc = "ready" /\ sent.save # CACHE_SKIP /\ rootStage # NoRows
      /\ rootDb' = [rootDb EXCEPT ![sent.save] = rootStage]
      /\ rootStage' = NoRows
      /\ UNCHANGED <<sent, workerPc, got, ended, workerDb>>
  BY DEF RootCommits, workerVars
<1>2. rootStage = sent.rows
  BY <1>1 DEF RowsInv, SentRows
<1>3. /\ rootDb \in [CacheIds -> Rows] /\ sent.save \in CacheIds
      /\ sent.rows \in Rows /\ sent.wanted \in Rows
      /\ sent.load \in CacheIds \cup {CACHE_SKIP}
  BY <1>1, RootCommitsShape DEF ControlInv, Shape, SomePacket
<1>4. \A id \in CacheIds : rootDb'[id] = IF id = sent.save THEN sent.rows ELSE rootDb[id]
  BY <1>1, <1>2, <1>3
<1>5. \A id \in CacheIds : Extends(rootDb'[id], rootDb[id])
  BY <1>1, <1>4, ExtendsItself DEF RowsInv, SentRows
<1>6. SentRows'
  <2>1. Extends(sent'.rows, rootDb'[sent'.save])
    BY <1>1, <1>3, <1>4, ExtendsItself
  <2>2. ASSUME sent.load # CACHE_SKIP PROVE Extends(rootDb'[sent.load], sent.wanted)
    <3>1. /\ sent.load \in CacheIds /\ rootDb[sent.load] \in Rows
          /\ rootDb'[sent.load] \in Rows
      BY <1>3, <1>4, <2>2
    <3>2. Extends(rootDb[sent.load], sent.wanted)
      BY <2>2 DEF RowsInv, SentRows
    <3> QED
      BY <1>3, <1>5, <3>1, <3>2, ExtendsFurther
  <2> QED
    BY <1>1, <2>1, <2>2 DEF SentRows
<1>7. \A w \in Workers : workerPc[w] = "commit" => Current(w) = sent
  BY <1>1, AllQuiet
<1>8. \A w \in Workers : Current(w)' = Current(w)
  BY <1>1 DEF Current
<1>9. \A w \in Workers : \A id \in CacheIds : AboutTo(w, id)' <=> AboutTo(w, id)
  BY <1>1, <1>8 DEF AboutTo
<1>10. PendingRows'
  <2>1. ASSUME NEW w \in Workers, NEW id \in CacheIds, AboutTo(w, id)'
        PROVE  Extends(Current(w)'.rows, rootDb'[id])
    <3>1. Current(w)' = sent /\ id = sent.save
      BY <1>7, <1>8, <1>9, <2>1 DEF AboutTo
    <3> QED
      BY <1>4, <3>1, ExtendsItself
  <2> QED
    BY <2>1 DEF PendingRows
<1>11. RowsOfPass'
  BY <1>1 DEF RowsInv, RowsOfPass
<1>12. WorkersHaveRows'
  <2>1. ASSUME NEW w \in Workers, NEW id \in CacheIds, ~AboutTo(w, id)
        PROVE  Extends(workerDb[w][id], rootDb'[id])
    <3>1. CASE id # sent.save
      BY <1>4, <2>1, <3>1 DEF RowsInv, WorkersHaveRows
    <3>2. CASE id = sent.save
      <4>1. workerPc[w] # "commit"
        BY <1>7, <2>1, <3>2 DEF AboutTo
      <4>2. ended[w] = sent.pass
        BY <1>1 DEF ControlInv, InCount
      <4> QED
        BY <1>1, <1>4, <3>2, <4>1, <4>2 DEF RowsInv, RowsOfPass
    <3> QED
      BY <3>1, <3>2
  <2> QED
    BY <1>1, <1>9, <2>1 DEF WorkersHaveRows
<1> QED
  BY <1>6, <1>10, <1>11, <1>12 DEF RowsInv

LEMMA PassEndsRows ==
  ASSUME ControlInv, RowsInv, NEW w \in Workers, PassEnds(w)
  PROVE  RowsInv'
<1>1. /\ workerPc[w] = "running"
      /\ workerPc' = [workerPc EXCEPT ![w] = "commit"]
      /\ ended' = [ended EXCEPT ![w] = began[w]]
      /\ UNCHANGED <<rootStage, sent, rootDb, got, workerDb>>
  BY DEF PassEnds, rootVars
<1>2. Current(w) = sent
  BY <1>1, BothHalves DEF ControlInv, InStep, Follows, Runs, Current
<1>3. /\ workerPc'[w] = "commit"
      /\ \A v \in Workers \ {w} : workerPc'[v] = workerPc[v] /\ ended'[v] = ended[v]
      /\ \A v \in Workers : Current(v)' = Current(v)
  BY <1>1 DEF ControlInv, Shape, Current
<1>4. SentRows'
  BY <1>1 DEF RowsInv, SentRows
<1>5. ASSUME NEW v \in Workers, NEW id \in CacheIds, AboutTo(v, id)'
      PROVE  Extends(Current(v)'.rows, rootDb'[id])
  <2>1. CASE v = w
    BY <1>1, <1>2, <1>3, <1>5, <2>1 DEF AboutTo, RowsInv, SentRows, CacheIds, CACHE_SKIP
  <2>2. CASE v # w
    BY <1>1, <1>3, <1>5, <2>2 DEF AboutTo, RowsInv, PendingRows
  <2> QED
    BY <2>1, <2>2
<1>6. RowsOfPass'
  BY <1>1, <1>3 DEF RowsInv, RowsOfPass
<1>7. \A v \in Workers : \A id \in CacheIds : AboutTo(v, id) => AboutTo(v, id)'
  BY <1>1, <1>3 DEF AboutTo
<1>8. WorkersHaveRows'
  BY <1>1, <1>7 DEF RowsInv, WorkersHaveRows
<1> QED
  BY <1>4, <1>5, <1>6, <1>8 DEF RowsInv, PendingRows

LEMMA WorkerCommitsRows ==
  ASSUME ControlInv, RowsInv, NEW w \in Workers, WorkerCommits(w)
  PROVE  RowsInv'
<1>1. /\ workerPc[w] = "commit"
      /\ workerPc' = [workerPc EXCEPT ![w] = "poll"]
      /\ got' = [got EXCEPT ![w] = <<>>]
      /\ UNCHANGED <<rootStage, sent, rootDb, ended>>
  BY DEF WorkerCommits, rootVars
<1>2. /\ workerPc'[w] = "poll"
      /\ \A v \in Workers \ {w} : workerPc'[v] = workerPc[v] /\ Current(v)' = Current(v)
  BY <1>1 DEF ControlInv, Shape, Current
<1>3. /\ \A id \in CacheIds :
           workerDb'[w][id] = IF id = Current(w).save THEN Current(w).rows ELSE workerDb[w][id]
      /\ \A v \in Workers \ {w} : workerDb'[v] = workerDb[v]
  <2>1. workerDb \in [Workers -> [CacheIds -> Rows]]
    BY DEF ControlInv, Shape
  <2>2. CASE Current(w).save = CACHE_SKIP
    BY <2>2 DEF WorkerCommits, CommitsTo, CacheIds, CACHE_SKIP
  <2>3. CASE Current(w).save # CACHE_SKIP
    <3>1. workerDb' = [workerDb EXCEPT ![w][Current(w).save] = Current(w).rows]
      BY <2>3 DEF WorkerCommits, CommitsTo
    <3> QED
      BY <2>1, <3>1
  <2> QED
    BY <2>2, <2>3
<1>4. SentRows'
  BY <1>1 DEF RowsInv, SentRows
<1>5. /\ \A id \in CacheIds : ~AboutTo(w, id)'
      /\ \A v \in Workers \ {w} : \A id \in CacheIds : AboutTo(v, id)' <=> AboutTo(v, id)
  BY <1>2 DEF AboutTo
<1>6. ASSUME NEW v \in Workers, NEW id \in CacheIds, AboutTo(v, id)'
      PROVE  Extends(Current(v)'.rows, rootDb'[id])
  BY <1>1, <1>2, <1>5, <1>6 DEF RowsInv, PendingRows
<1>7. ASSUME sent.save # CACHE_SKIP, NEW v \in Workers, ended[v] = sent.pass
      PROVE  workerPc'[v] = "commit" \/ Extends(workerDb'[v][sent.save], sent.rows)
  <2>1. CASE v = w
    <3>1. Current(w) = sent
      <4>1. Commits(w) /\ began[w] \in Nat /\ sent.pass \in Nat
        BY <1>1 DEF ControlInv, InStep, Follows, Shape, SomePacket
      <4> QED
        BY <1>7, <2>1, <4>1 DEF Commits, OneBehind
    <3>2. sent.save \in CacheIds
      BY <1>7 DEF ControlInv, Shape, SomePacket
    <3> QED
      BY <1>3, <2>1, <3>1, <3>2, ExtendsItself
  <2>2. CASE v # w
    BY <1>2, <1>3, <1>7, <2>2 DEF RowsInv, RowsOfPass
  <2> QED
    BY <2>1, <2>2
<1>8. ASSUME NEW v \in Workers, NEW id \in CacheIds
      PROVE  AboutTo(v, id)' \/ Extends(workerDb'[v][id], rootDb[id])
  <2>1. CASE v = w /\ id = Current(w).save
    BY <1>1, <1>3, <2>1 DEF RowsInv, PendingRows, AboutTo
  <2>2. CASE v = w /\ id # Current(w).save
    BY <1>3, <2>2 DEF RowsInv, WorkersHaveRows, AboutTo
  <2>3. CASE v # w
    BY <1>3, <1>5, <2>3 DEF RowsInv, WorkersHaveRows
  <2> QED
    BY <2>1, <2>2, <2>3
<1>9. PendingRows'
  BY <1>6 DEF PendingRows
<1>10. RowsOfPass'
  BY <1>1, <1>7 DEF RowsOfPass
<1>11. WorkersHaveRows'
  BY <1>1, <1>8 DEF WorkersHaveRows
<1> QED
  BY <1>4, <1>9, <1>10, <1>11 DEF RowsInv

(* The other steps of the root                                              *)
LEMMA RootRows ==
  ASSUME RowsInv, Returned \/ RootFails \/ Finish \/ RootKilled
  PROVE  RowsInv'
<1>1. UNCHANGED <<sent, rootDb, workerDb, ended, workerPc, got>>
  BY DEF Returned, RootFails, Finish, RootKilled, workerVars
<1>2. rootStage' = rootStage \/ rootStage' = NoRows
  BY DEF Returned, RootFails, Finish, RootKilled
<1> QED
  BY <1>1, <1>2, RowsStay

(* and of a worker                                                          *)
LEMMA WorkerRows ==
  ASSUME ControlInv, RowsInv, "commit" \notin KilledAt, NEW w \in Workers,
         \/ ReadsHalf(w) \/ GetsPacket(w) \/ GivesUp(w) \/ LeavesSession(w)
         \/ DiesOfPipe(w) \/ WorkerKilled(w) \/ WorkerRestarts(w) \/ SessionFails(w)
  PROVE  RowsInv'
<1>1. UNCHANGED <<rootStage, sent, rootDb, workerDb, ended>>
  BY DEF ReadsHalf, GetsPacket, GivesUp, LeavesSession, DiesOfPipe, WorkerKilled,
         WorkerRestarts, SessionFails, rootVars
<1>2. ASSUME NEW v \in Workers
      PROVE  workerPc'[v] = "commit" <=> workerPc[v] = "commit"
  <2>1. workerPc \in [Workers -> WorkerPcs]
    BY DEF ControlInv, Shape
  <2>2. CASE ReadsHalf(w) \/ GivesUp(w)
    BY <2>2 DEF ReadsHalf, GivesUp
  <2>3. CASE GetsPacket(w)
    BY <2>1, <2>3 DEF GetsPacket
  <2>4. CASE LeavesSession(w)
    BY <2>1, <2>4 DEF LeavesSession, Throws
  <2>5. CASE WorkerKilled(w) \/ WorkerRestarts(w)
    BY <2>1, <2>5 DEF WorkerKilled, WorkerRestarts
  <2>6. CASE SessionFails(w)
    BY <2>1, <2>6 DEF SessionFails, Workers
  <2>7. CASE DiesOfPipe(w)
    BY <2>1, <2>7 DEF DiesOfPipe
  <2> QED
    BY <2>2, <2>3, <2>4, <2>5, <2>6, <2>7
<1>3. ASSUME NEW v \in Workers, workerPc[v] = "commit"
      PROVE  got'[v] = got[v]
  <2>1. got = [u \in Workers |-> got[u]]
    BY DEF ControlInv, Shape
  <2>2. CASE ReadsHalf(w)
    BY <1>3, <2>1, <2>2 DEF ReadsHalf
  <2>3. CASE GivesUp(w)
    BY <1>3, <2>1, <2>3 DEF GivesUp
  <2>4. CASE ~ReadsHalf(w) /\ ~GivesUp(w)
    BY <2>4 DEF GetsPacket, LeavesSession, DiesOfPipe, WorkerKilled, WorkerRestarts,
                SessionFails
  <2> QED
    BY <2>2, <2>3, <2>4
<1> QED
  BY <1>1, <1>2, <1>3, RowsStay

LEMMA RowsStep ==
  ASSUME "commit" \notin KilledAt, ControlInv, RowsInv, [ControlNext]_controlVars
  PROVE  RowsInv'
<1>1. CASE UNCHANGED controlVars
  <2>1. UNCHANGED <<sent, rootDb, workerDb, ended, workerPc, got, rootStage>>
    BY <1>1 DEF controlVars, rootVars, workerVars
  <2> QED
    BY <2>1, RowsStay
<1>2. ASSUME NEW w \in Workers,
             \/ SessionFails(w) \/ LoopStep(w) \/ GivesUp(w)
             \/ WorkerKilled(w) \/ WorkerRestarts(w)
      PROVE  RowsInv'
  BY <1>2, WorkerRows, PassEndsRows, WorkerCommitsRows DEF LoopStep
<1> QED
  BY <1>1, <1>2, SessionStartsRows, PassesRows, RootCommitsRows, RootRows DEF ControlNext

-----------------------------------------------------------------------------
(* The theorems                                                             *)

(* The state of a session has the shape it is declared with                 *)
(* (src/src/app.cpp:166-245, 247-393).                                      *)
THEOREM ControlTypeCorrect == ControlSpec => []ControlTypeOK
<1>1. ControlInv => ControlTypeOK
  <2> SUFFICES ASSUME ControlInv PROVE ControlTypeOK
    OBVIOUS
  <2>1. sent.pass \in 0 .. MaxPasses
    BY ControlAssumption DEF ControlInv, Shape, SomePacket
  <2>2. \A w \in Workers : workerPc[w] \in {"running", "commit"} => Len(got[w]) = 2
    BY BothHalves DEF ControlInv, InStep, Follows, Runs, Commits
  <2>3. workerPc \in [Workers -> {"off", "serve", "poll", "running", "commit"}]
    BY DEF ControlInv, Shape, WorkerPcs
  <2> QED
    BY <2>1, <2>2, <2>3 DEF ControlTypeOK, ControlInv, Shape, InCount
<1> QED
  BY <1>1, ControlInvariant, PTL

(* Whatever the number of workers and wherever one gives up polling, is     *)
(* killed or loses its root, the halves that a worker puts together are     *)
(* those of one packet (tryReadControlPacket, src/src/app.cpp:229-244).     *)
THEOREM PacketsStayWhole == ControlSpec => []WholePackets
<1>1. ControlInv => WholePackets
  <2> SUFFICES ASSUME ControlInv, NEW w \in Workers, workerPc[w] = "poll", got[w] # <<>>
               PROVE  /\ got[w][1].half = 1
                      /\ Len(got[w]) = 2 => got[w][2] = [packet |-> Current(w), half |-> 2]
    BY DEF WholePackets
  <2>1. Waits(w) \/ Expects(w)
    BY DEF ControlInv, InStep, Follows
  <2>2. PICK packet : Arriving(w, packet)
    BY <2>1 DEF Waits, Expects
  <2>3. CASE got[w] = <<Half(packet, 1)>>
    BY <2>3 DEF Half
  <2>4. CASE got[w] = Both(packet)
    <3>1. got[w][1] = Half(packet, 1) /\ got[w][2] = Half(packet, 2)
      BY <2>4, BothHalves
    <3>2. Current(w) = packet /\ got[w][1].half = 1
      BY <3>1 DEF Half, Current
    <3> QED
      BY <3>1, <3>2 DEF Half
  <2> QED
    BY <2>2, <2>3, <2>4 DEF Arriving, Arrives
<1> QED
  BY <1>1, ControlInvariant, PTL

(* In every session, with any number of workers, the workers run the passes *)
(* of the root in order and with the root's packet (src/src/app.cpp:        *)
(* 209-213, 229-244), wherever workers and root may be killed.              *)
THEOREM WorkersFollowRoot == ControlSpec => []WorkersFollow
<1>1. ControlInv => WorkersFollow
  <2> SUFFICES ASSUME ControlInv, NEW w \in Workers, InSession(w)
               PROVE  /\ began[w] \in {sent.pass, sent.pass - 1}
                      /\ workerPc[w] = "running" => began[w] = sent.pass /\ Current(w) = sent
    BY DEF WorkersFollow
  <2>1. Follows(w) /\ began[w] \in Nat /\ sent.pass \in Nat
    BY DEF ControlInv, InStep, Shape, SomePacket
  <2>2. began[w] = sent.pass \/ sent.pass = began[w] + 1
    BY <2>1 DEF InSession, Follows, Waits, Expects, Runs, Commits, UpToDate, OneBehind
  <2>3. began[w] \in {sent.pass, sent.pass - 1}
    BY <2>1, <2>2
  <2>4. workerPc[w] = "running" => began[w] = sent.pass /\ Current(w) = sent
    BY <2>1, BothHalves DEF Follows, Runs, Current
  <2> QED
    BY <2>3, <2>4
<1> QED
  BY <1>1, ControlInvariant, PTL

(* As long as no worker is killed between a pass and its commit, what a     *)
(* worker loads is what the root's metadata promises, although every node   *)
(* commits on its own ("this is a hack", src/src/app.cpp:382), for any      *)
(* number of workers, ids and passes.                                       *)
THEOREM LoadsAreComplete ==
  ASSUME "commit" \notin KilledAt
  PROVE  ControlSpec => []LoadsFindTheirRows
<1>1. ControlInv /\ RowsInv => LoadsFindTheirRows
  <2> SUFFICES ASSUME ControlInv, RowsInv, NEW w \in Workers,
                      workerPc[w] = "running", Current(w).load # CACHE_SKIP
               PROVE  /\ Len(workerDb[w][Current(w).load]) >= Len(Current(w).wanted)
                      /\ SubSeq(workerDb[w][Current(w).load], 1, Len(Current(w).wanted))
                           = Current(w).wanted
    BY DEF LoadsFindTheirRows
  <2>1. Current(w) = sent
    BY BothHalves DEF ControlInv, InStep, Follows, Runs, Current
  <2>2. /\ sent.load \in CacheIds /\ sent.wanted \in Rows
        /\ workerDb[w][sent.load] \in Rows /\ rootDb[sent.load] \in Rows
    BY <2>1 DEF ControlInv, Shape, SomePacket
  <2>3. Extends(workerDb[w][sent.load], rootDb[sent.load])
    BY <2>2 DEF RowsInv, WorkersHaveRows, AboutTo
  <2>4. Extends(rootDb[sent.load], sent.wanted)
    BY <2>1 DEF RowsInv, SentRows
  <2>5. Extends(workerDb[w][sent.load], sent.wanted)
    BY <2>2, <2>3, <2>4, ExtendsFurther
  <2> QED
    BY <2>1, <2>2, <2>5, BeginsWith
<1>2. ControlInit => RowsInv
  BY RowsStart
<1>3. ControlInv /\ RowsInv /\ [ControlNext]_controlVars => RowsInv'
  BY RowsStep
<1> QED
  BY <1>1, <1>2, <1>3, ControlInvariant, PTL DEF ControlSpec

=============================================================================
