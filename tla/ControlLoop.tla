---------------------------- MODULE ControlLoop -----------------------------
(***************************************************************************)
(* The session of a root and its workers: the control packets with which   *)
(* RootLlmInference drives WorkerLlmInference (src/src/app.cpp:166-245),   *)
(* the loops of runInferenceApp and runWorkerApp (247-393), and the cache  *)
(* databases that root and workers commit to each on their own.            *)
(*                                                                         *)
(* A forward pass is reduced to what NodeSync and Collective show of it:   *)
(* a worker is through with it only when every node has entered it, and    *)
(* the root only when every worker is through.  The configuration of the   *)
(* workers and the transfer of weights are part of SessionStarts.          *)
(*                                                                         *)
(* The rows saved under an id are a sequence of passes, each of which      *)
(* extended the rows that were saved there before.                         *)
(***************************************************************************)
EXTENDS Naturals, Sequences, FiniteSets, FiniteSetsExt

CONSTANTS
  NumWorkers,
  MaxCacheId,       \* ids are bounded for model checking
  MaxPasses,        \* and so are forward passes
  NetTurbo,         \* args->netTurbo
  KilledAt          \* where a worker process may be killed

ASSUME ControlAssumption ==
  /\ NumWorkers \in Nat \ {0}
  /\ MaxCacheId \in Nat /\ MaxPasses \in Nat
  /\ NetTurbo \in BOOLEAN
  /\ KilledAt \subseteq {"serve", "poll", "running", "commit"}

Workers == 0 .. (NumWorkers - 1)

CACHE_SKIP == 0

CacheIds == 1 .. MaxCacheId

VARIABLES
  rootPc,     \* "down", "ready" or "forward"
  sent,       \* the last control packet
  rootStage,  \* rows staged on the root
  rootDb,     \* id -> rows, on the root's disk, as its metadata describes them
  workerPc,   \* "off", "serve", "poll", "running" or "commit"
  wire,       \* halves of packets sent to a worker and not read
  got,        \* halves of the packet a worker is reading
  began,      \* the last pass a worker began
  ended,      \* and the last one it has gone through
  workerDb,   \* id -> rows, on the disk of each worker
  nonBlocking,  \* isTurboEnabled
  firstAttempt  \* isFirstAttempt

rootVars == <<rootPc, sent, rootStage, rootDb>>
pollVars == <<nonBlocking, firstAttempt>>
workerVars == <<workerPc, wire, got, began, ended, workerDb, pollVars>>
controlVars == <<rootVars, workerVars>>

NoRows == <<>>

Idle == [pass |-> 0, stop |-> FALSE, save |-> CACHE_SKIP, load |-> CACHE_SKIP,
         rows |-> NoRows, wanted |-> NoRows]

ControlInit ==
  /\ rootPc = "down"
  /\ sent = Idle
  /\ rootStage = NoRows
  /\ rootDb = [id \in CacheIds |-> NoRows]
  /\ workerPc = [w \in Workers |-> "serve"]
  /\ wire = [w \in Workers |-> <<>>]
  /\ got = [w \in Workers |-> <<>>]
  /\ began = [w \in Workers |-> 0]
  /\ ended = [w \in Workers |-> 0]
  /\ workerDb = [w \in Workers |-> [id \in CacheIds |-> NoRows]]
  /\ nonBlocking = [w \in Workers |-> FALSE]
  /\ firstAttempt = [w \in Workers |-> TRUE]

InSession(w) == workerPc[w] \in {"poll", "running", "commit"}

-----------------------------------------------------------------------------
(* The root                                                                 *)

(* connect, the configuration and the weights (lines 280-302)               *)
SessionStarts ==
  /\ rootPc = "down"
  /\ \A w \in Workers : workerPc[w] = "serve"
  /\ rootPc' = "ready"
  /\ sent' = [Idle EXCEPT !.pass = sent.pass]
  /\ workerPc' = [w \in Workers |-> "poll"]
  /\ wire' = [w \in Workers |-> <<>>]
  /\ got' = [w \in Workers |-> <<>>]
  /\ began' = [w \in Workers |-> sent.pass]
  /\ ended' = [w \in Workers |-> sent.pass]
  /\ nonBlocking' = [w \in Workers |-> FALSE]
  /\ firstAttempt' = [w \in Workers |-> TRUE]
  /\ UNCHANGED <<rootStage, rootDb, workerDb>>

(* The root ends while it connects, at a worker that does not listen or for *)
(* another reason: the workers it has connected to are in serve or in the   *)
(* configuration, outside the try of the loop, and end, too.                *)
SessionFails(n) ==
  /\ rootPc = "down"
  /\ \A w \in 0 .. n : workerPc[w] = "serve"
  /\ workerPc' = [w \in Workers |-> IF w <= n THEN "off" ELSE workerPc[w]]
  /\ UNCHANGED <<rootVars, wire, got, began, ended, workerDb, pollVars>>

StoredIds == {id \in CacheIds : rootDb[id] # NoRows}

FreshId == Max(StoredIds \cup {0}) + 1

(* What is loaded is described in the metadata; what is saved extends it.   *)
Packet(load, save) ==
  LET pass == sent.pass + 1
  IN  [pass |-> pass, stop |-> FALSE, save |-> save, load |-> load,
       rows   |-> IF save = CACHE_SKIP THEN NoRows ELSE Append(rootDb[save], pass),
       wanted |-> IF load = CACHE_SKIP THEN NoRows ELSE rootDb[load]]

WriteAll(packet) ==
  wire' = [w \in Workers |-> wire[w] \o <<[packet |-> packet, half |-> 1],
                                          [packet |-> packet, half |-> 2]>>]

(* RootLlmInference::forward (lines 209-213) and the executor's load and    *)
(* save steps on the root                                                   *)
Forward(load, save) ==
  /\ rootPc = "ready"
  /\ sent' = Packet(load, save)
  /\ WriteAll(Packet(load, save))
  /\ rootStage' = IF save = CACHE_SKIP THEN rootStage ELSE Packet(load, save).rows
  /\ rootPc' = "forward"
  /\ UNCHANGED <<rootDb, workerPc, got, began, ended, workerDb, pollVars>>

(* mutant of Through: the root does not wait for the last results           *)
Begun(w) == began[w] = sent.pass

Through(w) == ended[w] = sent.pass

Returned ==
  /\ rootPc = "forward"
  /\ \A w \in Workers : Through(w)
  /\ rootPc' = "ready"
  /\ UNCHANGED <<sent, rootStage, rootDb, workerVars>>

(* mutant of WorkerGone: only a dead process closes its connections         *)
WorkerDead(w) == workerPc[w] = "off"

WorkerGone(w) == ~InSession(w)

(* A read or write of a closed connection throws, or the write raises       *)
(* SIGPIPE; both end the process.                                           *)
RootFails ==
  /\ rootPc = "forward"
  /\ \E w \in Workers : WorkerGone(w) /\ ~Through(w)
  /\ rootPc' = "down"
  /\ rootStage' = NoRows
  /\ UNCHANGED <<sent, rootDb, workerVars>>

(* The metadata is written and committed with the rows; the caller may also *)
(* give up before (a client that is gone).                                  *)
RootCommits ==
  /\ rootPc = "ready"
  /\ sent.save # CACHE_SKIP
  /\ rootStage # NoRows
  /\ rootDb' = [rootDb EXCEPT ![sent.save] = rootStage]
  /\ rootStage' = NoRows
  /\ UNCHANGED <<rootPc, sent, workerVars>>

(* RootLlmInference::finish (lines 215-220), then the process ends          *)
Finish ==
  /\ rootPc = "ready"
  /\ WriteAll([Idle EXCEPT !.pass = sent.pass, !.stop = TRUE])
  /\ rootPc' = "down"
  /\ rootStage' = NoRows
  /\ UNCHANGED <<sent, rootDb, workerPc, got, began, ended, workerDb, pollVars>>

RootKilled ==
  /\ rootPc # "down"
  /\ rootPc' = "down"
  /\ rootStage' = NoRows
  /\ UNCHANGED <<sent, rootDb, workerVars>>

-----------------------------------------------------------------------------
(* A worker                                                                 *)

AnyRead(w) == got[w] # <<>>                          \* mutant of Complete

(* both halves: while (s > 0) has ended                                     *)
Complete(w) == Len(got[w]) = 2

(* recv finds data (tryReadSocket, nn-network.cpp:100-123); the second half *)
(* completes the packet.                                                    *)
ReadsHalf(w) ==
  /\ workerPc[w] = "poll" /\ ~Complete(w)
  /\ wire[w] # <<>>
  /\ got' = [got EXCEPT ![w] = Append(@, Head(wire[w]))]
  /\ wire' = [wire EXCEPT ![w] = Tail(@)]
  /\ UNCHANGED <<rootVars, workerPc, began, ended, workerDb, pollVars>>

GivesUpAnyTime(w) == TRUE                          \* mutant of NothingRead

NothingRead(w) == got[w] = <<>>

(* 10000 attempts found nothing: what is on the wire need not have arrived. *)
(* The attempts are only counted as long as nothing of the packet is read   *)
(* (s == size), and only a non-blocking socket comes back without data.     *)
GivesUp(w) ==
  /\ workerPc[w] = "poll" /\ ~Complete(w)
  /\ nonBlocking[w] /\ NothingRead(w)
  /\ got' = [got EXCEPT ![w] = <<>>]
  /\ firstAttempt' = [firstAttempt EXCEPT ![w] = FALSE]
  /\ \/ UNCHANGED nonBlocking
     \/ ~firstAttempt[w] /\ nonBlocking' = [nonBlocking EXCEPT ![w] = FALSE]
  /\ UNCHANGED <<rootVars, workerPc, wire, began, ended, workerDb>>

Current(w) == got[w][1].packet

(* The rest of tryReadControlPacket (lines 233-244) and of the loop up to   *)
(* executor.forward (lines 371-378); a stop ends the session.               *)
GetsPacket(w) ==
  /\ workerPc[w] = "poll" /\ Complete(w)
  /\ IF Current(w).stop
     THEN /\ workerPc' = [workerPc EXCEPT ![w] = "serve"]
          /\ UNCHANGED <<began, nonBlocking>>
     ELSE /\ workerPc' = [workerPc EXCEPT ![w] = "running"]
          /\ began' = [began EXCEPT ![w] = Current(w).pass]
          /\ nonBlocking' = [nonBlocking EXCEPT ![w] = @ \/ NetTurbo]
  /\ UNCHANGED <<rootVars, wire, got, ended, workerDb, firstAttempt>>

(* executor.forward() returns (line 379)                                    *)
PassEnds(w) ==
  /\ workerPc[w] = "running"
  /\ \A v \in Workers : began[v] >= began[w]
  /\ workerPc' = [workerPc EXCEPT ![w] = "commit"]
  /\ firstAttempt' = [firstAttempt EXCEPT ![w] = TRUE]
  /\ ended' = [ended EXCEPT ![w] = began[w]]
  /\ UNCHANGED <<rootVars, wire, got, began, workerDb, nonBlocking>>

(* mutant of CommitsTo: the rows are not committed                          *)
CommitsNothing(w) == CACHE_SKIP

CommitsTo(w) == Current(w).save

(* the commit of lines 382-383, if the pass saved anything                  *)
WorkerCommits(w) ==
  /\ workerPc[w] = "commit"
  /\ workerDb' = IF CommitsTo(w) = CACHE_SKIP THEN workerDb
                 ELSE [workerDb EXCEPT ![w][CommitsTo(w)] = Current(w).rows]
  /\ workerPc' = [workerPc EXCEPT ![w] = "poll"]
  /\ got' = [got EXCEPT ![w] = <<>>]
  /\ UNCHANGED <<rootVars, wire, began, ended, pollVars>>

PeerGone(w) ==
  \/ rootPc = "down"
  \/ \E v \in Workers \ {w} : ~InSession(v)

EofIsNoData(w) == workerPc[w] = "running" /\ PeerGone(w)   \* mutant of Throws

(* A read of a closed connection throws, and so does a write that finds it  *)
(* reset; while it polls, a worker only reads, from the root.               *)
Throws(w) ==
  \/ workerPc[w] = "poll" /\ ~Complete(w) /\ rootPc = "down"
  \/ workerPc[w] = "running" /\ PeerGone(w)

(* A network exception breaks the loop (lines 384-390): the worker serves   *)
(* again, with a database that is opened again and has nothing staged.  A   *)
(* connection that is reset loses what is on its way.                       *)
LeavesSession(w) ==
  /\ Throws(w)
  /\ workerPc' = [workerPc EXCEPT ![w] = "serve"]
  /\ UNCHANGED <<rootVars, wire, got, began, ended, workerDb, pollVars>>

(* In a forward pass a worker writes, too.  A write after the connection    *)
(* was reset raises SIGPIPE: send has no MSG_NOSIGNAL, the process of a     *)
(* worker does not ignore the signal (dllama.cpp:216-239) and ends.         *)
DiesOfPipe(w) ==
  /\ workerPc[w] = "running" /\ PeerGone(w)
  /\ workerPc' = [workerPc EXCEPT ![w] = "off"]
  /\ UNCHANGED <<rootVars, wire, got, began, ended, workerDb, pollVars>>

WorkerKilled(w) ==
  /\ workerPc[w] \in KilledAt
  /\ workerPc' = [workerPc EXCEPT ![w] = "off"]
  /\ UNCHANGED <<rootVars, wire, got, began, ended, workerDb, pollVars>>

WorkerRestarts(w) ==
  /\ workerPc[w] = "off"
  /\ workerPc' = [workerPc EXCEPT ![w] = "serve"]
  /\ UNCHANGED <<rootVars, wire, got, began, ended, workerDb, pollVars>>

-----------------------------------------------------------------------------

Passes ==
  /\ sent.pass < MaxPasses
  /\ \E load \in StoredIds \cup {CACHE_SKIP},
        save \in StoredIds \cup {CACHE_SKIP, FreshId} :
       save <= MaxCacheId /\ Forward(load, save)

LoopStep(w) ==
  \/ ReadsHalf(w) \/ GetsPacket(w)
  \/ PassEnds(w) \/ WorkerCommits(w) \/ LeavesSession(w) \/ DiesOfPipe(w)

ControlNext ==
  \/ SessionStarts \/ Passes \/ Returned \/ RootFails \/ RootCommits
  \/ Finish \/ RootKilled
  \/ \E w \in Workers :
       \/ SessionFails(w) \/ LoopStep(w) \/ GivesUp(w)
       \/ WorkerKilled(w) \/ WorkerRestarts(w)

ControlSpec == ControlInit /\ [][ControlNext]_controlVars

(* Both loops go on; sessions, passes and failures need not happen.         *)
FairControlSpec ==
  /\ ControlSpec
  /\ WF_controlVars(Returned \/ RootFails)
  /\ \A w \in Workers : WF_controlVars(LoopStep(w))

-----------------------------------------------------------------------------
(* Properties                                                               *)

(* The shape of the state.                                                  *)
ControlTypeOK ==
  /\ rootPc \in {"down", "ready", "forward"}
  /\ workerPc \in [Workers -> {"off", "serve", "poll", "running", "commit"}]
  /\ sent.pass \in 0 .. MaxPasses
  /\ \A w \in Workers :
       /\ ended[w] <= began[w] /\ began[w] <= sent.pass
       /\ workerPc[w] \in {"running", "commit"} => Len(got[w]) = 2
  /\ nonBlocking \in [Workers -> BOOLEAN] /\ firstAttempt \in [Workers -> BOOLEAN]

(* What a worker puts together are the halves of one packet, in order:      *)
(* giving up after a number of attempts never happens between them          *)
(* (s == size, nn-network.cpp:107).                                         *)
WholePackets ==
  \A w \in Workers : workerPc[w] = "poll" /\ got[w] # <<>> =>
    /\ got[w][1].half = 1
    /\ Len(got[w]) = 2 => got[w][2] = [packet |-> Current(w), half |-> 2]

(* In a session the workers run the passes of the root, all of them, in     *)
(* order and with the root's packet, and the root is never more than one    *)
(* pass ahead (lines 209-213, 229-244).                                     *)
WorkersFollow ==
  \A w \in Workers : rootPc # "down" /\ InSession(w) =>
    /\ began[w] \in {sent.pass, sent.pass - 1}
    /\ workerPc[w] = "running" => began[w] = sent.pass /\ Current(w) = sent

(* "TODO this is a hack, we really need RPC to do this right" (app.cpp:382):*)
(* root and workers commit on their own, yet a worker that loads an id finds *)
(* the rows that the root's metadata promises, or more of the same.         *)
LoadsFindTheirRows ==
  \A w \in Workers : workerPc[w] = "running" /\ Current(w).load # CACHE_SKIP =>
    LET rows == workerDb[w][Current(w).load]
        wanted == Current(w).wanted
    IN  Len(rows) >= Len(wanted) /\ SubSeq(rows, 1, Len(wanted)) = wanted

(* A forward pass of the root ends, or fails when a worker is gone.         *)
ForwardReturns == rootPc = "forward" ~> rootPc # "forward"

(* When the root is gone the session ends for all workers, with packets on  *)
(* their way, in the middle of a forward pass or of a commit: each serves   *)
(* again, or its process has ended (app.cpp:353-390).  No worker waits for  *)
(* ever for another one of the session that is gone, and the next root,     *)
(* which needs them all, is not kept out.                                   *)
WorkersLeave == rootPc = "down" ~> \A w \in Workers : ~InSession(w)

=============================================================================
