----------------------------- MODULE ApiServer ------------------------------
(***************************************************************************)
(* The chat completion handler, ApiServer::provideContent                  *)
(* (src/src/dllama-api.cpp:81-276), with the prefix cache it drives, the   *)
(* KV rows the executor computes, loads and saves for it, and the end and  *)
(* restart of the process.  The handler holds the server's mutex from its  *)
(* first to its last line, so one request is processed at a time and `req' *)
(* is its local state.                                                     *)
(*                                                                         *)
(* A KV row is modelled by its provenance: the row of position p holds the *)
(* sequence of p + 1 tokens it was computed from, or Garbage when the rows *)
(* before it did not come from one sequence.                               *)
(***************************************************************************)
EXTENDS PrefixCacheManager

CONSTANTS
  SeqLen,        \* header->seqLen
  NBatches,      \* args->nBatches
  MaxTokens,     \* the values of max_tokens in a request, 0 when absent
  Disconnects,   \* where the client may be found gone
  Garbage        \* a row that no single token sequence explains

ASSUME ServerAssumption ==
  /\ SeqLen \in Nat \ {0}
  /\ NBatches \in Nat \ {0}
  /\ MaxTokens \subseteq Nat
  /\ Disconnects \subseteq {"prompt", "stream", "reply"}
  /\ \A p \in Prompts : Len(p) \in 2 .. SeqLen
  /\ Garbage \notin Seq(Token)

VARIABLES
  pc,         \* "idle", "scan", "predict", "reply" or "down"
  req,        \* the locals of provideContent
  kv,         \* the KV rows of each slot
  execSlot,   \* the slot of the execution (NnNetExecution::slot)
  logits      \* logitsPipe: the context the last forward pass computed

serverVars == <<pc, req, kv, execSlot, logits>>

vars == <<cache, db, pc, req, kv, execSlot, logits>>

NoRequest ==
  [promptEnd |-> 0, maxPred |-> 0, slot |-> 0, start |-> 0, pos |-> 0,
   loadFrom |-> CACHE_SKIP, saveTo |-> CACHE_SKIP, tokens |-> <<>>]

Uncapped(a, b) == a                                     \* mutant of Smaller

Smaller(a, b) == IF a < b THEN a ELSE b

ComputedAndNext == SubSeq(req.tokens, 1, req.pos + 1)   \* mutant of Computed

Computed == SubSeq(req.tokens, 1, req.pos)

NextToken == req.tokens[req.pos + 1]

(***************************************************************************)
(* The forward pass, as far as KV rows go                                  *)
(***************************************************************************)

RowAt(rows, i) == IF i <= Len(rows) THEN rows[i] ELSE Garbage

(* the context that rows 1 .. pos amount to *)
Attended(rows, pos) ==
  CASE pos = 0 -> <<>>
    [] pos > 0 /\ pos <= Len(rows)
       /\ rows[pos] # Garbage
       /\ \A i \in 1 .. pos : rows[i] = SubSeq(rows[pos], 1, i) -> rows[pos]
    [] OTHER -> Garbage

Extended(context, tokens) ==
  IF context = Garbage THEN Garbage ELSE context \o tokens

(* rows after a forward pass over a batch of tokens at position pos *)
Forwarded(rows, pos, tokens) ==
  [i \in 1 .. Max({Len(rows), pos + Len(tokens)}) |->
     IF i \in (pos + 1) .. (pos + Len(tokens))
     THEN Extended(Attended(rows, pos), SubSeq(tokens, 1, i - pos))
     ELSE RowAt(rows, i)]

(* STEP_SYNC_CACHE_LOAD: the saved rows over the rows of the slot *)
Loaded(rows, id) ==
  LET saved == ReadRows(db, id)
  IN  IF id = CACHE_SKIP THEN rows
      ELSE [i \in 1 .. Max({Len(rows), Len(saved)}) |->
              IF i <= Len(saved) THEN saved[i] ELSE rows[i]]

LoadNever == CACHE_SKIP                                 \* mutant of LoadNow

(* the cache is loaded by the first forward pass of the request *)
LoadNow == IF req.pos = req.start THEN req.loadFrom ELSE CACHE_SKIP

SaveRowsShort(d, id, rows, pos) ==                      \* mutant of SaveRows
  Write(d, id, "kv", SubSeq(rows, 1, pos - 1))

(* STEP_SYNC_CACHE_SAVE: the rows before the current position *)
SaveRows(d, id, rows, pos) == Write(d, id, "kv", SubSeq(rows, 1, pos))

-----------------------------------------------------------------------------
(***************************************************************************)
(* Actions                                                                 *)
(***************************************************************************)

ServerInit ==
  /\ ManagerInit
  /\ pc = "idle"
  /\ req = NoRequest
  /\ kv = [s \in Slots |-> <<>>]
  /\ execSlot = 0
  /\ logits = <<>>

AnyHit(hit) == hit # Miss                               \* mutant of WholeHit

WholeHit(hit) == hit # Miss /\ hit.matchLen = hit.prefixLen

(* Lines 118-152: what the request reuses and under which id it is saved.   *)
Planned(prompt, maxTokens, hit) ==
  LET slotHit == hit # Miss /\ hit.dst.type = "DEVICE_SLOT"
      dbHit   == hit # Miss /\ hit.dst.type = "DB"
      reused  == IF WholeHit(hit) THEN hit.dst.id ELSE CACHE_SKIP
  IN  [promptEnd |-> Len(prompt) - 1,
       maxPred   |-> IF maxTokens > 0 THEN Smaller(Len(prompt) + maxTokens, SeqLen)
                     ELSE SeqLen,
       slot      |-> IF slotHit THEN hit.dst.slot ELSE PickSlot(cache),
       start     |-> IF hit = Miss THEN 0 ELSE hit.matchLen,
       pos       |-> IF hit = Miss THEN 0 ELSE hit.matchLen,
       loadFrom  |-> IF dbHit THEN hit.dst.id ELSE CACHE_SKIP,
       saveTo    |-> IF reused = CACHE_SKIP THEN NextCacheId(cache) ELSE reused,
       reused    |-> reused,
       tokens    |-> prompt]

Begin(prompt, maxTokens) ==
  /\ pc = "idle"
  /\ \E hit \in Lookup(cache, SubSeq(prompt, 1, Len(prompt) - 1)) :
       LET plan == Planned(prompt, maxTokens, hit)
       IN  /\ cache' = IF plan.reused = CACHE_SKIP THEN TakeCacheId(cache) ELSE cache
           /\ \/ /\ req' = [f \in DOMAIN NoRequest |-> plan[f]]
                 /\ pc' = IF plan.start < plan.promptEnd THEN "scan" ELSE "predict"
              \/ /\ "prompt" \in Disconnects       \* line 158
                 /\ UNCHANGED <<req, pc>>
  /\ UNCHANGED <<db, kv, execSlot, logits>>

BatchSizeBeforeLast == Smaller(req.promptEnd - 1 - req.pos, NBatches)   \* mutant

BatchSize == Smaller(req.promptEnd - req.pos, NBatches)

(* One iteration of the scan loop (lines 167-186).  (\E over a singleton    *)
(* set has TLC compute the rows once.)                                      *)
Scan ==
  /\ pc = "scan"
  /\ \E rows \in {Loaded(kv[req.slot], LoadNow)} :
       LET tokens == SubSeq(req.tokens, req.pos + 1, req.pos + BatchSize)
       IN  /\ kv' = [kv EXCEPT ![req.slot] = Forwarded(rows, req.pos, tokens)]
           /\ logits' = Extended(Attended(rows, req.pos), tokens)
  /\ execSlot' = req.slot
  /\ req' = [req EXCEPT !.pos = @ + BatchSize]
  /\ pc' = IF req.pos + BatchSize < req.promptEnd THEN "scan" ELSE "predict"
  /\ UNCHANGED <<cache, db>>

(* One iteration of the prediction loop (lines 195-236).  The slot is the   *)
(* one the last scan set.  At the end of the prompt the rows of the prompt  *)
(* are saved and committed with their metadata.                             *)
Ends(eos) == eos \/ req.pos + 1 >= req.maxPred

SavesPrompt == HasDb /\ req.pos = req.promptEnd /\ req.saveTo # CACHE_SKIP

Predict(token, eos) ==
  /\ pc = "predict"
  /\ \/ /\ req' = [req EXCEPT !.pos = @ + 1, !.tokens = Append(@, token)]
        /\ pc' = IF Ends(eos) THEN "reply" ELSE "predict"
     \/ /\ "stream" \in Disconnects               \* line 227
        /\ req' = NoRequest
        /\ pc' = "idle"
  /\ \E rows \in {Loaded(kv[execSlot], LoadNow)} :
     \E after \in {Forwarded(rows, req.pos, <<NextToken>>)} :
       /\ kv' = [kv EXCEPT ![execSlot] = after]
       /\ logits' = Extended(Attended(rows, req.pos), <<NextToken>>)
       /\ db' = IF SavesPrompt
                THEN SaveMetadata(SaveRows(db, req.saveTo, after, req.pos),
                                  cache, req.saveTo, Computed)
                ELSE db
  /\ cache' = IF SavesPrompt THEN UpdateMetadata(cache, req.saveTo, Computed) ELSE cache
  /\ UNCHANGED execSlot

(* Lines 237-275.  With a database the rows of the whole answer are saved   *)
(* by one more forward pass at the current position.                        *)
FinalSaveTo == IF req.pos < MinLen THEN CACHE_SKIP ELSE req.saveTo

SavesAnswer == HasDb /\ FinalSaveTo # CACHE_SKIP

(* assert(position + execution->batchSize - 1 < header->seqLen), app.cpp:186 *)
PositionFits == req.pos < SeqLen

Reply ==
  /\ pc = "reply"
  /\ SavesAnswer => PositionFits
  /\ \E after \in {IF SavesAnswer THEN Forwarded(kv[execSlot], req.pos, <<NextToken>>)
                   ELSE kv[execSlot]} :
     \E saved \in {IF SavesAnswer THEN SaveRows(db, FinalSaveTo, after, req.pos) ELSE db} :
     \E slotted \in {UpdateDeviceSlot(cache, req.slot, Computed, FinalSaveTo)} :
       /\ kv' = [kv EXCEPT ![execSlot] = after]
       /\ \/ /\ cache' = IF SavesAnswer
                          THEN UpdateMetadata(slotted, FinalSaveTo, Computed)
                          ELSE slotted
             /\ db' = IF SavesAnswer
                      THEN SaveMetadata(saved, slotted, FinalSaveTo, Computed)
                      ELSE saved
          \/ /\ "reply" \in Disconnects            \* line 250
             /\ cache' = cache
             /\ db' = saved
  /\ logits' = IF SavesAnswer
               THEN Extended(Attended(kv[execSlot], req.pos), <<NextToken>>) ELSE logits
  /\ pc' = "idle"
  /\ req' = NoRequest
  /\ UNCHANGED execSlot

(* The process ends: it is killed, or the assertion of setPosition fails.   *)
Stopped ==
  /\ pc' = "down"
  /\ req' = NoRequest
  /\ kv' = [s \in Slots |-> <<>>]
  /\ execSlot' = 0
  /\ logits' = <<>>
  /\ db' = Reopened(db)
  /\ UNCHANGED cache

Crash == pc # "down" /\ Stopped

PositionAssertFails ==
  /\ pc = "reply"
  /\ SavesAnswer /\ ~PositionFits
  /\ Stopped

Start ==
  /\ pc = "down"
  /\ MetadataLoads(db)
  /\ pc' = "idle"
  /\ cache' = NewManager(db)
  /\ UNCHANGED <<db, req, kv, execSlot, logits>>

(* the handler runs to its end once it is called                            *)
HandlerStep ==
  \/ Scan
  \/ \E token \in Token, eos \in BOOLEAN : Predict(token, eos)
  \/ Reply
  \/ PositionAssertFails

ServerNext ==
  \/ \E prompt \in Prompts, maxTokens \in MaxTokens : Begin(prompt, maxTokens)
  \/ HandlerStep
  \/ Crash
  \/ Start

ServerSpec == ServerInit /\ [][ServerNext]_vars

FairServerSpec == ServerSpec /\ WF_vars(HandlerStep)

-----------------------------------------------------------------------------
(***************************************************************************)
(* Properties                                                              *)
(***************************************************************************)

Rows == Seq(Token) \cup {Garbage}

(* The shape of the handler's state; the executor's slot is in range.       *)
ServerTypeOK ==
  /\ ManagerType(cache)
  /\ pc \in {"idle", "scan", "predict", "reply", "down"}
  /\ req.slot \in Slots /\ execSlot \in Slots
  /\ req.pos \in 0 .. SeqLen /\ req.start <= Max({req.pos, req.promptEnd})
  /\ req.tokens \in Seq(Token)
  /\ \A s \in Slots : \A i \in DOMAIN kv[s] : kv[s][i] \in Rows

(* the first rows are those of the given tokens *)
RowsOf(rows, tokens) ==
  /\ Len(tokens) <= Len(rows)
  /\ \A i \in 1 .. Len(tokens) : rows[i] = SubSeq(tokens, 1, i)

(* Between two requests the KV rows of a slot are those of the prefix the   *)
(* manager lists for it, so a later hit on the slot (dllama-api.cpp:131-136) *)
(* starts from rows of its own tokens.  It relates what updateDeviceSlot    *)
(* recorded to what the forward passes of all requests since left behind.   *)
SlotsHoldTheirPrefix ==
  pc = "idle" => \A s \in Slots : RowsOf(kv[s], cache.deviceSlots[s].prefix)

(* What is on disk under an id are the KV rows of the prefix on disk under  *)
(* that id, at every moment, so a crash never leaves metadata that promises *)
(* rows it does not have (dllama-api.cpp:201-206, 240-246, 270-273).        *)
SavedRowsMatchPrefix ==
  \A id \in StoredIds(db) :
    /\ "kv" \in DOMAIN db.store[id]
    /\ RowsOf(db.store[id]["kv"], db.store[id]["prefix"])

(* An id is given again only to a request that extends what is saved under  *)
(* it (dllama-api.cpp:134, 141): saving never replaces a cached prefix by   *)
(* one that does not start with it, and nothing on disk is lost.            *)
SavedPrefixesOnlyGrow ==
  [][\A id \in StoredIds(db) :
       /\ id \in StoredIds(db')
       /\ \A i \in DOMAIN db.store[id]["prefix"] :
            /\ i \in DOMAIN db'.store[id]["prefix"]
            /\ db'.store[id]["prefix"][i] = db.store[id]["prefix"][i]]_vars

(* Every sampled token was computed from the tokens of this request, all of *)
(* them and no others: the promise of the log line "Prefix cache hit device *)
(* slot" that the matched tokens need no computation                        *)
(* (dllama-api.cpp:131-136, 164).                                           *)
AnswersFromOwnPrompt ==
  pc \in {"predict", "reply"} /\ req.pos > req.promptEnd => logits = Computed

(* The cache does not show: the server implements Completion.               *)
Promise ==
  INSTANCE Completion WITH
    phase    <- IF pc \in {"idle", "down"} THEN "idle" ELSE "busy",
    context  <- req.tokens,
    attended <- IF req.pos > req.promptEnd THEN logits ELSE <<>>

CacheIsTransparent == Promise!CompletionSpec

Busy == pc \in {"scan", "predict", "reply"}

(* A request that entered the handler leaves it (the loops of               *)
(* dllama-api.cpp:167-236 end), if the process does not stop.               *)
RequestsFinish == Busy ~> ~Busy

(* assert(position + execution->batchSize - 1 < header->seqLen): the        *)
(* position of every forward pass is inside the context (app.cpp:186).      *)
PositionInContext ==
  pc = "reply" /\ SavesAnswer => PositionFits

(* assert(meta.prefixLen < NnPrefixCacheMaxLen): what is on disk can be     *)
(* loaded by the next start (rocksdb-cache.cpp:127).                        *)
NextStartLoads == MetadataLoads(db)

=============================================================================
