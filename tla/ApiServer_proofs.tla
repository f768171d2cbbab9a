---------------------------- MODULE ApiServer_proofs --------------------------
(***************************************************************************)
(* Proofs about ApiServer, for every number of tokens, prompts, context     *)
(* lengths, batch sizes and prefix limits.  Three invariants:              *)
(*                                                                         *)
(*   ServerInv  the handler's locals are in range and as far as its pc     *)
(*              says, and the manager's invariant holds under the calls    *)
(*              the handler makes.  It needs no assumption.                *)
(*   IdsInv     a request writes to an id that no other slot is listed     *)
(*              with and whose saved prefix its prompt begins with.  It    *)
(*              needs ClientsStay: a client that goes away while it is     *)
(*              answered leaves an id saved under a longer prefix than the *)
(*              one the slot of that id is listed with.                    *)
(*   RowsInv    the rows in the slot, on disk and in the hand of the       *)
(*              request are those of the tokens listed, saved and          *)
(*              computed.  It needs ClientsStay and OneSlot: the slot of   *)
(*              the execution is set by the scan loop only                 *)
(*              (dllama-api.cpp:178), so with several slots a prompt that  *)
(*              is cached whole would be predicted in the slot of the      *)
(*              request before it.                                         *)
(***************************************************************************)
EXTENDS ApiServer, PrefixCacheManager_proofs, SequenceTheorems

(* The handler, wherever it is                                              *)

Shape ==
  /\ pc \in {"idle", "scan", "predict", "reply", "down"}
  /\ DOMAIN req = DOMAIN NoRequest
  /\ req.slot \in Slots /\ execSlot \in Slots
  /\ req.promptEnd \in Nat /\ req.maxPred \in Nat
  /\ req.start \in Nat /\ req.pos \in Nat
  /\ req.loadFrom \in Nat /\ req.saveTo \in Nat
  /\ req.tokens \in Seq(Token)
  /\ kv \in [Slots -> Seq(Rows)]

Filed(map) ==
  \A id \in DOMAIN map : "kv" \in DOMAIN map[id] => map[id]["kv"] \in Seq(Rows)

Files == Filed(db.store) /\ Filed(db.stage)

(* how far the request is *)
Progress ==
  /\ pc \in {"idle", "down"} => req = NoRequest
  /\ Busy => /\ 0 < req.promptEnd /\ req.promptEnd < req.maxPred
             /\ req.maxPred <= SeqLen
             /\ req.start <= req.promptEnd /\ req.start <= req.pos
             /\ req.saveTo < cache.nextCacheId
  /\ pc = "scan" => req.pos < req.promptEnd /\ Len(req.tokens) = req.promptEnd + 1
  /\ pc = "predict" => req.promptEnd <= req.pos /\ req.pos < req.maxPred
  /\ pc = "reply" => req.promptEnd < req.pos /\ req.pos <= req.maxPred
  /\ pc \in {"predict", "reply"} => Len(req.tokens) = req.pos + 1
  /\ pc = "down" => db = Reopened(db)

ServerInv == ManagerInv /\ Shape /\ Files /\ Progress

(* The ids that are listed, saved and written to                            *)

Begins(s, t) ==
  /\ Len(s) <= Len(t)
  /\ \A i \in 1 .. Len(s) : t[i] = s[i]

Lengths ==
  \A id \in DOMAIN cache.dbMetas :
    Len(cache.dbMetas[id].prefix) <= MaxLen /\ Len(cache.dbMetas[id].prefix) <= SeqLen

ForSlot(k, id) == cache.trie[k].type = "DEVICE_SLOT" /\ cache.trie[k].id = id

(* a slot is listed under the prefix that its id was saved with, unless it  *)
(* is the slot of the request                                               *)
SlotIdsSaved ==
  HasDb /\ pc # "down" =>
    \A k \in DOMAIN cache.trie :
      \A id \in Nat \ {CACHE_SKIP} :
      ForSlot(k, id) =>
        \/ id \in DOMAIN cache.dbMetas /\ cache.dbMetas[id].prefix = k
        \/ Busy /\ id = req.saveTo /\ cache.trie[k].slot = req.slot

(* the request writes to an id that no other slot is listed with and whose  *)
(* prefix its prompt begins with                                            *)
OwnId ==
  HasDb /\ Busy /\ req.saveTo # CACHE_SKIP =>
    /\ \A k \in DOMAIN cache.trie :
         ForSlot(k, req.saveTo) => cache.trie[k].slot = req.slot
    /\ req.saveTo \in DOMAIN cache.dbMetas =>
         Begins(cache.dbMetas[req.saveTo].prefix, SubSeq(req.tokens, 1, req.promptEnd))

IdsInv == Lengths /\ SlotIdsSaved /\ OwnId

(* The rows                                                                 *)

InHand ==
  /\ pc \in {"scan", "predict"} => RowsOf(Loaded(kv[req.slot], LoadNow), Computed)
  /\ pc = "reply" => RowsOf(kv[req.slot], Computed)

NothingStaged == DOMAIN db.stage = {}

RowsInv ==
  NothingStaged /\ SavedRowsMatchPrefix /\ SlotsHoldTheirPrefix /\ InHand
  /\ AnswersFromOwnPrompt

-----------------------------------------------------------------------------
(* The manager, whose methods the handler calls                             *)

(* ManagerInv of any manager and database *)
Agrees(m, d) ==
  /\ ManagerType(m) /\ DbType(d)
  /\ SlotsMatchTrie(m) /\ DbEntriesMatch(m)
  /\ IdsIssued(m, d) /\ LruScoresDistinct(m) /\ MemoryMatchesDisk(m, d)

LEMMA InvIsAgrees == ManagerInv <=> Agrees(cache, db)
BY DEF ManagerInv, Agrees

LEMMA AgreesAfterSlot ==
  ASSUME NEW m, NEW d, Agrees(m, d), NEW s \in Slots, NEW tokens \in Keys,
         NEW id \in Nat, id < m.nextCacheId
  PROVE  Agrees(UpdateDeviceSlot(m, s, tokens, id), d)
<1> DEFINE n == UpdateDeviceSlot(m, s, tokens, id)
<1>1. n.dbMetas = m.dbMetas /\ n.nextCacheId = m.nextCacheId
  BY DEF UpdateDeviceSlot
<1>2. ManagerType(n) /\ SlotsMatchTrie(n) /\ DbEntriesMatch(n) /\ LruScoresDistinct(n)
  BY UpdateDeviceSlotKeeps DEF Agrees
<1>3. IdsIssued(n, d)
  <2>1. ASSUME NEW k \in DOMAIN n.trie
        PROVE  n.trie[k].id < m.nextCacheId
    <3>1. n.trie[k].id = id \/ \E l \in DOMAIN m.trie : n.trie[k].id = m.trie[l].id
      BY TrieIdsAfterSlot
    <3> QED
      BY <3>1 DEF Agrees, IdsIssued, UsedIds
  <2> HIDE DEF n
  <2> QED
    BY <1>1, <2>1 DEF Agrees, IdsIssued, UsedIds
<1> HIDE DEF n
<1>4. DbType(d) /\ MemoryMatchesDisk(n, d)
  BY <1>1 DEF Agrees, MemoryMatchesDisk
<1>5. Agrees(n, d)
  BY <1>2, <1>3, <1>4 DEF Agrees
<1> QED
  BY <1>5 DEF n

LEMMA AgreesAfterRows ==
  ASSUME NEW m, NEW d, Agrees(m, d), NEW id \in Nat \ {0}, id < m.nextCacheId, NEW rows
  PROVE  Agrees(m, Write(d, id, "kv", rows))
<1> DEFINE e == Write(d, id, "kv", rows)
<1>1. e.store = d.store /\ DOMAIN e.stage = DOMAIN d.stage \cup {id}
  BY DEF Write, Put
<1> HIDE DEF e
<1>2. DbType(e)
  BY <1>1 DEF Agrees, DbType
<1>3. MemoryMatchesDisk(m, e)
  BY <1>1 DEF Agrees, MemoryMatchesDisk, LoadMetadata, StoredIds
<1>4. IdsIssued(m, e)
  BY <1>1 DEF Agrees, IdsIssued, UsedIds
<1>5. Agrees(m, e)
  BY <1>2, <1>3, <1>4 DEF Agrees
<1> QED
  BY <1>5 DEF e

LEMMA AgreesAfterMetadata ==
  ASSUME NEW m, NEW d, Agrees(m, d), NEW id \in Nat \ {0}, id < m.nextCacheId,
         NEW tokens \in Keys
  PROVE  Agrees(UpdateMetadata(m, id, tokens), SaveMetadata(d, m, id, tokens))
<1> DEFINE n    == UpdateMetadata(m, id, tokens)
           e    == SaveMetadata(d, m, id, tokens)
           meta == [prefix |-> Key(tokens), lruScore |-> m.nextLruScore]
<1>1. n.dbMetas = Put(m.dbMetas, id, meta) /\ n.nextCacheId = m.nextCacheId
  BY DEF UpdateMetadata
<1>2. ManagerType(n) /\ SlotsMatchTrie(n) /\ DbEntriesMatch(n) /\ LruScoresDistinct(n)
  BY UpdateMetadataKeeps DEF Agrees
<1>3. /\ DbType(e)
      /\ DOMAIN e.store = DOMAIN d.store \cup {id}
      /\ DOMAIN e.stage \subseteq DOMAIN d.stage
      /\ LoadMetadata(e) = Put(LoadMetadata(d), id, meta)
  BY SaveMetadataEffect DEF Agrees, ManagerType
<1>4. ASSUME NEW k \in DOMAIN n.trie
      PROVE  n.trie[k].id < m.nextCacheId
  <2>1. n.trie[k].id = id \/ \E l \in DOMAIN m.trie : n.trie[k].id = m.trie[l].id
    BY TrieIdsAfterMetadata
  <2> QED
    BY <2>1 DEF Agrees, IdsIssued, UsedIds
<1> HIDE DEF n, e, meta
<1>5. MemoryMatchesDisk(n, e)
  BY <1>1, <1>3 DEF Agrees, MemoryMatchesDisk
<1>6. DOMAIN n.dbMetas = DOMAIN m.dbMetas \cup {id}
  BY <1>1 DEF Put
<1>7. IdsIssued(n, e)
  BY <1>1, <1>3, <1>4, <1>6 DEF Agrees, IdsIssued, UsedIds
<1>8. Agrees(n, e)
  BY <1>2, <1>3, <1>5, <1>7 DEF Agrees
<1> QED
  BY <1>8 DEF n, e

(* What saving rows and metadata under an id does to the database.          *)
Saved(d, id, m, rows, pos, tokens) ==
  SaveMetadata(SaveRows(d, id, rows, pos), m, id, tokens)

LEMMA SavedEffect ==
  ASSUME NEW d, NEW id, NEW m, NEW rows, NEW pos, NEW tokens
  PROVE  LET e == Saved(d, id, m, rows, pos, tokens)
         IN  /\ DOMAIN e.store = DOMAIN d.store \cup {id}
             /\ DOMAIN e.stage = DOMAIN d.stage \ {id}
             /\ \A i \in DOMAIN e.stage : e.stage[i] = d.stage[i]
             /\ \A i \in DOMAIN d.store \ {id} : e.store[i] = d.store[i]
             /\ "kv" \in DOMAIN e.store[id]
             /\ e.store[id]["kv"] = SubSeq(rows, 1, pos)
             /\ e.store[id]["prefix"] = Key(tokens)
<1> DEFINE e  == Saved(d, id, m, rows, pos, tokens)
           d1 == Write(d, id, "kv", SubSeq(rows, 1, pos))
           d2 == Write(d1, id, "prefix", Key(tokens))
           d3 == Write(d2, id, "lru", m.nextLruScore)
<1>0. e = Commit(d3, id)
  BY DEF Saved, SaveMetadata, SaveRows
<1>1. /\ d1.store = d.store
      /\ DOMAIN d1.stage = DOMAIN d.stage \cup {id}
      /\ \A i \in DOMAIN d1.stage \ {id} : d1.stage[i] = d.stage[i]
      /\ "kv" \in DOMAIN d1.stage[id] /\ d1.stage[id]["kv"] = SubSeq(rows, 1, pos)
  BY DEF Write, Put
<1>2. /\ d2.store = d1.store
      /\ d2.stage = Put(d1.stage, id, Put(BuffersOf(d1.stage, id), "prefix", Key(tokens)))
  BY DEF Write
<1>3. /\ d3.store = d2.store
      /\ d3.stage = Put(d2.stage, id, Put(BuffersOf(d2.stage, id), "lru", m.nextLruScore))
  BY DEF Write
<1> HIDE DEF d1
<1>4. BuffersOf(d1.stage, id) = d1.stage[id]
  BY <1>1 DEF BuffersOf
<1> HIDE DEF d2
<1>5. /\ DOMAIN d2.stage = DOMAIN d.stage \cup {id}
      /\ \A i \in DOMAIN d2.stage \ {id} : d2.stage[i] = d.stage[i]
      /\ "kv" \in DOMAIN d2.stage[id] /\ d2.stage[id]["kv"] = SubSeq(rows, 1, pos)
      /\ "prefix" \in DOMAIN d2.stage[id] /\ d2.stage[id]["prefix"] = Key(tokens)
  BY <1>1, <1>2, <1>4 DEF Put
<1>6. BuffersOf(d2.stage, id) = d2.stage[id]
  BY <1>5 DEF BuffersOf
<1> HIDE DEF d3
<1>7. /\ DOMAIN d3.stage = DOMAIN d.stage \cup {id}
      /\ \A i \in DOMAIN d3.stage \ {id} : d3.stage[i] = d.stage[i]
      /\ "kv" \in DOMAIN d3.stage[id] /\ d3.stage[id]["kv"] = SubSeq(rows, 1, pos)
      /\ "prefix" \in DOMAIN d3.stage[id] /\ d3.stage[id]["prefix"] = Key(tokens)
  BY <1>3, <1>5, <1>6 DEF Put
<1>8. d3.store = d.store
  BY <1>1, <1>2, <1>3
<1>9. /\ e.stage = Without(d3.stage, id)
      /\ e.store = Put(d.store, id, Overlay(BuffersOf(d.store, id), d3.stage[id]))
  BY <1>0, <1>7, <1>8 DEF Commit
<1> HIDE DEF e
<1>10. /\ DOMAIN e.stage = DOMAIN d.stage \ {id}
       /\ \A i \in DOMAIN e.stage : e.stage[i] = d.stage[i]
  BY <1>7, <1>9 DEF Without
<1>11. /\ DOMAIN e.store = DOMAIN d.store \cup {id}
       /\ \A i \in DOMAIN d.store \ {id} : e.store[i] = d.store[i]
       /\ e.store[id] = Overlay(BuffersOf(d.store, id), d3.stage[id])
  BY <1>9 DEF Put
<1>12. /\ "kv" \in DOMAIN e.store[id] /\ e.store[id]["kv"] = SubSeq(rows, 1, pos)
       /\ e.store[id]["prefix"] = Key(tokens)
  BY <1>7, <1>11 DEF Overlay
<1> QED
  BY <1>10, <1>11, <1>12 DEF e

-----------------------------------------------------------------------------
(* What the handler is told: a slot and a match                             *)

(* Some slot is preferred to all others (nn-cache.cpp:61-74).               *)
LEMMA PickedSlot ==
  ASSUME NEW m, m.deviceSlots \in [Slots -> Described]
  PROVE  PickSlot(m) \in Slots
<1> DEFINE Score(s) == m.deviceSlots[s].lruScore
           Size(s)  == Len(m.deviceSlots[s].prefix)
<1>1. ASSUME NEW s \in Slots PROVE Score(s) \in Nat /\ Size(s) \in Nat /\ s \in Nat
  <2>1. m.deviceSlots[s] \in Described
    OBVIOUS
  <2>2. m.deviceSlots[s].prefix \in Seq(Token) /\ m.deviceSlots[s].lruScore \in Nat
    BY <2>1 DEF Described
  <2> QED
    BY <2>2 DEF Slots
<1>2. \A s, t \in Slots :
        PreferPickThan(m, s, t) <=>
          \/ Score(s) < Score(t)
          \/ Score(s) = Score(t) /\ Size(s) < Size(t)
          \/ Score(s) = Score(t) /\ Size(s) = Size(t) /\ s < t
  BY DEF PreferPickThan
<1>3. 0 \in Slots
  BY ManagerAssumption DEF Slots
<1> HIDE DEF Score, Size
<1>4. PICK a \in {Score(s) : s \in Slots} : \A x \in {Score(s) : s \in Slots} : a <= x
  <2> DEFINE S == {Score(s) : s \in Slots}
  <2>1. S \subseteq Nat /\ S # {}
    BY <1>1, <1>3
  <2> HIDE DEF S
  <2>2. \E n \in S : \A x \in S : n <= x
    BY <2>1, LeastNatural
  <2> QED
    BY <2>2 DEF S
<1> DEFINE Oldest == {s \in Slots : Score(s) = a}
<1>5. PICK b \in {Size(s) : s \in Oldest} : \A x \in {Size(s) : s \in Oldest} : b <= x
  <2> DEFINE S == {Size(s) : s \in Oldest}
  <2>1. S \subseteq Nat /\ S # {}
    BY <1>1, <1>4
  <2> HIDE DEF S
  <2>2. \E n \in S : \A x \in S : n <= x
    BY <2>1, LeastNatural
  <2> QED
    BY <2>2 DEF S
<1> DEFINE Smallest == {s \in Oldest : Size(s) = b}
<1>6. PICK s \in Smallest : \A t \in Smallest : s <= t
  <2>1. Smallest \subseteq Nat /\ Smallest # {}
    BY <1>1, <1>5
  <2> HIDE DEF Smallest
  <2> QED
    BY <2>1, LeastNatural
<1>7. s \in Slots /\ Score(s) = a /\ Size(s) = b
  BY <1>6
<1>8. ASSUME NEW t \in Slots \ {s} PROVE PreferPickThan(m, s, t)
  <2>1. Score(t) \in Nat /\ Size(t) \in Nat /\ t \in Nat
        /\ Score(s) \in Nat /\ Size(s) \in Nat /\ s \in Nat
    BY <1>1, <1>7
  <2>2. Score(s) <= Score(t)
    BY <1>4, <1>7
  <2>3. Score(t) = Score(s) => Size(s) <= Size(t)
    BY <1>5, <1>7
  <2>4. Score(t) = Score(s) /\ Size(t) = Size(s) => s <= t
    BY <1>6, <1>7
  <2> QED
    BY <1>2, <1>7, <2>1, <2>2, <2>3, <2>4
<1> QED
  BY <1>7, <1>8 DEF PickSlot

LEMMA CommonPrefix ==
  ASSUME NEW s \in Seq(Token), NEW t \in Seq(Token)
  PROVE  /\ CommonLen(s, t) \in 0 .. Len(s) /\ CommonLen(s, t) <= Len(t)
         /\ \A i \in 1 .. CommonLen(s, t) : s[i] = t[i]
<1> DEFINE S == {n \in 0 .. Len(s) : n <= Len(t) /\ \A i \in 1 .. n : s[i] = t[i]}
<1>1. S \subseteq Nat /\ 0 \in S /\ \A x \in S : x <= Len(s)
  OBVIOUS
<1>2. CommonLen(s, t) = Max(S)
  BY DEF CommonLen
<1>3. Len(s) \in Nat
  OBVIOUS
<1>4. Max(S) \in S
  <2> HIDE DEF S
  <2> QED
    BY <1>1, <1>3, BoundedSetHasMax
<1> QED
  BY <1>2, <1>4

(* A hit is an entry of the trie that shares its first matchLen tokens with *)
(* the prompt.                                                              *)
Hits(m, tokens, hit, k) ==
  /\ k \in DOMAIN m.trie /\ hit.dst = m.trie[k] /\ hit.prefixLen = Len(k)
  /\ hit.matchLen \in 0 .. Len(tokens) /\ hit.matchLen <= Len(k)
  /\ \A i \in 1 .. hit.matchLen : tokens[i] = k[i]

LEMMA LookupHits ==
  ASSUME NEW m, DOMAIN m.trie \subseteq Keys, NEW tokens \in Seq(Token),
         NEW hit \in Lookup(m, tokens), hit # Miss
  PROVE  \E k : Hits(m, tokens, hit, k)
<1>1. PICK k \in DOMAIN m.trie :
        /\ CommonLen(tokens, k) = LongestMatch(m, tokens)
        /\ hit = [type |-> "HIT", dst |-> m.trie[k], prefixLen |-> Len(k),
                  matchLen |-> LongestMatch(m, tokens)]
  BY DEF Lookup
<1>2. k \in Seq(Token)
  BY DEF Keys
<1>3. /\ hit.dst = m.trie[k] /\ hit.prefixLen = Len(k)
      /\ hit.matchLen = CommonLen(tokens, k)
  BY <1>1
<1> QED
  BY <1>2, <1>3, CommonPrefix DEF Hits

-----------------------------------------------------------------------------
(* Rows of keys and values                                                  *)

LEMMA MaxOfTwo ==
  ASSUME NEW a \in Nat, NEW b \in Nat
  PROVE  Max({a, b}) \in {a, b} /\ a <= Max({a, b}) /\ b <= Max({a, b})
<1> DEFINE S == {a, b}
<1>1. S \subseteq Nat /\ S # {} /\ \A x \in S : x <= a + b
  OBVIOUS
<1>2. a + b \in Nat
  OBVIOUS
<1>3. Max(S) \in S /\ \A x \in S : x <= Max(S)
  <2> HIDE DEF S
  <2> QED
    BY <1>1, <1>2, BoundedSetHasMax
<1> QED
  BY <1>3

LEMMA RowsRead ==
  ASSUME NEW id, Files
  PROVE  ReadRows(db, id) \in Seq(Rows)
BY DEF ReadRows, BuffersOf, EmptyMap, Files, Filed

LEMMA LoadedRows ==
  ASSUME NEW rows \in Seq(Rows), NEW id, Files
  PROVE  Loaded(rows, id) \in Seq(Rows)
<1> DEFINE saved == ReadRows(db, id)
           n     == Max({Len(rows), Len(saved)})
<1>1. saved \in Seq(Rows)
  BY RowsRead
<1>2. Len(rows) \in Nat /\ Len(saved) \in Nat
  BY <1>1
<1>3. n \in Nat /\ (n = Len(rows) \/ n = Len(saved))
  BY <1>2, MaxOfTwo
<1> HIDE DEF n, saved
<1>4. \A i \in 1 .. n : (IF i <= Len(saved) THEN saved[i] ELSE rows[i]) \in Rows
  BY <1>1, <1>2, <1>3
<1> DEFINE both == [i \in 1 .. n |-> IF i <= Len(saved) THEN saved[i] ELSE rows[i]]
<1>5. both \in Seq(Rows)
  BY <1>3, <1>4
<1> QED
  BY <1>5 DEF Loaded, n, saved

(* Rows of the tokens at the front of both.                                 *)
LEMMA LoadedRight ==
  ASSUME NEW rows \in Seq(Rows), NEW id, Files, NEW tokens \in Seq(Token),
         RowsOf(IF id = CACHE_SKIP THEN rows ELSE ReadRows(db, id), tokens)
  PROVE  RowsOf(Loaded(rows, id), tokens)
<1> DEFINE saved == ReadRows(db, id)
           n     == Max({Len(rows), Len(saved)})
           both  == [i \in 1 .. n |-> IF i <= Len(saved) THEN saved[i] ELSE rows[i]]
<1>1. CASE id = CACHE_SKIP
  BY <1>1 DEF Loaded
<1>2. CASE id # CACHE_SKIP
  <2>1. saved \in Seq(Rows)
    BY RowsRead
  <2>2. Len(rows) \in Nat /\ Len(saved) \in Nat /\ Len(tokens) \in Nat
    BY <2>1
  <2>3. n \in Nat /\ Len(saved) <= n
    BY <2>2, MaxOfTwo
  <2>4. Loaded(rows, id) = both
    BY <1>2 DEF Loaded
  <2>5. RowsOf(saved, tokens)
    BY <1>2
  <2> HIDE DEF n, saved
  <2>6. Len(both) = n /\ \A i \in 1 .. Len(tokens) : both[i] = saved[i]
    BY <2>2, <2>3, <2>5 DEF RowsOf
  <2> HIDE DEF both
  <2>7. RowsOf(both, tokens)
    BY <2>2, <2>3, <2>5, <2>6 DEF RowsOf
  <2> QED
    BY <2>4, <2>7
<1> QED
  BY <1>1, <1>2

LEMMA AttendedRow ==
  ASSUME NEW rows \in Seq(Rows), NEW pos \in Nat
  PROVE  Attended(rows, pos) \in Rows
<1>1. <<>> \in Rows /\ Garbage \in Rows
  BY DEF Rows
<1>2. pos > 0 /\ pos <= Len(rows) => rows[pos] \in Rows
  OBVIOUS
<1> QED
  BY <1>1, <1>2 DEF Attended

LEMMA ExtendedRow ==
  ASSUME NEW context \in Rows, NEW tokens \in Seq(Token)
  PROVE  Extended(context, tokens) \in Rows
BY DEF Extended, Rows

(* A forward pass leaves rows, as many as there were or as it reaches.      *)
LEMMA ForwardedRows ==
  ASSUME NEW rows \in Seq(Rows), NEW pos \in Nat, NEW tokens \in Seq(Token)
  PROVE  /\ Forwarded(rows, pos, tokens) \in Seq(Rows)
         /\ pos + Len(tokens) <= Len(Forwarded(rows, pos, tokens))
<1> DEFINE n == Max({Len(rows), pos + Len(tokens)})
           row(i) == IF i \in (pos + 1) .. (pos + Len(tokens))
                     THEN Extended(Attended(rows, pos), SubSeq(tokens, 1, i - pos))
                     ELSE RowAt(rows, i)
<1>1. Len(rows) \in Nat /\ Len(tokens) \in Nat
  OBVIOUS
<1>2. n \in Nat /\ pos + Len(tokens) <= n
  BY <1>1, MaxOfTwo
<1>3. ASSUME NEW i \in 1 .. n PROVE row(i) \in Rows
  <2>1. CASE i \in (pos + 1) .. (pos + Len(tokens))
    <3>1. i - pos \in 1 .. Len(tokens)
      BY <1>1, <1>2, <2>1
    <3>2. SubSeq(tokens, 1, i - pos) \in Seq(Token)
      BY <3>1
    <3> QED
      BY <2>1, <3>2, AttendedRow, ExtendedRow
  <2>2. CASE i \notin (pos + 1) .. (pos + Len(tokens))
    <3>1. RowAt(rows, i) \in Rows
      BY <1>1, <1>2 DEF RowAt, Rows
    <3> QED
      BY <2>2, <3>1
  <2> QED
    BY <2>1, <2>2
<1>4. Forwarded(rows, pos, tokens) = [i \in 1 .. n |-> row(i)]
  BY DEF Forwarded
<1> HIDE DEF n, row
<1>5. [i \in 1 .. n |-> row(i)] \in Seq(Rows) /\ Len([i \in 1 .. n |-> row(i)]) = n
  BY <1>2, <1>3
<1> QED
  BY <1>2, <1>4, <1>5

(* Rows of the first tokens amount to these tokens.                         *)
LEMMA AttendedRight ==
  ASSUME NEW rows \in Seq(Rows), NEW tokens \in Seq(Token),
         NEW pos \in 0 .. Len(tokens), RowsOf(rows, SubSeq(tokens, 1, pos))
  PROVE  Attended(rows, pos) = SubSeq(tokens, 1, pos)
<1> DEFINE first == SubSeq(tokens, 1, pos)
<1>1. first \in Seq(Token) /\ Len(first) = pos
  OBVIOUS
<1>2. CASE pos = 0
  BY <1>1, <1>2 DEF Attended
<1>3. CASE pos > 0
  <2>1. pos <= Len(rows) /\ rows[pos] = SubSeq(first, 1, pos)
    BY <1>1, <1>3 DEF RowsOf
  <2>2. SubSeq(first, 1, pos) = first
    BY <1>1
  <2>3. first # Garbage
    BY <1>1, ServerAssumption
  <2>4. \A i \in 1 .. pos : rows[i] = SubSeq(first, 1, i)
    BY <1>1 DEF RowsOf
  <2> HIDE DEF first
  <2>5. Attended(rows, pos) = rows[pos]
    BY <1>3, <2>1, <2>2, <2>3, <2>4 DEF Attended
  <2>6. Attended(rows, pos) = first
    BY <2>1, <2>2, <2>5
  <2> QED
    BY <2>6 DEF first
<1> QED
  BY <1>2, <1>3

(* The pieces of a sequence put together.                                   *)
LEMMA Joined ==
  ASSUME NEW tokens \in Seq(Token), NEW pos \in 0 .. Len(tokens),
         NEW end \in pos .. Len(tokens)
  PROVE  /\ SubSeq(tokens, 1, pos) \o SubSeq(tokens, pos + 1, end) = SubSeq(tokens, 1, end)
         /\ \A i \in pos .. end :
              SubSeq(SubSeq(tokens, pos + 1, end), 1, i - pos) = SubSeq(tokens, pos + 1, i)
         /\ \A i \in 0 .. end : SubSeq(SubSeq(tokens, 1, end), 1, i) = SubSeq(tokens, 1, i)
<1> DEFINE n == end - pos
           a == SubSeq(tokens, 1, pos)
           b == SubSeq(tokens, pos + 1, end)
<1>1. /\ a \in Seq(Token) /\ Len(a) = pos /\ \A i \in 1 .. pos : a[i] = tokens[i]
      /\ b \in Seq(Token) /\ Len(b) = n /\ \A i \in 1 .. n : b[i] = tokens[pos + i]
  OBVIOUS
<1> HIDE DEF a, b
<1>2. a \o b = SubSeq(tokens, 1, end)
  <2>1. a \o b \in Seq(Token) /\ Len(a \o b) = end
    BY <1>1
  <2>2. SubSeq(tokens, 1, end) \in Seq(Token) /\ Len(SubSeq(tokens, 1, end)) = end
    OBVIOUS
  <2>3. ASSUME NEW i \in 1 .. end PROVE (a \o b)[i] = SubSeq(tokens, 1, end)[i]
    <3>1. (a \o b)[i] = IF i <= pos THEN a[i] ELSE b[i - pos]
      BY <1>1
    <3> QED
      BY <1>1, <3>1
  <2> QED
    BY <2>1, <2>2, <2>3, SeqEqual
<1>3. ASSUME NEW i \in pos .. end PROVE SubSeq(b, 1, i - pos) = SubSeq(tokens, pos + 1, i)
  <2>1. /\ SubSeq(b, 1, i - pos) \in Seq(Token) /\ Len(SubSeq(b, 1, i - pos)) = i - pos
        /\ \A j \in 1 .. i - pos : SubSeq(b, 1, i - pos)[j] = b[j]
    BY <1>1
  <2>2. /\ SubSeq(tokens, pos + 1, i) \in Seq(Token)
        /\ Len(SubSeq(tokens, pos + 1, i)) = i - pos
        /\ \A j \in 1 .. i - pos : SubSeq(tokens, pos + 1, i)[j] = tokens[pos + j]
    OBVIOUS
  <2>3. \A j \in 1 .. i - pos : b[j] = tokens[pos + j]
    BY <1>1
  <2> QED
    BY <2>1, <2>2, <2>3, SeqEqual
<1>4. ASSUME NEW i \in 0 .. end
      PROVE  SubSeq(SubSeq(tokens, 1, end), 1, i) = SubSeq(tokens, 1, i)
  OBVIOUS
<1> QED
  BY <1>2, <1>3, <1>4 DEF a, b

(* A forward pass over the next tokens extends the rows of the tokens       *)
(* before them, and is computed from all of them.                           *)
LEMMA ForwardedRight ==
  ASSUME NEW rows \in Seq(Rows), NEW tokens \in Seq(Token),
         NEW pos \in 0 .. Len(tokens), NEW end \in pos .. Len(tokens),
         RowsOf(rows, SubSeq(tokens, 1, pos))
  PROVE  /\ RowsOf(Forwarded(rows, pos, SubSeq(tokens, pos + 1, end)),
                   SubSeq(tokens, 1, end))
         /\ Extended(Attended(rows, pos), SubSeq(tokens, pos + 1, end))
              = SubSeq(tokens, 1, end)
<1> DEFINE next  == SubSeq(tokens, pos + 1, end)
           first == SubSeq(tokens, 1, pos)
           all   == SubSeq(tokens, 1, end)
           after == Forwarded(rows, pos, next)
           n     == Max({Len(rows), pos + Len(next)})
<1>1. /\ next \in Seq(Token) /\ Len(next) = end - pos
      /\ first \in Seq(Token) /\ Len(first) = pos
      /\ all \in Seq(Token) /\ Len(all) = end
      /\ pos \in Nat /\ end \in Nat /\ pos <= end /\ Len(rows) \in Nat
  OBVIOUS
<1>2. Attended(rows, pos) = first /\ first # Garbage
  BY <1>1, AttendedRight, ServerAssumption
<1>3. first \o next = all
  BY Joined
<1>4. Extended(first, next) = all
  BY <1>2, <1>3 DEF Extended
<1>5. n \in Nat /\ end <= n
  BY <1>1, MaxOfTwo
<1>6. \A i \in pos .. end : SubSeq(next, 1, i - pos) = SubSeq(tokens, pos + 1, i)
  BY Joined
<1>7. \A i \in 0 .. end : SubSeq(all, 1, i) = SubSeq(tokens, 1, i)
  BY Joined
<1>8. \A i \in 0 .. pos : SubSeq(first, 1, i) = SubSeq(tokens, 1, i)
  BY <1>1, Joined
<1>9. pos <= Len(rows) /\ \A i \in 1 .. pos : rows[i] = SubSeq(first, 1, i)
  BY <1>1 DEF RowsOf
<1>10. after \in Seq(Rows) /\ end <= Len(after)
  <2>1. pos + Len(next) = end
    BY <1>1
  <2>2. next \in Seq(Token) /\ pos \in Nat
    BY <1>1
  <2> HIDE DEF next
  <2>3. after \in Seq(Rows) /\ pos + Len(next) <= Len(after)
    BY <2>2, ForwardedRows
  <2> QED
    BY <2>1, <2>3
<1>11. \A i \in 1 .. n : after[i] = IF i \in (pos + 1) .. (pos + Len(next))
                           THEN Extended(Attended(rows, pos), SubSeq(next, 1, i - pos))
                           ELSE RowAt(rows, i)
  BY DEF Forwarded
<1>12. ASSUME NEW i \in (pos + 1) .. end
       PROVE  SubSeq(tokens, 1, pos) \o SubSeq(tokens, pos + 1, i) = SubSeq(tokens, 1, i)
  <2>1. i \in pos .. Len(tokens)
    BY <1>1
  <2> QED
    BY <2>1, Joined
<1> HIDE DEF after, n
<1>13. ASSUME NEW i \in 1 .. end PROVE after[i] = SubSeq(all, 1, i)
  <2>1. SubSeq(all, 1, i) = SubSeq(tokens, 1, i)
    BY <1>1, <1>7
  <2>2. CASE i \in (pos + 1) .. end
    <3>1. SubSeq(next, 1, i - pos) = SubSeq(tokens, pos + 1, i)
      BY <1>1, <1>6, <2>2
    <3>2. after[i] = Extended(first, SubSeq(tokens, pos + 1, i))
      <4>1. i \in (pos + 1) .. (pos + Len(next)) /\ i \in 1 .. n
        BY <1>1, <1>5, <2>2
      <4> HIDE DEF next, first
      <4> QED
        BY <1>2, <1>11, <3>1, <4>1
    <3>3. Extended(first, SubSeq(tokens, pos + 1, i))
            = first \o SubSeq(tokens, pos + 1, i)
      BY <1>2 DEF Extended
    <3>4. first \o SubSeq(tokens, pos + 1, i) = SubSeq(tokens, 1, i)
      BY <1>12, <2>2
    <3> HIDE DEF next, first, all
    <3> QED
      BY <2>1, <3>2, <3>3, <3>4
  <2>3. CASE i \in 1 .. pos
    <3>1. after[i] = rows[i]
      <4>1. i \notin (pos + 1) .. (pos + Len(next)) /\ i \in 1 .. n /\ i <= Len(rows)
        BY <1>1, <1>5, <1>9, <2>3
      <4> HIDE DEF next
      <4> QED
        BY <1>11, <4>1 DEF RowAt
    <3>2. SubSeq(first, 1, i) = SubSeq(tokens, 1, i)
      BY <1>1, <1>8, <2>3
    <3> HIDE DEF first, all
    <3> QED
      BY <1>9, <2>1, <2>3, <3>1, <3>2
  <2> QED
    BY <1>1, <2>2, <2>3
<1>14. RowsOf(after, all)
  <2> HIDE DEF all
  <2> QED
    BY <1>1, <1>10, <1>13 DEF RowsOf
<1> QED
  BY <1>2, <1>4, <1>14 DEF after

(* Rows of tokens are rows of what the tokens begin with.                   *)
LEMMA RowsOfBeginning ==
  ASSUME NEW rows \in Seq(Rows), NEW tokens \in Seq(Token), NEW front \in Seq(Token),
         RowsOf(rows, tokens), Begins(front, tokens)
  PROVE  RowsOf(rows, front)
<1>1. Len(front) <= Len(tokens) /\ Len(tokens) <= Len(rows)
      /\ Len(front) \in Nat /\ Len(tokens) \in Nat /\ Len(rows) \in Nat
  BY DEF RowsOf, Begins
<1>2. ASSUME NEW i \in 1 .. Len(front) PROVE rows[i] = SubSeq(front, 1, i)
  <2>1. rows[i] = SubSeq(tokens, 1, i)
    BY <1>1 DEF RowsOf
  <2>2. /\ SubSeq(tokens, 1, i) \in Seq(Token) /\ Len(SubSeq(tokens, 1, i)) = i
        /\ SubSeq(front, 1, i) \in Seq(Token) /\ Len(SubSeq(front, 1, i)) = i
    BY <1>1
  <2>3. \A j \in 1 .. i : SubSeq(tokens, 1, i)[j] = SubSeq(front, 1, i)[j]
    BY <1>1 DEF Begins
  <2> QED
    BY <2>1, <2>2, <2>3, SeqEqual
<1> QED
  BY <1>1, <1>2 DEF RowsOf

LEMMA RowsOfFront ==
  ASSUME NEW rows \in Seq(Rows), NEW tokens \in Seq(Token), RowsOf(rows, tokens)
  PROVE  /\ SubSeq(rows, 1, Len(tokens)) \in Seq(Rows)
         /\ RowsOf(SubSeq(rows, 1, Len(tokens)), tokens)
<1>1. Len(tokens) <= Len(rows) /\ Len(tokens) \in Nat /\ Len(rows) \in Nat
  BY DEF RowsOf
<1>2. /\ SubSeq(rows, 1, Len(tokens)) \in Seq(Rows)
      /\ Len(SubSeq(rows, 1, Len(tokens))) = Len(tokens)
      /\ \A i \in 1 .. Len(tokens) : SubSeq(rows, 1, Len(tokens))[i] = rows[i]
  BY <1>1
<1> QED
  BY <1>1, <1>2 DEF RowsOf

(* A key begins like its tokens, and with all that is short enough.         *)
LEMMA KeyBegins ==
  ASSUME NEW tokens \in Keys
  PROVE  /\ Key(tokens) \in Keys /\ Begins(Key(tokens), tokens)
         /\ Len(Key(tokens)) <= MaxLen /\ Len(Key(tokens)) <= Len(tokens)
         /\ \A front \in Seq(Token) : Begins(front, tokens) /\ Len(front) <= MaxLen
                                        => Begins(front, Key(tokens))
<1>1. tokens \in Seq(Token) /\ MaxLen \in Nat /\ Len(tokens) \in Nat
  BY MaxLenAssumption DEF Keys
<1>2. Key(tokens) \in Keys
  BY KeyIsKey
<1>3. CASE Len(tokens) >= MaxLen
  <2>1. /\ Key(tokens) = SubSeq(tokens, 1, MaxLen) /\ Len(Key(tokens)) = MaxLen
        /\ \A i \in 1 .. MaxLen : Key(tokens)[i] = tokens[i]
    BY <1>1, <1>3 DEF Key
  <2> QED
    BY <1>1, <1>2, <1>3, <2>1 DEF Begins
<1>4. CASE ~(Len(tokens) >= MaxLen)
  <2>1. Key(tokens) = tokens
    BY <1>4 DEF Key
  <2> QED
    BY <1>1, <1>2, <1>4, <2>1 DEF Begins
<1> QED
  BY <1>3, <1>4

-----------------------------------------------------------------------------
(* The handler keeps its shape and the manager its invariant, whoever goes  *)
(* away at whatever point                                                   *)

LEMMA ServerStarts == ServerInit => ServerInv
<1> SUFFICES ASSUME ServerInit PROVE ServerInv
  OBVIOUS
<1>1. ManagerInv
  BY InitEstablishes DEF ServerInit
<1>2. /\ db = EmptyDb /\ pc = "idle" /\ req = NoRequest
      /\ kv = [s \in Slots |-> <<>>] /\ execSlot = 0
  BY DEF ServerInit, ManagerInit
<1>3. 0 \in Slots
  BY ManagerAssumption DEF Slots
<1>4. Shape
  <2>1. kv \in [Slots -> Seq(Rows)]
    BY <1>2
  <2> QED
    BY <1>2, <1>3, <2>1 DEF Shape, NoRequest, CACHE_SKIP
<1>5. Files
  BY <1>2 DEF Files, Filed, EmptyDb, EmptyMap
<1>6. Progress
  BY <1>2 DEF Progress, Busy
<1> QED
  BY <1>1, <1>4, <1>5, <1>6 DEF ServerInv

(* What the handler makes of a match (dllama-api.cpp:118-152).              *)
Plans(prompt, hit, plan) ==
  /\ plan.promptEnd = Len(prompt) - 1 /\ plan.promptEnd \in Nat \ {0}
  /\ plan.maxPred \in Nat /\ plan.promptEnd < plan.maxPred /\ plan.maxPred <= SeqLen
  /\ plan.slot \in Slots
  /\ plan.start \in 0 .. plan.promptEnd /\ plan.pos = plan.start
  /\ plan.loadFrom \in Nat /\ plan.saveTo \in Nat
  /\ plan.tokens = prompt
  /\ hit = Miss => plan.start = 0 /\ plan.reused = CACHE_SKIP /\ plan.loadFrom = CACHE_SKIP
  /\ hit # Miss =>
       /\ plan.start = hit.matchLen
       /\ plan.reused = IF hit.matchLen = hit.prefixLen THEN hit.dst.id ELSE CACHE_SKIP
       /\ hit.dst.type = "DEVICE_SLOT" => plan.slot = hit.dst.slot /\ plan.loadFrom = CACHE_SKIP
       /\ hit.dst.type = "DB" => plan.loadFrom = hit.dst.id
  /\ plan.saveTo = IF plan.reused = CACHE_SKIP THEN NextCacheId(cache) ELSE plan.reused

LEMMA PromptFits ==
  ASSUME NEW prompt \in Prompts
  PROVE  /\ prompt \in Seq(Token) /\ prompt \in Keys
         /\ Len(prompt) \in 2 .. SeqLen /\ SeqLen \in Nat
         /\ SubSeq(prompt, 1, Len(prompt) - 1) \in Seq(Token)
         /\ Len(SubSeq(prompt, 1, Len(prompt) - 1)) = Len(prompt) - 1
<1>1. prompt \in Seq(Token) /\ prompt # <<>> /\ Len(prompt) \in 2 .. SeqLen /\ SeqLen \in Nat
  BY ManagerAssumption, ServerAssumption
<1> QED
  BY <1>1 DEF Keys

LEMMA PlanIsRight ==
  ASSUME ServerInv, NEW prompt \in Prompts, NEW maxTokens \in MaxTokens,
         NEW hit \in Lookup(cache, SubSeq(prompt, 1, Len(prompt) - 1))
  PROVE  Plans(prompt, hit, Planned(prompt, maxTokens, hit))
<1> DEFINE plan  == Planned(prompt, maxTokens, hit)
           known == SubSeq(prompt, 1, Len(prompt) - 1)
           slotHit == hit # Miss /\ hit.dst.type = "DEVICE_SLOT"
           dbHit   == hit # Miss /\ hit.dst.type = "DB"
           reused  == IF WholeHit(hit) THEN hit.dst.id ELSE CACHE_SKIP
<1>1. /\ prompt \in Seq(Token) /\ Len(prompt) \in 2 .. SeqLen /\ SeqLen \in Nat
      /\ known \in Seq(Token) /\ Len(known) = Len(prompt) - 1
  BY PromptFits
<1>2. /\ ManagerType(cache) /\ cache.nextCacheId \in Nat
      /\ cache.deviceSlots \in [Slots -> Described] /\ DOMAIN cache.trie \subseteq Keys
  BY DEF ServerInv, ManagerInv, ManagerType
<1> HIDE DEF known
<1>3. ASSUME hit # Miss
      PROVE  /\ hit.matchLen \in 0 .. Len(prompt) - 1
             /\ hit.dst \in Dsts
             /\ hit.dst.type \in {"DEVICE_SLOT", "DB"} /\ hit.dst.id \in Nat
             /\ hit.dst.type = "DEVICE_SLOT" => hit.dst.slot \in Slots
  <2>1. PICK k : Hits(cache, known, hit, k)
    BY <1>1, <1>2, <1>3, LookupHits DEF known
  <2>2. hit.matchLen \in 0 .. Len(prompt) - 1 /\ hit.dst \in Dsts
    BY <1>1, <1>2, <2>1 DEF Hits, ManagerType
  <2> QED
    BY <2>2 DEF Dsts
<1>4. PickSlot(cache) \in Slots
  BY <1>2, PickedSlot
<1>5. reused \in Nat
  BY <1>3 DEF WholeHit, CACHE_SKIP
<1>6. /\ plan.promptEnd = Len(prompt) - 1
      /\ plan.maxPred = IF maxTokens > 0 THEN Smaller(Len(prompt) + maxTokens, SeqLen)
                        ELSE SeqLen
      /\ plan.slot = IF slotHit THEN hit.dst.slot ELSE PickSlot(cache)
      /\ plan.start = IF hit = Miss THEN 0 ELSE hit.matchLen
      /\ plan.pos = IF hit = Miss THEN 0 ELSE hit.matchLen
      /\ plan.loadFrom = IF dbHit THEN hit.dst.id ELSE CACHE_SKIP
      /\ plan.saveTo = IF reused = CACHE_SKIP THEN NextCacheId(cache) ELSE reused
      /\ plan.reused = reused
      /\ plan.tokens = prompt
  BY DEF Planned
<1> HIDE DEF plan
<1>7. /\ plan.maxPred \in Nat /\ plan.promptEnd < plan.maxPred /\ plan.maxPred <= SeqLen
      /\ plan.promptEnd \in Nat \ {0}
  <2>1. maxTokens \in Nat
    BY ServerAssumption
  <2> QED
    BY <1>1, <1>6, <2>1 DEF Smaller
<1>8. plan.slot \in Slots
  BY <1>3, <1>4, <1>6
<1>9. plan.start \in 0 .. plan.promptEnd /\ plan.pos = plan.start
  BY <1>1, <1>3, <1>6
<1>10. plan.loadFrom \in Nat /\ plan.saveTo \in Nat
  BY <1>2, <1>3, <1>5, <1>6 DEF CACHE_SKIP, NextCacheId
<1>11. hit = Miss => plan.start = 0 /\ plan.reused = CACHE_SKIP /\ plan.loadFrom = CACHE_SKIP
  BY <1>6 DEF WholeHit
<1>12. ASSUME hit # Miss
       PROVE  /\ plan.start = hit.matchLen
              /\ plan.reused = IF hit.matchLen = hit.prefixLen THEN hit.dst.id ELSE CACHE_SKIP
              /\ hit.dst.type = "DEVICE_SLOT"
                   => plan.slot = hit.dst.slot /\ plan.loadFrom = CACHE_SKIP
              /\ hit.dst.type = "DB" => plan.loadFrom = hit.dst.id
  BY <1>6, <1>12 DEF WholeHit
<1>13. plan.saveTo = IF plan.reused = CACHE_SKIP THEN NextCacheId(cache) ELSE plan.reused
  BY <1>6
<1>14. Plans(prompt, hit, plan)
  BY <1>6, <1>7, <1>8, <1>9, <1>10, <1>11, <1>12, <1>13 DEF Plans
<1> QED
  BY <1>14 DEF plan

(* An id is taken, or none; nothing else of the manager changes.            *)
LEMMA IdTaken ==
  ASSUME ManagerInv, UNCHANGED db, NEW takes \in BOOLEAN,
         cache' = IF takes THEN TakeCacheId(cache) ELSE cache
  PROVE  /\ ManagerInv'
         /\ cache'.trie = cache.trie /\ cache'.deviceSlots = cache.deviceSlots
         /\ cache'.dbMetas = cache.dbMetas
         /\ cache'.nextCacheId \in Nat /\ cache.nextCacheId <= cache'.nextCacheId
         /\ takes => NextCacheId(cache) < cache'.nextCacheId
<1>1. /\ cache'.trie = cache.trie /\ cache'.deviceSlots = cache.deviceSlots
      /\ cache'.dbMetas = cache.dbMetas /\ cache'.nextLruScore = cache.nextLruScore
      /\ cache'.nextCacheId = IF takes /\ HasDb THEN cache.nextCacheId + 1
                              ELSE cache.nextCacheId
  BY DEF TakeCacheId
<1>2. cache.nextCacheId \in Nat \ {0}
  BY DEF ManagerInv, ManagerType
<1>3. CASE takes /\ HasDb
  <2>1. GetCacheId
    BY <1>3 DEF GetCacheId
  <2>2. ManagerInv'
    BY <2>1, GetCacheIdKeeps
  <2> QED
    BY <1>1, <1>2, <1>3, <2>2 DEF NextCacheId
<1>4. CASE ~(takes /\ HasDb)
  <2>1. cache'.nextCacheId = cache.nextCacheId
    BY <1>1, <1>4
  <2>2. ManagerInv'
    BY <1>1, <2>1 DEF ManagerInv, ManagerType, SlotsMatchTrie, DbEntriesMatch, IdsIssued,
                      UsedIds, LruScoresDistinct, MemoryMatchesDisk
  <2> QED
    BY <1>1, <1>2, <1>4, <2>1, <2>2 DEF NextCacheId, CACHE_SKIP
<1> QED
  BY <1>3, <1>4

(* A request enters the handler with its plan.                              *)
Enters(plan) ==
  /\ DOMAIN req' = DOMAIN NoRequest
  /\ req'.promptEnd = plan.promptEnd /\ req'.maxPred = plan.maxPred
  /\ req'.slot = plan.slot /\ req'.start = plan.start /\ req'.pos = plan.pos
  /\ req'.loadFrom = plan.loadFrom /\ req'.saveTo = plan.saveTo
  /\ req'.tokens = plan.tokens
  /\ pc' = IF plan.start < plan.promptEnd THEN "scan" ELSE "predict"

LEMMA Begun ==
  ASSUME ServerInv, NEW prompt \in Prompts, NEW maxTokens \in MaxTokens,
         Begin(prompt, maxTokens)
  PROVE  \E hit \in Lookup(cache, SubSeq(prompt, 1, Len(prompt) - 1)) : \E plan :
           /\ Plans(prompt, hit, plan)
           /\ cache' = IF plan.reused = CACHE_SKIP THEN TakeCacheId(cache) ELSE cache
           /\ Enters(plan) \/ ("prompt" \in Disconnects /\ UNCHANGED <<req, pc>>)
<1> DEFINE hits == Lookup(cache, SubSeq(prompt, 1, Len(prompt) - 1))
<1>1. PICK hit \in hits :
        /\ cache' = IF Planned(prompt, maxTokens, hit).reused = CACHE_SKIP
                    THEN TakeCacheId(cache) ELSE cache
        /\ \/ /\ req' = [f \in DOMAIN NoRequest |-> Planned(prompt, maxTokens, hit)[f]]
              /\ pc' = IF Planned(prompt, maxTokens, hit).start
                            < Planned(prompt, maxTokens, hit).promptEnd
                       THEN "scan" ELSE "predict"
           \/ "prompt" \in Disconnects /\ UNCHANGED <<req, pc>>
  BY DEF Begin
<1>2. Plans(prompt, hit, Planned(prompt, maxTokens, hit))
  BY PlanIsRight
<1> DEFINE plan == Planned(prompt, maxTokens, hit)
<1> HIDE DEF plan
<1>3. ASSUME /\ req' = [f \in DOMAIN NoRequest |-> plan[f]]
             /\ pc' = IF plan.start < plan.promptEnd THEN "scan" ELSE "predict"
      PROVE  Enters(plan)
  <2>1. DOMAIN NoRequest = {"promptEnd", "maxPred", "slot", "start", "pos",
                            "loadFrom", "saveTo", "tokens"}
    BY DEF NoRequest
  <2>2. DOMAIN req' = DOMAIN NoRequest
    BY <1>3
  <2>3. \A f \in DOMAIN NoRequest : req'[f] = plan[f]
    BY <1>3
  <2> QED
    BY <1>3, <2>1, <2>2, <2>3 DEF Enters
<1> QED
  BY <1>1, <1>2, <1>3 DEF plan

LEMMA BeginKeeps ==
  ASSUME ServerInv, NEW prompt \in Prompts, NEW maxTokens \in MaxTokens,
         Begin(prompt, maxTokens)
  PROVE  ServerInv'
<1>1. /\ pc = "idle" /\ req = NoRequest
      /\ UNCHANGED <<db, kv, execSlot>>
  BY DEF Begin, ServerInv, Progress
<1>2. ManagerInv /\ Shape /\ Files
  BY DEF ServerInv
<1> DEFINE known == SubSeq(prompt, 1, Len(prompt) - 1)
<1>3. PICK hit \in Lookup(cache, known) : \E plan :
           /\ Plans(prompt, hit, plan)
           /\ cache' = IF plan.reused = CACHE_SKIP THEN TakeCacheId(cache) ELSE cache
           /\ Enters(plan) \/ ("prompt" \in Disconnects /\ UNCHANGED <<req, pc>>)
  BY Begun
<1>0. PICK plan :
           /\ Plans(prompt, hit, plan)
           /\ cache' = IF plan.reused = CACHE_SKIP THEN TakeCacheId(cache) ELSE cache
           /\ Enters(plan) \/ ("prompt" \in Disconnects /\ UNCHANGED <<req, pc>>)
  BY <1>3
<1>4. /\ prompt \in Seq(Token) /\ Len(prompt) \in 2 .. SeqLen
      /\ known \in Seq(Token)
  BY PromptFits
<1> HIDE DEF known
<1> DEFINE takes == plan.reused = CACHE_SKIP
<1>5. takes \in BOOLEAN /\ cache' = IF takes THEN TakeCacheId(cache) ELSE cache
  BY <1>0
<1> HIDE DEF takes
<1>6. /\ ManagerInv' /\ cache'.nextCacheId \in Nat
      /\ cache.nextCacheId <= cache'.nextCacheId
      /\ takes => NextCacheId(cache) < cache'.nextCacheId
  BY <1>1, <1>2, <1>5, IdTaken
<1>7. Files'
  BY <1>1, <1>2 DEF Files, Filed
<1>8. CASE UNCHANGED <<req, pc>>
  <2>1. Shape'
    BY <1>1, <1>2, <1>8 DEF Shape
  <2>2. Progress'
    BY <1>1, <1>8 DEF Progress, Busy
  <2> QED
    BY <1>6, <1>7, <2>1, <2>2 DEF ServerInv
<1>9. CASE Enters(plan)
  <2>1. plan.saveTo < cache'.nextCacheId
    <3>1. CASE takes
      BY <1>0, <1>6, <3>1 DEF Plans, takes
    <3>2. CASE ~takes
      <4>1. /\ plan.reused = hit.dst.id /\ plan.saveTo = hit.dst.id /\ hit # Miss
            /\ plan.saveTo \in Nat
        BY <1>0, <3>2 DEF Plans, takes
      <4>2. DOMAIN cache.trie \subseteq Keys /\ cache.nextCacheId \in Nat
        BY <1>2 DEF ManagerInv, ManagerType
      <4>3. PICK k : Hits(cache, known, hit, k)
        BY <1>0, <1>4, <4>1, <4>2, LookupHits
      <4>4. hit.dst.id < cache.nextCacheId
        BY <1>2, <4>3 DEF Hits, ManagerInv, IdsIssued, UsedIds
      <4> QED
        BY <1>6, <4>1, <4>2, <4>4
    <3> QED
      BY <3>1, <3>2
  <2>2. Shape'
    <3>1. kv' \in [Slots -> Seq(Rows)] /\ execSlot' \in Slots
      BY <1>1, <1>2 DEF Shape
    <3>2. /\ plan.promptEnd \in Nat /\ plan.maxPred \in Nat /\ plan.start \in Nat
          /\ plan.pos \in Nat /\ plan.loadFrom \in Nat /\ plan.saveTo \in Nat
          /\ plan.slot \in Slots /\ plan.tokens \in Seq(Token)
      BY <1>0, <1>4 DEF Plans
    <3> QED
      BY <1>9, <3>1, <3>2 DEF Shape, Enters
  <2>3. Progress'
    BY <1>0, <1>4, <1>9, <2>1 DEF Progress, Busy, Enters, Plans
  <2> QED
    BY <1>6, <1>7, <2>2, <2>3 DEF ServerInv
<1> QED
  BY <1>0, <1>8, <1>9

(* The numbers of a batch (dllama-api.cpp:167-186).                         *)
LEMMA BatchFits ==
  ASSUME Shape, Progress, pc = "scan"
  PROVE  /\ BatchSize \in Nat \ {0} /\ req.pos + BatchSize <= req.promptEnd
         /\ req.pos \in 0 .. Len(req.tokens)
         /\ req.pos + BatchSize \in req.pos .. Len(req.tokens)
         /\ Len(req.tokens) = req.promptEnd + 1
         /\ req.pos + BatchSize <= Len(req.tokens) - 1
<1>1. /\ req.pos < req.promptEnd /\ Len(req.tokens) = req.promptEnd + 1
      /\ req.pos \in Nat /\ req.promptEnd \in Nat
  BY DEF Shape, Progress
<1>2. NBatches \in Nat \ {0}
  BY ServerAssumption
<1>3. BatchSize \in Nat \ {0} /\ BatchSize <= req.promptEnd - req.pos
  BY <1>1, <1>2 DEF BatchSize, Smaller
<1> QED
  BY <1>1, <1>3

LEMMA ScanKeeps == ServerInv /\ Scan => ServerInv'
<1> SUFFICES ASSUME ServerInv, Scan PROVE ServerInv'
  OBVIOUS
<1>1. ManagerInv /\ Shape /\ Files /\ Progress /\ pc = "scan"
  BY DEF ServerInv, Scan
<1> DEFINE rows   == Loaded(kv[req.slot], LoadNow)
           tokens == SubSeq(req.tokens, req.pos + 1, req.pos + BatchSize)
           after  == Forwarded(rows, req.pos, tokens)
<1>2. /\ kv' = [kv EXCEPT ![req.slot] = after]
      /\ execSlot' = req.slot
      /\ req' = [req EXCEPT !.pos = @ + BatchSize]
      /\ pc' = IF req.pos + BatchSize < req.promptEnd THEN "scan" ELSE "predict"
      /\ UNCHANGED <<cache, db>>
  BY DEF Scan
<1>3. /\ BatchSize \in Nat \ {0} /\ req.pos + BatchSize <= req.promptEnd
      /\ req.pos \in Nat /\ req.slot \in Slots
  BY <1>1, BatchFits DEF Shape
<1>4. after \in Seq(Rows)
  <2>1. kv[req.slot] \in Seq(Rows)
    BY <1>1 DEF Shape
  <2>2. rows \in Seq(Rows)
    BY <1>1, <2>1, LoadedRows
  <2>3. tokens \in Seq(Token)
    BY <1>1, BatchFits DEF Shape
  <2> HIDE DEF rows, tokens
  <2> QED
    BY <1>3, <2>2, <2>3, ForwardedRows
<1> HIDE DEF after
<1>5. /\ DOMAIN req' = DOMAIN NoRequest /\ req'.pos = req.pos + BatchSize
      /\ \A f \in DOMAIN NoRequest \ {"pos"} : req'[f] = req[f]
  BY <1>1, <1>2 DEF Shape, NoRequest
<1>6. /\ req'.promptEnd = req.promptEnd /\ req'.maxPred = req.maxPred
      /\ req'.slot = req.slot /\ req'.start = req.start
      /\ req'.loadFrom = req.loadFrom /\ req'.saveTo = req.saveTo
      /\ req'.tokens = req.tokens
  BY <1>5 DEF NoRequest
<1>7. Shape'
  <2>1. kv' \in [Slots -> Seq(Rows)]
    BY <1>1, <1>2, <1>4 DEF Shape
  <2> QED
    BY <1>1, <1>2, <1>3, <1>5, <1>6, <2>1 DEF Shape
<1>8. Progress'
  <2>1. /\ 0 < req.promptEnd /\ req.promptEnd < req.maxPred /\ req.maxPred <= SeqLen
        /\ req.start <= req.promptEnd /\ req.start <= req.pos
        /\ req.saveTo < cache.nextCacheId
        /\ Len(req.tokens) = req.promptEnd + 1
    BY <1>1 DEF Progress, Busy
  <2>2. req.promptEnd \in Nat /\ req.maxPred \in Nat /\ req.start \in Nat
    BY <1>1 DEF Shape
  <2>3. req'.start <= req'.pos /\ req'.promptEnd < req'.maxPred
    BY <1>3, <1>5, <1>6, <2>1, <2>2
  <2>4. CASE req.pos + BatchSize < req.promptEnd
    <3>1. pc' = "scan"
      BY <1>2, <2>4
    <3> QED
      BY <1>2, <1>5, <1>6, <2>1, <2>3, <2>4, <3>1 DEF Progress, Busy
  <2>5. CASE ~(req.pos + BatchSize < req.promptEnd)
    <3>1. pc' = "predict" /\ req.pos + BatchSize = req.promptEnd
      BY <1>2, <1>3, <2>2, <2>5
    <3>2. /\ req'.promptEnd <= req'.pos /\ req'.pos < req'.maxPred
          /\ Len(req'.tokens) = req'.pos + 1
      BY <1>5, <1>6, <2>1, <2>2, <3>1
    <3> QED
      BY <1>2, <1>6, <2>1, <2>3, <3>1, <3>2 DEF Progress, Busy
  <2> QED
    BY <2>4, <2>5
<1>9. ManagerInv' /\ Files'
  BY <1>1, <1>2 DEF ManagerInv, Files, Filed
<1> QED
  BY <1>7, <1>8, <1>9 DEF ServerInv

(* What is computed so far: pos tokens, in any state of a request.          *)
LEMMA ComputedTokens ==
  ASSUME Shape, Progress, Busy
  PROVE  /\ Computed \in Seq(Token) /\ Len(Computed) = req.pos
         /\ req.pos \in 0 .. Len(req.tokens) /\ req.pos < Len(req.tokens)
         /\ req.pos <= SeqLen
<1>1. req.pos \in Nat /\ req.tokens \in Seq(Token) /\ Len(req.tokens) \in Nat
      /\ req.promptEnd \in Nat /\ req.maxPred \in Nat /\ SeqLen \in Nat
  BY ServerAssumption DEF Shape
<1>2. /\ req.pos < req.maxPred \/ req.pos <= req.maxPred
      /\ req.maxPred <= SeqLen /\ req.pos < Len(req.tokens)
  BY <1>1 DEF Progress, Busy
<1> QED
  BY <1>1, <1>2 DEF Computed

(* Rows and metadata are saved under an id of the request: files keep their *)
(* shape, manager and database agree.                                       *)
LEMMA SavedKeeps ==
  ASSUME Files, NEW m, Agrees(m, db), NEW id \in Nat \ {0}, id < m.nextCacheId,
         NEW rows \in Seq(Rows), NEW tokens \in Keys, Len(tokens) <= Len(rows)
  PROVE  LET e == Saved(db, id, m, rows, Len(tokens), tokens)
         IN  Agrees(UpdateMetadata(m, id, tokens), e) /\ Filed(e.store) /\ Filed(e.stage)
<1> DEFINE e == Saved(db, id, m, rows, Len(tokens), tokens)
           d == SaveRows(db, id, rows, Len(tokens))
<1>1. Agrees(m, d)
  BY AgreesAfterRows DEF SaveRows
<1>2. e = SaveMetadata(d, m, id, tokens)
  BY DEF Saved
<1> HIDE DEF d
<1>3. Agrees(UpdateMetadata(m, id, tokens), e)
  BY <1>1, <1>2, AgreesAfterMetadata
<1>4. SubSeq(rows, 1, Len(tokens)) \in Seq(Rows)
  BY DEF Keys
<1>5. /\ DOMAIN e.store = DOMAIN db.store \cup {id}
      /\ DOMAIN e.stage = DOMAIN db.stage \ {id}
      /\ \A i \in DOMAIN e.stage : e.stage[i] = db.stage[i]
      /\ \A i \in DOMAIN db.store \ {id} : e.store[i] = db.store[i]
      /\ e.store[id]["kv"] = SubSeq(rows, 1, Len(tokens))
  BY SavedEffect
<1> HIDE DEF e
<1>6. Filed(e.store) /\ Filed(e.stage)
  BY <1>4, <1>5 DEF Files, Filed
<1> QED
  BY <1>3, <1>6 DEF e

LEMMA PredictKeeps ==
  ASSUME ServerInv, NEW token \in Token, NEW eos \in BOOLEAN, Predict(token, eos)
  PROVE  ServerInv'
<1>1. ManagerInv /\ Shape /\ Files /\ Progress /\ pc = "predict" /\ Busy
  BY DEF ServerInv, Predict, Busy
<1> DEFINE rows  == Loaded(kv[execSlot], LoadNow)
           after == Forwarded(rows, req.pos, <<NextToken>>)
<1>2. /\ \/ /\ req' = [req EXCEPT !.pos = @ + 1, !.tokens = Append(@, token)]
            /\ pc' = IF Ends(eos) THEN "reply" ELSE "predict"
         \/ "stream" \in Disconnects /\ req' = NoRequest /\ pc' = "idle"
      /\ kv' = [kv EXCEPT ![execSlot] = after]
      /\ db' = IF SavesPrompt THEN Saved(db, req.saveTo, cache, after, req.pos, Computed)
               ELSE db
      /\ cache' = IF SavesPrompt THEN UpdateMetadata(cache, req.saveTo, Computed)
                  ELSE cache
      /\ UNCHANGED execSlot
  BY <1>1 DEF Predict, Saved
<1>3. /\ Computed \in Seq(Token) /\ Len(Computed) = req.pos
      /\ req.pos \in Nat /\ req.pos < Len(req.tokens)
  BY <1>1, ComputedTokens
<1>4. /\ req.promptEnd <= req.pos /\ req.pos < req.maxPred /\ 0 < req.promptEnd
      /\ req.promptEnd < req.maxPred /\ req.maxPred <= SeqLen
      /\ req.start <= req.promptEnd /\ req.start <= req.pos
      /\ req.saveTo < cache.nextCacheId
      /\ Len(req.tokens) = req.pos + 1
      /\ req.promptEnd \in Nat /\ req.maxPred \in Nat /\ req.saveTo \in Nat
      /\ req.start \in Nat /\ SeqLen \in Nat
  BY <1>1, ServerAssumption DEF Progress, Busy, Shape
<1>5. Computed \in Keys
  BY <1>3, <1>4 DEF Keys
<1>6. after \in Seq(Rows) /\ req.pos + 1 <= Len(after)
  <2>1. kv[execSlot] \in Seq(Rows)
    BY <1>1 DEF Shape
  <2>2. rows \in Seq(Rows)
    BY <1>1, <2>1, LoadedRows
  <2>3. <<NextToken>> \in Seq(Token) /\ Len(<<NextToken>>) = 1
    BY <1>1, <1>3 DEF NextToken, Shape
  <2> HIDE DEF rows
  <2> QED
    BY <1>3, <2>2, <2>3, ForwardedRows
<1> HIDE DEF after
<1>7. Len(Computed) <= Len(after)
  BY <1>3, <1>6
<1>8. Agrees(cache', db') /\ Files' /\ cache'.nextCacheId = cache.nextCacheId
  <2>1. CASE ~SavesPrompt
    BY <1>1, <1>2, <2>1, InvIsAgrees DEF Files, Filed
  <2>2. CASE SavesPrompt
    <3>1. req.saveTo \in Nat \ {0} /\ Agrees(cache, db)
      BY <1>1, <1>4, <2>2, InvIsAgrees DEF SavesPrompt, CACHE_SKIP
    <3>2. LET e == Saved(db, req.saveTo, cache, after, Len(Computed), Computed)
          IN  Agrees(UpdateMetadata(cache, req.saveTo, Computed), e)
              /\ Filed(e.store) /\ Filed(e.stage)
      BY <1>1, <1>4, <1>5, <1>6, <1>7, <3>1, SavedKeeps
    <3>3. UpdateMetadata(cache, req.saveTo, Computed).nextCacheId = cache.nextCacheId
      BY DEF UpdateMetadata
    <3> QED
      BY <1>2, <1>3, <2>2, <3>2, <3>3 DEF Files
  <2> QED
    BY <2>1, <2>2
<1>9. ManagerInv'
  BY <1>8 DEF ManagerInv, Agrees
<1>10. kv' \in [Slots -> Seq(Rows)] /\ execSlot' \in Slots
  BY <1>1, <1>2, <1>6 DEF Shape
<1>11. CASE req' = NoRequest /\ pc' = "idle"
  <2>1. 0 \in Slots
    BY ManagerAssumption DEF Slots
  <2>2. Shape'
    BY <1>10, <1>11, <2>1 DEF Shape, NoRequest, CACHE_SKIP
  <2>3. Progress'
    BY <1>11 DEF Progress, Busy
  <2> QED
    BY <1>8, <1>9, <2>2, <2>3 DEF ServerInv
<1>12. CASE /\ req' = [req EXCEPT !.pos = @ + 1, !.tokens = Append(@, token)]
            /\ pc' = IF Ends(eos) THEN "reply" ELSE "predict"
  <2>1. /\ DOMAIN req' = DOMAIN NoRequest
        /\ req'.pos = req.pos + 1 /\ req'.tokens = Append(req.tokens, token)
        /\ req'.promptEnd = req.promptEnd /\ req'.maxPred = req.maxPred
        /\ req'.slot = req.slot /\ req'.start = req.start
        /\ req'.loadFrom = req.loadFrom /\ req'.saveTo = req.saveTo
    BY <1>1, <1>12 DEF Shape, NoRequest
  <2>2. req'.tokens \in Seq(Token) /\ Len(req'.tokens) = req.pos + 2
    BY <1>1, <1>4, <2>1 DEF Shape
  <2>3. Shape'
    BY <1>1, <1>3, <1>10, <1>12, <2>1, <2>2 DEF Shape
  <2>4. pc' = "predict" => req'.pos < req'.maxPred
    BY <1>3, <1>4, <1>12, <2>1 DEF Ends
  <2>5. Progress'
    <3>1. req'.promptEnd < req'.pos /\ req'.pos <= req'.maxPred /\ req'.start <= req'.pos
      BY <1>3, <1>4, <2>1
    <3>2. Len(req'.tokens) = req'.pos + 1
      BY <1>3, <2>1, <2>2
    <3>3. req'.promptEnd <= req'.pos
      BY <1>3, <1>4, <2>1
    <3> QED
      BY <1>4, <1>8, <1>12, <2>1, <2>4, <3>1, <3>2, <3>3 DEF Progress, Busy
  <2> QED
    BY <1>8, <1>9, <2>3, <2>5 DEF ServerInv
<1> QED
  BY <1>2, <1>11, <1>12

(* The rows that Reply leaves, with the pass that saves them.               *)
Left == IF SavesAnswer THEN Forwarded(kv[execSlot], req.pos, <<NextToken>>) ELSE kv[execSlot]

Slotted == UpdateDeviceSlot(cache, req.slot, Computed, FinalSaveTo)

LEMMA Replied ==
  ASSUME Reply
  PROVE  /\ pc = "reply" /\ pc' = "idle" /\ req' = NoRequest /\ UNCHANGED execSlot
         /\ kv' = [kv EXCEPT ![execSlot] = Left]
         /\ \/ /\ cache' = IF SavesAnswer THEN UpdateMetadata(Slotted, FinalSaveTo, Computed)
                           ELSE Slotted
               /\ db' = IF SavesAnswer
                        THEN Saved(db, FinalSaveTo, Slotted, Left, req.pos, Computed) ELSE db
            \/ /\ "reply" \in Disconnects
               /\ cache' = cache
               /\ db' = IF SavesAnswer THEN SaveRows(db, FinalSaveTo, Left, req.pos) ELSE db
BY DEF Reply, Left, Slotted, Saved

LEMMA LeftRows ==
  ASSUME Shape, Progress, Files, pc = "reply"
  PROVE  Left \in Seq(Rows) /\ (SavesAnswer => req.pos + 1 <= Len(Left))
<1>1. kv[execSlot] \in Seq(Rows) /\ req.pos \in Nat /\ Busy
  BY DEF Shape, Busy
<1>2. <<NextToken>> \in Seq(Token) /\ Len(<<NextToken>>) = 1
  BY <1>1, ComputedTokens DEF NextToken, Shape
<1>3. /\ Forwarded(kv[execSlot], req.pos, <<NextToken>>) \in Seq(Rows)
      /\ req.pos + 1 <= Len(Forwarded(kv[execSlot], req.pos, <<NextToken>>))
  BY <1>1, <1>2, ForwardedRows
<1> QED
  BY <1>1, <1>3 DEF Left

LEMMA ReplyKeeps == ServerInv /\ Reply => ServerInv'
<1> SUFFICES ASSUME ServerInv, Reply PROVE ServerInv'
  OBVIOUS
<1>1. ManagerInv /\ Shape /\ Files /\ Progress /\ pc = "reply" /\ Busy
  BY Replied DEF ServerInv, Busy
<1>2. /\ Computed \in Seq(Token) /\ Len(Computed) = req.pos /\ req.pos \in Nat
  BY <1>1, ComputedTokens
<1>3. Computed \in Keys
  BY <1>1, <1>2 DEF Keys, Progress, Busy, Shape
<1>4. /\ FinalSaveTo \in Nat /\ FinalSaveTo < cache.nextCacheId
      /\ cache.nextCacheId \in Nat \ {0}
  BY <1>1 DEF FinalSaveTo, CACHE_SKIP, Shape, Progress, Busy, ManagerInv, ManagerType
<1>5. Left \in Seq(Rows) /\ (SavesAnswer => Len(Computed) <= Len(Left))
  BY <1>1, <1>2, LeftRows
<1>6. Agrees(cache, db) /\ Agrees(Slotted, db) /\ Slotted.nextCacheId = cache.nextCacheId
  <2>1. Agrees(cache, db)
    BY <1>1, InvIsAgrees
  <2>2. Agrees(Slotted, db)
    BY <1>1, <1>3, <1>4, <2>1, AgreesAfterSlot DEF Slotted, Shape
  <2> QED
    BY <2>1, <2>2 DEF Slotted, UpdateDeviceSlot
<1>7. SavesAnswer => FinalSaveTo \in Nat \ {0}
  BY <1>4 DEF SavesAnswer, CACHE_SKIP
<1>8. ASSUME /\ cache' = IF SavesAnswer THEN UpdateMetadata(Slotted, FinalSaveTo, Computed)
                         ELSE Slotted
             /\ db' = IF SavesAnswer
                      THEN Saved(db, FinalSaveTo, Slotted, Left, req.pos, Computed) ELSE db
      PROVE  Agrees(cache', db') /\ Files'
  <2>1. CASE ~SavesAnswer
    BY <1>1, <1>6, <1>8, <2>1 DEF Files, Filed
  <2>2. CASE SavesAnswer
    <3>1. LET e == Saved(db, FinalSaveTo, Slotted, Left, Len(Computed), Computed)
          IN  Agrees(UpdateMetadata(Slotted, FinalSaveTo, Computed), e)
              /\ Filed(e.store) /\ Filed(e.stage)
      BY <1>1, <1>3, <1>4, <1>5, <1>6, <1>7, <2>2, SavedKeeps
    <3> QED
      BY <1>2, <1>8, <2>2, <3>1 DEF Files
  <2> QED
    BY <2>1, <2>2
<1>9. ASSUME /\ cache' = cache
             /\ db' = IF SavesAnswer THEN SaveRows(db, FinalSaveTo, Left, req.pos) ELSE db
      PROVE  Agrees(cache', db') /\ Files'
  <2>1. CASE ~SavesAnswer
    BY <1>1, <1>6, <1>9, <2>1 DEF Files, Filed
  <2>2. CASE SavesAnswer
    <3>1. Agrees(cache', db')
      BY <1>4, <1>6, <1>7, <1>9, <2>2, AgreesAfterRows DEF SaveRows
    <3>2. SubSeq(Left, 1, req.pos) \in Seq(Rows)
      BY <1>2, <1>5, <2>2
    <3>3. /\ db'.store = db.store
          /\ DOMAIN db'.stage = DOMAIN db.stage \cup {FinalSaveTo}
          /\ \A i \in DOMAIN db.stage \ {FinalSaveTo} : db'.stage[i] = db.stage[i]
          /\ db'.stage[FinalSaveTo]["kv"] = SubSeq(Left, 1, req.pos)
      BY <1>9, <2>2 DEF SaveRows, Write, Put
    <3> QED
      BY <1>1, <3>1, <3>2, <3>3 DEF Files, Filed
  <2> QED
    BY <2>1, <2>2
<1>10. Agrees(cache', db') /\ Files'
  BY <1>8, <1>9, Replied
<1>11. ManagerInv'
  BY <1>10 DEF ManagerInv, Agrees
<1>12. kv' \in [Slots -> Seq(Rows)] /\ execSlot' \in Slots
  BY <1>1, <1>5, Replied DEF Shape
<1>13. 0 \in Slots
  BY ManagerAssumption DEF Slots
<1>14. Shape'
  <2>1. req' = NoRequest /\ pc' = "idle"
    BY Replied
  <2> QED
    BY <1>12, <1>13, <2>1 DEF Shape, NoRequest, CACHE_SKIP
<1>15. Progress'
  BY Replied DEF Progress, Busy
<1> QED
  BY <1>10, <1>11, <1>14, <1>15 DEF ServerInv

LEMMA StoppedKeeps == ServerInv /\ Stopped => ServerInv'
<1> SUFFICES ASSUME ServerInv, Stopped PROVE ServerInv'
  OBVIOUS
<1>1. /\ pc' = "down" /\ req' = NoRequest /\ kv' = [s \in Slots |-> <<>>]
      /\ execSlot' = 0 /\ cache' = cache /\ db' = Reopened(db)
  BY DEF Stopped
<1>2. db'.store = db.store /\ DOMAIN db'.stage = {} /\ Reopened(db') = db'
  BY <1>1 DEF Reopened, EmptyMap
<1>3. DbType(db')
  BY <1>2 DEF ServerInv, ManagerInv, DbType
<1>4. IdsIssued(cache', db')
  BY <1>1, <1>2 DEF ServerInv, ManagerInv, IdsIssued, UsedIds
<1>5. MemoryMatchesDisk(cache', db')
  BY <1>1, <1>2 DEF ServerInv, ManagerInv, MemoryMatchesDisk, LoadMetadata, StoredIds
<1>6. ManagerInv'
  BY <1>1, <1>3, <1>4, <1>5 DEF ServerInv, ManagerInv
<1>7. 0 \in Slots
  BY ManagerAssumption DEF Slots
<1>8. kv' \in [Slots -> Seq(Rows)]
  BY <1>1
<1>9. Shape'
  BY <1>1, <1>7, <1>8 DEF Shape, NoRequest, CACHE_SKIP
<1>10. Files'
  BY <1>2 DEF ServerInv, Files, Filed
<1>11. Progress'
  BY <1>1, <1>2 DEF Progress, Busy
<1> QED
  BY <1>6, <1>9, <1>10, <1>11 DEF ServerInv

LEMMA StartKeeps == ServerInv /\ Start => ServerInv'
<1> SUFFICES ASSUME ServerInv, Start PROVE ServerInv'
  OBVIOUS
<1>1. /\ pc = "down" /\ pc' = "idle" /\ MetadataLoads(db)
      /\ cache' = NewManager(db) /\ UNCHANGED <<db, req, kv, execSlot>>
  BY DEF Start
<1>2. db = Reopened(db)
  BY <1>1 DEF ServerInv, Progress
<1>3. Restart
  BY <1>1, <1>2 DEF Restart
<1>4. ManagerInv'
  BY <1>3, RestartKeeps DEF ServerInv
<1>5. Shape' /\ Files'
  BY <1>1 DEF ServerInv, Shape, Files, Filed
<1>6. Progress'
  BY <1>1 DEF ServerInv, Progress, Busy
<1> QED
  BY <1>4, <1>5, <1>6 DEF ServerInv

LEMMA ServerStepKeeps == ServerInv /\ [ServerNext]_vars => ServerInv'
<1> SUFFICES ASSUME ServerInv, [ServerNext]_vars PROVE ServerInv'
  OBVIOUS
<1>1. CASE \E prompt \in Prompts, maxTokens \in MaxTokens : Begin(prompt, maxTokens)
  BY <1>1, BeginKeeps
<1>2. CASE Scan
  BY <1>2, ScanKeeps
<1>3. CASE \E token \in Token, eos \in BOOLEAN : Predict(token, eos)
  BY <1>3, PredictKeeps
<1>4. CASE Reply
  BY <1>4, ReplyKeeps
<1>5. CASE PositionAssertFails \/ Crash
  BY <1>5, StoppedKeeps DEF PositionAssertFails, Crash
<1>6. CASE Start
  BY <1>6, StartKeeps
<1>7. CASE UNCHANGED vars
  <2>1. UNCHANGED <<cache, db, pc, req, kv, execSlot, logits>>
    BY <1>7 DEF vars
  <2> QED
    BY <2>1 DEF ServerInv, ManagerInv, Shape, Files, Filed, Progress, Busy
<1> QED
  BY <1>1, <1>2, <1>3, <1>4, <1>5, <1>6, <1>7 DEF ServerNext, HandlerStep

LEMMA ServerInvariant == ServerSpec => []ServerInv
<1> QED
  BY ServerStarts, ServerStepKeeps, PTL DEF ServerSpec

-----------------------------------------------------------------------------
(* The handler's state keeps its shape, its positions stay in the context   *)
(* and its slots in range (dllama-api.cpp:112-275), for any number of       *)
(* slots, prompts and disconnects.                                          *)
THEOREM ServerTypeCorrect == ServerSpec => []ServerTypeOK
<1>1. ServerInv => ServerTypeOK
  <2> SUFFICES ASSUME ServerInv PROVE ServerTypeOK
    OBVIOUS
  <2>1. ManagerType(cache)
    BY DEF ServerInv, ManagerInv
  <2>2. req.pos \in 0 .. SeqLen
    <3>1. CASE Busy
      BY <3>1, ComputedTokens DEF ServerInv, Shape
    <3>2. CASE ~Busy
      BY <3>2, ServerAssumption DEF ServerInv, Progress, Shape, Busy, NoRequest
    <3> QED
      BY <3>1, <3>2
  <2>3. req.start <= Max({req.pos, req.promptEnd})
    <3>1. req.pos \in Nat /\ req.promptEnd \in Nat /\ req.start \in Nat
      BY DEF ServerInv, Shape
    <3>2. req.start <= req.pos
      <4>1. CASE Busy
        BY <4>1 DEF ServerInv, Progress
      <4>2. CASE ~Busy
        BY <4>2 DEF ServerInv, Progress, Shape, Busy, NoRequest
      <4> QED
        BY <4>1, <4>2
    <3>3. /\ Max({req.pos, req.promptEnd}) \in {req.pos, req.promptEnd}
          /\ req.pos <= Max({req.pos, req.promptEnd})
      BY <3>1, MaxOfTwo
    <3> QED
      BY <3>1, <3>2, <3>3
  <2>4. ASSUME NEW s \in Slots, NEW i \in DOMAIN kv[s] PROVE kv[s][i] \in Rows
    <3>1. kv[s] \in Seq(Rows)
      BY DEF ServerInv, Shape
    <3> QED
      BY <3>1
  <2> QED
    BY <2>1, <2>2, <2>3, <2>4 DEF ServerTypeOK, ServerInv, Shape
<1> QED
  BY <1>1, ServerInvariant, PTL

(* The handler calls the manager as ManagerSpec allows: with prefixes that  *)
(* are not empty and ids that were handed out, so that under the server     *)
(* too trie, slot table, memory and disk agree and fresh ids are fresh      *)
(* (dllama-api.cpp:150, 203, 269-272), clients that are gone included.      *)
THEOREM ServerKeepsManager == ServerSpec => []ManagerInv
<1>1. ServerInv => ManagerInv
  BY DEF ServerInv
<1> QED
  BY <1>1, ServerInvariant, PTL

-----------------------------------------------------------------------------
(* Ids: with clients that stay until they are answered, an id is saved with *)
(* longer and longer prefixes of one conversation                           *)

ClientsStay == Disconnects \subseteq {"prompt"}

LEMMA MetadataEffect ==
  ASSUME NEW m, NEW id, NEW tokens
  PROVE  LET n == UpdateMetadata(m, id, tokens)
         IN  /\ DOMAIN n.dbMetas = DOMAIN m.dbMetas \cup {id}
             /\ n.dbMetas[id].prefix = Key(tokens)
             /\ \A i \in DOMAIN m.dbMetas \ {id} : n.dbMetas[i] = m.dbMetas[i]
             /\ n.deviceSlots = m.deviceSlots
             /\ \A k \in DOMAIN n.trie :
                  n.trie[k].type = "DEVICE_SLOT"
                    => k \in DOMAIN m.trie /\ n.trie[k] = m.trie[k]
<1> DEFINE trie == TrieWithoutId(m, id)
           n    == UpdateMetadata(m, id, tokens)
<1>1. \A k \in DOMAIN trie : k \in DOMAIN m.trie /\ trie[k] = m.trie[k]
  BY DEF TrieWithoutId, Without
<1> HIDE DEF trie
<1>2. /\ n.trie = IF Key(tokens) \in DOMAIN trie THEN trie
                  ELSE Put(trie, Key(tokens), DbDst(id))
      /\ n.dbMetas = Put(m.dbMetas, id,
                         [prefix |-> Key(tokens), lruScore |-> m.nextLruScore])
      /\ n.deviceSlots = m.deviceSlots
  BY DEF UpdateMetadata, trie
<1> HIDE DEF n
<1>3. /\ DOMAIN n.dbMetas = DOMAIN m.dbMetas \cup {id}
      /\ n.dbMetas[id].prefix = Key(tokens)
      /\ \A i \in DOMAIN m.dbMetas \ {id} : n.dbMetas[i] = m.dbMetas[i]
  BY <1>2 DEF Put
<1>4. ASSUME NEW k \in DOMAIN n.trie, n.trie[k].type = "DEVICE_SLOT"
      PROVE  k \in DOMAIN m.trie /\ n.trie[k] = m.trie[k]
  <2>1. CASE Key(tokens) \in DOMAIN trie
    BY <1>1, <1>2, <1>4, <2>1
  <2>2. CASE Key(tokens) \notin DOMAIN trie
    <3>1. n.trie[k] = DbDst(id) \/ (k \in DOMAIN trie /\ n.trie[k] = trie[k])
      BY <1>2, <2>2 DEF Put
    <3>2. DbDst(id).type # "DEVICE_SLOT"
      BY DEF DbDst
    <3> QED
      BY <1>1, <1>4, <3>1, <3>2
  <2> QED
    BY <2>1, <2>2
<1> QED
  BY <1>2, <1>3, <1>4 DEF n

LEMMA SlotEffect ==
  ASSUME NEW m, NEW s \in Slots, NEW tokens, NEW id, Key(tokens) # <<>>,
         m.deviceSlots \in [Slots -> Described],
         DOMAIN m.trie \subseteq Keys, SlotsMatchTrie(m)
  PROVE  LET n == UpdateDeviceSlot(m, s, tokens, id)
         IN  /\ n.dbMetas = m.dbMetas
             /\ n.deviceSlots[s].prefix \in {<<>>, Key(tokens)}
             /\ \A k \in DOMAIN n.trie :
                  n.trie[k].type = "DEVICE_SLOT" =>
                    \/ k = Key(tokens) /\ n.trie[k] = SlotDst(s, id)
                    \/ k \in DOMAIN m.trie /\ n.trie[k] = m.trie[k] /\ m.trie[k].slot # s
<1> DEFINE trie == TrieWithoutSlot(m, s)
           n    == UpdateDeviceSlot(m, s, tokens, id)
<1>1. ASSUME NEW k \in DOMAIN trie
      PROVE  /\ k \in DOMAIN m.trie /\ trie[k] = m.trie[k]
             /\ m.trie[k].type = "DEVICE_SLOT" => m.trie[k].slot # s
  <2>1. k \in DOMAIN m.trie /\ trie[k] = m.trie[k]
    BY DEF TrieWithoutSlot, Without
  <2>2. ASSUME m.trie[k].type = "DEVICE_SLOT", m.trie[k].slot = s PROVE FALSE
    <3>1. m.deviceSlots[s].prefix = k /\ k # <<>> /\ HoldsSlot(m.trie, k, s)
      BY <2>1, <2>2 DEF SlotsMatchTrie, Keys, HoldsSlot
    <3>2. k \notin DOMAIN trie
      BY <3>1 DEF TrieWithoutSlot, Without
    <3> QED
      BY <3>2
  <2> QED
    BY <2>1, <2>2
<1> HIDE DEF trie
<1>2. /\ n.trie = IF Key(tokens) \in DOMAIN trie THEN trie
                  ELSE Put(trie, Key(tokens), SlotDst(s, id))
      /\ n.dbMetas = m.dbMetas
      /\ n.deviceSlots[s].prefix \in {<<>>, Key(tokens)}
  BY DEF UpdateDeviceSlot, trie
<1> HIDE DEF n
<1>3. ASSUME NEW k \in DOMAIN n.trie, n.trie[k].type = "DEVICE_SLOT"
      PROVE  \/ k = Key(tokens) /\ n.trie[k] = SlotDst(s, id)
             \/ k \in DOMAIN m.trie /\ n.trie[k] = m.trie[k] /\ m.trie[k].slot # s
  <2>1. CASE Key(tokens) \in DOMAIN trie
    BY <1>1, <1>2, <1>3, <2>1
  <2>2. CASE Key(tokens) \notin DOMAIN trie
    <3>1. \/ k = Key(tokens) /\ n.trie[k] = SlotDst(s, id)
          \/ k \in DOMAIN trie /\ n.trie[k] = trie[k]
      BY <1>2, <2>2 DEF Put
    <3> QED
      BY <1>1, <1>3, <3>1
  <2> QED
    BY <2>1, <2>2
<1> QED
  BY <1>2, <1>3 DEF n

(* The manager of a new process lists no slot.                              *)
LEMMA NewManagerLists ==
  ASSUME NEW d
  PROVE  /\ \A k \in DOMAIN NewManager(d).trie : NewManager(d).trie[k].type # "DEVICE_SLOT"
         /\ NewManager(d).dbMetas = LoadMetadata(d)
         /\ \A s \in Slots : NewManager(d).deviceSlots[s].prefix = <<>>
<1>1. \A x : DbDst(x).type # "DEVICE_SLOT"
  BY DEF DbDst
<1> QED
  BY <1>1 DEF NewManager

LEMMA IdsStart == ServerInit => IdsInv
<1> SUFFICES ASSUME ServerInit PROVE IdsInv
  OBVIOUS
<1>1. cache = NewManager(EmptyDb) /\ pc = "idle"
  BY DEF ServerInit, ManagerInit
<1>2. DOMAIN cache.dbMetas = {}
  <2>1. cache.dbMetas = LoadMetadata(EmptyDb)
    BY <1>1, NewManagerLists
  <2>2. DOMAIN EmptyDb.store = {}
    BY DEF EmptyDb, EmptyMap
  <2> QED
    BY <2>1, <2>2 DEF LoadMetadata, StoredIds
<1>3. \A k \in DOMAIN cache.trie : cache.trie[k].type # "DEVICE_SLOT"
  BY <1>1, NewManagerLists
<1> QED
  BY <1>1, <1>2, <1>3 DEF IdsInv, Lengths, SlotIdsSaved, OwnId, ForSlot, Busy

(* The hit that is reused whole: its id was saved with the prefix that is   *)
(* found, and is not listed with another one.                               *)
LEMMA ReusedId ==
  ASSUME ManagerInv, IdsInv, HasDb, pc = "idle",
         NEW tokens \in Seq(Token), NEW hit \in Lookup(cache, tokens), hit # Miss,
         hit.matchLen = hit.prefixLen, hit.dst.id # CACHE_SKIP
  PROVE  /\ hit.dst.id \in DOMAIN cache.dbMetas =>
              Begins(cache.dbMetas[hit.dst.id].prefix, tokens)
         /\ \A k \in DOMAIN cache.trie :
              ForSlot(k, hit.dst.id) =>
                hit.dst.type = "DEVICE_SLOT" /\ cache.trie[k].slot = hit.dst.slot
<1> DEFINE id == hit.dst.id
<1>1. DOMAIN cache.trie \subseteq Keys
  BY DEF ManagerInv, ManagerType
<1>2. PICK k : Hits(cache, tokens, hit, k)
  BY <1>1, LookupHits
<1>3. /\ k \in DOMAIN cache.trie /\ hit.dst = cache.trie[k]
      /\ cache.trie[k] \in Dsts
  BY <1>2 DEF Hits, ManagerInv, ManagerType
<1>4. /\ id \in Nat \ {CACHE_SKIP}
      /\ cache.trie[k].type \in {"DEVICE_SLOT", "DB"}
  BY <1>3 DEF Dsts, CACHE_SKIP
<1>5. \A l \in DOMAIN cache.trie :
        ForSlot(l, id) => id \in DOMAIN cache.dbMetas /\ cache.dbMetas[id].prefix = l
  BY <1>4 DEF IdsInv, SlotIdsSaved, Busy
<1>6. id \in DOMAIN cache.dbMetas /\ cache.dbMetas[id].prefix = k
  <2>1. CASE cache.trie[k].type = "DEVICE_SLOT"
    BY <1>3, <1>5, <2>1 DEF ForSlot
  <2>2. CASE cache.trie[k].type = "DB"
    BY <1>3, <2>2 DEF ManagerInv, DbEntriesMatch
  <2> QED
    BY <1>4, <2>1, <2>2
<1>7. Begins(k, tokens)
  <2>1. k \in Seq(Token)
    BY <1>1, <1>3 DEF Keys
  <2> QED
    BY <1>2, <2>1 DEF Hits, Begins
<1>8. ASSUME NEW l \in DOMAIN cache.trie, ForSlot(l, id)
      PROVE  hit.dst.type = "DEVICE_SLOT" /\ cache.trie[l].slot = hit.dst.slot
  <2>1. l = k
    BY <1>5, <1>6, <1>8
  <2> QED
    BY <1>3, <1>8, <2>1 DEF ForSlot
<1> QED
  BY <1>6, <1>7, <1>8

LEMMA BeginKeepsIds ==
  ASSUME ServerInv, IdsInv, NEW prompt \in Prompts, NEW maxTokens \in MaxTokens,
         Begin(prompt, maxTokens)
  PROVE  IdsInv'
<1> DEFINE known == SubSeq(prompt, 1, Len(prompt) - 1)
<1>1. ManagerInv /\ pc = "idle" /\ ~Busy /\ UNCHANGED db
  BY DEF Begin, ServerInv, Busy
<1>2. PICK hit \in Lookup(cache, known) : \E plan :
        /\ Plans(prompt, hit, plan)
        /\ cache' = IF plan.reused = CACHE_SKIP THEN TakeCacheId(cache) ELSE cache
        /\ Enters(plan) \/ ("prompt" \in Disconnects /\ UNCHANGED <<req, pc>>)
  BY Begun
<1>3. PICK plan :
        /\ Plans(prompt, hit, plan)
        /\ cache' = IF plan.reused = CACHE_SKIP THEN TakeCacheId(cache) ELSE cache
        /\ Enters(plan) \/ ("prompt" \in Disconnects /\ UNCHANGED <<req, pc>>)
  BY <1>2
<1>4. known \in Seq(Token)
  BY PromptFits
<1>5. cache'.trie = cache.trie /\ cache'.dbMetas = cache.dbMetas
  <2> DEFINE takes == plan.reused = CACHE_SKIP
  <2>1. takes \in BOOLEAN /\ cache' = IF takes THEN TakeCacheId(cache) ELSE cache
    BY <1>3
  <2> HIDE DEF takes
  <2> QED
    BY <1>1, <2>1, IdTaken
<1>6. Lengths'
  BY <1>5 DEF IdsInv, Lengths
<1>7. SlotIdsSaved'
  BY <1>1, <1>5 DEF IdsInv, SlotIdsSaved, ForSlot
<1>8. OwnId'
  <2>1. CASE UNCHANGED <<req, pc>>
    BY <1>1, <2>1 DEF OwnId, Busy
  <2>2. CASE Enters(plan)
    <3> SUFFICES ASSUME HasDb, plan.saveTo # CACHE_SKIP
                 PROVE  /\ \A k \in DOMAIN cache.trie :
                             ForSlot(k, plan.saveTo) => cache.trie[k].slot = plan.slot
                        /\ plan.saveTo \in DOMAIN cache.dbMetas =>
                             Begins(cache.dbMetas[plan.saveTo].prefix, known)
      <4>1. /\ req'.saveTo = plan.saveTo /\ req'.slot = plan.slot
            /\ SubSeq(req'.tokens, 1, req'.promptEnd) = known
        BY <1>3, <2>2 DEF Enters, Plans
      <4> HIDE DEF known
      <4> QED
        BY <1>5, <4>1 DEF OwnId, ForSlot
    <3>1. CASE plan.reused = CACHE_SKIP
      <4>1. plan.saveTo = cache.nextCacheId /\ cache.nextCacheId \in Nat
        BY <1>1, <1>3, <3>1 DEF Plans, NextCacheId, ManagerInv, ManagerType
      <4>2. \A k \in DOMAIN cache.trie : ~ForSlot(k, plan.saveTo)
        <5> SUFFICES ASSUME NEW k \in DOMAIN cache.trie
                     PROVE  cache.trie[k].id < cache.nextCacheId
          BY <4>1 DEF ForSlot
        <5>1. cache.trie[k].id \in UsedIds(cache, db)
          BY DEF UsedIds
        <5> QED
          BY <1>1, <5>1 DEF ManagerInv, IdsIssued
      <4>3. plan.saveTo \notin DOMAIN cache.dbMetas
        BY <1>1, <4>1 DEF ManagerInv, IdsIssued, UsedIds
      <4> QED
        BY <4>2, <4>3
    <3>2. CASE plan.reused # CACHE_SKIP
      <4>1. /\ hit # Miss /\ hit.matchLen = hit.prefixLen
            /\ plan.saveTo = hit.dst.id /\ hit.dst.id # CACHE_SKIP
            /\ hit.dst.type = "DEVICE_SLOT" => plan.slot = hit.dst.slot
        BY <1>3, <3>2 DEF Plans
      <4> HIDE DEF known
      <4>2. /\ hit.dst.id \in DOMAIN cache.dbMetas =>
                 Begins(cache.dbMetas[hit.dst.id].prefix, known)
            /\ \A k \in DOMAIN cache.trie :
                 ForSlot(k, hit.dst.id) =>
                   hit.dst.type = "DEVICE_SLOT" /\ cache.trie[k].slot = hit.dst.slot
        BY <1>1, <1>4, <4>1, ReusedId
      <4> QED
        BY <4>1, <4>2
    <3> QED
      BY <3>1, <3>2
  <2> QED
    BY <1>3, <2>1, <2>2
<1> QED
  BY <1>6, <1>7, <1>8 DEF IdsInv

LEMMA ScanKeepsIds == ServerInv /\ IdsInv /\ Scan => IdsInv'
<1> SUFFICES ASSUME ServerInv, IdsInv, Scan PROVE IdsInv'
  OBVIOUS
<1>1. pc = "scan" /\ pc' \in {"scan", "predict"} /\ UNCHANGED cache
  BY DEF Scan
<1>2. /\ req'.promptEnd = req.promptEnd /\ req'.slot = req.slot
      /\ req'.saveTo = req.saveTo /\ req'.tokens = req.tokens
  BY DEF Scan, ServerInv, Shape, NoRequest
<1> QED
  BY <1>1, <1>2 DEF IdsInv, Lengths, SlotIdsSaved, OwnId, ForSlot, Busy

LEMMA PredictKeepsIds ==
  ASSUME ClientsStay, ServerInv, IdsInv,
         NEW token \in Token, NEW eos \in BOOLEAN, Predict(token, eos)
  PROVE  IdsInv'
<1>1. ManagerInv /\ Shape /\ Progress /\ pc = "predict" /\ Busy
  BY DEF ServerInv, Predict, Busy
<1>2. /\ req' = [req EXCEPT !.pos = @ + 1, !.tokens = Append(@, token)]
      /\ pc' \in {"predict", "reply"}
      /\ cache' = IF SavesPrompt THEN UpdateMetadata(cache, req.saveTo, Computed)
                  ELSE cache
  BY DEF Predict, ClientsStay
<1>3. /\ req'.tokens = Append(req.tokens, token) /\ req'.promptEnd = req.promptEnd
      /\ req'.slot = req.slot /\ req'.saveTo = req.saveTo
  BY <1>1, <1>2 DEF Shape, NoRequest
<1>4. /\ Computed \in Seq(Token) /\ Len(Computed) = req.pos /\ req.pos \in Nat
      /\ req.pos <= SeqLen /\ req.promptEnd \in Nat \ {0} /\ req.promptEnd <= req.pos
      /\ req.tokens \in Seq(Token) /\ req.pos < Len(req.tokens) /\ SeqLen \in Nat
  BY <1>1, ComputedTokens, ServerAssumption DEF Progress, Busy, Shape
<1>5. SubSeq(req'.tokens, 1, req'.promptEnd) = SubSeq(req.tokens, 1, req.promptEnd)
  <2>1. req.promptEnd <= Len(req.tokens)
    BY <1>4
  <2> QED
    BY <1>3, <1>4, <2>1
<1>6. Busy'
  BY <1>2 DEF Busy
<1>7. CASE ~SavesPrompt
  BY <1>1, <1>2, <1>3, <1>5, <1>6, <1>7 DEF IdsInv, Lengths, SlotIdsSaved, OwnId, ForSlot
<1>8. CASE SavesPrompt
  <2>1. /\ HasDb /\ req.pos = req.promptEnd /\ req.saveTo # CACHE_SKIP
        /\ Computed = SubSeq(req.tokens, 1, req.promptEnd)
    BY <1>8 DEF SavesPrompt, Computed
  <2>2. /\ DOMAIN cache'.dbMetas = DOMAIN cache.dbMetas \cup {req.saveTo}
        /\ cache'.dbMetas[req.saveTo].prefix = Key(Computed)
        /\ \A i \in DOMAIN cache.dbMetas \ {req.saveTo} : cache'.dbMetas[i] = cache.dbMetas[i]
        /\ \A k \in DOMAIN cache'.trie :
             cache'.trie[k].type = "DEVICE_SLOT"
               => k \in DOMAIN cache.trie /\ cache'.trie[k] = cache.trie[k]
    BY <1>2, <1>8, MetadataEffect
  <2>3. /\ Begins(Key(Computed), Computed)
        /\ Len(Key(Computed)) <= MaxLen /\ Len(Key(Computed)) <= SeqLen
    <3>1. Computed \in Keys
      BY <1>4 DEF Keys
    <3>2. Key(Computed) \in Seq(Token)
      BY <3>1, KeyBegins DEF Keys
    <3>3. Len(Key(Computed)) <= Len(Computed) /\ Len(Key(Computed)) \in Nat
      BY <3>1, <3>2, KeyBegins
    <3> QED
      BY <1>4, <3>1, <3>3, KeyBegins
  <2>4. Lengths'
    BY <2>2, <2>3 DEF IdsInv, Lengths
  <2>5. SlotIdsSaved'
    <3> SUFFICES ASSUME NEW k \in DOMAIN cache'.trie, NEW id \in Nat \ {CACHE_SKIP},
                        ForSlot(k, id)'
                 PROVE  \/ id \in DOMAIN cache'.dbMetas /\ cache'.dbMetas[id].prefix = k
                        \/ id = req.saveTo /\ cache'.trie[k].slot = req.slot
      BY <1>3, <1>6 DEF SlotIdsSaved
    <3>1. k \in DOMAIN cache.trie /\ cache'.trie[k] = cache.trie[k] /\ ForSlot(k, id)
      BY <2>2 DEF ForSlot
    <3>2. CASE id = req.saveTo
      BY <1>1, <2>1, <3>1, <3>2 DEF IdsInv, OwnId
    <3>3. CASE id # req.saveTo
      BY <1>1, <2>1, <2>2, <3>1, <3>3 DEF IdsInv, SlotIdsSaved
    <3> QED
      BY <3>2, <3>3
  <2>6. OwnId'
    <3>1. ASSUME NEW k \in DOMAIN cache'.trie, ForSlot(k, req.saveTo)'
          PROVE  cache'.trie[k].slot = req.slot
      <4>1. cache'.trie[k].type = "DEVICE_SLOT" /\ cache'.trie[k].id = req.saveTo
        BY <1>3, <3>1 DEF ForSlot
      <4>2. k \in DOMAIN cache.trie /\ cache'.trie[k] = cache.trie[k]
        BY <2>2, <4>1
      <4>3. ForSlot(k, req.saveTo)
        BY <4>1, <4>2 DEF ForSlot
      <4> QED
        BY <1>1, <2>1, <4>2, <4>3 DEF IdsInv, OwnId
    <3>2. Begins(cache'.dbMetas[req.saveTo].prefix, SubSeq(req.tokens, 1, req.promptEnd))
      BY <2>1, <2>2, <2>3
    <3> QED
      BY <1>3, <1>5, <3>1, <3>2 DEF OwnId
  <2> QED
    BY <2>4, <2>5, <2>6 DEF IdsInv
<1> QED
  BY <1>7, <1>8

LEMMA KeyIsShort ==
  ASSUME Shape, Progress, Busy
  PROVE  /\ Computed \in Seq(Token) /\ Len(Computed) = req.pos
         /\ req.pos > 0 => /\ Computed \in Keys /\ Key(Computed) \in Keys
                           /\ Key(Computed) # <<>>
                           /\ Begins(Key(Computed), Computed)
                           /\ Len(Key(Computed)) <= MaxLen /\ Len(Key(Computed)) <= SeqLen
<1>1. /\ Computed \in Seq(Token) /\ Len(Computed) = req.pos /\ req.pos \in Nat
      /\ req.pos <= SeqLen /\ SeqLen \in Nat
  BY ComputedTokens, ServerAssumption DEF Shape
<1>2. ASSUME req.pos > 0
      PROVE  /\ Computed \in Keys /\ Key(Computed) \in Keys /\ Key(Computed) # <<>>
             /\ Begins(Key(Computed), Computed)
             /\ Len(Key(Computed)) <= MaxLen /\ Len(Key(Computed)) <= SeqLen
  <2>1. Computed \in Keys
    BY <1>1, <1>2 DEF Keys
  <2>2. /\ Key(Computed) \in Keys /\ Begins(Key(Computed), Computed)
        /\ Len(Key(Computed)) <= MaxLen /\ Len(Key(Computed)) <= Len(Computed)
    BY <2>1, KeyBegins
  <2>3. Key(Computed) # <<>> /\ Len(Key(Computed)) \in Nat
    BY <2>2 DEF Keys
  <2>4. Len(Key(Computed)) <= SeqLen
    BY <1>1, <2>2, <2>3
  <2> QED
    BY <2>1, <2>2, <2>3, <2>4
<1> QED
  BY <1>1, <1>2

LEMMA ReplyKeepsIds ==
  ASSUME ClientsStay, ServerInv, IdsInv, Reply
  PROVE  IdsInv'
<1>1. /\ ManagerInv /\ Shape /\ Progress /\ pc = "reply" /\ Busy
      /\ pc' = "idle" /\ ~Busy'
  BY Replied DEF ServerInv, Busy
<1>2. /\ req.pos \in Nat /\ req.promptEnd \in Nat /\ req.pos > 0 /\ req.slot \in Slots
      /\ DOMAIN cache.trie \subseteq Keys /\ cache.deviceSlots \in [Slots -> Described]
      /\ SlotsMatchTrie(cache)
  BY <1>1 DEF Shape, Progress, ManagerInv, ManagerType
<1>3. /\ Key(Computed) # <<>>
      /\ Len(Key(Computed)) <= MaxLen /\ Len(Key(Computed)) <= SeqLen
  BY <1>1, <1>2, KeyIsShort
<1>4. cache' = IF SavesAnswer THEN UpdateMetadata(Slotted, FinalSaveTo, Computed) ELSE Slotted
  BY Replied DEF ClientsStay
<1>5. /\ Slotted.dbMetas = cache.dbMetas
      /\ \A k \in DOMAIN Slotted.trie :
           Slotted.trie[k].type = "DEVICE_SLOT" =>
             \/ k = Key(Computed) /\ Slotted.trie[k] = SlotDst(req.slot, FinalSaveTo)
             \/ /\ k \in DOMAIN cache.trie /\ Slotted.trie[k] = cache.trie[k]
                /\ cache.trie[k].slot # req.slot
  BY <1>2, <1>3, SlotEffect DEF Slotted
<1>6. /\ SavesAnswer =>
           /\ DOMAIN cache'.dbMetas = DOMAIN cache.dbMetas \cup {FinalSaveTo}
           /\ cache'.dbMetas[FinalSaveTo].prefix = Key(Computed)
      /\ ~SavesAnswer => cache'.dbMetas = cache.dbMetas
      /\ \A i \in DOMAIN cache.dbMetas : i # FinalSaveTo =>
           i \in DOMAIN cache'.dbMetas /\ cache'.dbMetas[i] = cache.dbMetas[i]
      /\ \A k \in DOMAIN cache'.trie :
           cache'.trie[k].type = "DEVICE_SLOT"
             => k \in DOMAIN Slotted.trie /\ cache'.trie[k] = Slotted.trie[k]
  <2>1. CASE SavesAnswer
    <3>1. /\ DOMAIN cache'.dbMetas = DOMAIN Slotted.dbMetas \cup {FinalSaveTo}
          /\ cache'.dbMetas[FinalSaveTo].prefix = Key(Computed)
          /\ \A i \in DOMAIN Slotted.dbMetas \ {FinalSaveTo} :
               cache'.dbMetas[i] = Slotted.dbMetas[i]
          /\ \A k \in DOMAIN cache'.trie :
               cache'.trie[k].type = "DEVICE_SLOT"
                 => k \in DOMAIN Slotted.trie /\ cache'.trie[k] = Slotted.trie[k]
      BY <1>4, <2>1, MetadataEffect
    <3> QED
      BY <1>5, <2>1, <3>1
  <2>2. CASE ~SavesAnswer
    BY <1>4, <1>5, <2>2
  <2> QED
    BY <2>1, <2>2
<1>7. Lengths'
  BY <1>3, <1>6 DEF IdsInv, Lengths
<1>8. SlotIdsSaved'
  <2> SUFFICES ASSUME HasDb, NEW k \in DOMAIN cache'.trie, NEW id \in Nat \ {CACHE_SKIP},
                      cache'.trie[k].type = "DEVICE_SLOT", cache'.trie[k].id = id
               PROVE  id \in DOMAIN cache'.dbMetas /\ cache'.dbMetas[id].prefix = k
    BY DEF SlotIdsSaved, ForSlot
  <2>1. k \in DOMAIN Slotted.trie /\ cache'.trie[k] = Slotted.trie[k]
    BY <1>6
  <2>2. CASE k = Key(Computed) /\ Slotted.trie[k] = SlotDst(req.slot, FinalSaveTo)
    <3>1. id = FinalSaveTo
      BY <2>1, <2>2 DEF SlotDst
    <3>2. SavesAnswer
      BY <3>1 DEF SavesAnswer
    <3> QED
      BY <1>6, <2>2, <3>1, <3>2
  <2>3. CASE /\ k \in DOMAIN cache.trie /\ Slotted.trie[k] = cache.trie[k]
             /\ cache.trie[k].slot # req.slot
    <3>1. ForSlot(k, id)
      BY <2>1, <2>3 DEF ForSlot
    <3>2. id \in DOMAIN cache.dbMetas /\ cache.dbMetas[id].prefix = k
      BY <1>1, <2>3, <3>1 DEF IdsInv, SlotIdsSaved
    <3>3. id # req.saveTo
      BY <1>1, <2>3, <3>1 DEF IdsInv, OwnId
    <3>4. id # FinalSaveTo
      BY <3>3 DEF FinalSaveTo
    <3> QED
      BY <1>6, <3>2, <3>4
  <2> QED
    BY <1>5, <2>1, <2>2, <2>3
<1>9. OwnId'
  BY <1>1 DEF OwnId
<1> QED
  BY <1>7, <1>8, <1>9 DEF IdsInv

LEMMA StoppedKeepsIds == IdsInv /\ Stopped => IdsInv'
<1> SUFFICES ASSUME IdsInv, Stopped PROVE IdsInv'
  OBVIOUS
<1>1. pc' = "down" /\ UNCHANGED cache /\ ~Busy'
  BY DEF Stopped, Busy
<1> QED
  BY <1>1 DEF IdsInv, Lengths, SlotIdsSaved, OwnId

LEMMA StartKeepsIds == ServerInv /\ IdsInv /\ Start => IdsInv'
<1> SUFFICES ASSUME ServerInv, IdsInv, Start PROVE IdsInv'
  OBVIOUS
<1>1. cache' = NewManager(db) /\ pc' = "idle" /\ ~Busy' /\ ManagerInv
  BY DEF Start, Busy, ServerInv
<1>2. /\ cache'.dbMetas = cache.dbMetas
      /\ \A k \in DOMAIN cache'.trie : cache'.trie[k].type # "DEVICE_SLOT"
  BY <1>1, NewManagerLists DEF ManagerInv, MemoryMatchesDisk
<1> QED
  BY <1>1, <1>2 DEF IdsInv, Lengths, SlotIdsSaved, OwnId, ForSlot

LEMMA IdsStepKeeps ==
  ASSUME ClientsStay
  PROVE  ServerInv /\ IdsInv /\ [ServerNext]_vars => IdsInv'
<1> SUFFICES ASSUME ServerInv, IdsInv, [ServerNext]_vars PROVE IdsInv'
  OBVIOUS
<1>1. CASE \E prompt \in Prompts, maxTokens \in MaxTokens : Begin(prompt, maxTokens)
  BY <1>1, BeginKeepsIds
<1>2. CASE Scan
  BY <1>2, ScanKeepsIds
<1>3. CASE \E token \in Token, eos \in BOOLEAN : Predict(token, eos)
  BY <1>3, PredictKeepsIds
<1>4. CASE Reply
  BY <1>4, ReplyKeepsIds
<1>5. CASE PositionAssertFails \/ Crash
  BY <1>5, StoppedKeepsIds DEF PositionAssertFails, Crash
<1>6. CASE Start
  BY <1>6, StartKeepsIds
<1>7. CASE UNCHANGED vars
  BY <1>7 DEF vars, IdsInv, Lengths, SlotIdsSaved, OwnId, ForSlot, Busy
<1> QED
  BY <1>1, <1>2, <1>3, <1>4, <1>5, <1>6, <1>7 DEF ServerNext, HandlerStep

LEMMA IdsInvariant ==
  ASSUME ClientsStay
  PROVE  ServerSpec => [](ServerInv /\ IdsInv)
<1>1. ServerInit => ServerInv /\ IdsInv
  BY ServerStarts, IdsStart
<1>2. (ServerInv /\ IdsInv) /\ [ServerNext]_vars => (ServerInv /\ IdsInv)'
  BY ServerStepKeeps, IdsStepKeeps
<1> QED
  BY <1>1, <1>2, PTL DEF ServerSpec

(* What is on disk under an id is what the manager remembers of it.         *)
LEMMA OnDisk ==
  ASSUME ManagerInv
  PROVE  /\ StoredIds(db) = DOMAIN db.store /\ DOMAIN cache.dbMetas = DOMAIN db.store
         /\ \A id \in DOMAIN db.store :
              /\ cache.dbMetas[id].prefix = db.store[id]["prefix"]
              /\ db.store[id]["prefix"] \in Keys /\ id \in Nat \ {0}
<1>1. DbType(db) /\ cache.dbMetas = LoadMetadata(db)
  BY DEF ManagerInv, MemoryMatchesDisk
<1>2. StoredIds(db) = DOMAIN db.store
  BY <1>1 DEF StoredIds, DbType
<1> QED
  BY <1>1, <1>2 DEF LoadMetadata, DbType

(* The handler saves under an id what begins with what is saved there.      *)
LEMMA SavedExtends ==
  ASSUME ServerInv, IdsInv, Busy, req.promptEnd <= req.pos,
         HasDb, req.saveTo # CACHE_SKIP, req.saveTo \in DOMAIN db.store
  PROVE  Begins(db.store[req.saveTo]["prefix"], Key(Computed))
<1> DEFINE old == db.store[req.saveTo]["prefix"]
           asked == SubSeq(req.tokens, 1, req.promptEnd)
<1>1. ManagerInv /\ Shape /\ Progress
  BY DEF ServerInv
<1>2. /\ old \in Seq(Token) /\ req.saveTo \in DOMAIN cache.dbMetas
      /\ cache.dbMetas[req.saveTo].prefix = old
  BY <1>1, OnDisk DEF Keys
<1>3. Begins(old, asked) /\ Len(old) <= MaxLen
  BY <1>2 DEF IdsInv, OwnId, Lengths
<1>4. /\ req.tokens \in Seq(Token) /\ req.promptEnd \in Nat /\ req.pos \in Nat
      /\ req.pos > 0 /\ req.pos <= Len(req.tokens)
  BY <1>1, ComputedTokens DEF Shape, Progress
<1>5. /\ Len(asked) = req.promptEnd
      /\ \A i \in 1 .. req.promptEnd : asked[i] = req.tokens[i]
      /\ Len(Computed) = req.pos
      /\ \A i \in 1 .. req.pos : Computed[i] = req.tokens[i]
  <2>1. req.promptEnd <= Len(req.tokens)
    BY <1>4
  <2> QED
    BY <1>4, <2>1 DEF Computed
<1> HIDE DEF old, asked
<1>6. Begins(old, Computed)
  <2>1. Len(old) \in Nat
    BY <1>2
  <2> QED
    BY <1>3, <1>4, <1>5, <2>1 DEF Begins
<1>7. Begins(old, Key(Computed))
  BY <1>1, <1>2, <1>3, <1>4, <1>6, KeyIsShort, KeyBegins
<1> QED
  BY <1>7 DEF old

Grows ==
  \A id \in StoredIds(db) :
    /\ id \in StoredIds(db')
    /\ \A i \in DOMAIN db.store[id]["prefix"] :
         /\ i \in DOMAIN db'.store[id]["prefix"]
         /\ db'.store[id]["prefix"][i] = db.store[id]["prefix"][i]

LEMMA GrowsUntouched ==
  ASSUME ManagerInv, ManagerInv', db'.store = db.store
  PROVE  Grows
BY OnDisk DEF Grows, StoredIds

LEMMA GrowsWhenSaved ==
  ASSUME ServerInv, ServerInv', IdsInv, Busy, req.promptEnd <= req.pos,
         HasDb, req.saveTo # CACHE_SKIP, NEW m, NEW rows,
         db' = Saved(db, req.saveTo, m, rows, req.pos, Computed)
  PROVE  Grows
<1>1. ManagerInv /\ ManagerInv' /\ Shape /\ Progress
  BY DEF ServerInv
<1>2. /\ DOMAIN db'.store = DOMAIN db.store \cup {req.saveTo}
      /\ \A i \in DOMAIN db.store \ {req.saveTo} : db'.store[i] = db.store[i]
      /\ db'.store[req.saveTo]["prefix"] = Key(Computed)
  BY SavedEffect
<1>3. StoredIds(db) = DOMAIN db.store /\ StoredIds(db') = DOMAIN db'.store
  BY <1>1 DEF ManagerInv, DbType, StoredIds
<1>4. ASSUME NEW id \in DOMAIN db.store
      PROVE  Begins(db.store[id]["prefix"], db'.store[id]["prefix"])
  <2>1. CASE id = req.saveTo
    BY <1>2, <2>1, SavedExtends
  <2>2. CASE id # req.saveTo
    <3>1. db.store[id]["prefix"] \in Seq(Token)
      BY <1>1, OnDisk DEF Keys
    <3> QED
      BY <1>2, <2>2, <3>1 DEF Begins
  <2> QED
    BY <2>1, <2>2
<1>5. \A id \in DOMAIN db.store :
        /\ db.store[id]["prefix"] \in Seq(Token) /\ db'.store[id]["prefix"] \in Seq(Token)
  <2>1. \A id \in DOMAIN db'.store : db'.store[id]["prefix"] \in Keys
    BY <1>1 DEF ManagerInv, DbType
  <2> QED
    BY <1>1, <1>2, <2>1, OnDisk DEF Keys
<1> SUFFICES ASSUME NEW id \in DOMAIN db.store, NEW i \in DOMAIN db.store[id]["prefix"]
             PROVE  /\ i \in DOMAIN db'.store[id]["prefix"]
                    /\ db'.store[id]["prefix"][i] = db.store[id]["prefix"][i]
  BY <1>2, <1>3 DEF Grows
<1>6. /\ Len(db.store[id]["prefix"]) <= Len(db'.store[id]["prefix"])
      /\ \A j \in 1 .. Len(db.store[id]["prefix"]) :
           db'.store[id]["prefix"][j] = db.store[id]["prefix"][j]
  BY <1>4 DEF Begins
<1> QED
  BY <1>5, <1>6

LEMMA StepGrows ==
  ASSUME ClientsStay, ServerInv, ServerInv', IdsInv, [ServerNext]_vars
  PROVE  Grows
<1>1. ManagerInv /\ ManagerInv' /\ Shape /\ Progress
  BY DEF ServerInv
<1>2. CASE \E prompt \in Prompts, maxTokens \in MaxTokens : Begin(prompt, maxTokens)
  BY <1>1, <1>2, GrowsUntouched DEF Begin
<1>3. CASE Scan
  BY <1>1, <1>3, GrowsUntouched DEF Scan
<1>4. CASE \E token \in Token, eos \in BOOLEAN : Predict(token, eos)
  <2>1. PICK token \in Token, eos \in BOOLEAN : Predict(token, eos)
    BY <1>4
  <2>2. Busy /\ req.promptEnd <= req.pos
    BY <1>1, <2>1 DEF Predict, Busy, Progress
  <2>3. CASE SavesPrompt
    <3>1. PICK rows : db' = Saved(db, req.saveTo, cache, rows, req.pos, Computed)
      BY <2>1, <2>3 DEF Predict, Saved
    <3> QED
      BY <2>2, <2>3, <3>1, GrowsWhenSaved DEF SavesPrompt
  <2>4. CASE ~SavesPrompt
    <3>1. db' = db
      BY <2>1, <2>4 DEF Predict
    <3> QED
      BY <1>1, <3>1, GrowsUntouched
  <2> QED
    BY <2>3, <2>4
<1>5. CASE Reply
  <2>1. /\ Busy /\ req.promptEnd <= req.pos
        /\ db' = IF SavesAnswer
                 THEN Saved(db, FinalSaveTo, Slotted, Left, req.pos, Computed) ELSE db
    <3>1. pc = "reply" /\ req.promptEnd \in Nat /\ req.pos \in Nat
      BY <1>1, <1>5, Replied DEF Shape
    <3> QED
      BY <1>1, <1>5, <3>1, Replied DEF Busy, Progress, ClientsStay
  <2>2. CASE SavesAnswer
    <3>1. HasDb /\ FinalSaveTo = req.saveTo /\ req.saveTo # CACHE_SKIP
      BY <2>2 DEF SavesAnswer, FinalSaveTo
    <3> QED
      BY <2>1, <2>2, <3>1, GrowsWhenSaved
  <2>3. CASE ~SavesAnswer
    BY <1>1, <2>1, <2>3, GrowsUntouched
  <2> QED
    BY <2>2, <2>3
<1>6. CASE PositionAssertFails \/ Crash
  BY <1>1, <1>6, GrowsUntouched DEF PositionAssertFails, Crash, Stopped, Reopened
<1>7. CASE Start
  BY <1>1, <1>7, GrowsUntouched DEF Start
<1>8. CASE UNCHANGED vars
  BY <1>1, <1>8, GrowsUntouched DEF vars
<1> QED
  BY <1>2, <1>3, <1>4, <1>5, <1>6, <1>7, <1>8 DEF ServerNext, HandlerStep

(* Saving never replaces what is saved under an id by something that does   *)
(* not begin with it, whatever the requests and with crashes between any    *)
(* two steps (dllama-api.cpp:134, 141, 150): two requests never write to    *)
(* one id by turns.                                                         *)
THEOREM ConversationsOnlyGrow ==
  ASSUME Disconnects \subseteq {"prompt"}
  PROVE  ServerSpec => SavedPrefixesOnlyGrow
<1>1. ClientsStay
  BY DEF ClientsStay
<1>2. (ServerInv /\ IdsInv) /\ (ServerInv /\ IdsInv)' /\ [ServerNext]_vars => [Grows]_vars
  BY <1>1, StepGrows
<1>3. ServerSpec => [][Grows]_vars
  BY <1>1, <1>2, IdsInvariant, PTL DEF ServerSpec
<1> QED
  BY <1>3, PTL DEF SavedPrefixesOnlyGrow, Grows

-----------------------------------------------------------------------------
(* Rows.  The program has one slot (app.cpp:31, args.nSlots, which no       *)
(* option changes).                                                         *)
OneSlot == NumSlots = 1

LEMMA TheSlot ==
  ASSUME OneSlot, Shape
  PROVE  Slots = {0} /\ req.slot = 0 /\ execSlot = 0
BY DEF OneSlot, Slots, Shape

LEMMA NoRows ==
  ASSUME NEW rows \in Seq(Rows)
  PROVE  RowsOf(rows, <<>>)
BY DEF RowsOf

(* The rows read from disk are those of the prefix the manager remembers.   *)
LEMMA ReadRight ==
  ASSUME ManagerInv, SavedRowsMatchPrefix, NEW id \in DOMAIN cache.dbMetas
  PROVE  /\ RowsOf(ReadRows(db, id), cache.dbMetas[id].prefix)
         /\ id # CACHE_SKIP
<1>1. /\ id \in DOMAIN db.store /\ id \in StoredIds(db) /\ id \in Nat \ {0}
      /\ cache.dbMetas[id].prefix = db.store[id]["prefix"]
  BY OnDisk
<1>2. "kv" \in DOMAIN db.store[id] /\ RowsOf(db.store[id]["kv"], db.store[id]["prefix"])
  BY <1>1 DEF SavedRowsMatchPrefix
<1>3. ReadRows(db, id) = db.store[id]["kv"]
  BY <1>1, <1>2 DEF ReadRows, BuffersOf
<1> QED
  BY <1>1, <1>2, <1>3 DEF CACHE_SKIP

(* Where the manager found a prefix, its rows are.                          *)
LEMMA FoundRows ==
  ASSUME ServerInv, RowsInv, pc = "idle", NEW k \in DOMAIN cache.trie
  PROVE  /\ cache.trie[k].type = "DEVICE_SLOT" => RowsOf(kv[cache.trie[k].slot], k)
         /\ cache.trie[k].type = "DB" =>
              RowsOf(ReadRows(db, cache.trie[k].id), k) /\ cache.trie[k].id # CACHE_SKIP
<1>1. ManagerInv
  BY DEF ServerInv
<1>2. cache.trie[k] \in Dsts
  BY <1>1 DEF ManagerInv, ManagerType
<1>3. ASSUME cache.trie[k].type = "DEVICE_SLOT"
      PROVE  RowsOf(kv[cache.trie[k].slot], k)
  <2>1. cache.trie[k].slot \in Slots
    BY <1>2, <1>3 DEF Dsts
  <2>2. cache.deviceSlots[cache.trie[k].slot].prefix = k
    BY <1>1, <1>3 DEF ManagerInv, SlotsMatchTrie
  <2> QED
    BY <2>1, <2>2 DEF RowsInv, SlotsHoldTheirPrefix
<1>4. ASSUME cache.trie[k].type = "DB"
      PROVE  RowsOf(ReadRows(db, cache.trie[k].id), k) /\ cache.trie[k].id # CACHE_SKIP
  <2>1. /\ cache.trie[k].id \in DOMAIN cache.dbMetas
        /\ cache.dbMetas[cache.trie[k].id].prefix = k
    BY <1>1, <1>4 DEF ManagerInv, DbEntriesMatch
  <2> QED
    BY <1>1, <2>1, ReadRight DEF RowsInv
<1> QED
  BY <1>3, <1>4

(* The rows a request begins with are those of the tokens it need not       *)
(* compute (dllama-api.cpp:118-152).                                        *)
LEMMA RowsAtStart ==
  ASSUME ServerInv, RowsInv, pc = "idle", NEW prompt \in Prompts, NEW plan,
         NEW hit \in Lookup(cache, SubSeq(prompt, 1, Len(prompt) - 1)),
         Plans(prompt, hit, plan)
  PROVE  RowsOf(Loaded(kv[plan.slot], plan.loadFrom), SubSeq(prompt, 1, plan.start))
<1> DEFINE known == SubSeq(prompt, 1, Len(prompt) - 1)
           front == SubSeq(prompt, 1, plan.start)
<1>1. /\ ManagerInv /\ Files /\ kv \in [Slots -> Seq(Rows)]
      /\ DOMAIN cache.trie \subseteq Keys
      /\ \A k \in DOMAIN cache.trie : cache.trie[k] \in Dsts
  BY DEF ServerInv, Shape, ManagerInv, ManagerType
<1>2. /\ prompt \in Seq(Token) /\ known \in Seq(Token) /\ Len(known) = Len(prompt) - 1
      /\ Len(prompt) \in Nat \ {0}
      /\ \A i \in 1 .. Len(prompt) - 1 : known[i] = prompt[i]
  BY PromptFits
<1>3. plan.start \in 0 .. Len(prompt) - 1 /\ plan.slot \in Slots
  BY DEF Plans
<1>4. /\ front \in Seq(Token) /\ Len(front) = plan.start
      /\ \A i \in 1 .. plan.start : front[i] = prompt[i]
  BY <1>2, <1>3
<1>5. kv[plan.slot] \in Seq(Rows)
  BY <1>1, <1>3
<1> HIDE DEF known
<1>6. CASE hit = Miss
  <2>1. plan.start = 0 /\ plan.loadFrom = CACHE_SKIP
    BY <1>6 DEF Plans
  <2>2. front = <<>>
    BY <1>4, <2>1
  <2> HIDE DEF front
  <2>3. Loaded(kv[plan.slot], plan.loadFrom) = kv[plan.slot]
    BY <2>1 DEF Loaded
  <2> QED
    BY <1>5, <2>2, <2>3, NoRows DEF front
<1>7. CASE hit # Miss
  <2>1. plan.start = hit.matchLen
        /\ (hit.dst.type = "DEVICE_SLOT" => plan.slot = hit.dst.slot /\ plan.loadFrom = CACHE_SKIP)
        /\ (hit.dst.type = "DB" => plan.loadFrom = hit.dst.id)
    BY <1>7 DEF Plans
  <2>2. PICK k : Hits(cache, known, hit, k)
    BY <1>1, <1>2, <1>7, LookupHits DEF known
  <2>3. /\ k \in DOMAIN cache.trie /\ hit.dst = cache.trie[k] /\ k \in Seq(Token)
        /\ hit.matchLen <= Len(k)
        /\ \A i \in 1 .. hit.matchLen : known[i] = k[i]
    BY <1>1, <2>2 DEF Hits, Keys
  <2> HIDE DEF front
  <2>4. Begins(front, k)
    BY <1>2, <1>3, <1>4, <2>1, <2>3 DEF Begins
  <2>5. hit.dst.type = "DEVICE_SLOT" \/ hit.dst.type = "DB"
    BY <1>1, <2>3 DEF Dsts
  <2>6. RowsOf(IF plan.loadFrom = CACHE_SKIP THEN kv[plan.slot]
               ELSE ReadRows(db, plan.loadFrom), k)
    BY <2>1, <2>3, <2>5, FoundRows
  <2>7. RowsOf(Loaded(kv[plan.slot], plan.loadFrom), k)
    BY <1>1, <1>5, <2>3, <2>6, LoadedRight
  <2>8. Loaded(kv[plan.slot], plan.loadFrom) \in Seq(Rows)
    BY <1>1, <1>5, LoadedRows
  <2> QED
    BY <1>4, <2>3, <2>4, <2>7, <2>8, RowsOfBeginning DEF front
<1> QED
  BY <1>6, <1>7

LEMMA BeginKeepsRows ==
  ASSUME ServerInv, RowsInv, NEW prompt \in Prompts, NEW maxTokens \in MaxTokens,
         Begin(prompt, maxTokens)
  PROVE  RowsInv'
<1>1. pc = "idle" /\ UNCHANGED <<db, kv, logits>>
  BY DEF Begin
<1>2. PICK hit \in Lookup(cache, SubSeq(prompt, 1, Len(prompt) - 1)) : \E plan :
        /\ Plans(prompt, hit, plan)
        /\ cache' = IF plan.reused = CACHE_SKIP THEN TakeCacheId(cache) ELSE cache
        /\ Enters(plan) \/ ("prompt" \in Disconnects /\ UNCHANGED <<req, pc>>)
  BY Begun
<1>3. PICK plan :
        /\ Plans(prompt, hit, plan)
        /\ cache' = IF plan.reused = CACHE_SKIP THEN TakeCacheId(cache) ELSE cache
        /\ Enters(plan) \/ ("prompt" \in Disconnects /\ UNCHANGED <<req, pc>>)
  BY <1>2
<1>4. NothingStaged' /\ SavedRowsMatchPrefix'
  BY <1>1 DEF RowsInv, NothingStaged, SavedRowsMatchPrefix, StoredIds
<1>5. SlotsHoldTheirPrefix'
  <2>1. cache'.deviceSlots = cache.deviceSlots
    BY <1>3 DEF TakeCacheId
  <2> QED
    BY <1>1, <2>1 DEF RowsInv, SlotsHoldTheirPrefix
<1>6. CASE Enters(plan)
  <2>1. /\ req'.slot = plan.slot /\ req'.start = plan.start /\ req'.pos = plan.start
        /\ req'.loadFrom = plan.loadFrom /\ req'.tokens = prompt
        /\ req'.promptEnd = plan.promptEnd /\ plan.start \in 0 .. plan.promptEnd
        /\ plan.promptEnd \in Nat /\ pc' \in {"scan", "predict"}
    BY <1>3, <1>6 DEF Enters, Plans
  <2>2. /\ Computed' = SubSeq(prompt, 1, plan.start)
        /\ LoadNow' = plan.loadFrom
    BY <2>1 DEF Computed, LoadNow
  <2>3. Loaded(kv[req.slot], LoadNow)' = Loaded(kv[plan.slot], plan.loadFrom)
    BY <1>1, <2>1, <2>2 DEF Loaded, ReadRows
  <2>4. RowsOf(Loaded(kv[plan.slot], plan.loadFrom), SubSeq(prompt, 1, plan.start))
    BY <1>1, <1>3, RowsAtStart
  <2>5. InHand'
    BY <2>1, <2>2, <2>3, <2>4 DEF InHand
  <2>6. AnswersFromOwnPrompt'
    BY <2>1 DEF AnswersFromOwnPrompt
  <2> QED
    BY <1>4, <1>5, <2>5, <2>6 DEF RowsInv
<1>7. CASE UNCHANGED <<req, pc>>
  BY <1>1, <1>4, <1>5, <1>7 DEF RowsInv, InHand, AnswersFromOwnPrompt
<1> QED
  BY <1>3, <1>6, <1>7

LEMMA OneToken ==
  ASSUME NEW tokens \in Seq(Token), NEW n \in 1 .. Len(tokens)
  PROVE  SubSeq(tokens, n, n) = <<tokens[n]>>
<1> DEFINE one == SubSeq(tokens, n, n)
<1>1. one \in Seq(Token) /\ Len(one) = 1
  OBVIOUS
<1>2. one[1] = tokens[n]
  BY SubSeqProperties
<1> HIDE DEF one
<1>3. one = <<one[1]>>
  BY <1>1
<1>4. one = <<tokens[n]>>
  BY <1>2, <1>3
<1> QED
  BY <1>4 DEF one

(* One forward pass of the request: what it computes are the rows of the    *)
(* request's own tokens, and its logits those of all of them.               *)
LEMMA PassRight ==
  ASSUME ServerInv, RowsInv, pc \in {"scan", "predict"},
         NEW end \in req.pos .. Len(req.tokens)
  PROVE  LET rows   == Loaded(kv[req.slot], LoadNow)
             tokens == SubSeq(req.tokens, req.pos + 1, end)
         IN  /\ Forwarded(rows, req.pos, tokens) \in Seq(Rows)
             /\ RowsOf(Forwarded(rows, req.pos, tokens), SubSeq(req.tokens, 1, end))
             /\ Extended(Attended(rows, req.pos), tokens) = SubSeq(req.tokens, 1, end)
<1> DEFINE rows   == Loaded(kv[req.slot], LoadNow)
           tokens == SubSeq(req.tokens, req.pos + 1, end)
<1>1. Shape /\ Progress /\ Files /\ Busy
  BY DEF ServerInv, Busy
<1>2. /\ req.tokens \in Seq(Token) /\ req.pos \in 0 .. Len(req.tokens) /\ req.pos \in Nat
      /\ kv[req.slot] \in Seq(Rows)
  BY <1>1, ComputedTokens DEF Shape
<1>3. rows \in Seq(Rows)
  BY <1>1, <1>2, LoadedRows
<1>4. RowsOf(rows, SubSeq(req.tokens, 1, req.pos))
  BY DEF RowsInv, InHand, Computed
<1>5. tokens \in Seq(Token)
  BY <1>2
<1> HIDE DEF rows
<1>6. Forwarded(rows, req.pos, tokens) \in Seq(Rows)
  BY <1>2, <1>3, <1>5, ForwardedRows
<1>7. /\ RowsOf(Forwarded(rows, req.pos, tokens), SubSeq(req.tokens, 1, end))
      /\ Extended(Attended(rows, req.pos), tokens) = SubSeq(req.tokens, 1, end)
  BY <1>2, <1>3, <1>4, ForwardedRight
<1> QED
  BY <1>6, <1>7 DEF rows

(* The rows of the tokens before the last ones computed.                    *)
LEMMA RowsBefore ==
  ASSUME NEW rows \in Seq(Rows), NEW tokens \in Seq(Token),
         NEW end \in 0 .. Len(tokens), NEW pos \in 0 .. end,
         RowsOf(rows, SubSeq(tokens, 1, end))
  PROVE  RowsOf(rows, SubSeq(tokens, 1, pos))
<1>1. /\ SubSeq(tokens, 1, end) \in Seq(Token) /\ Len(SubSeq(tokens, 1, end)) = end
      /\ \A i \in 1 .. end : SubSeq(tokens, 1, end)[i] = tokens[i]
      /\ SubSeq(tokens, 1, pos) \in Seq(Token) /\ Len(SubSeq(tokens, 1, pos)) = pos
      /\ \A i \in 1 .. pos : SubSeq(tokens, 1, pos)[i] = tokens[i]
  OBVIOUS
<1>2. Begins(SubSeq(tokens, 1, pos), SubSeq(tokens, 1, end))
  BY <1>1 DEF Begins
<1> QED
  BY <1>1, <1>2, RowsOfBeginning

(* Rows saved with their prefix.                                            *)
LEMMA RowsSaved ==
  ASSUME NothingStaged, SavedRowsMatchPrefix, NEW id, NEW m,
         NEW rows \in Seq(Rows), NEW tokens \in Keys, RowsOf(rows, tokens),
         db' = Saved(db, id, m, rows, Len(tokens), tokens)
  PROVE  NothingStaged' /\ SavedRowsMatchPrefix'
<1>1. /\ DOMAIN db'.store = DOMAIN db.store \cup {id}
      /\ DOMAIN db'.stage = DOMAIN db.stage \ {id}
      /\ \A i \in DOMAIN db.store \ {id} : db'.store[i] = db.store[i]
      /\ "kv" \in DOMAIN db'.store[id]
      /\ db'.store[id]["kv"] = SubSeq(rows, 1, Len(tokens))
      /\ db'.store[id]["prefix"] = Key(tokens)
  BY SavedEffect
<1>2. RowsOf(SubSeq(rows, 1, Len(tokens)), Key(tokens))
  <2>1. tokens \in Seq(Token) /\ Key(tokens) \in Seq(Token) /\ Begins(Key(tokens), tokens)
    BY KeyBegins DEF Keys
  <2>2. /\ SubSeq(rows, 1, Len(tokens)) \in Seq(Rows)
        /\ RowsOf(SubSeq(rows, 1, Len(tokens)), tokens)
    BY <2>1, RowsOfFront
  <2> QED
    BY <2>1, <2>2, RowsOfBeginning
<1>3. NothingStaged'
  BY <1>1 DEF NothingStaged
<1>4. ASSUME NEW i \in StoredIds(db')
      PROVE  /\ "kv" \in DOMAIN db'.store[i]
             /\ RowsOf(db'.store[i]["kv"], db'.store[i]["prefix"])
  <2>1. i \in DOMAIN db'.store /\ "lru" \in DOMAIN db'.store[i]
    BY DEF StoredIds
  <2>2. CASE i = id
    BY <1>1, <1>2, <2>2
  <2>3. CASE i # id
    <3>1. i \in StoredIds(db) /\ db'.store[i] = db.store[i]
      BY <1>1, <2>1, <2>3 DEF StoredIds
    <3> QED
      BY <3>1 DEF SavedRowsMatchPrefix
  <2> QED
    BY <2>2, <2>3
<1> QED
  BY <1>3, <1>4 DEF SavedRowsMatchPrefix

LEMMA ScanKeepsRows == ServerInv /\ RowsInv /\ Scan => RowsInv'
<1> SUFFICES ASSUME ServerInv, RowsInv, Scan PROVE RowsInv'
  OBVIOUS
<1> DEFINE rows  == Loaded(kv[req.slot], LoadNow)
           end   == req.pos + BatchSize
           after == Forwarded(rows, req.pos, SubSeq(req.tokens, req.pos + 1, end))
<1>1. Shape /\ Progress /\ pc = "scan" /\ Busy
  BY DEF ServerInv, Scan, Busy
<1>2. /\ kv' = [kv EXCEPT ![req.slot] = after]
      /\ req' = [req EXCEPT !.pos = @ + BatchSize]
      /\ pc' \in {"scan", "predict"}
      /\ UNCHANGED <<cache, db>>
  BY DEF Scan
<1>3. /\ BatchSize \in Nat \ {0} /\ end <= req.promptEnd
      /\ end \in req.pos .. Len(req.tokens)
  BY <1>1, BatchFits
<1>4. RowsOf(after, SubSeq(req.tokens, 1, end))
  BY <1>1, <1>3, PassRight
<1>5. /\ req'.pos = end /\ req'.slot = req.slot /\ req'.start = req.start
      /\ req'.tokens = req.tokens /\ req'.promptEnd = req.promptEnd
      /\ req.slot \in Slots /\ req.start \in Nat /\ req.pos \in Nat /\ req.start <= req.pos
      /\ req.promptEnd \in Nat
  BY <1>1, <1>2 DEF Shape, Progress, NoRequest
<1> HIDE DEF after
<1>6. kv'[req.slot] = after
  BY <1>1, <1>2, <1>5 DEF Shape
<1>7. LoadNow' = CACHE_SKIP
  BY <1>3, <1>5 DEF LoadNow
<1>8. InHand'
  <2>1. Loaded(kv[req.slot], LoadNow)' = after
    BY <1>5, <1>6, <1>7 DEF Loaded
  <2>2. Computed' = SubSeq(req.tokens, 1, end)
    BY <1>5 DEF Computed
  <2> QED
    BY <1>2, <1>4, <2>1, <2>2 DEF InHand
<1>9. AnswersFromOwnPrompt'
  BY <1>3, <1>5 DEF AnswersFromOwnPrompt
<1>10. SlotsHoldTheirPrefix'
  BY <1>2 DEF SlotsHoldTheirPrefix
<1>11. NothingStaged' /\ SavedRowsMatchPrefix'
  BY <1>2 DEF RowsInv, NothingStaged, SavedRowsMatchPrefix, StoredIds
<1> QED
  BY <1>8, <1>9, <1>10, <1>11 DEF RowsInv

LEMMA PredictKeepsRows ==
  ASSUME OneSlot, ClientsStay, ServerInv, RowsInv,
         NEW token \in Token, NEW eos \in BOOLEAN, Predict(token, eos)
  PROVE  RowsInv'
<1> DEFINE rows  == Loaded(kv[req.slot], LoadNow)
           next  == SubSeq(req.tokens, req.pos + 1, req.pos + 1)
           after == Forwarded(rows, req.pos, next)
<1>1. Shape /\ Progress /\ pc = "predict" /\ Busy
  BY DEF ServerInv, Predict, Busy
<1>2. /\ req.tokens \in Seq(Token) /\ req.pos \in Nat /\ req.pos < Len(req.tokens)
      /\ Computed \in Seq(Token) /\ Len(Computed) = req.pos
      /\ req.promptEnd \in Nat \ {0} /\ req.promptEnd <= req.pos
      /\ req.slot \in Slots /\ req.start \in Nat /\ req.start <= req.pos
      /\ req.pos + 1 \in req.pos .. Len(req.tokens)
  <2>1. /\ req.tokens \in Seq(Token) /\ req.pos \in Nat /\ req.pos < Len(req.tokens)
        /\ Computed \in Seq(Token) /\ Len(Computed) = req.pos
    BY <1>1, ComputedTokens DEF Shape
  <2>2. /\ req.promptEnd \in Nat \ {0} /\ req.promptEnd <= req.pos
        /\ req.slot \in Slots /\ req.start \in Nat /\ req.start <= req.pos
    BY <1>1 DEF Shape, Progress
  <2> QED
    BY <2>1, <2>2
<1>3. execSlot = req.slot /\ Slots = {req.slot}
  BY <1>1, TheSlot
<1>4. <<NextToken>> = next
  <2>1. req.pos + 1 \in 1 .. Len(req.tokens)
    BY <1>2
  <2> QED
    BY <1>2, <2>1, OneToken DEF NextToken
<1>5. /\ kv' = [kv EXCEPT ![req.slot] = after]
      /\ logits' = Extended(Attended(rows, req.pos), next)
      /\ db' = IF SavesPrompt THEN Saved(db, req.saveTo, cache, after, req.pos, Computed)
               ELSE db
  <2> HIDE DEF next
  <2> QED
    BY <1>3, <1>4 DEF Predict, Saved
<1>6. /\ req' = [req EXCEPT !.pos = @ + 1, !.tokens = Append(@, token)]
      /\ pc' \in {"predict", "reply"}
  BY DEF Predict, ClientsStay
<1>7. /\ req'.pos = req.pos + 1 /\ req'.tokens = Append(req.tokens, token)
      /\ req'.slot = req.slot /\ req'.start = req.start
  BY <1>1, <1>6 DEF Shape, NoRequest
<1>8. /\ after \in Seq(Rows) /\ RowsOf(after, SubSeq(req.tokens, 1, req.pos + 1))
      /\ logits' = SubSeq(req.tokens, 1, req.pos + 1)
  BY <1>1, <1>2, <1>5, PassRight
<1> HIDE DEF after, next, rows
<1>9. Computed' = SubSeq(req.tokens, 1, req.pos + 1)
  BY <1>2, <1>7 DEF Computed
<1>10. kv'[req.slot] = after
  BY <1>1, <1>2, <1>5 DEF Shape
<1>11. LoadNow' = CACHE_SKIP
  BY <1>2, <1>7 DEF LoadNow
<1>12. InHand'
  <2>1. Loaded(kv[req.slot], LoadNow)' = after /\ kv[req.slot]' = after
    BY <1>7, <1>10, <1>11 DEF Loaded
  <2> QED
    BY <1>8, <1>9, <2>1 DEF InHand
<1>13. AnswersFromOwnPrompt'
  BY <1>8, <1>9 DEF AnswersFromOwnPrompt
<1>14. SlotsHoldTheirPrefix'
  BY <1>6 DEF SlotsHoldTheirPrefix
<1>15. NothingStaged' /\ SavedRowsMatchPrefix'
  <2>1. CASE SavesPrompt
    <3>1. Computed \in Keys
      BY <1>2 DEF Keys
    <3>2. RowsOf(after, Computed)
      BY <1>2, <1>8, RowsBefore DEF Computed
    <3> QED
      BY <1>2, <1>5, <1>8, <2>1, <3>1, <3>2, RowsSaved DEF RowsInv
  <2>2. CASE ~SavesPrompt
    BY <1>5, <2>2 DEF RowsInv, NothingStaged, SavedRowsMatchPrefix, StoredIds
  <2> QED
    BY <2>1, <2>2
<1> QED
  BY <1>12, <1>13, <1>14, <1>15 DEF RowsInv

LEMMA ReplyKeepsRows ==
  ASSUME OneSlot, ClientsStay, ServerInv, RowsInv, Reply
  PROVE  RowsInv'
<1>1. /\ ManagerInv /\ Shape /\ Progress /\ Files /\ pc = "reply" /\ Busy
      /\ pc' = "idle"
  BY Replied DEF ServerInv, Busy
<1>2. /\ req.tokens \in Seq(Token) /\ req.pos \in Nat \ {0} /\ req.pos < Len(req.tokens)
      /\ Computed \in Keys /\ Key(Computed) # <<>> /\ Computed \in Seq(Token)
      /\ Key(Computed) \in Seq(Token) /\ Begins(Key(Computed), Computed)
      /\ Len(Computed) = req.pos /\ req.slot \in Slots
  <2>1. req.pos \in Nat /\ req.promptEnd \in Nat /\ req.pos > 0 /\ req.slot \in Slots
    BY <1>1 DEF Shape, Progress
  <2> QED
    BY <1>1, <2>1, ComputedTokens, KeyIsShort DEF Shape, Keys
<1>3. execSlot = req.slot /\ Slots = {req.slot}
  BY <1>1, TheSlot
<1>4. Left \in Seq(Rows) /\ RowsOf(Left, Computed)
  <2>1. Left \in Seq(Rows)
    BY <1>1, LeftRows
  <2>2. kv[req.slot] \in Seq(Rows) /\ RowsOf(kv[req.slot], Computed)
    BY <1>1 DEF RowsInv, InHand, Shape
  <2>3. CASE SavesAnswer
    <3>1. req.pos + 1 \in 1 .. Len(req.tokens) /\ req.pos \in 0 .. Len(req.tokens)
          /\ req.pos + 1 \in req.pos .. Len(req.tokens)
      BY <1>2
    <3>2. <<NextToken>> = SubSeq(req.tokens, req.pos + 1, req.pos + 1)
      BY <1>2, <3>1, OneToken DEF NextToken
    <3>3. RowsOf(Left, SubSeq(req.tokens, 1, req.pos + 1))
      BY <1>2, <1>3, <2>2, <2>3, <3>1, <3>2, ForwardedRight DEF Left, Computed
    <3>4. req.pos + 1 \in 0 .. Len(req.tokens) /\ req.pos \in 0 .. req.pos + 1
      BY <1>2
    <3> QED
      BY <1>2, <2>1, <3>3, <3>4, RowsBefore DEF Computed
  <2>4. CASE ~SavesAnswer
    BY <1>3, <2>1, <2>2, <2>4 DEF Left
  <2> QED
    BY <2>1, <2>3, <2>4
<1>5. /\ kv' = [kv EXCEPT ![req.slot] = Left]
      /\ cache' = IF SavesAnswer THEN UpdateMetadata(Slotted, FinalSaveTo, Computed)
                  ELSE Slotted
      /\ db' = IF SavesAnswer
               THEN Saved(db, FinalSaveTo, Slotted, Left, req.pos, Computed) ELSE db
  BY <1>3, Replied DEF ClientsStay
<1>6. cache'.deviceSlots[req.slot].prefix \in {<<>>, Key(Computed)}
  <2>1. Slotted.deviceSlots[req.slot].prefix \in {<<>>, Key(Computed)}
    <3>1. /\ cache.deviceSlots \in [Slots -> Described] /\ DOMAIN cache.trie \subseteq Keys
          /\ SlotsMatchTrie(cache)
      BY <1>1 DEF ManagerInv, ManagerType
    <3> QED
      BY <1>2, <3>1, SlotEffect DEF Slotted
  <2>2. cache'.deviceSlots = Slotted.deviceSlots
    BY <1>5, MetadataEffect
  <2> QED
    BY <2>1, <2>2
<1>7. SlotsHoldTheirPrefix'
  <2>1. kv'[req.slot] = Left
    BY <1>1, <1>2, <1>5 DEF Shape
  <2>2. RowsOf(Left, <<>>) /\ RowsOf(Left, Key(Computed))
    BY <1>2, <1>4, NoRows, RowsOfBeginning
  <2> QED
    BY <1>3, <1>6, <2>1, <2>2 DEF SlotsHoldTheirPrefix
<1>8. NothingStaged' /\ SavedRowsMatchPrefix'
  <2>1. CASE SavesAnswer
    BY <1>2, <1>4, <1>5, <2>1, RowsSaved DEF RowsInv
  <2>2. CASE ~SavesAnswer
    BY <1>5, <2>2 DEF RowsInv, NothingStaged, SavedRowsMatchPrefix, StoredIds
  <2> QED
    BY <2>1, <2>2
<1>9. InHand' /\ AnswersFromOwnPrompt'
  BY <1>1 DEF InHand, AnswersFromOwnPrompt
<1> QED
  BY <1>7, <1>8, <1>9 DEF RowsInv

LEMMA StoppedKeepsRows == RowsInv /\ Stopped => RowsInv'
<1> SUFFICES ASSUME RowsInv, Stopped PROVE RowsInv'
  OBVIOUS
<1>1. pc' = "down" /\ db' = Reopened(db)
  BY DEF Stopped
<1>2. NothingStaged' /\ db'.store = db.store
  BY <1>1 DEF NothingStaged, Reopened, EmptyMap
<1> QED
  BY <1>1, <1>2 DEF RowsInv, SavedRowsMatchPrefix, StoredIds, SlotsHoldTheirPrefix,
                    InHand, AnswersFromOwnPrompt

LEMMA StartKeepsRows == ServerInv /\ RowsInv /\ Start => RowsInv'
<1> SUFFICES ASSUME ServerInv, RowsInv, Start PROVE RowsInv'
  OBVIOUS
<1>1. pc' = "idle" /\ cache' = NewManager(db) /\ UNCHANGED <<db, kv>>
  BY DEF Start
<1>2. SlotsHoldTheirPrefix'
  <2>1. \A s \in Slots : cache'.deviceSlots[s].prefix = <<>> /\ kv'[s] \in Seq(Rows)
    BY <1>1, NewManagerLists DEF ServerInv, Shape
  <2> QED
    BY <2>1, NoRows DEF SlotsHoldTheirPrefix
<1>3. NothingStaged' /\ SavedRowsMatchPrefix'
  BY <1>1 DEF RowsInv, NothingStaged, SavedRowsMatchPrefix, StoredIds
<1> QED
  BY <1>1, <1>2, <1>3 DEF RowsInv, InHand, AnswersFromOwnPrompt

LEMMA RowsStart == ServerInit => RowsInv
<1> SUFFICES ASSUME ServerInit PROVE RowsInv
  OBVIOUS
<1>1. /\ pc = "idle" /\ kv = [s \in Slots |-> <<>>]
      /\ db = EmptyDb /\ cache = NewManager(EmptyDb)
  BY DEF ServerInit, ManagerInit
<1>2. NothingStaged /\ SavedRowsMatchPrefix
  BY <1>1 DEF NothingStaged, SavedRowsMatchPrefix, StoredIds, EmptyDb, EmptyMap
<1>3. SlotsHoldTheirPrefix
  <2>1. \A s \in Slots : cache.deviceSlots[s].prefix = <<>> /\ kv[s] = <<>>
    BY <1>1, NewManagerLists
  <2>2. RowsOf(<<>>, <<>>)
    BY DEF RowsOf
  <2> QED
    BY <2>1, <2>2 DEF SlotsHoldTheirPrefix
<1> QED
  BY <1>1, <1>2, <1>3 DEF RowsInv, InHand, AnswersFromOwnPrompt

LEMMA RowsStepKeeps ==
  ASSUME OneSlot, ClientsStay
  PROVE  ServerInv /\ RowsInv /\ [ServerNext]_vars => RowsInv'
<1> SUFFICES ASSUME ServerInv, RowsInv, [ServerNext]_vars PROVE RowsInv'
  OBVIOUS
<1>1. CASE \E prompt \in Prompts, maxTokens \in MaxTokens : Begin(prompt, maxTokens)
  BY <1>1, BeginKeepsRows
<1>2. CASE Scan
  BY <1>2, ScanKeepsRows
<1>3. CASE \E token \in Token, eos \in BOOLEAN : Predict(token, eos)
  BY <1>3, PredictKeepsRows
<1>4. CASE Reply
  BY <1>4, ReplyKeepsRows
<1>5. CASE PositionAssertFails \/ Crash
  BY <1>5, StoppedKeepsRows DEF PositionAssertFails, Crash
<1>6. CASE Start
  BY <1>6, StartKeepsRows
<1>7. CASE UNCHANGED vars
  BY <1>7 DEF vars, RowsInv, NothingStaged, SavedRowsMatchPrefix, StoredIds,
              SlotsHoldTheirPrefix, InHand, LoadNow, Loaded, ReadRows, Computed,
              AnswersFromOwnPrompt
<1> QED
  BY <1>1, <1>2, <1>3, <1>4, <1>5, <1>6, <1>7 DEF ServerNext, HandlerStep

LEMMA RowsInvariant ==
  ASSUME OneSlot, ClientsStay
  PROVE  ServerSpec => [](ServerInv /\ RowsInv)
<1>1. ServerInit => ServerInv /\ RowsInv
  BY ServerStarts, RowsStart
<1>2. (ServerInv /\ RowsInv) /\ [ServerNext]_vars => (ServerInv /\ RowsInv)'
  BY ServerStepKeeps, RowsStepKeeps
<1> QED
  BY <1>1, <1>2, PTL DEF ServerSpec

(* What is on disk under an id are the rows of the prefix saved with it, at *)
(* every moment and after every crash (dllama-api.cpp:201-206, 240-246,     *)
(* 270-273), for every model size, prompt and batch.                        *)
THEOREM RowsOnDiskAreRight ==
  ASSUME NumSlots = 1, Disconnects \subseteq {"prompt"}
  PROVE  ServerSpec => []SavedRowsMatchPrefix
<1>1. OneSlot /\ ClientsStay
  BY DEF OneSlot, ClientsStay
<1>2. RowsInv => SavedRowsMatchPrefix
  BY DEF RowsInv
<1> QED
  BY <1>1, <1>2, RowsInvariant, PTL

(* Between two requests the slot holds the rows of the prefix that the      *)
(* manager lists for it (dllama-api.cpp:131-136, 268).                      *)
THEOREM SlotsAreRight ==
  ASSUME NumSlots = 1, Disconnects \subseteq {"prompt"}
  PROVE  ServerSpec => []SlotsHoldTheirPrefix
<1>1. OneSlot /\ ClientsStay
  BY DEF OneSlot, ClientsStay
<1>2. RowsInv => SlotsHoldTheirPrefix
  BY DEF RowsInv
<1> QED
  BY <1>1, <1>2, RowsInvariant, PTL

(* Every sampled token was computed from all the tokens of its request and  *)
(* no others, whatever the cache contributed (dllama-api.cpp:131-152,       *)
(* 195-236).                                                                *)
THEOREM AnswersAreOwn ==
  ASSUME NumSlots = 1, Disconnects \subseteq {"prompt"}
  PROVE  ServerSpec => []AnswersFromOwnPrompt
<1>1. OneSlot /\ ClientsStay
  BY DEF OneSlot, ClientsStay
<1>2. RowsInv => AnswersFromOwnPrompt
  BY DEF RowsInv
<1> QED
  BY <1>1, <1>2, RowsInvariant, PTL

-----------------------------------------------------------------------------
(* The server implements Completion.                                        *)

Shown == <<IF pc \in {"idle", "down"} THEN "idle" ELSE "busy", req.tokens,
           IF req.pos > req.promptEnd THEN logits ELSE <<>> >>

LEMMA NothingShown ==
  ASSUME pc \in {"idle", "down"}, req = NoRequest
  PROVE  Promise!Idle /\ Shown = <<"idle", <<>>, <<>> >>
BY DEF Promise!Idle, Shown, NoRequest

LEMMA ShownStep ==
  ASSUME ServerInv, ServerInv', RowsInv', [ServerNext]_vars
  PROVE  Promise!CompletionNext \/ UNCHANGED Shown
<1>1. Shape /\ Progress /\ Shape' /\ Progress'
  BY DEF ServerInv
<1>2. ASSUME pc \in {"idle", "down"}
      PROVE  req = NoRequest /\ Promise!Idle /\ Shown = <<"idle", <<>>, <<>> >>
  BY <1>1, <1>2, NothingShown DEF Progress
<1>3. ASSUME pc' \in {"idle", "down"}
      PROVE  Promise!Idle' /\ Shown' = <<"idle", <<>>, <<>> >>
  BY <1>1, <1>3 DEF Progress, Promise!Idle, Shown, NoRequest
<1>4. ASSUME Busy, pc' \in {"idle", "down"}
      PROVE  Promise!CompletionNext
  BY <1>3, <1>4 DEF Busy, Promise!CompletionNext, Promise!Finish
<1>5. CASE \E prompt \in Prompts, maxTokens \in MaxTokens : Begin(prompt, maxTokens)
  <2>1. PICK prompt \in Prompts, maxTokens \in MaxTokens : Begin(prompt, maxTokens)
    BY <1>5
  <2>2. pc = "idle" /\ UNCHANGED logits
    BY <2>1 DEF Begin
  <2>3. PICK hit \in Lookup(cache, SubSeq(prompt, 1, Len(prompt) - 1)) : \E plan :
          /\ Plans(prompt, hit, plan)
          /\ Enters(plan) \/ UNCHANGED <<req, pc>>
    BY <2>1, Begun
  <2>4. PICK plan : /\ Plans(prompt, hit, plan)
                    /\ Enters(plan) \/ UNCHANGED <<req, pc>>
    BY <2>3
  <2>5. CASE Enters(plan)
    <3>1. /\ req'.tokens = prompt /\ pc' \in {"scan", "predict"}
          /\ ~(req'.pos > req'.promptEnd)
      BY <2>4, <2>5 DEF Plans, Enters
    <3>2. Promise!Receive(prompt)
      BY <1>2, <2>2, <3>1 DEF Promise!Receive
    <3> QED
      BY <3>2 DEF Promise!CompletionNext
  <2>6. CASE UNCHANGED <<req, pc>>
    BY <2>2, <2>6 DEF Shown
  <2> QED
    BY <2>4, <2>5, <2>6
<1>6. CASE Scan
  <2>1. /\ pc = "scan" /\ pc' \in {"scan", "predict"} /\ req'.tokens = req.tokens
        /\ req'.pos = req.pos + BatchSize /\ req'.promptEnd = req.promptEnd
    BY <1>1, <1>6 DEF Scan, Shape, NoRequest
  <2>2. ~(req.pos > req.promptEnd) /\ ~(req'.pos > req'.promptEnd)
    <3>1. req.pos \in Nat /\ req.promptEnd \in Nat
      BY <1>1 DEF Shape
    <3>2. BatchSize \in Nat \ {0} /\ req.pos + BatchSize <= req.promptEnd
      BY <1>1, <2>1, BatchFits
    <3> QED
      BY <2>1, <3>1, <3>2
  <2> QED
    BY <2>1, <2>2 DEF Shown
<1>7. CASE \E token \in Token, eos \in BOOLEAN : Predict(token, eos)
  <2>1. PICK token \in Token, eos \in BOOLEAN : Predict(token, eos)
    BY <1>7
  <2>2. pc = "predict" /\ Busy
    BY <2>1 DEF Predict, Busy
  <2>3. CASE pc' = "idle"
    BY <1>4, <2>2, <2>3
  <2>4. CASE pc' # "idle"
    <3>1. /\ req' = [req EXCEPT !.pos = @ + 1, !.tokens = Append(@, token)]
          /\ pc' \in {"predict", "reply"}
      BY <2>1, <2>4 DEF Predict
    <3>2. /\ req'.pos = req.pos + 1 /\ req'.tokens = Append(req.tokens, token)
          /\ req'.promptEnd = req.promptEnd
      BY <1>1, <3>1 DEF Shape, NoRequest
    <3>3. /\ req.tokens \in Seq(Token) /\ Len(req.tokens) = req.pos + 1
          /\ Len(req.tokens) <= SeqLen /\ req'.pos > req'.promptEnd
      <4>1. /\ req.pos \in Nat /\ req.promptEnd \in Nat /\ req.maxPred \in Nat
            /\ req.tokens \in Seq(Token) /\ SeqLen \in Nat
        BY <1>1, ServerAssumption DEF Shape
      <4>2. /\ req.promptEnd <= req.pos /\ req.pos < req.maxPred /\ req.maxPred <= SeqLen
            /\ Len(req.tokens) = req.pos + 1
        BY <1>1, <2>2 DEF Progress
      <4> QED
        BY <3>2, <4>1, <4>2
    <3>4. logits' = req.tokens
      <4>1. logits' = Computed'
        BY <3>1, <3>3 DEF RowsInv, AnswersFromOwnPrompt
      <4>2. Computed' = SubSeq(Append(req.tokens, token), 1, req.pos + 1)
        BY <3>2 DEF Computed
      <4>3. SubSeq(Append(req.tokens, token), 1, Len(req.tokens)) = req.tokens
        BY <3>3
      <4> QED
        BY <3>3, <4>1, <4>2, <4>3
    <3>5. Promise!Sample(token)
      BY <2>2, <3>1, <3>2, <3>3, <3>4 DEF Promise!Sample
    <3> QED
      BY <3>5 DEF Promise!CompletionNext
  <2> QED
    BY <2>3, <2>4
<1>8. CASE Reply
  BY <1>4, <1>8 DEF Reply, Busy
<1>9. CASE PositionAssertFails \/ Crash
  <2>1. pc' = "down"
    BY <1>9 DEF PositionAssertFails, Crash, Stopped
  <2>2. CASE Busy
    BY <1>4, <2>1, <2>2
  <2>3. CASE ~Busy
    <3>1. pc \in {"idle", "down"}
      BY <1>1, <2>3 DEF Shape, Busy
    <3> QED
      BY <1>2, <1>3, <2>1, <3>1
  <2> QED
    BY <2>2, <2>3
<1>10. CASE Start
  BY <1>2, <1>3, <1>10 DEF Start
<1>11. CASE UNCHANGED vars
  BY <1>11 DEF vars, Shown
<1> QED
  BY <1>5, <1>6, <1>7, <1>8, <1>9, <1>10, <1>11 DEF ServerNext, HandlerStep

(* Nobody can tell from the answers that there is a cache: the server, with *)
(* rows reused from the slot and from disk, batches, crashes and restarts,  *)
(* implements Completion, which computes every token from the whole context *)
(* of its own request (dllama-api.cpp:112-275).                             *)
THEOREM CacheDoesNotShow ==
  ASSUME NumSlots = 1, Disconnects \subseteq {"prompt"}
  PROVE  ServerSpec => CacheIsTransparent
<1>1. OneSlot /\ ClientsStay
  BY DEF OneSlot, ClientsStay
<1>2. ServerInit => Promise!Idle
  BY NothingShown DEF ServerInit
<1>3. /\ ServerInv /\ RowsInv /\ (ServerInv /\ RowsInv)' /\ [ServerNext]_vars
      => [Promise!CompletionNext]_Shown
  BY ShownStep
<1>4. UNCHANGED Shown => UNCHANGED Promise!completionVars
  BY DEF Shown, Promise!completionVars
<1>5. /\ ServerInv /\ RowsInv /\ (ServerInv /\ RowsInv)' /\ [ServerNext]_vars
      => [Promise!CompletionNext]_(Promise!completionVars)
  BY <1>3, <1>4
<1> QED
  BY <1>1, <1>2, <1>5, RowsInvariant, PTL
  DEF ServerSpec, CacheIsTransparent, Promise!CompletionSpec

-----------------------------------------------------------------------------
(* The next start                                                           *)

LEMMA LengthsKept ==
  ASSUME ServerInv, Lengths, [ServerNext]_vars
  PROVE  Lengths'
<1> DEFINE Fits(t) == Len(t) <= MaxLen /\ Len(t) <= SeqLen
<1>1. ManagerInv /\ Shape /\ Progress
  BY DEF ServerInv
<1>2. ASSUME cache'.dbMetas = cache.dbMetas PROVE Lengths'
  BY <1>2 DEF Lengths
<1>3. ASSUME Busy, req.pos > 0, NEW m, NEW id, m.dbMetas = cache.dbMetas,
             cache' = UpdateMetadata(m, id, Computed)
      PROVE  Lengths'
  <2>1. Fits(Key(Computed))
    BY <1>1, <1>3, KeyIsShort
  <2>2. /\ DOMAIN cache'.dbMetas = DOMAIN m.dbMetas \cup {id}
        /\ cache'.dbMetas[id].prefix = Key(Computed)
        /\ \A i \in DOMAIN m.dbMetas \ {id} : cache'.dbMetas[i] = m.dbMetas[i]
    BY <1>3, MetadataEffect
  <2> QED
    BY <1>3, <2>1, <2>2 DEF Lengths
<1>4. CASE \E prompt \in Prompts, maxTokens \in MaxTokens : Begin(prompt, maxTokens)
  <2>1. cache'.dbMetas = cache.dbMetas
    BY <1>4 DEF Begin, TakeCacheId
  <2> QED
    BY <1>2, <2>1
<1>5. CASE Scan
  BY <1>2, <1>5 DEF Scan
<1>6. CASE \E token \in Token, eos \in BOOLEAN : Predict(token, eos)
  <2>1. /\ Busy /\ pc = "predict"
        /\ cache' = IF SavesPrompt THEN UpdateMetadata(cache, req.saveTo, Computed) ELSE cache
    BY <1>6 DEF Predict, Busy
  <2>2. req.pos > 0
    BY <1>1, <2>1 DEF Shape, Progress
  <2>3. CASE SavesPrompt
    BY <1>3, <2>1, <2>2, <2>3
  <2>4. CASE ~SavesPrompt
    BY <1>2, <2>1, <2>4
  <2> QED
    BY <2>3, <2>4
<1>7. CASE Reply
  <2>1. /\ Busy /\ pc = "reply"
        /\ \/ cache' = IF SavesAnswer THEN UpdateMetadata(Slotted, FinalSaveTo, Computed)
                       ELSE Slotted
           \/ cache' = cache
    BY <1>7, Replied DEF Busy
  <2>2. req.pos > 0
    BY <1>1, <2>1 DEF Shape, Progress
  <2>3. Slotted.dbMetas = cache.dbMetas
    BY DEF Slotted, UpdateDeviceSlot
  <2>4. CASE cache' = UpdateMetadata(Slotted, FinalSaveTo, Computed)
    BY <1>3, <2>1, <2>2, <2>3, <2>4
  <2>5. CASE cache' = Slotted \/ cache' = cache
    BY <1>2, <2>3, <2>5
  <2> QED
    BY <2>1, <2>4, <2>5
<1>8. CASE PositionAssertFails \/ Crash
  BY <1>2, <1>8 DEF PositionAssertFails, Crash, Stopped
<1>9. CASE Start
  <2>1. cache'.dbMetas = cache.dbMetas
    BY <1>1, <1>9, NewManagerLists DEF Start, ManagerInv, MemoryMatchesDisk
  <2> QED
    BY <1>2, <2>1
<1>10. CASE UNCHANGED vars
  BY <1>2, <1>10 DEF vars
<1> QED
  BY <1>4, <1>5, <1>6, <1>7, <1>8, <1>9, <1>10 DEF ServerNext, HandlerStep

(* A model whose context is shorter than NnPrefixCacheMaxLen leaves nothing *)
(* on disk that fails the assertion of the next start                       *)
(* (rocksdb-cache.cpp:127): the longer contexts of the run long_prefix are  *)
(* what it takes.                                                           *)
THEOREM ShortContextsLoad ==
  ASSUME SeqLen < MaxLen
  PROVE  ServerSpec => []NextStartLoads
<1>1. ServerInit => Lengths
  BY IdsStart DEF IdsInv
<1>2. ServerInv /\ Lengths => NextStartLoads
  <2> SUFFICES ASSUME ServerInv, Lengths, NEW id \in StoredIds(db)
               PROVE  Len(db.store[id]["prefix"]) < MaxLen
    BY DEF NextStartLoads, MetadataLoads
  <2>1. /\ id \in DOMAIN cache.dbMetas /\ db.store[id]["prefix"] \in Seq(Token)
        /\ cache.dbMetas[id].prefix = db.store[id]["prefix"]
    BY OnDisk DEF ServerInv, Keys
  <2>2. Len(db.store[id]["prefix"]) <= SeqLen /\ Len(db.store[id]["prefix"]) \in Nat
    BY <2>1 DEF Lengths
  <2> QED
    BY <2>2, ServerAssumption, MaxLenAssumption
<1>3. (ServerInv /\ Lengths) /\ [ServerNext]_vars => Lengths'
  BY LengthsKept
<1> QED
  BY <1>1, <1>2, <1>3, ServerInvariant, PTL DEF ServerSpec

=============================================================================
