--------------------- MODULE PrefixCacheManager_proofs ----------------------
(***************************************************************************)
(* Proofs about the prefix cache manager, for every number of slots, every *)
(* vocabulary and every bound: its two tables and its trie agree, ids are  *)
(* fresh, LRU scores are distinct, memory and disk agree.                  *)
(***************************************************************************)
EXTENDS PrefixCacheManager, WellFoundedInduction, TLAPS

(* The inductive invariant: what the runs check, taken together.            *)
ManagerInv ==
  /\ ManagerType(cache)
  /\ DbType(db)
  /\ SlotsMatchTrie(cache)
  /\ DbEntriesMatch(cache)
  /\ IdsIssued(cache, db)
  /\ LruScoresDistinct(cache)
  /\ MemoryMatchesDisk(cache, db)

-----------------------------------------------------------------------------
(* The key of a token sequence (nn-cache.cpp:83-84) is a key of the trie.   *)
LEMMA KeyIsKey ==
  ASSUME NEW tokens \in Keys
  PROVE  Key(tokens) \in Keys
BY MaxLenAssumption DEF Key, Keys

(* A set of natural numbers has a least element.                            *)
LEMMA LeastNatural ==
  ASSUME NEW S, S \subseteq Nat, S # {}
  PROVE  \E n \in S : \A k \in S : n <= k
<1> DEFINE R == OpToRel(<, Nat)
<1>1. IsWellFoundedOn(R, Nat)
  BY NatLessThanWellFounded
<1>2. \E n \in S : \A k \in S : ~(<<k, n>> \in R)
  <2> HIDE DEF R
  <2> QED BY <1>1, WFMin
<1>3. \A j, k \in Nat : <<j, k>> \in R <=> j < k
  BY DEF OpToRel
<1>4. PICK n \in S : \A k \in S : ~(<<k, n>> \in R)
  BY <1>2
<1>5. ASSUME NEW k \in S PROVE n <= k
  <2>1. <<k, n>> \notin R
    BY <1>4
  <2>2. <<k, n>> \in R <=> k < n
    BY <1>3
  <2> HIDE DEF R
  <2>3. ~(k < n)
    BY <2>1, <2>2
  <2> QED
    BY <2>3
<1> QED
  BY <1>5

(* A bounded set of natural numbers has a maximum: the least of its bounds. *)
LEMMA BoundedSetHasMax ==
  ASSUME NEW S, S \subseteq Nat, S # {}, NEW b \in Nat, \A x \in S : x <= b
  PROVE  /\ Max(S) \in S
         /\ \A x \in S : x <= Max(S)
<1> DEFINE Bounds == {n \in Nat : \A x \in S : x <= n}
<1>1. PICK n \in Bounds : \A k \in Bounds : n <= k
  <2>1. Bounds \subseteq Nat /\ b \in Bounds
    OBVIOUS
  <2> HIDE DEF Bounds
  <2> QED
    BY <2>1, LeastNatural
<1>2. n \in S
  <2> SUFFICES ASSUME n \notin S PROVE FALSE
    OBVIOUS
  <2>1. PICK x \in S : TRUE
    OBVIOUS
  <2>2. n \in Nat /\ n > 0 /\ \A y \in S : y <= n - 1
    BY <2>1
  <2>3. n - 1 \in Bounds
    BY <2>2
  <2> QED
    BY <1>1, <2>2, <2>3
<1>3. \E x \in S : \A y \in S : x >= y
  BY <1>2
<1> QED
  BY <1>3 DEF Max

(* The counters the constructor computes (nn-cache.cpp:17-22) exceed every  *)
(* number that was loaded.                                                  *)
LEMMA OneAboveExceeds ==
  ASSUME NEW S, S \subseteq Nat, NEW b \in Nat, \A x \in S : x <= b
  PROVE  /\ OneAbove(S) \in Nat \ {0}
         /\ \A x \in S : x < OneAbove(S)
<1> DEFINE T == {0} \cup S
<1>1. T \subseteq Nat /\ T # {} /\ \A x \in T : x <= b
  OBVIOUS
<1>2. Max(T) \in T /\ \A x \in T : x <= Max(T)
  <2> HIDE DEF T
  <2> QED
    BY <1>1, BoundedSetHasMax
<1>3. OneAbove(S) = Max(T) + 1
  BY DEF OneAbove
<1>4. Max(T) \in Nat /\ S \subseteq T
  BY <1>1, <1>2
<1> HIDE DEF T
<1> QED
  BY <1>2, <1>3, <1>4

-----------------------------------------------------------------------------
(* updateDeviceSlot keeps the tables and the trie in agreement.             *)
LEMMA UpdateDeviceSlotKeeps ==
  ASSUME NEW m, NEW s \in Slots, NEW tokens \in Keys, NEW id \in Nat,
         ManagerType(m), SlotsMatchTrie(m), DbEntriesMatch(m), LruScoresDistinct(m)
  PROVE  LET n == UpdateDeviceSlot(m, s, tokens, id)
         IN  ManagerType(n) /\ SlotsMatchTrie(n) /\ DbEntriesMatch(n) /\ LruScoresDistinct(n)
<1> DEFINE n    == UpdateDeviceSlot(m, s, tokens, id)
           key  == Key(tokens)
           old  == m.deviceSlots[s].prefix
           trie == IF old # <<>> /\ HoldsSlot(m.trie, old, s)
                   THEN Without(m.trie, old) ELSE m.trie
<1>1. key \in Keys
  BY KeyIsKey
<1>2. /\ n.dbMetas = m.dbMetas
      /\ n.nextCacheId = m.nextCacheId
      /\ n.nextLruScore = m.nextLruScore + 1
      /\ n.trie = IF key \in DOMAIN trie THEN trie ELSE Put(trie, key, SlotDst(s, id))
      /\ n.deviceSlots = [m.deviceSlots EXCEPT ![s] =
                            IF key \in DOMAIN trie THEN [prefix |-> <<>>, lruScore |-> 0]
                            ELSE [prefix |-> key, lruScore |-> m.nextLruScore]]
  BY DEF UpdateDeviceSlot, TrieWithoutSlot, ScoreAfter
<1>3. /\ DOMAIN trie \subseteq DOMAIN m.trie
      /\ \A k \in DOMAIN trie : trie[k] = m.trie[k]
      /\ \A k \in DOMAIN m.trie : k \notin DOMAIN trie => HoldsSlot(m.trie, k, s) /\ k = old
  BY DEF Without
<1>4. \A k \in DOMAIN trie : ~HoldsSlot(trie, k, s)
  <2> SUFFICES ASSUME NEW k \in DOMAIN trie, HoldsSlot(trie, k, s) PROVE FALSE
    OBVIOUS
  <2>1. HoldsSlot(m.trie, k, s)
    BY <1>3 DEF HoldsSlot
  <2>2. old = k /\ old # <<>>
    BY <2>1 DEF HoldsSlot, SlotsMatchTrie, ManagerType, Keys
  <2> QED
    BY <2>1, <2>2 DEF Without
<1>5. /\ DOMAIN n.trie \subseteq DOMAIN trie \cup {key}
      /\ DOMAIN trie \subseteq DOMAIN n.trie
      /\ \A k \in DOMAIN trie : n.trie[k] = trie[k]
      /\ key \notin DOMAIN trie => key \in DOMAIN n.trie /\ n.trie[key] = SlotDst(s, id)
  BY <1>2 DEF Put
<1> HIDE DEF n
<1>6. m.deviceSlots \in [Slots -> Described] /\ m.nextLruScore \in Nat
  BY DEF ManagerType
<1>7. n.deviceSlots \in [Slots -> Described]
  BY <1>1, <1>2, <1>6 DEF Described, Keys
<1>8. ManagerType(n)
  <2>1. DOMAIN n.trie \subseteq Keys
    BY <1>1, <1>3, <1>5 DEF ManagerType
  <2>2. \A k \in DOMAIN n.trie : n.trie[k] \in Dsts
    BY <1>3, <1>5 DEF ManagerType, Dsts, SlotDst
  <2> QED
    BY <1>2, <1>6, <1>7, <2>1, <2>2 DEF ManagerType
<1>9. SlotsMatchTrie(n)
  <2>1. ASSUME NEW k \in DOMAIN n.trie, n.trie[k].type = "DEVICE_SLOT"
        PROVE  n.deviceSlots[n.trie[k].slot].prefix = k
    <3>1. CASE k \in DOMAIN trie
      <4>1. n.trie[k] = m.trie[k] /\ n.trie[k].slot # s
        BY <1>3, <1>4, <1>5, <2>1, <3>1 DEF HoldsSlot
      <4>2. m.trie[k] \in Dsts
        BY <1>3, <3>1 DEF ManagerType
      <4>3. n.trie[k].slot \in Slots
        BY <4>1, <4>2, <2>1 DEF Dsts
      <4> QED
        BY <1>2, <1>3, <1>6, <2>1, <3>1, <4>1, <4>3 DEF SlotsMatchTrie
    <3>2. CASE k \notin DOMAIN trie
      <4>1. k = key /\ n.trie[k] = SlotDst(s, id)
        BY <1>5, <3>2
      <4> QED
        BY <1>2, <1>6, <3>2, <4>1 DEF SlotDst
    <3> QED
      BY <3>1, <3>2
  <2>2. ASSUME NEW t \in Slots, n.deviceSlots[t].prefix # <<>>
        PROVE  HoldsSlot(n.trie, n.deviceSlots[t].prefix, t)
    <3>1. CASE t = s
      <4>1. key \notin DOMAIN trie /\ n.deviceSlots[t].prefix = key
        BY <1>2, <1>6, <2>2, <3>1
      <4> QED
        BY <1>5, <3>1, <4>1 DEF HoldsSlot, SlotDst
    <3>2. CASE t # s
      <4>1. n.deviceSlots[t] = m.deviceSlots[t]
        BY <1>2, <1>6, <3>2
      <4>2. HoldsSlot(m.trie, n.deviceSlots[t].prefix, t)
        BY <2>2, <4>1 DEF SlotsMatchTrie
      <4>3. n.deviceSlots[t].prefix \in DOMAIN trie
        BY <1>3, <3>2, <4>2 DEF HoldsSlot
      <4> QED
        BY <1>3, <1>5, <4>2, <4>3 DEF HoldsSlot
    <3> QED
      BY <3>1, <3>2
  <2> QED
    BY <2>1, <2>2 DEF SlotsMatchTrie
<1>10. DbEntriesMatch(n)
  <2> SUFFICES ASSUME NEW k \in DOMAIN n.trie, n.trie[k].type = "DB"
               PROVE  /\ n.trie[k].id \in DOMAIN n.dbMetas
                      /\ n.dbMetas[n.trie[k].id].prefix = k
    BY DEF DbEntriesMatch
  <2>1. k \in DOMAIN trie
    BY <1>5 DEF SlotDst
  <2>2. k \in DOMAIN m.trie /\ n.trie[k] = m.trie[k] /\ m.trie[k].type = "DB"
    BY <1>3, <1>5, <2>1
  <2>3. m.trie[k].id \in DOMAIN m.dbMetas /\ m.dbMetas[m.trie[k].id].prefix = k
    BY <2>2 DEF DbEntriesMatch
  <2> QED
    BY <1>2, <2>2, <2>3
<1>11. LruScoresDistinct(n)
  <2>1. \A t \in Slots : n.deviceSlots[t].lruScore < n.nextLruScore
    BY <1>2, <1>6 DEF LruScoresDistinct, Described
  <2>2. \A i \in DOMAIN n.dbMetas : n.dbMetas[i].lruScore < n.nextLruScore
    BY <1>2, <1>6 DEF LruScoresDistinct, ManagerType, Described
  <2>3. ASSUME NEW t \in Slots, NEW u \in Slots, t # u,
               n.deviceSlots[t].prefix # <<>>, n.deviceSlots[u].prefix # <<>>
        PROVE  n.deviceSlots[t].lruScore # n.deviceSlots[u].lruScore
    BY <1>2, <1>6, <2>3 DEF LruScoresDistinct, Described
  <2> QED
    BY <2>1, <2>2, <2>3 DEF LruScoresDistinct
<1> QED
  BY <1>8, <1>9, <1>10, <1>11 DEF n


(* updateNnCacheDatabaseMetadata keeps them in agreement too.               *)
LEMMA UpdateMetadataKeeps ==
  ASSUME NEW m, NEW id \in Nat \ {0}, NEW tokens \in Keys,
         ManagerType(m), SlotsMatchTrie(m), DbEntriesMatch(m), LruScoresDistinct(m)
  PROVE  LET n == UpdateMetadata(m, id, tokens)
         IN  ManagerType(n) /\ SlotsMatchTrie(n) /\ DbEntriesMatch(n) /\ LruScoresDistinct(n)
<1> DEFINE n    == UpdateMetadata(m, id, tokens)
           key  == Key(tokens)
           meta == [prefix |-> key, lruScore |-> m.nextLruScore]
           listed == id \in DOMAIN m.dbMetas /\ HoldsId(m.trie, m.dbMetas[id].prefix, id)
           trie == IF listed THEN Without(m.trie, m.dbMetas[id].prefix) ELSE m.trie
<1>1. key \in Keys
  BY KeyIsKey
<1>2. /\ n.deviceSlots = m.deviceSlots
      /\ n.nextCacheId = m.nextCacheId
      /\ n.nextLruScore = m.nextLruScore + 1
      /\ n.trie = IF key \in DOMAIN trie THEN trie ELSE Put(trie, key, DbDst(id))
      /\ n.dbMetas = Put(m.dbMetas, id, meta)
  BY DEF UpdateMetadata, TrieWithoutId, ScoreAfter
<1>3. /\ DOMAIN trie \subseteq DOMAIN m.trie
      /\ \A k \in DOMAIN trie : trie[k] = m.trie[k]
      /\ \A k \in DOMAIN m.trie : k \notin DOMAIN trie =>
            listed /\ k = m.dbMetas[id].prefix
  BY DEF Without
<1>4. \A k \in DOMAIN trie : ~HoldsId(trie, k, id)
  <2> SUFFICES ASSUME NEW k \in DOMAIN trie, HoldsId(trie, k, id) PROVE FALSE
    OBVIOUS
  <2>1. HoldsId(m.trie, k, id)
    BY <1>3 DEF HoldsId
  <2>2. id \in DOMAIN m.dbMetas /\ m.dbMetas[id].prefix = k
    BY <2>1 DEF HoldsId, DbEntriesMatch
  <2>3. listed
    BY <2>1, <2>2
  <2> QED
    BY <2>2, <2>3 DEF Without
<1>5. /\ DOMAIN n.trie \subseteq DOMAIN trie \cup {key}
      /\ DOMAIN trie \subseteq DOMAIN n.trie
      /\ \A k \in DOMAIN trie : n.trie[k] = trie[k]
      /\ key \notin DOMAIN trie => key \in DOMAIN n.trie /\ n.trie[key] = DbDst(id)
  BY <1>2 DEF Put
<1>6. /\ DOMAIN n.dbMetas = DOMAIN m.dbMetas \cup {id}
      /\ n.dbMetas[id] = meta
      /\ \A i \in DOMAIN m.dbMetas : i # id => n.dbMetas[i] = m.dbMetas[i]
  BY <1>2 DEF Put
<1>7. m.deviceSlots \in [Slots -> Described] /\ m.nextLruScore \in Nat
  BY DEF ManagerType
<1>8. meta \in Described
  BY <1>1, <1>7 DEF Described, Keys
<1> HIDE DEF n, trie, listed, meta
<1>9. ManagerType(n)
  <2>1. DOMAIN n.trie \subseteq Keys
    BY <1>1, <1>3, <1>5 DEF ManagerType
  <2>2. \A k \in DOMAIN n.trie : n.trie[k] \in Dsts
    BY <1>3, <1>5 DEF ManagerType, Dsts, DbDst
  <2>3. \A i \in DOMAIN n.dbMetas : n.dbMetas[i] \in Described
    BY <1>6, <1>8 DEF ManagerType
  <2>4. DOMAIN n.dbMetas \subseteq Nat \ {0}
    BY <1>6 DEF ManagerType
  <2> QED
    BY <1>2, <1>7, <2>1, <2>2, <2>3, <2>4 DEF ManagerType
<1>10. SlotsMatchTrie(n)
  <2>1. ASSUME NEW k \in DOMAIN n.trie, n.trie[k].type = "DEVICE_SLOT"
        PROVE  n.deviceSlots[n.trie[k].slot].prefix = k
    <3>1. k \in DOMAIN trie
      BY <1>5, <2>1 DEF DbDst
    <3>2. k \in DOMAIN m.trie /\ n.trie[k] = m.trie[k]
      BY <1>3, <1>5, <3>1
    <3> QED
      BY <1>2, <2>1, <3>2 DEF SlotsMatchTrie
  <2>2. ASSUME NEW t \in Slots, n.deviceSlots[t].prefix # <<>>
        PROVE  HoldsSlot(n.trie, n.deviceSlots[t].prefix, t)
    <3> DEFINE k == m.deviceSlots[t].prefix
    <3>1. HoldsSlot(m.trie, k, t) /\ n.deviceSlots[t].prefix = k
      BY <1>2, <2>2 DEF SlotsMatchTrie
    <3>2. k \in DOMAIN trie
      BY <1>3, <3>1 DEF HoldsSlot, HoldsId, listed
    <3> QED
      BY <1>3, <1>5, <3>1, <3>2 DEF HoldsSlot
  <2> QED
    BY <2>1, <2>2 DEF SlotsMatchTrie
<1>11. DbEntriesMatch(n)
  <2> SUFFICES ASSUME NEW k \in DOMAIN n.trie, n.trie[k].type = "DB"
               PROVE  /\ n.trie[k].id \in DOMAIN n.dbMetas
                      /\ n.dbMetas[n.trie[k].id].prefix = k
    BY DEF DbEntriesMatch
  <2>1. CASE k \in DOMAIN trie
    <3>1. k \in DOMAIN m.trie /\ n.trie[k] = m.trie[k] /\ m.trie[k].type = "DB"
      BY <1>3, <1>5, <2>1
    <3>2. m.trie[k].id \in DOMAIN m.dbMetas /\ m.dbMetas[m.trie[k].id].prefix = k
      BY <3>1 DEF DbEntriesMatch
    <3>3. m.trie[k].id # id
      BY <1>3, <1>4, <2>1, <3>1 DEF HoldsId
    <3> QED
      BY <1>6, <3>1, <3>2, <3>3
  <2>2. CASE k \notin DOMAIN trie
    <3>1. k = key /\ n.trie[k] = DbDst(id)
      BY <1>5, <2>2
    <3> QED
      BY <1>6, <3>1 DEF DbDst, meta
  <2> QED
    BY <2>1, <2>2
<1>12. LruScoresDistinct(n)
  <2>1. \A t \in Slots : n.deviceSlots[t].lruScore < n.nextLruScore
    BY <1>2, <1>7 DEF LruScoresDistinct, Described
  <2>2. \A i \in DOMAIN n.dbMetas : n.dbMetas[i].lruScore < n.nextLruScore
    BY <1>2, <1>6, <1>7 DEF LruScoresDistinct, ManagerType, Described, meta
  <2> QED
    BY <1>2, <2>1, <2>2 DEF LruScoresDistinct
<1> QED
  BY <1>9, <1>10, <1>11, <1>12 DEF n


-----------------------------------------------------------------------------
(* What staging and committing the metadata of an id does: the metadata a   *)
(* restart would load changes for that id and for no other.                 *)
LEMMA SaveMetadataEffect ==
  ASSUME NEW d, NEW m, NEW id \in Nat \ {0}, NEW tokens \in Keys,
         DbType(d), m.nextLruScore \in Nat
  PROVE  LET e == SaveMetadata(d, m, id, tokens)
         IN  /\ DbType(e)
             /\ DOMAIN e.store = DOMAIN d.store \cup {id}
             /\ DOMAIN e.stage \subseteq DOMAIN d.stage
             /\ LoadMetadata(e) =
                  Put(LoadMetadata(d), id,
                      [prefix |-> Key(tokens), lruScore |-> m.nextLruScore])
<1> DEFINE e     == SaveMetadata(d, m, id, tokens)
           key   == Key(tokens)
           score == m.nextLruScore
           d1    == Write(d, id, "prefix", key)
           d2    == Write(d1, id, "lru", score)
           rows  == d2.stage[id]
           saved == Overlay(BuffersOf(d.store, id), rows)
<1>1. key \in Keys /\ score \in Nat
  BY KeyIsKey
<1>2. /\ d1.store = d.store
      /\ d1.stage = Put(d.stage, id, Put(BuffersOf(d.stage, id), "prefix", key))
  BY DEF Write
<1>3. /\ d2.store = d.store
      /\ d2.stage = Put(d1.stage, id, Put(BuffersOf(d1.stage, id), "lru", score))
  BY <1>2 DEF Write
<1>4. /\ id \in DOMAIN d1.stage /\ DOMAIN d1.stage = DOMAIN d.stage \cup {id}
      /\ "prefix" \in DOMAIN d1.stage[id] /\ d1.stage[id]["prefix"] = key
  BY <1>2 DEF Put
<1> HIDE DEF d1
<1>5. BuffersOf(d1.stage, id) = d1.stage[id]
  BY <1>4 DEF BuffersOf
<1>6. /\ id \in DOMAIN d2.stage /\ DOMAIN d2.stage = DOMAIN d.stage \cup {id}
      /\ {"prefix", "lru"} \subseteq DOMAIN rows
      /\ rows["prefix"] = key
      /\ rows["lru"] = score
  BY <1>3, <1>4, <1>5 DEF Put
<1>7. /\ e.stage = Without(d2.stage, id)
      /\ e.store = Put(d.store, id, saved)
  <2>1. e = Commit(d2, id)
    BY DEF SaveMetadata, d1
  <2> HIDE DEF d2
  <2> QED
    BY <1>3, <1>6, <2>1 DEF Commit
<1> HIDE DEF d2
<1>8. /\ {"prefix", "lru"} \subseteq DOMAIN saved
      /\ saved["prefix"] = key
      /\ saved["lru"] = score
  BY <1>6 DEF Overlay
<1> HIDE DEF e, saved, rows
<1>9. /\ DOMAIN e.store = DOMAIN d.store \cup {id}
      /\ e.store[id] = saved
      /\ \A i \in DOMAIN d.store : i # id => e.store[i] = d.store[i]
  BY <1>7 DEF Put
<1>10. DOMAIN e.stage \subseteq DOMAIN d.stage
  BY <1>6, <1>7 DEF Without
<1>11. DbType(e)
  <2>1. DOMAIN e.stage \subseteq Nat \ {0} /\ DOMAIN e.store \subseteq Nat \ {0}
    BY <1>9, <1>10 DEF DbType
  <2>2. ASSUME NEW i \in DOMAIN e.store
        PROVE  /\ {"prefix", "lru"} \subseteq DOMAIN e.store[i]
               /\ e.store[i]["prefix"] \in Keys
               /\ e.store[i]["lru"] \in Nat
    <3>1. CASE i = id
      BY <1>1, <1>8, <1>9, <3>1
    <3>2. CASE i # id
      BY <1>9, <3>2 DEF DbType
    <3> QED
      BY <3>1, <3>2
  <2> QED
    BY <2>1, <2>2 DEF DbType
<1>12. StoredIds(d) = DOMAIN d.store /\ StoredIds(e) = DOMAIN e.store
  BY <1>11 DEF StoredIds, DbType
<1>13. LoadMetadata(e) =
         Put(LoadMetadata(d), id, [prefix |-> key, lruScore |-> score])
  BY <1>8, <1>9, <1>12 DEF LoadMetadata, Put
<1> QED
  BY <1>9, <1>10, <1>11, <1>13 DEF e


-----------------------------------------------------------------------------
(* The constructor yields a manager in agreement with the database it read. *)
LEMMA NewManagerAgrees ==
  ASSUME NEW d, DbType(d),
         NEW a \in Nat, \A id \in DOMAIN d.store : id <= a,
         NEW b \in Nat, \A id \in DOMAIN d.store : d.store[id]["lru"] <= b
  PROVE  LET n == NewManager(d)
         IN  /\ ManagerType(n) /\ SlotsMatchTrie(n) /\ DbEntriesMatch(n)
             /\ LruScoresDistinct(n) /\ MemoryMatchesDisk(n, d)
             /\ \A id \in DOMAIN d.store : id < n.nextCacheId
<1> DEFINE n == NewManager(d)
           metas == LoadMetadata(d)
           ids == DOMAIN metas
           Sharing(k) == {id \in ids : metas[id].prefix = k}
           scores == {metas[id].lruScore : id \in ids}
<1>1. /\ ids = DOMAIN d.store
      /\ ids \subseteq Nat \ {0}
      /\ \A id \in ids : /\ metas[id].lruScore = d.store[id]["lru"]
                          /\ metas[id].prefix \in Keys
                          /\ metas[id].lruScore \in Nat
                          /\ metas[id] \in Described
  BY DEF LoadMetadata, StoredIds, DbType, Described, Keys
<1>2. /\ n.deviceSlots = [s \in Slots |-> [prefix |-> <<>>, lruScore |-> 0]]
      /\ n.dbMetas = metas
      /\ n.nextLruScore = OneAbove(scores)
      /\ n.nextCacheId = OneAbove(ids)
  BY DEF NewManager
<1>3. ASSUME NEW k \in DOMAIN n.trie
      PROVE  \E id \in ids : n.trie[k] = DbDst(id) /\ metas[id].prefix = k
  <2>1. k \in {metas[id].prefix : id \in ids} /\ n.trie[k] = DbDst(Max(Sharing(k)))
    BY <1>3 DEF NewManager
  <2> HIDE DEF n, metas
  <2>2. Sharing(k) # {} /\ Sharing(k) \subseteq Nat /\ \A x \in Sharing(k) : x <= a
    BY <1>1, <2>1
  <2>3. Max(Sharing(k)) \in Sharing(k)
    <3> HIDE DEF Sharing
    <3> QED
      BY <2>2, BoundedSetHasMax
  <2> QED
    BY <2>1, <2>3
<1> HIDE DEF n, metas
<1>4. OneAbove(ids) \in Nat \ {0} /\ \A x \in ids : x < OneAbove(ids)
  <2>1. ids \subseteq Nat /\ \A x \in ids : x <= a
    BY <1>1
  <2> HIDE DEF ids
  <2> QED
    BY <2>1, OneAboveExceeds
<1>5. OneAbove(scores) \in Nat \ {0} /\ \A x \in scores : x < OneAbove(scores)
  <2>1. scores \subseteq Nat /\ \A x \in scores : x <= b
    <3> SUFFICES ASSUME NEW x \in scores PROVE x \in Nat /\ x <= b
      OBVIOUS
    <3>1. PICK id \in ids : x = metas[id].lruScore
      OBVIOUS
    <3>2. metas[id].lruScore \in Nat /\ metas[id].lruScore = d.store[id]["lru"]
      BY <1>1
    <3> QED
      BY <1>1, <3>1, <3>2
  <2> HIDE DEF scores
  <2> QED
    BY <2>1, OneAboveExceeds
<1>6. ASSUME NEW k \in DOMAIN n.trie
      PROVE  /\ k \in Keys /\ n.trie[k] \in Dsts
             /\ n.trie[k].type = "DB"
             /\ n.trie[k].id \in ids /\ metas[n.trie[k].id].prefix = k
  <2>1. PICK id \in ids : n.trie[k] = DbDst(id) /\ metas[id].prefix = k
    BY <1>3
  <2>2. DbDst(id).type = "DB" /\ DbDst(id).id = id
    BY DEF DbDst
  <2>3. DbDst(id) \in Dsts
    BY <1>1 DEF Dsts, DbDst
  <2> QED
    BY <1>1, <2>1, <2>2, <2>3
<1>7. ManagerType(n)
  <2>1. n.deviceSlots \in [Slots -> Described]
    BY <1>2 DEF Described
  <2> QED
    BY <1>1, <1>2, <1>4, <1>5, <1>6, <2>1 DEF ManagerType
<1>8. SlotsMatchTrie(n) /\ DbEntriesMatch(n)
  <2>1. \A s \in Slots : n.deviceSlots[s].prefix = <<>>
    BY <1>2
  <2>2. SlotsMatchTrie(n)
    BY <1>6, <2>1 DEF SlotsMatchTrie
  <2>3. DbEntriesMatch(n)
    BY <1>2, <1>6 DEF DbEntriesMatch
  <2> QED
    BY <2>2, <2>3
<1>9. LruScoresDistinct(n)
  <2>1. ASSUME NEW id \in DOMAIN n.dbMetas
        PROVE  n.dbMetas[id].lruScore < n.nextLruScore
    <3>1. n.dbMetas[id].lruScore \in scores
      BY <1>2
    <3> QED
      BY <1>2, <1>5, <3>1
  <2>2. \A s \in Slots : n.deviceSlots[s] = [prefix |-> <<>>, lruScore |-> 0]
    BY <1>2
  <2>3. n.nextLruScore \in Nat \ {0}
    BY <1>2, <1>5
  <2> HIDE DEF scores, ids
  <2> QED
    BY <2>1, <2>2, <2>3 DEF LruScoresDistinct
<1>10. MemoryMatchesDisk(n, d)
  BY <1>2 DEF MemoryMatchesDisk, metas
<1> QED
  BY <1>1, <1>2, <1>4, <1>7, <1>8, <1>9, <1>10 DEF n

-----------------------------------------------------------------------------
(* The ids of the trie after an update are the old ones and the new one.    *)
LEMMA WithoutAndPut ==
  ASSUME NEW t, NEW k, NEW dst
  PROVE  /\ \A l \in DOMAIN Without(t, k) : l \in DOMAIN t /\ Without(t, k)[l] = t[l]
         /\ \A l \in DOMAIN Put(t, k, dst) :
              Put(t, k, dst)[l] = dst \/ (l \in DOMAIN t /\ Put(t, k, dst)[l] = t[l])
BY DEF Without, Put

LEMMA TrieIdsAfterSlot ==
  ASSUME NEW m, NEW s, NEW id, NEW tokens,
         NEW k \in DOMAIN UpdateDeviceSlot(m, s, tokens, id).trie
  PROVE  LET x == UpdateDeviceSlot(m, s, tokens, id).trie[k].id
         IN  x = id \/ \E l \in DOMAIN m.trie : x = m.trie[l].id
<1> DEFINE old  == m.deviceSlots[s].prefix
           trie == IF old # <<>> /\ HoldsSlot(m.trie, old, s)
                   THEN Without(m.trie, old) ELSE m.trie
<1>1. \A l \in DOMAIN trie : l \in DOMAIN m.trie /\ trie[l] = m.trie[l]
  BY WithoutAndPut
<1>2. UpdateDeviceSlot(m, s, tokens, id).trie =
        IF Key(tokens) \in DOMAIN trie THEN trie
        ELSE Put(trie, Key(tokens), SlotDst(s, id))
  BY DEF UpdateDeviceSlot, TrieWithoutSlot, ScoreAfter
<1>3. SlotDst(s, id).id = id
  BY DEF SlotDst
<1> HIDE DEF trie
<1> QED
  BY <1>1, <1>2, <1>3, WithoutAndPut

LEMMA TrieIdsAfterMetadata ==
  ASSUME NEW m, NEW id, NEW tokens,
         NEW k \in DOMAIN UpdateMetadata(m, id, tokens).trie
  PROVE  LET x == UpdateMetadata(m, id, tokens).trie[k].id
         IN  x = id \/ \E l \in DOMAIN m.trie : x = m.trie[l].id
<1> DEFINE old  == m.dbMetas[id].prefix
           trie == IF id \in DOMAIN m.dbMetas /\ HoldsId(m.trie, old, id)
                   THEN Without(m.trie, old) ELSE m.trie
<1>1. \A l \in DOMAIN trie : l \in DOMAIN m.trie /\ trie[l] = m.trie[l]
  BY WithoutAndPut
<1>2. UpdateMetadata(m, id, tokens).trie =
        IF Key(tokens) \in DOMAIN trie THEN trie
        ELSE Put(trie, Key(tokens), DbDst(id))
  BY DEF UpdateMetadata, TrieWithoutId, ScoreAfter
<1>3. DbDst(id).id = id
  BY DEF DbDst
<1> HIDE DEF trie
<1> QED
  BY <1>1, <1>2, <1>3, WithoutAndPut

-----------------------------------------------------------------------------
(* One step per action: the invariant is kept.                              *)
LEMMA InitEstablishes == ManagerInit => ManagerInv
<1> SUFFICES ASSUME ManagerInit PROVE ManagerInv
  OBVIOUS
<1>1. db = EmptyDb /\ cache = NewManager(EmptyDb)
  BY DEF ManagerInit
<1>2. DOMAIN EmptyDb.store = {} /\ DOMAIN EmptyDb.stage = {}
  BY DEF EmptyDb, EmptyMap
<1>3. DbType(EmptyDb)
  BY <1>2 DEF DbType
<1> DEFINE n == NewManager(EmptyDb)
<1>4. /\ ManagerType(n) /\ SlotsMatchTrie(n) /\ DbEntriesMatch(n)
      /\ LruScoresDistinct(n) /\ MemoryMatchesDisk(n, EmptyDb)
  BY <1>2, <1>3, NewManagerAgrees
<1> HIDE DEF n
<1>5. IdsIssued(n, EmptyDb)
  <2>1. DOMAIN n.dbMetas = {}
    BY <1>2, <1>4 DEF MemoryMatchesDisk, LoadMetadata, StoredIds
  <2>2. ASSUME NEW k \in DOMAIN n.trie PROVE FALSE
    <3>1. n.trie[k] \in Dsts /\ n.trie[k].type # "DB"
      BY <1>4, <2>1 DEF DbEntriesMatch, ManagerType
    <3>2. n.trie[k].type = "DEVICE_SLOT" /\ n.trie[k].slot \in Slots
      BY <3>1 DEF Dsts
    <3>3. n.deviceSlots[n.trie[k].slot].prefix = k /\ k \in Keys
      BY <1>4, <3>2 DEF SlotsMatchTrie, ManagerType
    <3>4. n.deviceSlots[n.trie[k].slot].prefix = <<>>
      BY <3>2 DEF n, NewManager
    <3> QED
      BY <3>3, <3>4 DEF Keys
  <2> QED
    BY <1>2, <2>1, <2>2 DEF IdsIssued, UsedIds
<1> QED
  BY <1>1, <1>3, <1>4, <1>5 DEF ManagerInv, n

LEMMA GetCacheIdKeeps == ManagerInv /\ GetCacheId => ManagerInv'
<1> SUFFICES ASSUME ManagerInv, GetCacheId PROVE ManagerInv'
  OBVIOUS
<1>1. /\ db' = db
      /\ cache'.trie = cache.trie
      /\ cache'.deviceSlots = cache.deviceSlots
      /\ cache'.dbMetas = cache.dbMetas
      /\ cache'.nextLruScore = cache.nextLruScore
      /\ cache'.nextCacheId = cache.nextCacheId + 1
  BY DEF GetCacheId, TakeCacheId
<1>2. ManagerType(cache) /\ cache.nextCacheId \in Nat \ {0}
  BY DEF ManagerInv, ManagerType
<1>3. ManagerType(cache')
  BY <1>1, <1>2 DEF ManagerType
<1>4. IdsIssued(cache', db')
  <2> SUFFICES ASSUME NEW id \in UsedIds(cache', db') PROVE id < cache'.nextCacheId
    BY DEF IdsIssued
  <2>1. id \in UsedIds(cache, db) /\ id \in Nat
    BY <1>1 DEF UsedIds, ManagerInv, ManagerType, DbType, Dsts
  <2>2. id < cache.nextCacheId
    BY <2>1 DEF IdsIssued, ManagerInv
  <2> QED
    BY <1>1, <1>2, <2>1, <2>2
<1>5. SlotsMatchTrie(cache') /\ DbEntriesMatch(cache') /\ LruScoresDistinct(cache')
  BY <1>1 DEF ManagerInv, SlotsMatchTrie, DbEntriesMatch, LruScoresDistinct
<1>6. DbType(db') /\ MemoryMatchesDisk(cache', db')
  BY <1>1 DEF ManagerInv, MemoryMatchesDisk
<1> QED
  BY <1>3, <1>4, <1>5, <1>6 DEF ManagerInv

LEMMA SlotFinishedKeeps ==
  ASSUME NEW s \in Slots, NEW tokens \in Prompts, NEW id \in IssuedIds \cup {CACHE_SKIP},
         ManagerInv, SlotFinished(s, tokens, id)
  PROVE  ManagerInv'
<1>1. tokens \in Keys
  BY ManagerAssumption DEF Keys
<1>2. id \in Nat /\ id < cache.nextCacheId
  BY DEF IssuedIds, CACHE_SKIP, ManagerInv, ManagerType
<1>3. /\ cache' = UpdateDeviceSlot(cache, s, tokens, id)
      /\ cache'.dbMetas = cache.dbMetas
      /\ cache'.nextCacheId = cache.nextCacheId
      /\ db' = db
  BY DEF SlotFinished, UpdateDeviceSlot
<1>4. /\ ManagerType(cache') /\ SlotsMatchTrie(cache')
      /\ DbEntriesMatch(cache') /\ LruScoresDistinct(cache')
  BY <1>1, <1>2, <1>3, UpdateDeviceSlotKeeps DEF ManagerInv
<1>5. IdsIssued(cache', db')
  <2>1. ASSUME NEW k \in DOMAIN cache'.trie
        PROVE  cache'.trie[k].id < cache.nextCacheId
    <3>1. \/ cache'.trie[k].id = id
          \/ \E l \in DOMAIN cache.trie : cache'.trie[k].id = cache.trie[l].id
      BY <1>3, TrieIdsAfterSlot
    <3> QED
      BY <1>2, <3>1 DEF ManagerInv, IdsIssued, UsedIds
  <2> QED
    BY <1>3, <2>1 DEF ManagerInv, IdsIssued, UsedIds
<1>6. DbType(db') /\ MemoryMatchesDisk(cache', db')
  BY <1>3 DEF ManagerInv, MemoryMatchesDisk
<1> QED
  BY <1>4, <1>5, <1>6 DEF ManagerInv


LEMMA MetadataSavedKeeps ==
  ASSUME NEW tokens \in Prompts, NEW id \in IssuedIds,
         ManagerInv, MetadataSaved(id, tokens)
  PROVE  ManagerInv'
<1>1. tokens \in Keys
  BY ManagerAssumption DEF Keys
<1>2. id \in Nat \ {0} /\ id < cache.nextCacheId /\ cache.nextLruScore \in Nat
  BY DEF IssuedIds, ManagerInv, ManagerType
<1> DEFINE meta == [prefix |-> Key(tokens), lruScore |-> cache.nextLruScore]
<1>3. /\ cache' = UpdateMetadata(cache, id, tokens)
      /\ cache'.dbMetas = Put(cache.dbMetas, id, meta)
      /\ cache'.nextCacheId = cache.nextCacheId
      /\ db' = SaveMetadata(db, cache, id, tokens)
  BY DEF MetadataSaved, UpdateMetadata
<1>4. /\ ManagerType(cache') /\ SlotsMatchTrie(cache')
      /\ DbEntriesMatch(cache') /\ LruScoresDistinct(cache')
  BY <1>1, <1>2, <1>3, UpdateMetadataKeeps DEF ManagerInv
<1>5. /\ DbType(db')
      /\ DOMAIN db'.store = DOMAIN db.store \cup {id}
      /\ DOMAIN db'.stage \subseteq DOMAIN db.stage
      /\ LoadMetadata(db') = Put(LoadMetadata(db), id, meta)
  BY <1>1, <1>2, <1>3, SaveMetadataEffect DEF ManagerInv
<1> HIDE DEF meta
<1>6. MemoryMatchesDisk(cache', db')
  BY <1>3, <1>5 DEF ManagerInv, MemoryMatchesDisk
<1>7. IdsIssued(cache', db')
  <2>1. ASSUME NEW k \in DOMAIN cache'.trie
        PROVE  cache'.trie[k].id < cache.nextCacheId
    <3>1. \/ cache'.trie[k].id = id
          \/ \E l \in DOMAIN cache.trie : cache'.trie[k].id = cache.trie[l].id
      BY <1>3, TrieIdsAfterMetadata
    <3> QED
      BY <1>2, <3>1 DEF ManagerInv, IdsIssued, UsedIds
  <2>2. DOMAIN cache'.dbMetas = DOMAIN cache.dbMetas \cup {id}
    BY <1>3 DEF Put
  <2> QED
    BY <1>2, <1>3, <1>5, <2>1, <2>2 DEF ManagerInv, IdsIssued, UsedIds
<1> QED
  BY <1>4, <1>5, <1>6, <1>7 DEF ManagerInv

LEMMA RowsStagedKeeps ==
  ASSUME NEW id \in IssuedIds, ManagerInv, RowsStaged(id)
  PROVE  ManagerInv'
<1>1. id \in Nat \ {0} /\ id < cache.nextCacheId
  BY DEF IssuedIds, ManagerInv, ManagerType
<1>2. /\ cache' = cache
      /\ db'.store = db.store
      /\ DOMAIN db'.stage = DOMAIN db.stage \cup {id}
  BY DEF RowsStaged, Write, Put
<1>3. DbType(db')
  BY <1>1, <1>2 DEF ManagerInv, DbType
<1>4. MemoryMatchesDisk(cache', db')
  BY <1>2 DEF ManagerInv, MemoryMatchesDisk, LoadMetadata, StoredIds
<1>5. IdsIssued(cache', db')
  BY <1>1, <1>2 DEF ManagerInv, IdsIssued, UsedIds
<1> QED
  BY <1>2, <1>3, <1>4, <1>5 DEF ManagerInv

(* The restart is where the invariant is needed as a whole: that ids on     *)
(* disk are below the counter, and scores on disk are those in memory,      *)
(* bounds what the constructor takes the maximum of.                        *)
LEMMA RestartKeeps == ManagerInv /\ Restart => ManagerInv'
<1> SUFFICES ASSUME ManagerInv, Restart PROVE ManagerInv'
  OBVIOUS
<1> DEFINE e == Reopened(db)
           n == NewManager(e)
<1>1. db' = e /\ cache' = n
  BY DEF Restart
<1>2. e.store = db.store /\ DOMAIN e.stage = {}
  BY DEF Reopened, EmptyMap
<1>3. DbType(e)
  BY <1>2 DEF ManagerInv, DbType
<1>4. \A id \in DOMAIN e.store : id <= cache.nextCacheId
  BY <1>2 DEF ManagerInv, IdsIssued, UsedIds, DbType, ManagerType
<1>5. ASSUME NEW id \in DOMAIN e.store
      PROVE  e.store[id]["lru"] <= cache.nextLruScore
  <2>1. id \in DOMAIN db.store /\ id \in StoredIds(db)
    BY <1>2 DEF ManagerInv, DbType, StoredIds
  <2>2. id \in DOMAIN cache.dbMetas /\ cache.dbMetas[id].lruScore = e.store[id]["lru"]
    BY <1>2, <2>1 DEF ManagerInv, MemoryMatchesDisk, LoadMetadata
  <2>3. cache.dbMetas[id].lruScore < cache.nextLruScore
    BY <2>2 DEF ManagerInv, LruScoresDistinct
  <2> QED
    BY <1>2, <2>1, <2>2, <2>3 DEF ManagerInv, DbType, ManagerType
<1>6. cache.nextCacheId \in Nat /\ cache.nextLruScore \in Nat
  BY DEF ManagerInv, ManagerType
<1> HIDE DEF e
<1>7. /\ ManagerType(n) /\ SlotsMatchTrie(n) /\ DbEntriesMatch(n)
      /\ LruScoresDistinct(n) /\ MemoryMatchesDisk(n, e)
      /\ \A id \in DOMAIN e.store : id < n.nextCacheId
  BY <1>3, <1>4, <1>5, <1>6, NewManagerAgrees
<1>8. \A s \in Slots : n.deviceSlots[s].prefix = <<>>
  BY DEF NewManager
<1> HIDE DEF n
<1>9. IdsIssued(n, e)
  <2>1. DOMAIN n.dbMetas = DOMAIN e.store
    BY <1>3, <1>7 DEF MemoryMatchesDisk, LoadMetadata, StoredIds, DbType
  <2>2. ASSUME NEW k \in DOMAIN n.trie PROVE n.trie[k].id \in DOMAIN n.dbMetas
    <3>1. k \in Keys /\ n.trie[k] \in Dsts
      BY <1>7 DEF ManagerType
    <3>2. n.trie[k].type # "DEVICE_SLOT"
      BY <1>7, <1>8, <3>1 DEF SlotsMatchTrie, Keys, Dsts
    <3>3. n.trie[k].type = "DB"
      BY <3>1, <3>2 DEF Dsts
    <3> QED
      BY <1>7, <3>3 DEF DbEntriesMatch
  <2> QED
    BY <1>2, <1>7, <2>1, <2>2 DEF IdsIssued, UsedIds
<1> QED
  BY <1>1, <1>3, <1>7, <1>9 DEF ManagerInv

LEMMA StepKeeps == ManagerInv /\ [ManagerNext]_managerVars => ManagerInv'
<1> SUFFICES ASSUME ManagerInv, [ManagerNext]_managerVars PROVE ManagerInv'
  OBVIOUS
<1>1. CASE GetCacheId
  BY <1>1, GetCacheIdKeeps
<1>2. CASE \E s \in Slots, tokens \in Prompts, id \in IssuedIds \cup {CACHE_SKIP} :
             SlotFinished(s, tokens, id)
  BY <1>2, SlotFinishedKeeps
<1>3. CASE \E tokens \in Prompts, id \in IssuedIds : MetadataSaved(id, tokens)
  BY <1>3, MetadataSavedKeeps
<1>4. CASE \E id \in IssuedIds : RowsStaged(id)
  BY <1>4, RowsStagedKeeps
<1>5. CASE Restart
  BY <1>5, RestartKeeps
<1>6. CASE UNCHANGED managerVars
  BY <1>6 DEF ManagerInv, managerVars
<1> QED
  BY <1>1, <1>2, <1>3, <1>4, <1>5, <1>6 DEF ManagerNext

LEMMA InvariantHolds == ManagerSpec => []ManagerInv
<1>1. ManagerInit => ManagerInv
  BY InitEstablishes
<1>2. ManagerInv /\ [ManagerNext]_managerVars => ManagerInv'
  BY StepKeeps
<1> QED
  BY <1>1, <1>2, PTL DEF ManagerSpec

-----------------------------------------------------------------------------
(* The fields of the manager and of the database keep their shape           *)
(* (nn-cache.hpp:34-43).                                                    *)
THEOREM TypeCorrect == ManagerSpec => []ManagerTypeOK
<1>1. ManagerInv => ManagerTypeOK
  BY DEF ManagerInv, ManagerTypeOK
<1> QED
  BY <1>1, InvariantHolds, PTL

(* No trie entry points to a slot that holds another prefix, and no slot    *)
(* holds a prefix that cannot be found (nn-cache.cpp:91-114).               *)
THEOREM SlotsAgreeWithTrie == ManagerSpec => []SlotEntriesAgree
<1>1. ManagerInv => SlotEntriesAgree
  BY DEF ManagerInv, SlotEntriesAgree
<1> QED
  BY <1>1, InvariantHolds, PTL

(* No trie entry points to an id that was saved with another prefix         *)
(* (nn-cache.cpp:129-146).                                                  *)
THEOREM DbAgreesWithTrie == ManagerSpec => []DbEntriesAgree
<1>1. ManagerInv => DbEntriesAgree
  BY DEF ManagerInv, DbEntriesAgree
<1> QED
  BY <1>1, InvariantHolds, PTL

(* getCacheId never hands out an id that is in use, before or after a       *)
(* restart (nn-cache.cpp:17-22, 76-80).                                     *)
THEOREM IdsAreFresh == ManagerSpec => []FreshIds
<1>1. ManagerInv => FreshIds
  BY DEF ManagerInv, FreshIds
<1> QED
  BY <1>1, InvariantHolds, PTL

(* Slots in use never tie on their LRU score (nn-cache.cpp:61-74, 99).      *)
THEOREM SlotsOrderedByUse == ManagerSpec => []LruOrder
<1>1. ManagerInv => LruOrder
  BY DEF ManagerInv, LruOrder
<1> QED
  BY <1>1, InvariantHolds, PTL

(* A restart loads the metadata that was in memory (nn-cache.cpp:14-34,     *)
(* 148-152).                                                                *)
THEOREM RestartLosesNoMetadata == ManagerSpec => []MemoryAgreesWithDisk
<1>1. ManagerInv => MemoryAgreesWithDisk
  BY DEF ManagerInv, MemoryAgreesWithDisk
<1> QED
  BY <1>1, InvariantHolds, PTL

=============================================================================
