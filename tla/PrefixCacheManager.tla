------------------------- MODULE PrefixCacheManager -------------------------
(***************************************************************************)
(* The prefix cache of the API server: class NnPrefixCacheManager          *)
(* (src/src/nn/nn-cache.cpp).  Its object is a record                      *)
(*                                                                         *)
(*   trie          key (token sequence) -> where its KV rows are           *)
(*   deviceSlots   slot -> the prefix last computed in it and its LRU score *)
(*   dbMetas       cache id -> the prefix saved under it and its LRU score *)
(*   nextLruScore, nextCacheId   counters                                  *)
(*                                                                         *)
(* The methods are operators from one object to the next, so that          *)
(* ApiServer can call several of them in one step.  The specification at   *)
(* the end of the module calls them in any order that respects what        *)
(* ApiServer guarantees: a prefix is not empty, an id that is written was  *)
(* handed out by getCacheId, and every metadata update is committed before *)
(* the next call.                                                          *)
(***************************************************************************)
EXTENDS RocksDbCache, FiniteSets, FiniteSetsExt

CONSTANTS
  Token,        \* token ids
  NumSlots,     \* header->slots
  MinLen,       \* NnPrefixCacheMinLen
  HasDb,        \* whether a cache database is configured (--cache-db)
  Prompts       \* the token sequences that requests bring

ASSUME ManagerAssumption ==
  /\ NumSlots \in Nat \ {0}
  /\ MinLen \in Nat \ {0}
  /\ HasDb \in BOOLEAN
  /\ Prompts \subseteq Seq(Token) \ {<<>>}

Slots == 0 .. (NumSlots - 1)

CACHE_SKIP == 0

KeyOfTail(tokens) ==                                     \* mutant of Key
  IF Len(tokens) >= MaxLen
  THEN SubSeq(tokens, Len(tokens) - MaxLen + 1, Len(tokens)) ELSE tokens

Key(tokens) == IF Len(tokens) >= MaxLen THEN SubSeq(tokens, 1, MaxLen) ELSE tokens

SlotDst(s, id) == [type |-> "DEVICE_SLOT", slot |-> s, id |-> id]
DbDst(id)      == [type |-> "DB", id |-> id]
Miss           == [type |-> "MISS"]

(***************************************************************************)
(* Lookup                                                                  *)
(***************************************************************************)

CommonLen(s, t) ==
  Max({n \in 0 .. Len(s) : n <= Len(t) /\ \A i \in 1 .. n : s[i] = t[i]})

LongestMatch(m, tokens) ==
  Max({0} \cup {CommonLen(tokens, k) : k \in DOMAIN m.trie})

(* lookup: any entry that shares the longest common prefix may be returned, *)
(* the first one of the iteration order of the trie.                        *)
Lookup(m, tokens) ==
  LET matchLen == LongestMatch(m, tokens)
  IN  IF matchLen < MinLen
      THEN {Miss}
      ELSE {[type |-> "HIT", dst |-> m.trie[k],
             prefixLen |-> Len(k), matchLen |-> matchLen]
              : k \in {k \in DOMAIN m.trie : CommonLen(tokens, k) = matchLen}}

PreferPickThan(m, s, t) ==
  LET a == m.deviceSlots[s]
      b == m.deviceSlots[t]
  IN  \/ a.lruScore < b.lruScore
      \/ a.lruScore = b.lruScore /\ Len(a.prefix) < Len(b.prefix)
      \/ a.lruScore = b.lruScore /\ Len(a.prefix) = Len(b.prefix) /\ s < t

PickSlot(m) ==
  CHOOSE s \in Slots : \A t \in Slots \ {s} : PreferPickThan(m, s, t)

(***************************************************************************)
(* Updates                                                                 *)
(***************************************************************************)

TakeCacheId(m) ==
  [trie |-> m.trie, deviceSlots |-> m.deviceSlots, dbMetas |-> m.dbMetas,
   nextLruScore |-> m.nextLruScore,
   nextCacheId  |-> IF HasDb THEN m.nextCacheId + 1 ELSE m.nextCacheId]

NextCacheId(m) == IF HasDb THEN m.nextCacheId ELSE CACHE_SKIP

HoldsSlot(trie, k, s) ==
  k \in DOMAIN trie /\ trie[k].type = "DEVICE_SLOT" /\ trie[k].slot = s

HoldsIdNever(trie, k, id) == FALSE                       \* mutant of HoldsId

HoldsId(trie, k, id) ==
  k \in DOMAIN trie /\ trie[k].type = "DB" /\ trie[k].id = id

TrieKeepingSlot(m, s) == m.trie                          \* mutant

(* the trie without the entry of the slot *)
TrieWithoutSlot(m, s) ==
  LET old == m.deviceSlots[s].prefix
  IN  IF old # <<>> /\ HoldsSlot(m.trie, old, s) THEN Without(m.trie, old) ELSE m.trie

(* the trie without the entry of the id *)
TrieWithoutId(m, id) ==
  IF id \in DOMAIN m.dbMetas /\ HoldsId(m.trie, m.dbMetas[id].prefix, id)
  THEN Without(m.trie, m.dbMetas[id].prefix) ELSE m.trie

SameScore(m) == m.nextLruScore                           \* mutant of ScoreAfter

ScoreAfter(m) == m.nextLruScore + 1

(* updateDeviceSlot: the entry the slot had is dropped; when the new prefix *)
(* is already in the trie the slot is given up instead of listed twice.     *)
UpdateDeviceSlot(m, s, tokens, id) ==
  LET key  == Key(tokens)
      trie == TrieWithoutSlot(m, s)
      dup  == key \in DOMAIN trie
      slot == IF dup THEN [prefix |-> <<>>, lruScore |-> 0]
              ELSE [prefix |-> key, lruScore |-> m.nextLruScore]
  IN  [trie         |-> IF dup THEN trie ELSE Put(trie, key, SlotDst(s, id)),
       deviceSlots  |-> [m.deviceSlots EXCEPT ![s] = slot],
       dbMetas      |-> m.dbMetas,
       nextLruScore |-> ScoreAfter(m),
       nextCacheId  |-> m.nextCacheId]

(* updateNnCacheDatabaseMetadata, the part that changes the manager; an     *)
(* entry is inserted only where the key is free.                            *)
UpdateMetadata(m, id, tokens) ==
  LET key  == Key(tokens)
      trie == TrieWithoutId(m, id)
  IN  [trie         |-> IF key \in DOMAIN trie THEN trie
                        ELSE Put(trie, key, DbDst(id)),
       deviceSlots  |-> m.deviceSlots,
       dbMetas      |-> Put(m.dbMetas, id,
                            [prefix |-> key, lruScore |-> m.nextLruScore]),
       nextLruScore |-> ScoreAfter(m),
       nextCacheId  |-> m.nextCacheId]

SaveMetadataBumped(d, m, id, tokens) ==                  \* mutant of SaveMetadata
  Commit(Write(Write(d, id, "prefix", Key(tokens)), id, "lru", m.nextLruScore + 1), id)

SaveScoreOnly(d, m, id, tokens) ==                       \* mutant of SaveMetadata
  Commit(Write(d, id, "lru", m.nextLruScore), id)

(* the part that stages the metadata, and the commit every caller makes     *)
SaveMetadata(d, m, id, tokens) ==
  Commit(Write(Write(d, id, "prefix", Key(tokens)), id, "lru", m.nextLruScore), id)

(***************************************************************************)
(* The constructor.  Metadata is loaded in descending order of id and      *)
(* insert_ks keeps an entry that is already there, so a key that several   *)
(* ids share belongs to the largest of them.                               *)
(***************************************************************************)

HighestOf(S) == Max({0} \cup S)                          \* mutant of OneAbove

OneAbove(S) == Max({0} \cup S) + 1

NewManager(d) ==
  LET metas == LoadMetadata(d)
      ids   == DOMAIN metas
  IN  [trie |-> [k \in {metas[id].prefix : id \in ids} |->
                   DbDst(Max({id \in ids : metas[id].prefix = k}))],
       deviceSlots  |-> [s \in Slots |-> [prefix |-> <<>>, lruScore |-> 0]],
       dbMetas      |-> metas,
       nextLruScore |-> OneAbove({metas[id].lruScore : id \in ids}),
       nextCacheId  |-> OneAbove(ids)]

-----------------------------------------------------------------------------
(***************************************************************************)
(* The manager and its database as a state machine.                        *)
(***************************************************************************)

VARIABLES cache, db

managerVars == <<cache, db>>

ManagerInit ==
  /\ db = EmptyDb
  /\ cache = NewManager(EmptyDb)

IssuedIds == 1 .. (cache.nextCacheId - 1)

GetCacheId ==
  /\ HasDb
  /\ cache' = TakeCacheId(cache)
  /\ UNCHANGED db

SlotFinished(s, tokens, id) ==
  /\ cache' = UpdateDeviceSlot(cache, s, tokens, id)
  /\ UNCHANGED db

MetadataSaved(id, tokens) ==
  /\ HasDb
  /\ cache' = UpdateMetadata(cache, id, tokens)
  /\ db' = SaveMetadata(db, cache, id, tokens)

(* the KV rows a forward pass stages for an id, not committed yet; what     *)
(* they hold does not matter to the manager                                 *)
RowsStaged(id) ==
  /\ HasDb
  /\ db' = Write(db, id, "kv", <<>>)
  /\ UNCHANGED cache

(* the server process ends and is started again                             *)
Restart ==
  /\ MetadataLoads(db)
  /\ db' = Reopened(db)
  /\ cache' = NewManager(db')

ManagerNext ==
  \/ GetCacheId
  \/ \E s \in Slots, tokens \in Prompts, id \in IssuedIds \cup {CACHE_SKIP} :
        SlotFinished(s, tokens, id)
  \/ \E tokens \in Prompts, id \in IssuedIds : MetadataSaved(id, tokens)
  \/ \E id \in IssuedIds : RowsStaged(id)
  \/ Restart

ManagerSpec == ManagerInit /\ [][ManagerNext]_managerVars

-----------------------------------------------------------------------------
(***************************************************************************)
(* Properties.  Each is stated of a manager m and a database d, so that    *)
(* the modules that use the manager state them of their own variables.     *)
(***************************************************************************)

Keys == Seq(Token) \ {<<>>}

Dsts == [type : {"DEVICE_SLOT"}, slot : Slots, id : Nat] \cup
        [type : {"DB"}, id : Nat \ {0}]

Described == [prefix : Seq(Token), lruScore : Nat]

ManagerType(m) ==
  /\ DOMAIN m.trie \subseteq Keys
  /\ \A k \in DOMAIN m.trie : m.trie[k] \in Dsts
  /\ m.deviceSlots \in [Slots -> Described]
  /\ DOMAIN m.dbMetas \subseteq Nat \ {0}
  /\ \A id \in DOMAIN m.dbMetas : m.dbMetas[id] \in Described
  /\ m.nextLruScore \in Nat
  /\ m.nextCacheId \in Nat \ {0}

DbType(d) ==
  /\ DOMAIN d.stage \subseteq Nat \ {0}
  /\ DOMAIN d.store \subseteq Nat \ {0}
  /\ \A id \in DOMAIN d.store :
        /\ {"prefix", "lru"} \subseteq DOMAIN d.store[id]
        /\ d.store[id]["prefix"] \in Keys
        /\ d.store[id]["lru"] \in Nat

(* The shape of the manager's fields (nn-cache.hpp:34-43) and of what is on *)
(* disk: whatever is saved has its prefix and its LRU score with it.        *)
ManagerTypeOK == ManagerType(cache) /\ DbType(db)

(* The trie and the slot table agree in both directions: a slot entry is    *)
(* the prefix its slot holds, and a slot that holds a prefix is listed      *)
(* under it.  The erase of nn-cache.cpp:91-96 and the early return for a    *)
(* duplicate (:101-106) are what keeps it: an entry left behind would hand  *)
(* a later request KV rows that were overwritten.                           *)
SlotsMatchTrie(m) ==
  /\ \A k \in DOMAIN m.trie :
        m.trie[k].type = "DEVICE_SLOT" => m.deviceSlots[m.trie[k].slot].prefix = k
  /\ \A s \in Slots :
        m.deviceSlots[s].prefix # <<>> => HoldsSlot(m.trie, m.deviceSlots[s].prefix, s)

SlotEntriesAgree == SlotsMatchTrie(cache)

(* A database entry of the trie names an id whose saved prefix is the key   *)
(* of the entry (nn-cache.cpp:129-146, 24-29): an id that was given a new   *)
(* prefix is not found under the old one.                                   *)
DbEntriesMatch(m) ==
  \A k \in DOMAIN m.trie :
    m.trie[k].type = "DB" =>
      /\ m.trie[k].id \in DOMAIN m.dbMetas
      /\ m.dbMetas[m.trie[k].id].prefix = k

DbEntriesAgree == DbEntriesMatch(cache)

(* The ids in use, in memory, staged or on disk, were all issued: a fresh   *)
(* id (getCacheId, nn-cache.cpp:76-80) never overwrites a saved prefix, not *)
(* even after a restart, which recomputes the counter from what was loaded  *)
(* (:17-22).                                                                *)
UsedIds(m, d) ==
  DOMAIN m.dbMetas \cup DOMAIN d.store \cup DOMAIN d.stage \cup
  {m.trie[k].id : k \in DOMAIN m.trie}

IdsIssued(m, d) == \A id \in UsedIds(m, d) : id < m.nextCacheId

FreshIds == IdsIssued(cache, db)

(* LRU scores are handed out once: two slots that both hold a prefix never  *)
(* tie, so pickSlot (nn-cache.cpp:61-74) reuses the slot updated longest    *)
(* ago, and no score on disk or in memory is ahead of the counter.          *)
LruScoresDistinct(m) ==
  /\ \A s \in Slots : m.deviceSlots[s].lruScore < m.nextLruScore
  /\ \A id \in DOMAIN m.dbMetas : m.dbMetas[id].lruScore < m.nextLruScore
  /\ \A s, t \in Slots :
        s # t /\ m.deviceSlots[s].prefix # <<>> /\ m.deviceSlots[t].prefix # <<>>
          => m.deviceSlots[s].lruScore # m.deviceSlots[t].lruScore

LruOrder == LruScoresDistinct(cache)

(* What is in memory about the database is what a restart would load: the   *)
(* two metadata buffers are staged together and committed in one batch      *)
(* (nn-cache.cpp:148-152, rocksdb-cache.cpp:91-105).                        *)
MemoryMatchesDisk(m, d) == m.dbMetas = LoadMetadata(d)

MemoryAgreesWithDisk == MemoryMatchesDisk(cache, db)

=============================================================================
