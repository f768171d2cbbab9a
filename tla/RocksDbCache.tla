---------------------------- MODULE RocksDbCache ----------------------------
(***************************************************************************)
(* The persistent side of the prefix cache: class RocksDbCacheDatabase     *)
(* (src/src/rocksdb-cache.cpp).  A database value is a record              *)
(*                                                                         *)
(*   stage  the write buffers handed out since the last commit, per id     *)
(*   store  what RocksDB holds on disk, per id                             *)
(*                                                                         *)
(* Both map a cache id to its buffers, and the buffers of an id map a      *)
(* buffer index to the bytes written there.  Three indices matter:         *)
(* "prefix" (NnPrefixIndex), "lru" (NnLruScoreIndex) and "kv", which       *)
(* stands for all key/value buffers of all layers.                         *)
(*                                                                         *)
(* The module only has operators, from one database value to the next, so  *)
(* that a caller can perform several calls in one step as the code does.   *)
(***************************************************************************)
EXTENDS Naturals, Sequences

CONSTANT MaxLen          \* NnPrefixCacheMaxLen, in tokens

ASSUME MaxLenAssumption == MaxLen \in Nat \ {0}

EmptyMap == [x \in {} |-> x]

Put(f, k, v) == [x \in DOMAIN f \cup {k} |-> IF x = k THEN v ELSE f[x]]

Without(f, k) == [x \in DOMAIN f \ {k} |-> f[x]]

Overlay(f, g) ==
  [x \in DOMAIN f \cup DOMAIN g |-> IF x \in DOMAIN g THEN g[x] ELSE f[x]]

BuffersOf(map, id) == IF id \in DOMAIN map THEN map[id] ELSE EmptyMap

-----------------------------------------------------------------------------

EmptyDb == [stage |-> EmptyMap, store |-> EmptyMap]

(* getWriteBuffer, with the memcpy of its caller: the buffer is resized, so *)
(* it holds the new data and nothing of the old.                            *)
Write(db, id, index, data) ==
  [stage |-> Put(db.stage, id, Put(BuffersOf(db.stage, id), index, data)),
   store |-> db.store]

(* commit: all staged buffers of the id in one atomic WriteBatch.  Buffers  *)
(* of the id that are not staged keep their value on disk.                  *)
Commit(db, id) ==
  IF id \notin DOMAIN db.stage
  THEN db
  ELSE [stage |-> Without(db.stage, id),
        store |-> Put(db.store, id,
                      Overlay(BuffersOf(db.store, id), db.stage[id]))]

(* read: a buffer that is not on disk reads as zero bytes.                  *)
ReadRows(db, id) ==
  LET buffers == BuffersOf(db.store, id)
  IN  IF "kv" \in DOMAIN buffers THEN buffers["kv"] ELSE <<>>

(* loadMetadata: the ids that have an LRU score on disk.                    *)
StoredIds(db) == {id \in DOMAIN db.store : "lru" \in DOMAIN db.store[id]}

LoadMetadata(db) ==
  [id \in StoredIds(db) |-> [prefix   |-> db.store[id]["prefix"],
                             lruScore |-> db.store[id]["lru"]]]

(* assert(meta.prefixLen < NnPrefixCacheMaxLen) of loadMetadata             *)
MetadataLoads(db) ==
  \A id \in StoredIds(db) : Len(db.store[id]["prefix"]) < MaxLen

(* the process ends: what was staged is gone                                *)
Reopened(db) == [stage |-> EmptyMap, store |-> db.store]

=============================================================================
