----------------------------- MODULE MCApiServer -----------------------------
(* Prompts that extend, share a prefix with and diverge from each other,    *)
(* short enough to leave room for one to three sampled tokens.              *)
EXTENDS ApiServer

CONSTANTS MaxLruScore, MaxCacheId

MCPrompts == {<<1, 1, 1>>, <<1, 1, 2>>, <<1, 1, 2, 2>>, <<2, 1, 1, 2>>}

(* Bounds the two counters of the manager, and with them the requests.      *)
CountersBounded ==
  /\ cache.nextLruScore <= MaxLruScore
  /\ cache.nextCacheId <= MaxCacheId + 1

=============================================================================
