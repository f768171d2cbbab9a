------------------------ MODULE MCPrefixCacheManager ------------------------
(* Two slots, two ids and prefixes that nest, diverge and get truncated.    *)
EXTENDS PrefixCacheManager

CONSTANTS MaxLruScore, MaxCacheId

MCPrompts == {<<1, 1>>, <<1, 1, 2>>, <<1, 2, 2>>, <<1, 2, 2, 1>>}

(* Bounds the two counters of the manager.                                  *)
CountersBounded ==
  /\ cache.nextLruScore <= MaxLruScore
  /\ cache.nextCacheId <= MaxCacheId + 1

=============================================================================
