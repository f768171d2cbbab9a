----------------------------- MODULE MCNodeSync -----------------------------
(* Three nodes: a root whose two sockets have a thread each, a worker with  *)
(* one thread and a worker with more threads than sockets.                  *)
EXTENDS NodeSync

MCThreads == [n \in 0 .. 2 |-> <<2, 1, 3>>[n + 1]]

(* The sync steps of a model with one layer (llm.cpp): the embedding, the   *)
(* attention and feed-forward results, the logits.                          *)
MCSyncs == <<"SYNC_WITH_ROOT", "SYNC_NODE_SLICES", "SYNC_NODE_SLICES_EXCEPT_ROOT">>

=============================================================================
