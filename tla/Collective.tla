----------------------------- MODULE Collective -----------------------------
(***************************************************************************)
(* What the sync steps of a forward pass promise: a node is through a step *)
(* only when every node whose results it gathers there has reached that    *)
(* step itself.  Nothing is said of threads, rows, pieces or connections.  *)
(***************************************************************************)
EXTENDS Naturals, Sequences

CONSTANTS
  NumNodes,
  Syncs             \* the types of the sync steps

VARIABLE at         \* at[n]: the sync step node n is in

Members == 0 .. (NumNodes - 1)

(* The nodes that node n hears from in a step of the given type             *)
Heard(n, type) ==
  {m \in Members \ {n} :
     \/ type = "SYNC_NODE_SLICES"
     \/ type = "SYNC_WITH_ROOT" /\ m = 0
     \/ type = "SYNC_NODE_SLICES_EXCEPT_ROOT" /\ n = 0}

Advance(n) ==
  /\ at[n] \in DOMAIN Syncs
  /\ \A m \in Heard(n, Syncs[at[n]]) : at[m] >= at[n]
  /\ at' = [at EXCEPT ![n] = @ + 1]

CollectiveInit == at = [n \in Members |-> 1]

CollectiveNext == \E n \in Members : Advance(n)

CollectiveSpec == CollectiveInit /\ [][CollectiveNext]_at

=============================================================================
