------------------------------- MODULE MCEdges -------------------------------
(* The edges on a small instance, and beside them, as a part that shares      *)
(* nothing with them, the loading of transactions (TxLoader).  Callers of the *)
(* loader ask for one transaction, since transactions share nothing but the   *)
(* lock of the map, with JungleBus and a node, or with the node alone.  Of    *)
(* the parts that do not run, one state is enough.                            *)
EXTENDS Edges, TxLoader, TLC

CONSTANTS s1, s2, e1, e2, e3

MCSubConfigs == {<<"pg", {"mempool"}>>, <<"sqlite", {"rewind"}>>}
MCSubBounds == [fault |-> 2, reorg |-> 1]

MCDeployments == {{"jb", "node"}, {"node"}}

\* Callers differ in name only.
Symmetric == Permutations(Callers)

MCInit ==
  /\ SubInit /\ EsInit /\ Init
  /\ part \in {"subscription", "stream", "loader"}
  /\ part # "subscription" => subBackend = "pg"
  /\ part # "loader" =>
       /\ providers = {"node"} /\ known["node"] = {}
       /\ \A t \in Txids : chain[t] = 0 /\ rawtxs[t] = "none"

MCNext ==
  \/ EdgesNext /\ UNCHANGED vars
  \/ part = "loader" /\ Next /\ UNCHANGED edgeVars

MCSpec == MCInit /\ [][MCNext]_<<edgeVars, vars>>
=============================================================================
