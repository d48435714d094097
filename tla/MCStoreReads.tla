---------------------------- MODULE MCStoreReads ----------------------------
(* The store and those who read it, each on a small instance: TxoStore with   *)
(* the transactions of MCTxoStore, or one request of Queries beside writes of *)
(* any kind.  A behaviour runs one of them: part says which, and of the other *)
(* one state is enough.                                                       *)
EXTENDS MCTxoStore, Queries

CONSTANTS k1, k2, o1, o2, t1, t2

MCTxidOf == (o1 :> t1) @@ (o2 :> t2)

\* t2 spends o1 of k1, and its o2 has the owners k1 and k2; or it spends another
\* output, and o1 has the two owners.  The entries of a transaction share a score.
MCStores ==
  { [log |-> {<<k1, o1, 1>>, <<k1, t2, 2>>, <<k1, o2, 2>>, <<k2, o2, 2>>},
     saved |-> {o1, o2}, mark |-> (o1 :> t2) @@ (o2 :> QNone)],
    [log |-> {<<k1, o1, 1>>, <<k2, o1, 1>>, <<k2, o2, 2>>},
     saved |-> {o1, o2}, mark |-> (o1 :> QNone) @@ (o2 :> QNone)] }

VARIABLE part

MCInit ==
  /\ Init /\ QInit /\ part \in {"store", "query"}
  /\ part = "query" => backend = "pg"
  /\ part = "store" =>
       qBackend = "pg" /\ qLog = {<<k1, o1, 1>>, <<k2, o1, 1>>, <<k2, o2, 2>>}

MCNext ==
  \/ part = "store" /\ Next /\ UNCHANGED <<qVars, part>>
  \/ part = "query" /\ QNext /\ UNCHANGED <<vars, part>>

MCSpec == MCInit /\ [][MCNext]_<<vars, qVars, part>>
=============================================================================
