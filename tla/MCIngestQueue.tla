--------------------------- MODULE MCIngestQueue ---------------------------
(* Model values for IngestQueue: two good transactions and one that never  *)
(* loads, under three deployments that differ in every field of IngestCtx  *)
(* the processor reads.                                                    *)
EXTENDS IngestQueue

MCConfigs ==
  { [concurrency |-> 2, pageSize |-> 2, limit |-> 0, once |-> FALSE, hook |-> FALSE],
    [concurrency |-> 1, pageSize |-> 2, limit |-> 2, once |-> FALSE, hook |-> TRUE],
    [concurrency |-> 1, pageSize |-> 3, limit |-> 0, once |-> TRUE,  hook |-> FALSE] }
=============================================================================
