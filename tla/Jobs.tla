--------------------------------- MODULE Jobs ---------------------------------
(* Two programs that repair what ingesting left open: the owner sync fetches  *)
(* the history of an owner, and the resolver of origins goes through what is  *)
(* unresolved.  They share only the queue, to which the sync adds, so a       *)
(* behaviour runs one of them: part says which.                               *)
EXTENDS Origins, OwnerSync

VARIABLE part
jobVars == <<osVars, orVars, part>>

JobsInit == OsInit /\ OrInit /\ part \in {"ownersync", "origins"}

JobsNext ==
  \/ part = "ownersync" /\ OsNext /\ UNCHANGED <<orVars, part>>
  \/ part = "origins" /\ OrNext /\ UNCHANGED <<osVars, part>>

JobsSpec == JobsInit /\ [][JobsNext]_jobVars /\ OsFairness /\ OrFairness

\* Every variable of the two programs has its type.
JobsTypeOK == OsTypeOK /\ OrTypeOK
=============================================================================
