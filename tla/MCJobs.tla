-------------------------------- MODULE MCJobs --------------------------------
(* The two jobs on a small instance.  Of the job that does not run, one state *)
(* is enough.                                                                 *)
EXTENDS Jobs, TLC

CONSTANTS t1, t2, o1, r0, r1, r2, r3, f, a, b, c

MCOsConfigs ==
  {<<"redis", 2, {}>>, <<"sql", 1, {}>>, <<"redis", 1, {o1}>>}
MCOsBounds ==
  { [ask |-> 1, fault |-> 1, reorg |-> 0], [ask |-> 1, fault |-> 0, reorg |-> 1] }
MCOwnersOf == (t1 :> {o1}) @@ (t2 :> {o1})

\* A line of three outputs of one satoshi; the first takes it from three old ones.
MCInsOf == (r0 :> <<>>) @@ (r1 :> <<f>>) @@ (r2 :> <<a>>) @@ (r3 :> <<b>>)
MCOutsOf == (r0 :> <<f>>) @@ (r1 :> <<a>>) @@ (r2 :> <<b>>) @@ (r3 :> <<c>>)
MCSats == (f :> 3) @@ (a :> 1) @@ (b :> 1) @@ (c :> 1)
MCOrBounds ==
  { [fault |-> 2, restart |-> 0, other |-> 1], [fault |-> 0, restart |-> 1, other |-> 1] }

MCJobsInit ==
  /\ JobsInit
  /\ part # "ownersync" => osBackend = "sql" /\ osLeft.fault = 0
  /\ part # "origins" => orLeft = [fault |-> 0, restart |-> 1, other |-> 1]

MCJobsSpec == MCJobsInit /\ [][JobsNext]_jobVars /\ OsFairness /\ OrFairness
=============================================================================
