---------------------------- MODULE MCBroadcast ----------------------------
(* Model values for Broadcast: two requests for transaction a, and one for *)
(* b, which spends the same outputs in the other order.  The output o1 was *)
(* created by p, a transaction that was broadcast earlier.                 *)
EXTENDS Broadcast, TLC

CONSTANTS a, b, p, a1, a2, b1, o1, o2

MCReqTx == [r \in Requests |-> IF r = b1 THEN b ELSE a]
MCInputs == (a :> <<o1, o2>>) @@ (b :> <<o2, o1>>) @@ (p :> <<>>)
MCOutputs == (a :> {}) @@ (b :> {}) @@ (p :> {o1})

\* The two requests for a differ in name only.
Duplicates == Permutations({a1, a2})

\* An error or a crash beside what the service does: on Postgres both in one
\* behaviour, on Redis one or the other.
Together == backend = "redis" => faults + events <= 1
=============================================================================
