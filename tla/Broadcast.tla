----------------------------- MODULE Broadcast -----------------------------
(***************************************************************************)
(* POST /v5/tx: broadcast.Broadcast marks the inputs of a transaction as   *)
(* spent in the store, submits it to ARC, undoes the marks on failure      *)
(* (rollbackSpends), and on success the handler ingests the transaction.   *)
(*                                                                         *)
(* Requests run concurrently, several may carry the same transaction, and  *)
(* no two store calls of one request are atomic together.  Beside them the *)
(* ingest service saves transactions from its queue, rolls back those that *)
(* an ARC callback reports as rejected, and removes from the pending log   *)
(* the attempts that nobody knows.  The store outlives a crash.            *)
(***************************************************************************)
EXTENDS Naturals, Sequences, FiniteSets

CONSTANTS
  Requests,     \* broadcast requests, over the life of the deployment
  Txids,        \* transactions
  Outpoints,    \* outputs
  None,         \* no transaction: an output that is not marked
  ReqTx,        \* ReqTx[r]: the transaction of a request
  Inputs,       \* Inputs[t]: the outputs a transaction spends, in order
  Outputs,      \* Outputs[t]: the outputs a transaction creates
  Backends,     \* the stores explored
  MaxFaults,    \* bound: store errors and crashes of the server
  MaxEvents     \* bound: what the ingest service does: rejections reported by
                \* ARC, queued ingests, attempts found by an audit

ASSUME NoneAssumption == None \notin Txids
ASSUME ReqTxType == ReqTx \in [Requests -> Txids]
ASSUME InputsType == Inputs \in [Txids -> Seq(Outpoints)]
ASSUME OutputsType == Outputs \in [Txids -> SUBSET Outpoints]
ASSUME BackendsType == Backends \subseteq {"redis", "postgres", "sqlite"}
ASSUME BoundsType == MaxFaults \in Nat /\ MaxEvents \in Nat

VARIABLES
  backend,    \* the store of this deployment, never written
  spend,      \* store: the transaction marked as spending an output
  pending,    \* store: the pending log; "attempt" is a negative score
  saved,      \* store: transactions whose inputs were saved by an ingest
  pc,         \* where each request is
  vin,        \* the input each request marks next; all before it are marked
  dels,       \* the marks a failing request found to be its own
  rb,         \* transactions whose rollback has read its marks
  rbdels,     \* the marks it found
  queued,     \* transactions of the queue that are saved and not yet logged
  audit,      \* transactions whose old attempt an audit has found
  submitted,  \* ghost: transactions handed to ARC
  lost,       \* ghost: requests that lost a mark to somebody else
  overtaken,  \* ghost: requests whose dels were no longer theirs when used
  faulted,    \* ghost: transactions hit by a store error or a crash
  removed,    \* ghost: transactions whose entry in the pending log was last
              \* deleted by a rollback or by the audit
  faults, events

logVars == <<pending, removed>>
reqVars == <<pc, vin, dels>>
rbVars == <<rb, rbdels>>
serviceVars == <<rb, rbdels, queued, audit>>
boundVars == <<faults, events>>
vars == <<backend, spend, pending, saved, pc, vin, dels, rb, rbdels, queued, audit,
          submitted, lost, overtaken, faulted, removed, faults, events>>

Tx(r) == ReqTx[r]
In(r) == Inputs[ReqTx[r]]
Spends(t) == {Inputs[t][i] : i \in 1..Len(Inputs[t])}

\* The outputs a request has been through: spendOutpoints[:vin].
Prefix(r) == {In(r)[i] : i \in 1..(vin[r] - 1)}

Marking == {"mark", "look"}
Submitting == {"submit", "wait", "accept", "ingest", "ilog"}
Unwinding == {"unread", "unset", "delog"}
\* "ok" has answered with success; "orphan" had all its marks, and may have
\* reached ARC, when the server died.
Submitted == Submitting \cup {"ok", "orphan"}
Places == {"new", "log", "failed", "dead"}
            \cup Marking \cup Submitted \cup Unwinding

TypeOK ==
  /\ backend \in Backends
  /\ spend \in [Outpoints -> Txids \cup {None}]
  /\ pending \in [Txids -> {"none", "attempt", "sent"}]
  /\ saved \subseteq Txids
  /\ pc \in [Requests -> Places]
  /\ vin \in [Requests -> Nat \ {0}]
  /\ \A r \in Requests : vin[r] <= Len(In(r)) + 1
  /\ dels \in [Requests -> SUBSET Outpoints]
  /\ rb \subseteq Txids
  /\ rbdels \in [Txids -> SUBSET Outpoints]
  /\ queued \subseteq Txids
  /\ audit \subseteq Txids
  /\ submitted \subseteq Txids
  /\ lost \subseteq Requests
  /\ overtaken \subseteq Requests
  /\ faulted \subseteq Txids
  /\ removed \subseteq Txids

\* Transactions that no request here carries have been broadcast before.
Earlier == Txids \ {Tx(r) : r \in Requests}

Init ==
  /\ backend \in Backends
  /\ spend = [o \in Outpoints |-> None]
  /\ pending = [t \in Txids |-> "none"]
  /\ saved = {}
  /\ pc = [r \in Requests |-> "new"]
  /\ vin = [r \in Requests |-> 1]
  /\ dels = [r \in Requests |-> {}]
  /\ rb = {}
  /\ rbdels = [t \in Txids |-> {}]
  /\ queued = {} /\ audit = {}
  /\ submitted = Earlier
  /\ lost = {} /\ overtaken = {} /\ faulted = {} /\ removed = {}
  /\ faults = 0 /\ events = 0

Goto(r, from, to) == /\ pc[r] = from
                     /\ pc' = [pc EXCEPT ![r] = to]

\* Every store returns the errors of Log and Delog.
LogFault(r) == /\ faults < MaxFaults
               /\ faults' = faults + 1
               /\ faulted' = faulted \cup {Tx(r)}
               /\ UNCHANGED events

\* Redis returns those of the marks too; the SQL stores panic, which is a Crash.
Fault(r) == backend = "redis" /\ LogFault(r)
NoFault == UNCHANGED <<boundVars, faulted>>

\* Log and Delog: the entry is set or deleted whether there is one or not.
Log(t, score) == /\ pending' = [pending EXCEPT ![t] = score]
                 /\ removed' = removed \ {t}

\* Marks are written by SetNewSpend of a request, which respects them, and
\* overwritten or removed by everything else: Overwrite notes whom that hurts,
\* other than the request that does it.
Overwrite(sp, by) ==
  /\ spend' = sp
  /\ lost' = lost \cup
       {r \in Requests \ by : /\ pc[r] \in Marking \cup Submitted
                              /\ \E o \in Prefix(r) : sp[o] # Tx(r)}
  /\ overtaken' = overtaken \cup
       {r \in Requests \ by : /\ pc[r] = "unset"
                              /\ \E o \in dels[r] : sp[o] # Tx(r)}
  /\ UNCHANGED submitted
Without(S) == [o \in Outpoints |-> IF o \in S THEN None ELSE spend[o]]
NoOverwrite == UNCHANGED <<spend, lost, overtaken>>

(***************************************************************************)
(* A request, up to the answer of ARC.                                     *)
(***************************************************************************)

\* The inputs are vetted against JungleBus (known, unspent, script valid) and
\* the fee is checked: the request is answered, or goes on.
Vet(r) ==
  /\ \E to \in {"log", "failed"} : Goto(r, "new", to)
  /\ NoOverwrite /\ NoFault
  /\ UNCHANGED <<backend, logVars, saved, vin, dels, serviceVars, submitted>>

\* Mutant: the attempt is not logged.
LogNoAttempt(r) ==
  /\ Goto(r, "log", "mark")
  /\ NoOverwrite /\ NoFault
  /\ UNCHANGED <<backend, logVars, saved, vin, dels, serviceVars, submitted>>

\* The raw transaction is cached and the attempt logged, with minus the time
\* as its score, whatever was logged for the transaction before.  An error of
\* Log ends the request, and may hide that the entry was written.
LogAttempt(r) ==
  /\ \/ /\ Goto(r, "log", "mark")
        /\ Log(Tx(r), "attempt")
        /\ NoFault
     \/ /\ Goto(r, "log", "failed")
        /\ UNCHANGED logVars \/ Log(Tx(r), "attempt")
        /\ LogFault(r)
  /\ NoOverwrite
  /\ UNCHANGED <<backend, saved, vin, dels, serviceVars, submitted>>

\* Mutant: rollbackSpends goes on for an empty list, to its Delog.
UnwindAlways(r, from) == Goto(r, from, "unread")

\* rollbackSpends returns at once for an empty list, without a Delog.
Unwind(r, from) == Goto(r, from, IF vin[r] = 1 THEN "failed" ELSE "unread")

\* Mutant: the store sets the mark whether or not there is one.
AlwaysFree(o) == TRUE

\* SetNewSpend: the mark is set if there is none; the statement that SQLite
\* prepares has no such condition and always reports a new mark.
Free(o) == spend[o] = None \/ backend = "sqlite"

Mark(r) ==
  /\ vin[r] <= Len(In(r))
  /\ LET o == In(r)[vin[r]]
         marked == [spend EXCEPT ![o] = Tx(r)]
     IN  \/ /\ Free(o)
            /\ Goto(r, "mark", "mark")
            /\ vin' = [vin EXCEPT ![r] = @ + 1]
            /\ spend' = marked
            /\ NoFault
         \/ /\ ~Free(o)
            /\ Goto(r, "mark", "look")
            /\ UNCHANGED <<vin, spend>>
            /\ NoFault
         \/ /\ Unwind(r, "mark")
            /\ UNCHANGED vin
            /\ \/ UNCHANGED spend
               \/ Free(o) /\ spend' = marked
            /\ Fault(r)
  /\ UNCHANGED <<backend, logVars, saved, dels, serviceVars, submitted, lost, overtaken>>

\* Mutant: the loop index is advanced once too often.
LookTwice(r) ==
  /\ pc[r] = "look"
  /\ \/ /\ spend[In(r)[vin[r]]] = Tx(r)
        /\ Goto(r, "look", "mark")
        /\ vin' = [vin EXCEPT ![r] = @ + 2]
     \/ /\ spend[In(r)[vin[r]]] # Tx(r)
        /\ Unwind(r, "look")
        /\ UNCHANGED vin
  /\ NoOverwrite /\ NoFault
  /\ UNCHANGED <<backend, logVars, saved, dels, serviceVars, submitted>>

\* The output was marked: by this transaction, which is as good as a new mark,
\* or by another one, unless the mark is gone again, and the request fails.
Look(r) ==
  /\ pc[r] = "look"
  /\ \/ /\ spend[In(r)[vin[r]]] = Tx(r)
        /\ Goto(r, "look", "mark")
        /\ vin' = [vin EXCEPT ![r] = @ + 1]
        /\ NoFault
     \/ /\ spend[In(r)[vin[r]]] # Tx(r)
        /\ Unwind(r, "look")
        /\ UNCHANGED vin
        /\ NoFault
     \/ /\ Unwind(r, "look")
        /\ UNCHANGED vin
        /\ Fault(r)
  /\ NoOverwrite
  /\ UNCHANGED <<backend, logVars, saved, dels, serviceVars, submitted>>

AllMarked(r) ==
  /\ vin[r] > Len(In(r))
  /\ Goto(r, "mark", "submit")
  /\ NoOverwrite /\ NoFault
  /\ UNCHANGED <<backend, logVars, saved, vin, dels, serviceVars, submitted>>

\* ArcBroadcast: the transaction leaves; the answer is a separate step.
Submit(r) ==
  /\ Goto(r, "submit", "wait")
  /\ submitted' = submitted \cup {Tx(r)}
  /\ NoOverwrite /\ NoFault
  /\ UNCHANGED <<backend, logVars, saved, vin, dels, serviceVars>>

\* Mutant: a failed submission does not undo the marks.
AnswerKeep(r) ==
  /\ \/ Goto(r, "wait", "accept")
     \/ Goto(r, "wait", "failed")
  /\ NoOverwrite /\ NoFault
  /\ UNCHANGED <<backend, logVars, saved, vin, dels, serviceVars, submitted>>

\* An HTTP error, an error status, an error TxStatus, or success.  What ARC
\* answers does not say whether the network got the transaction.
Answer(r) ==
  /\ \/ Goto(r, "wait", "accept")
     \/ Unwind(r, "wait")
  /\ NoOverwrite /\ NoFault
  /\ UNCHANGED <<backend, logVars, saved, vin, dels, serviceVars, submitted>>

(***************************************************************************)
(* Success.                                                                *)
(***************************************************************************)

\* The attempt becomes a pending transaction; an error of Log is ignored.
Accept(r) ==
  /\ Goto(r, "accept", "ingest")
  /\ \/ Log(Tx(r), "sent") /\ NoFault
     \/ UNCHANGED logVars /\ LogFault(r)
  /\ NoOverwrite
  /\ UNCHANGED <<backend, saved, vin, dels, serviceVars, submitted>>

\* What SaveSpends writes for a transaction, whoever marked its inputs.
SpentBy(t) ==
  [o \in Outpoints |-> IF o \in Spends(t) THEN t ELSE spend[o]]

\* IngestTx of the handler: an error of ParseTx is only logged; SaveSpends
\* overwrites the marks, and a failure of it panics, which is a Crash.
Ingest(r) ==
  /\ \/ /\ Goto(r, "ingest", "ok")
        /\ NoOverwrite
        /\ UNCHANGED <<saved, submitted>>
     \/ /\ Goto(r, "ingest", "ilog")
        /\ Overwrite(SpentBy(Tx(r)), {r})
        /\ saved' = saved \cup {Tx(r)}
  /\ NoFault
  /\ UNCHANGED <<backend, logVars, vin, dels, serviceVars>>

\* Save logs the transaction; an error of Log panics, which is a Crash.
IngestLog(r) ==
  /\ Goto(r, "ilog", "ok")
  /\ Log(Tx(r), "sent")
  /\ NoOverwrite /\ NoFault
  /\ UNCHANGED <<backend, saved, vin, dels, serviceVars, submitted>>

(***************************************************************************)
(* Failure: rollbackSpends.                                                *)
(***************************************************************************)

\* Mutant: rollbackSpends does not look whose marks they are.
AllMarks(r) == Prefix(r)

\* GetSpends pairs the marks it returns with the outputs asked for.  Postgres
\* returns rows in no order, so there the own marks are counted right but may
\* be taken for those of other outputs of the list.
OwnMarks(r) == {o \in Prefix(r) : spend[o] = Tx(r)}
FoundMarks(r) ==
  IF backend = "postgres"
    THEN {S \in SUBSET Prefix(r) : Cardinality(S) = Cardinality(OwnMarks(r))}
    ELSE {OwnMarks(r)}

\* SQLite cannot bind the list and panics, which is a Crash.
Unread(r) ==
  /\ \/ /\ backend # "sqlite"
        /\ Goto(r, "unread", "unset")
        /\ \E S \in FoundMarks(r) : dels' = [dels EXCEPT ![r] = S]
        /\ NoFault
     \/ /\ Goto(r, "unread", "failed")
        /\ UNCHANGED dels
        /\ Fault(r)
  /\ NoOverwrite
  /\ UNCHANGED <<backend, logVars, saved, vin, serviceVars, submitted>>

\* UnsetSpends removes whatever marks those outputs now have.
Unset(r) ==
  /\ \/ /\ Goto(r, "unset", "delog")
        /\ Overwrite(Without(dels[r]), {r})
        /\ NoFault
     \/ /\ Goto(r, "unset", "failed")
        /\ dels[r] # {}
        /\ NoOverwrite
        /\ UNCHANGED submitted
        /\ Fault(r)
  /\ UNCHANGED <<backend, logVars, saved, vin, dels, serviceVars>>

Delog(r) ==
  /\ Goto(r, "delog", "failed")
  /\ \/ Log(Tx(r), "none") /\ NoFault
     \/ UNCHANGED logVars /\ LogFault(r)
  /\ NoOverwrite
  /\ UNCHANGED <<backend, saved, vin, dels, serviceVars, submitted>>

(***************************************************************************)
(* The ingest service, and crashes of the server.                          *)
(***************************************************************************)

Serve == /\ events < MaxEvents
         /\ events' = events + 1
         /\ UNCHANGED <<faults, faulted>>

Reported(t) == t \in submitted /\ Serve

\* An ARC callback says REJECTED, DOUBLE_SPEND_ATTEMPTED or orphaned, and
\* Store.Rollback undoes the transaction.  In Redis it reads the marks of the
\* inputs an ingest saved, and removes them in a second call.
RollbackRead(t) ==
  /\ backend = "redis"
  /\ t \notin rb
  /\ Reported(t)
  /\ rb' = rb \cup {t}
  /\ rbdels' = [rbdels EXCEPT ![t] =
       IF t \in saved THEN {o \in Spends(t) : spend[o] = t} ELSE {}]
  /\ NoOverwrite
  /\ UNCHANGED <<backend, logVars, saved, reqVars, queued, audit, submitted>>

RollbackApply(t) ==
  /\ t \in rb
  /\ rb' = rb \ {t}
  /\ Overwrite(Without(rbdels[t]), {})
  /\ NoFault
  /\ UNCHANGED <<backend, logVars, saved, reqVars, rbdels, queued, audit>>

\* The ingest service deletes the entry of a transaction.
Remove(t) == /\ pending' = [pending EXCEPT ![t] = "none"]
             /\ removed' = removed \cup {t}

\* The SQL stores do it in one database transaction, which also deletes every
\* log entry of the transaction, and the rows of its outputs with their marks.
RollbackSQL(t) ==
  /\ backend # "redis"
  /\ Reported(t)
  /\ Overwrite(Without({o \in Outpoints : spend[o] = t \/ o \in Outputs[t]}), {})
  /\ Remove(t)
  /\ saved' = saved \ {t}
  /\ UNCHANGED <<backend, reqVars, serviceVars>>

\* The queue processor ingests a transaction that a subscription has seen, or
\* a callback one that was mined: it saves the spends, then logs.
QueueSave(t) ==
  /\ t \notin queued
  /\ Serve
  /\ Overwrite(SpentBy(t), {})
  /\ saved' = saved \cup {t}
  /\ queued' = queued \cup {t}
  /\ UNCHANGED <<backend, logVars, reqVars, rbVars, audit>>

QueueLog(t) ==
  /\ t \in queued
  /\ queued' = queued \ {t}
  /\ Log(t, "sent")
  /\ NoOverwrite /\ NoFault
  /\ UNCHANGED <<backend, saved, reqVars, rbVars, audit, submitted>>

\* An audit searches the log for attempts that are older than two minutes.
AuditFind(t) ==
  /\ pending[t] = "attempt" /\ t \notin audit
  /\ Serve
  /\ audit' = audit \cup {t}
  /\ NoOverwrite
  /\ UNCHANGED <<backend, logVars, saved, reqVars, rbVars, queued, submitted>>

\* A goroutine then asks for the transaction, and when LoadTx or ARC does not
\* know it deletes the entry, whatever its score is by now.
AuditCheck(t) ==
  /\ t \in audit
  /\ audit' = audit \ {t}
  /\ UNCHANGED logVars \/ Remove(t)
  /\ NoOverwrite /\ NoFault
  /\ UNCHANGED <<backend, saved, reqVars, rbVars, queued, submitted>>

\* The server dies: requests under way get no answer and undo nothing.
Crash ==
  /\ faults < MaxFaults
  /\ faults' = faults + 1
  /\ pc' = [r \in Requests |->
              IF pc[r] \in Submitting THEN "orphan"
              ELSE IF pc[r] \in {"log"} \cup Marking \cup Unwinding THEN "dead"
              ELSE pc[r]]
  /\ faulted' = faulted \cup {Tx(r) : r \in {q \in Requests : pc'[q] # pc[q]}}
  /\ NoOverwrite
  /\ UNCHANGED <<backend, logVars, saved, vin, dels, serviceVars, submitted, events>>

Request(r) == \/ Vet(r) \/ LogAttempt(r)
              \/ Mark(r) \/ Look(r) \/ AllMarked(r)
              \/ Submit(r) \/ Answer(r)
              \/ Accept(r) \/ Ingest(r) \/ IngestLog(r)
              \/ Unread(r) \/ Unset(r) \/ Delog(r)

Service(t) == \/ RollbackRead(t) \/ RollbackApply(t) \/ RollbackSQL(t)
              \/ QueueSave(t) \/ QueueLog(t)
              \/ AuditFind(t) \/ AuditCheck(t)

Next == \/ \E r \in Requests : Request(r)
        \/ \E t \in Txids : Service(t)
        \/ Crash

Spec == Init /\ [][Next]_vars

(***************************************************************************)
(* Properties.                                                             *)
(***************************************************************************)

Conflicts ==
  {p \in Requests \X Requests :
     /\ Tx(p[1]) # Tx(p[2])
     /\ Spends(Tx(p[1])) \cap Spends(Tx(p[2])) # {}}

Active == {r \in Requests : pc[r] \in Submitted /\ r \notin lost}

\* Two requests that spend the same output with different transactions are not
\* both submitted, whatever interleaving of their marks and undone marks led
\* there, unless one had a mark removed or overwritten by another actor.
ExclusiveSubmission ==
  \A q, r \in Active : <<q, r>> \notin Conflicts

\* What rollbackSpends unsets is marked for its own transaction, unless the
\* mark changed hands after it was read.  Redis only: Postgres may pair the
\* marks with other outputs (FoundMarks).
UnsetsOnlyOwn ==
  [][\A r \in Requests :
       /\ backend = "redis"
       /\ pc[r] = "unset" /\ pc'[r] = "delog"
       /\ r \notin overtaken
       => \A o \in Outpoints : spend'[o] # spend[o] => spend[o] = Tx(r)]_vars

\* A mark belongs to a request that is under way or was submitted, or to an
\* ingested transaction: a failed request leaves none behind, on whichever
\* path it failed, unless a store error or a crash hit it.  Redis only:
\* Postgres may misplace the marks that are left when some were lost.
NoLeakedMarks ==
  \A o \in Outpoints : backend = "redis" /\ spend[o] # None =>
    \/ spend[o] \in saved \cup faulted
    \/ \E r \in Requests :
         /\ Tx(r) = spend[o]
         /\ pc[r] \in Marking \cup Submitted \cup Unwinding

\* A request that has logged its attempt and not yet said how it ended.
Attempting(q) ==
  pc[q] \in Marking \cup {"submit", "wait", "accept"} \cup Unwinding

\* Another request for the same transaction that gave up after it had marked an
\* input: rollbackSpends came to its Delog.
Delogged(q, r) ==
  q # r /\ Tx(q) = Tx(r) /\ pc[q] = "failed" /\ vin[q] > 1

\* What a duplicate q may have done to the entry of r: its attempt is not over;
\* or it gave up at its first input, which needs r to have lost its marks; or it
\* deleted the entry, of which it takes the score of r for its own.
Spoiled(q, r) ==
  /\ q # r /\ Tx(q) = Tx(r)
  /\ \/ pending[Tx(r)] = "attempt" /\ Attempting(q)
     \/ pending[Tx(r)] = "attempt" /\ pc[q] = "failed" /\ r \in lost
     \/ pending[Tx(r)] = "none" /\ Delogged(q, r)

\* A transaction that was answered with success is logged as sent, where the
\* audit finds it, until its entry is archived (TxLifecycle).  A duplicate that
\* is not past its vetting, was refused there, or was itself accepted does not
\* change that, nor one that is refused without a mark of its own; only those
\* of Spoiled do, a store error, or a rollback or audit of this transaction.
SuccessStaysPending ==
  \A r \in Requests : pc[r] = "ok" /\ Tx(r) \notin faulted \cup removed =>
    \/ pending[Tx(r)] = "sent"
    \/ \E q \in Requests : Spoiled(q, r)

\* A transaction that may have reached ARC is in the pending log, as an attempt
\* or as sent, whatever store errors and crashes hit the request: nothing else
\* tells an audit of it.  Only a duplicate that undid its own marks, a rollback
\* or an audit takes it out.
SubmittedIsTracked ==
  \A r \in Requests : pc[r] \in Submitted /\ Tx(r) \notin removed =>
    \/ pending[Tx(r)] # "none"
    \/ \E q \in Requests : Delogged(q, r)
=============================================================================
