---------------------------- MODULE TxLifecycle ----------------------------
(***************************************************************************)
(* What the ingest service does to a transaction between its broadcast and *)
(* its burial: POST and the queue put it into the index and the pending    *)
(* log, ARC callbacks and the audit of each new chain tip validate its     *)
(* proof and move it to the immutable log, or roll it back (ingest.Start,  *)
(* AuditTransactions, reprocessTransaction).                               *)
(*                                                                         *)
(* Every one of these handlers is a goroutine of many store calls, and     *)
(* they run beside each other on the same transaction while blocks arrive  *)
(* and are reorganised.  The logs and the index outlive a crash.           *)
(***************************************************************************)
EXTENDS Integers, Sequences

CONSTANTS
  Txids,        \* transactions
  Depth,        \* the 10 of Start: a reorganisation never undoes a block that
                \* has more than Depth blocks on top
  RollbackFlag, \* the flag -r: the audit may roll back
  TornHeight,   \* explore the read of a Height that is still being written
  Backends,     \* the stores explored
  StartTip,     \* the longest chain when the service first starts
  MaxTip,       \* bound: heights
  Bounds        \* bounds: transactions posted and enqueued ("input"), ARC
                \* callbacks ("callback"); errors, wrong answers of providers
                \* and crashes ("fault")

ASSUME DepthAssumption == Depth \in Nat /\ StartTip \in Nat /\ StartTip > Depth
ASSUME TipAssumption == MaxTip \in Nat /\ StartTip <= MaxTip
ASSUME FlagAssumption == RollbackFlag \in BOOLEAN /\ TornHeight \in BOOLEAN
ASSUME BackendAssumption == Backends \subseteq {"redis", "sql"}
ASSUME BoundAssumption == Bounds \in [{"input", "callback", "fault"} -> Nat]

Audits == {"attempt", "mined", "mempool"}
Archivers == {"mined", "mempool", "proof"}
Kinds == Audits \cup {"proof", "reject", "queue", "post"}

\* One goroutine of each kind per transaction.
Jobs == Kinds \X Txids
Kind(j) == j[1]
Tx(j) == j[2]

VARIABLES
  backend,    \* the store of this deployment, never written
  chain,      \* chain[t]: the height at which t is on the longest chain, or 0
  tip,        \* height of the longest chain
  chaintip,   \* Chaintip: the tip that was last seen, 0 after a start
  C,          \* the channel of tips that wait for Start
  imm,        \* immutableScore, as a height
  phase,      \* where the audit is
  job,        \* where each goroutine is, and what it holds
  index,      \* store: transactions whose outputs and spends are saved
  pend,       \* store: the pending log
  logs,       \* store: the other logs
  notes,      \* ghost: what happened to transactions, see Notes
  left        \* what is left of the Bounds

env == <<backend, chain, tip, chaintip, C, imm, phase>>
store == <<index, pend, logs>>
vars == <<backend, chain, tip, chaintip, C, imm, phase, job, index, pend, logs, notes, left>>

Heights == 0..MaxTip
\* What HeightScore gives for the uint32 0 - 10: above every height, and above
\* the time stamps that score the mempool.
Forever == MaxTip + 1

\* Scores of the pending log: minus a time, a height, or a time.  Of a time
\* only the age matters: 0 is below two minutes, 2 above OldMempoolTimeout,
\* which matters for the mempool only.
NoEntry == [class |-> "none", at |-> 0]
Entries == [class : {"none", "attempt", "mempool"}, at : 0..2]
             \cup [class : {"mined"}, at : Heights]
Entry(h) == IF h = 0 THEN [class |-> "mempool", at |-> 0]
                     ELSE [class |-> "mined", at |-> h]

\* A goroutine is at a place, with the height of its proof (0 for none); old is
\* isOld; stale says that imm was set after it validated the proof.
Places == {"idle", "load", "save", "logp", "cmp", "logi", "delog",
           "rollback", "logr", "drop", "dequeue", "sent"}
JobStates == [at : Places, height : Heights, old : BOOLEAN, stale : BOOLEAN]
Idle == [at |-> "idle", height |-> 0, old |-> FALSE, stale |-> FALSE]

\* "posted": handed to ARC; "known": saved; "early": archived by a stale job;
\* "denied": on the chain, and a provider said it is not; "dropped": deleted
\* from a log as missing or refused; "rejected": rolled back on the word of
\* ARC; "cut": rolled back, and the job ended before it logged that.
Notes == {"posted", "known", "early", "denied", "dropped", "rejected", "cut"}
Noted(n) == {t \in Txids : <<n, t>> \in notes}

TypeOK ==
  /\ backend \in Backends
  /\ chain \in [Txids -> Heights]
  /\ \A t \in Txids : chain[t] <= tip
  /\ tip \in Depth..MaxTip /\ chaintip \in {0} \cup Depth..MaxTip
  /\ C \in Seq(Depth..MaxTip)
  /\ imm \in Heights \cup {Forever}
  /\ phase \in Audits \cup {"idle", "wait"}
  /\ job \in [Jobs -> JobStates]
  /\ index \subseteq Txids
  /\ pend \in [Txids -> Entries]
  /\ logs \in [{"immutable", "rollback", "queue"} -> SUBSET Txids]
  /\ notes \subseteq Notes \X Txids
  /\ left \in [{"input", "callback", "fault"} -> Nat]

Init ==
  /\ backend \in Backends
  /\ chain \in [Txids -> 0..StartTip]
  /\ tip = StartTip /\ chaintip = 0 /\ C = <<>> /\ imm = 0 /\ phase = "idle"
  /\ job = [j \in Jobs |-> Idle]
  /\ index = {}
  /\ pend = [t \in Txids |-> NoEntry]
  /\ logs = [l \in {"immutable", "rollback", "queue"} |-> {}]
  /\ notes = {}
  /\ left = Bounds

(***************************************************************************)
(* What the steps are made of.                                             *)
(***************************************************************************)

Use(b) == left[b] > 0 /\ left' = [left EXCEPT ![b] = @ - 1]

Goto(j, from, to) ==
  /\ job[j].at = from
  /\ job' = [job EXCEPT ![j] = IF to = "idle" THEN Idle ELSE [@ EXCEPT !.at = to]]

Note(n, t) == notes' = notes \cup {<<n, t>>}
Log(l, t) == logs' = [logs EXCEPT ![l] = @ \cup {t}]
LogPending(t, e) == pend' = [pend EXCEPT ![t] = e]

(***************************************************************************)
(* The chain, time, and the clients of the service.                        *)
(***************************************************************************)

\* A block arrives, on top of the longest chain or of an earlier block f whose
\* successors it undoes.
Extend ==
  /\ tip < MaxTip
  /\ tip' = tip + 1
  /\ \E f \in (tip - Depth - 1)..tip :
       chain' \in {c \in [Txids -> Heights] : \A t \in Txids :
                     IF chain[t] \in 1..f THEN c[t] = chain[t]
                                          ELSE c[t] \in {0} \cup (f + 1)..(tip + 1)}
  /\ UNCHANGED <<backend, chaintip, C, imm, phase, job, store, notes, left>>

\* An entry of the pending log that is a time grows older.
Age(t) ==
  /\ \/ pend[t].class = "attempt" /\ pend[t].at < 1
     \/ pend[t].class = "mempool" /\ pend[t].at < 2
  /\ LogPending(t, [pend[t] EXCEPT !.at = @ + 1])
  /\ UNCHANGED <<env, job, index, logs, notes, left>>

\* GetChaintip sees a tip that differs from the last and sends it to Start.
GetChaintip ==
  /\ chaintip # tip
  /\ chaintip' = tip
  /\ C' = Append(C, tip)
  /\ UNCHANGED <<backend, chain, tip, imm, phase, job, store, notes, left>>

\* A subscription enqueues a transaction.
Enqueue(t) ==
  /\ Use("input")
  /\ Log("queue", t)
  /\ UNCHANGED <<env, job, index, pend, notes>>

\* The queue processor, which runs one worker per transaction.
Take(t) ==
  /\ t \in logs["queue"]
  /\ Goto(<<"queue", t>>, "idle", "load")
  /\ UNCHANGED <<env, store, notes, left>>

\* POST logs the attempt and hands the transaction to ARC.
Post(t) ==
  /\ Use("input")
  /\ Goto(<<"post", t>>, "idle", "sent")
  /\ LogPending(t, [class |-> "attempt", at |-> 0])
  /\ Note("posted", t)
  /\ UNCHANGED <<env, index, logs>>

\* ARC took it: it is pending, and the handler goes on to ingest it.  Or not:
\* rollbackSpends deletes the entry, also that of an earlier success.
Accepted(j) ==
  /\ Goto(j, "sent", "save")
  /\ LogPending(Tx(j), Entry(0))
  /\ UNCHANGED <<env, index, logs, notes, left>>

Refused(j) ==
  /\ Goto(j, "sent", "idle")
  /\ LogPending(Tx(j), NoEntry)
  /\ Note("dropped", Tx(j))
  /\ UNCHANGED <<env, index, logs, left>>

\* ARC calls back with a Merkle path of t, or says that t is rejected.
Callback(t) ==
  /\ t \in Noted("posted")
  /\ Use("callback")
  /\ \/ Goto(<<"proof", t>>, "idle", "load")
     \/ Goto(<<"reject", t>>, "idle", "rollback")
  /\ UNCHANGED <<env, store, notes>>

(***************************************************************************)
(* The audit of a new chain tip.                                           *)
(***************************************************************************)

\* Mutant: two blocks too many are subtracted.
AnnounceDeeper ==
  /\ phase = "idle"
  /\ C # <<>>
  /\ C' = Tail(C)
  /\ imm' = Head(C) - Depth - 2
  /\ phase' = "attempt"
  /\ UNCHANGED <<backend, chain, tip, chaintip, job, store, notes, left>>

\* Start takes a tip and sets immutableScore.  The pointer it receives may be
\* read before GetChaintip stores the Height into it (blk/block.go:64-67).
Announce ==
  /\ phase = "idle"
  /\ C # <<>>
  /\ C' = Tail(C)
  /\ imm' \in {Head(C) - Depth} \cup (IF TornHeight THEN {Forever} ELSE {})
  /\ phase' = "attempt"
  /\ job' = [j \in Jobs |->
       IF Kind(j) \in Archivers /\ job[j].at \in {"save", "logp", "cmp"}
         THEN [job[j] EXCEPT !.stale = TRUE] ELSE job[j]]
  /\ UNCHANGED <<backend, chain, tip, chaintip, store, notes, left>>

\* The entries each part of the audit looks for: attempts and mempool entries
\* of two minutes or more, and what is mined below imm.
UnconfirmedAttempts == {t \in Txids : pend[t].class = "attempt" /\ pend[t].at >= 1}
MinedEntries == {t \in Txids : \/ pend[t].class = "mined" /\ pend[t].at < imm
                               \/ pend[t].class = "mempool" /\ imm = Forever}
MempoolEntries == {t \in Txids : pend[t].class = "mempool" /\ pend[t].at >= 1}
Found(kind) == CASE kind = "attempt" -> UnconfirmedAttempts
                 [] kind = "mined"   -> MinedEntries
                 [] kind = "mempool" -> MempoolEntries

Following(kind) == CASE kind = "attempt" -> "mined"
                     [] kind = "mined"   -> "mempool"
                     [] kind = "mempool" -> "wait"

\* One part of the audit: a search, and a goroutine for each transaction found.
Search(kind) ==
  /\ phase = kind
  /\ phase' = Following(kind)
  /\ job' = [j \in Jobs |->
       IF Kind(j) = kind /\ Tx(j) \in Found(kind)
         THEN [Idle EXCEPT !.at = "load", !.old = (pend[Tx(j)].at = 2)] ELSE job[j]]
  /\ UNCHANGED <<backend, chain, tip, chaintip, C, imm, store, notes, left>>

\* A search that fails ends its part of the audit.
SearchFails(kind) ==
  /\ phase = kind
  /\ phase' = Following(kind)
  /\ Use("fault")
  /\ UNCHANGED <<backend, chain, tip, chaintip, C, imm, job, store, notes>>

\* Mutant: the audit does not wait for its goroutines.
WaitNone ==
  /\ phase = "wait"
  /\ phase' = "idle"
  /\ UNCHANGED <<backend, chain, tip, chaintip, C, imm, job, store, notes, left>>

\* AuditTransactions returns when its goroutines are done.
Wait ==
  /\ phase = "wait"
  /\ \A j \in Jobs : Kind(j) \in Audits => job[j] = Idle
  /\ phase' = "idle"
  /\ UNCHANGED <<backend, chain, tip, chaintip, C, imm, job, store, notes, left>>

(***************************************************************************)
(* The steps of a goroutine, in the order of the code.                     *)
(***************************************************************************)

\* A provider says of t that it does not exist, or has no valid proof.  When
\* t is on the chain that is wrong, and costs a fault.
Denied(t) == IF chain[t] = 0 THEN UNCHANGED <<notes, left>>
                             ELSE Note("denied", t) /\ Use("fault")

\* LoadTx keeps what it loaded, and Broadcast what it was given, in a cache:
\* such a transaction is missing only when the cache has lost it, a fault.
Cached(t) == t \in Noted("posted") \cup Noted("known")

\* Where a goroutine goes that found its transaction without a valid proof.
GoneTo(j) == IF Kind(j) = "proof" \/ ~RollbackFlag THEN "idle" ELSE "rollback"

\* LoadTx: the queue saves with the proof the provider has, if any, without
\* validating it, and the block may be undone by then.
Load(j) ==
  /\ Kind(j) = "queue"
  /\ job[j].at = "load"
  /\ \E h \in {0, chain[Tx(j)]} :
       job' = [job EXCEPT ![j].at = "save", ![j].height = h]
  /\ UNCHANGED <<env, store, notes, left>>

\* Where a goroutine goes when LoadTx says ErrNotFound.
MissingTo(j) == CASE Kind(j) \in {"queue", "attempt"} -> "drop"
                  [] Kind(j) = "mempool" -> IF job[j].old THEN GoneTo(j) ELSE "drop"
                  [] OTHER               -> GoneTo(j)

\* Mutant: any error of LoadTx is taken for ErrNotFound.
MissingOrError(j) ==
  /\ Goto(j, "load", MissingTo(j))
  /\ UNCHANGED <<env, store, notes, left>>

Missing(j) ==
  /\ Goto(j, "load", MissingTo(j))
  /\ IF Cached(Tx(j)) /\ chain[Tx(j)] = 0 THEN Use("fault") /\ UNCHANGED notes
                                          ELSE Denied(Tx(j))
  /\ UNCHANGED <<env, store>>

\* It loads, but ARC does not know the attempt, which is deleted, or does, and will call back.
CheckAttempt(j) ==
  /\ Kind(j) = "attempt"
  /\ \E to \in {"drop", "idle"} : Goto(j, "load", to)
  /\ UNCHANGED <<env, store, notes, left>>

\* It loads, and the proof, of JungleBus or of ARC, agrees with the longest chain, ...
Valid(j) ==
  /\ Kind(j) \in Archivers
  /\ job[j].at = "load"
  /\ chain[Tx(j)] # 0
  /\ job' = [job EXCEPT ![j].at = "save", ![j].height = chain[Tx(j)]]
  /\ UNCHANGED <<env, store, notes, left>>

\* ... or neither has one that does.
Invalid(j) ==
  /\ Kind(j) \in Archivers
  /\ Goto(j, "load", GoneTo(j))
  /\ Denied(Tx(j))
  /\ UNCHANGED <<env, store>>

\* IngestTx: SaveTxos and SaveSpends, then the pending log.
Save(j) ==
  /\ Goto(j, "save", "logp")
  /\ index' = index \cup {Tx(j)}
  /\ Note("known", Tx(j))
  /\ UNCHANGED <<env, pend, logs, left>>

SaveLog(j) ==
  /\ Goto(j, "logp", CASE Kind(j) = "queue" -> "dequeue"
                       [] Kind(j) = "post"  -> "idle"
                       [] OTHER             -> "cmp")
  /\ LogPending(Tx(j), Entry(job[j].height))
  /\ UNCHANGED <<env, index, logs, notes, left>>

\* Mutant: Depth blocks on top are enough.
CompareLoose(j) ==
  /\ Goto(j, "cmp", IF job[j].height <= imm THEN "logi" ELSE "idle")
  /\ UNCHANGED <<env, store, notes, left>>

\* Mutant: the pending entry goes and no immutable one comes.
CompareUnlogged(j) ==
  /\ Goto(j, "cmp", IF job[j].height < imm THEN "delog" ELSE "idle")
  /\ UNCHANGED <<env, store, notes, left>>

\* newScore < immutableScore.
Compare(j) ==
  /\ Goto(j, "cmp", IF job[j].height < imm THEN "logi" ELSE "idle")
  /\ UNCHANGED <<env, store, notes, left>>

LogImmutable(j) ==
  /\ Goto(j, "logi", "delog")
  /\ Log("immutable", Tx(j))
  /\ IF job[j].stale THEN Note("early", Tx(j)) ELSE UNCHANGED notes
  /\ UNCHANGED <<env, index, pend, left>>

Delog(j) ==
  /\ Goto(j, "delog", "idle")
  /\ LogPending(Tx(j), NoEntry)
  /\ UNCHANGED <<env, index, logs, notes, left>>

Unqueue(t) == logs' = [logs EXCEPT !["queue"] = @ \ {t}]

\* The queue and the audit delete an entry they hold for missing, whatever it
\* is by now.
Drop(j) ==
  /\ Goto(j, "drop", "idle")
  /\ IF Kind(j) = "queue" THEN Unqueue(Tx(j)) /\ UNCHANGED pend
                          ELSE LogPending(Tx(j), NoEntry) /\ UNCHANGED logs
  /\ Note("dropped", Tx(j))
  /\ UNCHANGED <<env, index, left>>

\* Store.Rollback; the SQL stores also delete every log entry of t.
Rollback(j) ==
  /\ Goto(j, "rollback", "logr")
  /\ index' = index \ {Tx(j)}
  /\ IF backend = "redis"
       THEN UNCHANGED <<pend, logs>>
       ELSE /\ LogPending(Tx(j), NoEntry)
            /\ logs' = [l \in DOMAIN logs |-> logs[l] \ {Tx(j)}]
  /\ IF Kind(j) = "reject" THEN Note("rejected", Tx(j)) ELSE UNCHANGED notes
  /\ UNCHANGED <<env, left>>

LogRollback(j) ==
  /\ Goto(j, "logr", "idle")
  /\ Log("rollback", Tx(j))
  /\ UNCHANGED <<env, index, pend, notes, left>>

\* After an ingest the queue entry goes.
Dequeue(j) ==
  /\ Goto(j, "dequeue", "idle")
  /\ Unqueue(Tx(j))
  /\ UNCHANGED <<env, index, pend, notes, left>>

(***************************************************************************)
(* Failures.                                                               *)
(***************************************************************************)

Cut == {j \in Jobs : job[j].at = "logr"}

\* The goroutine ends on an error of a provider, of the header service, of
\* ParseTx or of a log.  Only the queue survives a panic in Save.
Fail(j) ==
  /\ \/ job[j].at \notin {"idle", "sent", "logp", "cmp"}
     \/ job[j].at = "logp" /\ Kind(j) = "queue"
  /\ Use("fault")
  /\ job' = [job EXCEPT ![j] = Idle]
  /\ IF j \in Cut THEN Note("cut", Tx(j)) ELSE UNCHANGED notes
  /\ UNCHANGED <<env, store>>

\* The process dies, on an error of GetChaintip, on a panic of a store, or by
\* itself, and starts anew.
Crash ==
  /\ Use("fault")
  /\ chaintip' = 0 /\ C' = <<>> /\ imm' = 0 /\ phase' = "idle"
  /\ job' = [j \in Jobs |-> Idle]
  /\ notes' = notes \cup {<<"cut", Tx(j)>> : j \in Cut}
  /\ UNCHANGED <<backend, chain, tip, store>>

Job(j) == \/ Accepted(j) \/ Refused(j)
          \/ Load(j) \/ Missing(j) \/ CheckAttempt(j) \/ Valid(j) \/ Invalid(j)
          \/ Save(j) \/ SaveLog(j)
          \/ Compare(j) \/ LogImmutable(j) \/ Delog(j)
          \/ Drop(j) \/ Rollback(j) \/ LogRollback(j) \/ Dequeue(j)
          \/ Fail(j)

Client(t) == Age(t) \/ Enqueue(t) \/ Take(t) \/ Post(t) \/ Callback(t)

Audit == \/ Announce
         \/ \E kind \in Audits : Search(kind) \/ SearchFails(kind)
         \/ Wait

Next == \/ Extend \/ GetChaintip \/ Audit
        \/ \E t \in Txids : Client(t)
        \/ \E j \in Jobs : Job(j)
        \/ Crash

Spec == Init /\ [][Next]_vars

(***************************************************************************)
(* Properties.                                                             *)
(***************************************************************************)

\* A transaction in the immutable log is on the longest chain for good: more
\* than Depth blocks are on top of it, although its proof was validated, and
\* compared, in earlier states.  A job that validated before immutableScore
\* was last set may archive what has been undone since (early): only callbacks
\* can, because the audit waits for its jobs.
ArchivedIsFinal ==
  \A t \in logs["immutable"] \ Noted("early") : chain[t] \in 1..(tip - Depth - 1)

\* An archived transaction stays in the index, unless ARC rejected it or a
\* provider denied it.
ArchivedIsIndexed ==
  logs["immutable"] \ (Noted("early") \cup Noted("denied") \cup Noted("rejected"))
    \subseteq index

\* The audit never rolls back a transaction that is on the chain below imm,
\* although blocks arrive between its search, its check and its rollback,
\* unless a provider denied the transaction.
AuditSparesFinal ==
  [][\A j \in Jobs :
       /\ Kind(j) \in Audits
       /\ job[j].at = "rollback" /\ job'[j].at = "logr"
       => Tx(j) \in Noted("denied") \/ chain[Tx(j)] \notin 1..(imm - 1)]_vars

\* No transaction that was ever saved is forgotten: it is in a log, or a job is
\* about to log it, whatever step the process died at.  The exceptions are the
\* entries that the queue and the audit delete as missing and a failed
\* broadcast deletes, and a rollback cut off before it was logged.
Tracked ==
  \A t \in Noted("known") \ (Noted("dropped") \cup Noted("cut")) :
    \/ pend[t] # NoEntry
    \/ \E l \in DOMAIN logs : t \in logs[l]
    \/ \E k \in Kinds : job[<<k, t>>].at \in {"logp", "logr"}

\* A mempool transaction is rolled back only when it is older than
\* OldMempoolTimeout (ingest.go:26-27 and 518-519).
OnlyOldRolledBack ==
  \A t \in Txids :
    job[<<"mempool", t>>].at = "rollback" => job[<<"mempool", t>>].old
=============================================================================
