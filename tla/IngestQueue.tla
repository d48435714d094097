---------------------------- MODULE IngestQueue ----------------------------
(***************************************************************************)
(* The queue processor of ingest/ingest.go: processQueue is one dispatcher *)
(* goroutine that pages through a durable work queue (a scored log of the  *)
(* store) and one goroutine per transaction it takes.  The dispatcher and  *)
(* its workers share a counting semaphore (limiter), a wait group, and two *)
(* unbuffered channels, errors and done.                                   *)
(*                                                                         *)
(* The queue survives a crash of the process; everything else is lost.     *)
(* Other processes (subscriptions, owner sync) add to the queue meanwhile. *)
(***************************************************************************)
EXTENDS Naturals, FiniteSets

CONSTANTS
  Txids,        \* transactions that can be queued
  Workers,      \* goroutine identities; at least one per transaction
  Configs,      \* the IngestCtx values explored
  Poison,       \* transactions that always fail to load
  NoTx,         \* no transaction
  MaxEnqueues,  \* bound: entries written by other processes
  MaxFaults,    \* bound: transient failures of the provider or the store
  MaxStops      \* bound: cancellations, and crashes with a restart

ASSUME NoTxAssumption == NoTx \notin Txids
ASSUME WorkersFinite == IsFiniteSet(Workers)
ASSUME ConfigsType ==
  Configs \subseteq [concurrency : Nat \ {0}, pageSize : Nat \ {0},
                     limit : Nat, once : BOOLEAN, hook : BOOLEAN]
ASSUME BoundsType == /\ MaxEnqueues \in Nat
                     /\ MaxFaults \in Nat
                     /\ MaxStops \in Nat
                     /\ Poison \subseteq Txids

VARIABLES
  cfg,        \* the configuration of this deployment, never written
  queue,      \* the durable queue
  main,       \* where the dispatcher is
  page,       \* entries of the current page still to be looked at
  cur,        \* the transaction waiting for a slot of the limiter
  txcount,    \* transactions taken, counted only under a Limit
  limiter,    \* tokens in the limiter channel
  inflight,   \* the dispatcher's set of transactions being worked on
  gpc,        \* where each worker goroutine is
  gtx,        \* the transaction of each worker goroutine
  cancelled,  \* the context is done
  owed,       \* ghost: queued while not in flight, and not yet handled
  enqueues, faults, stops

queueVars == <<queue, owed>>
mainVars == <<main, page, cur, txcount, inflight>>
workVars == <<gpc, gtx>>
boundVars == <<enqueues, faults, stops>>
vars == <<cfg, queue, main, page, cur, txcount, limiter, inflight, gpc, gtx,
          cancelled, owed, enqueues, faults, stops>>

\* A worker holds its slot, and a count of the wait group, until its deferred
\* function has run; a worker that waits to send on done holds neither.
Holding == {"load", "drop", "ingest", "hook", "delog", "err", "fin"}
Busy == {w \in Workers : gpc[w] \in Holding}

\* A select with a default takes the default only when no case is ready.
CaseReady == \/ cancelled
             \/ \E w \in Workers : gpc[w] \in {"done", "err"}

TypeOK ==
  /\ cfg \in Configs
  /\ queue \subseteq Txids
  /\ main \in {"select", "page", "acquire", "drain", "exit"}
  /\ page \subseteq Txids
  /\ cur \in Txids \cup {NoTx}
  /\ txcount \in Nat
  /\ limiter \in Nat
  /\ inflight \subseteq Txids
  /\ gpc \in [Workers -> Holding \cup {"idle", "done"}]
  /\ gtx \in [Workers -> Txids \cup {NoTx}]
  /\ cancelled \in BOOLEAN
  /\ owed \subseteq Txids
  /\ enqueues \in 0..MaxEnqueues
  /\ faults \in 0..MaxFaults
  /\ stops \in 0..MaxStops

\* The process starts on whatever queue it finds.
Init ==
  /\ cfg \in Configs
  /\ queue \in SUBSET Txids
  /\ main = "select"
  /\ page = {}
  /\ cur = NoTx
  /\ txcount = 0
  /\ limiter = 0
  /\ inflight = {}
  /\ gpc = [w \in Workers |-> "idle"]
  /\ gtx = [w \in Workers |-> NoTx]
  /\ cancelled = FALSE
  /\ owed = queue
  /\ enqueues = 0 /\ faults = 0 /\ stops = 0

(***************************************************************************)
(* Other processes, and the end of this one.                               *)
(***************************************************************************)

\* Log or LogOnce of the queue key by a subscription or by owner sync: a new
\* entry, or a new score for one that is already there.
Enqueue(t) ==
  /\ enqueues < MaxEnqueues
  /\ enqueues' = enqueues + 1
  /\ queue' = queue \cup {t}
  /\ owed' = IF t \in inflight THEN owed ELSE owed \cup {t}
  /\ UNCHANGED <<cfg, mainVars, limiter, workVars, cancelled, faults, stops>>

Cancel ==
  /\ ~cancelled
  /\ stops < MaxStops
  /\ stops' = stops + 1
  /\ cancelled' = TRUE
  /\ UNCHANGED <<cfg, queueVars, mainVars, limiter, workVars, enqueues, faults>>

\* The process dies and is started again: only the queue is left.
Crash ==
  /\ stops < MaxStops
  /\ stops' = stops + 1
  /\ main' = "select" /\ page' = {} /\ cur' = NoTx /\ txcount' = 0
  /\ limiter' = 0 /\ inflight' = {} /\ cancelled' = FALSE
  /\ gpc' = [w \in Workers |-> "idle"]
  /\ gtx' = [w \in Workers |-> NoTx]
  /\ UNCHANGED <<cfg, queueVars, enqueues, faults>>

(***************************************************************************)
(* The dispatcher.                                                         *)
(***************************************************************************)

\* Store.Search returns the PageSize entries of lowest score.  Scores are not
\* modelled, so a page is any PageSize of the entries.
Pages ==
  {S \in SUBSET queue :
     \/ S = queue /\ Cardinality(S) <= cfg.pageSize
     \/ Cardinality(S) = cfg.pageSize}

\* The default case.  An error or an empty page only sleeps, and is the case
\* of a page with nothing to look at.
Search ==
  /\ main = "select"
  /\ ~CaseReady
  /\ \E S \in Pages : page' = S
  /\ main' = "page"
  /\ UNCHANGED <<cfg, queueVars, cur, txcount, inflight, limiter, workVars,
                 cancelled, boundVars>>

\* The next entry of the page: skipped when it is in flight, taken otherwise.
Skip(t) ==
  /\ main = "page"
  /\ t \in page
  /\ t \in inflight
  /\ page' = page \ {t}
  /\ UNCHANGED <<cfg, queueVars, main, cur, txcount, inflight, limiter,
                 workVars, cancelled, boundVars>>

Counted == IF cfg.limit > 0 THEN txcount + 1 ELSE txcount

\* Mutant: the entry is not looked up in inflight.
TakeAny(t) ==
  /\ main = "page"
  /\ t \in page
  /\ page' = page \ {t}
  /\ txcount' = Counted
  /\ main' = "acquire"
  /\ cur' = t
  /\ inflight' = inflight \cup {t}
  /\ UNCHANGED <<cfg, queueVars, limiter, workVars, cancelled, boundVars>>

Take(t) ==
  /\ main = "page"
  /\ t \in page
  /\ t \notin inflight
  /\ page' = page \ {t}
  /\ txcount' = Counted
  /\ IF cfg.limit > 0 /\ Counted > cfg.limit
       THEN /\ main' = "drain"
            /\ UNCHANGED <<cur, inflight>>
       ELSE /\ main' = "acquire"
            /\ cur' = t
            /\ inflight' = inflight \cup {t}
  /\ UNCHANGED <<cfg, queueVars, limiter, workVars, cancelled, boundVars>>

EndPage ==
  /\ main = "page"
  /\ page = {}
  /\ main' = "select"
  /\ UNCHANGED <<cfg, queueVars, page, cur, txcount, inflight, limiter,
                 workVars, cancelled, boundVars>>

\* limiter <- struct{}{} blocks the dispatcher while the channel is full.
Acquire(w) ==
  /\ main = "acquire"
  /\ limiter < cfg.concurrency
  /\ gpc[w] = "idle"
  /\ limiter' = limiter + 1
  /\ gpc' = [gpc EXCEPT ![w] = "load"]
  /\ gtx' = [gtx EXCEPT ![w] = cur]
  /\ cur' = NoTx
  /\ main' = "page"
  /\ UNCHANGED <<cfg, queueVars, page, txcount, inflight, cancelled, boundVars>>

\* Goroutines are interchangeable: the next one to run is any idle one.
Spawn ==
  /\ \E w \in Workers : gpc[w] = "idle"
  /\ Acquire(CHOOSE w \in Workers : gpc[w] = "idle")

\* Mutant: inflight is not cleared.
RecvDoneKept(w) ==
  /\ main = "select"
  /\ gpc[w] = "done"
  /\ gpc' = [gpc EXCEPT ![w] = "idle"]
  /\ gtx' = [gtx EXCEPT ![w] = NoTx]
  /\ UNCHANGED <<cfg, queueVars, mainVars, limiter, cancelled, boundVars>>

RecvDone(w) ==
  /\ main = "select"
  /\ gpc[w] = "done"
  /\ inflight' = inflight \ {gtx[w]}
  /\ gpc' = [gpc EXCEPT ![w] = "idle"]
  /\ gtx' = [gtx EXCEPT ![w] = NoTx]
  /\ UNCHANGED <<cfg, queueVars, main, page, cur, txcount, limiter, cancelled,
                 boundVars>>

RecvError(w) ==
  /\ main = "select"
  /\ gpc[w] = "err"
  /\ gpc' = [gpc EXCEPT ![w] = "fin"]
  /\ main' = IF cfg.once THEN "exit" ELSE "select"
  /\ UNCHANGED <<cfg, queueVars, page, cur, txcount, inflight, limiter, gtx,
                 cancelled, boundVars>>

CtxDone ==
  /\ main = "select"
  /\ cancelled
  /\ main' = "drain"
  /\ UNCHANGED <<cfg, queueVars, page, cur, txcount, inflight, limiter,
                 workVars, cancelled, boundVars>>

\* Mutant: return without wg.Wait.
DrainedAtOnce ==
  /\ main = "drain"
  /\ main' = "exit"
  /\ UNCHANGED <<cfg, queueVars, page, cur, txcount, inflight, limiter,
                 workVars, cancelled, boundVars>>

\* wg.Wait and return.
Drained ==
  /\ main = "drain"
  /\ Busy = {}
  /\ main' = "exit"
  /\ UNCHANGED <<cfg, queueVars, page, cur, txcount, inflight, limiter,
                 workVars, cancelled, boundVars>>

(***************************************************************************)
(* The workers.                                                            *)
(***************************************************************************)

Step(w, from, to) ==
  /\ gpc[w] = from
  /\ gpc' = [gpc EXCEPT ![w] = to]
  /\ UNCHANGED <<cfg, mainVars, gtx, cancelled, enqueues, stops>>

NoFault == UNCHANGED faults
Fault == /\ faults < MaxFaults
         /\ faults' = faults + 1

\* Mutant: every error of LoadTx is taken for a missing transaction.
LoadOrDrop(w) ==
  \/ /\ gtx[w] \notin Poison
     /\ Step(w, "load", "ingest")
     /\ NoFault
     /\ UNCHANGED <<queueVars, limiter>>
  \/ /\ Step(w, "load", "drop")
     /\ NoFault
     /\ UNCHANGED <<queueVars, limiter>>

\* jb.LoadTx: found, not found anywhere, or an error to report.
Load(w) ==
  \/ /\ gtx[w] \notin Poison
     /\ Step(w, "load", "ingest")
     /\ NoFault
     /\ UNCHANGED <<queueVars, limiter>>
  \/ /\ gtx[w] \notin Poison
     /\ Step(w, "load", "drop")
     /\ NoFault
     /\ owed' = owed \ {gtx[w]}
     /\ UNCHANGED <<queue, limiter>>
  \/ /\ Step(w, "load", "err")
     /\ IF gtx[w] \in Poison THEN NoFault ELSE Fault
     /\ UNCHANGED <<queueVars, limiter>>

\* Mutant: the deferred function does not release the slot after a panic.
IngestUnreleased(w) ==
  \/ /\ Step(w, "ingest", "delog")
     /\ NoFault
     /\ owed' = owed \ {gtx[w]}
     /\ UNCHANGED <<queue, limiter>>
  \/ \E to \in {"err", "done"} :
       /\ Step(w, "ingest", to)
       /\ Fault
       /\ UNCHANGED <<queueVars, limiter>>

\* IngestTx: saved, an error to report, or a panic of Save, recovered by the
\* deferred function without reporting anything.
Ingest(w) ==
  \/ /\ Step(w, "ingest", IF cfg.hook THEN "hook" ELSE "delog")
     /\ NoFault
     /\ owed' = owed \ {gtx[w]}
     /\ UNCHANGED <<queue, limiter>>
  \/ \E to \in {"err", "fin"} :
       /\ Step(w, "ingest", to)
       /\ Fault
       /\ UNCHANGED <<queueVars, limiter>>

\* OnIngest takes the place of the Delog: the callback may remove the entry
\* from the queue, or leave it there.
Hook(w) ==
  \/ /\ Step(w, "hook", "fin")
     /\ NoFault
     /\ queue' \in {queue, queue \ {gtx[w]}}
     /\ UNCHANGED <<owed, limiter>>
  \/ /\ Step(w, "hook", "err")
     /\ Fault
     /\ UNCHANGED <<queueVars, limiter>>

\* Delog of the entry; an error is logged and the entry stays.
Delog(w) ==
  \E from \in {"delog", "drop"} :
    /\ Step(w, from, "fin")
    /\ \/ /\ NoFault
          /\ queue' = queue \ {gtx[w]}
       \/ /\ Fault
          /\ UNCHANGED queue
    /\ UNCHANGED <<owed, limiter>>

\* Mutant: the slot is released twice.
ReleaseTwice(w) ==
  /\ Step(w, "fin", "done")
  /\ NoFault
  /\ limiter' = limiter - 2
  /\ UNCHANGED queueVars

\* The deferred function: <-limiter and wg.Done, then the send on done, which
\* blocks until the dispatcher receives.
Release(w) ==
  /\ Step(w, "fin", "done")
  /\ NoFault
  /\ limiter' = limiter - 1
  /\ UNCHANGED queueVars

Work(w) == Load(w) \/ Ingest(w) \/ Hook(w) \/ Delog(w) \/ Release(w)

Dispatch ==
  \/ Search
  \/ \E t \in Txids : Skip(t) \/ Take(t)
  \/ EndPage
  \/ Spawn
  \/ \E w \in Workers : RecvDone(w) \/ RecvError(w)
  \/ CtxDone
  \/ Drained

Next ==
  \/ \E t \in Txids : Enqueue(t)
  \/ Cancel
  \/ Crash
  \/ Dispatch
  \/ \E w \in Workers : Work(w)

\* Goroutines that can run do run.  While a worker waits to be received from,
\* the select cannot take its default, so it cannot pass the worker over.
Fairness ==
  /\ WF_vars(Dispatch)
  /\ \A w \in Workers : WF_vars(Work(w))

Spec == Init /\ [][Next]_vars /\ Fairness

(***************************************************************************)
(* Properties.                                                             *)
(***************************************************************************)

\* The tokens of the limiter are exactly the workers that have not run their
\* deferred function, whatever way they ended (error, missing transaction,
\* recovered panic), so at most Concurrency transactions are worked on.
LimiterExact ==
  /\ limiter = Cardinality(Busy)
  /\ limiter <= cfg.concurrency

\* No transaction is ever worked on by two goroutines, though the entry stays
\* in the queue, and in the pages, until its worker has removed it.
OneWorkerPerTx ==
  \A v, w \in Workers : gpc[v] # "idle" /\ gtx[v] = gtx[w] => v = w

\* A transaction queued while not in flight stays queued until it has been
\* ingested or was found not to exist, across crashes, errors and panics.
NoWorkLost == owed \subseteq queue

\* When the processor returns because of its Limit or its context, every
\* worker has finished its transaction; only Once leaves workers running.
StopsClean == main = "exit" /\ ~cfg.once => Busy = {}

\* The dispatcher blocks on the limiter while every slot is held by a worker
\* that blocks on the errors channel, which only the dispatcher reads.
Wedged ==
  /\ main = "acquire"
  /\ limiter = cfg.concurrency
  /\ \A w \in Busy : gpc[w] = "err"

\* A queued transaction that loads leaves the queue, unless the processor
\* returned or wedged, however often others fail and in whatever order pages
\* list the entries, as long as those that always fail do not fill a page, and
\* no callback stands for the Delog.
EveryTxServed ==
  \A t \in Txids \ Poison :
    t \in queue /\ ~cfg.hook
      ~> t \notin queue \/ Wedged \/ main \in {"drain", "exit"}
=============================================================================
