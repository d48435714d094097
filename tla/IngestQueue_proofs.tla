------------------------- MODULE IngestQueue_proofs -------------------------
(* Safety of the queue processor, for any transactions, any concurrency and *)
(* page size, and any number of enqueues, faults and crashes.               *)
EXTENDS IngestQueue, FiniteSetTheorems, TLAPS

\* An active goroutine has a transaction, that transaction is in flight, and
\* the one the dispatcher is about to hand out has no goroutine yet.
Assigned ==
  /\ \A w \in Workers : IF gpc[w] = "idle" THEN gtx[w] = NoTx
                                            ELSE gtx[w] \in inflight
  /\ main = "acquire" => /\ cur \in inflight
                         /\ \A w \in Workers : gpc[w] # "idle" => gtx[w] # cur

\* What a worker is about to remove from the queue has been dealt with.
Settled ==
  \A w \in Workers : gpc[w] \in {"hook", "delog", "drop"} => gtx[w] \notin owed

IInv ==
  /\ TypeOK
  /\ LimiterExact
  /\ Assigned
  /\ OneWorkerPerTx
  /\ Settled
  /\ NoWorkLost
  /\ StopsClean

(***************************************************************************)
(* How the steps move workers in and out of the set that holds slots.      *)
(***************************************************************************)

\* The holders are finitely many.
LEMMA BusyFinite == IsFiniteSet(Busy)
  BY WorkersFinite, FS_Subset DEF Busy

\* A step from one holding location to another keeps the holders.
LEMMA BusyKept ==
  ASSUME TypeOK, NEW w \in Workers, NEW from \in Holding, NEW to \in Holding,
         gpc[w] = from, gpc' = [gpc EXCEPT ![w] = to]
  PROVE  Busy' = Busy
  BY DEF Busy, TypeOK

\* A step between locations without a slot keeps the holders too.
LEMMA BusyUntouched ==
  ASSUME TypeOK, NEW w \in Workers, gpc[w] = "done",
         gpc' = [gpc EXCEPT ![w] = "idle"]
  PROVE  Busy' = Busy
  BY DEF Busy, TypeOK, Holding

\* The worker that gets a slot is a new holder: the count grows by one.
LEMMA BusyGrows ==
  ASSUME TypeOK, NEW w \in Workers, gpc[w] = "idle",
         gpc' = [gpc EXCEPT ![w] = "load"]
  PROVE  Cardinality(Busy') = Cardinality(Busy) + 1
<1>1. w \notin Busy /\ Busy' = Busy \cup {w}
  BY DEF Busy, TypeOK, Holding
<1>2. QED
  BY <1>1, BusyFinite, FS_AddElement

\* The worker that releases its slot was a holder: the count shrinks by one.
LEMMA BusyShrinks ==
  ASSUME TypeOK, NEW w \in Workers, gpc[w] = "fin",
         gpc' = [gpc EXCEPT ![w] = "done"]
  PROVE  /\ Cardinality(Busy') = Cardinality(Busy) - 1
         /\ Cardinality(Busy) \in Nat \ {0}
         /\ Busy' \subseteq Busy
<1>1. w \in Busy /\ Busy' = Busy \ {w}
  BY DEF Busy, TypeOK, Holding
<1>2. Cardinality(Busy') = Cardinality(Busy) - 1
  BY <1>1, BusyFinite, FS_RemoveElement
<1>3. Cardinality(Busy') \in Nat /\ Cardinality(Busy) \in Nat
  BY <1>1, BusyFinite, FS_CardinalityType, FS_RemoveElement
<1>4. QED
  BY <1>1, <1>2, <1>3

\* The processor starts in the invariant.
LEMMA InitIInv == Init => IInv
<1> SUFFICES ASSUME Init PROVE IInv
  OBVIOUS
<1>1. TypeOK
  <2>1. /\ enqueues \in 0..MaxEnqueues
        /\ faults \in 0..MaxFaults
        /\ stops \in 0..MaxStops
    BY BoundsType DEF Init
  <2>2. /\ gpc \in [Workers -> Holding \cup {"idle", "done"}]
        /\ gtx \in [Workers -> Txids \cup {NoTx}]
    BY DEF Init
  <2>3. QED
    BY <2>1, <2>2 DEF Init, TypeOK
<1>2. Busy = {}
  BY DEF Init, Busy, Holding
<1>3. LimiterExact
  <2>1. Cardinality(Busy) = 0
    BY <1>2, FS_EmptySet
  <2>2. cfg.concurrency \in Nat
    BY ConfigsType DEF Init
  <2>3. QED
    BY <2>1, <2>2 DEF LimiterExact, Init
<1>4. Assigned /\ Settled /\ NoWorkLost /\ StopsClean
  BY <1>2 DEF Init, Assigned, Settled, NoWorkLost, StopsClean
<1>5. OneWorkerPerTx
  BY DEF Init, OneWorkerPerTx
<1>6. QED
  BY <1>1, <1>3, <1>4, <1>5 DEF IInv

(***************************************************************************)
(* Steps of the dispatcher that touch no worker and no queue entry keep    *)
(* all of the invariant but the part about where the dispatcher is.        *)
(***************************************************************************)

\* The parts about workers depend on these variables only.
LEMMA QuietStep ==
  ASSUME IInv, TypeOK',
         UNCHANGED <<cfg, queue, limiter, gpc, gtx, owed>>,
         inflight \subseteq inflight',
         main' # "acquire",
         main' = "exit" /\ ~cfg.once => Busy = {}
  PROVE  IInv'
<1>1. Busy' = Busy
  BY DEF Busy
<1>2. LimiterExact'
  BY <1>1 DEF IInv, LimiterExact
<1>3. Assigned'
  BY DEF IInv, Assigned
<1>4. OneWorkerPerTx' /\ Settled' /\ NoWorkLost'
  BY DEF IInv, OneWorkerPerTx, Settled, NoWorkLost
<1>5. StopsClean'
  BY <1>1 DEF StopsClean
<1>6. QED
  BY <1>2, <1>3, <1>4, <1>5 DEF IInv

\* A worker that moves from one location with a slot to another keeps the
\* invariant when the queue only loses what it has settled.
LEMMA WorkerStep ==
  ASSUME IInv, TypeOK',
         NEW w \in Workers, NEW from \in Holding, NEW to \in Holding,
         gpc[w] = from, gpc' = [gpc EXCEPT ![w] = to],
         UNCHANGED <<cfg, page, cur, txcount, inflight, gtx, limiter>>,
         \/ main' = main
         \/ main' = "exit" /\ cfg.once,
         owed' \subseteq owed,
         to \in {"hook", "delog", "drop"} => gtx[w] \notin owed',
         owed' \subseteq queue'
  PROVE  IInv'
<1>1. Busy' = Busy
  BY BusyKept DEF IInv
<1>2. LimiterExact'
  BY <1>1 DEF IInv, LimiterExact
<1>3. \A v \in Workers : gpc'[v] # "idle" <=> gpc[v] # "idle"
  BY DEF IInv, TypeOK, Holding
<1>4. Assigned'
  BY <1>3 DEF IInv, Assigned
<1>5. OneWorkerPerTx'
  BY <1>3 DEF IInv, OneWorkerPerTx
<1>6. Settled'
  BY DEF IInv, Settled, TypeOK
<1>7. NoWorkLost'
  BY DEF NoWorkLost
<1>8. StopsClean'
  BY <1>1 DEF IInv, StopsClean
<1>9. QED
  BY <1>2, <1>4, <1>5, <1>6, <1>7, <1>8 DEF IInv

(***************************************************************************)
(* Type correctness is kept by every step.                                 *)
(***************************************************************************)

\* A new worker is of the right type.
LEMMA AcquireType == ASSUME IInv, NEW w \in Workers, Acquire(w) PROVE TypeOK'
  BY DEF IInv, TypeOK, Acquire, queueVars, boundVars, Holding

\* Steps of the dispatcher keep the types.
LEMMA DispatchType == IInv /\ Dispatch => TypeOK'
<1> SUFFICES ASSUME IInv, Dispatch PROVE TypeOK'
  OBVIOUS
<1> USE DEF IInv, TypeOK, mainVars, workVars, queueVars, boundVars
<1>1. CASE Search
  BY <1>1 DEF Search, Pages
<1>2. ASSUME NEW t \in Txids, Skip(t) PROVE TypeOK'
  BY <1>2 DEF Skip
<1>3. ASSUME NEW t \in Txids, Take(t) PROVE TypeOK'
  BY <1>3 DEF Take, Counted
<1>4. CASE EndPage
  BY <1>4 DEF EndPage
<1>5. ASSUME NEW w \in Workers, Acquire(w) PROVE TypeOK'
  BY <1>5, AcquireType
<1>6. ASSUME NEW w \in Workers, RecvDone(w) PROVE TypeOK'
  BY <1>6 DEF RecvDone, Holding
<1>7. ASSUME NEW w \in Workers, RecvError(w) PROVE TypeOK'
  BY <1>7 DEF RecvError, Holding
<1>8. CASE CtxDone
  BY <1>8 DEF CtxDone
<1>9. CASE Drained
  BY <1>9 DEF Drained
<1>10. QED
  BY <1>1, <1>2, <1>3, <1>4, <1>5, <1>6, <1>7, <1>8, <1>9 DEF Dispatch, Spawn

\* A worker that releases has put a token into the limiter: the count of
\* tokens stays a natural number and stays the number of holders.
LEMMA ReleaseCounts ==
  ASSUME IInv, NEW w \in Workers, Release(w)
  PROVE  /\ limiter - 1 \in Nat
         /\ LimiterExact'
         /\ Busy' \subseteq Busy
<1>1. TypeOK /\ gpc[w] = "fin" /\ gpc' = [gpc EXCEPT ![w] = "done"]
  BY DEF IInv, Release, Step
<1>2. /\ Cardinality(Busy') = Cardinality(Busy) - 1
      /\ Cardinality(Busy) \in Nat \ {0}
      /\ Busy' \subseteq Busy
  BY <1>1, BusyShrinks
<1>3. limiter = Cardinality(Busy) /\ limiter <= cfg.concurrency
  BY DEF IInv, LimiterExact
<1>4. limiter' = limiter - 1 /\ cfg' = cfg
  BY DEF Release, Step
<1>5. cfg.concurrency \in Nat
  BY ConfigsType, <1>1 DEF TypeOK
<1>6. QED
  BY <1>2, <1>3, <1>4, <1>5 DEF LimiterExact

\* Steps of a worker keep the types; the release needs a token to be there.
LEMMA WorkType == ASSUME IInv, NEW w \in Workers, Work(w) PROVE TypeOK'
<1> USE DEF IInv, TypeOK, mainVars, workVars, queueVars, boundVars, Step,
            NoFault, Fault
<1>1. CASE Load(w)
  BY <1>1, BoundsType DEF Load, Holding
<1>2. CASE Ingest(w)
  BY <1>2, BoundsType DEF Ingest, Holding
<1>3. CASE Hook(w)
  BY <1>3, BoundsType DEF Hook, Holding
<1>4. CASE Delog(w)
  BY <1>4, BoundsType DEF Delog, Holding
<1>5. CASE Release(w)
  BY <1>5, ReleaseCounts DEF Release, Holding
<1>6. QED
  BY <1>1, <1>2, <1>3, <1>4, <1>5 DEF Work

(***************************************************************************)
(* The invariant is kept by every step.                                    *)
(***************************************************************************)

\* Handing a transaction to a new worker: the limiter has room, and the
\* transaction was in flight without a worker.
LEMMA AcquireIInv == ASSUME IInv, NEW w \in Workers, Acquire(w) PROVE IInv'
<1>1. TypeOK'
  BY AcquireType
<1>2. /\ TypeOK
      /\ gpc[w] = "idle"
      /\ gpc' = [gpc EXCEPT ![w] = "load"]
      /\ gtx' = [gtx EXCEPT ![w] = cur]
      /\ UNCHANGED <<cfg, queue, owed, inflight>>
      /\ main = "acquire" /\ main' = "page"
  BY DEF IInv, Acquire, queueVars
<1>3. LimiterExact'
  <2>1. Cardinality(Busy') = Cardinality(Busy) + 1
    BY <1>2, BusyGrows
  <2>2. limiter = Cardinality(Busy) /\ limiter < cfg.concurrency /\ limiter \in Nat
    BY DEF IInv, LimiterExact, Acquire, TypeOK
  <2>3. cfg.concurrency \in Nat
    BY ConfigsType DEF IInv, TypeOK
  <2>4. limiter' = limiter + 1 /\ cfg' = cfg
    BY DEF Acquire
  <2>5. QED
    BY <2>1, <2>2, <2>3, <2>4 DEF LimiterExact
<1>4. Assigned'
  BY <1>2 DEF IInv, Assigned, TypeOK
<1>5. OneWorkerPerTx'
  <2>1. \A v \in Workers : gtx[v] # cur
    BY <1>2, NoTxAssumption DEF IInv, Assigned, TypeOK
  <2>2. QED
    BY <1>2, <2>1 DEF IInv, OneWorkerPerTx, TypeOK
<1>6. Settled'
  BY <1>2 DEF IInv, Settled, TypeOK
<1>7. NoWorkLost'
  BY <1>2 DEF IInv, NoWorkLost
<1>8. StopsClean'
  BY <1>2 DEF StopsClean
<1>9. QED
  BY <1>1, <1>3, <1>4, <1>5, <1>6, <1>7, <1>8 DEF IInv

\* The other steps of the dispatcher.
LEMMA DispatchIInv == IInv /\ Dispatch => IInv'
<1> SUFFICES ASSUME IInv, Dispatch PROVE IInv'
  OBVIOUS
<1>0. TypeOK'
  BY DispatchType
<1>1. CASE Search
  BY <1>0, <1>1, QuietStep DEF Search, queueVars, workVars
<1>2. ASSUME NEW t \in Txids, Skip(t) PROVE IInv'
  BY <1>0, <1>2, QuietStep DEF Skip, queueVars, workVars
<1>3. ASSUME NEW t \in Txids, Take(t) PROVE IInv'
  <2>1. UNCHANGED <<cfg, queue, limiter, gpc, gtx, owed>>
    BY <1>3 DEF Take, queueVars, workVars
  <2>2. CASE main' = "drain"
    <3>1. inflight \subseteq inflight'
      BY <1>3 DEF Take
    <3>2. QED
      BY <1>0, <2>1, <2>2, <3>1, QuietStep
  <2>3. CASE main' # "drain"
    <3>1. /\ main' = "acquire" /\ cur' = t
          /\ inflight' = inflight \cup {t} /\ t \notin inflight
      BY <1>3, <2>3 DEF Take
    <3>2. Busy' = Busy
      BY <2>1 DEF Busy
    <3>3. Assigned'
      BY <2>1, <3>1 DEF IInv, Assigned
    <3>4. LimiterExact' /\ StopsClean'
      BY <2>1, <3>1, <3>2 DEF IInv, LimiterExact, StopsClean
    <3>5. OneWorkerPerTx' /\ Settled' /\ NoWorkLost'
      BY <2>1 DEF IInv, OneWorkerPerTx, Settled, NoWorkLost
    <3>6. QED
      BY <1>0, <3>3, <3>4, <3>5 DEF IInv
  <2>4. QED
    BY <2>2, <2>3
<1>4. CASE EndPage
  BY <1>0, <1>4, QuietStep DEF EndPage, queueVars, workVars
<1>5. CASE Spawn
  <2>1. PICK w \in Workers : Acquire(w)
    BY <1>5 DEF Spawn
  <2>2. QED
    BY <2>1, AcquireIInv
<1>6. ASSUME NEW w \in Workers, RecvDone(w) PROVE IInv'
  <2>1. /\ TypeOK /\ main = "select" /\ main' = main
        /\ gpc[w] = "done" /\ gpc' = [gpc EXCEPT ![w] = "idle"]
        /\ gtx' = [gtx EXCEPT ![w] = NoTx]
        /\ inflight' = inflight \ {gtx[w]}
        /\ UNCHANGED <<cfg, queue, limiter, owed>>
    BY <1>6 DEF IInv, RecvDone, queueVars
  <2>2. Busy' = Busy
    BY <2>1, BusyUntouched
  <2>3. \A v \in Workers : gpc'[v] # "idle" =>
           v # w /\ gpc[v] # "idle" /\ gtx'[v] = gtx[v] /\ gpc'[v] = gpc[v]
    BY <2>1 DEF TypeOK, Holding
  <2>4. Assigned'
    <3>1. \A v \in Workers :
            IF gpc'[v] = "idle" THEN gtx'[v] = NoTx ELSE gtx'[v] \in inflight'
      BY <2>1, <2>3 DEF IInv, Assigned, OneWorkerPerTx, TypeOK
    <3>2. main' # "acquire"
      BY <2>1
    <3>3. QED
      BY <3>1, <3>2 DEF Assigned
  <2>5. OneWorkerPerTx'
    <3> SUFFICES ASSUME NEW u \in Workers, NEW v \in Workers,
                        gpc'[u] # "idle", gtx'[u] = gtx'[v]
                 PROVE  u = v
      BY DEF OneWorkerPerTx
    <3>1. gtx'[u] \in Txids
      BY <2>1, <2>3, <1>0 DEF IInv, Assigned, TypeOK
    <3>2. v # w
      BY <2>1, <3>1, NoTxAssumption DEF TypeOK
    <3>3. gtx[u] = gtx[v]
      BY <2>1, <2>3, <3>2 DEF TypeOK
    <3>4. QED
      BY <2>3, <3>3 DEF IInv, OneWorkerPerTx
  <2>6. Settled' /\ NoWorkLost'
    BY <2>1, <2>3 DEF IInv, Settled, NoWorkLost
  <2>7. LimiterExact' /\ StopsClean'
    BY <2>1, <2>2 DEF IInv, LimiterExact, StopsClean
  <2>8. QED
    BY <1>0, <2>4, <2>5, <2>6, <2>7 DEF IInv
<1>7. ASSUME NEW w \in Workers, RecvError(w) PROVE IInv'
  <2>1. /\ gpc[w] = "err" /\ gpc' = [gpc EXCEPT ![w] = "fin"]
        /\ UNCHANGED <<cfg, queue, page, cur, txcount, inflight, gtx, limiter, owed>>
    BY <1>7 DEF RecvError, queueVars
  <2>2. "err" \in Holding /\ "fin" \in Holding
    BY DEF Holding
  <2>3. owed' \subseteq queue'
    BY <2>1 DEF IInv, NoWorkLost
  <2>4. \/ main' = main
        \/ main' = "exit" /\ cfg.once
    BY <1>7 DEF RecvError
  <2>5. QED
    BY <1>0, <2>1, <2>2, <2>3, <2>4, WorkerStep
<1>8. CASE CtxDone
  BY <1>0, <1>8, QuietStep DEF CtxDone, queueVars, workVars
<1>9. CASE Drained
  BY <1>0, <1>9, QuietStep DEF Drained, queueVars, workVars
<1>10. QED
  BY <1>1, <1>2, <1>3, <1>4, <1>5, <1>6, <1>7, <1>8, <1>9 DEF Dispatch

\* Steps of a worker.
LEMMA WorkIInv == ASSUME IInv, NEW w \in Workers, Work(w) PROVE IInv'
<1>0. TypeOK'
  BY WorkType
<1>a. {"load", "drop", "ingest", "hook", "delog", "err", "fin"} \subseteq Holding
  BY DEF Holding
<1>b. owed \subseteq queue /\ main' = main
  BY DEF IInv, NoWorkLost, Work, Load, Ingest, Hook, Delog, Release, Step, mainVars
<1>1. CASE Load(w)
  <2>1. PICK to \in {"ingest", "drop", "err"} : Step(w, "load", to)
    BY <1>1 DEF Load
  <2>2. /\ UNCHANGED <<queue, limiter>>
        /\ owed' \subseteq owed
        /\ to = "drop" => gtx[w] \notin owed'
    BY <1>1, <2>1, <1>0 DEF Load, queueVars, Step, IInv, TypeOK
  <2>3. QED
    BY <1>0, <1>a, <1>b, <2>1, <2>2, WorkerStep DEF Step, mainVars
<1>2. CASE Ingest(w)
  <2>1. PICK to \in {"hook", "delog", "err", "fin"} : Step(w, "ingest", to)
    BY <1>2 DEF Ingest
  <2>2. /\ UNCHANGED <<queue, limiter>>
        /\ owed' \subseteq owed
        /\ to \in {"hook", "delog"} => gtx[w] \notin owed'
    BY <1>2, <2>1, <1>0 DEF Ingest, queueVars, Step, IInv, TypeOK
  <2>3. QED
    BY <1>0, <1>a, <1>b, <2>1, <2>2, WorkerStep DEF Step, mainVars
<1>3. CASE Hook(w)
  <2>1. PICK to \in {"err", "fin"} : Step(w, "hook", to)
    BY <1>3 DEF Hook
  <2>2. /\ owed' = owed /\ limiter' = limiter
        /\ queue' = queue \/ queue' = queue \ {gtx[w]}
        /\ gtx[w] \notin owed
    BY <1>3, <2>1 DEF Hook, queueVars, Step, IInv, Settled
  <2>3. owed' \subseteq queue'
    BY <1>b, <2>2
  <2>4. QED
    BY <1>0, <1>a, <1>b, <2>1, <2>2, <2>3, WorkerStep DEF Step, mainVars
<1>4. CASE Delog(w)
  <2>1. PICK from \in {"delog", "drop"} : Step(w, from, "fin")
    BY <1>4 DEF Delog
  <2>2. /\ owed' = owed /\ limiter' = limiter
        /\ queue' = queue \/ queue' = queue \ {gtx[w]}
        /\ gtx[w] \notin owed
    BY <1>4, <2>1 DEF Delog, queueVars, Step, IInv, Settled
  <2>3. owed' \subseteq queue'
    BY <1>b, <2>2
  <2>4. QED
    BY <1>0, <1>a, <1>b, <2>1, <2>2, <2>3, WorkerStep DEF Step, mainVars
<1>5. CASE Release(w)
  <2>1. LimiterExact' /\ Busy' \subseteq Busy
    BY <1>5, ReleaseCounts
  <2>2. /\ gpc[w] = "fin" /\ gpc' = [gpc EXCEPT ![w] = "done"]
        /\ UNCHANGED <<cfg, queue, owed, main, cur, inflight, gtx>>
    BY <1>5 DEF Release, Step, queueVars, mainVars
  <2>3. \A v \in Workers : gpc'[v] # "idle" <=> gpc[v] # "idle"
    BY <2>2 DEF IInv, TypeOK
  <2>4. Assigned'
    BY <2>2, <2>3 DEF IInv, Assigned
  <2>5. OneWorkerPerTx'
    BY <2>2, <2>3 DEF IInv, OneWorkerPerTx
  <2>6. Settled' /\ NoWorkLost'
    BY <2>2 DEF IInv, Settled, NoWorkLost, TypeOK
  <2>7. StopsClean'
    BY <2>1, <2>2 DEF IInv, StopsClean
  <2>8. QED
    BY <1>0, <2>1, <2>4, <2>5, <2>6, <2>7 DEF IInv
<1>6. QED
  BY <1>1, <1>2, <1>3, <1>4, <1>5 DEF Work

\* Every step keeps the invariant.
LEMMA NextIInv == IInv /\ [Next]_vars => IInv'
<1> SUFFICES ASSUME IInv, [Next]_vars PROVE IInv'
  OBVIOUS
<1>1. ASSUME NEW t \in Txids, Enqueue(t) PROVE IInv'
  <2>1. TypeOK'
    BY <1>1, BoundsType DEF Enqueue, IInv, TypeOK, mainVars, workVars
  <2>2. /\ UNCHANGED <<cfg, main, cur, inflight, limiter, gpc, gtx>>
        /\ queue' = queue \cup {t}
        /\ owed' = IF t \in inflight THEN owed ELSE owed \cup {t}
    BY <1>1 DEF Enqueue, mainVars, workVars
  <2>3. Busy' = Busy
    BY <2>2 DEF Busy
  <2>4. LimiterExact' /\ StopsClean'
    BY <2>2, <2>3 DEF IInv, LimiterExact, StopsClean
  <2>5. Assigned' /\ OneWorkerPerTx' /\ NoWorkLost'
    BY <2>2 DEF IInv, Assigned, OneWorkerPerTx, NoWorkLost
  <2>6. Settled'
    BY <2>2 DEF IInv, Settled, Assigned
  <2>7. QED
    BY <2>1, <2>4, <2>5, <2>6 DEF IInv
<1>2. CASE Cancel
  <2>1. TypeOK'
    BY <1>2, BoundsType DEF Cancel, IInv, TypeOK, queueVars, mainVars, workVars
  <2>2. UNCHANGED <<cfg, queue, owed, main, cur, inflight, limiter, gpc, gtx>>
    BY <1>2 DEF Cancel, queueVars, mainVars, workVars
  <2>3. Busy' = Busy
    BY <2>2 DEF Busy
  <2>4. LimiterExact' /\ StopsClean'
    BY <2>2, <2>3 DEF IInv, LimiterExact, StopsClean
  <2>5. Assigned' /\ OneWorkerPerTx' /\ NoWorkLost' /\ Settled'
    BY <2>2 DEF IInv, Assigned, OneWorkerPerTx, NoWorkLost, Settled
  <2>6. QED
    BY <2>1, <2>4, <2>5 DEF IInv
<1>3. CASE Crash
  <2>1. TypeOK'
    <3>1. /\ gpc' \in [Workers -> Holding \cup {"idle", "done"}]
          /\ gtx' \in [Workers -> Txids \cup {NoTx}]
      BY <1>3 DEF Crash
    <3>2. stops' \in 0..MaxStops
      BY <1>3, BoundsType DEF Crash, IInv, TypeOK
    <3>3. QED
      BY <1>3, <3>1, <3>2 DEF Crash, IInv, TypeOK, queueVars
  <2>2. /\ main' = "select" /\ limiter' = 0 /\ inflight' = {}
        /\ gpc' = [w \in Workers |-> "idle"]
        /\ gtx' = [w \in Workers |-> NoTx]
        /\ UNCHANGED <<cfg, queue, owed>>
    BY <1>3 DEF Crash, queueVars
  <2>3. Busy' = {}
    BY <2>2 DEF Busy, Holding
  <2>4. LimiterExact'
    <3>1. Cardinality(Busy') = 0
      BY <2>3, FS_EmptySet
    <3>2. cfg'.concurrency \in Nat
      BY <2>1, ConfigsType DEF TypeOK
    <3>3. QED
      BY <2>2, <3>1, <3>2 DEF LimiterExact
  <2>5. \A w \in Workers : gpc'[w] = "idle" /\ gtx'[w] = NoTx
    BY <2>2
  <2>6. OneWorkerPerTx' /\ Settled'
    BY <2>5 DEF OneWorkerPerTx, Settled
  <2>7. Assigned' /\ NoWorkLost' /\ StopsClean'
    BY <2>2, <2>5 DEF IInv, Assigned, NoWorkLost, StopsClean
  <2>8. QED
    BY <2>1, <2>4, <2>6, <2>7 DEF IInv
<1>4. CASE Dispatch
  BY <1>4, DispatchIInv
<1>5. ASSUME NEW w \in Workers, Work(w) PROVE IInv'
  BY <1>5, WorkIInv
<1>6. CASE UNCHANGED vars
  <2>1. Busy' = Busy
    BY <1>6 DEF vars, Busy
  <2>2. LimiterExact' /\ StopsClean'
    BY <1>6, <2>1 DEF vars, IInv, LimiterExact, StopsClean
  <2>3. QED
    BY <1>6, <2>2 DEF vars, IInv, TypeOK, Assigned, OneWorkerPerTx, NoWorkLost, Settled
<1>7. QED
  BY <1>1, <1>2, <1>3, <1>4, <1>5, <1>6 DEF Next

\* The invariant holds in every reachable state.
THEOREM Invariance == Spec => []IInv
<1>1. Init => IInv
  BY InitIInv
<1>2. IInv /\ [Next]_vars => IInv'
  BY NextIInv
<1>3. QED
  BY <1>1, <1>2, PTL DEF Spec

\* Every state of the processor is well typed: in particular the limiter never
\* runs below zero, however a worker ends.
THEOREM TypeCorrect == Spec => []TypeOK
<1>1. IInv => TypeOK
  BY DEF IInv
<1>2. QED
  BY <1>1, Invariance, PTL

\* The limiter counts the workers between acquire and release exactly, and at
\* most Concurrency transactions are worked on at any time (ingest.go:621-631).
THEOREM LimiterIsExact == Spec => []LimiterExact
<1>1. IInv => LimiterExact
  BY DEF IInv
<1>2. QED
  BY <1>1, Invariance, PTL

\* The inflight map keeps two goroutines from ever working on one transaction,
\* though its entry is listed page after page (ingest.go:614-620).
THEOREM NoTwoWorkers == Spec => []OneWorkerPerTx
<1>1. IInv => OneWorkerPerTx
  BY DEF IInv
<1>2. QED
  BY <1>1, Invariance, PTL

\* An entry written while its transaction is not in flight stays queued until
\* the transaction was ingested or does not exist, whatever crashes or fails.
THEOREM WorkIsNotLost == Spec => []NoWorkLost
<1>1. IInv => NoWorkLost
  BY DEF IInv
<1>2. QED
  BY <1>1, Invariance, PTL

\* A processor that returned for its Limit or its context left no worker
\* behind (ingest.go:573-576 and 616-619).
THEOREM StopIsClean == Spec => []StopsClean
<1>1. IInv => StopsClean
  BY DEF IInv
<1>2. QED
  BY <1>1, Invariance, PTL
=============================================================================
