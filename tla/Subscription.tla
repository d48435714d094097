---------------------------- MODULE Subscription ----------------------------
(***************************************************************************)
(* A subscription to JungleBus (sub.Exec, started by cmd/subscribe): it    *)
(* collects the transactions of a block, writes them to the queue in one   *)
(* batch at the end of a page or a block, then stores the height it has    *)
(* come to.  A restart resumes from that height.                           *)
(*                                                                         *)
(* The event handler and the goroutine of Exec meet in one unbuffered      *)
(* channel of errors.  JungleBus is external: it delivers the blocks in    *)
(* order from the height it is asked for, the end of a block after its     *)
(* transactions, one event at a time.                                      *)
(***************************************************************************)
EXTENDS Integers, FiniteSets

CONSTANTS
  SubTx,        \* transactions of the topic
  FirstBlock,   \* the flag -s
  RewindAbove,  \* the 6 of Exec: a lower progress is ignored
  RewindBy,     \* the 5 of Exec
  ReorgDepth,   \* blocks that a reorganisation undoes at most
  SubConfigs,   \* the deployments explored: a store, and which of the flags -r
                \* ("rewind") and -m ("mempool") are set
  SubMaxTip,    \* bound: heights
  SubBounds     \* bounds: store calls that fail and processes that end for
                \* another reason ("fault"), reorganisations ("reorg")

ASSUME SubHeightAssumption ==
  /\ FirstBlock \in Nat \ {0} /\ SubMaxTip \in Nat /\ FirstBlock <= SubMaxTip
  /\ RewindAbove \in Nat /\ RewindBy \in 0..RewindAbove
ASSUME SubReorgAssumption == ReorgDepth \in 0..(RewindBy + 1)
ASSUME SubConfigAssumption ==
  SubConfigs \subseteq {"redis", "pg", "sqlite"} \X SUBSET {"rewind", "mempool"}
ASSUME SubBoundAssumption == SubBounds \in [{"fault", "reorg"} -> Nat]

VARIABLES
  subBackend,   \* the store of this deployment, never written
  subFlags,     \* its flags, never written
  subTip,       \* height of the longest chain
  subBlock,     \* subBlock[t]: the height t is mined at, or 0
  subProgress,  \* store: the log of progress, 0 for no entry
  subQueue,     \* store: the transactions ever written to the queue
  subMain,      \* Exec: "down", "select" (waiting), "leaving" (has returned)
  subHandler,   \* where the event handler is
  subAt,        \* the block that is delivered
  subSent,      \* its transactions that were delivered
  subBatch,     \* logs: collected and not yet written
  subLost,      \* ghost: transactions of a batch that was given up
  subDrops,     \* ghost: batches given up with a reported error, in this process
  subMoved,     \* ghost: transactions that a reorganisation put into a block
  subLeft       \* what is left of the bounds

subEnv == <<subBackend, subFlags, subTip, subBlock, subMoved>>
subVolatile == <<subHandler, subAt, subSent, subBatch, subDrops>>
subVars == <<subEnv, subProgress, subQueue, subMain, subVolatile, subLost, subLeft>>

SubHeights == 0..SubMaxTip

\* "page", "block": before LogMany, of a status 199 and 200; "store": before the
\* progress is logged; the others are the sends to errors, after each of them
\* and after the Log of a transaction of the mempool.
Flushing == {"page", "block"}
FlushFailed == {"pageErr", "blockErr"}
Reporting == FlushFailed \cup {"storeErr", "mempoolErr"}
SubPlaces == {"idle", "store"} \cup Flushing \cup Reporting

SubTypeOK ==
  /\ <<subBackend, subFlags>> \in SubConfigs
  /\ subTip \in FirstBlock..SubMaxTip
  /\ subBlock \in [SubTx -> SubHeights] /\ \A t \in SubTx : subBlock[t] <= subTip
  /\ subProgress \in 0..subTip
  /\ subMain \in {"down", "select", "leaving"}
  /\ subHandler \in SubPlaces
  /\ subAt \in 1..(SubMaxTip + 1)   \* a rewind may go below FirstBlock
  /\ subSent \subseteq SubTx /\ subBatch \subseteq subSent
  /\ subQueue \subseteq SubTx /\ subLost \subseteq SubTx /\ subMoved \subseteq SubTx
  /\ subDrops \in Nat
  /\ subLeft \in [{"fault", "reorg"} -> Nat]

\* Mutant: the flag -r is not looked at.
ResumeNoRewind == IF subProgress <= RewindAbove THEN FirstBlock ELSE subProgress

\* The FromBlock of the next start.
ResumeAt ==
  IF subProgress <= RewindAbove THEN FirstBlock
  ELSE IF "rewind" \in subFlags THEN subProgress - RewindBy ELSE subProgress

SubInit ==
  /\ \E c \in SubConfigs : subBackend = c[1] /\ subFlags = c[2]
  /\ subTip = FirstBlock /\ subBlock = [t \in SubTx |-> 0]
  /\ subProgress = 0 /\ subQueue = {}
  /\ subMain = "down" /\ subHandler = "idle"
  /\ subAt = FirstBlock /\ subSent = {} /\ subBatch = {}
  /\ subLost = {} /\ subDrops = 0 /\ subMoved = {}
  /\ subLeft = SubBounds

SubUse(b) == subLeft[b] > 0 /\ subLeft' = [subLeft EXCEPT ![b] = @ - 1]

(***************************************************************************)
(* The chain.                                                              *)
(***************************************************************************)

SubExtend ==
  /\ subTip < SubMaxTip /\ subTip' = subTip + 1
  /\ \E mined \in SUBSET {t \in SubTx : subBlock[t] = 0} :
       subBlock' = [t \in SubTx |-> IF t \in mined THEN subTip + 1 ELSE subBlock[t]]
  /\ UNCHANGED <<subBackend, subFlags, subMoved, subProgress, subQueue, subMain,
                 subVolatile, subLost, subLeft>>

\* The last blocks are replaced while the subscription is down: what they held
\* moves among them, and a transaction of the mempool may be mined in them.
SubReorg ==
  LET undone == {h \in FirstBlock..subTip : h > subTip - ReorgDepth}
      open == {t \in SubTx : subBlock[t] \in undone \cup {0}}
  IN /\ subMain = "down" /\ SubUse("reorg")
     /\ \E c \in [open -> undone \cup {0}] :
          /\ subBlock' = [t \in SubTx |-> IF t \in open THEN c[t] ELSE subBlock[t]]
          /\ subMoved' = subMoved \cup {t \in open : c[t] # subBlock[t] /\ c[t] # 0}
     /\ UNCHANGED <<subBackend, subFlags, subTip, subProgress, subQueue, subMain,
                    subVolatile, subLost>>

(***************************************************************************)
(* The process.                                                            *)
(***************************************************************************)

SubStart ==
  /\ subMain = "down" /\ subMain' = "select"
  /\ subAt' = ResumeAt
  /\ UNCHANGED <<subEnv, subProgress, subQueue, subHandler, subSent, subBatch,
                 subDrops, subLost, subLeft>>

\* The end of the process, and of all that it only held in memory.
Ends ==
  /\ subMain' = "down" /\ subHandler' = "idle"
  /\ subAt' = FirstBlock /\ subSent' = {} /\ subBatch' = {} /\ subDrops' = 0
  /\ UNCHANGED <<subEnv, subProgress, subQueue, subLost>>

\* Exec returns: its deferred call unsubscribes and main ends the process.
SubLeave == subMain = "leaving" /\ Ends /\ UNCHANGED subLeft

\* A signal or the end of the context.
SubSignal ==
  /\ subMain = "select" /\ subMain' = "leaving" /\ SubUse("fault")
  /\ UNCHANGED <<subEnv, subProgress, subQueue, subVolatile, subLost>>

\* Status 999, the watchdog after 15 minutes without a status, OnError, a crash.
SubExit == subMain # "down" /\ Ends /\ SubUse("fault")

(***************************************************************************)
(* The event handler.  It goes on while Exec is leaving.                   *)
(***************************************************************************)

Awaits == subMain # "down" /\ subHandler = "idle"

OnTransaction(t) ==
  /\ Awaits /\ subBlock[t] = subAt /\ t \notin subSent
  /\ subSent' = subSent \cup {t} /\ subBatch' = subBatch \cup {t}
  /\ UNCHANGED <<subEnv, subProgress, subQueue, subMain, subHandler, subAt,
                 subLost, subDrops, subLeft>>

OnMempool(t) ==
  /\ Awaits /\ subBlock[t] = 0 /\ "mempool" \in subFlags
  /\ \/ subQueue' = subQueue \cup {t} /\ UNCHANGED <<subHandler, subLeft>>
     \/ SubUse("fault") /\ subHandler' = "mempoolErr" /\ UNCHANGED subQueue
  /\ UNCHANGED <<subEnv, subProgress, subMain, subAt, subSent, subBatch,
                 subLost, subDrops>>

\* Status 199 ends a page, 200 a block.
OnPage ==
  /\ Awaits /\ subBatch # {} /\ subHandler' = "page"
  /\ UNCHANGED <<subEnv, subProgress, subQueue, subMain, subAt, subSent, subBatch,
                 subLost, subDrops, subLeft>>

OnBlock ==
  /\ Awaits /\ subAt <= subTip
  /\ \A t \in SubTx : subBlock[t] = subAt => t \in subSent
  /\ subHandler' = IF subBatch # {} THEN "block" ELSE "store"
  /\ UNCHANGED <<subEnv, subProgress, subQueue, subMain, subAt, subSent, subBatch,
                 subLost, subDrops, subLeft>>

AfterFlush == IF subHandler \in {"block", "blockErr"} THEN "store" ELSE "idle"

\* How a LogMany that does not write all may end: Redis sends one command;
\* Postgres one implicit transaction of which only the first result is read, so
\* that a later statement undoes all of it without an error; SQLite stops at the
\* row that failed.
ShortLogMany ==
  CASE subBackend = "redis"  -> [written : {{}}, err : {TRUE}]
    [] subBackend = "pg"     -> [written : {{}}, err : BOOLEAN]
    [] subBackend = "sqlite" -> [written : (SUBSET subBatch) \ {subBatch}, err : {TRUE}]

LogMany ==
  /\ subMain # "down" /\ subHandler \in Flushing
  /\ \/ /\ subQueue' = subQueue \cup subBatch
        /\ subHandler' = AfterFlush /\ subBatch' = {}
        /\ UNCHANGED <<subLost, subLeft>>
     \/ \E r \in ShortLogMany :
          /\ SubUse("fault")
          /\ subQueue' = subQueue \cup r.written
          /\ subHandler' = CASE ~r.err -> AfterFlush
                             [] r.err /\ subHandler = "page" -> "pageErr"
                             [] r.err /\ subHandler = "block" -> "blockErr"
          /\ subBatch' = IF r.err THEN subBatch ELSE {}
          /\ subLost' = IF r.err THEN subLost ELSE subLost \cup subBatch
  /\ UNCHANGED <<subEnv, subProgress, subMain, subAt, subSent, subDrops>>

NextBlock == subAt' = subAt + 1 /\ subSent' = {} /\ subHandler' = "idle"

\* Mutant: stores the block it expects next.
LogProgressAhead ==
  /\ subMain # "down" /\ subHandler = "store"
  /\ \/ subProgress' = subAt + 1 /\ NextBlock /\ UNCHANGED subLeft
     \/ /\ SubUse("fault") /\ subHandler' = "storeErr"
        /\ UNCHANGED <<subProgress, subAt, subSent>>
  /\ UNCHANGED <<subEnv, subQueue, subMain, subBatch, subLost, subDrops>>

LogProgress ==
  /\ subMain # "down" /\ subHandler = "store"
  /\ \/ subProgress' = subAt /\ NextBlock /\ UNCHANGED subLeft
     \/ /\ SubUse("fault") /\ subHandler' = "storeErr"
        /\ UNCHANGED <<subProgress, subAt, subSent>>
  /\ UNCHANGED <<subEnv, subQueue, subMain, subBatch, subLost, subDrops>>

\* Mutant: errors is buffered, so that no send waits.
ReportBuffered ==
  /\ subMain # "down" /\ subHandler \in Reporting /\ subMain' = "leaving"
  /\ CASE subHandler \in FlushFailed ->
            /\ subLost' = subLost \cup (subBatch \ subQueue)
            /\ subBatch' = {} /\ subDrops' = subDrops + 1
            /\ subHandler' = AfterFlush
            /\ UNCHANGED <<subAt, subSent>>
       [] subHandler = "storeErr" -> NextBlock /\ UNCHANGED <<subLost, subBatch, subDrops>>
       [] subHandler = "mempoolErr" ->
            subHandler' = "idle" /\ UNCHANGED <<subLost, subBatch, subDrops, subAt, subSent>>
  /\ UNCHANGED <<subEnv, subProgress, subQueue, subLeft>>

\* errors <- err: Exec takes one error, then it has returned and the next send
\* never ends.  After an error of LogMany the batch is dropped and the handler
\* goes on as if it had been written.
Report ==
  /\ subMain = "select" /\ subHandler \in Reporting /\ subMain' = "leaving"
  /\ CASE subHandler \in FlushFailed ->
            /\ subLost' = subLost \cup (subBatch \ subQueue)
            /\ subBatch' = {} /\ subDrops' = subDrops + 1
            /\ subHandler' = AfterFlush
            /\ UNCHANGED <<subAt, subSent>>
       [] subHandler = "storeErr" -> NextBlock /\ UNCHANGED <<subLost, subBatch, subDrops>>
       [] subHandler = "mempoolErr" ->
            subHandler' = "idle" /\ UNCHANGED <<subLost, subBatch, subDrops, subAt, subSent>>
  /\ UNCHANGED <<subEnv, subProgress, subQueue, subLeft>>

SubNext ==
  \/ SubExtend \/ SubReorg
  \/ SubStart \/ SubLeave \/ SubSignal \/ SubExit
  \/ \E t \in SubTx : OnTransaction(t)
  \/ \E t \in SubTx : OnMempool(t)
  \/ OnPage \/ OnBlock
  \/ LogMany \/ LogProgress \/ Report

SubSpec == SubInit /\ [][SubNext]_subVars

(***************************************************************************)
(* Properties.                                                             *)
(***************************************************************************)

\* sub.go:56-73, 113-121: whenever the process ends, every transaction below the
\* height where the next one resumes has been written to the queue, was given up
\* with a batch that failed, or, without -r, came into an old block by a
\* reorganisation.  With -r no reorganisation hides one.
ResumesBehindNothing ==
  \A t \in SubTx :
    subBlock[t] \in FirstBlock..(ResumeAt - 1)
      => t \in subQueue \cup subLost \cup (IF "rewind" \in subFlags THEN {} ELSE subMoved)

\* sub.go:59, 66, 143: the handler goes on after an error, but a process gives up
\* one batch at most that it reported: the next error stops the handler before
\* the batch is dropped and before the progress is stored.
OneBatchGivenUp == subDrops <= 1
=============================================================================
