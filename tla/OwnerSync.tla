----------------------------- MODULE OwnerSync -----------------------------
(***************************************************************************)
(* Bringing the transactions of an owner into the index.  The sync loop    *)
(* (cmd/owner-sync, and the same loop in cmd/full) fetches the history of  *)
(* each registered owner page by page from JungleBus and queues it; the    *)
(* server registers owners to accounts (RegisterAccount, UpdateAccount)    *)
(* and, on request, fetches one page itself and ingests it (SyncAcct,      *)
(* SyncOwner).  Both resume from the height they log for the owner, in the *)
(* same log.                                                               *)
(*                                                                         *)
(* JungleBus is external: it returns the first osPage transactions of an   *)
(* owner from a height on, in the order of their heights.                  *)
(***************************************************************************)
EXTENDS Integers, FiniteSets

CONSTANTS
  OsTx, OsOwner, OsAcct,
  OwnersOf,     \* OwnersOf[t]: the owners in whose history t appears
  Request,      \* requests of the server that run at the same time
  Concurrency,  \* the flag -c of the server
  OsConfigs,    \* the deployments explored: a store, the size of a full page
                \* (1000), the owners that JungleBus answers with status 400
  OsMaxTip,     \* bound: heights
  OsBounds      \* the bounds explored: requests ("ask"), errors of JungleBus, of the store
                \* and of the ingest ("fault"), reorganisations ("reorg")

ASSUME OsOwnersAssumption == OwnersOf \in [OsTx -> SUBSET OsOwner]
ASSUME OsConcurrencyAssumption == Concurrency \in Nat \ {0}
ASSUME OsConfigAssumption ==
  OsConfigs \subseteq {"redis", "sql"} \X (Nat \ {0}) \X SUBSET OsOwner
ASSUME OsBoundAssumption ==
  OsMaxTip \in Nat \ {0} /\ OsBounds \subseteq [{"ask", "fault", "reorg"} -> Nat]

VARIABLES
  osBackend,   \* the store of this deployment, never written
  osPage,      \* transactions of a full page, never written
  osRefused,   \* owners JungleBus finds malformed, never written
  osTip,       \* height of the longest chain
  osBlock,     \* osBlock[t]: the height t is mined at, or 0
  osMember,    \* store: pairs <<owner, account>> that AcctOwners finds
  osHeight,    \* store: the score of an owner in the sync log, NoScore for none
  osQueue,     \* store: transactions ever written to the queue
  osIngested,  \* store: transactions ingested (logged with a height)
  osLoop,      \* the sync loop
  osReq,       \* the requests
  osTies,      \* ghost: pairs <<owner, tx>>: a full page ended inside its block
  osLate,      \* ghost: transactions mined in a block that replaced another
  osCut,       \* ghost: owners whose registration stopped before the sync log
  osLeft       \* what is left of the bounds

osChain == <<osBackend, osPage, osRefused, osTip, osBlock, osLate>>
osVars == <<osChain, osMember, osHeight, osQueue, osIngested, osLoop, osReq, osTies,
            osCut, osLeft>>

OsHeights == 0..(OsMaxTip + 1)
NoScore == -1
ASSUME OsNoScoreAssumption == NoScore \notin OsOwner \cup OsAcct
Synced == {o \in OsOwner : osHeight[o] # NoScore}

\* at: "down", "search" (before a round), "fetch", "queue" (goes through a page),
\* "log" (before the height is stored); todo: owners of this round with the
\* heights it read for them; page: what is left of the page; full: it was a full one.
LoopStates ==
  [at : {"down", "search", "fetch", "queue", "log"}, owner : OsOwner \cup {NoScore},
   todo : SUBSET (OsOwner \X OsHeights), last : OsHeights,
   page : SUBSET OsTx, full : BOOLEAN]
LoopIdle == [at |-> "search", owner |-> NoScore, todo |-> {}, last |-> 0,
             page |-> {}, full |-> FALSE]

\* at: "idle", "update" (UpdateAccount goes through new), "insert" (SQL: between
\* its two statements), "owners" (before AcctOwners), "next" (before SyncOwner
\* of an owner of todo), "fetch", "loop" (at the head of the loop), "slot" (before
\* the limiter), "wait"; acct: None for SyncOwner alone; run: the goroutines of
\* IngestTxid; held: places taken in the limiter; err: firstErr is set and ctx
\* cancelled.
NoAcct == NoScore
ReqStates ==
  [at : {"idle", "update", "insert", "owners", "next", "fetch", "loop", "slot", "wait"},
   acct : OsAcct \cup {NoAcct}, new : SUBSET OsOwner, todo : SUBSET OsOwner,
   owner : OsOwner \cup {NoScore}, last : OsHeights, page : SUBSET OsTx,
   run : SUBSET OsTx, held : 0..Concurrency, err : BOOLEAN]
ReqIdle == [at |-> "idle", acct |-> NoAcct, new |-> {}, todo |-> {}, owner |-> NoScore,
            last |-> 0, page |-> {}, run |-> {}, held |-> 0, err |-> FALSE]

OsTypeOK ==
  /\ <<osBackend, osPage, osRefused>> \in OsConfigs
  /\ osTip \in 0..OsMaxTip /\ osBlock \in [OsTx -> 0..osTip]
  /\ osMember \subseteq OsOwner \X OsAcct
  /\ osHeight \in [OsOwner -> OsHeights \cup {NoScore}]
  /\ osQueue \subseteq OsTx /\ osIngested \subseteq OsTx
  /\ osLoop \in LoopStates
  /\ osReq \in [Request -> ReqStates]
  /\ osTies \subseteq OsOwner \X OsTx /\ osLate \subseteq OsTx /\ osCut \subseteq OsOwner
  /\ osLeft \in [{"ask", "fault", "reorg"} -> Nat]

OsInit ==
  /\ \E c \in OsConfigs : osBackend = c[1] /\ osPage = c[2] /\ osRefused = c[3]
  /\ osTip = 0 /\ osBlock = [t \in OsTx |-> 0]
  /\ osMember = {} /\ osHeight = [o \in OsOwner |-> NoScore]
  /\ osQueue = {} /\ osIngested = {}
  /\ osLoop = LoopIdle /\ osReq = [r \in Request |-> ReqIdle]
  /\ osTies = {} /\ osLate = {} /\ osCut = {}
  /\ osLeft \in OsBounds

OsUse(b) == osLeft[b] > 0 /\ osLeft' = [osLeft EXCEPT ![b] = @ - 1]

(***************************************************************************)
(* The chain, and the answers of JungleBus.                                *)
(***************************************************************************)

OsExtend ==
  /\ osTip < OsMaxTip /\ osTip' = osTip + 1
  /\ \E mined \in SUBSET {t \in OsTx : osBlock[t] = 0} :
       osBlock' = [t \in OsTx |-> IF t \in mined THEN osTip + 1 ELSE osBlock[t]]
  /\ UNCHANGED <<osBackend, osPage, osRefused, osLate, osMember, osHeight, osQueue, osIngested, osLoop,
                 osReq, osTies, osCut, osLeft>>

\* The last block is replaced by one that holds other transactions.
OsReorg ==
  /\ OsUse("reorg") /\ osTip > 0
  /\ \E t \in OsTx :
       /\ osBlock[t] = 0
       /\ osBlock' = [osBlock EXCEPT ![t] = osTip]
       /\ osLate' = osLate \cup {t}
  /\ UNCHANGED <<osBackend, osPage, osRefused, osTip, osMember, osHeight, osQueue, osIngested, osLoop,
                 osReq, osTies, osCut>>

History(o, from) ==
  {t \in OsTx : o \in OwnersOf[t] /\ osBlock[t] # 0 /\ osBlock[t] >= from}

\* FetchOwnerTxns: the possible pages.
FetchOwnerTxns(o, from) ==
  {p \in SUBSET History(o, from) :
     /\ p # History(o, from) => Cardinality(p) = osPage
     /\ Cardinality(p) <= osPage
     /\ \A t \in p, u \in History(o, from) \ p : osBlock[t] <= osBlock[u]}

First(page) == {t \in page : \A u \in page : osBlock[t] <= osBlock[u]}
Higher(h, k) == IF k > h THEN k ELSE h

(***************************************************************************)
(* The sync loop.                                                          *)
(***************************************************************************)

loopOnly == <<osChain, osMember, osIngested, osReq, osCut>>

\* Search of the sync log: each owner with its height of this moment.
LoopSearch ==
  /\ osLoop.at = "search" /\ Synced # {}
  /\ osLoop' = [osLoop EXCEPT !.at = "fetch", !.todo = {<<o, osHeight[o]>> : o \in Synced},
                              !.owner = NoScore]
  /\ UNCHANGED <<loopOnly, osHeight, osQueue, osTies, osLeft>>

\* The next owner in the order of the heights; after the last the loop sleeps.
LoopOwner ==
  /\ osLoop.at = "fetch" /\ osLoop.owner = NoScore
  /\ IF osLoop.todo = {} THEN osLoop' = LoopIdle
     ELSE \E e \in osLoop.todo :
            /\ \A f \in osLoop.todo : e[2] <= f[2]
            /\ osLoop' = IF e[1] \in osRefused THEN [osLoop EXCEPT !.todo = @ \ {e}]
                         ELSE [osLoop EXCEPT !.owner = e[1], !.last = e[2],
                                             !.todo = @ \ {e}]
  /\ UNCHANGED <<loopOnly, osHeight, osQueue, osTies, osLeft>>

AfterQueue(page) == IF page = {} THEN "log" ELSE "queue"

LoopFetch ==
  /\ osLoop.at = "fetch" /\ osLoop.owner # NoScore
  /\ \E p \in FetchOwnerTxns(osLoop.owner, osLoop.last) :
       osLoop' = [osLoop EXCEPT !.at = AfterQueue(p), !.page = p,
                                !.full = Cardinality(p) >= osPage]
  /\ UNCHANGED <<loopOnly, osHeight, osQueue, osTies, osLeft>>

\* What was ingested with a height is skipped; LogOnce writes the rest.
LoopQueue ==
  /\ osLoop.at = "queue"
  /\ \E t \in First(osLoop.page) :
       /\ osLoop' = [osLoop EXCEPT !.at = AfterQueue(osLoop.page \ {t}),
                                   !.page = @ \ {t}, !.last = Higher(@, osBlock[t])]
       /\ osQueue' = IF t \in osIngested THEN osQueue ELSE osQueue \cup {t}
  /\ UNCHANGED <<loopOnly, osHeight, osTies, osLeft>>

\* Mutant: one page of an owner in a round, full or not.
LoopLogOnePage ==
  /\ osLoop.at = "log"
  /\ osHeight' = [osHeight EXCEPT ![osLoop.owner] = osLoop.last]
  /\ osLoop' = [LoopIdle EXCEPT !.at = "fetch", !.todo = osLoop.todo]
  /\ UNCHANGED <<loopOnly, osQueue, osTies, osLeft>>

\* After a full page the next one starts above the last height.
LoopLog ==
  /\ osLoop.at = "log"
  /\ osHeight' = [osHeight EXCEPT ![osLoop.owner] = osLoop.last]
  /\ IF osLoop.full
       THEN /\ osLoop' = [osLoop EXCEPT !.at = "fetch", !.last = @ + 1]
            /\ osTies' = osTies \cup ({osLoop.owner} \X
                 {t \in History(osLoop.owner, osLoop.last) \ (osQueue \cup osIngested) :
                    osBlock[t] = osLoop.last})
       ELSE /\ osLoop' = [LoopIdle EXCEPT !.at = "fetch", !.todo = osLoop.todo]
            /\ UNCHANGED osTies
  /\ UNCHANGED <<loopOnly, osQueue, osLeft>>

\* Any error but status 400 panics, and ends the process.
LoopPanic ==
  /\ osLoop.at # "down" /\ OsUse("fault")
  /\ osLoop' = [LoopIdle EXCEPT !.at = "down"]
  /\ UNCHANGED <<loopOnly, osHeight, osQueue, osTies>>

LoopStart ==
  /\ osLoop.at = "down" /\ osLoop' = LoopIdle
  /\ UNCHANGED <<loopOnly, osHeight, osQueue, osTies, osLeft>>

(***************************************************************************)
(* Requests.                                                               *)
(***************************************************************************)

reqOnly == <<osChain, osQueue, osLoop, osTies>>
Step(r, s) == osReq' = [osReq EXCEPT ![r] = s]

\* PUT /acct/:account with its owners, GET /acct/:account, GET /own/:owner/txos
\* with refresh.
Ask(r) ==
  /\ osReq[r].at = "idle" /\ OsUse("ask")
  /\ \/ \E a \in OsAcct, new \in (SUBSET OsOwner) \ {{}} :
          Step(r, [ReqIdle EXCEPT !.at = "update", !.acct = a, !.new = new])
     \/ \E a \in OsAcct : Step(r, [ReqIdle EXCEPT !.at = "owners", !.acct = a])
     \/ \E o \in OsOwner : Step(r, [ReqIdle EXCEPT !.at = "next", !.todo = {o}])
  /\ UNCHANGED <<reqOnly, osMember, osHeight, osIngested, osCut>>

Register(o) == osHeight' = [osHeight EXCEPT ![o] = IF @ = NoScore THEN 0 ELSE @]

\* Redis: all in one MULTI; an owner stays in the set of its former account.
UpdateRedis(r) ==
  /\ osReq[r].at = "update" /\ osBackend = "redis"
  /\ osMember' = osMember \cup (osReq[r].new \X {osReq[r].acct})
  /\ osHeight' = [o \in OsOwner |-> IF o \in osReq[r].new /\ osHeight[o] = NoScore
                                     THEN 0 ELSE osHeight[o]]
  /\ Step(r, [osReq[r] EXCEPT !.at = "owners", !.new = {}])
  /\ UNCHANGED <<reqOnly, osIngested, osCut, osLeft>>

\* SQL: two statements for each owner.
UpsertOwner(r) ==
  /\ osReq[r].at = "update" /\ osBackend = "sql"
  /\ \E o \in osReq[r].new :
       /\ osMember' = (osMember \ ({o} \X OsAcct)) \cup {<<o, osReq[r].acct>>}
       /\ Step(r, [osReq[r] EXCEPT !.at = "insert", !.owner = o, !.new = @ \ {o}])
  /\ UNCHANGED <<reqOnly, osHeight, osIngested, osCut, osLeft>>

LogOwner(r) ==
  /\ osReq[r].at = "insert" /\ Register(osReq[r].owner)
  /\ Step(r, [osReq[r] EXCEPT !.owner = NoScore,
                !.at = IF osReq[r].new = {} THEN "owners" ELSE "update"])
  /\ UNCHANGED <<reqOnly, osMember, osIngested, osCut, osLeft>>

SyncAcct(r) ==
  /\ osReq[r].at = "owners"
  /\ Step(r, [osReq[r] EXCEPT !.at = "next",
                !.todo = {o \in OsOwner : <<o, osReq[r].acct>> \in osMember}])
  /\ UNCHANGED <<reqOnly, osMember, osHeight, osIngested, osCut, osLeft>>

\* SyncOwner reads the height of the owner, 0 for none.
SyncOwner(r) ==
  /\ osReq[r].at = "next"
  /\ IF osReq[r].todo = {} THEN Step(r, ReqIdle)
     ELSE \E o \in osReq[r].todo :
            Step(r, [osReq[r] EXCEPT !.at = "fetch", !.owner = o, !.todo = @ \ {o},
                                     !.last = Higher(0, osHeight[o])])
  /\ UNCHANGED <<reqOnly, osMember, osHeight, osIngested, osCut, osLeft>>

\* SyncOwner returns, and SyncAcct goes on whatever it returned.
OwnerDone(q) == [q EXCEPT !.at = "next", !.owner = NoScore, !.last = 0, !.page = {},
                          !.held = 0, !.err = FALSE]

Fetch(r) ==
  LET q == osReq[r] IN
  /\ q.at = "fetch"
  /\ \/ q.owner \in osRefused /\ Step(r, OwnerDone(q)) /\ UNCHANGED osLeft
     \/ OsUse("fault") /\ Step(r, OwnerDone(q))
     \/ /\ q.owner \notin osRefused
        /\ \E p \in FetchOwnerTxns(q.owner, q.last) :
             Step(r, [q EXCEPT !.at = "loop", !.page = p])
        /\ UNCHANGED osLeft
  /\ UNCHANGED <<reqOnly, osMember, osHeight, osIngested, osCut>>

\* The loop goes on while ctx is not cancelled.  It looks the transaction up under
\* the tag itself, where nothing is logged, and so passes over none.
Schedule(r) ==
  LET q == osReq[r] IN
  /\ q.at = "loop" /\ ~q.err /\ q.page # {}
  /\ Step(r, [q EXCEPT !.at = "slot"])
  /\ UNCHANGED <<reqOnly, osMember, osHeight, osIngested, osCut, osLeft>>

\* Once the limiter has room the transaction has its goroutine, though ctx may
\* have been cancelled meanwhile.
StartIngest(r) ==
  LET q == osReq[r] IN
  /\ q.at = "slot" /\ q.held < Concurrency
  /\ \E t \in First(q.page) :
       Step(r, [q EXCEPT !.at = "loop", !.page = @ \ {t}, !.run = @ \cup {t},
                         !.held = @ + 1, !.last = Higher(@, osBlock[t])])
  /\ UNCHANGED <<reqOnly, osMember, osHeight, osIngested, osCut, osLeft>>

\* The loop ends with the page, or at the cancelled context.
Scheduled(r) ==
  LET q == osReq[r] IN
  /\ q.at = "loop" /\ (q.page = {} \/ q.err)
  /\ Step(r, [q EXCEPT !.at = "wait", !.page = {}])
  /\ UNCHANGED <<reqOnly, osMember, osHeight, osIngested, osCut, osLeft>>

\* A goroutine ends and frees its place: IngestTxid has saved, or found what is
\* logged under the key of the tag (Once), or failed, which it may also do because
\* another one cancelled the context.
Ingested(r, t) ==
  /\ t \in osReq[r].run /\ osReq[r].held > 0
  /\ Step(r, [osReq[r] EXCEPT !.run = @ \ {t}, !.held = @ - 1])
  /\ osIngested' = osIngested \cup {t}
  /\ UNCHANGED <<reqOnly, osMember, osHeight, osCut, osLeft>>

\* Mutant: a goroutine that failed keeps its place.
IngestFailedUnreleased(r, t) ==
  /\ t \in osReq[r].run
  /\ osReq[r].err \/ osLeft["fault"] > 0
  /\ osLeft' = IF osReq[r].err THEN osLeft ELSE [osLeft EXCEPT !["fault"] = @ - 1]
  /\ Step(r, [osReq[r] EXCEPT !.run = @ \ {t}, !.err = TRUE])
  /\ UNCHANGED <<reqOnly, osMember, osHeight, osIngested, osCut>>

IngestFailed(r, t) ==
  /\ t \in osReq[r].run /\ osReq[r].held > 0
  /\ osReq[r].err \/ osLeft["fault"] > 0
  /\ osLeft' = IF osReq[r].err THEN osLeft ELSE [osLeft EXCEPT !["fault"] = @ - 1]
  /\ Step(r, [osReq[r] EXCEPT !.run = @ \ {t}, !.held = @ - 1, !.err = TRUE])
  /\ UNCHANGED <<reqOnly, osMember, osHeight, osIngested, osCut>>

\* Mutant: the height is logged whatever failed.
LogSyncedAnyway(r) ==
  LET q == osReq[r] IN
  /\ q.at = "wait" /\ q.run = {}
  /\ osHeight' = [osHeight EXCEPT ![q.owner] = q.last]
  /\ Step(r, OwnerDone(q))
  /\ UNCHANGED <<reqOnly, osMember, osIngested, osCut, osLeft>>

\* wg.Wait is over: the height is logged when nothing failed.
LogSynced(r) ==
  LET q == osReq[r] IN
  /\ q.at = "wait" /\ q.run = {}
  /\ osHeight' = IF q.err THEN osHeight ELSE [osHeight EXCEPT ![q.owner] = q.last]
  /\ Step(r, OwnerDone(q))
  /\ UNCHANGED <<reqOnly, osMember, osIngested, osCut, osLeft>>

\* An error of the store ends the request, in SQL between its statements too.
RequestFails(r) ==
  /\ osReq[r].at \in {"update", "insert", "owners", "next"} /\ OsUse("fault")
  /\ osCut' = IF osReq[r].at = "insert" THEN osCut \cup {osReq[r].owner} ELSE osCut
  /\ Step(r, ReqIdle)
  /\ UNCHANGED <<reqOnly, osMember, osHeight, osIngested>>

\* log.Panic in a handler or in a goroutine of one: nothing in the server recovers,
\* so that all requests end and nothing is left of them.  A call of the store
\* under the cancelled context is enough.
ServerPanic ==
  /\ \E r \in Request :
       /\ osReq[r].at # "idle"
       /\ IF osReq[r].err /\ osReq[r].page \cup osReq[r].run # {} THEN UNCHANGED osLeft
          ELSE OsUse("fault")
  /\ osCut' = osCut \cup {osReq[r].owner : r \in {r \in Request : osReq[r].at = "insert"}}
  /\ osReq' = [r \in Request |-> ReqIdle]
  /\ UNCHANGED <<reqOnly, osMember, osHeight, osIngested>>

Goroutines(r) == \E t \in OsTx : Ingested(r, t) \/ IngestFailed(r, t)
Handler(r) ==
  \/ UpdateRedis(r) \/ UpsertOwner(r) \/ LogOwner(r)
  \/ SyncAcct(r) \/ SyncOwner(r) \/ Fetch(r)
  \/ Schedule(r) \/ StartIngest(r) \/ Scheduled(r) \/ LogSynced(r)
Loop == LoopSearch \/ LoopOwner \/ LoopFetch \/ LoopQueue \/ LoopLog

OsNext ==
  \/ OsExtend \/ OsReorg
  \/ Loop \/ LoopPanic \/ LoopStart
  \/ \E r \in Request : Ask(r)
  \/ \E r \in Request : Handler(r)
  \/ \E r \in Request : Goroutines(r)
  \/ \E r \in Request : RequestFails(r)
  \/ ServerPanic

\* The loop and the goroutines run; nothing restarts a loop that has panicked.
OsFairness ==
  /\ WF_osVars(Loop)
  /\ \A r \in Request : WF_osVars(Handler(r)) /\ WF_osVars(Goroutines(r))

OsSpec == OsInit /\ [][OsNext]_osVars /\ OsFairness

(***************************************************************************)
(* Properties.                                                             *)
(***************************************************************************)

\* owner-sync.go:39-76, accounts.go:24-79: the height logged for an owner never
\* passes a transaction of its history that was neither queued nor ingested, but
\* for those that shared a block with the end of a full page, and those mined in
\* a block that replaced another.
NothingPassed ==
  \A t \in OsTx : \A o \in OwnersOf[t] :
    osBlock[t] \in 1..(osHeight[o] - 1)
      => t \in osQueue \cup osIngested \cup osLate \/ <<o, t>> \in osTies

\* UpdateAccount: an owner of an account is in the log the sync loop reads, but
\* for one whose registration is at, or was cut between, its two SQL statements.
MembersAreSynced ==
  \A o \in OsOwner, a \in OsAcct :
    <<o, a>> \in osMember
      => \/ o \in Synced \cup osCut
         \/ \E r \in Request : osReq[r].at = "insert" /\ osReq[r].owner = o

\* accounts.go:30-74: a request to sync ends, also one whose loop waits for a place
\* in the limiter when the goroutine that holds it fails and cancels the rest: it
\* gets the place, the last goroutine gets its own, and wg.Wait returns.
RequestsEnd == \A r \in Request : osReq[r].at # "idle" ~> osReq[r].at = "idle"

\* The sync loop: a mined transaction of an owner in the sync log is queued or
\* ingested at last, unless JungleBus refuses the owner, a full page ended in its
\* block, a block was replaced by its own, or the loop panicked.
HistoryArrives ==
  \A o \in OsOwner, t \in OsTx :
    (o \in Synced \ osRefused /\ o \in OwnersOf[t] /\ osBlock[t] # 0)
      ~> \/ t \in osQueue \cup osIngested \cup osLate
         \/ <<o, t>> \in osTies
         \/ osLoop.at = "down"
=============================================================================
