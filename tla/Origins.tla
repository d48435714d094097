------------------------------- MODULE Origins -------------------------------
(***************************************************************************)
(* Origins of the outputs of one satoshi (mod/onesat/origin.go), and the   *)
(* program that resolves them (cmd/origin).  An output inherits the origin *)
(* of the input that holds its satoshi; while the origin of that input is  *)
(* unknown, so is its own, and the output has an entry in the log of the   *)
(* event "outpoint" without a value.  The resolver goes through that log   *)
(* in rounds: it ingests each transaction again, queues the parents it     *)
(* finds unresolved, and takes what it resolved out of the log.  The queue *)
(* processor, another process, ingests and saves the same outputs.         *)
(*                                                                         *)
(* JungleBus and the chain are external.  Saving the outputs of a          *)
(* transaction is one step here; TxoStore has its parts.                   *)
(***************************************************************************)
EXTENDS Naturals, Sequences, FiniteSets
LOCAL INSTANCE SequencesExt

CONSTANTS
  OrTx, OrOut,
  NoOut,      \* no output, no transaction: Outpoint is nil
  InsOf,      \* InsOf[t]: the outputs that t spends, in order
  OutsOf,     \* OutsOf[t]: the outputs of t, in order
  Sats,       \* Sats[o]
  OldTx,      \* transactions mined below TRIGGER
  Slot,       \* goroutines of the resolver: the flag -c
  Outside,    \* goroutines of the queue processor
  FailedCap,  \* the buffer of failed: 100
  OrBounds    \* the bounds explored: errors of JungleBus ("fault"), restarts of the
              \* resolver ("restart"), transactions others ingest ("other")

ASSUME OrOutsAssumption ==
  /\ NoOut \notin OrOut \cup OrTx /\ Slot \cap Outside = {}
  /\ InsOf \in [OrTx -> Seq(OrOut)] /\ OutsOf \in [OrTx -> Seq(OrOut)]
  /\ Sats \in [OrOut -> Nat \ {0}] /\ OldTx \subseteq OrTx
\* Each output is the output of one transaction.
ASSUME OrTxidAssumption ==
  \A o \in OrOut : \E t \in OrTx :
    {u \in OrTx : \E i \in DOMAIN OutsOf[u] : OutsOf[u][i] = o} = {t}
ASSUME OrBoundAssumption ==
  FailedCap \in Nat \ {0} /\ OrBounds \subseteq [{"fault", "restart", "other"} -> Nat]

VARIABLES
  orMined,    \* the transactions that are mined
  orTxo,      \* store: the record of each output
  orLog,      \* store: outputs with an entry of an unresolved origin
  orMain,     \* main: its round
  orQueue,    \* queue
  orDisp,     \* the dispatcher: the transaction it waits with for a slot
  processed,  \* processed
  failed,     \* failed
  orJob,      \* the goroutines
  orYoung,    \* ghost: outputs taken for origins because the parent had height 0
  orLeft      \* what is left of the bounds

orProcess == <<orMain, orQueue, orDisp, processed, failed>>
orVars == <<orMined, orTxo, orLog, orProcess, orJob, orYoung, orLeft>>

\* Heights: 0 in the mempool, 1 below TRIGGER, TRIGGER.
TRIGGER == 2
HeightOf(t) == IF t \in OldTx THEN 1 ELSE IF t \in orMined THEN TRIGGER ELSE 0
Outs(t) == {OutsOf[t][i] : i \in DOMAIN OutsOf[t]}
TxOf == [o \in OrOut |-> CHOOSE t \in OrTx : o \in Outs(t)]

\* What a Txo says of its origin: nothing (data), not yet (origin), or which.
Txo == [stored : BOOLEAN, height : 0..TRIGGER, data : BOOLEAN, origin : OrOut \cup {NoOut}]
Absent == [stored |-> FALSE, height |-> 0, data |-> FALSE, origin |-> NoOut]

\* at: "load", "spend" (before LoadTxo of an input), "parent" (the input is not
\* stored), "save", "queue", "delog", "failing" (sends to failed); spends: the
\* inputs read.
Jobs == [at : {"idle", "load", "spend", "parent", "save", "queue", "delog", "failing"},
         tx : OrTx \cup {NoOut}, height : 0..TRIGGER, spends : Seq(Txo)]
JobIdle == [at |-> "idle", tx |-> NoOut, height |-> 0, spends |-> <<>>]
Running(t) == [JobIdle EXCEPT !.at = "load", !.tx = t]

MainStart == [at |-> "search", todo |-> {}]

OrTypeOK ==
  /\ orMined \subseteq OrTx /\ orTxo \in [OrOut -> Txo] /\ orLog \subseteq OrOut
  /\ orMain \in [at : {"search", "push"}, todo : SUBSET OrTx]
  /\ orQueue \in Seq(OrTx) /\ orDisp \in OrTx \cup {NoOut}
  /\ processed \subseteq OrTx /\ failed \in Seq(OrTx) /\ Len(failed) <= FailedCap
  /\ orJob \in [Slot \cup Outside -> Jobs]
  /\ orYoung \subseteq OrOut
  /\ orLeft \in [{"fault", "restart", "other"} -> Nat]

OrInit ==
  /\ orMined = {} /\ orTxo = [o \in OrOut |-> Absent] /\ orLog = {}
  /\ orMain = MainStart /\ orQueue = <<>> /\ orDisp = NoOut
  /\ processed = {} /\ failed = <<>>
  /\ orJob = [w \in Slot \cup Outside |-> JobIdle]
  /\ orYoung = {} /\ orLeft \in OrBounds

OrUse(b) == orLeft[b] > 0 /\ orLeft' = [orLeft EXCEPT ![b] = @ - 1]

\* A block holds the parents of what it holds, or they are mined already.
OrMine ==
  /\ \E t \in OrTx \ (OldTx \cup orMined) :
       /\ \A i \in DOMAIN InsOf[t] : HeightOf(TxOf[InsOf[t][i]]) > 0
       /\ orMined' = orMined \cup {t}
  /\ UNCHANGED <<orTxo, orLog, orProcess, orJob, orYoung, orLeft>>

(***************************************************************************)
(* Parse: the origin of an output from the inputs that were read.          *)
(***************************************************************************)

Sum(os) == FoldLeft(LAMBDA n, o : n + Sats[o], 0, os)
OutAcc(o) == LET os == OutsOf[TxOf[o]]
             IN Sum(SubSeq(os, 1, (CHOOSE i \in DOMAIN os : os[i] = o) - 1))

\* The inputs that the loop of Parse stops at, if the first n were read: none,
\* or the first that reaches beyond OutAcc.  One of a single satoshi can only be
\* the satoshi of o.
Carriers == [o \in OrOut |->
  LET ins == InsOf[TxOf[o]]
      beyond == {i \in DOMAIN ins : Sum(SubSeq(ins, 1, i)) > OutAcc(o)}
      first == {i \in beyond : \A j \in beyond : i <= j}
  IN [n \in 0..Len(ins) |-> first \cap 1..n]]

\* Mutant: an output of which no input was read is taken for an origin.
ParseOwn(o, height, spends) ==
  IF Sats[o] # 1 \/ height \in 1..(TRIGGER - 1)
  THEN [stored |-> TRUE, height |-> height, data |-> FALSE, origin |-> NoOut]
  ELSE LET carriers == Carriers[o][Len(spends)] IN
       [stored |-> TRUE, height |-> height, data |-> TRUE,
        origin |-> IF \A i \in carriers : Sats[InsOf[TxOf[o]][i]] # 1 \/ spends[i].height < TRIGGER
                   THEN o ELSE spends[CHOOSE i \in carriers : TRUE].origin]

\* Parse: nothing for other outputs; the origin of the parent; or its own.
Parse(o, height, spends) ==
  LET carriers == Carriers[o][Len(spends)]
      inherits(i) == Sats[InsOf[TxOf[o]][i]] = 1 /\ spends[i].height >= TRIGGER
      has == Sats[o] = 1 /\ height \notin 1..(TRIGGER - 1)
  IN [stored |-> TRUE, height |-> height, data |-> has,
      origin |-> IF ~has \/ carriers = {} THEN NoOut
                 ELSE LET i == CHOOSE i \in carriers : TRUE
                      IN IF inherits(i) THEN spends[i].origin ELSE o]

Unresolved(txo) == txo.data /\ txo.origin = NoOut

\* SaveTxos; entries of the log are only added.
SaveTxos(t, height, spends) ==
  LET parsed == [o \in Outs(t) |-> Parse(o, height, spends)] IN
  /\ orTxo' = [o \in OrOut |-> IF o \in Outs(t) THEN parsed[o] ELSE orTxo[o]]
  /\ orLog' = orLog \cup {o \in Outs(t) : Unresolved(parsed[o])}

(***************************************************************************)
(* IngestTxid, step by step.                                               *)
(***************************************************************************)

Moves(w, job) == orJob' = [orJob EXCEPT ![w] = job]
Proceed(job) ==
  [job EXCEPT !.at = IF Len(job.spends) = Len(InsOf[job.tx]) THEN "save" ELSE "spend"]

LoadTx(w) ==
  /\ orJob[w].at = "load"
  /\ Moves(w, Proceed([orJob[w] EXCEPT !.height = HeightOf(orJob[w].tx)]))
  /\ UNCHANGED <<orMined, orTxo, orLog, orProcess, orYoung, orLeft>>

ReadSpend(w) ==
  /\ orJob[w].at = "spend"
  /\ LET job == orJob[w]
         spend == orTxo[InsOf[job.tx][Len(job.spends) + 1]]
     IN Moves(w, IF spend.stored THEN Proceed([job EXCEPT !.spends = Append(@, spend)])
                 ELSE [job EXCEPT !.at = "parent"])
  /\ UNCHANGED <<orMined, orTxo, orLog, orProcess, orYoung, orLeft>>

\* The parent is loaded and parsed without its inputs.  The resolver saves it; the
\* others do (cmd/ingest) or do not (cmd/full, the audits).  cmd/ingest can be told
\* not to parse parents (-p=false): the input is then taken without its height,
\* which is not modelled.
LoadParent(w) ==
  /\ orJob[w].at = "parent"
  /\ LET job == orJob[w]
         o == InsOf[job.tx][Len(job.spends) + 1]
         height == HeightOf(TxOf[o])
     IN /\ Moves(w, Proceed([job EXCEPT !.spends = Append(@, Parse(o, height, <<>>))]))
        /\ \/ SaveTxos(TxOf[o], height, <<>>)
           \/ w \in Outside /\ UNCHANGED <<orTxo, orLog>>
  /\ UNCHANGED <<orMined, orProcess, orYoung, orLeft>>

\* JungleBus fails: the error reaches the goroutine.
LoadFails(w) ==
  /\ orJob[w].at \in {"load", "parent"} /\ OrUse("fault")
  /\ Moves(w, IF w \in Slot THEN [JobIdle EXCEPT !.at = "failing", !.tx = orJob[w].tx]
              ELSE JobIdle)
  /\ UNCHANGED <<orMined, orTxo, orLog, orProcess, orYoung>>

Save(w) ==
  /\ orJob[w].at = "save"
  /\ LET job == orJob[w] IN
       /\ SaveTxos(job.tx, job.height, job.spends)
       /\ Moves(w, IF w \in Slot THEN [job EXCEPT !.at = "queue"] ELSE JobIdle)
       /\ orYoung' = orYoung \cup
            {o \in Outs(job.tx) : \E i \in Carriers[o][Len(job.spends)] :
               Sats[InsOf[job.tx][i]] = 1 /\ job.spends[i].height = 0}
  /\ UNCHANGED <<orMined, orProcess, orLeft>>

(***************************************************************************)
(* The resolver.                                                           *)
(***************************************************************************)

\* The parents without an origin, in the order of the inputs.
QueueParents(w) ==
  /\ orJob[w].at = "queue"
  /\ LET job == orJob[w]
         ins == InsOf[job.tx]
     IN /\ \E n \in 0..Len(ins) : \E parents \in [1..n -> DOMAIN ins] :
             /\ \A i, j \in 1..n : i < j => parents[i] < parents[j]
             /\ {parents[i] : i \in 1..n} = {i \in DOMAIN ins : Unresolved(job.spends[i])}
             /\ orQueue' = orQueue \o [i \in 1..n |-> TxOf[ins[parents[i]]]]
        /\ Moves(w, [job EXCEPT !.at = "delog"])
  /\ UNCHANGED <<orMined, orTxo, orLog, orMain, orDisp, processed, failed, orYoung, orLeft>>

\* Delog of what this job resolved, and its slot is free.
Delog(w) ==
  /\ orJob[w].at = "delog"
  /\ LET job == orJob[w] IN
       orLog' = orLog \ {o \in Outs(job.tx) : Parse(o, job.height, job.spends).origin # NoOut}
  /\ Moves(w, JobIdle)
  /\ UNCHANGED <<orMined, orTxo, orProcess, orYoung, orLeft>>

\* Mutant: failed takes any number.
ReportFailedAny(w) ==
  /\ orJob[w].at = "failing"
  /\ failed' = Append(failed, orJob[w].tx) /\ Moves(w, JobIdle)
  /\ UNCHANGED <<orMined, orTxo, orLog, orMain, orQueue, orDisp, processed, orYoung, orLeft>>

\* failed <- txid, before the slot is free.
ReportFailed(w) ==
  /\ orJob[w].at = "failing" /\ Len(failed) < FailedCap
  /\ failed' = Append(failed, orJob[w].tx) /\ Moves(w, JobIdle)
  /\ UNCHANGED <<orMined, orTxo, orLog, orMain, orQueue, orDisp, processed, orYoung, orLeft>>

Busy == {w \in Slot : orJob[w].at # "idle"}
wg == Len(orQueue) + Cardinality(Busy) + (IF orDisp = NoOut THEN 0 ELSE 1)

Take ==
  /\ orDisp = NoOut /\ orQueue # <<>> /\ orQueue' = Tail(orQueue)
  /\ LET t == Head(orQueue) IN
       IF t \in processed THEN UNCHANGED <<orDisp, processed>>
       ELSE orDisp' = t /\ processed' = processed \cup {t}
  /\ UNCHANGED <<orMined, orTxo, orLog, orMain, failed, orJob, orYoung, orLeft>>

\* limiter <- struct{}{}
Spawn ==
  /\ orDisp # NoOut /\ orDisp' = NoOut
  /\ \E w \in Slot : orJob[w].at = "idle" /\ Moves(w, Running(orDisp))
  /\ UNCHANGED <<orMined, orTxo, orLog, orMain, orQueue, processed, failed, orYoung, orLeft>>

TakeFailed ==
  /\ orDisp = NoOut /\ failed # <<>>
  /\ failed' = Tail(failed) /\ processed' = processed \ {Head(failed)}
  /\ UNCHANGED <<orMined, orTxo, orLog, orMain, orQueue, orDisp, orJob, orYoung, orLeft>>

\* Mutant: what one round processed is not processed in the next.
SearchKeepsProcessed ==
  /\ orMain.at = "search" /\ orLog # {}
  /\ orMain' = [at |-> "push", todo |-> {TxOf[o] : o \in orLog}]
  /\ UNCHANGED <<orMined, orTxo, orLog, orQueue, orDisp, processed, failed, orJob,
                 orYoung, orLeft>>

\* A round begins; without entries main sleeps and looks again.
Search ==
  /\ orMain.at = "search" /\ orLog # {}
  /\ orMain' = [at |-> "push", todo |-> {TxOf[o] : o \in orLog}]
  /\ processed' = {}
  /\ UNCHANGED <<orMined, orTxo, orLog, orQueue, orDisp, failed, orJob, orYoung, orLeft>>

Push ==
  /\ orMain.at = "push"
  /\ \E t \in orMain.todo :
       orMain' = [orMain EXCEPT !.todo = @ \ {t}] /\ orQueue' = Append(orQueue, t)
  /\ UNCHANGED <<orMined, orTxo, orLog, orDisp, processed, failed, orJob, orYoung, orLeft>>

Wait ==
  /\ orMain.at = "push" /\ orMain.todo = {} /\ wg = 0
  /\ orMain' = MainStart
  /\ UNCHANGED <<orMined, orTxo, orLog, orQueue, orDisp, processed, failed, orJob,
                 orYoung, orLeft>>

\* The process ends, by an error of the store or from outside, and starts again.
OrRestart ==
  /\ OrUse("restart")
  /\ orMain' = MainStart /\ orQueue' = <<>> /\ orDisp' = NoOut
  /\ processed' = {} /\ failed' = <<>>
  /\ orJob' = [w \in DOMAIN orJob |-> IF w \in Slot THEN JobIdle ELSE orJob[w]]
  /\ UNCHANGED <<orMined, orTxo, orLog, orYoung>>

\* The queue processor takes a transaction.
Other ==
  /\ OrUse("other")
  /\ \E w \in Outside, t \in OrTx \ OldTx : orJob[w].at = "idle" /\ Moves(w, Running(t))
  /\ UNCHANGED <<orMined, orTxo, orLog, orProcess, orYoung>>

JobStep(w) ==
  \/ LoadTx(w) \/ ReadSpend(w) \/ LoadParent(w) \/ Save(w)
  \/ QueueParents(w) \/ Delog(w) \/ ReportFailed(w)

OrNext ==
  \/ OrMine \/ Other \/ OrRestart
  \/ \E w \in Slot \cup Outside : LoadTx(w) \/ ReadSpend(w) \/ LoadParent(w) \/ LoadFails(w)
                                    \/ Save(w)
  \/ \E w \in Slot : QueueParents(w) \/ Delog(w) \/ ReportFailed(w)
  \/ Take \/ Spawn \/ TakeFailed \/ Search \/ Push \/ Wait

\* The goroutines run; a select takes each ready case sometime.
OrFairness ==
  /\ \A w \in Slot \cup Outside : WF_orVars(JobStep(w))
  /\ SF_orVars(Take) /\ SF_orVars(TakeFailed)
  /\ WF_orVars(Spawn) /\ WF_orVars(Search) /\ WF_orVars(Push) /\ WF_orVars(Wait)

OrSpec == OrInit /\ [][OrNext]_orVars /\ OrFairness

(***************************************************************************)
(* Properties.                                                             *)
(***************************************************************************)

Carrier(o) == {InsOf[TxOf[o]][i] : i \in Carriers[o][Len(InsOf[TxOf[o]])]}

Ancestor(o) == {p \in Carrier(o) : Sats[p] = 1 /\ TxOf[p] \notin OldTx}

\* Lineage[o]: the outputs that held the satoshi of o since TRIGGER, and o; the
\* smallest set with o that holds the ancestor of each of its members.
Lineage == [o \in OrOut |->
  {p \in OrOut : \A S \in SUBSET OrOut :
                   o \in S /\ (\A q \in S : Ancestor(q) \subseteq S) => p \in S}]
TrueOrigin(o) ==
  CHOOSE a \in Lineage[o] : \A p \in Carrier(a) : p \notin Lineage[o]

\* origin.go:71: an origin that is stored is the right one, or that of an output
\* in its line whose parent was still in the mempool when it was parsed: with
\* height 0 the parent counts as older than TRIGGER and its child as an origin.
\* Nothing parses the child again when the parent is mined.
OriginTrue ==
  \A o \in OrOut :
    orTxo[o].origin \notin {NoOut, TrueOrigin(o)} => orTxo[o].origin \in Lineage[o] \cap orYoung

\* The dispatcher waits for a slot, and all slots for the dispatcher.
Stuck ==
  /\ orDisp # NoOut /\ Len(failed) = FailedCap
  /\ \A w \in Slot : orJob[w].at = "failing"

Resolvable == {o \in OrOut : Carrier(o) # {}}

\* cmd/origin/origin.go:46-98: an output leaves the log of unresolved origins,
\* whatever fails, restarts or is saved meanwhile, if it has a carrier; unless so
\* many fail that the buffer of failed is full while the dispatcher waits for a
\* slot of one of them, which ends all progress.
EveryEntryLeaves ==
  \A o \in Resolvable : o \in orLog ~> o \notin orLog \/ Stuck
=============================================================================
