------------------------------ MODULE TxoStore ------------------------------
(***************************************************************************)
(* The index of outputs in the three stores (idx/redis-store,              *)
(* idx/pg-store, idx/sqlite-store), at the grain of the commands and       *)
(* statements each of them sends.                                          *)
(*                                                                         *)
(* Ingesting a transaction (IndexContext.ParseSpends, SaveTxos,            *)
(* SaveSpends) and rolling one back are sequences of such writes.  Several *)
(* run at a time, of one transaction or of several: queue workers, audits, *)
(* callbacks and requests all call the store directly, and any of them may *)
(* stop half way (an error, a panic, a crash).                             *)
(***************************************************************************)
EXTENDS Naturals, Sequences, FiniteSets

CONSTANTS
  Tx,         \* transactions
  Out,        \* outputs
  None,       \* no transaction
  TxOf,       \* TxOf[o]: the transaction that creates an output
  Ins,        \* Ins[t]: the outputs a transaction spends; {} for a coinbase
  Worker,     \* operations that run at the same time
  Backends,   \* the stores explored
  MaxOps      \* bound: operations begun

ASSUME NoneAssumption == None \notin Tx
ASSUME TxOfType == TxOf \in [Out -> Tx]
ASSUME InsType == Ins \in [Tx -> SUBSET Out]
ASSUME BackendsType == Backends \subseteq {"redis", "pg", "sqlite"}
ASSUME MaxOpsType == MaxOps \in Nat

VARIABLES
  backend,  \* the store of this deployment, never written
  index,    \* pairs <<field, output>>: what is stored of each output
  spend,    \* the transaction marked as spending an output
  txi,      \* Redis: the inputs a transaction was saved with (txi:<txid>)
  hist,     \* pairs <<output, tx>>: tx is in the log of the output's owner
  op,       \* what each worker is doing
  late,     \* ghost: marks set by others during a rollback: <<worker, output>>
  last,     \* ghost: how the last operations on a transaction ended
  ops       \* bound: operations begun

storeVars == <<index, spend, txi, hist>>
vars == <<backend, index, spend, txi, hist, op, late, last, ops>>

\* What is stored of an output: its record, the data of its indexers, and its
\* entries in the logs of tags and events and in the log of its owner.
Field == {"txo", "data", "tag", "own"}

\* A command or statement: what it does, to which fields of which outputs.
Write == [act : {"put", "drop", "mark", "free", "txi", "hist"},
          f : SUBSET Field, o : SUBSET Out]
Put(f, o) == [act |-> "put", f |-> f, o |-> o]
Drop(f, o) == [act |-> "drop", f |-> f, o |-> o]
OnInputs(act, o) == [act |-> act, f |-> {}, o |-> o]

Places == {"idle", "parse", "anc", "save", "scan", "look", "drop"}

\* at: the stage; ins, outs: what it has left to go through; known: the inputs
\* whose owners were loaded (a save), or the members of txi (a rollback);
\* anc: the parent that is being saved; todo: the writes under way.
Op == [kind : {"idle", "save", "roll"}, at : Places, tx : Tx \cup {None},
       anc : Tx \cup {None}, ins : SUBSET Out, outs : SUBSET Out,
       known : SUBSET Out, todo : Seq(Write)]

Idle == [kind |-> "idle", at |-> "idle", tx |-> None, anc |-> None,
         ins |-> {}, outs |-> {}, known |-> {}, todo |-> <<>>]

\* "busy": one kind of operation runs; "saved", "rolled": it completed; "none":
\* new, or left half done; "mixed": saves and rollbacks overlapped, until a save
\* that began alone ("mending") has completed.
Outcome == {"none", "busy", "saved", "rolled", "mixed", "mending"}
Unordered == {"mixed", "mending"}

TypeOK ==
  /\ backend \in Backends
  /\ index \subseteq Field \X Out
  /\ spend \in [Out -> Tx \cup {None}]
  /\ txi \in [Tx -> SUBSET Out]
  /\ hist \subseteq Out \X Tx
  /\ op \in [Worker -> Op]
  /\ late \subseteq Worker \X Out
  /\ last \in [Tx -> Outcome]
  /\ ops \in 0..MaxOps

Outs(t) == {o \in Out : TxOf[o] = t}

Init ==
  /\ backend \in Backends
  /\ index = {}
  /\ spend = [o \in Out |-> None]
  /\ txi = [t \in Tx |-> {}]
  /\ hist = {}
  /\ op = [w \in Worker |-> Idle]
  /\ late = {}
  /\ last = [t \in Tx |-> "none"]
  /\ ops = 0

NewOp == ops < MaxOps /\ ops' = ops + 1

Saves(w, t) == op[w].kind = "save" /\ (op[w].tx = t \/ op[w].anc = t)
Rolls(w, t) == op[w].kind = "roll" /\ op[w].tx = t
Running(w, kind, at) == op[w].kind = kind /\ op[w].at = at /\ op[w].todo = <<>>

\* t marks the outputs in marked while other transactions are rolled back.
Overtakes(t, marked) ==
  {x \in Worker \X marked : op[x[1]].kind = "roll" /\ op[x[1]].tx # t}

Ended(w, result) ==
  LET t == op[w].tx IN
  last' = CASE last[t] = "busy" -> [last EXCEPT ![t] = result]
            [] last[t] = "mending" ->
                 [last EXCEPT ![t] = IF result = "saved" THEN result ELSE "mixed"]
            [] OTHER -> last

----------------------------------------------------------------------------
(* The writes an operation sends. *)

\* Mutant: log entries are written before the record they point to.
SaveTxoLogsFirst(o) == << Put({"tag", "own"}, {o}), Put({"txo"}, {o}), Put({"data"}, {o}) >>

\* Mutant: the entries of tags and events are forgotten.
SaveTxoOwnOnly(o) == << Put({"txo"}, {o}), Put({"own"}, {o}), Put({"data"}, {o}) >>

\* saveTxo: Redis pipelines its commands, outside a transaction ...
SaveTxoRedis(o) ==
  << Put({"txo"}, {o}), Put({"data"}, {o}), Put({"tag"}, {o}), Put({"own"}, {o}) >>

\* ... Postgres has a statement each for the record, the log entries, the data.
SaveTxoPG(o) == << Put({"txo"}, {o}), Put({"tag", "own"}, {o}), Put({"data"}, {o}) >>

\* SaveTxos of SQLite is one database transaction for all outputs.
SaveTxosSQLite(os) == << Put(Field, os) >>

\* Mutant: the arguments of the spends are swapped.
SaveSpendsSwapped(t, known) == << OnInputs("mark", {t}), OnInputs("hist", known) >>

\* SaveSpends of Redis and Postgres, for all inputs together; the entries in
\* the logs of the owners are one write.
SaveSpendsRedis(t, known) ==
  << OnInputs("mark", Ins[t]), OnInputs("txi", Ins[t]), OnInputs("hist", known) >>

SaveSpendsPG(t, known) == << OnInputs("mark", Ins[t]), OnInputs("hist", known) >>

\* SaveSpends of SQLite goes input by input.
SaveSpendSQLite(i, known) ==
  (IF i \in known THEN << OnInputs("hist", {i}) >> ELSE <<>>)
    \o << OnInputs("mark", {i}) >>

\* Mutant: the record is kept.
RollbackTxoKeepsRecord(o) == << Drop({"own"}, {o}), Drop({"data"}, {o}) >>

\* RollbackTxo of Redis.  Its loop over txo.Data would remove the entries of
\* tags and events, but Rollback loads the outputs without any tags.
RollbackTxo(o) == << Drop({"own"}, {o}), Drop({"txo"}, {o}), Drop({"data"}, {o}) >>

\* The marks Rollback of Redis deletes: those that were the transaction's own
\* when it read them.
OwnMarks(w) == {i \in op[w].known : spend[i] = op[w].tx}

\* The store carries out the first write a worker has to send.
Exec(w) ==
  /\ op[w].todo # <<>>
  /\ LET x == Head(op[w].todo)
         t == op[w].tx
     IN /\ index' = CASE x.act = "put" -> index \cup (x.f \X x.o)
                      [] x.act = "drop" -> index \ (x.f \X x.o)
                      [] OTHER -> index
        /\ spend' = CASE x.act = "mark" -> [o \in Out |-> IF o \in x.o THEN t ELSE spend[o]]
                      [] x.act = "free" -> [o \in Out |-> IF o \in x.o THEN None ELSE spend[o]]
                      [] OTHER -> spend
        /\ txi' = IF x.act = "txi" THEN [txi EXCEPT ![t] = @ \cup x.o] ELSE txi
        /\ late' = IF x.act = "mark" THEN late \cup Overtakes(t, x.o) ELSE late
        /\ hist' = IF x.act = "hist" THEN hist \cup (x.o \X {t}) ELSE hist
  /\ op' = [op EXCEPT ![w].todo = Tail(@)]
  /\ UNCHANGED <<backend, last, ops>>

----------------------------------------------------------------------------
(* Ingesting a transaction: ParseSpends, SaveTxos, SaveSpends. *)

\* When every input is loaded, the outputs are saved and then the spends.
Parsed(r) ==
  IF r.ins # {} THEN [r EXCEPT !.at = "parse"]
  ELSE [r EXCEPT !.at = "save", !.outs = Outs(r.tx), !.ins = Ins[r.tx]]

BeginSave(w, t) ==
  /\ op[w] = Idle
  /\ NewOp
  /\ op' = [op EXCEPT ![w] = Parsed([Idle EXCEPT !.kind = "save", !.tx = t,
                                                 !.ins = Ins[t]])]
  /\ last' = [last EXCEPT ![t] =
                 IF \E v \in Worker : Rolls(v, t) THEN "mixed"
                 ELSE IF @ \notin Unordered THEN "busy"
                 ELSE IF \E v \in Worker : Saves(v, t) THEN @ ELSE "mending"]
  /\ UNCHANGED <<backend, storeVars, late>>

\* LoadTxo of SQLite does not read the owners.
OwnersOf(i) == IF backend = "sqlite" THEN {} ELSE {i}

\* LoadTxo finds the input.
LoadStored(w) ==
  /\ Running(w, "save", "parse")
  /\ \E i \in op[w].ins :
       /\ <<"txo", i>> \in index
       /\ op' = [op EXCEPT ![w] = Parsed([op[w] EXCEPT
                    !.ins = @ \ {i},
                    !.known = @ \cup OwnersOf(i)])]
  /\ UNCHANGED <<backend, storeVars, late, last, ops>>

\* It does not: the input is taken as it is, or from its parent, parsed now.
LoadMissing(w) ==
  /\ Running(w, "save", "parse")
  /\ \E i \in op[w].ins :
       /\ <<"txo", i>> \notin index
       /\ \E parsed \in SUBSET {i} :
            op' = [op EXCEPT ![w] = Parsed([op[w] EXCEPT !.ins = @ \ {i},
                                                         !.known = @ \cup parsed])]
  /\ UNCHANGED <<backend, storeVars, late, last, ops>>

\* With AncestorConfig.Save the outputs of the parent are saved as well.
LoadAndSaveParent(w) ==
  /\ Running(w, "save", "parse")
  /\ \E i \in op[w].ins :
       LET p == TxOf[i] IN
       /\ <<"txo", i>> \notin index
       /\ op' = [op EXCEPT ![w].ins = @ \ {i}, ![w].known = @ \cup {i},
                           ![w].at = "anc", ![w].anc = p, ![w].outs = Outs(p)]
       /\ last' = [last EXCEPT ![p] = IF \E v \in Worker : Rolls(v, p) THEN "mixed"
                                      ELSE IF @ = "rolled" THEN "none" ELSE @]
  /\ UNCHANGED <<backend, storeVars, late, ops>>

ParentSaved(w) ==
  /\ Running(w, "save", "anc")
  /\ op[w].outs = {}
  /\ op' = [op EXCEPT ![w] = Parsed([@ EXCEPT !.anc = None])]
  /\ UNCHANGED <<backend, storeVars, late, last, ops>>

\* SaveTxos: output by output, or in one database transaction in SQLite.
SaveTxos(w) ==
  /\ Running(w, "save", "save") \/ Running(w, "save", "anc")
  /\ IF backend = "sqlite"
     THEN /\ op[w].outs # {}
          /\ op' = [op EXCEPT ![w].outs = {}, ![w].todo = SaveTxosSQLite(op[w].outs)]
     ELSE \E o \in op[w].outs :
            op' = [op EXCEPT ![w].outs = @ \ {o},
                             ![w].todo = IF backend = "redis" THEN SaveTxoRedis(o)
                                         ELSE SaveTxoPG(o)]
  /\ UNCHANGED <<backend, storeVars, late, last, ops>>

SaveSpends(w) ==
  /\ Running(w, "save", "save")
  /\ op[w].outs = {}
  /\ IF backend = "sqlite"
     THEN \E i \in op[w].ins :
            op' = [op EXCEPT ![w].ins = @ \ {i},
                             ![w].todo = SaveSpendSQLite(i, op[w].known)]
     ELSE /\ op[w].ins # {}
          /\ op' = [op EXCEPT ![w].ins = {},
                              ![w].todo = IF backend = "redis"
                                          THEN SaveSpendsRedis(op[w].tx, op[w].known)
                                          ELSE SaveSpendsPG(op[w].tx, op[w].known)]
  /\ UNCHANGED <<backend, storeVars, late, last, ops>>

\* Redis refuses an HMSET without fields: saving a coinbase ends in a panic,
\* which is an Abort.
EndSave(w) ==
  /\ Running(w, "save", "save")
  /\ op[w].outs = {}
  /\ op[w].ins = {}
  /\ backend # "redis" \/ Ins[op[w].tx] # {}
  /\ op' = [op EXCEPT ![w] = Idle]
  /\ Ended(w, "saved")
  /\ UNCHANGED <<backend, storeVars, late, ops>>

----------------------------------------------------------------------------
(* Rollback. *)

RollEnds(t, result) ==
  last' = [last EXCEPT ![t] = IF @ \in Unordered \/ \E v \in Worker : Saves(v, t)
                              THEN "mixed" ELSE result]

\* Redis reads txi, the outputs and the marks one after the other, then
\* deletes the marks, then the outputs.
BeginRollback(w, t) ==
  /\ backend = "redis"
  /\ op[w] = Idle
  /\ NewOp
  /\ op' = [op EXCEPT ![w] = [Idle EXCEPT !.kind = "roll", !.at = "scan",
                                          !.tx = t, !.known = txi[t]]]
  /\ late' = {x \in late : x[1] # w}
  /\ RollEnds(t, "busy")
  /\ UNCHANGED <<backend, storeVars>>

ScanOutputs(w) ==
  /\ Running(w, "roll", "scan")
  /\ op' = [op EXCEPT ![w].at = "look",
                      ![w].outs = {o \in Outs(op[w].tx) : <<"txo", o>> \in index}]
  /\ UNCHANGED <<backend, storeVars, late, last, ops>>

\* An HMGET without fields is an error: a transaction whose spends were never
\* saved cannot be rolled back, which is an Abort.
LookAtMarks(w) ==
  /\ Running(w, "roll", "look")
  /\ op[w].known # {}
  /\ op' = [op EXCEPT ![w].at = "drop",
                      ![w].todo = IF OwnMarks(w) = {} THEN <<>>
                                  ELSE << OnInputs("free", OwnMarks(w)) >>]
  /\ UNCHANGED <<backend, storeVars, late, last, ops>>

DropOutput(w) ==
  /\ Running(w, "roll", "drop")
  /\ \E o \in op[w].outs :
       op' = [op EXCEPT ![w].outs = @ \ {o}, ![w].todo = RollbackTxo(o)]
  /\ UNCHANGED <<backend, storeVars, late, last, ops>>

EndRollback(w) ==
  /\ Running(w, "roll", "drop")
  /\ op[w].outs = {}
  /\ op' = [op EXCEPT ![w] = Idle]
  /\ Ended(w, "rolled")
  /\ UNCHANGED <<backend, storeVars, late, ops>>

\* Mutant: a rollback clears the marks on its inputs, whoever holds them.
ClearsInputs(t) == {o \in Out : TxOf[o] = t \/ o \in Ins[t]}

\* In SQL one database transaction clears the marks of the transaction and
\* deletes its logs and its outputs, with whatever marks its outputs carry.
ClearedBy(t) == {o \in Out : TxOf[o] = t \/ spend[o] = t}

RollbackRows(t) ==
  /\ NewOp
  /\ index' = {x \in index : TxOf[x[2]] # t}
  /\ spend' = [o \in Out |-> IF o \in ClearedBy(t) THEN None ELSE spend[o]]
  /\ hist' = {x \in hist : x[2] # t}
  /\ RollEnds(t, "rolled")
  /\ UNCHANGED <<backend, txi, op, late>>

RollbackPG(t) == backend = "pg" /\ RollbackRows(t)
RollbackSQLite(t) == backend = "sqlite" /\ RollbackRows(t)

----------------------------------------------------------------------------
\* SetNewSpend, called by a broadcast of t, or by GetSpends with refresh when
\* JungleBus names t.
MarkNew(t, o) ==
  /\ NewOp
  /\ o \in Ins[t]
  /\ spend' = [spend EXCEPT ![o] = t]
  /\ late' = late \cup Overtakes(t, {o})
  /\ last' = [last EXCEPT ![t] = IF \E v \in Worker : Rolls(v, t) THEN "mixed"
                                 ELSE IF @ = "rolled" THEN "none" ELSE @]
  /\ UNCHANGED <<backend, index, txi, hist, op>>

SetNewSpend(t, o) == backend # "sqlite" /\ spend[o] = None /\ MarkNew(t, o)

\* SQLite overwrites the mark it finds.
SetNewSpendSQLite(t, o) == backend = "sqlite" /\ MarkNew(t, o)

\* An error of the store or of the loader, a panic or a crash: what was
\* written stays.
Abort(w) ==
  /\ op[w] # Idle
  /\ op' = [op EXCEPT ![w] = Idle]
  /\ Ended(w, "none")
  /\ UNCHANGED <<backend, storeVars, late, ops>>

Work(w) ==
  \/ \E t \in Tx : BeginSave(w, t) \/ BeginRollback(w, t)
  \/ Exec(w)
  \/ LoadStored(w) \/ LoadMissing(w) \/ LoadAndSaveParent(w) \/ ParentSaved(w)
  \/ SaveTxos(w) \/ SaveSpends(w) \/ EndSave(w)
  \/ ScanOutputs(w) \/ LookAtMarks(w) \/ DropOutput(w) \/ EndRollback(w)
  \/ Abort(w)

Next ==
  \/ \E w \in Worker : Work(w)
  \/ \E t \in Tx :
       \/ RollbackPG(t) \/ RollbackSQLite(t)
       \/ \E o \in Out : SetNewSpend(t, o) \/ SetNewSpendSQLite(t, o)

Spec == Init /\ [][Next]_vars

----------------------------------------------------------------------------
(* Properties. *)

\* A transaction whose rollback completed leaves no output that a search by
\* owner or a parse would find, and no output spent by it, whatever half-done
\* saves came before.  On Redis its entries in the logs of tags and events, and in
\* the logs of owners it paid from, remain, and data if two rollbacks overlapped.
RolledLeavesNothing ==
  \A t \in Tx : last[t] = "rolled" =>
    /\ \A o \in Out : spend[o] # t
    /\ \A o \in Outs(t), f \in Field :
         <<f, o>> \in index => backend = "redis" /\ f \in {"tag", "data"}
    /\ \A o \in Out : <<o, t>> \in hist => backend = "redis"

\* A transaction whose save completed is wholly stored: record, data and every
\* log entry of each of its outputs, even when other operations save the same
\* outputs, as their parent, or died while they did.
SavedIsWhole ==
  \A t \in Tx : last[t] = "saved" => Field \X Outs(t) \subseteq index

\* What a search by owner finds can be loaded, at every step of every
\* operation, unless a save and a rollback of the transaction overlapped; on
\* the SQL stores this is so for tags and events too.
EntriesResolve ==
  \A o \in Out :
    (last[TxOf[o]] \notin Unordered \/ backend = "sqlite") =>
      \A f \in (IF backend = "redis" THEN {"own"} ELSE {"own", "tag"}) :
        <<f, o>> \in index => <<"txo", o>> \in index

\* The mark of a saved transaction on one of its inputs changes hands only to
\* a transaction that spends the same output.  It disappears only with the
\* input itself when its parent is rolled back (SQL), or in the rollback of a
\* conflicting transaction during which it was set (Redis).
MarksChangeHands ==
  [][\A t \in Tx : \A i \in Ins[t] :
       (last[t] = "saved" /\ last'[t] = "saved" /\ spend[i] = t /\ spend'[i] # t) =>
         IF spend'[i] # None THEN i \in Ins[spend'[i]]
         ELSE IF backend = "redis"
              THEN \E w \in Worker : /\ op[w].kind = "roll" /\ op[w].tx # t
                                     /\ i \in Ins[op[w].tx] /\ <<w, i>> \in late
              ELSE last'[TxOf[i]] \in {"rolled"} \cup Unordered]_vars

\* server/routes/own/ctrl.go:32 "Filter for unspent outputs only": an output
\* that a search shows as unspent is not spent by a transaction in the index.
UnspentIsUnspent ==
  \A t \in Tx : \A i \in Ins[t] :
    (last[t] = "saved" /\ last[TxOf[i]] = "saved") => spend[i] # None
=============================================================================
