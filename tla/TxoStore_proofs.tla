--------------------------- MODULE TxoStore_proofs ---------------------------
(***************************************************************************)
(* Proofs about TxoStore, for every set of transactions, outputs, workers  *)
(* and stores: types, who may take the mark of a saved transaction, and    *)
(* what is stored of an output while operations write and drop it.         *)
(***************************************************************************)
EXTENDS TxoStore, TLAPS

(***************************************************************************)
(* The writes of a save mark only the inputs of its transaction, and those *)
(* of a rollback only free marks and drop entries.                         *)
(***************************************************************************)
SaveWrite(t) ==
  {x \in Write : /\ x.act \in {"put", "mark", "txi", "hist"}
                 /\ x.act \in {"mark", "txi"} => x.o \subseteq Ins[t]}
RollWrite(t) ==
  {x \in Write : /\ x.act \in {"free", "drop"}
                 /\ x.act = "free" => x.o \subseteq Ins[t]}

OpOK(r) ==
  /\ r \in Op
  /\ r.kind = "idle" => r.todo = <<>>
  /\ r.kind # "idle" => r.tx \in Tx
  /\ r.kind = "save" => r.ins \subseteq Ins[r.tx] /\ r.todo \in Seq(SaveWrite(r.tx))
  /\ r.kind = "roll" => r.known \subseteq Ins[r.tx] /\ r.todo \in Seq(RollWrite(r.tx))

Shape ==
  /\ \A w \in Worker : OpOK(op[w])
  /\ \A t \in Tx : txi[t] \subseteq Ins[t]
  /\ backend # "redis" => \A w \in Worker : op[w].kind # "roll"

LEMMA Writes ==
  ASSUME NEW f \in SUBSET Field, NEW o \in SUBSET Out
  PROVE  /\ Put(f, o) \in Write /\ Drop(f, o) \in Write
         /\ \A a \in {"mark", "free", "txi", "hist"} : OnInputs(a, o) \in Write
  BY DEF Put, Drop, OnInputs, Write, Field

\* The writes of an output, whatever the store.
LEMMA OutputWrites ==
  ASSUME NEW o \in Out, NEW t \in Tx
  PROVE  /\ SaveTxoRedis(o) \in Seq(SaveWrite(t))
         /\ SaveTxoPG(o) \in Seq(SaveWrite(t))
         /\ RollbackTxo(o) \in Seq(RollWrite(t))
<1>1. \A f \in SUBSET Field : Put(f, {o}) \in SaveWrite(t) /\ Drop(f, {o}) \in RollWrite(t)
  <2> TAKE f \in SUBSET Field
  <2>1. Put(f, {o}) \in Write /\ Drop(f, {o}) \in Write
    BY Writes
  <2> QED BY <2>1 DEF Put, Drop, SaveWrite, RollWrite
<1>2. /\ {"txo"} \in SUBSET Field /\ {"data"} \in SUBSET Field
      /\ {"tag"} \in SUBSET Field /\ {"own"} \in SUBSET Field
      /\ {"tag", "own"} \in SUBSET Field
  BY DEF Field
<1>3. SaveTxoRedis(o) \in Seq(SaveWrite(t))
  <2>1. /\ Put({"txo"}, {o}) \in SaveWrite(t) /\ Put({"data"}, {o}) \in SaveWrite(t)
        /\ Put({"tag"}, {o}) \in SaveWrite(t) /\ Put({"own"}, {o}) \in SaveWrite(t)
    BY <1>1, <1>2
  <2> QED BY <2>1 DEF SaveTxoRedis
<1>4. SaveTxoPG(o) \in Seq(SaveWrite(t))
  <2>1. /\ Put({"txo"}, {o}) \in SaveWrite(t) /\ Put({"data"}, {o}) \in SaveWrite(t)
        /\ Put({"tag", "own"}, {o}) \in SaveWrite(t)
    BY <1>1, <1>2
  <2> QED BY <2>1 DEF SaveTxoPG
<1>5. RollbackTxo(o) \in Seq(RollWrite(t))
  <2>1. /\ Drop({"txo"}, {o}) \in RollWrite(t) /\ Drop({"data"}, {o}) \in RollWrite(t)
        /\ Drop({"own"}, {o}) \in RollWrite(t)
    BY <1>1, <1>2
  <2> QED BY <2>1 DEF RollbackTxo
<1> QED BY <1>3, <1>4, <1>5

\* The writes of the spends, whatever the store.
LEMMA SpendWrites ==
  ASSUME NEW t \in Tx, NEW known \in SUBSET Out
  PROVE  /\ SaveSpendsRedis(t, known) \in Seq(SaveWrite(t))
         /\ SaveSpendsPG(t, known) \in Seq(SaveWrite(t))
         /\ \A i \in Ins[t] : SaveSpendSQLite(i, known) \in Seq(SaveWrite(t))
<1>1. Ins[t] \in SUBSET Out
  BY InsType
<1>2. /\ OnInputs("mark", Ins[t]) \in SaveWrite(t) /\ OnInputs("txi", Ins[t]) \in SaveWrite(t)
      /\ OnInputs("hist", known) \in SaveWrite(t)
  <2>1. /\ OnInputs("mark", Ins[t]) \in Write /\ OnInputs("txi", Ins[t]) \in Write
        /\ OnInputs("hist", known) \in Write
    BY <1>1, Writes
  <2> QED BY <2>1 DEF OnInputs, SaveWrite
<1>3. SaveSpendsRedis(t, known) \in Seq(SaveWrite(t)) /\ SaveSpendsPG(t, known) \in Seq(SaveWrite(t))
  BY <1>2 DEF SaveSpendsRedis, SaveSpendsPG
<1>4. ASSUME NEW i \in Ins[t] PROVE SaveSpendSQLite(i, known) \in Seq(SaveWrite(t))
  <2>1. {i} \in SUBSET Out /\ {i} \subseteq Ins[t]
    BY <1>1
  <2>2. OnInputs("mark", {i}) \in Write /\ OnInputs("hist", {i}) \in Write
    BY <2>1, Writes
  <2>3. OnInputs("mark", {i}) \in SaveWrite(t) /\ OnInputs("hist", {i}) \in SaveWrite(t)
    BY <2>1, <2>2 DEF OnInputs, SaveWrite
  <2>4. << OnInputs("mark", {i}) >> \in Seq(SaveWrite(t)) /\ << OnInputs("hist", {i}) >> \in Seq(SaveWrite(t))
    BY <2>3
  <2>5. <<>> \in Seq(SaveWrite(t))
    OBVIOUS
  <2>6. \A a, b \in Seq(SaveWrite(t)) : a \o b \in Seq(SaveWrite(t))
    OBVIOUS
  <2> QED BY <2>4, <2>5, <2>6 DEF SaveSpendSQLite
<1> QED BY <1>3, <1>4

----------------------------------------------------------------------------
(* Types and shapes. *)

\* One worker goes on to r.
LEMMA Move ==
  ASSUME TypeOK, Shape, NEW w \in Worker, NEW r, OpOK(r),
         op' = [op EXCEPT ![w] = r], backend' = backend,
         backend # "redis" => r.kind # "roll"
  PROVE  /\ op' \in [Worker -> Op]
         /\ \A v \in Worker : OpOK(op'[v])
         /\ backend' # "redis" => \A v \in Worker : op'[v].kind # "roll"
<1>1. r \in Op /\ op \in [Worker -> Op]
  BY DEF OpOK, TypeOK
<1>2. \A v \in Worker : op'[v] = (IF v = w THEN r ELSE op[v])
  BY <1>1
<1>3. \A v \in Worker : OpOK(op'[v])
  BY <1>2 DEF Shape
<1> QED BY <1>1, <1>2, <1>3 DEF Shape

LEMMA IdleOK == OpOK(Idle) /\ Idle.kind = "idle"
<1>1. None \in Tx \cup {None} /\ <<>> \in Seq(Write)
  OBVIOUS
<1>2. Idle \in Op
  BY <1>1 DEF Idle, Op, Places
<1> QED BY <1>2 DEF Idle, OpOK

LEMMA ParsedOK ==
  ASSUME NEW r, OpOK(r), r.kind = "save", r.todo = <<>>
  PROVE  OpOK(Parsed(r)) /\ Parsed(r).kind = "save" /\ Parsed(r).tx = r.tx
<1>1. r \in Op /\ r.tx \in Tx /\ r.ins \subseteq Ins[r.tx]
  BY DEF OpOK
<1>2. CASE r.ins # {}
  <2> DEFINE q == [r EXCEPT !.at = "parse"]
  <2>1. q \in Op /\ q.kind = "save" /\ q.tx = r.tx /\ q.ins = r.ins /\ q.todo = <<>>
    BY <1>1 DEF Op, Places
  <2>2. OpOK(q)
    BY <2>1, <1>1 DEF OpOK
  <2> QED BY <2>1, <2>2, <1>2 DEF Parsed
<1>3. CASE r.ins = {}
  <2> DEFINE q == [r EXCEPT !.at = "save", !.outs = Outs(r.tx), !.ins = Ins[r.tx]]
  <2>1. Ins[r.tx] \in SUBSET Out /\ Outs(r.tx) \in SUBSET Out
    BY <1>1, InsType DEF Outs
  <2>2. q \in Op /\ q.kind = "save" /\ q.tx = r.tx /\ q.tx = r.tx /\ q.ins = Ins[q.tx] /\ q.todo = <<>>
    BY <1>1, <2>1 DEF Op, Places
  <2>3. OpOK(q)
    BY <2>2, <1>1 DEF OpOK
  <2> QED BY <2>2, <2>3, <1>3 DEF Parsed
<1> QED BY <1>2, <1>3

\* An operation that has nothing left to send begins a list of writes.
Sending(r, a, i, o, s) == [r EXCEPT !.at = a, !.ins = i, !.outs = o, !.todo = s]

LEMMA SendOK ==
  ASSUME NEW r, OpOK(r), r.kind # "idle", NEW a \in Places,
         NEW i \in SUBSET Out, NEW o \in SUBSET Out, NEW s,
         r.kind = "save" => i \subseteq Ins[r.tx] /\ s \in Seq(SaveWrite(r.tx)),
         r.kind = "roll" => s \in Seq(RollWrite(r.tx))
  PROVE  /\ OpOK(Sending(r, a, i, o, s))
         /\ Sending(r, a, i, o, s).kind = r.kind /\ Sending(r, a, i, o, s).tx = r.tx
         /\ Sending(r, a, i, o, s).todo = s
<1> DEFINE q == Sending(r, a, i, o, s)
<1>1. r \in Op /\ r.kind \in {"save", "roll"}
  BY DEF OpOK, Op
<1>2. SaveWrite(r.tx) \subseteq Write /\ RollWrite(r.tx) \subseteq Write
  BY DEF SaveWrite, RollWrite
<1>3. \A S \in SUBSET Write : \A z \in Seq(S) : z \in Seq(Write)
  OBVIOUS
<1>4. s \in Seq(Write)
  BY <1>1, <1>2, <1>3
<1>5. q \in Op /\ q.kind = r.kind /\ q.tx = r.tx /\ q.ins = i /\ q.todo = s /\ q.known = r.known
  BY <1>1, <1>4 DEF Op, Sending
<1>6. OpOK(q)
  BY <1>1, <1>5 DEF OpOK
<1> QED BY <1>5, <1>6

Inv1 == TypeOK /\ Shape

\* A step of a save: whose it is, and what it leaves alone.
SaveStep(w, t) ==
  /\ UNCHANGED <<backend, storeVars, late>>
  /\ op' = [op EXCEPT ![w] = op'[w]]
  /\ \/ op'[w] = Idle
     \/ op'[w].kind = "save" /\ op[w].kind = "save" /\ op'[w].tx = op[w].tx
     \/ op'[w].kind = "save" /\ BeginSave(w, t) /\ op'[w].tx = t

\* The steps of a save keep the types and shapes.
LEMMA SaveTypes ==
  ASSUME Inv1, NEW w \in Worker, NEW t \in Tx,
         \/ BeginSave(w, t)
         \/ LoadStored(w) \/ LoadMissing(w) \/ LoadAndSaveParent(w) \/ ParentSaved(w)
         \/ SaveTxos(w) \/ SaveSpends(w) \/ EndSave(w)
  PROVE  Inv1' /\ SaveStep(w, t)
<1> USE DEF Inv1
<1>1. op[w] \in Op /\ OpOK(op[w])
  BY DEF TypeOK, Shape
<1>2. ASSUME NEW r, OpOK(r), op' = [op EXCEPT ![w] = r],
             \/ r = Idle
             \/ r.kind = "save" /\ op[w].kind = "save" /\ r.tx = op[w].tx
             \/ r.kind = "save" /\ BeginSave(w, t) /\ r.tx = t,
             UNCHANGED <<backend, storeVars, late>>, last' \in [Tx -> Outcome],
             ops' \in 0..MaxOps
      PROVE  Inv1' /\ SaveStep(w, t)
  <2>1. r.kind # "roll"
    BY <1>2, IdleOK
  <2>2. Inv1'
    BY <1>2, <2>1, Move DEF TypeOK, Shape, storeVars
  <2>3. op'[w] = r
    BY <1>2 DEF TypeOK
  <2> QED BY <1>2, <2>2, <2>3 DEF SaveStep
<1>3. ASSUME UNCHANGED last PROVE last' \in [Tx -> Outcome]
  BY <1>3 DEF TypeOK
<1>4. ASSUME UNCHANGED ops PROVE ops' \in 0..MaxOps
  BY <1>4 DEF TypeOK
<1>5. \A x \in Outcome : \A u \in Tx : [last EXCEPT ![u] = x] \in [Tx -> Outcome]
  BY DEF TypeOK
<1>6. CASE BeginSave(w, t)
  <2> DEFINE s == [Idle EXCEPT !.kind = "save", !.tx = t, !.ins = Ins[t]]
  <2>1. Ins[t] \in SUBSET Out
    BY InsType
  <2>2. s \in Op /\ s.kind = "save" /\ s.todo = <<>> /\ s.tx = t /\ s.ins = Ins[t]
    BY <2>1, IdleOK DEF OpOK, Op, Idle
  <2>3. OpOK(s)
    <3> HIDE DEF s
    <3> QED BY <2>2 DEF OpOK
  <2>4. OpOK(Parsed(s)) /\ Parsed(s).kind = "save" /\ Parsed(s).tx = s.tx
    BY <2>2, <2>3, ParsedOK
  <2>5. op' = [op EXCEPT ![w] = Parsed(s)]
    BY <1>6 DEF BeginSave
  <2>6. ops' \in 0..MaxOps
    BY <1>6, MaxOpsType DEF BeginSave, NewOp, TypeOK
  <2>7. last' \in [Tx -> Outcome]
    BY <1>6 DEF BeginSave, TypeOK, Outcome
  <2> HIDE DEF s
  <2> QED BY <1>6, <2>2, <2>4, <2>5, <2>6, <2>7, <1>2 DEF BeginSave
<1>7. CASE LoadStored(w)
  <2>1. PICK i \in op[w].ins :
          op' = [op EXCEPT ![w] = Parsed([op[w] EXCEPT !.ins = @ \ {i}, !.known = @ \cup OwnersOf(i)])]
    BY <1>7 DEF LoadStored
  <2> DEFINE s == [op[w] EXCEPT !.ins = @ \ {i}, !.known = @ \cup OwnersOf(i)]
  <2>2. i \in Out /\ OwnersOf(i) \subseteq Out
    BY <1>1 DEF Op, OwnersOf
  <2>3. op[w].kind = "save" /\ op[w].todo = <<>>
    BY <1>7 DEF LoadStored, Running
  <2>4. s \in Op /\ s.kind = "save" /\ s.todo = <<>> /\ s.tx = op[w].tx /\ s.ins \subseteq op[w].ins
    BY <1>1, <2>2, <2>3 DEF Op
  <2>5. OpOK(s)
    BY <1>1, <2>3, <2>4 DEF OpOK
  <2>6. OpOK(Parsed(s)) /\ Parsed(s).kind = "save" /\ Parsed(s).tx = s.tx
    BY <2>4, <2>5, ParsedOK
  <2>7. op' = [op EXCEPT ![w] = Parsed(s)]
    BY <2>1 DEF TypeOK
  <2> HIDE DEF s
  <2> QED BY <1>7, <2>3, <2>4, <2>6, <2>7, <1>2, <1>3, <1>4 DEF LoadStored
<1>8. CASE LoadMissing(w)
  <2>i. PICK i \in op[w].ins : \E parsed \in SUBSET {i} :
          op' = [op EXCEPT ![w] = Parsed([op[w] EXCEPT !.ins = @ \ {i}, !.known = @ \cup parsed])]
    BY <1>8 DEF LoadMissing
  <2>1. PICK parsed \in SUBSET {i} :
          op' = [op EXCEPT ![w] = Parsed([op[w] EXCEPT !.ins = @ \ {i}, !.known = @ \cup parsed])]
    BY <2>i
  <2> DEFINE s == [op[w] EXCEPT !.ins = @ \ {i}, !.known = @ \cup parsed]
  <2>2. i \in Out /\ parsed \subseteq Out
    BY <1>1, <2>1 DEF Op
  <2>3. op[w].kind = "save" /\ op[w].todo = <<>>
    BY <1>8 DEF LoadMissing, Running
  <2>4. s \in Op /\ s.kind = "save" /\ s.todo = <<>> /\ s.tx = op[w].tx /\ s.ins \subseteq op[w].ins
    BY <1>1, <2>2, <2>3 DEF Op
  <2>5. OpOK(s)
    BY <1>1, <2>3, <2>4 DEF OpOK
  <2>6. OpOK(Parsed(s)) /\ Parsed(s).kind = "save" /\ Parsed(s).tx = s.tx
    BY <2>4, <2>5, ParsedOK
  <2>7. op' = [op EXCEPT ![w] = Parsed(s)]
    BY <2>1 DEF TypeOK
  <2> HIDE DEF s
  <2> QED BY <1>8, <2>3, <2>4, <2>6, <2>7, <1>2, <1>3, <1>4 DEF LoadMissing
<1>9. CASE LoadAndSaveParent(w)
  <2>1. PICK i \in op[w].ins : LET p == TxOf[i] IN
          /\ op' = [op EXCEPT ![w].ins = @ \ {i}, ![w].known = @ \cup {i},
                              ![w].at = "anc", ![w].anc = p, ![w].outs = Outs(p)]
          /\ last' = [last EXCEPT ![p] = IF \E v \in Worker : Rolls(v, p) THEN "mixed"
                                         ELSE IF @ = "rolled" THEN "none" ELSE @]
    BY <1>9 DEF LoadAndSaveParent
  <2> DEFINE p == TxOf[i]
             s == [op[w] EXCEPT !.ins = @ \ {i}, !.known = @ \cup {i},
                                !.at = "anc", !.anc = p, !.outs = Outs(p)]
  <2>2. i \in Out /\ p \in Tx /\ Outs(p) \subseteq Out
    BY <1>1, TxOfType DEF Op, Outs
  <2>3. op[w].kind = "save" /\ op[w].todo = <<>>
    BY <1>9 DEF LoadAndSaveParent, Running
  <2>4. s \in Op /\ s.kind = "save" /\ s.todo = <<>> /\ s.tx = op[w].tx /\ s.ins \subseteq op[w].ins
    BY <1>1, <2>2, <2>3 DEF Op, Places
  <2>5. OpOK(s)
    BY <1>1, <2>3, <2>4 DEF OpOK
  <2>6. op' = [op EXCEPT ![w] = s]
    BY <2>1 DEF TypeOK
  <2>7. last' \in [Tx -> Outcome]
    BY <2>1, <2>2 DEF TypeOK, Outcome
  <2> HIDE DEF s
  <2> QED BY <1>9, <2>3, <2>4, <2>5, <2>6, <2>7, <1>2, <1>4 DEF LoadAndSaveParent
<1>10. CASE ParentSaved(w)
  <2> DEFINE s == [op[w] EXCEPT !.anc = None]
  <2>1. op[w].kind = "save" /\ op[w].todo = <<>>
    BY <1>10 DEF ParentSaved, Running
  <2>2. s \in Op /\ s.kind = "save" /\ s.todo = <<>> /\ s.tx = op[w].tx /\ s.ins = op[w].ins
    BY <1>1, <2>1 DEF Op
  <2>3. OpOK(s)
    BY <1>1, <2>1, <2>2 DEF OpOK
  <2>4. OpOK(Parsed(s)) /\ Parsed(s).kind = "save" /\ Parsed(s).tx = s.tx
    BY <2>2, <2>3, ParsedOK
  <2>5. op' = [op EXCEPT ![w] = Parsed(s)]
    BY <1>10 DEF ParentSaved, TypeOK
  <2> HIDE DEF s
  <2> QED BY <1>10, <2>1, <2>2, <2>4, <2>5, <1>2, <1>3, <1>4 DEF ParentSaved
<1>11. CASE SaveTxos(w)
  <2>1. op[w].kind = "save" /\ op[w].tx \in Tx /\ op[w].ins \subseteq Ins[op[w].tx]
    BY <1>1, <1>11 DEF SaveTxos, Running, OpOK
  <2>2. PICK o \in SUBSET Out, s \in Seq(SaveWrite(op[w].tx)) :
          op' = [op EXCEPT ![w] = [op[w] EXCEPT !.outs = o, !.todo = s]]
    <3>1. CASE backend = "sqlite"
      <4>1. op' = [op EXCEPT ![w] = [op[w] EXCEPT !.outs = {}, !.todo = SaveTxosSQLite(op[w].outs)]]
        BY <1>11, <3>1 DEF SaveTxos, TypeOK
      <4>2. op[w].outs \subseteq Out /\ Field \in SUBSET Field
        BY <1>1 DEF Op
      <4>3. Put(Field, op[w].outs) \in SaveWrite(op[w].tx)
        BY <4>2, Writes DEF Put, SaveWrite
      <4>4. SaveTxosSQLite(op[w].outs) \in Seq(SaveWrite(op[w].tx))
        BY <4>3 DEF SaveTxosSQLite
      <4> QED BY <4>1, <4>4
    <3>2. CASE backend # "sqlite"
      <4>1. PICK o \in op[w].outs :
              op' = [op EXCEPT ![w].outs = @ \ {o},
                               ![w].todo = IF backend = "redis" THEN SaveTxoRedis(o) ELSE SaveTxoPG(o)]
        BY <1>11, <3>2 DEF SaveTxos
      <4> DEFINE s == IF backend = "redis" THEN SaveTxoRedis(o) ELSE SaveTxoPG(o)
      <4>2. op' = [op EXCEPT ![w] = [op[w] EXCEPT !.outs = @ \ {o}, !.todo = s]]
        BY <4>1 DEF TypeOK
      <4>3. o \in Out /\ op[w].outs \ {o} \in SUBSET Out
        BY <1>1 DEF Op
      <4>4. s \in Seq(SaveWrite(op[w].tx))
        BY <2>1, <4>3, OutputWrites
      <4> HIDE DEF s
      <4> QED BY <4>2, <4>3, <4>4
    <3> QED BY <3>1, <3>2
  <2> DEFINE q == Sending(op[w], op[w].at, op[w].ins, o, s)
  <2>3. op[w].at \in Places /\ op[w].ins \in SUBSET Out /\ op[w].kind # "idle"
    BY <1>1, <2>1 DEF Op
  <2>4. OpOK(q) /\ q.kind = op[w].kind /\ q.tx = op[w].tx
    <3>1. op[w].kind = "save" => s \in Seq(SaveWrite(op[w].tx))
      BY <2>1
    <3>2. op[w].kind = "roll" => s \in Seq(RollWrite(op[w].tx))
      BY <2>1
    <3> QED BY <1>1, <2>1, <2>3, <3>1, <3>2, SendOK
  <2>5. op' = [op EXCEPT ![w] = q]
    BY <2>2, <1>1 DEF Op, Sending
  <2> HIDE DEF q
  <2> QED BY <1>11, <2>1, <2>4, <2>5, <1>2, <1>3, <1>4 DEF SaveTxos
<1>12. CASE SaveSpends(w)
  <2>1. op[w].kind = "save" /\ op[w].tx \in Tx /\ op[w].ins \subseteq Ins[op[w].tx]
    BY <1>1, <1>12 DEF SaveSpends, Running, OpOK
  <2>k. op[w].known \in SUBSET Out
    BY <1>1 DEF Op
  <2>2. PICK i \in SUBSET op[w].ins, s \in Seq(SaveWrite(op[w].tx)) :
          op' = [op EXCEPT ![w] = [op[w] EXCEPT !.ins = i, !.todo = s]]
    <3>1. CASE backend = "sqlite"
      <4>1. PICK i \in op[w].ins :
              op' = [op EXCEPT ![w].ins = @ \ {i}, ![w].todo = SaveSpendSQLite(i, op[w].known)]
        BY <1>12, <3>1 DEF SaveSpends
      <4>2. op' = [op EXCEPT ![w] = [op[w] EXCEPT !.ins = @ \ {i}, !.todo = SaveSpendSQLite(i, op[w].known)]]
        BY <4>1 DEF TypeOK
      <4>3. SaveSpendSQLite(i, op[w].known) \in Seq(SaveWrite(op[w].tx))
        BY <2>1, <2>k, SpendWrites
      <4> QED BY <4>2, <4>3
    <3>2. CASE backend # "sqlite"
      <4> DEFINE s == IF backend = "redis" THEN SaveSpendsRedis(op[w].tx, op[w].known)
                      ELSE SaveSpendsPG(op[w].tx, op[w].known)
      <4>1. op' = [op EXCEPT ![w] = [op[w] EXCEPT !.ins = {}, !.todo = s]]
        BY <1>12, <3>2 DEF SaveSpends, TypeOK
      <4>2. s \in Seq(SaveWrite(op[w].tx))
        BY <2>1, <2>k, SpendWrites
      <4> HIDE DEF s
      <4> QED BY <4>1, <4>2
    <3> QED BY <3>1, <3>2
  <2> DEFINE q == Sending(op[w], op[w].at, i, op[w].outs, s)
  <2>3. /\ op[w].at \in Places /\ op[w].outs \in SUBSET Out /\ op[w].kind # "idle"
        /\ i \in SUBSET Out /\ i \subseteq Ins[op[w].tx]
    BY <1>1, <2>1, <2>2 DEF Op
  <2>4. OpOK(q) /\ q.kind = op[w].kind /\ q.tx = op[w].tx
    <3>1. op[w].kind = "save" => s \in Seq(SaveWrite(op[w].tx))
      BY <2>1
    <3>2. op[w].kind = "roll" => s \in Seq(RollWrite(op[w].tx))
      BY <2>1
    <3> QED BY <1>1, <2>1, <2>3, <3>1, <3>2, SendOK
  <2>5. op' = [op EXCEPT ![w] = q]
    BY <2>2, <1>1 DEF Op, Sending
  <2> HIDE DEF q
  <2> QED BY <1>12, <2>1, <2>4, <2>5, <1>2, <1>3, <1>4 DEF SaveSpends
<1>13. CASE EndSave(w)
  <2>1. last' \in [Tx -> Outcome]
    BY <1>13 DEF EndSave, Ended, TypeOK, Outcome
  <2>2. UNCHANGED <<backend, storeVars, late, ops>> /\ op' = [op EXCEPT ![w] = Idle]
    BY <1>13 DEF EndSave
  <2> QED BY <2>1, <2>2, IdleOK, <1>2, <1>4
<1> QED BY <1>6, <1>7, <1>8, <1>9, <1>10, <1>11, <1>12, <1>13

\* What a rollback is about to free carries its mark.
FreesOwn(r) ==
  \A k \in 1..Len(r.todo) : r.todo[k].act = "free" => \A i \in r.todo[k].o : spend[i] = r.tx

RollStep(w, t) ==
  /\ UNCHANGED <<backend, storeVars>> /\ late' \subseteq late
  /\ op' = [op EXCEPT ![w] = op'[w]]
  /\ \A x \in late : x[1] # w \/ ~BeginRollback(w, t) => x \in late'
  /\ \/ op'[w] = Idle
     \/ op'[w].kind = "roll" /\ op[w].kind = "roll" /\ op'[w].tx = op[w].tx /\ FreesOwn(op'[w])
     \/ op'[w].kind = "roll" /\ BeginRollback(w, t) /\ op'[w].tx = t /\ op'[w].todo = <<>>

\* So do the steps of a rollback.
LEMMA RollTypes ==
  ASSUME Inv1, NEW w \in Worker, NEW t \in Tx,
         \/ BeginRollback(w, t)
         \/ ScanOutputs(w) \/ LookAtMarks(w) \/ DropOutput(w) \/ EndRollback(w)
  PROVE  Inv1' /\ RollStep(w, t)
<1> USE DEF Inv1
<1>1. op[w] \in Op /\ OpOK(op[w])
  BY DEF TypeOK, Shape
<1>2. ASSUME NEW r, OpOK(r), backend # "redis" => r.kind # "roll",
             op' = [op EXCEPT ![w] = r], UNCHANGED <<backend, storeVars>>,
             late' \subseteq late, last' \in [Tx -> Outcome], ops' \in 0..MaxOps,
             \A x \in late : x[1] # w \/ ~BeginRollback(w, t) => x \in late',
             \/ r = Idle
             \/ r.kind = "roll" /\ op[w].kind = "roll" /\ r.tx = op[w].tx /\ FreesOwn(r)
             \/ r.kind = "roll" /\ BeginRollback(w, t) /\ r.tx = t /\ r.todo = <<>>
      PROVE  Inv1' /\ RollStep(w, t)
  <2>1. Inv1'
    BY <1>2, Move DEF TypeOK, Shape, storeVars
  <2>2. op'[w] = r
    BY <1>2 DEF TypeOK
  <2> QED BY <1>2, <2>1, <2>2 DEF RollStep
<1>3. UNCHANGED last => last' \in [Tx -> Outcome]
  BY DEF TypeOK
<1>4. UNCHANGED ops => ops' \in 0..MaxOps
  BY DEF TypeOK
<1>5. CASE BeginRollback(w, t)
  <2> DEFINE r == [Idle EXCEPT !.kind = "roll", !.at = "scan", !.tx = t, !.known = txi[t]]
  <2>1. txi[t] \in SUBSET Out /\ txi[t] \subseteq Ins[t]
    BY DEF TypeOK, Shape
  <2>2. r \in Op /\ r.kind = "roll" /\ r.todo = <<>> /\ r.tx = t /\ r.known = txi[t]
    BY <2>1, IdleOK DEF OpOK, Op, Idle, Places
  <2>3. OpOK(r)
    <3> HIDE DEF r
    <3> QED BY <2>1, <2>2 DEF OpOK
  <2>4. backend = "redis" /\ op' = [op EXCEPT ![w] = r] /\ UNCHANGED <<backend, storeVars>>
    BY <1>5 DEF BeginRollback
  <2>5. ops' \in 0..MaxOps /\ late' \subseteq late
    BY <1>5, MaxOpsType DEF BeginRollback, NewOp, TypeOK
  <2>6. last' \in [Tx -> Outcome]
    BY <1>5 DEF BeginRollback, RollEnds, TypeOK, Outcome
  <2>7. \A x \in late : x[1] # w => x \in late'
    BY <1>5 DEF BeginRollback
  <2> HIDE DEF r
  <2> QED BY <1>5, <2>2, <2>7, <2>3, <2>4, <2>5, <2>6, <1>2
<1>6. CASE ScanOutputs(w)
  <2> DEFINE r == [op[w] EXCEPT !.at = "look",
                      !.outs = {o \in Outs(op[w].tx) : <<"txo", o>> \in index}]
  <2>1. op[w].kind = "roll" /\ op[w].todo = <<>>
    BY <1>6 DEF ScanOutputs, Running
  <2>2. {o \in Outs(op[w].tx) : <<"txo", o>> \in index} \in SUBSET Out
    BY DEF Outs
  <2>3. r \in Op /\ r.kind = "roll" /\ r.todo = <<>> /\ r.tx = op[w].tx /\ r.known = op[w].known
    BY <1>1, <2>1, <2>2 DEF Op, Places
  <2>4. OpOK(r)
    <3> HIDE DEF r
    <3> QED BY <1>1, <2>1, <2>3 DEF OpOK
  <2>5. op' = [op EXCEPT ![w] = r]
    BY <1>6 DEF ScanOutputs, TypeOK
  <2>6. backend = "redis"
    BY <2>1 DEF Shape
  <2>7. UNCHANGED <<backend, storeVars, late, last, ops>>
    BY <1>6 DEF ScanOutputs
  <2>8. FreesOwn(r)
    <3> HIDE DEF r
    <3> QED BY <2>3 DEF FreesOwn
  <2> HIDE DEF r
  <2> QED BY <2>1, <2>3, <2>8, <2>4, <2>5, <2>6, <2>7, <1>2, <1>3, <1>4
<1>7. CASE LookAtMarks(w)
  <2> DEFINE todo == IF OwnMarks(w) = {} THEN <<>> ELSE << OnInputs("free", OwnMarks(w)) >>
             r == [op[w] EXCEPT !.at = "drop", !.todo = todo]
  <2>1. op[w].kind = "roll" /\ op[w].todo = <<>> /\ op[w].tx \in Tx
    BY <1>1, <1>7 DEF LookAtMarks, Running, OpOK
  <2>2. OwnMarks(w) \in SUBSET Out /\ OwnMarks(w) \subseteq Ins[op[w].tx]
    BY <1>1, <2>1 DEF OwnMarks, OpOK, Op
  <2>3. OnInputs("free", OwnMarks(w)) \in RollWrite(op[w].tx)
    <3>1. OnInputs("free", OwnMarks(w)) \in Write
      BY <2>2, Writes DEF Field
    <3> QED BY <2>2, <3>1 DEF OnInputs, RollWrite
  <2>4. todo \in Seq(RollWrite(op[w].tx))
    <3>1. << OnInputs("free", OwnMarks(w)) >> \in Seq(RollWrite(op[w].tx))
      BY <2>3
    <3>2. <<>> \in Seq(RollWrite(op[w].tx))
      OBVIOUS
    <3> QED BY <3>1, <3>2
  <2>5. op[w].ins \in SUBSET Out /\ op[w].outs \in SUBSET Out /\ "drop" \in Places
    BY <1>1 DEF Op, Places
  <2> DEFINE q == Sending(op[w], "drop", op[w].ins, op[w].outs, todo)
  <2>6. op' = [op EXCEPT ![w] = q]
    BY <1>1, <1>7 DEF LookAtMarks, Sending, TypeOK, Op
  <2>7. OpOK(q) /\ q.kind = "roll" /\ q.tx = op[w].tx /\ q.todo = todo
    <3>1. op[w].kind = "save" => todo \in Seq(SaveWrite(op[w].tx)) /\ op[w].ins \subseteq Ins[op[w].tx]
      BY <2>1
    <3> HIDE DEF todo
    <3> QED BY <1>1, <2>1, <2>4, <2>5, <3>1, SendOK
  <2>8. backend = "redis"
    BY <2>1 DEF Shape
  <2>9. UNCHANGED <<backend, storeVars, late, last, ops>>
    BY <1>7 DEF LookAtMarks
  <2>10. FreesOwn(q)
    <3>1. \A k \in 1..Len(todo) : todo[k].o = OwnMarks(w)
      BY DEF OnInputs
    <3> HIDE DEF q, todo
    <3> QED BY <2>7, <3>1 DEF FreesOwn, OwnMarks
  <2> HIDE DEF q
  <2> QED BY <2>1, <2>10, <2>6, <2>7, <2>8, <2>9, <1>2, <1>3, <1>4
<1>8. CASE DropOutput(w)
  <2>1. op[w].kind = "roll" /\ op[w].todo = <<>> /\ op[w].tx \in Tx
    BY <1>1, <1>8 DEF DropOutput, Running, OpOK
  <2>2. PICK o \in op[w].outs :
          op' = [op EXCEPT ![w].outs = @ \ {o}, ![w].todo = RollbackTxo(o)]
    BY <1>8 DEF DropOutput
  <2>3. o \in Out /\ op[w].outs \ {o} \in SUBSET Out /\ op[w].ins \in SUBSET Out /\ op[w].at \in Places
    BY <1>1, <2>2 DEF Op
  <2> DEFINE q == Sending(op[w], op[w].at, op[w].ins, op[w].outs \ {o}, RollbackTxo(o))
  <2>4. op' = [op EXCEPT ![w] = q]
    BY <1>1, <2>2 DEF Sending, TypeOK, Op
  <2>5. OpOK(q) /\ q.kind = "roll" /\ q.tx = op[w].tx /\ q.todo = RollbackTxo(o)
    <3>1. RollbackTxo(o) \in Seq(RollWrite(op[w].tx))
      BY <2>1, <2>3, OutputWrites
    <3>2. op[w].kind = "save" => RollbackTxo(o) \in Seq(SaveWrite(op[w].tx)) /\ op[w].ins \subseteq Ins[op[w].tx]
      BY <2>1
    <3> QED BY <1>1, <2>1, <2>3, <3>1, <3>2, SendOK
  <2>6. backend = "redis"
    BY <2>1 DEF Shape
  <2>7. UNCHANGED <<backend, storeVars, late, last, ops>>
    BY <1>8 DEF DropOutput
  <2>8. FreesOwn(q)
    <3>1. \A k \in 1..Len(RollbackTxo(o)) : RollbackTxo(o)[k].act = "drop"
      BY DEF RollbackTxo, Drop
    <3> HIDE DEF q
    <3> QED BY <2>5, <3>1 DEF FreesOwn
  <2> HIDE DEF q
  <2> QED BY <2>1, <2>8, <2>4, <2>5, <2>6, <2>7, <1>2, <1>3, <1>4
<1>9. CASE EndRollback(w)
  <2>1. last' \in [Tx -> Outcome]
    BY <1>9 DEF EndRollback, Ended, TypeOK, Outcome
  <2>2. UNCHANGED <<backend, storeVars, late, ops>> /\ op' = [op EXCEPT ![w] = Idle]
    BY <1>9 DEF EndRollback
  <2> QED BY <2>1, <2>2, IdleOK, <1>2, <1>4
<1> QED BY <1>5, <1>6, <1>7, <1>8, <1>9

LEMMA Pop ==
  ASSUME NEW S, NEW q \in Seq(S), q # <<>>
  PROVE  Head(q) \in S /\ Tail(q) \in Seq(S)
  OBVIOUS

\* And so do the writes, and an operation that stops half way ...
LEMMA ExecTypes ==
  ASSUME Inv1, NEW w \in Worker, Exec(w) \/ Abort(w)
  PROVE  Inv1'
<1> USE DEF Inv1
<1>1. op[w] \in Op /\ OpOK(op[w])
  BY DEF TypeOK, Shape
<1>2. CASE Exec(w)
  <2> DEFINE x == Head(op[w].todo)
             r == [op[w] EXCEPT !.todo = Tail(@)]
  <2>1. op[w].todo # <<>> /\ op[w].todo \in Seq(Write) /\ op[w].tx \in Tx
    BY <1>1, <1>2 DEF Exec, OpOK, Op
  <2>2. x \in Write /\ Tail(op[w].todo) \in Seq(Write)
    BY <2>1
  <2>3. op[w].kind = "save" => /\ x \in SaveWrite(op[w].tx)
                               /\ Tail(op[w].todo) \in Seq(SaveWrite(op[w].tx))
    <3>1. op[w].kind = "save" => op[w].todo \in Seq(SaveWrite(op[w].tx))
      BY <1>1 DEF OpOK
    <3> QED BY <2>1, <3>1, Pop
  <2>4. op[w].kind = "roll" => /\ x \in RollWrite(op[w].tx)
                               /\ Tail(op[w].todo) \in Seq(RollWrite(op[w].tx))
    <3>1. op[w].kind = "roll" => op[w].todo \in Seq(RollWrite(op[w].tx))
      BY <1>1 DEF OpOK
    <3> QED BY <2>1, <3>1, Pop
  <2>5. r \in Op /\ r.kind = op[w].kind /\ r.tx = op[w].tx /\ r.ins = op[w].ins
        /\ r.known = op[w].known /\ r.todo = Tail(op[w].todo) /\ r.kind # "idle"
    BY <1>1, <2>1, <2>2 DEF Op, OpOK
  <2>6. OpOK(r)
    <3> HIDE DEF r
    <3> QED BY <1>1, <2>3, <2>4, <2>5 DEF OpOK
  <2>7. op' = [op EXCEPT ![w] = r] /\ UNCHANGED <<backend, last, ops>>
    BY <1>2 DEF Exec, TypeOK
  <2>8. /\ op' \in [Worker -> Op] /\ \A v \in Worker : OpOK(op'[v])
        /\ backend' # "redis" => \A v \in Worker : op'[v].kind # "roll"
    <3>1. backend # "redis" => r.kind # "roll"
      BY <2>5 DEF Shape
    <3> HIDE DEF r
    <3> QED BY <2>6, <2>7, <3>1, Move
  <2>9. x.o \in SUBSET Out /\ x.f \in SUBSET Field
    BY <2>2 DEF Write
  <2>10. index' \subseteq Field \X Out
    BY <1>2, <2>9 DEF Exec, TypeOK
  <2>11. spend' \in [Out -> Tx \cup {None}]
    BY <1>2, <2>1 DEF Exec, TypeOK
  <2>12. hist' \subseteq Out \X Tx
    BY <1>2, <2>1, <2>9 DEF Exec, TypeOK
  <2>13. late' \subseteq Worker \X Out
    BY <1>2, <2>9 DEF Exec, TypeOK, Overtakes
  <2>14. txi' \in [Tx -> SUBSET Out] /\ \A u \in Tx : txi'[u] \subseteq Ins[u]
    <3>1. CASE x.act = "txi"
      <4>1. x.o \subseteq Ins[op[w].tx]
        BY <2>3, <2>4, <2>5, <3>1, <1>1 DEF SaveWrite, RollWrite, Op
      <4>2. txi' = [txi EXCEPT ![op[w].tx] = @ \cup x.o]
        BY <1>2, <3>1 DEF Exec
      <4> HIDE DEF x
      <4> QED BY <4>1, <4>2, <2>1, <2>9 DEF TypeOK, Shape
    <3>2. CASE x.act # "txi"
      BY <1>2, <3>2 DEF Exec, TypeOK, Shape
    <3> QED BY <3>1, <3>2
  <2> HIDE DEF x, r
  <2> QED BY <2>7, <2>8, <2>10, <2>11, <2>12, <2>13, <2>14 DEF TypeOK, Shape
<1>3. CASE Abort(w)
  <2>1. last' \in [Tx -> Outcome]
    BY <1>3 DEF Abort, Ended, TypeOK, Outcome
  <2>2. UNCHANGED <<backend, storeVars, late, ops>> /\ op' = [op EXCEPT ![w] = Idle]
    BY <1>3 DEF Abort
  <2> QED BY <2>1, <2>2, IdleOK, Move DEF TypeOK, Shape, storeVars
<1> QED BY <1>2, <1>3

\* ... and the marks set from elsewhere and the rollbacks of the SQL stores.
LEMMA StoreTypes ==
  ASSUME Inv1, NEW t \in Tx,
         \/ \E o \in Out : MarkNew(t, o)
         \/ backend # "redis" /\ RollbackRows(t)
  PROVE  Inv1'
<1> USE DEF Inv1
<1>1. ASSUME NEW o \in Out, MarkNew(t, o) PROVE Inv1'
  <2>1. last' \in [Tx -> Outcome]
    BY <1>1 DEF MarkNew, TypeOK, Outcome
  <2>2. spend' \in [Out -> Tx \cup {None}] /\ late' \subseteq Worker \X Out
    BY <1>1 DEF MarkNew, TypeOK, Overtakes
  <2>3. ops' \in 0..MaxOps
    BY <1>1, MaxOpsType DEF MarkNew, NewOp, TypeOK
  <2>4. UNCHANGED <<backend, index, txi, hist, op>>
    BY <1>1 DEF MarkNew
  <2> QED BY <2>1, <2>2, <2>3, <2>4 DEF TypeOK, Shape
<1>2. CASE backend # "redis" /\ RollbackRows(t)
  <2>1. last' \in [Tx -> Outcome]
    BY <1>2 DEF RollbackRows, RollEnds, TypeOK, Outcome
  <2>2. spend' \in [Out -> Tx \cup {None}] /\ index' \subseteq Field \X Out /\ hist' \subseteq Out \X Tx
    BY <1>2 DEF RollbackRows, TypeOK
  <2>3. ops' \in 0..MaxOps
    BY <1>2, MaxOpsType DEF RollbackRows, NewOp, TypeOK
  <2>4. UNCHANGED <<backend, txi, op, late>>
    BY <1>2 DEF RollbackRows
  <2> QED BY <2>1, <2>2, <2>3, <2>4 DEF TypeOK, Shape
<1> QED BY <1>1, <1>2

LEMMA InitTypes == Init => Inv1
<1> SUFFICES ASSUME Init PROVE Inv1
  OBVIOUS
<1>1. Idle \in Op /\ OpOK(Idle) /\ Idle.kind = "idle"
  BY IdleOK DEF OpOK
<1>2. TypeOK
  BY <1>1, MaxOpsType DEF Init, TypeOK, Outcome
<1>3. Shape
  BY <1>1 DEF Init, Shape
<1> QED BY <1>2, <1>3 DEF Inv1

\* Every step of a worker is one of a save, one of a rollback, a write, or a stop.
LEMMA WorkKinds ==
  ASSUME Inv1, NEW w \in Worker, Work(w)
  PROVE  /\ Inv1'
         /\ \/ \E t \in Tx : SaveStep(w, t) \/ RollStep(w, t)
            \/ Exec(w)
            \/ Abort(w)
<1>1. CASE \E t \in Tx : BeginSave(w, t) \/ BeginRollback(w, t)
  BY <1>1, SaveTypes, RollTypes
<1>2. CASE Exec(w) \/ Abort(w)
  BY <1>2, ExecTypes
<1> DEFINE S == \/ LoadStored(w) \/ LoadMissing(w) \/ LoadAndSaveParent(w) \/ ParentSaved(w)
                \/ SaveTxos(w) \/ SaveSpends(w) \/ EndSave(w)
           R == ScanOutputs(w) \/ LookAtMarks(w) \/ DropOutput(w) \/ EndRollback(w)
<1>3. CASE S \/ R
  <2>1. op[w].kind # "idle"
    BY <1>3 DEF LoadStored, LoadMissing, LoadAndSaveParent, ParentSaved, SaveTxos, SaveSpends,
                EndSave, ScanOutputs, LookAtMarks, DropOutput, EndRollback, Running
  <2>2. op[w].tx \in Tx
    BY <2>1 DEF Inv1, Shape, OpOK
  <2> QED BY <1>3, <2>2, SaveTypes, RollTypes
<1> QED BY <1>1, <1>2, <1>3 DEF Work

LEMMA NextTypes == Inv1 /\ [Next]_vars => Inv1'
<1> SUFFICES ASSUME Inv1, [Next]_vars PROVE Inv1'
  OBVIOUS
<1>1. ASSUME NEW w \in Worker, Work(w) PROVE Inv1'
  BY <1>1, WorkKinds
<1>2. ASSUME NEW t \in Tx, RollbackPG(t) \/ RollbackSQLite(t) PROVE Inv1'
  BY <1>2, StoreTypes DEF RollbackPG, RollbackSQLite
<1>3. ASSUME NEW t \in Tx, NEW o \in Out, SetNewSpend(t, o) \/ SetNewSpendSQLite(t, o) PROVE Inv1'
  BY <1>3, StoreTypes DEF SetNewSpend, SetNewSpendSQLite
<1>4. CASE UNCHANGED vars
  BY <1>4 DEF Inv1, TypeOK, Shape, vars, storeVars
<1> QED BY <1>1, <1>2, <1>3, <1>4 DEF Next

\* Every reachable state has the declared types; among them that the marks of
\* outputs are transactions, and that what Redis lists as the inputs of a
\* transaction are outputs.
THEOREM TypeCorrect == Spec => []TypeOK
<1>1. Inv1 => TypeOK
  BY DEF Inv1
<1> QED BY <1>1, InitTypes, NextTypes, PTL DEF Spec

----------------------------------------------------------------------------
(* Who may take a mark. *)

\* What a rollback is about to free carries its own mark, or one that was set
\* since it began.
Claims ==
  \A w \in Worker : op[w].kind = "roll" =>
    \A k \in 1..Len(op[w].todo) : op[w].todo[k].act = "free" =>
      \A i \in op[w].todo[k].o : spend[i] \in {op[w].tx, None} \/ <<w, i>> \in late

\* While a rollback runs its transaction does not count as saved, and a save
\* that runs at the same time cannot make it so.
Order ==
  \A w \in Worker, t \in Tx : Rolls(w, t) =>
    /\ last[t] \notin {"saved", "mending"}
    /\ \A v \in Worker : op[v].kind = "save" /\ op[v].tx = t => last[t] = "mixed"

Inv == Inv1 /\ Claims /\ Order

LEMMA ClaimsStep == Inv1 /\ Claims /\ [Next]_vars => Claims'
<1> SUFFICES ASSUME Inv1, Claims, [Next]_vars,
                    NEW w \in Worker, op'[w].kind = "roll",
                    NEW k \in 1..Len(op'[w].todo), op'[w].todo[k].act = "free",
                    NEW i \in op'[w].todo[k].o
             PROVE  spend'[i] \in {op'[w].tx, None} \/ <<w, i>> \in late'
  BY DEF Claims
<1>1. op \in [Worker -> Op] /\ OpOK(op[w]) /\ op'[w] \in Op /\ i \in Out
  <2>1. Inv1'
    BY NextTypes
  <2>2. op'[w] \in Op
    BY <2>1 DEF Inv1, TypeOK
  <2>3. op'[w].todo[k] \in Write
    BY <2>2 DEF Op
  <2> QED BY <2>2, <2>3 DEF Inv1, TypeOK, Shape, Write
\* Marks set while w's operation stays as it is, or sends its next write.
<1>2. ASSUME NEW t \in Tx, NEW marked \in SUBSET Out, op[w].kind = "roll", op'[w].tx = op[w].tx,
             spend[i] \in {op[w].tx, None} \/ <<w, i>> \in late,
             \A o \in Out : spend'[o] = IF o \in marked THEN t ELSE spend[o],
             late' = late \cup Overtakes(t, marked)
      PROVE  spend'[i] \in {op'[w].tx, None} \/ <<w, i>> \in late'
  <2>1. CASE i \in marked /\ op[w].tx # t
    BY <1>2, <2>1 DEF Overtakes
  <2>2. CASE i \notin marked \/ op[w].tx = t
    BY <1>1, <1>2, <2>2
  <2> QED BY <2>1, <2>2
<1>3. ASSUME op[w].kind = "roll", op'[w] = op[w]
      PROVE  spend[i] \in {op[w].tx, None} \/ <<w, i>> \in late
  BY <1>3 DEF Claims
<1>4. ASSUME NEW v \in Worker, NEW t \in Tx, SaveStep(v, t)
      PROVE  spend'[i] \in {op'[w].tx, None} \/ <<w, i>> \in late'
  <2>1. v # w
    BY <1>4, IdleOK DEF SaveStep
  <2>2. op'[w] = op[w]
    BY <1>1, <1>4, <2>1 DEF SaveStep
  <2> QED BY <1>3, <1>4, <2>2 DEF SaveStep, storeVars
<1>5. ASSUME NEW v \in Worker, NEW t \in Tx, RollStep(v, t)
      PROVE  spend'[i] \in {op'[w].tx, None} \/ <<w, i>> \in late'
  <2>1. CASE v = w
    <3>1. FreesOwn(op'[w])
      BY <1>5, <2>1, IdleOK DEF RollStep, FreesOwn
    <3> QED BY <1>5, <3>1 DEF RollStep, FreesOwn, storeVars
  <2>2. CASE v # w
    <3>1. op'[w] = op[w]
      BY <1>1, <1>5, <2>2 DEF RollStep
    <3>2. <<w, i>> \in late => <<w, i>> \in late'
      BY <1>5, <2>2 DEF RollStep
    <3> QED BY <1>3, <1>5, <3>1, <3>2 DEF RollStep, storeVars
  <2> QED BY <2>1, <2>2
<1>6. ASSUME NEW v \in Worker, Exec(v)
      PROVE  spend'[i] \in {op'[w].tx, None} \/ <<w, i>> \in late'
  <2> DEFINE x == Head(op[v].todo)
  <2>1. op[v].todo \in Seq(Write) /\ op[v].todo # <<>> /\ op[v].tx \in Tx
    BY <1>6 DEF Exec, Inv1, TypeOK, Shape, OpOK, Op
  <2>2. x \in Write /\ x.o \in SUBSET Out
    <3>1. x \in Write
      BY <2>1, Pop
    <3> HIDE DEF x
    <3> QED BY <3>1 DEF Write
  <2>3. op' = [op EXCEPT ![v] = [op[v] EXCEPT !.todo = Tail(op[v].todo)]]
    BY <1>6 DEF Exec, Inv1, TypeOK
  <2>4. op[w].kind = "roll" /\ op'[w].tx = op[w].tx
    BY <1>1, <2>3 DEF Op
  <2>5. spend[i] \in {op[w].tx, None} \/ <<w, i>> \in late
    <3>1. CASE v # w
      BY <1>1, <2>3, <2>4, <3>1, <1>3
    <3>2. CASE v = w
      <4>1. op'[w].todo = Tail(op[w].todo)
        BY <1>1, <2>3, <3>2 DEF Op
      <4>2. k + 1 \in 1..Len(op[w].todo) /\ op'[w].todo[k] = op[w].todo[k + 1]
        BY <2>1, <3>2, <4>1
      <4> QED BY <2>4, <4>2 DEF Claims
    <3> QED BY <3>1, <3>2
  <2>6. CASE x.act = "mark"
    <3>1. \A o \in Out : spend'[o] = IF o \in x.o THEN op[v].tx ELSE spend[o]
      BY <1>6, <2>6 DEF Exec
    <3>2. late' = late \cup Overtakes(op[v].tx, x.o)
      BY <1>6, <2>6 DEF Exec
    <3> HIDE DEF x
    <3> QED BY <1>2, <2>1, <2>2, <2>4, <2>5, <3>1, <3>2
  <2>7. CASE x.act # "mark"
    <3>1. spend'[i] \in {spend[i], None}
      BY <1>1, <1>6, <2>7 DEF Exec
    <3>2. late' = late
      BY <1>6, <2>7 DEF Exec
    <3> QED BY <2>4, <2>5, <3>1, <3>2
  <2> QED BY <2>6, <2>7
<1>7. ASSUME NEW v \in Worker, Abort(v)
      PROVE  spend'[i] \in {op'[w].tx, None} \/ <<w, i>> \in late'
  <2>1. op'[w] = op[w]
    BY <1>1, <1>7, IdleOK DEF Abort
  <2> QED BY <1>3, <1>7, <2>1 DEF Abort, storeVars
<1>8. ASSUME NEW t \in Tx, NEW o \in Out, MarkNew(t, o)
      PROVE  spend'[i] \in {op'[w].tx, None} \/ <<w, i>> \in late'
  <2>1. op'[w] = op[w] /\ late' = late \cup Overtakes(t, {o})
    BY <1>8 DEF MarkNew
  <2>2. \A z \in Out : spend'[z] = IF z \in {o} THEN t ELSE spend[z]
    BY <1>8 DEF MarkNew, Inv1, TypeOK
  <2> QED BY <2>1, <2>2, <1>2, <1>3
<1>9. ASSUME NEW t \in Tx, backend # "redis", RollbackRows(t)
      PROVE  FALSE
  BY <1>9 DEF RollbackRows, Inv1, Shape
<1>10. CASE UNCHANGED vars
  BY <1>3, <1>10 DEF vars, storeVars
<1>11. ASSUME NEW v \in Worker, Work(v)
       PROVE  spend'[i] \in {op'[w].tx, None} \/ <<w, i>> \in late'
  BY <1>4, <1>5, <1>6, <1>7, <1>11, WorkKinds
<1> QED BY <1>8, <1>9, <1>10, <1>11
        DEF Next, RollbackPG, RollbackSQLite, SetNewSpend, SetNewSpendSQLite

LEMMA OrderStep == Inv1 /\ Order /\ [Next]_vars => Order'
<1> SUFFICES ASSUME Inv1, Order, [Next]_vars,
                    NEW w \in Worker, NEW t \in Tx, op'[w].kind = "roll", op'[w].tx = t
             PROVE  /\ last'[t] \notin {"saved", "mending"}
                    /\ \A v \in Worker : op'[v].kind = "save" /\ op'[v].tx = t => last'[t] = "mixed"
  BY DEF Order, Rolls
<1> DEFINE Goal == /\ last'[t] \notin {"saved", "mending"}
                   /\ \A v \in Worker : op'[v].kind = "save" /\ op'[v].tx = t => last'[t] = "mixed"
           Kept == \A u \in Worker : op'[u].kind # "idle" => op[u].kind = op'[u].kind /\ op[u].tx = op'[u].tx
<1> op \in [Worker -> Op] /\ last \in [Tx -> Outcome] /\ Idle.kind = "idle"
  BY IdleOK DEF Inv1, TypeOK
\* Operations go on or end, and the transaction was being rolled back before.
<1>1. ASSUME Kept,
             \/ last'[t] \in {last[t], "mixed"}
             \/ last[t] # "mixed" /\ last'[t] \notin {"saved", "mending"}
      PROVE  Goal
  <2>1. /\ last[t] \notin {"saved", "mending"}
        /\ \A v \in Worker : op[v].kind = "save" /\ op[v].tx = t => last[t] = "mixed"
    BY <1>1 DEF Order, Rolls
  <2> QED BY <1>1, <2>1
<1>2. ASSUME NEW v \in Worker, NEW u \in Tx, BeginSave(v, u)
      PROVE  Goal
  <2>1. SaveStep(v, u)
    BY <1>2, SaveTypes
  <2>2. /\ v # w /\ Rolls(w, t) /\ op'[v] = Parsed([Idle EXCEPT !.kind = "save", !.tx = u, !.ins = Ins[u]])
        /\ \A x \in Worker \ {v} : op'[x] = op[x]
    BY <1>2, <2>1 DEF BeginSave, SaveStep, Rolls
  <2>3. CASE u = t
    <3>1. last'[t] = "mixed"
      BY <1>2, <2>2, <2>3 DEF BeginSave
    <3> QED BY <3>1
  <2>4. CASE u # t
    <3>1. last'[t] = last[t]
      BY <1>2, <2>4 DEF BeginSave
    <3>2. op[v] = Idle
      BY <1>2 DEF BeginSave
    <3>3. op'[v].tx # t \/ op'[v].kind # "save"
      BY <2>1, <2>4, <3>2 DEF SaveStep
    <3> QED BY <2>2, <3>1, <3>3 DEF Order
  <2> QED BY <2>3, <2>4
<1>3. ASSUME NEW v \in Worker, NEW u \in Tx, BeginRollback(v, u)
      PROVE  Goal
  <2>1. op'[v].kind = "roll" /\ op'[v].tx = u /\ \A x \in Worker \ {v} : op'[x] = op[x]
    BY <1>3 DEF BeginRollback, Idle
  <2>2. CASE u = t
    <3>1. last'[t] \in {"mixed", "busy"}
      BY <1>3, <2>2 DEF BeginRollback, RollEnds
    <3>2. ASSUME NEW x \in Worker, op'[x].kind = "save", op'[x].tx = t
          PROVE  last'[t] = "mixed"
      <4>1. Saves(x, t)
        BY <2>1, <3>2 DEF Saves
      <4> QED BY <1>3, <2>2, <4>1 DEF BeginRollback, RollEnds
    <3> QED BY <3>1, <3>2
  <2>3. CASE u # t
    <3>1. last'[t] = last[t]
      BY <1>3, <2>3 DEF BeginRollback, RollEnds
    <3>2. Rolls(w, t)
      BY <2>1, <2>3 DEF Rolls
    <3>3. \A x \in Worker : op'[x].kind = "save" => op'[x] = op[x]
      BY <2>1
    <3> QED BY <3>1, <3>2, <3>3 DEF Order
  <2> QED BY <2>2, <2>3
<1>4. ASSUME NEW v \in Worker,
             \/ LoadStored(v) \/ LoadMissing(v) \/ LoadAndSaveParent(v) \/ ParentSaved(v)
             \/ SaveTxos(v) \/ SaveSpends(v) \/ EndSave(v)
      PROVE  Goal
  <2>1. op[v].kind = "save"
    BY <1>4 DEF LoadStored, LoadMissing, LoadAndSaveParent, ParentSaved, SaveTxos, SaveSpends,
                EndSave, Running
  <2>2. op[v].tx \in Tx /\ op[v] # Idle
    BY <2>1 DEF Inv1, Shape, OpOK
  <2>3. SaveStep(v, op[v].tx)
    BY <1>4, <2>2, SaveTypes
  <2>4. Kept
    BY <2>2, <2>3 DEF SaveStep, BeginSave
  <2>5. CASE EndSave(v)
    <3>1. Rolls(w, t)
      BY <2>4 DEF Rolls
    <3>2. last[t] # "mending" /\ (op[v].tx = t => last[t] = "mixed")
      BY <2>1, <3>1 DEF Order
    <3>3. last'[t] = last[t]
      BY <2>5, <3>2 DEF EndSave, Ended
    <3> QED BY <1>1, <2>4, <3>3
  <2>6. CASE LoadAndSaveParent(v)
    <3>1. Rolls(w, t)
      BY <2>4 DEF Rolls
    <3>2. last'[t] \in {last[t], "mixed"}
      BY <2>6, <3>1 DEF LoadAndSaveParent
    <3> QED BY <1>1, <2>4, <3>2
  <2>7. CASE last' = last
    BY <1>1, <2>4, <2>7
  <2> QED BY <1>4, <2>5, <2>6, <2>7 DEF LoadStored, LoadMissing, ParentSaved, SaveTxos, SaveSpends
<1>5. ASSUME NEW v \in Worker, ScanOutputs(v) \/ LookAtMarks(v) \/ DropOutput(v) \/ EndRollback(v)
      PROVE  Goal
  <2>1. op[v].kind = "roll"
    BY <1>5 DEF ScanOutputs, LookAtMarks, DropOutput, EndRollback, Running
  <2>2. op[v].tx \in Tx /\ op[v] # Idle
    BY <2>1 DEF Inv1, Shape, OpOK
  <2>3. RollStep(v, op[v].tx)
    BY <1>5, <2>2, RollTypes
  <2>4. Kept
    BY <2>2, <2>3 DEF RollStep, BeginRollback
  <2>5. CASE EndRollback(v)
    <3>1. \/ last'[t] \in {last[t], "mixed"}
          \/ last[t] # "mixed" /\ last'[t] \notin {"saved", "mending"}
      BY <2>5 DEF EndRollback, Ended
    <3> QED BY <1>1, <2>4, <3>1
  <2>6. CASE last' = last
    BY <1>1, <2>4, <2>6
  <2> QED BY <1>5, <2>5, <2>6 DEF ScanOutputs, LookAtMarks, DropOutput
<1>6. ASSUME NEW v \in Worker, Exec(v)
      PROVE  Goal
  <2>1. op' = [op EXCEPT ![v] = [op[v] EXCEPT !.todo = Tail(op[v].todo)]] /\ last' = last
    BY <1>6 DEF Exec
  <2>2. op[v] \in Op
    OBVIOUS
  <2>3. Kept
    BY <2>1, <2>2 DEF Op
  <2> QED BY <1>1, <2>1, <2>3
<1>7. ASSUME NEW v \in Worker, Abort(v)
      PROVE  Goal
  <2>1. Kept
    BY <1>7 DEF Abort
  <2>2. \/ last'[t] \in {last[t], "mixed"}
        \/ last[t] # "mixed" /\ last'[t] \notin {"saved", "mending"}
    BY <1>7 DEF Abort, Ended
  <2> QED BY <1>1, <2>1, <2>2
<1>8. ASSUME NEW u \in Tx, NEW o \in Out, MarkNew(u, o)
      PROVE  Goal
  <2>1. Kept /\ Rolls(w, t)
    BY <1>8 DEF MarkNew, Rolls
  <2>2. last'[t] \in {last[t], "mixed"}
    BY <1>8, <2>1 DEF MarkNew
  <2> QED BY <1>1, <2>1, <2>2
<1>9. ASSUME NEW u \in Tx, backend # "redis", RollbackRows(u)
      PROVE  FALSE
  BY <1>9 DEF RollbackRows, Inv1, Shape
<1>10. CASE UNCHANGED vars
  BY <1>1, <1>10 DEF vars
<1>11. ASSUME NEW v \in Worker, Work(v) PROVE Goal
  BY <1>2, <1>3, <1>4, <1>5, <1>6, <1>7, <1>11 DEF Work
<1>12. ASSUME NEW u \in Tx, RollbackPG(u) \/ RollbackSQLite(u) PROVE Goal
  BY <1>9, <1>12 DEF RollbackPG, RollbackSQLite
<1>13. ASSUME NEW u \in Tx, NEW o \in Out, SetNewSpend(u, o) \/ SetNewSpendSQLite(u, o) PROVE Goal
  BY <1>8, <1>13 DEF SetNewSpend, SetNewSpendSQLite
<1> QED BY <1>10, <1>11, <1>12, <1>13 DEF Next

LEMMA InvHolds == Spec => []Inv
<1>1. Init => Inv
  <2> SUFFICES ASSUME Init PROVE Inv
    OBVIOUS
  <2>1. Inv1
    BY InitTypes
  <2>2. Claims /\ Order
    BY IdleOK DEF Init, Claims, Order, Rolls
  <2> QED BY <2>1, <2>2 DEF Inv
<1>2. Inv /\ [Next]_vars => Inv'
  BY NextTypes, ClaimsStep, OrderStep DEF Inv
<1> QED BY <1>1, <1>2, PTL DEF Spec

HandsOver ==
  \A t \in Tx : \A i \in Ins[t] :
    (last[t] = "saved" /\ last'[t] = "saved" /\ spend[i] = t /\ spend'[i] # t) =>
      IF spend'[i] # None THEN i \in Ins[spend'[i]]
      ELSE IF backend = "redis"
           THEN \E w \in Worker : /\ op[w].kind = "roll" /\ op[w].tx # t
                                  /\ i \in Ins[op[w].tx] /\ <<w, i>> \in late
           ELSE last'[TxOf[i]] \in {"rolled"} \cup Unordered

LEMMA HandsOverStep == Inv /\ [Next]_vars => HandsOver
<1> SUFFICES ASSUME Inv, [Next]_vars, NEW t \in Tx, NEW i \in Ins[t],
                    last[t] = "saved", last'[t] = "saved", spend[i] = t, spend'[i] # t
             PROVE  IF spend'[i] # None THEN i \in Ins[spend'[i]]
                    ELSE IF backend = "redis"
                         THEN \E w \in Worker : /\ op[w].kind = "roll" /\ op[w].tx # t
                                                /\ i \in Ins[op[w].tx] /\ <<w, i>> \in late
                         ELSE last'[TxOf[i]] \in {"rolled"} \cup Unordered
  BY DEF HandsOver
<1> DEFINE Goal == IF spend'[i] # None THEN i \in Ins[spend'[i]]
                   ELSE IF backend = "redis"
                        THEN \E w \in Worker : /\ op[w].kind = "roll" /\ op[w].tx # t
                                               /\ i \in Ins[op[w].tx] /\ <<w, i>> \in late
                        ELSE last'[TxOf[i]] \in {"rolled"} \cup Unordered
<1>1. /\ i \in Out /\ TxOf[i] \in Tx /\ t # None
      /\ op \in [Worker -> Op] /\ last \in [Tx -> Outcome] /\ spend \in [Out -> Tx \cup {None}]
  BY InsType, TxOfType, NoneAssumption DEF Inv, Inv1, TypeOK
\* Of the steps of workers only the writes touch the marks.
<1>2. ASSUME NEW w \in Worker, Exec(w) PROVE Goal
  <2> DEFINE x == Head(op[w].todo)
  <2>1. op[w].todo \in Seq(Write) /\ op[w].todo # <<>> /\ op[w].tx \in Tx /\ OpOK(op[w])
    BY <1>2 DEF Exec, Inv, Inv1, TypeOK, Shape, OpOK, Op
  <2>2. x = op[w].todo[1] /\ 1 \in 1..Len(op[w].todo) /\ x \in Write
    BY <2>1
  <2>3. op[w].kind = "save" => x \in SaveWrite(op[w].tx)
    <3>1. op[w].kind = "save" => op[w].todo \in Seq(SaveWrite(op[w].tx))
      BY <2>1 DEF OpOK
    <3> QED BY <2>1, <3>1, Pop
  <2>4. op[w].kind = "roll" => x \in RollWrite(op[w].tx)
    <3>1. op[w].kind = "roll" => op[w].todo \in Seq(RollWrite(op[w].tx))
      BY <2>1 DEF OpOK
    <3> QED BY <2>1, <3>1, Pop
  <2>5. op[w].kind \in {"save", "roll"}
    BY <2>1 DEF OpOK, Op
  <2>6. CASE x.act = "mark"
    <3>1. spend'[i] = op[w].tx /\ i \in x.o
      BY <1>1, <1>2, <2>6 DEF Exec
    <3>2. x.o \subseteq Ins[op[w].tx]
      BY <2>3, <2>4, <2>5, <2>6 DEF SaveWrite, RollWrite
    <3>3. op[w].tx # None
      BY <2>1, NoneAssumption
    <3> QED BY <3>1, <3>2, <3>3
  <2>7. CASE x.act = "free"
    <3>1. spend'[i] = None /\ i \in x.o
      BY <1>1, <1>2, <2>7 DEF Exec
    <3>2. op[w].kind = "roll" /\ x.o \subseteq Ins[op[w].tx]
      BY <2>3, <2>4, <2>5, <2>7 DEF SaveWrite, RollWrite
    <3>3. backend = "redis"
      BY <3>2 DEF Inv, Inv1, Shape
    <3>4. op[w].tx # t
      BY <2>1, <3>2 DEF Inv, Order, Rolls
    <3>5. spend[i] \in {op[w].tx, None} \/ <<w, i>> \in late
      <4>1. op[w].todo[1].act = "free" /\ i \in op[w].todo[1].o
        BY <2>2, <2>7, <3>1
      <4> QED BY <2>2, <3>2, <4>1 DEF Inv, Claims
    <3>6. <<w, i>> \in late
      BY <1>1, <3>4, <3>5
    <3> QED BY <3>1, <3>2, <3>3, <3>4, <3>6
  <2>8. CASE x.act \notin {"mark", "free"}
    <3>1. spend' = spend
      BY <1>2, <2>8 DEF Exec
    <3> QED BY <3>1
  <2> QED BY <2>6, <2>7, <2>8
<1>3. ASSUME NEW w \in Worker, Work(w) PROVE Goal
  <2>1. (\E u \in Tx : SaveStep(w, u) \/ RollStep(w, u)) \/ Abort(w) => spend' = spend
    BY DEF SaveStep, RollStep, Abort, storeVars
  <2>2. \/ (\E u \in Tx : SaveStep(w, u) \/ RollStep(w, u)) \/ Abort(w)
        \/ Exec(w)
    BY <1>3, WorkKinds DEF Inv
  <2> QED BY <1>2, <2>1, <2>2
<1>4. ASSUME NEW u \in Tx, NEW o \in Out, MarkNew(u, o) PROVE Goal
  <2>1. spend' = [spend EXCEPT ![o] = u] /\ o \in Ins[u]
    BY <1>4 DEF MarkNew
  <2>2. spend'[i] = u /\ i = o
    BY <1>1, <2>1
  <2> QED BY <2>1, <2>2, NoneAssumption
\* The parent is rolled back; t itself would not stay saved.
<1>5. ASSUME NEW u \in Tx, backend # "redis", RollbackRows(u) PROVE Goal
  <2>1. spend'[i] = None /\ i \in ClearedBy(u)
    BY <1>1, <1>5 DEF RollbackRows
  <2>2. last'[u] \in {"mixed", "rolled"}
    BY <1>1, <1>5 DEF RollbackRows, RollEnds
  <2>3. u # t
    BY <2>2
  <2>4. TxOf[i] = u
    BY <2>1, <2>3 DEF ClearedBy
  <2> QED BY <1>5, <2>1, <2>2, <2>4 DEF Unordered
<1>6. CASE UNCHANGED vars
  BY <1>6 DEF vars, storeVars
<1>7. ASSUME NEW u \in Tx, RollbackPG(u) \/ RollbackSQLite(u) PROVE Goal
  BY <1>5, <1>7 DEF RollbackPG, RollbackSQLite
<1>8. ASSUME NEW u \in Tx, NEW o \in Out, SetNewSpend(u, o) \/ SetNewSpendSQLite(u, o) PROVE Goal
  BY <1>4, <1>8 DEF SetNewSpend, SetNewSpendSQLite
<1> QED BY <1>3, <1>6, <1>7, <1>8 DEF Next

\* Whatever the transactions, the workers and the store: the mark of a saved
\* transaction on its input is taken only by another spender of that input,
\* dropped only with the input's own row, or by the rollback of a conflicting
\* transaction that read the mark before it was set.
THEOREM MarksChangeHandsHolds == Spec => MarksChangeHands
<1>1. Inv /\ [Next]_vars => [HandsOver]_vars
  BY HandsOverStep
<1>2. Spec => [][HandsOver]_vars
  BY <1>1, InvHolds, PTL DEF Spec
<1> QED BY <1>2 DEF MarksChangeHands, HandsOver
----------------------------------------------------------------------------
(* What is stored of an output while operations write and drop it. *)

\* The transaction whose outputs an operation is writing.
Of(r) == IF r.at = "anc" THEN r.anc ELSE r.tx

\* An operation writes and drops only outputs of its own transaction, or of
\* the parent it is saving.
Part(r) ==
  /\ r.kind = "save" =>
       /\ r.at \in {"parse", "anc", "save"}
       /\ IF r.at = "anc" THEN r.anc \in Tx ELSE r.anc = None
       /\ r.outs \subseteq Outs(Of(r))
       /\ \A k \in 1..Len(r.todo) :
            /\ r.todo[k].act = "put" => r.todo[k].o \subseteq Outs(Of(r))
            /\ r.todo[k].act = "txi" => r.todo[k].o = Ins[r.tx]
            /\ backend = "sqlite" /\ r.todo[k].act = "put" => r.todo[k].f = Field
  /\ r.kind = "roll" =>
       /\ r.at \in {"scan", "look", "drop"}
       /\ r.outs \subseteq Outs(r.tx)
       /\ r.known \in {{}, Ins[r.tx]}
       /\ \A k \in 1..Len(r.todo) : r.todo[k].act = "drop" => r.todo[k].o \subseteq Outs(r.tx)

\* Some write still to be sent does act to field f of output o.
Sends(r, act, f, o) ==
  \E k \in 1..Len(r.todo) : r.todo[k].act = act /\ f \in r.todo[k].f /\ o \in r.todo[k].o
Frees(r, o) == \E k \in 1..Len(r.todo) : r.todo[k].act = "free" /\ o \in r.todo[k].o

\* What a save that has its inputs is past is stored, or is being sent.
Stored(r) ==
  r.kind = "save" /\ r.at = "save" /\ last[r.tx] # "mixed" =>
    \A o \in Outs(r.tx) \ r.outs, f \in Field : <<f, o>> \in index \/ Sends(r, "put", f, o)

\* What a rollback has looked for is gone, or is still to be dropped; so are
\* the marks of its transaction.
Cleared(r) ==
  r.kind = "roll" /\ last[r.tx] # "mixed" =>
    /\ r.at \in {"look", "drop"} =>
         \A o \in Outs(r.tx), f \in {"txo", "own"} :
           <<f, o>> \in index => o \in r.outs \/ Sends(r, "drop", f, o)
    /\ r.at = "drop" => \A o \in Out : spend[o] = r.tx => Frees(r, o)

\* A record is written before the entries that point to it, and dropped after.
Pointers == IF backend = "redis" THEN {"own"} ELSE {"own", "tag"}
PutOrder(r, o) ==
  \A k \in 1..Len(r.todo) :
    (r.todo[k].act = "put" /\ o \in r.todo[k].o /\ Pointers \cap r.todo[k].f # {}) =>
      \/ <<"txo", o>> \in index
      \/ \E j \in 1..k : r.todo[j].act = "put" /\ o \in r.todo[j].o /\ "txo" \in r.todo[j].f
DropOrder(r, o) ==
  \A k \in 1..Len(r.todo) :
    (r.todo[k].act = "drop" /\ o \in r.todo[k].o /\ "txo" \in r.todo[k].f) =>
      \/ <<"own", o>> \notin index
      \/ \E j \in 1..k : r.todo[j].act = "drop" /\ o \in r.todo[j].o /\ "own" \in r.todo[j].f

Parts == \A w \in Worker : Part(op[w])
Marks ==
  /\ \A t \in Tx : txi[t] \in {{}, Ins[t]}
  /\ \A o \in Out : spend[o] # None => o \in Ins[spend[o]]

Apart ==
  \A t \in Tx :
    /\ last[t] # "mixed" => \A v, w \in Worker : ~(Saves(v, t) /\ Rolls(w, t))
    /\ last[t] = "rolled" => \A v \in Worker : ~Saves(v, t)

Resolve ==
  \A o \in Out : last[TxOf[o]] \notin Unordered =>
    /\ \A f \in Pointers : <<f, o>> \in index => <<"txo", o>> \in index
    /\ \A w \in Worker : PutOrder(op[w], o) /\ DropOrder(op[w], o)

\* In SQLite the fields of an output come and go together.
Atomic ==
  backend = "sqlite" => \A o \in Out, f, h \in Field : <<f, o>> \in index => <<h, o>> \in index

WInv ==
  /\ Inv /\ Parts /\ Marks /\ Apart
  /\ \A w \in Worker : Stored(op[w])
  /\ \A w \in Worker : Cleared(op[w])
  /\ SavedIsWhole /\ Resolve /\ Atomic /\ RolledLeavesNothing

\* The lists of writes.
LEMMA SaveLists ==
  ASSUME NEW o \in Out, NEW s \in {SaveTxoRedis(o), SaveTxoPG(o)}
  PROVE  /\ \A k \in 1..Len(s) : s[k].act = "put" /\ s[k].o = {o}
         /\ 1 \in 1..Len(s) /\ s[1].f = {"txo"}
         /\ \A f \in Field : \E k \in 1..Len(s) : f \in s[k].f
<1>1. CASE s = SaveTxoRedis(o)
  <2>1. /\ Len(s) = 4 /\ s[1] = Put({"txo"}, {o}) /\ s[2] = Put({"data"}, {o})
        /\ s[3] = Put({"tag"}, {o}) /\ s[4] = Put({"own"}, {o})
    BY <1>1 DEF SaveTxoRedis
  <2>2. \A k \in 1..4 : k = 1 \/ k = 2 \/ k = 3 \/ k = 4
    OBVIOUS
  <2>3. \A f \in Field : \E k \in 1..4 : f \in s[k].f
    <3>1. 1 \in 1..4 /\ 2 \in 1..4 /\ 3 \in 1..4 /\ 4 \in 1..4
      OBVIOUS
    <3>2. "txo" \in s[1].f /\ "data" \in s[2].f /\ "tag" \in s[3].f /\ "own" \in s[4].f
      BY <2>1 DEF Put
    <3> QED BY <3>1, <3>2 DEF Field
  <2> QED BY <2>1, <2>2, <2>3 DEF Put
<1>2. CASE s = SaveTxoPG(o)
  <2>1. /\ Len(s) = 3 /\ s[1] = Put({"txo"}, {o}) /\ s[2] = Put({"tag", "own"}, {o})
        /\ s[3] = Put({"data"}, {o})
    BY <1>2 DEF SaveTxoPG
  <2>2. \A k \in 1..3 : k = 1 \/ k = 2 \/ k = 3
    OBVIOUS
  <2>3. \A f \in Field : \E k \in 1..3 : f \in s[k].f
    <3>1. 1 \in 1..3 /\ 2 \in 1..3 /\ 3 \in 1..3
      OBVIOUS
    <3>2. "txo" \in s[1].f /\ "tag" \in s[2].f /\ "own" \in s[2].f /\ "data" \in s[3].f
      BY <2>1 DEF Put
    <3> QED BY <3>1, <3>2 DEF Field
  <2> QED BY <2>1, <2>2, <2>3 DEF Put
<1> QED BY <1>1, <1>2

LEMMA DropList ==
  ASSUME NEW o \in Out, NEW s, s = RollbackTxo(o)
  PROVE  /\ \A k \in 1..Len(s) : s[k].act = "drop" /\ s[k].o = {o}
         /\ 1 \in 1..Len(s) /\ s[1].f = {"own"} /\ 2 \in 1..Len(s) /\ s[2].f = {"txo"}
<1>1. /\ Len(s) = 3 /\ s[1] = Drop({"own"}, {o}) /\ s[2] = Drop({"txo"}, {o})
      /\ s[3] = Drop({"data"}, {o})
  BY DEF RollbackTxo
<1>2. \A k \in 1..3 : k = 1 \/ k = 2 \/ k = 3
  OBVIOUS
<1> QED BY <1>1, <1>2 DEF Drop

SpendsOnly(s, t) ==
  \A k \in 1..Len(s) : /\ s[k].act \in {"mark", "txi", "hist"}
                       /\ s[k].act = "txi" => s[k].o = Ins[t]

LEMMA SpendLists ==
  ASSUME NEW t, NEW known
  PROVE  /\ SpendsOnly(SaveSpendsRedis(t, known), t)
         /\ SpendsOnly(SaveSpendsPG(t, known), t)
         /\ \A i : SpendsOnly(SaveSpendSQLite(i, known), t)
<1> SUFFICES ASSUME NEW i, NEW s, \/ s = SaveSpendsRedis(t, known)
                                  \/ s = SaveSpendsPG(t, known)
                                  \/ s = SaveSpendSQLite(i, known)
             PROVE  \A k \in 1..Len(s) : /\ s[k].act \in {"mark", "txi", "hist"}
                                         /\ s[k].act = "txi" => s[k].o = Ins[t]
  BY DEF SpendsOnly
<1>1. CASE s = SaveSpendsRedis(t, known)
  <2>1. /\ Len(s) = 3 /\ s[1] = OnInputs("mark", Ins[t]) /\ s[2] = OnInputs("txi", Ins[t])
        /\ s[3] = OnInputs("hist", known)
    BY <1>1 DEF SaveSpendsRedis
  <2>2. \A k \in 1..3 : k = 1 \/ k = 2 \/ k = 3
    OBVIOUS
  <2> QED BY <2>1, <2>2 DEF OnInputs
<1>2. CASE s = SaveSpendsPG(t, known)
  <2>1. Len(s) = 2 /\ s[1] = OnInputs("mark", Ins[t]) /\ s[2] = OnInputs("hist", known)
    BY <1>2 DEF SaveSpendsPG
  <2>2. \A k \in 1..2 : k = 1 \/ k = 2
    OBVIOUS
  <2> QED BY <2>1, <2>2 DEF OnInputs
<1>3. CASE s = SaveSpendSQLite(i, known)
  <2>1. CASE i \in known
    <3>1. s = << OnInputs("hist", {i}) >> \o << OnInputs("mark", {i}) >>
      BY <1>3, <2>1 DEF SaveSpendSQLite
    <3>2. Len(s) = 2 /\ s[1] = OnInputs("hist", {i}) /\ s[2] = OnInputs("mark", {i})
      BY <3>1
    <3>3. \A k \in 1..2 : k = 1 \/ k = 2
      OBVIOUS
    <3> QED BY <3>2, <3>3 DEF OnInputs
  <2>2. CASE i \notin known
    <3>1. s = <<>> \o << OnInputs("mark", {i}) >>
      BY <1>3, <2>2 DEF SaveSpendSQLite
    <3>2. Len(s) = 1 /\ s[1] = OnInputs("mark", {i})
      BY <3>1
    <3>3. \A k \in 1..1 : k = 1
      OBVIOUS
    <3> QED BY <3>2, <3>3 DEF OnInputs
  <2> QED BY <2>1, <2>2
<1> QED BY <1>1, <1>2, <1>3

\* What holds of an operation once it has taken a step of its own.
Keep(w) ==
  /\ Part(op[w])' /\ Stored(op[w])' /\ Cleared(op[w])'
  /\ \A o \in Out : PutOrder(op[w], o)' /\ DropOrder(op[w], o)'

LEMMA Quiet ==
  ASSUME NEW w \in Worker, op'[w].todo = <<>>
  PROVE  \A o \in Out : PutOrder(op[w], o)' /\ DropOrder(op[w], o)'
<1>1. Len(op'[w].todo) = 0
  OBVIOUS
<1>2. 1..0 = {}
  OBVIOUS
<1> QED BY <1>1, <1>2 DEF PutOrder, DropOrder

LEMMA Still ==
  ASSUME NEW w \in Worker, op'[w].kind = "idle", op'[w].todo = <<>>
  PROVE  Keep(w)
  BY Quiet DEF Keep, Part, Stored, Cleared

\* A save that sends nothing is at its inputs, at a parent, or at its outputs.
LEMMA Pauses ==
  ASSUME NEW w \in Worker, op'[w].kind = "save", op'[w].todo = <<>>,
         \/ /\ op'[w].at = "parse" /\ op'[w].anc = None
            /\ op'[w].outs \subseteq Outs(op'[w].tx)
         \/ /\ op'[w].at = "save" /\ op'[w].anc = None
            /\ op'[w].outs = Outs(op'[w].tx)
         \/ /\ op'[w].at = "anc" /\ op'[w].anc \in Tx
            /\ op'[w].outs = Outs(op'[w].anc)
  PROVE  Keep(w)
<1>1. Len(op'[w].todo) = 0 /\ 1..0 = {}
  OBVIOUS
<1>2. Part(op[w])'
  BY <1>1 DEF Part, Of, Outs
<1>3. Stored(op[w])'
  BY DEF Stored, Outs
<1>4. Cleared(op[w])'
  BY DEF Cleared
<1> QED BY <1>2, <1>3, <1>4, Quiet DEF Keep

LEMMA ParsedFields ==
  ASSUME NEW r \in Op, r.kind = "save", r.todo = <<>>, r.anc = None, r.outs \subseteq Outs(r.tx),
         NEW q, q = Parsed(r)
  PROVE  /\ q.kind = "save" /\ q.tx = r.tx /\ q.anc = None /\ q.todo = <<>>
         /\ \/ q.at = "parse" /\ q.outs \subseteq Outs(q.tx)
            \/ q.at = "save" /\ q.outs = Outs(q.tx)
<1>1. CASE r.ins # {}
  <2>1. q = [r EXCEPT !.at = "parse"]
    BY <1>1 DEF Parsed
  <2> QED BY <2>1 DEF Op
<1>2. CASE r.ins = {}
  <2>1. q = [r EXCEPT !.at = "save", !.outs = Outs(r.tx), !.ins = Ins[r.tx]]
    BY <1>2 DEF Parsed
  <2> QED BY <2>1 DEF Op
<1> QED BY <1>1, <1>2

\* A save keeps all this, whatever it does next.
LEMMA SaveKeeps ==
  ASSUME Inv1, NEW w \in Worker, NEW t \in Tx, Part(op[w]), Stored(op[w]),
         \/ BeginSave(w, t)
         \/ LoadStored(w) \/ LoadMissing(w) \/ LoadAndSaveParent(w) \/ ParentSaved(w)
         \/ SaveTxos(w) \/ SaveSpends(w) \/ EndSave(w)
  PROVE  Keep(w)
<1>1. op \in [Worker -> Op] /\ op[w] \in Op
  BY DEF Inv1, TypeOK
<1>2. ASSUME NEW r \in Op, r.kind = "save", r.todo = <<>>, r.anc = None,
             r.outs \subseteq Outs(r.tx), op' = [op EXCEPT ![w] = Parsed(r)]
      PROVE  Keep(w)
  <2> DEFINE q == Parsed(r)
  <2>1. op'[w] = q
    BY <1>1, <1>2
  <2>2. /\ q.kind = "save" /\ q.tx = r.tx /\ q.anc = None /\ q.todo = <<>>
        /\ \/ q.at = "parse" /\ q.outs \subseteq Outs(q.tx)
           \/ q.at = "save" /\ q.outs = Outs(q.tx)
    BY <1>2, ParsedFields
  <2> HIDE DEF q
  <2> QED BY <2>1, <2>2, Pauses
<1>3. CASE BeginSave(w, t)
  <2> DEFINE r == [Idle EXCEPT !.kind = "save", !.tx = t, !.ins = Ins[t]]
  <2>1. op' = [op EXCEPT ![w] = Parsed(r)]
    BY <1>3 DEF BeginSave
  <2>2. Idle \in Op /\ Ins[t] \in SUBSET Out
    BY IdleOK, InsType DEF OpOK
  <2>3. r \in Op
    BY <2>2 DEF Op
  <2>4. r.kind = "save" /\ r.todo = <<>> /\ r.anc = None /\ r.outs = {}
    BY DEF Idle
  <2>5. r.outs \subseteq Outs(r.tx)
    BY <2>4
  <2> HIDE DEF r
  <2> QED BY <1>2, <2>1, <2>3, <2>4, <2>5
<1>4. ASSUME op[w].kind = "save", op[w].at = "parse", op[w].todo = <<>>,
             NEW i \in op[w].ins, NEW z \in SUBSET Out,
             op' = [op EXCEPT ![w] = Parsed([op[w] EXCEPT !.ins = @ \ {i}, !.known = @ \cup z])]
      PROVE  Keep(w)
  <2> DEFINE r == [op[w] EXCEPT !.ins = @ \ {i}, !.known = @ \cup z]
  <2>1. r \in Op /\ r.kind = "save" /\ r.todo = <<>> /\ r.anc = op[w].anc /\ r.outs = op[w].outs
        /\ r.tx = op[w].tx
    BY <1>1, <1>4 DEF Op
  <2>2. op[w].anc = None /\ op[w].outs \subseteq Outs(op[w].tx)
    BY <1>4 DEF Part, Of
  <2>3. op' = [op EXCEPT ![w] = Parsed(r)]
    BY <1>4
  <2> HIDE DEF r
  <2> QED BY <1>2, <2>1, <2>2, <2>3
<1>5. CASE LoadStored(w)
  <2>1. PICK i \in op[w].ins :
          op' = [op EXCEPT ![w] = Parsed([op[w] EXCEPT !.ins = @ \ {i}, !.known = @ \cup OwnersOf(i)])]
    BY <1>5 DEF LoadStored
  <2>2. OwnersOf(i) \in SUBSET Out
    BY <1>1 DEF Op, OwnersOf
  <2>3. op[w].kind = "save" /\ op[w].at = "parse" /\ op[w].todo = <<>>
    BY <1>5 DEF LoadStored, Running
  <2> QED BY <1>4, <2>1, <2>2, <2>3
<1>6. CASE LoadMissing(w)
  <2>1. PICK i \in op[w].ins : \E parsed \in SUBSET {i} :
          op' = [op EXCEPT ![w] = Parsed([op[w] EXCEPT !.ins = @ \ {i}, !.known = @ \cup parsed])]
    BY <1>6 DEF LoadMissing
  <2>2. PICK parsed \in SUBSET {i} :
          op' = [op EXCEPT ![w] = Parsed([op[w] EXCEPT !.ins = @ \ {i}, !.known = @ \cup parsed])]
    BY <2>1
  <2>3. parsed \in SUBSET Out
    BY <1>1 DEF Op
  <2>4. op[w].kind = "save" /\ op[w].at = "parse" /\ op[w].todo = <<>>
    BY <1>6 DEF LoadMissing, Running
  <2> QED BY <1>4, <2>2, <2>3, <2>4
<1>7. CASE LoadAndSaveParent(w)
  <2>1. PICK i \in op[w].ins :
          op' = [op EXCEPT ![w].ins = @ \ {i}, ![w].known = @ \cup {i},
                           ![w].at = "anc", ![w].anc = TxOf[i], ![w].outs = Outs(TxOf[i])]
    BY <1>7 DEF LoadAndSaveParent
  <2>2. op[w].kind = "save" /\ op[w].todo = <<>>
    BY <1>7 DEF LoadAndSaveParent, Running
  <2>3. TxOf[i] \in Tx
    BY <1>1, TxOfType DEF Op
  <2>4. /\ op'[w].kind = "save" /\ op'[w].todo = <<>> /\ op'[w].at = "anc"
        /\ op'[w].anc = TxOf[i] /\ op'[w].outs = Outs(TxOf[i])
    BY <1>1, <2>1, <2>2 DEF Op
  <2> QED BY <2>3, <2>4, Pauses
<1>8. CASE ParentSaved(w)
  <2> DEFINE r == [op[w] EXCEPT !.anc = None]
  <2>1. op[w].kind = "save" /\ op[w].todo = <<>> /\ op[w].outs = {}
    BY <1>8 DEF ParentSaved, Running
  <2>2. r \in Op /\ r.kind = "save" /\ r.todo = <<>> /\ r.anc = None /\ r.outs = {}
    BY <1>1, <2>1 DEF Op
  <2>3. op' = [op EXCEPT ![w] = Parsed(r)]
    BY <1>8 DEF ParentSaved
  <2>4. r.outs \subseteq Outs(r.tx)
    BY <2>2
  <2> HIDE DEF r
  <2> QED BY <1>2, <2>2, <2>3, <2>4
\* The outputs in O are written, the record first.
<1>9. ASSUME op[w].kind = "save", op[w].todo = <<>>, UNCHANGED <<backend, index, last>>,
             NEW O \in SUBSET op[w].outs, NEW s \in Seq(Write),
             op' = [op EXCEPT ![w].outs = @ \ O, ![w].todo = s],
             \A k \in 1..Len(s) : /\ s[k].act = "put" /\ s[k].o = O
                                  /\ backend = "sqlite" => s[k].f = Field,
             1 \in 1..Len(s), "txo" \in s[1].f,
             \A f \in Field : \E k \in 1..Len(s) : f \in s[k].f
      PROVE  Keep(w)
  <2>1. /\ op'[w].kind = "save" /\ op'[w].at = op[w].at /\ op'[w].tx = op[w].tx
        /\ op'[w].anc = op[w].anc /\ op'[w].outs = op[w].outs \ O /\ op'[w].todo = s
    BY <1>1, <1>9 DEF Op
  <2>2. Part(op[w])'
    <3>1. /\ Outs(Of(op[w]))' = Outs(Of(op[w])) /\ op[w].outs \subseteq Outs(Of(op[w]))
          /\ op[w].at \in {"parse", "anc", "save"}
          /\ IF op[w].at = "anc" THEN op[w].anc \in Tx ELSE op[w].anc = None
      BY <1>9, <2>1 DEF Part, Of, Outs
    <3>2. O \subseteq Outs(Of(op[w])) /\ op[w].outs \ O \subseteq Outs(Of(op[w]))
      BY <3>1
    <3>3. \A k \in 1..Len(s) : /\ s[k].act = "put" => s[k].o \subseteq Outs(Of(op[w]))
                               /\ s[k].act # "txi"
                               /\ backend = "sqlite" /\ s[k].act = "put" => s[k].f = Field
      BY <1>9, <3>2
    <3>4. backend' = backend
      BY <1>9
    <3> QED BY <2>1, <3>1, <3>2, <3>3, <3>4 DEF Part
  <2>3. Stored(op[w])'
    <3>1. ASSUME op[w].at = "save", last[op[w].tx] # "mixed",
                 NEW o \in Outs(op[w].tx) \ (op[w].outs \ O), NEW f \in Field
          PROVE  <<f, o>> \in index \/ \E k \in 1..Len(s) :
                   s[k].act = "put" /\ f \in s[k].f /\ o \in s[k].o
      <4>1. CASE o \in O
        BY <1>9, <4>1
      <4>2. CASE o \notin O
        <5>1. Len(op[w].todo) = 0 /\ 1..0 = {}
          BY <1>9
        <5> QED BY <1>9, <3>1, <4>2, <5>1 DEF Stored, Sends
      <4> QED BY <4>1, <4>2
    <3>2. \A t1 \in Tx : Outs(t1)' = Outs(t1)
      BY DEF Outs
    <3>3. op[w].tx \in Tx
      BY <1>9 DEF Inv1, Shape, OpOK
    <3>4. last' = last /\ index' = index
      BY <1>9
    <3> HIDE DEF Outs
    <3> QED BY <2>1, <3>1, <3>2, <3>3, <3>4 DEF Stored, Sends
  <2>4. Cleared(op[w])'
    BY <2>1 DEF Cleared
  <2>5. ASSUME NEW o \in Out PROVE PutOrder(op[w], o)' /\ DropOrder(op[w], o)'
    <3>1. \A k \in 1..Len(s) : 1 \in 1..k
      OBVIOUS
    <3>2. PutOrder(op[w], o)'
      <4>1. \A k \in 1..Len(s) : o \in s[k].o =>
              \E j \in 1..k : s[j].act = "put" /\ o \in s[j].o /\ "txo" \in s[j].f
        BY <1>9, <3>1
      <4> QED BY <2>1, <4>1 DEF PutOrder
    <3>3. DropOrder(op[w], o)'
      <4>1. \A k \in 1..Len(s) : s[k].act # "drop"
        BY <1>9
      <4> QED BY <2>1, <4>1 DEF DropOrder
    <3> QED BY <3>2, <3>3
  <2> QED BY <2>2, <2>3, <2>4, <2>5 DEF Keep
<1>10. CASE SaveTxos(w)
  <2>1. op[w].kind = "save" /\ op[w].todo = <<>> /\ UNCHANGED <<backend, index, last>>
    BY <1>10 DEF SaveTxos, Running, storeVars
  <2>2. op[w].outs \in SUBSET Out /\ op[w].tx \in Tx
    BY <1>1, <2>1 DEF Op, Inv1, Shape, OpOK
  <2>3. CASE backend = "sqlite"
    <3> DEFINE s == SaveTxosSQLite(op[w].outs)
    <3>1. op' = [op EXCEPT ![w].outs = {}, ![w].todo = s]
      BY <1>10, <2>3 DEF SaveTxos
    <3>2. op' = [op EXCEPT ![w].outs = @ \ op[w].outs, ![w].todo = s]
      BY <1>1, <3>1
    <3>3. s = << Put(Field, op[w].outs) >> /\ Put(Field, op[w].outs) \in Write
      BY <2>2, Writes DEF SaveTxosSQLite
    <3>4. s \in Seq(Write) /\ Len(s) = 1 /\ s[1] = Put(Field, op[w].outs)
      BY <3>3
    <3>5. s[1].act = "put" /\ s[1].o = op[w].outs /\ s[1].f = Field /\ "txo" \in Field
      BY <3>4 DEF Put, Field
    <3>6. \A k \in 1..1 : k = 1
      OBVIOUS
    <3> HIDE DEF s
    <3>7. 1 \in 1..Len(s) /\ \A k \in 1..Len(s) : k = 1
      BY <3>4, <3>6
    <3>8. \A k \in 1..Len(s) : s[k].act = "put" /\ s[k].o = op[w].outs /\ s[k].f = Field
      BY <3>5, <3>7
    <3>9. (\A f \in Field : \E k \in 1..Len(s) : f \in s[k].f) /\ "txo" \in s[1].f
      BY <3>5, <3>7
    <3> DEFINE O == op[w].outs
    <3>10. op' = [op EXCEPT ![w].outs = @ \ O, ![w].todo = s] /\ O \in SUBSET op[w].outs
      BY <3>2
    <3>11. \A k \in 1..Len(s) : /\ s[k].act = "put" /\ s[k].o = O
                                /\ backend = "sqlite" => s[k].f = Field
      BY <3>8
    <3>12. s \in Seq(Write) /\ 1 \in 1..Len(s)
      BY <3>4, <3>7
    <3> HIDE DEF O
    <3> QED BY <1>9, <2>1, <3>9, <3>10, <3>11, <3>12
  <2>4. CASE backend # "sqlite"
    <3>1. PICK o \in op[w].outs :
            op' = [op EXCEPT ![w].outs = @ \ {o},
                             ![w].todo = IF backend = "redis" THEN SaveTxoRedis(o) ELSE SaveTxoPG(o)]
      BY <1>10, <2>4 DEF SaveTxos
    <3> DEFINE s == IF backend = "redis" THEN SaveTxoRedis(o) ELSE SaveTxoPG(o)
    <3>2. o \in Out /\ s \in {SaveTxoRedis(o), SaveTxoPG(o)}
      BY <2>2
    <3>3. s \in Seq(Write)
      <4>1. SaveTxoRedis(o) \in Seq(SaveWrite(op[w].tx)) /\ SaveTxoPG(o) \in Seq(SaveWrite(op[w].tx))
        BY <2>2, <3>2, OutputWrites
      <4>2. SaveWrite(op[w].tx) \subseteq Write
        BY DEF SaveWrite
      <4>3. \A S \in SUBSET Write : \A z \in Seq(S) : z \in Seq(Write)
        OBVIOUS
      <4> QED BY <3>2, <4>1, <4>2, <4>3
    <3>4. op' = [op EXCEPT ![w].outs = @ \ {o}, ![w].todo = s]
      BY <3>1
    <3> HIDE DEF s
    <3>5. /\ \A k \in 1..Len(s) : s[k].act = "put" /\ s[k].o = {o}
          /\ 1 \in 1..Len(s) /\ "txo" \in s[1].f
          /\ \A f \in Field : \E k \in 1..Len(s) : f \in s[k].f
      BY <3>2, SaveLists
    <3>6. {o} \in SUBSET op[w].outs
      OBVIOUS
    <3> QED BY <1>9, <2>1, <2>4, <3>3, <3>4, <3>5, <3>6
  <2> QED BY <2>3, <2>4
<1>11. CASE SaveSpends(w)
  <2>1. /\ op[w].kind = "save" /\ op[w].todo = <<>> /\ op[w].at = "save" /\ op[w].outs = {}
        /\ UNCHANGED <<backend, index, last>>
    BY <1>11 DEF SaveSpends, Running, storeVars
  <2>2. op[w].tx \in Tx /\ op[w].known \in SUBSET Out
    BY <1>1, <2>1 DEF Op, Inv1, Shape, OpOK
  <2>3. \E s : op' = [op EXCEPT ![w].ins = op'[w].ins, ![w].todo = s]
             /\ SpendsOnly(s, op[w].tx)
    <3>1. CASE backend = "sqlite"
      <4>1. PICK i \in op[w].ins :
              op' = [op EXCEPT ![w].ins = @ \ {i}, ![w].todo = SaveSpendSQLite(i, op[w].known)]
        BY <1>11, <3>1 DEF SaveSpends
      <4> DEFINE s == SaveSpendSQLite(i, op[w].known)
      <4>2. op' = [op EXCEPT ![w].ins = op'[w].ins, ![w].todo = s]
        BY <4>1, <1>1 DEF Op
      <4>3. SpendsOnly(s, op[w].tx)
        BY SpendLists
      <4> HIDE DEF s
      <4> QED BY <4>2, <4>3
    <3>2. CASE backend # "sqlite"
      <4> DEFINE s == IF backend = "redis" THEN SaveSpendsRedis(op[w].tx, op[w].known)
                      ELSE SaveSpendsPG(op[w].tx, op[w].known)
      <4>1. op' = [op EXCEPT ![w].ins = {}, ![w].todo = s]
        BY <1>11, <3>2 DEF SaveSpends
      <4>2. op' = [op EXCEPT ![w].ins = op'[w].ins, ![w].todo = s]
        BY <4>1, <1>1 DEF Op
      <4>3. SpendsOnly(s, op[w].tx)
        BY SpendLists
      <4> HIDE DEF s
      <4> QED BY <4>2, <4>3
    <3> QED BY <3>1, <3>2
  <2>4. PICK s : op' = [op EXCEPT ![w].ins = op'[w].ins, ![w].todo = s]
             /\ SpendsOnly(s, op[w].tx)
    BY <2>3
  <2>5. /\ op'[w].kind = "save" /\ op'[w].at = "save" /\ op'[w].tx = op[w].tx
        /\ op'[w].anc = op[w].anc /\ op'[w].outs = {} /\ op'[w].todo = s
    <3>1. op'[w] = [op[w] EXCEPT !.ins = op'[w].ins, !.todo = s]
      BY <1>1, <2>4
    <3>2. PICK y : op'[w] = [op[w] EXCEPT !.ins = y, !.todo = s]
      BY <3>1
    <3> QED BY <1>1, <2>1, <3>2 DEF Op
  <2>6. Part(op[w])'
    BY <2>1, <2>4, <2>5 DEF Part, Of, SpendsOnly
  <2>7. Stored(op[w])'
    <3>1. Len(op[w].todo) = 0 /\ 1..0 = {}
      BY <2>1
    <3> QED BY <2>1, <2>5, <3>1 DEF Stored, Sends, Outs
  <2>8. Cleared(op[w])'
    BY <2>5 DEF Cleared
  <2>9. \A o \in Out : PutOrder(op[w], o)' /\ DropOrder(op[w], o)'
    BY <2>4, <2>5 DEF PutOrder, DropOrder, SpendsOnly
  <2> QED BY <2>6, <2>7, <2>8, <2>9 DEF Keep
<1>12. CASE EndSave(w)
  <2>1. op'[w].kind = "idle" /\ op'[w].todo = <<>>
    BY <1>1, <1>12 DEF EndSave, Idle
  <2> QED BY <2>1, Still
<1> QED BY <1>3, <1>5, <1>6, <1>7, <1>8, <1>10, <1>11, <1>12

\* So does a rollback: it finds every output there is, for nobody adds one,
\* and every mark, for a mark is of an input, and Redis lists all or none.
LEMMA RollKeeps ==
  ASSUME Inv1, Order, Marks, Resolve, NEW w \in Worker, NEW t \in Tx, Part(op[w]), Cleared(op[w]),
         \/ BeginRollback(w, t)
         \/ ScanOutputs(w) \/ LookAtMarks(w) \/ DropOutput(w) \/ EndRollback(w)
  PROVE  Keep(w)
<1>1. op \in [Worker -> Op] /\ op[w] \in Op
  BY DEF Inv1, TypeOK
<1>2. Len(<<>>) = 0 /\ 1..0 = {}
  OBVIOUS
<1>3. CASE BeginRollback(w, t)
  <2>1. /\ op'[w].kind = "roll" /\ op'[w].at = "scan" /\ op'[w].tx = t /\ op'[w].known = txi[t]
        /\ op'[w].outs = {} /\ op'[w].todo = <<>>
    BY <1>1, <1>3 DEF BeginRollback, Idle
  <2>2. Part(op[w])'
    BY <1>2, <2>1 DEF Part, Marks
  <2>3. Stored(op[w])' /\ Cleared(op[w])'
    BY <2>1 DEF Stored, Cleared
  <2> QED BY <2>1, <2>2, <2>3, Quiet DEF Keep
<1>4. CASE ScanOutputs(w)
  <2> DEFINE S == {o \in Outs(op[w].tx) : <<"txo", o>> \in index}
  <2>1. /\ op[w].kind = "roll" /\ op[w].todo = <<>> /\ op[w].tx \in Tx
        /\ UNCHANGED <<backend, index, spend, last>>
    BY <1>4 DEF ScanOutputs, Running, storeVars, Inv1, Shape, OpOK
  <2>2. /\ op'[w].kind = "roll" /\ op'[w].at = "look" /\ op'[w].tx = op[w].tx
        /\ op'[w].known = op[w].known /\ op'[w].outs = S /\ op'[w].todo = <<>>
    BY <1>1, <1>4, <2>1 DEF ScanOutputs, Op
  <2>3. Part(op[w])'
    BY <1>2, <2>1, <2>2 DEF Part, Outs
  <2>4. Stored(op[w])'
    BY <2>2 DEF Stored
  <2>5. Cleared(op[w])'
    <3>1. ASSUME last[op[w].tx] # "mixed", NEW o \in Outs(op[w].tx),
                 <<"txo", o>> \in index \/ <<"own", o>> \in index
          PROVE  o \in S
      <4>1. last[op[w].tx] \notin Unordered
        BY <2>1, <3>1 DEF Order, Rolls, Unordered
      <4>2. o \in Out /\ TxOf[o] = op[w].tx /\ "own" \in Pointers
        BY DEF Outs, Pointers
      <4> QED BY <3>1, <4>1, <4>2 DEF Resolve
    <3>2. Outs(op[w].tx)' = Outs(op'[w].tx) /\ Outs(op'[w].tx) = Outs(op[w].tx)
      BY <2>2 DEF Outs
    <3> HIDE DEF S, Outs
    <3> QED BY <2>1, <2>2, <3>1, <3>2 DEF Cleared
  <2> QED BY <2>2, <2>3, <2>4, <2>5, Quiet DEF Keep
<1>5. CASE LookAtMarks(w)
  <2> DEFINE s == IF OwnMarks(w) = {} THEN <<>> ELSE << OnInputs("free", OwnMarks(w)) >>
  <2>1. /\ op[w].kind = "roll" /\ op[w].at = "look" /\ op[w].todo = <<>> /\ op[w].tx \in Tx
        /\ op[w].known = Ins[op[w].tx] /\ UNCHANGED <<backend, index, spend, last>>
    BY <1>5 DEF LookAtMarks, Running, storeVars, Inv1, Shape, OpOK, Part
  <2>2. /\ op'[w].kind = "roll" /\ op'[w].at = "drop" /\ op'[w].tx = op[w].tx
        /\ op'[w].known = op[w].known /\ op'[w].outs = op[w].outs /\ op'[w].todo = s
    <3>1. op' = [op EXCEPT ![w].at = "drop", ![w].todo = s]
      BY <1>5 DEF LookAtMarks
    <3> HIDE DEF s
    <3> QED BY <1>1, <2>1, <3>1 DEF Op
  <2>3. /\ \A k \in 1..Len(s) : s[k].act = "free" /\ s[k].o = OwnMarks(w)
        /\ OwnMarks(w) # {} => 1 \in 1..Len(s)
    <3>1. CASE OwnMarks(w) = {}
      BY <1>2, <3>1
    <3>2. CASE OwnMarks(w) # {}
      <4>1. Len(s) = 1 /\ s[1] = OnInputs("free", OwnMarks(w))
        BY <3>2
      <4>2. \A k \in 1..1 : k = 1
        OBVIOUS
      <4> HIDE DEF s
      <4> QED BY <4>1, <4>2 DEF OnInputs
    <3> QED BY <3>1, <3>2
  <2> HIDE DEF s
  <2>4. Part(op[w])'
    BY <2>1, <2>2, <2>3 DEF Part, Outs
  <2>5. Stored(op[w])'
    BY <2>2 DEF Stored
  <2>6. Cleared(op[w])'
    <3>1. \A o \in Out : spend[o] = op[w].tx => o \in OwnMarks(w)
      BY <2>1, NoneAssumption DEF Marks, OwnMarks
    <3>2. ASSUME last[op[w].tx] # "mixed", NEW o \in Out, spend[o] = op[w].tx
          PROVE  \E k \in 1..Len(s) : s[k].act = "free" /\ o \in s[k].o
      BY <2>3, <3>1, <3>2
    <3>3. ASSUME last[op[w].tx] # "mixed", NEW o \in Outs(op[w].tx), NEW f \in {"txo", "own"},
                 <<f, o>> \in index
          PROVE  o \in op[w].outs
      BY <1>2, <2>1, <3>3 DEF Cleared, Sends
    <3>4. Outs(op[w].tx)' = Outs(op'[w].tx) /\ Outs(op'[w].tx) = Outs(op[w].tx)
      BY <2>2 DEF Outs
    <3> HIDE DEF Outs
    <3> QED BY <2>1, <2>2, <3>2, <3>3, <3>4 DEF Cleared, Frees
  <2>7. \A o \in Out : PutOrder(op[w], o)' /\ DropOrder(op[w], o)'
    BY <2>2, <2>3 DEF PutOrder, DropOrder
  <2> QED BY <2>4, <2>5, <2>6, <2>7 DEF Keep
<1>6. CASE DropOutput(w)
  <2>1. /\ op[w].kind = "roll" /\ op[w].at = "drop" /\ op[w].todo = <<>> /\ op[w].tx \in Tx
        /\ UNCHANGED <<backend, index, spend, last>>
    BY <1>6 DEF DropOutput, Running, storeVars, Inv1, Shape, OpOK
  <2>2. PICK o \in op[w].outs :
          op' = [op EXCEPT ![w].outs = @ \ {o}, ![w].todo = RollbackTxo(o)]
    BY <1>6 DEF DropOutput
  <2> DEFINE s == RollbackTxo(o)
  <2>3. /\ op'[w].kind = "roll" /\ op'[w].at = "drop" /\ op'[w].tx = op[w].tx
        /\ op'[w].known = op[w].known /\ op'[w].outs = op[w].outs \ {o} /\ op'[w].todo = s
    <3>1. op' = [op EXCEPT ![w].outs = @ \ {o}, ![w].todo = s]
      BY <2>2
    <3> HIDE DEF s
    <3> QED BY <1>1, <2>1, <3>1 DEF Op
  <2>4. o \in Out /\ o \in Outs(op[w].tx)
    BY <1>1, <2>1 DEF Op, Part
  <2>5. /\ \A k \in 1..Len(s) : s[k].act = "drop" /\ s[k].o = {o}
        /\ 1 \in 1..Len(s) /\ s[1].f = {"own"} /\ 2 \in 1..Len(s) /\ s[2].f = {"txo"}
    BY <2>4, DropList
  <2> HIDE DEF s
  <2>6. Part(op[w])'
    BY <2>1, <2>3, <2>4, <2>5 DEF Part, Outs
  <2>7. Stored(op[w])'
    BY <2>3 DEF Stored
  <2>8. Cleared(op[w])'
    <3>1. ASSUME last[op[w].tx] # "mixed", NEW x \in Out, spend[x] = op[w].tx PROVE FALSE
      BY <1>2, <2>1, <3>1 DEF Cleared, Frees
    <3>2. ASSUME last[op[w].tx] # "mixed", NEW x \in Outs(op[w].tx), NEW f \in {"txo", "own"},
                 <<f, x>> \in index
          PROVE  x \in op[w].outs \ {o} \/ \E k \in 1..Len(s) :
                   s[k].act = "drop" /\ f \in s[k].f /\ x \in s[k].o
      <4>1. x \in op[w].outs
        BY <1>2, <2>1, <3>2 DEF Cleared, Sends
      <4> QED BY <2>5, <4>1
    <3>3. Outs(op[w].tx)' = Outs(op'[w].tx) /\ Outs(op'[w].tx) = Outs(op[w].tx)
      BY <2>3 DEF Outs
    <3> HIDE DEF Outs
    <3> QED BY <2>1, <2>3, <3>1, <3>2, <3>3 DEF Cleared, Sends
  <2>9. \A x \in Out : PutOrder(op[w], x)' /\ DropOrder(op[w], x)'
    <3>1. \A k \in 1..Len(s) : 1 \in 1..k
      OBVIOUS
    <3> QED BY <2>3, <2>5, <3>1 DEF PutOrder, DropOrder
  <2> QED BY <2>6, <2>7, <2>8, <2>9 DEF Keep
<1>7. CASE EndRollback(w)
  <2>1. op'[w].kind = "idle" /\ op'[w].todo = <<>>
    BY <1>1, <1>7 DEF EndRollback, Idle
  <2> QED BY <2>1, Still
<1> QED BY <1>3, <1>4, <1>5, <1>6, <1>7

\* The first write a worker sends, and what is left.
LEMMA ExecHead ==
  ASSUME Inv1, NEW w \in Worker, Exec(w), NEW x, x = Head(op[w].todo)
  PROVE  /\ op[w].todo \in Seq(Write) /\ Len(op[w].todo) \in Nat \ {0} /\ x = op[w].todo[1]
         /\ x.o \in SUBSET Out /\ x.f \in SUBSET Field
         /\ op[w].tx \in Tx /\ op[w].kind \in {"save", "roll"}
         /\ op[w].kind = "save" => /\ x.act \in {"put", "mark", "txi", "hist"}
                                   /\ x.act = "mark" => x.o \subseteq Ins[op[w].tx]
         /\ op[w].kind = "roll" => x.act \in {"free", "drop"} /\ backend = "redis"
         /\ op' = [op EXCEPT ![w] = op'[w]] /\ backend' = backend /\ last' = last
         /\ op'[w].kind = op[w].kind /\ op'[w].at = op[w].at /\ op'[w].tx = op[w].tx
         /\ op'[w].anc = op[w].anc /\ op'[w].outs = op[w].outs /\ op'[w].known = op[w].known
         /\ Len(op'[w].todo) = Len(op[w].todo) - 1
         /\ \A k \in 1..(Len(op[w].todo) - 1) : op'[w].todo[k] = op[w].todo[k + 1]
<1>1. op \in [Worker -> Op] /\ op[w] \in Op /\ OpOK(op[w])
  BY DEF Inv1, TypeOK, Shape
<1>2. op[w].todo \in Seq(Write) /\ op[w].todo # <<>>
  BY <1>1 DEF Exec, Op
<1>3. op[w].tx \in Tx /\ op[w].kind \in {"save", "roll"}
  BY <1>1, <1>2 DEF OpOK, Op
<1>4. Len(op[w].todo) \in Nat \ {0} /\ x = op[w].todo[1] /\ x \in Write
  BY <1>2
<1>5. op[w].kind = "save" => x \in SaveWrite(op[w].tx)
  <2>1. op[w].kind = "save" => op[w].todo \in Seq(SaveWrite(op[w].tx))
    BY <1>1 DEF OpOK
  <2> QED BY <1>2, <2>1, Pop
<1>6. op[w].kind = "roll" => x \in RollWrite(op[w].tx) /\ backend = "redis"
  <2>1. op[w].kind = "roll" => op[w].todo \in Seq(RollWrite(op[w].tx))
    BY <1>1 DEF OpOK
  <2> QED BY <1>2, <2>1, Pop DEF Inv1, Shape
<1>7. op'[w] = [op[w] EXCEPT !.todo = Tail(op[w].todo)] /\ op' = [op EXCEPT ![w] = op'[w]]
  BY <1>1 DEF Exec
<1>8. /\ op'[w].kind = op[w].kind /\ op'[w].at = op[w].at /\ op'[w].tx = op[w].tx
      /\ op'[w].anc = op[w].anc /\ op'[w].outs = op[w].outs /\ op'[w].known = op[w].known
      /\ op'[w].todo = Tail(op[w].todo)
  BY <1>1, <1>7 DEF Op
<1>9. /\ Len(op'[w].todo) = Len(op[w].todo) - 1
      /\ \A k \in 1..(Len(op[w].todo) - 1) : op'[w].todo[k] = op[w].todo[k + 1]
  BY <1>2, <1>8
<1>10. x.o \in SUBSET Out /\ x.f \in SUBSET Field
  BY <1>4 DEF Write
<1>11. backend' = backend /\ last' = last
  BY DEF Exec
<1> QED BY <1>2, <1>3, <1>4, <1>5, <1>6, <1>7, <1>8, <1>9, <1>10, <1>11 DEF SaveWrite, RollWrite

\* What a write of x does to the index and the marks.
LEMMA ExecEffect ==
  ASSUME Inv1, NEW w \in Worker, Exec(w), NEW x, x = Head(op[w].todo)
  PROVE  /\ \A f \in Field, o \in Out : <<f, o>> \in index' <=>
              \/ <<f, o>> \in index /\ ~(x.act = "drop" /\ f \in x.f /\ o \in x.o)
              \/ x.act = "put" /\ f \in x.f /\ o \in x.o
         /\ \A o \in Out : spend'[o] = IF x.act = "mark" /\ o \in x.o THEN op[w].tx
                                       ELSE IF x.act = "free" /\ o \in x.o THEN None
                                       ELSE spend[o]
         /\ hist' = IF x.act = "hist" THEN hist \cup (x.o \X {op[w].tx}) ELSE hist
         /\ txi' = IF x.act = "txi" THEN [txi EXCEPT ![op[w].tx] = @ \cup x.o] ELSE txi
<1>1. /\ index' = CASE x.act = "put" -> index \cup (x.f \X x.o)
                    [] x.act = "drop" -> index \ (x.f \X x.o)
                    [] OTHER -> index
      /\ spend' = CASE x.act = "mark" -> [o \in Out |-> IF o \in x.o THEN op[w].tx ELSE spend[o]]
                    [] x.act = "free" -> [o \in Out |-> IF o \in x.o THEN None ELSE spend[o]]
                    [] OTHER -> spend
      /\ hist' = IF x.act = "hist" THEN hist \cup (x.o \X {op[w].tx}) ELSE hist
      /\ txi' = IF x.act = "txi" THEN [txi EXCEPT ![op[w].tx] = @ \cup x.o] ELSE txi
  BY DEF Exec
<1>2. \A f \in Field, o \in Out : <<f, o>> \in index' <=>
        \/ <<f, o>> \in index /\ ~(x.act = "drop" /\ f \in x.f /\ o \in x.o)
        \/ x.act = "put" /\ f \in x.f /\ o \in x.o
  <2>1. CASE x.act = "put"
    BY <1>1, <2>1
  <2>2. CASE x.act = "drop"
    BY <1>1, <2>2
  <2>3. CASE x.act \notin {"put", "drop"}
    BY <1>1, <2>3
  <2> QED BY <2>1, <2>2, <2>3
<1>3. \A o \in Out : spend'[o] = IF x.act = "mark" /\ o \in x.o THEN op[w].tx
                                 ELSE IF x.act = "free" /\ o \in x.o THEN None
                                 ELSE spend[o]
  <2>1. CASE x.act = "mark"
    BY <1>1, <2>1
  <2>2. CASE x.act = "free"
    BY <1>1, <2>2
  <2>3. CASE x.act \notin {"mark", "free"}
    BY <1>1, <2>3
  <2> QED BY <2>1, <2>2, <2>3
<1> QED BY <1>1, <1>2, <1>3

SaveGoesOn(w) ==
  \/ LoadStored(w) \/ LoadMissing(w) \/ ParentSaved(w) \/ SaveTxos(w) \/ SaveSpends(w)
RollGoesOn(w) == ScanOutputs(w) \/ LookAtMarks(w) \/ DropOutput(w)

LEMMA Steps ==
  ASSUME [Next]_vars
  PROVE  \/ UNCHANGED vars
         \/ \E w \in Worker : \/ Exec(w) \/ SaveGoesOn(w) \/ RollGoesOn(w) \/ Abort(w)
                              \/ LoadAndSaveParent(w) \/ EndSave(w) \/ EndRollback(w)
         \/ \E w \in Worker, t \in Tx : BeginSave(w, t) \/ BeginRollback(w, t)
         \/ \E t \in Tx : backend # "redis" /\ RollbackRows(t)
         \/ \E t \in Tx, o \in Out : MarkNew(t, o)
<1>1. CASE \E w \in Worker : Work(w)
  BY <1>1 DEF Work, SaveGoesOn, RollGoesOn
<1>2. CASE \E t \in Tx : RollbackPG(t) \/ RollbackSQLite(t)
  BY <1>2 DEF RollbackPG, RollbackSQLite
<1>3. CASE \E t \in Tx, o \in Out : SetNewSpend(t, o) \/ SetNewSpendSQLite(t, o)
  BY <1>3 DEF SetNewSpend, SetNewSpendSQLite
<1> QED BY <1>1, <1>2, <1>3 DEF Next

LEMMA GoesOnLast ==
  ASSUME NEW w \in Worker, Exec(w) \/ SaveGoesOn(w) \/ RollGoesOn(w)
  PROVE  last' = last
  BY DEF Exec, SaveGoesOn, RollGoesOn, LoadStored, LoadMissing, ParentSaved, SaveTxos, SaveSpends,
         ScanOutputs, LookAtMarks, DropOutput

\* How the account of a transaction changes.
LEMMA Fate ==
  ASSUME Inv1, [Next]_vars, NEW t \in Tx, last'[t] # last[t]
  PROVE  /\ last[t] = "mixed" =>
              /\ last'[t] = "mending"
              /\ \E w \in Worker : BeginSave(w, t)
              /\ \A v \in Worker : ~Saves(v, t) /\ ~Rolls(v, t)
         /\ last[t] = "mending" => last'[t] \in {"mixed", "saved"}
         /\ last'[t] = "mending" => last[t] = "mixed"
         /\ last'[t] = "saved" =>
              \E w \in Worker : EndSave(w) /\ op[w].tx = t /\ last[t] \in {"busy", "mending"}
         /\ last'[t] = "rolled" =>
              \/ \E w \in Worker : EndRollback(w) /\ op[w].tx = t /\ last[t] = "busy"
              \/ /\ backend # "redis" /\ RollbackRows(t)
                 /\ \A v \in Worker : ~Saves(v, t)
<1> DEFINE Goal ==
         /\ last[t] = "mixed" =>
              /\ last'[t] = "mending"
              /\ \E w \in Worker : BeginSave(w, t)
              /\ \A v \in Worker : ~Saves(v, t) /\ ~Rolls(v, t)
         /\ last[t] = "mending" => last'[t] \in {"mixed", "saved"}
         /\ last'[t] = "mending" => last[t] = "mixed"
         /\ last'[t] = "saved" =>
              \E w \in Worker : EndSave(w) /\ op[w].tx = t /\ last[t] \in {"busy", "mending"}
         /\ last'[t] = "rolled" =>
              \/ \E w \in Worker : EndRollback(w) /\ op[w].tx = t /\ last[t] = "busy"
              \/ /\ backend # "redis" /\ RollbackRows(t)
                 /\ \A v \in Worker : ~Saves(v, t)
<1>1. last \in [Tx -> Outcome]
  BY DEF Inv1, TypeOK
<1>2. ASSUME NEW w \in Worker, NEW u \in Tx, BeginSave(w, u) PROVE Goal
  <2>1. u = t
    BY <1>1, <1>2 DEF BeginSave
  <2>2. last'[t] = IF \E v \in Worker : Rolls(v, t) THEN "mixed"
                   ELSE IF last[t] \notin Unordered THEN "busy"
                   ELSE IF \E v \in Worker : Saves(v, t) THEN last[t] ELSE "mending"
    BY <1>1, <1>2, <2>1 DEF BeginSave
  <2> QED BY <1>2, <2>1, <2>2 DEF Unordered
<1>3. ASSUME NEW w \in Worker, NEW u \in Tx, BeginRollback(w, u) PROVE Goal
  <2>1. u = t
    BY <1>1, <1>3 DEF BeginRollback, RollEnds
  <2>2. last'[t] \in {"mixed", "busy"} /\ (last[t] \in Unordered => last'[t] = "mixed")
    BY <1>1, <1>3, <2>1 DEF BeginRollback, RollEnds
  <2> QED BY <2>2 DEF Unordered
<1>4. ASSUME NEW w \in Worker, LoadAndSaveParent(w) PROVE Goal
  <2>1. last'[t] \in {"mixed", "none"} /\ (last'[t] = "none" => last[t] = "rolled")
    BY <1>1, <1>4 DEF LoadAndSaveParent
  <2> QED BY <2>1
<1>5. ASSUME NEW w \in Worker, EndSave(w) PROVE Goal
  <2>1. /\ op[w].tx = t /\ last'[t] = "saved" /\ last[t] \in {"busy", "mending"}
    BY <1>1, <1>5 DEF EndSave, Ended
  <2> QED BY <1>5, <2>1
<1>6. ASSUME NEW w \in Worker, EndRollback(w) PROVE Goal
  <2>1. op[w].tx = t /\ \/ last[t] = "busy" /\ last'[t] = "rolled"
                        \/ last[t] = "mending" /\ last'[t] = "mixed"
    BY <1>1, <1>6 DEF EndRollback, Ended
  <2> QED BY <1>6, <2>1
<1>7. ASSUME NEW w \in Worker, Abort(w) PROVE Goal
  <2>1. \/ last[t] = "busy" /\ last'[t] = "none"
        \/ last[t] = "mending" /\ last'[t] = "mixed"
    BY <1>1, <1>7 DEF Abort, Ended
  <2> QED BY <2>1
<1>8. ASSUME NEW u \in Tx, backend # "redis", RollbackRows(u) PROVE Goal
  <2>1. u = t
    BY <1>1, <1>8 DEF RollbackRows, RollEnds
  <2>2. last'[t] = IF last[t] \in Unordered \/ \E v \in Worker : Saves(v, t) THEN "mixed"
                   ELSE "rolled"
    BY <1>1, <1>8, <2>1 DEF RollbackRows, RollEnds
  <2> QED BY <1>8, <2>1, <2>2 DEF Unordered
<1>9. ASSUME NEW u \in Tx, NEW o \in Out, MarkNew(u, o) PROVE Goal
  <2>1. last'[t] \in {"mixed", "none"} /\ (last'[t] = "none" => last[t] = "rolled")
    BY <1>1, <1>9 DEF MarkNew
  <2> QED BY <2>1
<1>10. CASE UNCHANGED vars
  BY <1>10 DEF vars
<1>11. ASSUME NEW w \in Worker, Exec(w) \/ SaveGoesOn(w) \/ RollGoesOn(w) PROVE Goal
  BY <1>11, GoesOnLast
<1> QED BY <1>2, <1>3, <1>4, <1>5, <1>6, <1>7, <1>8, <1>9, <1>10, <1>11, Steps

\* Who takes up work on a transaction.
LEMMA NewWork ==
  ASSUME Inv1, [Next]_vars, NEW t \in Tx, NEW v \in Worker
  PROVE  /\ Saves(v, t)' /\ ~Saves(v, t) =>
              /\ \A w \in Worker : Rolls(w, t)' => Rolls(w, t)
              /\ \/ last'[t] = "mixed"
                 \/ last'[t] # "rolled" /\ \A w \in Worker : ~Rolls(w, t)
         /\ Rolls(v, t)' /\ ~Rolls(v, t) =>
              /\ \A w \in Worker : Saves(w, t)' => Saves(w, t)
              /\ (\E w \in Worker : Saves(w, t)) => last'[t] = "mixed"
<1> DEFINE Goal ==
         /\ Saves(v, t)' /\ ~Saves(v, t) =>
              /\ \A w \in Worker : Rolls(w, t)' => Rolls(w, t)
              /\ \/ last'[t] = "mixed"
                 \/ last'[t] # "rolled" /\ \A w \in Worker : ~Rolls(w, t)
         /\ Rolls(v, t)' /\ ~Rolls(v, t) =>
              /\ \A w \in Worker : Saves(w, t)' => Saves(w, t)
              /\ (\E w \in Worker : Saves(w, t)) => last'[t] = "mixed"
<1>1. last \in [Tx -> Outcome] /\ op \in [Worker -> Op] /\ t # None
  BY NoneAssumption DEF Inv1, TypeOK
<1>2. \A r \in Op : Parsed(r).kind = r.kind /\ Parsed(r).tx = r.tx /\ Parsed(r).anc = r.anc
  BY DEF Parsed, Op
<1>3. ASSUME NEW w \in Worker, \A u \in Worker \ {w} : op'[u] = op[u],
             \/ op'[w].kind = "idle"
             \/ op'[w].kind = op[w].kind /\ op'[w].tx = op[w].tx /\ op'[w].anc \in {None, op[w].anc}
      PROVE  Goal
  BY <1>1, <1>3 DEF Saves, Rolls
<1>4. ASSUME NEW w \in Worker, NEW r, op' = [op EXCEPT ![w] = r]
      PROVE  op'[w] = r /\ \A u \in Worker \ {w} : op'[u] = op[u]
  BY <1>1, <1>4
<1>5. ASSUME NEW w \in Worker, LoadStored(w) PROVE Goal
  <2>1. PICK i \in op[w].ins :
          op' = [op EXCEPT ![w] = Parsed([op[w] EXCEPT !.ins = @ \ {i}, !.known = @ \cup OwnersOf(i)])]
    BY <1>5 DEF LoadStored
  <2> DEFINE r == [op[w] EXCEPT !.ins = @ \ {i}, !.known = @ \cup OwnersOf(i)]
  <2>2. OwnersOf(i) \in SUBSET Out
    BY <1>1 DEF Op, OwnersOf
  <2>3. r \in Op /\ r.kind = op[w].kind /\ r.tx = op[w].tx /\ r.anc = op[w].anc
    BY <1>1, <2>2 DEF Op
  <2>4. op' = [op EXCEPT ![w] = Parsed(r)]
    BY <2>1
  <2> HIDE DEF r
  <2> QED BY <1>2, <1>3, <1>4, <2>3, <2>4
<1>6. ASSUME NEW w \in Worker, LoadMissing(w) PROVE Goal
  <2>i. PICK i \in op[w].ins : \E z \in SUBSET {i} :
          op' = [op EXCEPT ![w] = Parsed([op[w] EXCEPT !.ins = @ \ {i}, !.known = @ \cup z])]
    BY <1>6 DEF LoadMissing
  <2>1. PICK z \in SUBSET {i} :
          op' = [op EXCEPT ![w] = Parsed([op[w] EXCEPT !.ins = @ \ {i}, !.known = @ \cup z])]
    BY <2>i
  <2> DEFINE r == [op[w] EXCEPT !.ins = @ \ {i}, !.known = @ \cup z]
  <2>2. z \in SUBSET Out
    BY <1>1 DEF Op
  <2>3. r \in Op /\ r.kind = op[w].kind /\ r.tx = op[w].tx /\ r.anc = op[w].anc
    BY <1>1, <2>2 DEF Op
  <2>4. op' = [op EXCEPT ![w] = Parsed(r)]
    BY <2>1
  <2> HIDE DEF r
  <2> QED BY <1>2, <1>3, <1>4, <2>3, <2>4
<1>7. ASSUME NEW w \in Worker, ParentSaved(w) PROVE Goal
  <2> DEFINE r == [op[w] EXCEPT !.anc = None]
  <2>3. r \in Op /\ r.kind = op[w].kind /\ r.tx = op[w].tx /\ r.anc = None
    BY <1>1 DEF Op
  <2>4. op' = [op EXCEPT ![w] = Parsed(r)]
    BY <1>7 DEF ParentSaved
  <2> HIDE DEF r
  <2> QED BY <1>2, <1>3, <1>4, <2>3, <2>4
<1>8. ASSUME NEW w \in Worker, SaveTxos(w) \/ SaveSpends(w) \/ RollGoesOn(w) \/ Exec(w) PROVE Goal
  <2>1. \A u \in Worker \ {w} : op'[u] = op[u]
    BY <1>1, <1>8 DEF SaveTxos, SaveSpends, RollGoesOn, ScanOutputs, LookAtMarks, DropOutput, Exec
  <2>2. op'[w].kind = op[w].kind /\ op'[w].tx = op[w].tx /\ op'[w].anc = op[w].anc
    <3>1. \A y \in Op : \A a, i, o, z :
            /\ [y EXCEPT !.outs = o, !.todo = z].kind = y.kind
            /\ [y EXCEPT !.outs = o, !.todo = z].tx = y.tx
            /\ [y EXCEPT !.outs = o, !.todo = z].anc = y.anc
            /\ [y EXCEPT !.ins = i, !.todo = z].kind = y.kind
            /\ [y EXCEPT !.ins = i, !.todo = z].tx = y.tx
            /\ [y EXCEPT !.ins = i, !.todo = z].anc = y.anc
            /\ [y EXCEPT !.at = a, !.outs = o].kind = y.kind
            /\ [y EXCEPT !.at = a, !.outs = o].tx = y.tx
            /\ [y EXCEPT !.at = a, !.outs = o].anc = y.anc
            /\ [y EXCEPT !.at = a, !.todo = z].kind = y.kind
            /\ [y EXCEPT !.at = a, !.todo = z].tx = y.tx
            /\ [y EXCEPT !.at = a, !.todo = z].anc = y.anc
            /\ [y EXCEPT !.todo = z].kind = y.kind
            /\ [y EXCEPT !.todo = z].tx = y.tx
            /\ [y EXCEPT !.todo = z].anc = y.anc
      BY DEF Op
    <3>2. CASE SaveTxos(w)
      <4>1. CASE backend = "sqlite"
        <5>1. op'[w] = [op[w] EXCEPT !.outs = {}, !.todo = SaveTxosSQLite(op[w].outs)]
          BY <1>1, <3>2, <4>1 DEF SaveTxos
        <5> QED BY <1>1, <3>1, <5>1
      <4>2. CASE backend # "sqlite"
        <5>1. PICK o \in op[w].outs : op' = [op EXCEPT ![w].outs = @ \ {o},
                 ![w].todo = IF backend = "redis" THEN SaveTxoRedis(o) ELSE SaveTxoPG(o)]
          BY <3>2, <4>2 DEF SaveTxos
        <5>2. op'[w] = [op[w] EXCEPT !.outs = op[w].outs \ {o},
                 !.todo = IF backend = "redis" THEN SaveTxoRedis(o) ELSE SaveTxoPG(o)]
          BY <1>1, <5>1
        <5> QED BY <1>1, <3>1, <5>2
      <4> QED BY <4>1, <4>2
    <3>3. CASE SaveSpends(w)
      <4>1. CASE backend = "sqlite"
        <5>1. PICK i \in op[w].ins :
                op' = [op EXCEPT ![w].ins = @ \ {i}, ![w].todo = SaveSpendSQLite(i, op[w].known)]
          BY <3>3, <4>1 DEF SaveSpends
        <5>2. op'[w] = [op[w] EXCEPT !.ins = op[w].ins \ {i},
                                     !.todo = SaveSpendSQLite(i, op[w].known)]
          BY <1>1, <5>1
        <5> QED BY <1>1, <3>1, <5>2
      <4>2. CASE backend # "sqlite"
        <5>1. op'[w] = [op[w] EXCEPT !.ins = {}, !.todo = IF backend = "redis"
                           THEN SaveSpendsRedis(op[w].tx, op[w].known)
                           ELSE SaveSpendsPG(op[w].tx, op[w].known)]
          BY <1>1, <3>3, <4>2 DEF SaveSpends
        <5> QED BY <1>1, <3>1, <5>1
      <4> QED BY <4>1, <4>2
    <3>4. CASE ScanOutputs(w)
      <4>1. \E a, o : op'[w] = [op[w] EXCEPT !.at = a, !.outs = o]
        BY <1>1, <3>4 DEF ScanOutputs
      <4> QED BY <1>1, <3>1, <4>1
    <3>5. CASE LookAtMarks(w)
      <4>1. \E a, z : op'[w] = [op[w] EXCEPT !.at = a, !.todo = z]
        BY <1>1, <3>5 DEF LookAtMarks
      <4> QED BY <1>1, <3>1, <4>1
    <3>6. CASE DropOutput(w)
      <4>1. PICK o \in op[w].outs :
              op' = [op EXCEPT ![w].outs = @ \ {o}, ![w].todo = RollbackTxo(o)]
        BY <3>6 DEF DropOutput
      <4>2. op'[w] = [op[w] EXCEPT !.outs = op[w].outs \ {o}, !.todo = RollbackTxo(o)]
        BY <1>1, <4>1
      <4> QED BY <1>1, <3>1, <4>2
    <3>7. CASE Exec(w)
      <4>1. \E z : op'[w] = [op[w] EXCEPT !.todo = z]
        BY <1>1, <3>7 DEF Exec
      <4> QED BY <1>1, <3>1, <4>1
    <3> QED BY <1>8, <3>2, <3>3, <3>4, <3>5, <3>6, <3>7 DEF RollGoesOn
  <2> QED BY <1>3, <2>1, <2>2
<1>9. ASSUME NEW w \in Worker, EndSave(w) \/ EndRollback(w) \/ Abort(w) PROVE Goal
  <2>1. op' = [op EXCEPT ![w] = Idle] /\ Idle.kind = "idle"
    BY <1>9 DEF EndSave, EndRollback, Abort, Idle
  <2> QED BY <1>3, <1>4, <2>1
<1>10. ASSUME NEW w \in Worker, LoadAndSaveParent(w) PROVE Goal
  <2>1. PICK i \in op[w].ins :
          /\ op' = [op EXCEPT ![w].ins = @ \ {i}, ![w].known = @ \cup {i},
                              ![w].at = "anc", ![w].anc = TxOf[i], ![w].outs = Outs(TxOf[i])]
          /\ last' = [last EXCEPT ![TxOf[i]] = IF \E x \in Worker : Rolls(x, TxOf[i]) THEN "mixed"
                                               ELSE IF @ = "rolled" THEN "none" ELSE @]
    BY <1>10 DEF LoadAndSaveParent
  <2>2. /\ \A u \in Worker \ {w} : op'[u] = op[u]
        /\ op'[w].kind = "save" /\ op[w].kind = "save" /\ op'[w].tx = op[w].tx
        /\ op'[w].anc = TxOf[i]
    BY <1>1, <1>10, <2>1 DEF Op, LoadAndSaveParent, Running
  <2>3. \A x \in Worker : Rolls(x, t)' => Rolls(x, t)
    BY <2>2 DEF Rolls
  <2>4. CASE t = TxOf[i]
    <3>1. last'[t] = IF \E x \in Worker : Rolls(x, t) THEN "mixed"
                     ELSE IF last[t] = "rolled" THEN "none" ELSE last[t]
      BY <1>1, <2>1, <2>4
    <3> QED BY <2>3, <3>1
  <2>5. CASE t # TxOf[i]
    BY <2>2, <2>3, <2>5 DEF Saves
  <2> QED BY <2>4, <2>5
<1>11. ASSUME NEW w \in Worker, NEW u \in Tx, BeginSave(w, u) PROVE Goal
  <2> DEFINE r == [Idle EXCEPT !.kind = "save", !.tx = u, !.ins = Ins[u]]
  <2>1. Idle \in Op /\ Ins[u] \in SUBSET Out
    BY IdleOK, InsType DEF OpOK
  <2>2. r \in Op /\ r.kind = "save" /\ r.tx = u /\ r.anc = None
    BY <2>1 DEF Op, Idle
  <2>3. op' = [op EXCEPT ![w] = Parsed(r)]
    BY <1>11 DEF BeginSave
  <2> HIDE DEF r
  <2>4. /\ \A x \in Worker \ {w} : op'[x] = op[x]
        /\ op'[w].kind = "save" /\ op'[w].tx = u /\ op'[w].anc = None
    <3>1. op'[w] = Parsed(r) /\ \A x \in Worker \ {w} : op'[x] = op[x]
      BY <1>4, <2>3
    <3>2. Parsed(r).kind = "save" /\ Parsed(r).tx = u /\ Parsed(r).anc = None
      BY <1>2, <2>2
    <3> QED BY <3>1, <3>2
  <2>5. \A x \in Worker : Rolls(x, t)' => Rolls(x, t)
    BY <2>4 DEF Rolls
  <2>6. CASE u = t
    <3>1. last'[t] \in {"busy", "mixed", "mending"} /\ ((\E x \in Worker : Rolls(x, t)) => last'[t] = "mixed")
      BY <1>1, <1>11, <2>6 DEF BeginSave, Unordered
    <3> QED BY <2>5, <3>1
  <2>7. CASE u # t
    BY <1>1, <2>4, <2>5, <2>7 DEF Saves
  <2> QED BY <2>6, <2>7
<1>12. ASSUME NEW w \in Worker, NEW u \in Tx, BeginRollback(w, u) PROVE Goal
  <2>1. /\ \A x \in Worker \ {w} : op'[x] = op[x]
        /\ op'[w].kind = "roll" /\ op'[w].tx = u
    BY <1>1, <1>12 DEF BeginRollback, Idle
  <2>2. \A x \in Worker : Saves(x, t)' => Saves(x, t)
    BY <2>1 DEF Saves
  <2>3. CASE u = t
    <3>1. (\E x \in Worker : Saves(x, t)) => last'[t] = "mixed"
      BY <1>1, <1>12, <2>3 DEF BeginRollback, RollEnds
    <3> QED BY <2>2, <3>1
  <2>4. CASE u # t
    BY <2>1, <2>2, <2>4 DEF Rolls
  <2> QED BY <2>3, <2>4
<1>13. ASSUME op' = op PROVE Goal
  BY <1>13 DEF Saves, Rolls
<1>14. ASSUME NEW w \in Worker, SaveGoesOn(w) PROVE Goal
  BY <1>5, <1>6, <1>7, <1>8, <1>14 DEF SaveGoesOn
<1> QED BY <1>8, <1>9, <1>10, <1>11, <1>12, <1>13, <1>14, Steps
        DEF RollbackRows, MarkNew, vars

\* Only the worker itself changes what it is doing.
LEMMA Acts ==
  ASSUME Inv1, [Next]_vars, NEW v \in Worker, op'[v] # op[v]
  PROVE  \/ Exec(v)
         \/ \E t \in Tx : \/ BeginSave(v, t)
                          \/ LoadStored(v) \/ LoadMissing(v) \/ LoadAndSaveParent(v) \/ ParentSaved(v)
                          \/ SaveTxos(v) \/ SaveSpends(v) \/ EndSave(v)
         \/ \E t \in Tx : \/ BeginRollback(v, t)
                          \/ ScanOutputs(v) \/ LookAtMarks(v) \/ DropOutput(v) \/ EndRollback(v)
         \/ Abort(v)
<1>1. ASSUME NEW w \in Worker, Work(w) PROVE w = v
  <2>1. op' = [op EXCEPT ![w] = op'[w]]
    <3>1. CASE Exec(w) \/ Abort(w)
      BY <3>1 DEF Exec, Abort, Inv1, TypeOK
    <3> QED BY <1>1, <3>1, WorkKinds DEF SaveStep, RollStep
  <2> QED BY <2>1 DEF Inv1, TypeOK
<1>2. ~UNCHANGED vars
  BY DEF vars
<1>3. \A t \in Tx : ~RollbackRows(t) /\ \A o \in Out : ~MarkNew(t, o)
  BY DEF RollbackRows, MarkNew
<1>4. Work(v)
  BY <1>1, <1>2, <1>3 DEF Next, RollbackPG, RollbackSQLite, SetNewSpend, SetNewSpendSQLite
<1>5. \A w \in Worker : op[w].tx \in Tx \/ op[w].kind = "idle"
  BY DEF Inv1, Shape, OpOK
<1>6. (\E t \in Tx : TRUE) \/ op[v].kind = "idle"
  BY <1>5
<1>7. CASE op[v].kind = "idle"
  BY <1>4, <1>7 DEF Work, LoadStored, LoadMissing, LoadAndSaveParent, ParentSaved, SaveTxos, SaveSpends,
     EndSave, ScanOutputs, LookAtMarks, DropOutput, EndRollback, Running
<1> QED BY <1>4, <1>6, <1>7 DEF Work

\* Other steps leave the store alone.
LEMMA StoreSteps ==
  ASSUME Inv1, [Next]_vars
  PROVE  \/ UNCHANGED storeVars /\ backend' = backend
         \/ \E w \in Worker : Exec(w)
         \/ \E t \in Tx : backend # "redis" /\ RollbackRows(t)
         \/ \E t \in Tx, o \in Out : MarkNew(t, o)
<1>1. ASSUME NEW w \in Worker, Work(w), ~Exec(w) PROVE UNCHANGED storeVars /\ backend' = backend
  BY <1>1, WorkKinds DEF SaveStep, RollStep, Abort
<1>2. CASE UNCHANGED vars
  BY <1>2 DEF vars, storeVars
<1> QED BY <1>1, <1>2
        DEF Next, RollbackPG, RollbackSQLite, SetNewSpend, SetNewSpendSQLite

\* An entry comes from a save of its transaction or its child, and goes with a
\* rollback of its transaction.
LEMMA IndexMoves ==
  ASSUME Inv1, Parts, [Next]_vars, NEW f \in Field, NEW o \in Out
  PROVE  /\ <<f, o>> \in index' /\ <<f, o>> \notin index =>
              \E w \in Worker : /\ Exec(w) /\ Saves(w, TxOf[o])
                                /\ op[w].todo[1].act = "put"
                                /\ f \in op[w].todo[1].f /\ o \in op[w].todo[1].o
         /\ <<f, o>> \notin index' /\ <<f, o>> \in index =>
              \/ \E w \in Worker : /\ Exec(w) /\ Rolls(w, TxOf[o])
                                   /\ op[w].todo[1].act = "drop"
                                   /\ f \in op[w].todo[1].f /\ o \in op[w].todo[1].o
              \/ backend # "redis" /\ RollbackRows(TxOf[o])
<1>1. CASE UNCHANGED storeVars
  BY <1>1 DEF storeVars
<1>2. ASSUME NEW w \in Worker, Exec(w),
             (<<f, o>> \in index) # (<<f, o>> \in index')
      PROVE  \/ /\ Saves(w, TxOf[o]) /\ op[w].todo[1].act = "put" /\ <<f, o>> \in index'
                /\ f \in op[w].todo[1].f /\ o \in op[w].todo[1].o
             \/ /\ Rolls(w, TxOf[o]) /\ op[w].todo[1].act = "drop" /\ <<f, o>> \in index
                /\ f \in op[w].todo[1].f /\ o \in op[w].todo[1].o
  <2> DEFINE x == Head(op[w].todo)
  <2>1. /\ x = op[w].todo[1] /\ Len(op[w].todo) \in Nat \ {0}
        /\ op[w].kind \in {"save", "roll"} /\ op[w].tx \in Tx
        /\ op[w].kind = "save" => x.act \in {"put", "mark", "txi", "hist"}
        /\ op[w].kind = "roll" => x.act \in {"free", "drop"}
    BY <1>2, ExecHead
  <2>2. <<f, o>> \in index' <=>
              \/ <<f, o>> \in index /\ ~(x.act = "drop" /\ f \in x.f /\ o \in x.o)
              \/ x.act = "put" /\ f \in x.f /\ o \in x.o
    BY <1>2, ExecEffect
  <2> HIDE DEF x
  <2>3. 1 \in 1..Len(op[w].todo)
    BY <2>1
  <2>4. CASE x.act = "put" /\ f \in x.f /\ o \in x.o /\ <<f, o>> \notin index
    <3>1. op[w].kind = "save"
      BY <2>1, <2>4
    <3>2. o \in Outs(Of(op[w]))
      BY <2>1, <2>3, <2>4, <3>1 DEF Parts, Part
    <3>3. TxOf[o] = Of(op[w])
      BY <3>2 DEF Outs
    <3> QED BY <2>1, <2>2, <2>4, <3>1, <3>3 DEF Saves, Of
  <2>5. CASE x.act = "drop" /\ f \in x.f /\ o \in x.o /\ <<f, o>> \in index
    <3>1. op[w].kind = "roll"
      BY <2>1, <2>5
    <3>2. o \in Outs(op[w].tx)
      BY <2>1, <2>3, <2>5, <3>1 DEF Parts, Part
    <3>3. TxOf[o] = op[w].tx
      BY <3>2 DEF Outs
    <3> QED BY <2>1, <2>5, <3>1, <3>3 DEF Rolls
  <2> QED BY <1>2, <2>2, <2>4, <2>5
<1>3. CASE \E w \in Worker : Exec(w)
  BY <1>2, <1>3
<1>4. ASSUME NEW t \in Tx, backend # "redis", RollbackRows(t)
      PROVE  /\ <<f, o>> \in index' => <<f, o>> \in index
             /\ <<f, o>> \notin index' /\ <<f, o>> \in index => TxOf[o] = t
  <2>1. index' = {x \in index : TxOf[x[2]] # t}
    BY <1>4 DEF RollbackRows
  <2> QED BY <2>1
<1>5. ASSUME NEW t \in Tx, NEW z \in Out, MarkNew(t, z) PROVE index' = index
  BY <1>5 DEF MarkNew
<1> QED BY <1>1, <1>3, <1>4, <1>5, StoreSteps

\* A mark comes from a save of its transaction, or from SetNewSpend.
LEMMA MarkMoves ==
  ASSUME Inv1, [Next]_vars, NEW t \in Tx, NEW o \in Out, spend'[o] = t, spend[o] # t
  PROVE  (\E w \in Worker : Exec(w) /\ Saves(w, t)) \/ MarkNew(t, o)
<1>1. t # None /\ spend \in [Out -> Tx \cup {None}]
  BY NoneAssumption DEF Inv1, TypeOK
<1>2. ASSUME NEW w \in Worker, Exec(w) PROVE Saves(w, t)
  <2> DEFINE x == Head(op[w].todo)
  <2>1. /\ op[w].kind \in {"save", "roll"}
        /\ op[w].kind = "roll" => x.act \in {"free", "drop"}
    BY <1>2, ExecHead
  <2>2. spend'[o] = IF x.act = "mark" /\ o \in x.o THEN op[w].tx
                    ELSE IF x.act = "free" /\ o \in x.o THEN None ELSE spend[o]
    BY <1>2, ExecEffect
  <2> HIDE DEF x
  <2> QED BY <1>1, <2>1, <2>2 DEF Saves
<1>3. ASSUME NEW u \in Tx, RollbackRows(u) PROVE FALSE
  BY <1>1, <1>3 DEF RollbackRows
<1>4. ASSUME NEW u \in Tx, NEW z \in Out, MarkNew(u, z) PROVE MarkNew(t, o)
  <2>1. u = t /\ z = o
    BY <1>1, <1>4 DEF MarkNew
  <2> QED BY <1>4, <2>1
<1> QED BY <1>2, <1>3, <1>4, StoreSteps DEF storeVars

\* What was to be sent is sent, or still to be.
LEMMA Shift ==
  ASSUME Inv1, NEW w \in Worker, Exec(w)
  PROVE  /\ \A a, f, o : Sends(op[w], a, f, o) =>
              \/ op[w].todo[1].act = a /\ f \in op[w].todo[1].f /\ o \in op[w].todo[1].o
              \/ Sends(op'[w], a, f, o)
         /\ \A o : Frees(op[w], o) =>
              \/ op[w].todo[1].act = "free" /\ o \in op[w].todo[1].o
              \/ Frees(op'[w], o)
<1>1. /\ Len(op[w].todo) \in Nat \ {0} /\ Len(op'[w].todo) = Len(op[w].todo) - 1
      /\ \A k \in 1..(Len(op[w].todo) - 1) : op'[w].todo[k] = op[w].todo[k + 1]
  BY ExecHead
<1>2. \A k \in 1..Len(op[w].todo) :
        k = 1 \/ (k - 1 \in 1..Len(op'[w].todo) /\ op'[w].todo[k - 1] = op[w].todo[k])
  <2> SUFFICES ASSUME NEW k \in 1..Len(op[w].todo), k # 1
               PROVE  k - 1 \in 1..Len(op'[w].todo) /\ op'[w].todo[k - 1] = op[w].todo[k]
    OBVIOUS
  <2>1. k - 1 \in 1..(Len(op[w].todo) - 1) /\ (k - 1) + 1 = k
    BY <1>1
  <2>2. op'[w].todo[k - 1] = op[w].todo[(k - 1) + 1]
    BY <1>1, <2>1
  <2> QED BY <1>1, <2>1, <2>2
<1> QED BY <1>2 DEF Sends, Frees

\* After its own step a worker that did not write is as Keep says.
LEMMA OwnStep ==
  ASSUME WInv, [Next]_vars, NEW v \in Worker, op'[v] # op[v], ~Exec(v)
  PROVE  Keep(v)
<1>1. /\ Inv1 /\ Order /\ Marks /\ Resolve /\ Part(op[v]) /\ Stored(op[v]) /\ Cleared(op[v])
  BY DEF WInv, Inv, Parts
<1>2. CASE Abort(v)
  <2>1. op'[v].kind = "idle" /\ op'[v].todo = <<>>
    BY <1>1, <1>2 DEF Abort, Idle, Inv1, TypeOK
  <2> QED BY <2>1, Still
<1> QED BY <1>1, <1>2, Acts, SaveKeeps, RollKeeps

LEMMA PartsStep == WInv /\ [Next]_vars => Parts'
<1> SUFFICES ASSUME WInv, [Next]_vars, NEW v \in Worker PROVE Part(op[v])'
  BY DEF Parts
<1>1. Inv1 /\ Part(op[v])
  BY DEF WInv, Inv, Parts
<1>2. backend' = backend
  BY <1>1, StoreSteps DEF Exec, RollbackRows, MarkNew
<1>3. CASE op'[v] = op[v]
  BY <1>1, <1>2, <1>3 DEF Part, Outs, Of
<1>4. CASE op'[v] # op[v] /\ ~Exec(v)
  BY <1>4, OwnStep DEF Keep
<1>5. CASE Exec(v)
  <2>1. /\ op'[v].kind = op[v].kind /\ op'[v].at = op[v].at /\ op'[v].tx = op[v].tx
        /\ op'[v].anc = op[v].anc /\ op'[v].outs = op[v].outs /\ op'[v].known = op[v].known
        /\ Len(op[v].todo) \in Nat \ {0} /\ Len(op'[v].todo) = Len(op[v].todo) - 1
        /\ \A k \in 1..(Len(op[v].todo) - 1) : op'[v].todo[k] = op[v].todo[k + 1]
    BY <1>1, <1>5, ExecHead
  <2>2. \A k \in 1..Len(op'[v].todo) :
          k + 1 \in 1..Len(op[v].todo) /\ op'[v].todo[k] = op[v].todo[k + 1]
    BY <2>1
  <2>3. /\ Of(op[v])' = Of(op[v])
        /\ Outs(op[v].tx)' = Outs(op[v].tx) /\ Outs(Of(op[v]))' = Outs(Of(op[v]))
    BY <2>1 DEF Outs, Of
  <2>4. CASE op[v].kind = "save"
    <3>1. \A k \in 1..Len(op'[v].todo) :
            /\ op'[v].todo[k].act = "put" => op'[v].todo[k].o \subseteq Outs(Of(op[v]))
            /\ op'[v].todo[k].act = "txi" => op'[v].todo[k].o = Ins[op[v].tx]
            /\ backend = "sqlite" /\ op'[v].todo[k].act = "put" => op'[v].todo[k].f = Field
      BY <1>1, <2>2, <2>4 DEF Part
    <3> QED BY <1>1, <1>2, <2>1, <2>3, <2>4, <3>1 DEF Part
  <2>5. CASE op[v].kind # "save"
    <3>1. op[v].kind = "roll" => \A k \in 1..Len(op'[v].todo) :
            op'[v].todo[k].act = "drop" => op'[v].todo[k].o \subseteq Outs(op[v].tx)
      BY <1>1, <2>2 DEF Part
    <3> QED BY <1>1, <1>2, <2>1, <2>3, <2>5, <3>1 DEF Part
  <2> QED BY <2>4, <2>5
<1> QED BY <1>3, <1>4, <1>5

LEMMA MarksStep == WInv /\ [Next]_vars => Marks'
<1> SUFFICES ASSUME WInv, [Next]_vars PROVE Marks'
  OBVIOUS
<1>1. Inv1 /\ Inv1' /\ Marks /\ Parts
  BY NextTypes DEF WInv, Inv
<1>2. ASSUME NEW w \in Worker, Exec(w) PROVE Marks'
  <2> DEFINE x == Head(op[w].todo)
  <2>1. /\ x = op[w].todo[1] /\ Len(op[w].todo) \in Nat \ {0} /\ op[w].tx \in Tx
        /\ op[w].kind \in {"save", "roll"}
        /\ op[w].kind = "save" /\ x.act = "mark" => x.o \subseteq Ins[op[w].tx]
        /\ op[w].kind = "roll" => x.act \in {"free", "drop"}
    BY <1>1, <1>2, ExecHead
  <2>2. /\ \A o \in Out : spend'[o] = IF x.act = "mark" /\ o \in x.o THEN op[w].tx
                                      ELSE IF x.act = "free" /\ o \in x.o THEN None ELSE spend[o]
        /\ txi' = IF x.act = "txi" THEN [txi EXCEPT ![op[w].tx] = @ \cup x.o] ELSE txi
    BY <1>1, <1>2, ExecEffect
  <2>3. x.act = "txi" => x.o = Ins[op[w].tx]
    <3>1. 1 \in 1..Len(op[w].todo)
      BY <2>1
    <3>2. op[w].kind = "save" /\ x.act = "txi" => x.o = Ins[op[w].tx]
      BY <1>1, <2>1, <3>1 DEF Parts, Part
    <3> HIDE DEF x
    <3> QED BY <2>1, <3>2
  <2> HIDE DEF x
  <2>4. \A o \in Out : spend'[o] # None => o \in Ins[spend'[o]]
    BY <1>1, <2>1, <2>2 DEF Marks
  <2>5. \A t \in Tx : txi'[t] \in {{}, Ins[t]}
    <3> SUFFICES ASSUME NEW t \in Tx PROVE txi'[t] \in {{}, Ins[t]}
      OBVIOUS
    <3>1. txi[t] \in {{}, Ins[t]}
      BY <1>1 DEF Marks
    <3>2. CASE x.act = "txi" /\ t = op[w].tx
      <4>1. txi'[t] = txi[t] \cup Ins[t]
        BY <1>1, <2>2, <2>3, <3>2 DEF Inv1, TypeOK
      <4> QED BY <3>1, <4>1
    <3>3. CASE ~(x.act = "txi" /\ t = op[w].tx)
      BY <1>1, <2>2, <3>1, <3>3 DEF Inv1, TypeOK
    <3> QED BY <3>2, <3>3
  <2> QED BY <2>4, <2>5 DEF Marks
<1>3. ASSUME NEW t \in Tx, RollbackRows(t) PROVE Marks'
  <2>1. txi' = txi /\ \A o \in Out : spend'[o] \in {None, spend[o]}
    BY <1>3 DEF RollbackRows
  <2> QED BY <1>1, <2>1 DEF Marks
<1>4. ASSUME NEW t \in Tx, NEW z \in Out, MarkNew(t, z) PROVE Marks'
  <2>1. txi' = txi /\ z \in Ins[t] /\ \A o \in Out : spend'[o] = IF o = z THEN t ELSE spend[o]
    BY <1>1, <1>4 DEF MarkNew, Inv1, TypeOK
  <2> QED BY <1>1, <2>1 DEF Marks
<1>5. CASE UNCHANGED storeVars
  BY <1>1, <1>5 DEF Marks, storeVars
<1> QED BY <1>1, <1>2, <1>3, <1>4, <1>5, StoreSteps

LEMMA ApartStep == WInv /\ [Next]_vars => Apart'
<1> SUFFICES ASSUME WInv, [Next]_vars, NEW t \in Tx
             PROVE  /\ last'[t] # "mixed" => \A v, w \in Worker : ~(Saves(v, t)' /\ Rolls(w, t)')
                    /\ last'[t] = "rolled" => \A v \in Worker : ~Saves(v, t)'
  BY DEF Apart
<1>1. Inv1 /\ Apart
  BY DEF WInv, Inv
<1>2. ASSUME last'[t] # "mixed", NEW v \in Worker, NEW w \in Worker, Saves(v, t)', Rolls(w, t)'
      PROVE  FALSE
  <2>1. CASE ~Saves(v, t)
    BY <1>1, <1>2, <2>1, NewWork
  <2>2. CASE Saves(v, t) /\ ~Rolls(w, t)
    BY <1>1, <1>2, <2>2, NewWork
  <2>3. CASE Saves(v, t) /\ Rolls(w, t)
    <3>1. last[t] = "mixed"
      BY <1>1, <2>3 DEF Apart
    <3> QED BY <1>1, <1>2, <2>3, <3>1, Fate
  <2> QED BY <2>1, <2>2, <2>3
<1>3. ASSUME last'[t] = "rolled", NEW v \in Worker, Saves(v, t)'
      PROVE  FALSE
  <2>1. CASE last[t] = "rolled"
    <3>1. ~Saves(v, t)
      BY <1>1, <2>1 DEF Apart
    <3> QED BY <1>1, <1>3, <3>1, NewWork
  <2>2. CASE last[t] # "rolled"
    <3>1. \/ \E w \in Worker : EndRollback(w) /\ op[w].tx = t /\ last[t] = "busy"
          \/ \A u \in Worker : ~Saves(u, t)
      BY <1>1, <1>3, <2>2, Fate
    <3>2. Saves(v, t)
      BY <1>1, <1>3, NewWork
    <3>3. PICK w \in Worker : EndRollback(w) /\ op[w].tx = t /\ last[t] = "busy"
      BY <3>1, <3>2
    <3>4. Rolls(w, t)
      BY <3>3 DEF Rolls, EndRollback, Running
    <3> QED BY <1>1, <3>2, <3>3, <3>4 DEF Apart
  <2> QED BY <2>1, <2>2
<1> QED BY <1>2, <1>3

LEMMA StoredStep == WInv /\ [Next]_vars => \A w \in Worker : Stored(op[w])'
<1> SUFFICES ASSUME WInv, [Next]_vars, NEW v \in Worker PROVE Stored(op[v])'
  OBVIOUS
<1>1. Inv1 /\ Parts /\ Apart /\ Stored(op[v]) /\ op \in [Worker -> Op]
  BY DEF WInv, Inv, Inv1, TypeOK
<1>2. CASE op'[v] # op[v] /\ ~Exec(v)
  BY <1>2, OwnStep DEF Keep
<1>3. CASE op'[v] = op[v]
  <2> SUFFICES ASSUME op[v].kind = "save", op[v].at = "save", last'[op[v].tx] # "mixed",
                      NEW o \in Outs(op[v].tx) \ op[v].outs, NEW f \in Field
               PROVE  <<f, o>> \in index' \/ Sends(op[v], "put", f, o)
    BY <1>3 DEF Stored, Sends, Outs
  <2> DEFINE t == op[v].tx
  <2>1. Saves(v, t) /\ t \in Tx /\ o \in Out /\ TxOf[o] = t
    BY <1>1 DEF Saves, Inv1, Shape, OpOK, Outs
  <2>2. last[t] # "mixed"
    BY <1>1, <2>1, Fate
  <2>3. <<f, o>> \in index \/ Sends(op[v], "put", f, o)
    BY <1>1, <2>2 DEF Stored
  <2>4. ASSUME <<f, o>> \in index, <<f, o>> \notin index' PROVE FALSE
    <3>1. CASE \E w \in Worker : Rolls(w, t)
      BY <1>1, <2>1, <2>2, <3>1 DEF Apart
    <3>2. CASE RollbackRows(t)
      BY <1>1, <2>1, <3>2 DEF RollbackRows, RollEnds, Inv1, TypeOK
    <3> QED BY <1>1, <2>1, <2>4, <3>1, <3>2, IndexMoves
  <2> QED BY <2>3, <2>4
<1>4. CASE Exec(v)
  <2>1. /\ op'[v].kind = op[v].kind /\ op'[v].at = op[v].at /\ op'[v].tx = op[v].tx
        /\ op'[v].outs = op[v].outs /\ last' = last
        /\ op[v].kind = "save" => Head(op[v].todo).act # "drop"
        /\ Head(op[v].todo) = op[v].todo[1]
    BY <1>1, <1>4, ExecHead
  <2>2. Outs(op[v].tx)' = Outs(op[v].tx)
    BY <2>1 DEF Outs
  <2> SUFFICES ASSUME op[v].kind = "save", op[v].at = "save", last[op[v].tx] # "mixed",
                      NEW o \in Outs(op[v].tx) \ op[v].outs, NEW f \in Field
               PROVE  <<f, o>> \in index' \/ Sends(op'[v], "put", f, o)
    BY <2>1, <2>2 DEF Stored, Sends
  <2>3. <<f, o>> \in index \/ Sends(op[v], "put", f, o)
    BY <1>1 DEF Stored
  <2>4. o \in Out
    BY DEF Outs
  <2> DEFINE x == Head(op[v].todo)
  <2>5. <<f, o>> \in index' <=>
              \/ <<f, o>> \in index /\ ~(x.act = "drop" /\ f \in x.f /\ o \in x.o)
              \/ x.act = "put" /\ f \in x.f /\ o \in x.o
    BY <1>1, <1>4, <2>4, ExecEffect
  <2>6. Sends(op[v], "put", f, o) =>
          (x.act = "put" /\ f \in x.f /\ o \in x.o) \/ Sends(op'[v], "put", f, o)
    BY <1>1, <1>4, <2>1, Shift
  <2> HIDE DEF x
  <2> QED BY <2>1, <2>3, <2>5, <2>6 DEF x
<1> QED BY <1>2, <1>3, <1>4

\* When a save completes it has been past all its outputs, and until a rollback
\* begins nothing is taken away.
LEMMA WholeStep == WInv /\ [Next]_vars => SavedIsWhole'
<1> SUFFICES ASSUME WInv, [Next]_vars, NEW t \in Tx, last'[t] = "saved",
                    NEW f \in Field, NEW o \in Outs(t)
             PROVE  <<f, o>> \in index'
  BY DEF SavedIsWhole, Outs
<1>1. /\ Inv1 /\ Parts /\ Order /\ SavedIsWhole /\ o \in Out /\ TxOf[o] = t
      /\ \A w \in Worker : Stored(op[w])
  BY DEF WInv, Inv, Outs
<1>2. CASE last[t] = "saved"
  <2>1. <<f, o>> \in index
    BY <1>1, <1>2 DEF SavedIsWhole
  <2>2. ~\E w \in Worker : Rolls(w, t)
    BY <1>1, <1>2 DEF Order
  <2>3. ~RollbackRows(t)
    BY <1>1 DEF RollbackRows, RollEnds, Inv1, TypeOK
  <2> QED BY <1>1, <2>1, <2>2, <2>3, IndexMoves
<1>3. CASE last[t] # "saved"
  <2>1. PICK w \in Worker : EndSave(w) /\ op[w].tx = t /\ last[t] \in {"busy", "mending"}
    BY <1>1, <1>3, Fate
  <2>2. /\ op[w].kind = "save" /\ op[w].at = "save" /\ op[w].todo = <<>> /\ op[w].outs = {}
        /\ index' = index
    BY <2>1 DEF EndSave, Running, storeVars
  <2>3. <<f, o>> \in index \/ Sends(op[w], "put", f, o)
    BY <1>1, <2>1, <2>2 DEF Stored
  <2>4. Len(op[w].todo) = 0 /\ 1..0 = {}
    BY <2>2
  <2> QED BY <2>2, <2>3, <2>4 DEF Sends
<1> QED BY <1>2, <1>3

LEMMA AtomicStep == WInv /\ [Next]_vars => Atomic'
<1> SUFFICES ASSUME WInv, [Next]_vars, backend' = "sqlite",
                    NEW o \in Out, NEW f \in Field, NEW h \in Field, <<f, o>> \in index'
             PROVE  <<h, o>> \in index'
  BY DEF Atomic
<1>1. Inv1 /\ Parts /\ backend = "sqlite" /\ Atomic
  <2>1. Inv1
    BY DEF WInv, Inv
  <2>2. backend' = backend
    BY <2>1, StoreSteps DEF Exec, RollbackRows, MarkNew
  <2> QED BY <2>1, <2>2 DEF WInv
<1>2. ASSUME NEW w \in Worker, Exec(w) PROVE <<h, o>> \in index'
  <2> DEFINE x == Head(op[w].todo)
  <2>1. /\ x = op[w].todo[1] /\ Len(op[w].todo) \in Nat \ {0} /\ op[w].kind = "save"
        /\ x.act # "drop"
    BY <1>1, <1>2, ExecHead
  <2>2. 1 \in 1..Len(op[w].todo)
    BY <2>1
  <2>3. x.act = "put" => x.f = Field
    BY <1>1, <2>1, <2>2 DEF Parts, Part
  <2>4. \A g \in Field : <<g, o>> \in index' <=>
              \/ <<g, o>> \in index /\ ~(x.act = "drop" /\ g \in x.f /\ o \in x.o)
              \/ x.act = "put" /\ g \in x.f /\ o \in x.o
    BY <1>1, <1>2, ExecEffect
  <2>5. <<f, o>> \in index => <<h, o>> \in index
    BY <1>1 DEF Atomic
  <2> HIDE DEF x
  <2> QED BY <2>1, <2>3, <2>4, <2>5
<1>3. ASSUME NEW t \in Tx, RollbackRows(t) PROVE <<h, o>> \in index'
  <2>1. index' = {x \in index : TxOf[x[2]] # t}
    BY <1>3 DEF RollbackRows
  <2> QED BY <1>1, <2>1 DEF Atomic
<1>4. CASE index' = index
  BY <1>1, <1>4 DEF Atomic
<1> QED BY <1>1, <1>2, <1>3, <1>4, StoreSteps DEF storeVars, MarkNew

\* A rollback that completes has seen to every output and mark, and until a
\* save begins nothing is added.
LEMMA RolledStep == WInv /\ [Next]_vars => RolledLeavesNothing'
<1> SUFFICES ASSUME WInv, [Next]_vars, NEW t \in Tx, last'[t] = "rolled"
             PROVE  /\ \A o \in Out : spend'[o] # t
                    /\ \A o \in Outs(t), f \in Field :
                         <<f, o>> \in index' => backend' = "redis" /\ f \in {"tag", "data"}
                    /\ \A o \in Out : <<o, t>> \in hist' => backend' = "redis"
  BY DEF RolledLeavesNothing, Outs
<1>1. /\ Inv1 /\ Parts /\ Apart /\ RolledLeavesNothing
      /\ \A w \in Worker : Cleared(op[w])
  BY DEF WInv, Inv
<1>2. backend' = backend
  BY <1>1, StoreSteps DEF Exec, RollbackRows, MarkNew
<1>3. CASE last[t] = "rolled"
  <2>1. ~\E w \in Worker : Saves(w, t)
    BY <1>1, <1>3 DEF Apart
  <2>2. ASSUME NEW o \in Out PROVE spend'[o] # t
    <3>1. spend[o] # t
      BY <1>1, <1>3 DEF RolledLeavesNothing
    <3>2. ~MarkNew(t, o)
      BY <1>1, <1>3 DEF MarkNew, Inv1, TypeOK
    <3> QED BY <1>1, <2>1, <3>1, <3>2, MarkMoves
  <2>3. ASSUME NEW o \in Outs(t), NEW f \in Field, <<f, o>> \in index'
        PROVE  backend' = "redis" /\ f \in {"tag", "data"}
    <3>1. o \in Out /\ TxOf[o] = t
      BY DEF Outs
    <3>2. <<f, o>> \in index
      BY <1>1, <2>1, <2>3, <3>1, IndexMoves
    <3> QED BY <1>1, <1>2, <1>3, <3>2 DEF RolledLeavesNothing
  <2>4. ASSUME NEW o \in Out, <<o, t>> \in hist' PROVE backend' = "redis"
    <3>1. <<o, t>> \in hist
      <4>1. ASSUME NEW w \in Worker, Exec(w) PROVE <<o, t>> \in hist
        <5> DEFINE x == Head(op[w].todo)
        <5>1. /\ op[w].kind \in {"save", "roll"}
              /\ op[w].kind = "roll" => x.act \in {"free", "drop"}
          BY <1>1, <4>1, ExecHead
        <5>2. hist' = IF x.act = "hist" THEN hist \cup (x.o \X {op[w].tx}) ELSE hist
          BY <1>1, <4>1, ExecEffect
        <5>3. op[w].kind = "save" => op[w].tx # t
          BY <2>1 DEF Saves
        <5> HIDE DEF x
        <5> QED BY <2>4, <5>1, <5>2, <5>3
      <4>2. ASSUME NEW u \in Tx, RollbackRows(u) PROVE <<o, t>> \in hist
        BY <2>4, <4>2 DEF RollbackRows
      <4> QED BY <1>1, <2>4, <4>1, <4>2, StoreSteps DEF storeVars, MarkNew
    <3> QED BY <1>1, <1>2, <1>3, <3>1 DEF RolledLeavesNothing
  <2> QED BY <2>2, <2>3, <2>4
<1>4. CASE last[t] # "rolled"
  <2>1. ASSUME NEW w \in Worker, EndRollback(w), op[w].tx = t, last[t] = "busy"
        PROVE  /\ \A o \in Out : spend'[o] # t
               /\ backend = "redis"
               /\ \A o \in Outs(t), f \in Field : <<f, o>> \in index' => f \in {"tag", "data"}
    <3>1. /\ op[w].kind = "roll" /\ op[w].at = "drop" /\ op[w].todo = <<>> /\ op[w].outs = {}
          /\ UNCHANGED <<index, spend>>
      BY <2>1 DEF EndRollback, Running, storeVars
    <3>2. backend = "redis"
      BY <1>1, <3>1 DEF Inv1, Shape
    <3>3. Len(op[w].todo) = 0 /\ 1..0 = {}
      BY <3>1
    <3>4. \A o \in Out : spend[o] # t
      BY <1>1, <2>1, <3>1, <3>3 DEF Cleared, Frees
    <3>5. \A o \in Outs(t), f \in {"txo", "own"} : <<f, o>> \notin index
      BY <1>1, <2>1, <3>1, <3>3 DEF Cleared, Sends
    <3> QED BY <3>1, <3>2, <3>4, <3>5 DEF Field
  <2>2. ASSUME RollbackRows(t)
        PROVE  /\ \A o \in Out : spend'[o] # t
               /\ \A o \in Outs(t), f \in Field : <<f, o>> \notin index'
               /\ \A o \in Out : <<o, t>> \notin hist'
    <3>1. \A o \in Out : spend'[o] # t
      BY <2>2, NoneAssumption DEF RollbackRows, ClearedBy
    <3>2. \A o \in Outs(t), f \in Field : <<f, o>> \notin index'
      BY <2>2 DEF RollbackRows, Outs
    <3>3. \A o \in Out : <<o, t>> \notin hist'
      BY <2>2 DEF RollbackRows
    <3> QED BY <3>1, <3>2, <3>3
  <2> QED BY <1>1, <1>2, <1>4, <2>1, <2>2, Fate
<1> QED BY <1>3, <1>4

\* Whether a write that is sent keeps the order of those that follow it.
LEMMA OrderShift ==
  ASSUME WInv, NEW v \in Worker, Exec(v), NEW o \in Out, PutOrder(op[v], o), DropOrder(op[v], o)
  PROVE  PutOrder(op[v], o)' /\ DropOrder(op[v], o)'
<1> DEFINE x == Head(op[v].todo)
           n == Len(op[v].todo)
<1>0. Inv1
  BY DEF WInv, Inv
<1>1. /\ n \in Nat \ {0} /\ x = op[v].todo[1] /\ backend' = backend
      /\ op[v].kind \in {"save", "roll"}
      /\ op[v].kind = "save" => x.act \in {"put", "mark", "txi", "hist"}
      /\ op[v].kind = "roll" => x.act \in {"free", "drop"}
      /\ Len(op'[v].todo) = n - 1
      /\ \A k \in 1..(n - 1) : op'[v].todo[k] = op[v].todo[k + 1]
  BY <1>0, ExecHead
<1>2. /\ \A f \in Field : <<f, o>> \in index' <=>
              \/ <<f, o>> \in index /\ ~(x.act = "drop" /\ f \in x.f /\ o \in x.o)
              \/ x.act = "put" /\ f \in x.f /\ o \in x.o
  BY <1>0, ExecEffect
<1>3. op[v].todo \in Seq(Write) /\ OpOK(op[v])
  BY <1>0 DEF Inv1, TypeOK, Shape, Op
<1>4. \A k \in 1..n : /\ op[v].kind = "save" => op[v].todo[k].act # "drop"
                      /\ op[v].kind = "roll" => op[v].todo[k].act # "put"
  <2> TAKE k \in 1..n
  <2>1. op[v].kind = "save" => op[v].todo[k] \in SaveWrite(op[v].tx)
    BY <1>3 DEF OpOK
  <2>2. op[v].kind = "roll" => op[v].todo[k] \in RollWrite(op[v].tx)
    BY <1>3 DEF OpOK
  <2> QED BY <2>1, <2>2 DEF SaveWrite, RollWrite
<1>5. \A k \in 1..(n - 1) : k + 1 \in 1..n
  BY <1>1
<1>6. \A k \in 1..(n - 1) : \A j \in 1..(k + 1) :
        j = 1 \/ (j - 1 \in 1..k /\ j - 1 \in 1..(n - 1) /\ op'[v].todo[j - 1] = op[v].todo[j])
  <2> SUFFICES ASSUME NEW k \in 1..(n - 1), NEW j \in 1..(k + 1), j # 1
               PROVE  j - 1 \in 1..k /\ j - 1 \in 1..(n - 1) /\ op'[v].todo[j - 1] = op[v].todo[j]
    OBVIOUS
  <2>1. j - 1 \in 1..k /\ j - 1 \in 1..(n - 1) /\ (j - 1) + 1 = j
    BY <1>1
  <2>2. op'[v].todo[j - 1] = op[v].todo[(j - 1) + 1]
    BY <1>1, <2>1
  <2> QED BY <2>1, <2>2
<1> "txo" \in Field /\ "own" \in Field /\ Pointers' = Pointers
  BY <1>1 DEF Field, Pointers
<1> HIDE DEF x
<1>7. ASSUME NEW k \in 1..(n - 1), op'[v].todo[k].act = "put", o \in op'[v].todo[k].o,
             Pointers \cap op'[v].todo[k].f # {}
      PROVE  \/ <<"txo", o>> \in index'
             \/ \E j \in 1..k : op'[v].todo[j].act = "put" /\ o \in op'[v].todo[j].o
                                /\ "txo" \in op'[v].todo[j].f
  <2>1. op'[v].todo[k] = op[v].todo[k + 1] /\ k + 1 \in 1..n
    BY <1>1, <1>5
  <2>2. op[v].kind = "save"
    BY <1>1, <1>4, <1>7, <2>1
  <2>3. \/ <<"txo", o>> \in index
        \/ \E j \in 1..(k + 1) : op[v].todo[j].act = "put" /\ o \in op[v].todo[j].o
                                 /\ "txo" \in op[v].todo[j].f
    BY <1>7, <2>1 DEF PutOrder
  <2>4. CASE <<"txo", o>> \in index
    BY <1>1, <1>2, <2>2, <2>4
  <2>5. ASSUME NEW j \in 1..(k + 1), op[v].todo[j].act = "put", o \in op[v].todo[j].o,
               "txo" \in op[v].todo[j].f
        PROVE  \/ <<"txo", o>> \in index'
               \/ \E i \in 1..k : op'[v].todo[i].act = "put" /\ o \in op'[v].todo[i].o
                                  /\ "txo" \in op'[v].todo[i].f
    <3>1. CASE j = 1
      BY <1>1, <1>2, <2>5, <3>1
    <3>2. CASE j # 1
      BY <1>6, <2>5, <3>2
    <3> QED BY <3>1, <3>2
  <2> QED BY <2>3, <2>4, <2>5
<1>8. ASSUME NEW k \in 1..(n - 1), op'[v].todo[k].act = "drop", o \in op'[v].todo[k].o,
             "txo" \in op'[v].todo[k].f
      PROVE  \/ <<"own", o>> \notin index'
             \/ \E j \in 1..k : op'[v].todo[j].act = "drop" /\ o \in op'[v].todo[j].o
                                /\ "own" \in op'[v].todo[j].f
  <2>1. op'[v].todo[k] = op[v].todo[k + 1] /\ k + 1 \in 1..n
    BY <1>1, <1>5
  <2>2. op[v].kind = "roll"
    BY <1>1, <1>4, <1>8, <2>1
  <2>3. \/ <<"own", o>> \notin index
        \/ \E j \in 1..(k + 1) : op[v].todo[j].act = "drop" /\ o \in op[v].todo[j].o
                                 /\ "own" \in op[v].todo[j].f
    BY <1>8, <2>1 DEF DropOrder
  <2>4. CASE <<"own", o>> \notin index
    BY <1>1, <1>2, <2>2, <2>4
  <2>5. ASSUME NEW j \in 1..(k + 1), op[v].todo[j].act = "drop", o \in op[v].todo[j].o,
               "own" \in op[v].todo[j].f
        PROVE  \/ <<"own", o>> \notin index'
               \/ \E i \in 1..k : op'[v].todo[i].act = "drop" /\ o \in op'[v].todo[i].o
                                  /\ "own" \in op'[v].todo[i].f
    <3>1. CASE j = 1
      BY <1>1, <1>2, <2>5, <3>1
    <3>2. CASE j # 1
      BY <1>6, <2>5, <3>2
    <3> QED BY <3>1, <3>2
  <2> QED BY <2>3, <2>4, <2>5
<1>9. PutOrder(op[v], o)'
  BY <1>1, <1>7 DEF PutOrder
<1>10. DropOrder(op[v], o)'
  BY <1>1, <1>8 DEF DropOrder
<1> QED BY <1>9, <1>10

\* Whose output a write is of, that is to be sent.
LEMMA WriteOf ==
  ASSUME Inv1, Parts, NEW v \in Worker, NEW k \in 1..Len(op[v].todo), NEW o \in op[v].todo[k].o
  PROVE  /\ op[v].todo[k].act = "put" => Saves(v, TxOf[o])
         /\ op[v].todo[k].act = "drop" => Rolls(v, TxOf[o])
<1>1. op[v].todo \in Seq(Write) /\ OpOK(op[v]) /\ op[v] \in Op
  BY DEF Inv1, TypeOK, Shape, Op
<1>2. op[v].kind = "save" => op[v].todo[k] \in SaveWrite(op[v].tx)
  BY <1>1 DEF OpOK
<1>3. op[v].kind = "roll" => op[v].todo[k] \in RollWrite(op[v].tx)
  BY <1>1 DEF OpOK
<1>4. op[v].kind # "idle"
  <2>1. Len(<<>>) = 0 /\ 1..0 = {}
    OBVIOUS
  <2> QED BY <1>1, <2>1 DEF OpOK
<1>5. op[v].kind \in {"save", "roll"}
  BY <1>1, <1>4 DEF Op
<1>6. CASE op[v].todo[k].act = "put"
  <2>1. op[v].kind = "save"
    BY <1>3, <1>5, <1>6 DEF RollWrite
  <2>2. TxOf[o] = Of(op[v])
    BY <1>6, <2>1 DEF Parts, Part, Outs
  <2> QED BY <1>6, <2>1, <2>2 DEF Saves, Of
<1>7. CASE op[v].todo[k].act = "drop"
  <2>1. op[v].kind = "roll"
    BY <1>2, <1>5, <1>7 DEF SaveWrite
  <2>2. TxOf[o] = op[v].tx
    BY <1>7, <2>1 DEF Parts, Part, Outs
  <2> QED BY <1>7, <2>1, <2>2 DEF Rolls
<1> QED BY <1>6, <1>7

LEMMA ResolveStep == WInv /\ [Next]_vars => Resolve'
<1> SUFFICES ASSUME WInv, [Next]_vars, NEW o \in Out, last'[TxOf[o]] \notin Unordered
             PROVE  /\ \A f \in Pointers' : <<f, o>> \in index' => <<"txo", o>> \in index'
                    /\ \A w \in Worker : PutOrder(op[w], o)' /\ DropOrder(op[w], o)'
  BY DEF Resolve
<1> DEFINE t == TxOf[o]
<1>1. /\ Inv1 /\ Inv1' /\ Order /\ Order' /\ Parts /\ Apart /\ Resolve /\ t \in Tx
      /\ op \in [Worker -> Op]
  BY NextTypes, OrderStep, TxOfType DEF WInv, Inv, Inv1, TypeOK
<1>2. backend' = backend /\ Pointers' = Pointers /\ Pointers \subseteq Field
  <2>1. backend' = backend
    BY <1>1, StoreSteps DEF Exec, RollbackRows, MarkNew
  <2> QED BY <2>1 DEF Pointers, Field
<1>3. "txo" \in Field /\ "own" \in Field /\ "own" \in Pointers
  BY DEF Field, Pointers
\* A save that put things in order has saved the record.
<1>4. CASE last[t] \in Unordered
  <2>1. last'[t] = "saved"
    BY <1>1, <1>4, Fate DEF Unordered
  <2>2. <<"txo", o>> \in index'
    <3>1. SavedIsWhole'
      BY WholeStep
    <3>2. Field \X Outs(t) \subseteq index'
      BY <1>1, <2>1, <3>1 DEF SavedIsWhole, Outs
    <3>3. o \in Outs(t)
      BY DEF Outs
    <3> HIDE DEF t
    <3> QED BY <1>3, <3>2, <3>3
  <2>3. Parts'
    BY PartsStep
  <2>4. ASSUME NEW w \in Worker PROVE PutOrder(op[w], o)' /\ DropOrder(op[w], o)'
    <3>1. ASSUME NEW k \in 1..Len(op'[w].todo), op'[w].todo[k].act = "drop", o \in op'[w].todo[k].o
          PROVE  FALSE
      <4>1. op'[w].todo \in Seq(Write) /\ OpOK(op'[w]) /\ op'[w] \in Op
        BY <1>1 DEF Inv1, TypeOK, Shape, Op
      <4>2. op'[w].kind = "roll"
        <5>1. op'[w].kind = "save" => op'[w].todo[k] \in SaveWrite(op'[w].tx)
          BY <4>1 DEF OpOK
        <5>2. op'[w].kind # "idle"
          <6>1. Len(<<>>) = 0 /\ 1..0 = {}
            OBVIOUS
          <6> QED BY <4>1, <6>1 DEF OpOK
        <5>3. op'[w].kind \in {"idle", "save", "roll"}
          BY <4>1 DEF Op
        <5> QED BY <3>1, <5>1, <5>2, <5>3 DEF SaveWrite
      <4>3. op'[w].tx = t
        BY <2>3, <3>1, <4>2 DEF Parts, Part, Outs
      <4> QED BY <1>1, <2>1, <4>2, <4>3 DEF Order, Rolls
    <3> QED BY <2>2, <3>1 DEF PutOrder, DropOrder
  <2> QED BY <2>2, <2>4
<1>5. CASE last[t] \notin Unordered
  <2>1. /\ \A f \in Pointers : <<f, o>> \in index => <<"txo", o>> \in index
        /\ \A w \in Worker : PutOrder(op[w], o) /\ DropOrder(op[w], o)
    BY <1>1, <1>5 DEF Resolve
  \* No save and rollback of the transaction at a time.
  <2>2. \A v, w \in Worker : ~(Saves(v, t) /\ Rolls(w, t))
    BY <1>1, <1>5 DEF Apart, Unordered
  <2>3. ASSUME RollbackRows(t) PROVE \A f \in Field : <<f, o>> \notin index'
    BY <2>3 DEF RollbackRows
  <2>4. ASSUME NEW f \in Pointers, <<f, o>> \in index' PROVE <<"txo", o>> \in index'
    <3>1. CASE <<f, o>> \notin index
      <4>1. PICK w \in Worker : /\ Exec(w) /\ Saves(w, t) /\ op[w].todo[1].act = "put"
                                /\ f \in op[w].todo[1].f /\ o \in op[w].todo[1].o
        BY <1>1, <1>2, <2>4, <3>1, IndexMoves
      <4>2. Len(op[w].todo) \in Nat \ {0} /\ op[w].todo[1] = Head(op[w].todo)
        BY <1>1, <4>1, ExecHead
      <4>3. 1 \in 1..Len(op[w].todo) /\ \A j \in 1..1 : j = 1
        BY <4>2
      <4>4. \/ <<"txo", o>> \in index
            \/ "txo" \in op[w].todo[1].f
        BY <2>1, <4>1, <4>3 DEF PutOrder
      <4> DEFINE x == Head(op[w].todo)
      <4>5. <<"txo", o>> \in index' <=>
              \/ <<"txo", o>> \in index /\ ~(x.act = "drop" /\ "txo" \in x.f /\ o \in x.o)
              \/ x.act = "put" /\ "txo" \in x.f /\ o \in x.o
        BY <1>1, <1>3, <4>1, ExecEffect
      <4>6. x = op[w].todo[1]
        BY <4>2
      <4> HIDE DEF x
      <4> QED BY <4>1, <4>4, <4>5, <4>6
    <3>2. CASE <<f, o>> \in index /\ <<"txo", o>> \notin index'
      <4>1. <<"txo", o>> \in index
        BY <2>1, <3>2
      <4>2. ~RollbackRows(t)
        BY <1>2, <2>3, <2>4
      <4>3. PICK w \in Worker : /\ Exec(w) /\ Rolls(w, t) /\ op[w].todo[1].act = "drop"
                                /\ "txo" \in op[w].todo[1].f /\ o \in op[w].todo[1].o
        BY <1>1, <1>3, <3>2, <4>1, <4>2, IndexMoves
      <4>4. /\ Len(op[w].todo) \in Nat \ {0} /\ op[w].todo[1] = Head(op[w].todo)
            /\ op[w].kind = "roll" => backend = "redis"
        BY <1>1, <4>3, ExecHead
      <4>5. f = "own"
        BY <4>3, <4>4 DEF Rolls, Pointers
      <4>6. 1 \in 1..Len(op[w].todo) /\ \A j \in 1..1 : j = 1
        BY <4>4
      <4>7. "own" \in op[w].todo[1].f
        BY <2>1, <3>2, <4>3, <4>5, <4>6 DEF DropOrder
      <4> DEFINE x == Head(op[w].todo)
      <4>8. <<"own", o>> \in index' <=>
              \/ <<"own", o>> \in index /\ ~(x.act = "drop" /\ "own" \in x.f /\ o \in x.o)
              \/ x.act = "put" /\ "own" \in x.f /\ o \in x.o
        BY <1>1, <1>3, <4>3, ExecEffect
      <4>9. x = op[w].todo[1]
        BY <4>4
      <4> HIDE DEF x
      <4> QED BY <2>4, <4>3, <4>5, <4>7, <4>8, <4>9
    <3> QED BY <3>1, <3>2
  <2>5. ASSUME NEW v \in Worker PROVE PutOrder(op[v], o)' /\ DropOrder(op[v], o)'
    <3>1. CASE op'[v] # op[v] /\ ~Exec(v)
      BY <3>1, OwnStep DEF Keep
    <3>2. CASE Exec(v)
      BY <2>1, <3>2, OrderShift
    <3>3. CASE op'[v] = op[v]
      \* What v has yet to write of o it writes for t, and nobody takes it away.
      <4>2. ASSUME NEW k \in 1..Len(op[v].todo), op[v].todo[k].act = "put", o \in op[v].todo[k].o
            PROVE  <<"txo", o>> \in index => <<"txo", o>> \in index'
        <5>1. Saves(v, t)
          BY <1>1, <4>2, WriteOf
        <5>2. ~RollbackRows(t)
          <6>1. RollbackRows(t) => last'[t] = "mixed"
            BY <1>1, <5>1 DEF RollbackRows, RollEnds, Inv1, TypeOK
          <6> QED BY <6>1 DEF Unordered
        <5> QED BY <1>1, <1>3, <2>2, <5>1, <5>2, IndexMoves
      <4>4. ASSUME NEW k \in 1..Len(op[v].todo), op[v].todo[k].act = "drop", o \in op[v].todo[k].o
            PROVE  <<"own", o>> \notin index => <<"own", o>> \notin index'
        <5>1. Rolls(v, t)
          BY <1>1, <4>4, WriteOf
        <5> QED BY <1>1, <1>3, <2>2, <5>1, IndexMoves
      <4>5. PutOrder(op[v], o)'
        BY <1>2, <2>1, <3>3, <4>2 DEF PutOrder
      <4>6. DropOrder(op[v], o)'
        BY <2>1, <3>3, <4>4 DEF DropOrder
      <4> QED BY <4>5, <4>6
    <3> QED BY <3>1, <3>2, <3>3
  <2> QED BY <1>2, <2>4, <2>5
<1> QED BY <1>4, <1>5

LEMMA ClearedStep == WInv /\ [Next]_vars => \A w \in Worker : Cleared(op[w])'
<1> SUFFICES ASSUME WInv, [Next]_vars, NEW v \in Worker PROVE Cleared(op[v])'
  OBVIOUS
<1>1. /\ Inv1 /\ Parts /\ Apart /\ Cleared(op[v]) /\ op \in [Worker -> Op]
  BY DEF WInv, Inv, Inv1, TypeOK
<1>2. CASE op'[v] # op[v] /\ ~Exec(v)
  BY <1>2, OwnStep DEF Keep
<1> DEFINE t == op[v].tx
<1>3. CASE op'[v] = op[v] \/ Exec(v)
  <2>1. /\ op'[v].kind = op[v].kind /\ op'[v].at = op[v].at /\ op'[v].tx = op[v].tx
        /\ op'[v].outs = op[v].outs
    BY <1>1, <1>3, ExecHead
  <2>2. Outs(t)' = Outs(t)
    BY <2>1 DEF Outs
  <2> SUFFICES ASSUME op[v].kind = "roll", last'[t] # "mixed"
               PROVE  /\ op[v].at \in {"look", "drop"} =>
                           \A o \in Outs(t), f \in {"txo", "own"} :
                             <<f, o>> \in index' => o \in op[v].outs \/ Sends(op'[v], "drop", f, o)
                      /\ op[v].at = "drop" => \A o \in Out : spend'[o] = t => Frees(op'[v], o)
    BY <2>1, <2>2 DEF Cleared, Sends, Frees
  <2>3. Rolls(v, t) /\ t \in Tx
    BY <1>1 DEF Rolls, Inv1, Shape, OpOK
  <2>4. last[t] # "mixed"
    BY <1>1, <2>3, Fate
  <2>5. \A w \in Worker : ~Saves(w, t)
    BY <1>1, <2>3, <2>4 DEF Apart
  <2>6. ASSUME op[v].at \in {"look", "drop"}, NEW o \in Outs(t), NEW f \in {"txo", "own"},
               <<f, o>> \in index'
        PROVE  o \in op[v].outs \/ Sends(op'[v], "drop", f, o)
    <3>1. o \in Out /\ TxOf[o] = t /\ f \in Field
      BY DEF Outs, Field
    <3>2. <<f, o>> \in index
      BY <1>1, <2>5, <2>6, <3>1, IndexMoves
    <3>3. o \in op[v].outs \/ Sends(op[v], "drop", f, o)
      BY <1>1, <2>4, <2>6, <3>2 DEF Cleared
    <3>4. CASE op'[v] = op[v]
      BY <3>3, <3>4
    <3>5. CASE Exec(v)
      <4> DEFINE x == Head(op[v].todo)
      <4>1. <<f, o>> \in index' <=>
              \/ <<f, o>> \in index /\ ~(x.act = "drop" /\ f \in x.f /\ o \in x.o)
              \/ x.act = "put" /\ f \in x.f /\ o \in x.o
        BY <1>1, <3>1, <3>5, ExecEffect
      <4>2. x = op[v].todo[1] /\ x.act \in {"free", "drop"}
        BY <1>1, <3>5, ExecHead
      <4>3. Sends(op[v], "drop", f, o) =>
              \/ op[v].todo[1].act = "drop" /\ f \in op[v].todo[1].f /\ o \in op[v].todo[1].o
              \/ Sends(op'[v], "drop", f, o)
        BY <1>1, <3>5, Shift
      <4> HIDE DEF x
      <4> QED BY <2>6, <3>3, <4>1, <4>2, <4>3
    <3> QED BY <1>3, <3>4, <3>5
  <2>7. ASSUME op[v].at = "drop", NEW o \in Out, spend'[o] = t
        PROVE  Frees(op'[v], o)
    <3>1. ~MarkNew(t, o)
      <4>1. MarkNew(t, o) => last'[t] = "mixed"
        BY <1>1, <2>3 DEF MarkNew, Inv1, TypeOK
      <4> QED BY <4>1
    <3>2. spend[o] = t
      BY <1>1, <2>3, <2>5, <2>7, <3>1, MarkMoves
    <3>3. Frees(op[v], o)
      BY <1>1, <2>4, <2>7, <3>2 DEF Cleared
    <3>4. CASE op'[v] = op[v]
      BY <3>3, <3>4
    <3>5. CASE Exec(v)
      <4> DEFINE x == Head(op[v].todo)
      <4>1. spend'[o] = IF x.act = "mark" /\ o \in x.o THEN op[v].tx
                        ELSE IF x.act = "free" /\ o \in x.o THEN None ELSE spend[o]
        BY <1>1, <3>5, ExecEffect
      <4>2. x = op[v].todo[1] /\ x.act \in {"free", "drop"}
        BY <1>1, <3>5, ExecHead
      <4>3. \/ op[v].todo[1].act = "free" /\ o \in op[v].todo[1].o
            \/ Frees(op'[v], o)
        BY <1>1, <3>3, <3>5, Shift
      <4> HIDE DEF x
      <4> QED BY <2>3, <2>7, <4>1, <4>2, <4>3, NoneAssumption
    <3> QED BY <1>3, <3>4, <3>5
  <2> QED BY <2>6, <2>7
<1> QED BY <1>2, <1>3

LEMMA WInvHolds == Spec => []WInv
<1>1. Init => WInv
  <2> SUFFICES ASSUME Init PROVE WInv
    OBVIOUS
  <2>1. Inv
    <3>1. Inv1
      BY InitTypes
    <3> QED BY <3>1, IdleOK DEF Init, Inv, Claims, Order, Rolls
  <2>2. \A w \in Worker : op[w] = Idle /\ Idle.kind = "idle" /\ Idle.todo = <<>>
    BY DEF Init, Idle
  <2>3. Len(<<>>) = 0 /\ 1..0 = {}
    OBVIOUS
  <2>4. \A w \in Worker : Part(op[w]) /\ Stored(op[w]) /\ Cleared(op[w])
    BY <2>2 DEF Part, Stored, Cleared
  <2>5. \A w \in Worker, o \in Out : PutOrder(op[w], o) /\ DropOrder(op[w], o)
    BY <2>2, <2>3 DEF PutOrder, DropOrder
  <2>6. Resolve
    BY <2>5 DEF Resolve, Init
  <2>7. Marks /\ Apart /\ Atomic /\ SavedIsWhole /\ RolledLeavesNothing
    <3>1. /\ \A t \in Tx : last[t] = "none" /\ txi[t] = {}
          /\ \A o \in Out : spend[o] = None
          /\ index = {}
      BY DEF Init
    <3>2. Marks
      BY <3>1 DEF Marks
    <3>3. Apart
      <4>1. \A v \in Worker, t \in Tx : ~Saves(v, t) /\ ~Rolls(v, t)
        BY <2>2 DEF Saves, Rolls
      <4> QED BY <4>1 DEF Apart
    <3>4. Atomic
      BY <3>1 DEF Atomic
    <3>5. SavedIsWhole /\ RolledLeavesNothing
      BY <3>1 DEF SavedIsWhole, RolledLeavesNothing
    <3> QED BY <3>2, <3>3, <3>4, <3>5
  <2> QED BY <2>1, <2>4, <2>6, <2>7 DEF WInv, Parts
<1>2. WInv /\ [Next]_vars => WInv'
  <2> SUFFICES ASSUME WInv, [Next]_vars PROVE WInv'
    OBVIOUS
  <2>1. Inv'
    BY NextTypes, ClaimsStep, OrderStep DEF WInv, Inv
  <2>2. Parts' /\ Marks' /\ Apart'
    BY PartsStep, MarksStep, ApartStep
  <2>3. (\A w \in Worker : Stored(op[w]))' /\ (\A w \in Worker : Cleared(op[w]))'
    BY StoredStep, ClearedStep
  <2>4. SavedIsWhole' /\ Resolve' /\ Atomic' /\ RolledLeavesNothing'
    BY WholeStep, ResolveStep, AtomicStep, RolledStep
  <2> QED BY <2>1, <2>2, <2>3, <2>4 DEF WInv
<1> QED BY <1>1, <1>2, PTL DEF Spec

\* Whatever the store and whoever runs beside it: a transaction whose save
\* completed is stored with every field of every output, although saves are many
\* commands (txos.go: SaveTxos, saveTxo) and others may save the same outputs.
THEOREM SavedWhole == Spec => []SavedIsWhole
<1>1. WInv => SavedIsWhole
  BY DEF WInv
<1> QED BY <1>1, WInvHolds, PTL

\* A transaction whose rollback completed has no mark on an input, and its outputs
\* have no record and no entry under an owner, whatever half-done saves came before
\* it; on the SQL stores nothing of it is left (txos.go: Rollback, RollbackTxo).
THEOREM RolledClean == Spec => []RolledLeavesNothing
<1>1. WInv => RolledLeavesNothing
  BY DEF WInv
<1> QED BY <1>1, WInvHolds, PTL

\* An entry that a search by owner finds has its record, in the middle of a save
\* or of a rollback as well, unless a save and a rollback of the transaction overlapped;
\* in SQLite even then (txos.go: saveTxo writes the record first, RollbackTxo last).
THEOREM EntriesHaveRecords == Spec => []EntriesResolve
<1>1. WInv => EntriesResolve
  <2> SUFFICES ASSUME WInv, NEW o \in Out,
                      last[TxOf[o]] \notin Unordered \/ backend = "sqlite",
                      NEW f \in (IF backend = "redis" THEN {"own"} ELSE {"own", "tag"}),
                      <<f, o>> \in index
               PROVE  <<"txo", o>> \in index
    BY DEF EntriesResolve
  <2>1. f \in Field /\ "txo" \in Field /\ f \in Pointers
    BY DEF Field, Pointers
  <2> QED BY <2>1 DEF WInv, Resolve, Atomic
<1> QED BY <1>1, WInvHolds, PTL
=============================================================================
