-------------------------- MODULE Broadcast_proofs --------------------------
(* The reservation of inputs by broadcast requests, what they undo, and the *)
(* log of what was accepted, for any set of requests and transactions, any  *)
(* interleaving, and any number of store errors, crashes, rollbacks and     *)
(* ingests, on a store that honours marks.                                  *)
EXTENDS Broadcast, SequenceTheorems, TLAPS

\* A request that lost nothing still has the marks of the inputs it has been
\* through, from its first mark on and for good once it is submitted.
Marked ==
  \A r \in Requests \ lost : pc[r] \in Marking \cup Submitted =>
    \A i \in 1..(vin[r] - 1) : spend[In(r)[i]] = Tx(r)

\* A request that is submitted has been through all its inputs.
Full == \A r \in Requests : pc[r] \in Submitted => vin[r] = Len(In(r)) + 1

\* A request has no marks before it starts marking.
Fresh == \A r \in Requests : pc[r] \in {"new", "log"} => vin[r] = 1

\* A request that looks at a mark looks at one of its inputs.
Looking == \A r \in Requests : pc[r] = "look" => vin[r] <= Len(In(r))

IInv == TypeOK /\ Marked /\ Full /\ Fresh /\ Looking

\* The places of a request are pairwise distinct; the groups are what they are.
LEMMA PlaceFacts ==
  /\ Marking \subseteq Places /\ Submitted \subseteq Places /\ Unwinding \subseteq Places
  /\ {"new", "log", "failed", "dead"} \subseteq Places
  /\ Marking \cap Submitted = {}
  /\ Submitted \cap Unwinding = {}
  /\ {"new", "log", "failed", "dead"} \cap (Marking \cup Submitted) = {}
BY DEF Places, Marking, Submitted, Submitting, Unwinding

\* The inputs of a request are outputs, and so is each of those it went through.
LEMMA InputFacts ==
  ASSUME NEW r \in Requests
  PROVE  /\ Tx(r) \in Txids
         /\ In(r) \in Seq(Outpoints)
         /\ Len(In(r)) \in Nat
         /\ \A i \in 1..Len(In(r)) : In(r)[i] \in Outpoints
BY ReqTxType, InputsType, LenProperties, ElementOfSeq DEF Tx, In

\* Active requests do not conflict when the invariant holds: both would have
\* marked the output they share.
LEMMA IInvExclusive == IInv => ExclusiveSubmission
<1> SUFFICES ASSUME IInv, NEW q \in Active, NEW r \in Active,
                    <<q, r>> \in Conflicts
             PROVE  FALSE
  BY DEF ExclusiveSubmission
<1>1. q \in Requests /\ r \in Requests
  BY DEF Active
<1>2. \A s \in {q, r} : \A i \in 1..Len(Inputs[Tx(s)]) : spend[Inputs[Tx(s)][i]] = Tx(s)
  <2> SUFFICES ASSUME NEW s \in {q, r}
               PROVE  \A i \in 1..Len(Inputs[Tx(s)]) : spend[Inputs[Tx(s)][i]] = Tx(s)
    OBVIOUS
  <2>1. s \in Requests \ lost /\ pc[s] \in Submitted
    BY DEF Active
  <2>2. vin[s] - 1 = Len(In(s))
    BY <2>1, InputFacts DEF IInv, Full
  <2>3. QED
    BY <2>1, <2>2 DEF IInv, Marked, In, Tx
<1>3. PICK o : o \in Spends(Tx(q)) \cap Spends(Tx(r))
  BY <1>1 DEF Conflicts
<1>4. spend[o] = Tx(q) /\ spend[o] = Tx(r)
  BY <1>2, <1>3 DEF Spends
<1>5. Tx(q) # Tx(r)
  BY <1>1 DEF Conflicts
<1>6. QED
  BY <1>4, <1>5

\* The system starts in the invariant.
LEMMA InitIInv == Init => IInv
<1> SUFFICES ASSUME Init PROVE IInv
  OBVIOUS
<1>1. TypeOK
  <2>1. /\ spend \in [Outpoints -> Txids \cup {None}]
        /\ pending \in [Txids -> {"none", "attempt", "sent"}]
        /\ pc \in [Requests -> Places]
        /\ vin \in [Requests -> Nat \ {0}]
        /\ dels \in [Requests -> SUBSET Outpoints]
        /\ rbdels \in [Txids -> SUBSET Outpoints]
    BY PlaceFacts DEF Init
  <2>2. \A r \in Requests : vin[r] <= Len(In(r)) + 1
    BY InputFacts DEF Init
  <2>3. QED
    BY <2>1, <2>2 DEF Init, TypeOK, Earlier
<1>2. \A r \in Requests : pc[r] = "new"
  BY DEF Init
<1>3. Marked /\ Full /\ Fresh /\ Looking
  BY <1>2, PlaceFacts DEF Marked, Full, Fresh, Looking, Init
<1>4. QED
  BY <1>1, <1>3 DEF IInv

(***************************************************************************)
(* Type correctness.                                                       *)
(***************************************************************************)

\* A request that goes from one place to another is still at a place.
LEMMA GotoType ==
  ASSUME TypeOK, NEW r \in Requests, NEW to \in Places, NEW from, Goto(r, from, to)
  PROVE  pc' \in [Requests -> Places]
BY DEF TypeOK, Goto

\* Overwriting marks with transactions or with no mark keeps the types.
LEMMA OverwriteType ==
  ASSUME TypeOK, NEW by,
         NEW sp \in [Outpoints -> Txids \cup {None}], Overwrite(sp, by)
  PROVE  /\ spend' \in [Outpoints -> Txids \cup {None}]
         /\ lost' \subseteq Requests
         /\ overtaken' \subseteq Requests
         /\ submitted' \subseteq Txids
BY DEF TypeOK, Overwrite

\* A store error is charged to the transaction of the request.
LEMMA FaultType ==
  ASSUME TypeOK, NEW r \in Requests, Fault(r) \/ LogFault(r) \/ NoFault
  PROVE  faulted' \subseteq Txids
BY InputFacts DEF TypeOK, Fault, LogFault, NoFault

\* What a step of the marking loop does: it may set the mark of the next input,
\* if that is free, and it may go on to the input after it if that input is
\* now marked for its own transaction.
LEMMA MarkEffect ==
  ASSUME IInv, NEW r \in Requests, Mark(r) \/ Look(r)
  PROVE  /\ vin[r] \in 1..Len(In(r))
         /\ In(r)[vin[r]] \in Outpoints
         /\ \/ spend' = spend
            \/ /\ Free(In(r)[vin[r]])
               /\ spend' = [spend EXCEPT ![In(r)[vin[r]]] = Tx(r)]
         /\ \/ vin' = vin
            \/ /\ vin' = [vin EXCEPT ![r] = vin[r] + 1]
               /\ spend'[In(r)[vin[r]]] = Tx(r)
         /\ \E from \in Marking, to \in Places \ Submitted :
               /\ Goto(r, from, to)
               /\ to \in Marking \/ vin' = vin
               /\ to = "look" => vin' = vin
         /\ UNCHANGED <<backend, pending, removed, saved, dels, rb, rbdels, queued, audit,
                        submitted, lost, overtaken>>
<1>1. vin[r] \in Nat \ {0} /\ vin[r] <= Len(In(r)) /\ Len(In(r)) \in Nat
  BY InputFacts DEF IInv, TypeOK, Looking, Mark, Look
<1>2. vin[r] \in 1..Len(In(r))
  BY <1>1
<1>3. In(r)[vin[r]] \in Outpoints
  BY <1>2, InputFacts
<1>4. \/ spend' = spend
      \/ /\ Free(In(r)[vin[r]])
         /\ spend' = [spend EXCEPT ![In(r)[vin[r]]] = Tx(r)]
  BY DEF Mark, Look, NoOverwrite
<1>5. \/ vin' = vin
      \/ /\ vin' = [vin EXCEPT ![r] = vin[r] + 1]
         /\ spend'[In(r)[vin[r]]] = Tx(r)
  <2>1. CASE Mark(r)
    <3>1. \/ vin' = vin
          \/ /\ vin' = [vin EXCEPT ![r] = vin[r] + 1]
             /\ spend' = [spend EXCEPT ![In(r)[vin[r]]] = Tx(r)]
      BY <2>1 DEF Mark
    <3>2. QED
      BY <3>1, <1>3 DEF IInv, TypeOK
  <2>2. CASE Look(r)
    BY <2>2 DEF Look, NoOverwrite
  <2>3. QED
    BY <2>1, <2>2
<1>6. \E from \in Marking, to \in Places \ Submitted :
        /\ Goto(r, from, to)
        /\ to \in Marking \/ vin' = vin
        /\ to = "look" => vin' = vin
  <2>1. /\ {"mark", "look"} = Marking
        /\ {"mark", "look", "unread", "failed"} \subseteq Places \ Submitted
    BY DEF Places, Marking, Submitted, Submitting, Unwinding
  <2>2. CASE Mark(r)
    BY <2>1, <2>2 DEF Mark, Unwind
  <2>3. CASE Look(r)
    BY <2>1, <2>3 DEF Look, Unwind
  <2>4. QED
    BY <2>2, <2>3
<1>7. UNCHANGED <<backend, pending, removed, saved, dels, rb, rbdels, queued, audit,
                  submitted, lost, overtaken>>
  BY DEF Mark, Look, NoOverwrite, logVars, serviceVars
<1>8. QED
  BY <1>2, <1>3, <1>4, <1>5, <1>6, <1>7

\* A write to the log keeps the types.
LEMMA LogType ==
  ASSUME TypeOK, NEW t \in Txids,
         \/ UNCHANGED logVars
         \/ Remove(t)
         \/ \E score \in {"none", "attempt", "sent"} : Log(t, score)
  PROVE  pending' \in [Txids -> {"none", "attempt", "sent"}] /\ removed' \subseteq Txids
BY DEF TypeOK, Log, Remove, logVars

\* Steps of a request before the answer of ARC keep the types.
LEMMA RequestTypeMarks ==
  ASSUME IInv, NEW r \in Requests,
         Vet(r) \/ LogAttempt(r) \/ Mark(r) \/ Look(r) \/ AllMarked(r)
  PROVE  TypeOK'
<1>0. TypeOK
  BY DEF IInv
<1> USE <1>0, PlaceFacts, InputFacts
<1> USE DEF logVars, rbVars, serviceVars, NoOverwrite
<1>1. CASE Vet(r)
  BY <1>1, GotoType DEF Vet, TypeOK, NoFault
<1>2. CASE LogAttempt(r)
  <2>1. pc' \in [Requests -> Places]
    BY <1>2, GotoType DEF LogAttempt, Marking
  <2>2. faulted' \subseteq Txids
    BY <1>2, FaultType DEF LogAttempt
  <2>3. pending' \in [Txids -> {"none", "attempt", "sent"}] /\ removed' \subseteq Txids
    BY <1>2, LogType DEF LogAttempt
  <2>4. QED
    BY <1>2, <2>1, <2>2, <2>3 DEF LogAttempt, TypeOK
<1>3. CASE Mark(r) \/ Look(r)
  <2>1. pc' \in [Requests -> Places]
    BY <1>3, MarkEffect, GotoType
  <2>2. faulted' \subseteq Txids
    BY <1>3, FaultType DEF Mark, Look
  <2>3. spend' \in [Outpoints -> Txids \cup {None}]
    <3>1. /\ In(r)[vin[r]] \in Outpoints
          /\ \/ spend' = spend
             \/ spend' = [spend EXCEPT ![In(r)[vin[r]]] = Tx(r)]
      BY <1>3, MarkEffect
    <3>2. spend \in [Outpoints -> Txids \cup {None}] /\ Tx(r) \in Txids
      BY DEF TypeOK
    <3>3. QED
      BY <3>1, <3>2
  <2>4. /\ vin' \in [Requests -> Nat \ {0}]
        /\ \A q \in Requests : vin'[q] <= Len(In(q)) + 1
    <3>1. /\ vin[r] \in Nat \ {0} /\ vin[r] <= Len(In(r))
          /\ vin' = vin \/ vin' = [vin EXCEPT ![r] = vin[r] + 1]
      BY <1>3, MarkEffect
    <3>2. /\ vin \in [Requests -> Nat \ {0}]
          /\ \A q \in Requests : vin[q] <= Len(In(q)) + 1
      BY DEF TypeOK
    <3>3. CASE vin' = vin
      BY <3>2, <3>3
    <3>4. CASE vin' = [vin EXCEPT ![r] = vin[r] + 1]
      BY <3>1, <3>2, <3>4
    <3>5. QED
      BY <3>1, <3>3, <3>4
  <2>5. QED
    BY <1>3, <2>1, <2>2, <2>3, <2>4, MarkEffect DEF TypeOK
<1>5. CASE AllMarked(r)
  <2>1. pc' \in [Requests -> Places]
    BY <1>5, GotoType DEF AllMarked, Submitted, Submitting
  <2>2. QED
    BY <1>5, <2>1 DEF AllMarked, TypeOK, NoFault
<1>6. QED
  BY <1>1, <1>2, <1>3, <1>5

\* The later steps of a request keep the types.
LEMMA RequestTypeRest ==
  ASSUME TypeOK, NEW r \in Requests,
         \/ Submit(r) \/ Answer(r) \/ Accept(r) \/ Ingest(r) \/ IngestLog(r)
         \/ Unread(r) \/ Unset(r) \/ Delog(r)
  PROVE  TypeOK'
<1> USE DEF logVars, rbVars, serviceVars, NoOverwrite
<1>a. /\ {"wait", "accept", "ingest", "ilog", "ok"} \subseteq Places
      /\ {"failed", "unread", "unset", "delog"} \subseteq Places
  BY DEF Places, Submitted, Submitting, Unwinding
<1>b. Tx(r) \in Txids
  BY InputFacts
<1>1. CASE Submit(r)
  <2>1. pc' \in [Requests -> Places]
    BY <1>1, <1>a, GotoType DEF Submit
  <2>2. QED
    BY <1>1, <1>b, <2>1 DEF Submit, TypeOK, NoFault
<1>2. CASE Answer(r)
  <2>1. pc' \in [Requests -> Places]
    BY <1>2, <1>a, GotoType DEF Answer, Unwind
  <2>2. QED
    BY <1>2, <2>1 DEF Answer, TypeOK, NoFault
<1>3. CASE Accept(r) \/ IngestLog(r) \/ Delog(r)
  <2>1. pc' \in [Requests -> Places]
    BY <1>3, <1>a, GotoType DEF Accept, IngestLog, Delog
  <2>2. faulted' \subseteq Txids
    BY <1>3, FaultType DEF Accept, IngestLog, Delog
  <2>3. pending' \in [Txids -> {"none", "attempt", "sent"}] /\ removed' \subseteq Txids
    BY <1>3, <1>b, LogType DEF Accept, IngestLog, Delog
  <2>4. QED
    BY <1>3, <2>1, <2>2, <2>3 DEF Accept, IngestLog, Delog, TypeOK
<1>4. CASE Ingest(r)
  <2>1. pc' \in [Requests -> Places]
    BY <1>4, <1>a, GotoType DEF Ingest
  <2>2. SpentBy(Tx(r)) \in [Outpoints -> Txids \cup {None}]
    BY <1>b DEF SpentBy, TypeOK
  <2>3. /\ spend' \in [Outpoints -> Txids \cup {None}]
        /\ lost' \subseteq Requests /\ overtaken' \subseteq Requests
        /\ submitted' \subseteq Txids
    <3>1. CASE Overwrite(SpentBy(Tx(r)), {r})
      BY <2>2, <3>1, OverwriteType
    <3>2. CASE NoOverwrite /\ UNCHANGED submitted
      BY <3>2 DEF TypeOK
    <3>3. QED
      BY <1>4, <3>1, <3>2 DEF Ingest
  <2>4. QED
    BY <1>4, <1>b, <2>1, <2>3 DEF Ingest, TypeOK, NoFault
<1>5. CASE Unread(r)
  <2>1. pc' \in [Requests -> Places]
    BY <1>5, <1>a, GotoType DEF Unread
  <2>2. faulted' \subseteq Txids
    BY <1>5, FaultType DEF Unread
  <2>3. Prefix(r) \subseteq Outpoints
    BY InputFacts DEF Prefix, TypeOK
  <2>4. FoundMarks(r) \subseteq SUBSET Outpoints
    BY <2>3 DEF FoundMarks, OwnMarks
  <2>5. dels' \in [Requests -> SUBSET Outpoints]
    BY <1>5, <2>4 DEF Unread, TypeOK
  <2>6. QED
    BY <1>5, <2>1, <2>2, <2>5 DEF Unread, TypeOK
<1>6. CASE Unset(r)
  <2>1. pc' \in [Requests -> Places]
    BY <1>6, <1>a, GotoType DEF Unset
  <2>2. faulted' \subseteq Txids
    BY <1>6, FaultType DEF Unset
  <2>3. Without(dels[r]) \in [Outpoints -> Txids \cup {None}]
    BY DEF Without, TypeOK
  <2>4. /\ spend' \in [Outpoints -> Txids \cup {None}]
        /\ lost' \subseteq Requests /\ overtaken' \subseteq Requests
        /\ submitted' \subseteq Txids
    <3>1. CASE Overwrite(Without(dels[r]), {r})
      BY <2>3, <3>1, OverwriteType
    <3>2. CASE NoOverwrite /\ UNCHANGED submitted
      BY <3>2 DEF TypeOK
    <3>3. QED
      BY <1>6, <3>1, <3>2 DEF Unset
  <2>5. QED
    BY <1>6, <2>1, <2>2, <2>4 DEF Unset, TypeOK
<1>7. QED
  BY <1>1, <1>2, <1>3, <1>4, <1>5, <1>6

\* Steps of the ingest service keep the types.
LEMMA ServiceType == ASSUME TypeOK, NEW t \in Txids, Service(t) PROVE TypeOK'
<1> USE DEF logVars, reqVars, rbVars, serviceVars, NoOverwrite
<1>a. \A S : Without(S) \in [Outpoints -> Txids \cup {None}]
  BY DEF Without, TypeOK
<1>b. SpentBy(t) \in [Outpoints -> Txids \cup {None}]
  BY DEF SpentBy, TypeOK
<1>1. CASE RollbackRead(t)
  <2>1. Spends(t) \subseteq Outpoints
    BY InputsType, ElementOfSeq DEF Spends
  <2>2. rbdels' \in [Txids -> SUBSET Outpoints]
    BY <1>1, <2>1 DEF RollbackRead, TypeOK
  <2>3. QED
    BY <1>1, <2>2 DEF RollbackRead, Reported, Serve, TypeOK
<1>2. CASE RollbackApply(t)
  <2>1. /\ spend' \in [Outpoints -> Txids \cup {None}]
        /\ lost' \subseteq Requests /\ overtaken' \subseteq Requests
        /\ submitted' \subseteq Txids
    BY <1>2, <1>a, OverwriteType DEF RollbackApply
  <2>2. QED
    BY <1>2, <2>1 DEF RollbackApply, NoFault, TypeOK
<1>3. CASE RollbackSQL(t)
  <2>1. /\ spend' \in [Outpoints -> Txids \cup {None}]
        /\ lost' \subseteq Requests /\ overtaken' \subseteq Requests
        /\ submitted' \subseteq Txids
    BY <1>3, <1>a, OverwriteType DEF RollbackSQL
  <2>2. pending' \in [Txids -> {"none", "attempt", "sent"}] /\ removed' \subseteq Txids
    BY <1>3, LogType DEF RollbackSQL
  <2>3. QED
    BY <1>3, <2>1, <2>2 DEF RollbackSQL, Reported, Serve, TypeOK
<1>4. CASE QueueSave(t)
  <2>1. /\ spend' \in [Outpoints -> Txids \cup {None}]
        /\ lost' \subseteq Requests /\ overtaken' \subseteq Requests
        /\ submitted' \subseteq Txids
    BY <1>4, <1>b, OverwriteType DEF QueueSave
  <2>2. QED
    BY <1>4, <2>1 DEF QueueSave, Serve, TypeOK
<1>5. CASE QueueLog(t) \/ AuditFind(t) \/ AuditCheck(t)
  <2>1. pending' \in [Txids -> {"none", "attempt", "sent"}] /\ removed' \subseteq Txids
    BY <1>5, LogType DEF QueueLog, AuditFind, AuditCheck
  <2>2. QED
    BY <1>5, <2>1 DEF QueueLog, AuditFind, AuditCheck, Serve, NoFault, TypeOK
<1>6. QED
  BY <1>1, <1>2, <1>3, <1>4, <1>5 DEF Service

\* A crash keeps the types.
LEMMA CrashType == TypeOK /\ Crash => TypeOK'
<1> SUFFICES ASSUME TypeOK, Crash PROVE TypeOK'
  OBVIOUS
<1>1. pc' \in [Requests -> Places]
  BY DEF Crash, TypeOK, Places, Submitted
<1>2. faulted' \subseteq Txids
  BY InputFacts DEF Crash, TypeOK
<1>3. QED
  BY <1>1, <1>2 DEF Crash, TypeOK, logVars, rbVars, serviceVars, NoOverwrite

(***************************************************************************)
(* Marks.                                                                  *)
(***************************************************************************)

\* A step that moves requests along their places without touching vin keeps
\* what the places say about vin, when only a request that has been through
\* its inputs comes to be submitted.
LEMMA PlacesInv ==
  ASSUME IInv, vin' = vin,
         \A q \in Requests :
           /\ pc'[q] \in Submitted => pc[q] \in Submitted \/ vin[q] = Len(In(q)) + 1
           /\ pc'[q] \in {"new", "log"} => pc[q] \in {"new", "log"}
           /\ pc'[q] = "look" => pc[q] = "look"
  PROVE  Full' /\ Fresh' /\ Looking'
BY DEF IInv, Full, Fresh, Looking, In

\* A step that leaves the marks alone keeps them, when only requests without
\* marks start marking.
LEMMA KeptMarks ==
  ASSUME IInv, UNCHANGED <<spend, lost, vin>>,
         \A q \in Requests : pc'[q] \in Marking \cup Submitted =>
           pc[q] \in Marking \cup Submitted \/ vin[q] = 1
  PROVE  Marked'
BY DEF IInv, Marked, In, Tx

\* A step that overwrites marks counts those it hurts as lost; the request that
\* takes the step may only go on if its own marks are still right.
LEMMA OverwrittenMarks ==
  ASSUME IInv, NEW sp, NEW by, Overwrite(sp, by), vin' = vin,
         \A q \in Requests : pc'[q] \in Marking \cup Submitted =>
           pc[q] \in Marking \cup Submitted,
         \A q \in by : pc'[q] \in Marking \cup Submitted =>
           \A i \in 1..(vin[q] - 1) : sp[In(q)[i]] = Tx(q)
  PROVE  Marked'
<1> SUFFICES ASSUME NEW q \in Requests, q \notin lost',
                    pc'[q] \in Marking \cup Submitted,
                    NEW i \in 1..(vin[q] - 1)
             PROVE  sp[In(q)[i]] = Tx(q)
  BY DEF Marked, Overwrite, In, Tx
<1>1. CASE q \in by
  BY <1>1
<1>2. CASE q \notin by
  <2>1. \A o \in Prefix(q) : sp[o] = Tx(q)
    BY <1>2 DEF Overwrite
  <2>2. In(q)[i] \in Prefix(q)
    BY DEF Prefix
  <2>3. QED
    BY <2>1, <2>2
<1>3. QED
  BY <1>1, <1>2

\* The marking loop respects the marks of others, on a store that does: it
\* writes only where there is no mark.
LEMMA LoopInv ==
  ASSUME IInv, "sqlite" \notin Backends, NEW r \in Requests, Mark(r) \/ Look(r)
  PROVE  Marked' /\ Full' /\ Fresh' /\ Looking'
<1> DEFINE o == In(r)[vin[r]]
<1>1. /\ TypeOK
      /\ vin[r] \in 1..Len(In(r)) /\ o \in Outpoints
      /\ lost' = lost
      /\ \/ spend' = spend
         \/ /\ Free(o)
            /\ spend' = [spend EXCEPT ![o] = Tx(r)]
      /\ \/ vin' = vin
         \/ /\ vin' = [vin EXCEPT ![r] = vin[r] + 1]
            /\ spend'[o] = Tx(r)
  BY MarkEffect DEF IInv
<1>2. PICK from \in Marking, to \in Places \ Submitted :
        /\ pc[r] = from /\ pc' = [pc EXCEPT ![r] = to]
        /\ to \in Marking \/ vin' = vin
        /\ to = "look" => vin' = vin
  BY MarkEffect DEF Goto
<1>3. \A p \in Outpoints : spend[p] # None => spend'[p] = spend[p]
  BY <1>1 DEF Free, TypeOK
<1>4. \A q \in Requests \ lost : pc[q] \in Marking \cup Submitted =>
        \A i \in 1..(vin[q] - 1) : spend'[In(q)[i]] = Tx(q)
  <2> SUFFICES ASSUME NEW q \in Requests \ lost, pc[q] \in Marking \cup Submitted,
                      NEW i \in 1..(vin[q] - 1)
               PROVE  spend'[In(q)[i]] = Tx(q)
    OBVIOUS
  <2>1. spend[In(q)[i]] = Tx(q)
    BY DEF IInv, Marked
  <2>2. vin[q] \in Nat /\ vin[q] <= Len(In(q)) + 1 /\ Len(In(q)) \in Nat
    BY <1>1, InputFacts DEF TypeOK
  <2>3. i \in 1..Len(In(q))
    BY <2>2
  <2>4. In(q)[i] \in Outpoints /\ Tx(q) # None
    BY <2>3, InputFacts, NoneAssumption
  <2>5. QED
    BY <2>1, <2>4, <1>3
<1>5. Marked'
  <2> SUFFICES ASSUME NEW q \in Requests \ lost, pc'[q] \in Marking \cup Submitted,
                      NEW i \in 1..(vin'[q] - 1)
               PROVE  spend'[In(q)[i]] = Tx(q)
    BY <1>1 DEF Marked, In, Tx
  <2>1. pc[q] \in Marking \cup Submitted
    BY <1>1, <1>2 DEF TypeOK
  <2>2. CASE i \in 1..(vin[q] - 1)
    BY <1>4, <2>1, <2>2
  <2>3. CASE i \notin 1..(vin[q] - 1)
    <3>1. vin' = [vin EXCEPT ![r] = vin[r] + 1] /\ spend'[o] = Tx(r)
      BY <1>1, <2>3
    <3>2. vin \in [Requests -> Nat \ {0}]
      BY <1>1 DEF TypeOK
    <3>3. q = r
      BY <3>1, <3>2, <2>3
    <3>4. i = vin[r]
      BY <3>1, <3>2, <3>3, <2>3
    <3>5. QED
      BY <3>1, <3>3, <3>4
  <2>4. QED
    BY <2>2, <2>3
<1>6. /\ from \notin Submitted /\ to \notin Submitted
      /\ from \notin {"new", "log"} /\ to \notin {"new", "log"}
  <2>1. from \notin Submitted /\ from \notin {"new", "log"}
    BY <1>2, PlaceFacts
  <2>2. to \notin {"new", "log"}
    BY <1>2 DEF Mark, Look, Unwind, Goto, IInv, TypeOK
  <2>3. QED
    BY <2>1, <2>2
<1>7. \A q \in Requests \ {r} : pc'[q] = pc[q] /\ vin'[q] = vin[q]
  BY <1>1, <1>2 DEF TypeOK
<1>8. pc'[r] = to
  BY <1>1, <1>2 DEF TypeOK
<1>9. Full' /\ Fresh'
  BY <1>6, <1>7, <1>8 DEF IInv, Full, Fresh, In
<1>10. Looking'
  <2>1. ASSUME pc'[r] = "look" PROVE vin'[r] <= Len(In(r))
    <3>1. vin' = vin
      BY <1>2, <1>8, <2>1
    <3>2. QED
      BY <3>1, <1>1, InputFacts
  <2>2. QED
    BY <1>7, <2>1 DEF IInv, Looking, In
<1>11. QED
  BY <1>5, <1>9, <1>10

\* The steps of a request other than those of the marking loop.
LEMMA RequestInv ==
  ASSUME IInv, NEW r \in Requests, Request(r), ~Mark(r), ~Look(r)
  PROVE  Marked' /\ Full' /\ Fresh' /\ Looking'
<1> USE DEF Goto
<1>a. pc \in [Requests -> Places] /\ vin \in [Requests -> Nat \ {0}]
  BY DEF IInv, TypeOK
<1>b. /\ Marking = {"mark", "look"}
      /\ Submitted = {"submit", "wait", "accept", "ingest", "ilog", "ok", "orphan"}
  BY DEF Marking, Submitted, Submitting
<1>c. /\ vin[r] <= Len(In(r)) + 1 /\ vin[r] \in Nat \ {0} /\ Len(In(r)) \in Nat
  BY InputFacts DEF IInv, TypeOK
<1>1. CASE Vet(r)
  <2>1. /\ UNCHANGED <<spend, lost, vin>>
        /\ \E to \in {"log", "failed"} : pc[r] = "new" /\ pc' = [pc EXCEPT ![r] = to]
    BY <1>1 DEF Vet, NoOverwrite
  <2>2. Marked'
    BY <1>a, <1>b, <2>1, KeptMarks
  <2>3. QED
    BY <1>a, <1>b, <2>1, <2>2, PlacesInv
<1>2. CASE LogAttempt(r)
  <2>1. /\ UNCHANGED <<spend, lost, vin>>
        /\ \E to \in {"mark", "failed"} : pc[r] = "log" /\ pc' = [pc EXCEPT ![r] = to]
    BY <1>2 DEF LogAttempt, NoOverwrite
  <2>2. vin[r] = 1
    BY <2>1 DEF IInv, Fresh
  <2>3. Marked'
    BY <1>a, <1>b, <2>1, <2>2, KeptMarks
  <2>4. QED
    BY <1>a, <1>b, <2>1, <2>3, PlacesInv
<1>3. CASE AllMarked(r)
  <2>1. /\ UNCHANGED <<spend, lost, vin>>
        /\ pc[r] = "mark" /\ pc' = [pc EXCEPT ![r] = "submit"]
    BY <1>3 DEF AllMarked, NoOverwrite
  <2>2. vin[r] = Len(In(r)) + 1
    BY <1>3, <1>c DEF AllMarked
  <2>3. Marked'
    BY <1>a, <1>b, <2>1, KeptMarks
  <2>4. QED
    BY <1>a, <1>b, <2>1, <2>2, <2>3, PlacesInv
<1>4. CASE Submit(r) \/ Answer(r) \/ Accept(r) \/ IngestLog(r) \/ Unread(r) \/ Delog(r)
  <2>1. /\ UNCHANGED <<spend, lost, vin>>
        /\ \/ /\ pc[r] \in Submitted
              /\ \E to \in Submitted \cup {"unread", "failed"} : pc' = [pc EXCEPT ![r] = to]
           \/ /\ pc[r] \in {"unread", "delog"}
              /\ \E to \in {"unset", "failed"} : pc' = [pc EXCEPT ![r] = to]
    BY <1>4, <1>b DEF Submit, Answer, Unwind, Accept, IngestLog, Unread, Delog, NoOverwrite
  <2>2. Marked'
    BY <1>a, <1>b, <2>1, KeptMarks
  <2>3. QED
    BY <1>a, <1>b, <2>1, <2>2, PlacesInv
<1>5. CASE Ingest(r)
  <2>1. /\ vin' = vin
        /\ \E to \in {"ok", "ilog"} : pc[r] = "ingest" /\ pc' = [pc EXCEPT ![r] = to]
    BY <1>5 DEF Ingest
  <2>2. CASE NoOverwrite
    <3>1. Marked'
      BY <1>a, <1>b, <2>1, <2>2, KeptMarks DEF NoOverwrite
    <3>2. QED
      BY <1>a, <1>b, <2>1, <3>1, PlacesInv
  <2>3. CASE Overwrite(SpentBy(Tx(r)), {r})
    <3>1. \A i \in 1..(vin[r] - 1) : SpentBy(Tx(r))[In(r)[i]] = Tx(r)
      <4> SUFFICES ASSUME NEW i \in 1..(vin[r] - 1)
                   PROVE  SpentBy(Tx(r))[In(r)[i]] = Tx(r)
        OBVIOUS
      <4>1. i \in 1..Len(In(r))
        BY <1>c
      <4>2. In(r)[i] \in Outpoints /\ In(r)[i] \in Spends(Tx(r))
        BY <4>1, InputFacts DEF Spends, In, Tx
      <4>3. QED
        BY <4>2 DEF SpentBy
    <3>2. Marked'
      BY <1>a, <1>b, <2>1, <2>3, <3>1, OverwrittenMarks
    <3>3. QED
      BY <1>a, <1>b, <2>1, <3>2, PlacesInv
  <2>4. QED
    BY <1>5, <2>2, <2>3 DEF Ingest
<1>6. CASE Unset(r)
  <2>1. /\ vin' = vin
        /\ \E to \in {"delog", "failed"} : pc[r] = "unset" /\ pc' = [pc EXCEPT ![r] = to]
    BY <1>6 DEF Unset
  <2>2. CASE NoOverwrite
    <3>1. Marked'
      BY <1>a, <1>b, <2>1, <2>2, KeptMarks DEF NoOverwrite
    <3>2. QED
      BY <1>a, <1>b, <2>1, <3>1, PlacesInv
  <2>3. CASE Overwrite(Without(dels[r]), {r})
    <3>1. pc'[r] \notin Marking \cup Submitted
      BY <1>a, <1>b, <2>1
    <3>2. \A q \in Requests : pc'[q] \in Marking \cup Submitted =>
            pc[q] \in Marking \cup Submitted
      BY <1>a, <1>b, <2>1
    <3>3. Marked'
      BY <2>1, <2>3, <3>1, <3>2, OverwrittenMarks
    <3>4. QED
      BY <1>a, <1>b, <2>1, <3>3, PlacesInv
  <2>4. QED
    BY <1>6, <2>2, <2>3 DEF Unset
<1>7. QED
  BY <1>1, <1>2, <1>3, <1>4, <1>5, <1>6 DEF Request

\* Steps of the ingest service: they touch no request, only marks.
LEMMA ServiceInv ==
  ASSUME IInv, NEW t \in Txids, Service(t)
  PROVE  Marked' /\ Full' /\ Fresh' /\ Looking'
<1>1. pc' = pc /\ vin' = vin
  BY DEF Service, RollbackRead, RollbackApply, RollbackSQL, QueueSave, QueueLog, AuditFind, AuditCheck, reqVars
<1>2. NoOverwrite \/ \E sp : Overwrite(sp, {})
  BY DEF Service, RollbackRead, RollbackApply, RollbackSQL, QueueSave, QueueLog, AuditFind, AuditCheck
<1>3. Marked'
  BY <1>1, <1>2, KeptMarks, OverwrittenMarks DEF NoOverwrite
<1>4. QED
  BY <1>1, <1>3, PlacesInv

\* A crash leaves the marks of those it kills.
LEMMA CrashInv == ASSUME IInv, Crash PROVE Marked' /\ Full' /\ Fresh' /\ Looking'
<1>a. /\ Marking = {"mark", "look"}
      /\ Submitting = {"submit", "wait", "accept", "ingest", "ilog"}
      /\ Submitted = Submitting \cup {"ok", "orphan"}
      /\ Unwinding = {"unread", "unset", "delog"}
  BY DEF Marking, Submitted, Submitting, Unwinding
<1>1. /\ UNCHANGED <<spend, lost, vin>>
      /\ \A q \in Requests :
           \/ pc'[q] = pc[q]
           \/ pc[q] \in Submitting /\ pc'[q] = "orphan"
           \/ pc'[q] = "dead"
  BY DEF Crash, NoOverwrite, logVars
<1>2. Marked'
  BY <1>a, <1>1, KeptMarks
<1>3. QED
  BY <1>a, <1>1, <1>2, PlacesInv

(***************************************************************************)
(* The theorems.                                                           *)
(***************************************************************************)

\* Every step keeps the invariant, on a store that honours marks.
LEMMA NextIInv ==
  ASSUME "sqlite" \notin Backends, IInv, [Next]_vars
  PROVE  IInv'
<1>1. ASSUME NEW r \in Requests, Request(r) PROVE IInv'
  <2>1. TypeOK'
    BY <1>1, RequestTypeMarks, RequestTypeRest DEF IInv, Request
  <2>2. Marked' /\ Full' /\ Fresh' /\ Looking'
    BY <1>1, LoopInv, RequestInv
  <2>3. QED
    BY <2>1, <2>2 DEF IInv
<1>2. ASSUME NEW t \in Txids, Service(t) PROVE IInv'
  BY <1>2, ServiceType, ServiceInv DEF IInv
<1>3. CASE Crash
  BY <1>3, CrashType, CrashInv DEF IInv
<1>4. CASE UNCHANGED vars
  <2>1. TypeOK'
    BY <1>4 DEF vars, IInv, TypeOK
  <2>2. Marked'
    BY <1>4, KeptMarks DEF vars
  <2>3. QED
    BY <1>4, <2>1, <2>2, PlacesInv DEF vars, IInv
<1>5. QED
  BY <1>1, <1>2, <1>3, <1>4 DEF Next

\* The invariant holds in every reachable state.
THEOREM Invariance ==
  ASSUME "sqlite" \notin Backends
  PROVE  Spec => []IInv
<1>1. Init => IInv
  BY InitIInv
<1>2. IInv /\ [Next]_vars => IInv'
  BY NextIInv
<1>3. QED
  BY <1>1, <1>2, PTL DEF Spec

\* Every state is well typed; in particular no request walks off its inputs.
THEOREM TypeCorrect ==
  ASSUME "sqlite" \notin Backends
  PROVE  Spec => []TypeOK
<1>1. IInv => TypeOK
  BY DEF IInv
<1>2. QED
  BY <1>1, Invariance, PTL

\* On Redis and Postgres, two conflicting transactions are never both submitted
\* by requests that kept their marks, however many requests run, retry, fail,
\* crash or are rolled back (broadcast.go:115-133).
THEOREM Exclusive ==
  ASSUME "sqlite" \notin Backends
  PROVE  Spec => []ExclusiveSubmission
<1>1. IInv => ExclusiveSubmission
  BY IInvExclusive
<1>2. QED
  BY <1>1, Invariance, PTL

(***************************************************************************)
(* What is undone on Redis, and what stays in the log.                     *)
(***************************************************************************)

\* A request that has been through an output and may still undo its mark, or
\* was submitted.
Keeps(r, o) ==
  /\ o \in Prefix(r)
  /\ \/ pc[r] \in Marking \cup Submitted \cup {"unread"}
     \/ pc[r] = "unset" /\ o \in dels[r]

\* A mark is one of an ingest, was left by an error, or is kept by a request.
Accounted ==
  backend = "redis" => \A o \in Outpoints :
    \/ spend[o] \in saved \cup faulted \cup {None}
    \/ \E r \in Requests : Tx(r) = spend[o] /\ Keeps(r, o)

\* The marks that a request found to be its own still are, if none changed hands.
OwnDels ==
  backend = "redis" => \A r \in Requests \ overtaken : pc[r] = "unset" =>
    \A o \in dels[r] : o \in Outpoints /\ spend[o] = Tx(r)

\* From the acceptance by ARC on, a transaction is logged as sent or excused.
InLog(r) ==
  \/ pending[Tx(r)] = "sent"
  \/ Tx(r) \in faulted \cup removed
  \/ \E q \in Requests : Spoiled(q, r)
Pended == \A r \in Requests : pc[r] \in {"ingest", "ilog", "ok"} => InLog(r)

\* From the attempt on, a transaction is in the log or excused.
Logged(r) ==
  \/ pending[Tx(r)] # "none"
  \/ Tx(r) \in removed
  \/ \E q \in Requests : Delogged(q, r)
Tracked == \A r \in Requests : pc[r] \in Marking \cup Submitted => Logged(r)

\* What every step of a request leaves alone.
LEMMA RequestFrame ==
  ASSUME IInv, NEW r \in Requests, Request(r)
  PROVE  /\ backend' = backend /\ rb' = rb
         /\ \A q \in Requests \ {r} : pc'[q] = pc[q] /\ vin'[q] = vin[q] /\ dels'[q] = dels[q]
         /\ saved \subseteq saved' /\ faulted \subseteq faulted'
         /\ overtaken \subseteq overtaken' /\ lost \subseteq lost'
<1>a. /\ pc \in [Requests -> Places] /\ vin \in [Requests -> Nat \ {0}]
      /\ dels \in [Requests -> SUBSET Outpoints]
  BY DEF IInv, TypeOK
<1> USE <1>a DEF Goto, logVars, serviceVars, boundVars, NoOverwrite, NoFault, Fault, LogFault
<1>1. CASE Vet(r)
  BY <1>1 DEF Vet
<1>2. CASE LogAttempt(r)
  BY <1>2 DEF LogAttempt
<1>3. CASE Mark(r)
  BY <1>3 DEF Mark, Unwind
<1>4. CASE Look(r)
  BY <1>4 DEF Look, Unwind
<1>5. CASE AllMarked(r) \/ Submit(r) \/ Answer(r)
  BY <1>5 DEF AllMarked, Submit, Answer, Unwind
<1>6. CASE Accept(r) \/ IngestLog(r) \/ Delog(r)
  BY <1>6 DEF Accept, IngestLog, Delog
<1>7. CASE Ingest(r)
  BY <1>7 DEF Ingest, Overwrite
<1>8. CASE Unread(r)
  BY <1>8 DEF Unread
<1>9. CASE Unset(r)
  BY <1>9 DEF Unset, Overwrite
<1>. QED
  BY <1>1, <1>2, <1>3, <1>4, <1>5, <1>6, <1>7, <1>8, <1>9 DEF Request

\* The same of the service, and of a crash.
LEMMA ServiceFrame ==
  ASSUME IInv, NEW t \in Txids, Service(t)
  PROVE  /\ UNCHANGED <<backend, pc, vin, dels>>
         /\ faulted' = faulted /\ overtaken \subseteq overtaken' /\ lost \subseteq lost'
         /\ backend = "redis" => saved \subseteq saved'
<1> USE DEF reqVars, rbVars, serviceVars, logVars, NoOverwrite, Overwrite, NoFault,
            boundVars, Reported, Serve
<1>1. CASE RollbackRead(t) \/ RollbackApply(t)
  BY <1>1 DEF RollbackRead, RollbackApply
<1>2. CASE RollbackSQL(t)
  BY <1>2 DEF RollbackSQL
<1>3. CASE QueueSave(t) \/ QueueLog(t)
  BY <1>3 DEF QueueSave, QueueLog
<1>4. CASE AuditFind(t) \/ AuditCheck(t)
  BY <1>4 DEF AuditFind, AuditCheck
<1>. QED
  BY <1>1, <1>2, <1>3, <1>4 DEF Service

LEMMA CrashFrame ==
  ASSUME IInv, Crash
  PROVE  /\ UNCHANGED <<backend, spend, pending, removed, saved, vin, dels, overtaken, lost>>
         /\ faulted \subseteq faulted'
         /\ \A q \in Requests :
              \/ pc'[q] = pc[q]
              \/ pc[q] \in Submitting /\ pc'[q] = "orphan" /\ Tx(q) \in faulted'
              \/ pc'[q] = "dead" /\ pc[q] # "new" /\ Tx(q) \in faulted'
<1>. QED
  BY DEF Crash, NoOverwrite, logVars, Marking, Unwinding, Submitting

\* What a request keeps does not depend on the steps of others.
LEMMA OthersKeep ==
  ASSUME IInv, NEW r \in Requests, Request(r), NEW q \in Requests \ {r}, NEW o \in Outpoints
  PROVE  Keeps(q, o)' <=> Keeps(q, o)
BY RequestFrame DEF Keeps, Prefix, In

\* Marks stay accounted for when each mark is an old one or accounted for anew,
\* and each request that keeps one goes on to keep it, or is excused.
LEMMA AccountedBy ==
  ASSUME Accounted, backend = "redis", saved \subseteq saved', faulted \subseteq faulted',
         \A o \in Outpoints :
           \/ spend'[o] = spend[o]
           \/ spend'[o] \in saved' \cup faulted' \cup {None}
           \/ \E r \in Requests : Tx(r) = spend'[o] /\ Keeps(r, o)',
         \A r \in Requests, o \in Outpoints :
           Keeps(r, o) /\ spend[o] = Tx(r) /\ spend'[o] = Tx(r)
             => Keeps(r, o)' \/ Tx(r) \in saved' \cup faulted'
  PROVE  Accounted'
<1> SUFFICES ASSUME NEW o \in Outpoints, spend'[o] \notin saved' \cup faulted' \cup {None}
             PROVE  \E r \in Requests : Tx(r) = spend'[o] /\ Keeps(r, o)'
  BY DEF Accounted, Tx
<1>1. CASE spend'[o] = spend[o]
  <2>1. PICK r \in Requests : Tx(r) = spend[o] /\ Keeps(r, o)
    BY <1>1 DEF Accounted
  <2>2. QED
    BY <1>1, <2>1
<1>2. CASE spend'[o] # spend[o]
  BY <1>2
<1>3. QED
  BY <1>1, <1>2

\* A step of a request keeps the marks accounted for.
LEMMA AccountedRequest ==
  ASSUME IInv, Accounted, backend = "redis", NEW r \in Requests, Request(r)
  PROVE  Accounted'
<1>a. /\ pc \in [Requests -> Places] /\ vin \in [Requests -> Nat \ {0}]
      /\ dels \in [Requests -> SUBSET Outpoints]
      /\ spend \in [Outpoints -> Txids \cup {None}]
  BY DEF IInv, TypeOK
<1>b. /\ Marking = {"mark", "look"}
      /\ Submitted = {"submit", "wait", "accept", "ingest", "ilog", "ok", "orphan"}
  BY DEF Marking, Submitted, Submitting
<1>c. saved \subseteq saved' /\ faulted \subseteq faulted'
  BY RequestFrame
<1>d. \A q \in Requests \ {r} : \A o \in Outpoints : Keeps(q, o)' <=> Keeps(q, o)
  BY OthersKeep
<1>e. vin[r] = 1 => Prefix(r) = {}
  BY DEF Prefix
<1> DEFINE Goes ==
      \A o \in Outpoints : Keeps(r, o) /\ spend[o] = Tx(r) /\ spend'[o] = Tx(r)
                             => Keeps(r, o)' \/ Tx(r) \in saved' \cup faulted'
           Sets ==
      \A o \in Outpoints :
        \/ spend'[o] = spend[o]
        \/ spend'[o] \in saved' \cup faulted' \cup {None}
        \/ Tx(r) = spend'[o] /\ Keeps(r, o)'
<1>1. SUFFICES Goes /\ Sets
  BY <1>c, <1>d, AccountedBy
<1> USE <1>a, <1>b DEF Goto, NoOverwrite, logVars
<1>2. CASE Vet(r) \/ LogAttempt(r) \/ Delog(r)
  <2>1. spend' = spend
    BY <1>2 DEF Vet, LogAttempt, Delog
  <2>2. \A o \in Outpoints : ~Keeps(r, o)
    BY <1>2 DEF Vet, LogAttempt, Delog, Keeps
  <2>3. QED
    BY <2>1, <2>2
<1>3. CASE Mark(r) \/ Look(r)
  <2>1. CASE Tx(r) \in faulted'
    <3>1. \A o \in Outpoints : spend'[o] = spend[o] \/ spend'[o] = Tx(r)
      BY <1>3, MarkEffect
    <3>2. QED
      BY <2>1, <3>1
  <2>2. CASE Tx(r) \notin faulted'
    <3>1. ~Fault(r)
      BY <2>2 DEF Fault, LogFault
    <3>2. /\ vin' = vin \/ vin' = [vin EXCEPT ![r] = vin[r] + 1]
          /\ dels' = dels
          /\ pc[r] \in Marking
      BY <1>3, MarkEffect DEF Mark, Look
    <3>3. Prefix(r) \subseteq Prefix(r)'
      BY <3>2 DEF Prefix, In
    <3>4. pc'[r] \in {"mark", "look", "unread"} \/ vin[r] = 1
      BY <1>3, <3>1 DEF Mark, Look, Unwind
    <3>5. Goes
      BY <1>e, <3>2, <3>3, <3>4 DEF Keeps
    <3>6. CASE spend' = spend
      BY <3>5, <3>6
    <3>7. CASE spend' # spend
      <4>1. /\ spend' = [spend EXCEPT ![In(r)[vin[r]]] = Tx(r)]
            /\ vin' = [vin EXCEPT ![r] = vin[r] + 1]
            /\ pc'[r] = "mark"
        BY <1>3, <3>1, <3>7 DEF Mark, Look
      <4>2. \A o \in Outpoints : o = In(r)[vin[r]] => o \in Prefix(r)'
        BY <4>1 DEF Prefix, In
      <4>3. \A o \in Outpoints : o = In(r)[vin[r]] => Keeps(r, o)'
        BY <4>1, <4>2 DEF Keeps
      <4>4. \A o \in Outpoints : spend'[o] = spend[o] \/ (o = In(r)[vin[r]] /\ spend'[o] = Tx(r))
        BY <4>1
      <4>5. Sets
        BY <4>3, <4>4
      <4>6. QED
        BY <3>5, <4>5
    <3>8. QED
      BY <3>6, <3>7
  <2>3. QED
    BY <2>1, <2>2
<1>4. CASE AllMarked(r) \/ Submit(r) \/ Answer(r) \/ Accept(r) \/ IngestLog(r)
  <2>1. spend' = spend /\ vin' = vin /\ dels' = dels
    BY <1>4 DEF AllMarked, Submit, Answer, Accept, IngestLog
  <2>2. \/ pc'[r] \in {"submit", "wait", "accept", "ingest", "ok", "unread"}
        \/ vin[r] = 1
    BY <1>4 DEF AllMarked, Submit, Answer, Accept, IngestLog, Unwind
  <2>3. Goes
    BY <1>e, <2>1, <2>2 DEF Keeps, Prefix, In
  <2>4. QED
    BY <2>1, <2>3
<1>5. CASE Ingest(r)
  <2>1. vin' = vin /\ dels' = dels /\ pc'[r] \in {"ok", "ilog"}
    BY <1>5 DEF Ingest
  <2>2. Goes
    BY <2>1 DEF Keeps, Prefix, In
  <2>3. \/ spend' = spend
        \/ spend' = SpentBy(Tx(r)) /\ Tx(r) \in saved'
    BY <1>5 DEF Ingest, Overwrite
  <2>4. Sets
    BY <2>3 DEF SpentBy
  <2>5. QED
    BY <2>2, <2>4
<1>6. CASE Unread(r)
  <2>1. spend' = spend /\ vin' = vin
    BY <1>6 DEF Unread
  <2>2. CASE Tx(r) \in faulted'
    BY <2>1, <2>2
  <2>3. CASE Tx(r) \notin faulted'
    <3>1. dels'[r] = OwnMarks(r) /\ pc'[r] = "unset"
      BY <1>6, <2>3 DEF Unread, Fault, LogFault, FoundMarks
    <3>2. Goes
      BY <2>1, <3>1 DEF Keeps, OwnMarks, Prefix, In
    <3>3. QED
      BY <2>1, <3>2
  <2>4. QED
    BY <2>2, <2>3
<1>7. CASE Unset(r)
  <2>1. pc[r] = "unset"
    BY <1>7 DEF Unset
  <2>2. CASE Tx(r) \in faulted' /\ spend' = spend
    BY <2>2
  <2>3. CASE spend' = Without(dels[r])
    <3>1. \A o \in Outpoints : Keeps(r, o) => spend'[o] = None
      BY <2>1, <2>3 DEF Keeps, Without
    <3>2. Tx(r) # None
      BY InputFacts, NoneAssumption
    <3>3. \A o \in Outpoints : spend'[o] = spend[o] \/ spend'[o] = None
      BY <2>3 DEF Without
    <3>4. QED
      BY <3>1, <3>2, <3>3
  <2>4. QED
    BY <1>7, <2>2, <2>3 DEF Unset, Overwrite, Fault, LogFault
<1>8. QED
  BY <1>2, <1>3, <1>4, <1>5, <1>6, <1>7 DEF Request

\* The service, on Redis, only unmarks outputs and marks those it saves.
LEMMA AccountedService ==
  ASSUME IInv, Accounted, backend = "redis", NEW t \in Txids, Service(t)
  PROVE  Accounted'
<1>1. UNCHANGED <<pc, vin, dels>> /\ saved \subseteq saved' /\ faulted \subseteq faulted'
  BY ServiceFrame
<1>2. \A o \in Outpoints : spend'[o] = spend[o] \/ spend'[o] \in saved' \cup {None}
  BY DEF Service, RollbackRead, RollbackApply, RollbackSQL, QueueSave, QueueLog, AuditFind, AuditCheck, NoOverwrite,
         Overwrite, Without, SpentBy
<1>3. \A r \in Requests, o \in Outpoints : Keeps(r, o)' <=> Keeps(r, o)
  BY <1>1 DEF Keeps, Prefix, In
<1>4. QED
  BY <1>1, <1>2, <1>3, AccountedBy

LEMMA AccountedCrash ==
  ASSUME IInv, Accounted, backend = "redis", Crash
  PROVE  Accounted'
<1>1. /\ UNCHANGED <<spend, saved, vin, dels>> /\ faulted \subseteq faulted'
      /\ \A q \in Requests :
           \/ pc'[q] = pc[q] \/ pc'[q] = "orphan" \/ Tx(q) \in faulted'
  BY CrashFrame
<1>2. "orphan" \in Submitted
  BY DEF Submitted
<1>3. \A r \in Requests, o \in Outpoints : Keeps(r, o) => Keeps(r, o)' \/ Tx(r) \in faulted'
  BY <1>1, <1>2 DEF Keeps, Prefix, In
<1>4. QED
  BY <1>1, <1>3, AccountedBy

\* What a request has found to be its own stays so or is counted as overtaken:
\* only Mark writes a mark without that, and it writes where there is none.
LEMMA OwnDelsStep ==
  ASSUME IInv, OwnDels, [Next]_vars
  PROVE  OwnDels'
<1>a. /\ pc \in [Requests -> Places] /\ dels \in [Requests -> SUBSET Outpoints]
      /\ spend \in [Outpoints -> Txids \cup {None}]
  BY DEF IInv, TypeOK
<1>b. backend' = backend
  BY RequestFrame, ServiceFrame, CrashFrame DEF Next, vars
<1> SUFFICES ASSUME backend = "redis", NEW q \in Requests \ overtaken', pc'[q] = "unset",
                    NEW o \in dels'[q]
             PROVE  o \in Outpoints /\ spend'[o] = Tx(q)
  BY <1>b DEF OwnDels, Tx
<1> DEFINE Before == q \notin overtaken /\ pc[q] = "unset" /\ o \in dels[q]
           Held == spend'[o] = spend[o]
<1>1. Before => o \in Outpoints /\ spend[o] = Tx(q) /\ spend[o] # None
  BY InputFacts, NoneAssumption DEF OwnDels
<1>2. SUFFICES \/ Before /\ Held
               \/ Before /\ \E sp, by : Overwrite(sp, by) /\ q \notin by
               \/ o \in Outpoints /\ spend'[o] = Tx(q)
  <2>1. ASSUME Before, NEW sp, NEW by, Overwrite(sp, by), q \notin by
        PROVE  spend'[o] = Tx(q)
    BY <2>1 DEF Overwrite
  <2>2. QED
    BY <1>1, <1>2, <2>1
<1> USE <1>a DEF Goto, NoOverwrite
<1>3. ASSUME NEW r \in Requests, Request(r)
      PROVE  \/ Before /\ Held
             \/ Before /\ \E sp, by : Overwrite(sp, by) /\ q \notin by
             \/ o \in Outpoints /\ spend'[o] = Tx(q)
  <2>1. CASE Unread(r) /\ q = r
    <3>1. dels'[r] = OwnMarks(r) /\ spend' = spend
      BY <2>1 DEF Unread, FoundMarks
    <3>2. Prefix(r) \subseteq Outpoints
      BY InputFacts DEF Prefix, IInv, TypeOK
    <3>3. QED
      BY <2>1, <3>1, <3>2 DEF OwnMarks
  <2>2. CASE ~(Unread(r) /\ q = r)
    <3>1. q # r
      BY <1>3, <2>2 DEF Request, Vet, LogAttempt, Mark, Look, AllMarked, Submit, Answer,
         Accept, Ingest, IngestLog, Unset, Delog, Unwind
    <3>2. Before
      BY <1>3, <3>1, RequestFrame
    <3>3. CASE Mark(r) \/ Look(r)
      <4>1. \/ spend' = spend
            \/ /\ Free(In(r)[vin[r]])
               /\ spend' = [spend EXCEPT ![In(r)[vin[r]]] = Tx(r)]
        BY <3>3, MarkEffect
      <4>2. QED
        BY <1>1, <3>2, <4>1 DEF Free
    <3>4. CASE ~Mark(r) /\ ~Look(r)
      <4>1. spend' = spend \/ \E sp : Overwrite(sp, {r})
        BY <1>3, <3>4 DEF Request, Vet, LogAttempt, AllMarked, Submit, Answer, Accept,
           Ingest, IngestLog, Unread, Unset, Delog, logVars
      <4>2. QED
        BY <3>1, <3>2, <4>1
    <3>5. QED
      BY <3>3, <3>4
  <2>3. QED
    BY <2>1, <2>2
<1>4. ASSUME NEW t \in Txids, Service(t)
      PROVE  \/ Before /\ Held
             \/ Before /\ \E sp, by : Overwrite(sp, by) /\ q \notin by
  <2>1. Before
    BY <1>4, ServiceFrame
  <2>2. spend' = spend \/ \E sp : Overwrite(sp, {})
    BY <1>4 DEF Service, RollbackRead, RollbackApply, RollbackSQL, QueueSave, QueueLog, AuditFind, AuditCheck
  <2>3. QED
    BY <2>1, <2>2
<1>5. CASE Crash
  <2>1. Before /\ Held
    BY <1>5, CrashFrame
  <2>2. QED
    BY <2>1
<1>6. CASE UNCHANGED vars
  <2>1. Before /\ Held
    BY <1>6 DEF vars
  <2>2. QED
    BY <2>1
<1>7. QED
  BY <1>3, <1>4, <1>5, <1>6 DEF Next

(***************************************************************************)
(* The pending log.                                                        *)
(***************************************************************************)

\* A request that undoes its marks has been through an input: rollbackSpends
\* returns at once for an empty list.
Undoing == \A r \in Requests : pc[r] \in Unwinding => vin[r] > 1

LogInv == IInv /\ Undoing /\ Pended /\ Tracked

\* What a step of a request does to the log: nothing, or it sets the entry of
\* its own transaction, and then it is where it was bound to do so.
LEMMA LogEffect ==
  ASSUME IInv, NEW q \in Requests, Request(q)
  PROVE  /\ UNCHANGED <<pending, removed>>
            \/ \E score \in {"none", "attempt", "sent"} : Log(Tx(q), score)
         /\ \/ UNCHANGED <<pending, removed>>
            \/ LogAttempt(q) /\ Log(Tx(q), "attempt")
            \/ pc[q] \in {"accept", "ilog"} /\ Log(Tx(q), "sent")
            \/ Delog(q) /\ Log(Tx(q), "none")
<1> USE DEF logVars, Goto
<1>1. CASE Vet(q) \/ Mark(q) \/ Look(q) \/ AllMarked(q)
  BY <1>1 DEF Vet, Mark, Look, AllMarked
<1>2. CASE LogAttempt(q)
  BY <1>2 DEF LogAttempt
<1>3. CASE Submit(q) \/ Answer(q) \/ Ingest(q) \/ Unread(q) \/ Unset(q)
  BY <1>3 DEF Submit, Answer, Ingest, Unread, Unset
<1>4. CASE Accept(q) \/ IngestLog(q)
  BY <1>4 DEF Accept, IngestLog
<1>5. CASE Delog(q)
  BY <1>5 DEF Delog
<1>6. QED
  BY <1>1, <1>2, <1>3, <1>4, <1>5 DEF Request

\* What a step of the service does to the entry of a transaction: nothing, or it
\* is logged as sent, or removed.
LEMMA ServiceLogs ==
  ASSUME IInv, NEW t \in Txids, Service(t), NEW u \in Txids
  PROVE  \/ pending'[u] = pending[u] /\ (u \in removed => u \in removed')
         \/ pending'[u] = "sent"
         \/ u \in removed'
<1>a. pending \in [Txids -> {"none", "attempt", "sent"}]
  BY DEF IInv, TypeOK
<1>1. UNCHANGED logVars \/ Remove(t) \/ Log(t, "sent")
  BY DEF Service, RollbackRead, RollbackApply, RollbackSQL, QueueSave, QueueLog,
         AuditFind, AuditCheck
<1>2. QED
  BY <1>a, <1>1 DEF logVars, Remove, Log

\* Where a request goes that has logged its attempt: on, to unwind its marks, or
\* it gives up at its first input, because that has another mark.
LEMMA AttemptGoesOn ==
  ASSUME IInv, NEW q \in Requests, In(q) # <<>>, Request(q), Attempting(q),
         Tx(q) \notin faulted'
  PROVE  \/ Attempting(q)'
         \/ Log(Tx(q), "sent")
         \/ Delog(q) /\ Log(Tx(q), "none")
         \/ /\ pc'[q] = "failed" /\ UNCHANGED <<pending, removed>>
            /\ spend[In(q)[1]] # Tx(q)
<1>a. pc \in [Requests -> Places]
  BY DEF IInv, TypeOK
<1>b. /\ Marking = {"mark", "look"} /\ Unwinding = {"unread", "unset", "delog"}
      /\ ~Fault(q) /\ ~LogFault(q)
  BY DEF Marking, Unwinding, Fault, LogFault
<1>c. pc[q] \in {"mark", "look", "submit", "wait", "accept", "unread", "unset", "delog"}
  BY <1>b DEF Attempting
<1> USE <1>a, <1>b DEF Goto
<1>1. CASE Mark(q)
  BY <1>1 DEF Mark, Attempting
<1>2. CASE Look(q)
  <2>1. CASE pc'[q] \in {"mark", "unread"}
    BY <2>1 DEF Attempting
  <2>2. CASE pc'[q] \notin {"mark", "unread"}
    <3>1. spend[In(q)[vin[q]]] # Tx(q) /\ vin[q] = 1 /\ pc'[q] = "failed"
      BY <1>2, <2>2 DEF Look, Unwind
    <3>2. UNCHANGED <<pending, removed>>
      BY <1>2 DEF Look, logVars
    <3>3. QED
      BY <3>1, <3>2
  <2>3. QED
    BY <2>1, <2>2
<1>3. CASE AllMarked(q) \/ Submit(q)
  BY <1>3 DEF AllMarked, Submit, Attempting
<1>4. CASE Answer(q)
  <2>1. vin[q] = Len(In(q)) + 1
    BY <1>4 DEF Answer, Unwind, IInv, Full, Submitted, Submitting
  <2>2. vin[q] # 1
    BY <2>1, InputFacts, EmptySeq, LenProperties
  <2>3. pc'[q] \in {"accept", "unread"}
    BY <1>4, <2>2 DEF Answer, Unwind
  <2>4. QED
    BY <2>3 DEF Attempting
<1>5. CASE Accept(q)
  BY <1>5 DEF Accept
<1>6. CASE Unread(q)
  BY <1>6 DEF Unread, Attempting
<1>7. CASE Unset(q)
  BY <1>7 DEF Unset, Attempting
<1>8. CASE Delog(q)
  BY <1>8 DEF Delog
<1>9. CASE Vet(q) \/ LogAttempt(q) \/ Ingest(q) \/ IngestLog(q)
  BY <1>c, <1>9 DEF Vet, LogAttempt, Ingest, IngestLog
<1>10. QED
  BY <1>1, <1>2, <1>3, <1>4, <1>5, <1>6, <1>7, <1>8, <1>9 DEF Request

\* A request comes to unwind only with an input it has been through.
LEMMA UndoingStep ==
  ASSUME IInv, Undoing, [Next]_vars
  PROVE  Undoing'
<1>a. pc \in [Requests -> Places] /\ vin \in [Requests -> Nat \ {0}]
  BY DEF IInv, TypeOK
<1>b. /\ Unwinding = {"unread", "unset", "delog"}
      /\ Submitting = {"submit", "wait", "accept", "ingest", "ilog"}
  BY DEF Unwinding, Submitting
<1>1. ASSUME NEW r \in Requests, Request(r) PROVE Undoing'
  <2>1. \A q \in Requests \ {r} : pc'[q] = pc[q] /\ vin'[q] = vin[q]
    BY <1>1, RequestFrame
  <2>2. pc'[r] \in Unwinding => vin'[r] > 1
    <3> USE <1>a, <1>b DEF Goto
    <3>1. CASE Vet(r) \/ LogAttempt(r) \/ AllMarked(r) \/ Submit(r)
      BY <3>1 DEF Vet, LogAttempt, AllMarked, Submit
    <3>2. CASE Mark(r) \/ Look(r)
      BY <3>2 DEF Mark, Look, Unwind
    <3>3. CASE Answer(r)
      BY <3>3 DEF Answer, Unwind
    <3>4. CASE Accept(r) \/ Ingest(r) \/ IngestLog(r)
      BY <3>4 DEF Accept, Ingest, IngestLog
    <3>5. CASE Unread(r) \/ Unset(r) \/ Delog(r)
      BY <3>5 DEF Unread, Unset, Delog, Undoing
    <3>6. QED
      BY <1>1, <3>1, <3>2, <3>3, <3>4, <3>5 DEF Request
  <2>3. QED
    BY <2>1, <2>2 DEF Undoing
<1>2. ASSUME NEW t \in Txids, Service(t) PROVE Undoing'
  BY <1>2, ServiceFrame DEF Undoing
<1>3. CASE Crash
  BY <1>3, <1>b, CrashFrame DEF Undoing
<1>4. CASE UNCHANGED vars
  BY <1>4 DEF vars, Undoing
<1>5. QED
  BY <1>1, <1>2, <1>3, <1>4 DEF Next

\* What a duplicate has done to the entry of a request excuses it as long as the
\* entry stays, and the duplicate stays where it is.
LEMMA SpoiledStays ==
  ASSUME NEW q \in Requests, NEW r \in Requests, lost \subseteq lost',
         pending'[Tx(r)] = pending[Tx(r)], pc'[q] = pc[q], vin'[q] = vin[q]
  PROVE  /\ Spoiled(q, r) => Spoiled(q, r)'
         /\ Delogged(q, r) => Delogged(q, r)'
BY DEF Spoiled, Delogged, Attempting, Tx

\* From the acceptance on a transaction stays logged as sent, or excused.
LEMMA PendedStep ==
  ASSUME LogInv, \A r \in Requests : In(r) # <<>>, [Next]_vars
  PROVE  Pended'
<1>a. /\ IInv /\ pc \in [Requests -> Places] /\ vin \in [Requests -> Nat \ {0}]
      /\ pending \in [Txids -> {"none", "attempt", "sent"}]
  BY DEF LogInv, IInv, TypeOK
<1>b. \A r \in Requests : Tx(r) \in Txids
  BY InputFacts
<1> SUFFICES ASSUME NEW r \in Requests, pc'[r] \in {"ingest", "ilog", "ok"},
                    Tx(r) \notin faulted'
             PROVE  InLog(r)'
  BY DEF Pended, InLog, Tx
<1> USE <1>a, <1>b
<1>c. ASSUME pending'[Tx(r)] = "sent" \/ Tx(r) \in removed' PROVE InLog(r)'
  BY <1>c DEF InLog, Tx
<1>d. ASSUME NEW q \in Requests, Spoiled(q, r)' PROVE InLog(r)'
  BY <1>d DEF InLog
<1>1. ASSUME NEW q \in Requests, Request(q)
      PROVE  InLog(r)'
  <2>a. /\ faulted \subseteq faulted' /\ lost \subseteq lost'
        /\ \A p \in Requests \ {q} : pc'[p] = pc[p] /\ vin'[p] = vin[p]
    BY <1>1, RequestFrame
  <2>b. \/ UNCHANGED <<pending, removed>>
        \/ LogAttempt(q) /\ Log(Tx(q), "attempt")
        \/ pc[q] \in {"accept", "ilog"} /\ Log(Tx(q), "sent")
        \/ Delog(q) /\ Log(Tx(q), "none")
    BY <1>1, LogEffect
  <2>c. \A score : Log(Tx(q), score) =>
          /\ pending'[Tx(q)] = score
          /\ Tx(q) # Tx(r) => /\ pending'[Tx(r)] = pending[Tx(r)]
                              /\ Tx(r) \in removed => Tx(r) \in removed'
    BY DEF Log
  <2>1. CASE pc[r] \notin {"ingest", "ilog", "ok"}
    <3>1. q = r
      BY <2>1, <2>a
    <3>2. Accept(r)
      BY <1>1, <2>1, <3>1 DEF Request, Vet, LogAttempt, Mark, Look, AllMarked, Submit,
         Answer, Ingest, IngestLog, Unread, Unset, Delog, Unwind, Goto
    <3>3. Log(Tx(r), "sent")
      BY <3>2 DEF Accept, LogFault
    <3>4. QED
      BY <1>c, <2>c, <3>1, <3>3
  <2> SUFFICES ASSUME pc[r] \in {"ingest", "ilog", "ok"} PROVE InLog(r)'
    BY <2>1
  <2>2. InLog(r) /\ Tx(r) \notin faulted
    BY <2>a DEF LogInv, Pended
  <2>3. CASE q = r
    <3>1. UNCHANGED <<pending, removed>> \/ Log(Tx(r), "sent")
      BY <2>3, <2>b DEF LogAttempt, Delog, Goto
    <3>2. CASE UNCHANGED <<pending, removed>>
      <4>1. ASSUME NEW p \in Requests, Spoiled(p, r) PROVE InLog(r)'
        <5>1. p # r
          BY <4>1 DEF Spoiled
        <5>2. Spoiled(p, r)'
          BY <4>1, <5>1, <2>3, <2>a, <3>2, SpoiledStays
        <5>3. QED
          BY <1>d, <5>2
      <4>2. QED
        BY <1>c, <2>2, <3>2, <4>1 DEF InLog
    <3>3. QED
      BY <1>c, <2>3, <2>c, <3>1, <3>2
  <2>4. CASE q # r /\ Tx(q) # Tx(r)
    <3>1. pending'[Tx(r)] = pending[Tx(r)] /\ (Tx(r) \in removed => Tx(r) \in removed')
      BY <2>4, <2>b, <2>c
    <3>2. ASSUME NEW p \in Requests, Spoiled(p, r) PROVE InLog(r)'
      <4>1. p # q
        BY <2>4, <3>2 DEF Spoiled
      <4>2. Spoiled(p, r)'
        BY <4>1, <2>a, <3>1, <3>2, SpoiledStays
      <4>3. QED
        BY <1>d, <4>2
    <3>3. QED
      BY <1>c, <2>2, <3>1, <3>2 DEF InLog
  <2>5. CASE q # r /\ Tx(q) = Tx(r)
    <3>1. CASE LogAttempt(q) /\ Log(Tx(q), "attempt")
      <4>1. pc'[q] = "mark"
        BY <2>5, <3>1 DEF LogAttempt, LogFault, Goto
      <4>2. Spoiled(q, r)'
        BY <2>5, <2>c, <3>1, <4>1 DEF Spoiled, Attempting, Marking, Tx
      <4>3. QED
        BY <1>d, <4>2
    <3>2. CASE Log(Tx(q), "sent")
      BY <1>c, <2>5, <2>c, <3>2
    <3>3. CASE Delog(q) /\ Log(Tx(q), "none")
      <4>1. pc'[q] = "failed" /\ vin'[q] > 1
        BY <3>3 DEF Delog, Goto, LogInv, Undoing, Unwinding
      <4>2. Spoiled(q, r)'
        BY <2>5, <2>c, <3>3, <4>1 DEF Spoiled, Delogged, Tx
      <4>3. QED
        BY <1>d, <4>2
    <3>4. CASE UNCHANGED <<pending, removed>>
      <4>1. ASSUME NEW p \in Requests, p # q, Spoiled(p, r) PROVE InLog(r)'
        <5>1. Spoiled(p, r)'
          BY <2>a, <3>4, <4>1, SpoiledStays
        <5>2. QED
          BY <1>d, <5>1
      <4>2. ASSUME Spoiled(q, r) PROVE InLog(r)'
        <5>1. pc[q] # "failed"
          BY <1>1 DEF Request, Vet, LogAttempt, Mark, Look, AllMarked, Submit, Answer,
             Accept, Ingest, IngestLog, Unread, Unset, Delog, Unwind, Goto
        <5>2. pending[Tx(r)] = "attempt" /\ Attempting(q)
          BY <4>2, <5>1 DEF Spoiled, Delogged
        <5>3. \/ Attempting(q)'
              \/ Log(Tx(q), "sent")
              \/ Delog(q) /\ Log(Tx(q), "none")
              \/ pc'[q] = "failed" /\ spend[In(q)[1]] # Tx(q)
          <6>1. In(q) # <<>> /\ Tx(q) \notin faulted'
            BY <2>5
          <6>2. QED
            BY <1>1, <5>2, <6>1, AttemptGoesOn
        <5>4. CASE Attempting(q)'
          <6>1. Spoiled(q, r)'
            BY <2>5, <3>4, <5>2, <5>4 DEF Spoiled, Tx
          <6>2. QED
            BY <1>d, <6>1
        <5>5. CASE pc'[q] = "failed" /\ spend[In(q)[1]] # Tx(q)
          <6>1. In(q) = In(r)
            BY <2>5 DEF In, Tx
          <6>2. 1 \in 1..(vin[r] - 1)
            <7>1. vin[r] = Len(In(r)) + 1
              BY DEF IInv, Full, Submitted, Submitting
            <7>2. Len(In(r)) \in Nat /\ Len(In(r)) # 0
              BY InputFacts, EmptySeq, LenProperties
            <7>3. QED
              BY <7>1, <7>2
          <6>3. r \in lost
            BY <2>5, <5>5, <6>1, <6>2 DEF IInv, Marked, Submitted, Submitting
          <6>4. Spoiled(q, r)'
            BY <2>5, <2>a, <3>4, <5>2, <5>5, <6>3 DEF Spoiled, Tx
          <6>5. QED
            BY <1>d, <6>4
        <5>6. QED
          BY <3>2, <3>3, <5>3, <5>4, <5>5
      <4>3. QED
        BY <1>c, <2>2, <3>4, <4>1, <4>2 DEF InLog
    <3>5. QED
      BY <2>b, <3>1, <3>2, <3>3, <3>4
  <2>6. QED
    BY <2>3, <2>4, <2>5
<1>2. ASSUME NEW t \in Txids, Service(t)
      PROVE  InLog(r)'
  <2>1. UNCHANGED <<pc, vin>> /\ lost \subseteq lost' /\ faulted' = faulted
    BY <1>2, ServiceFrame
  <2>2. InLog(r)
    BY <2>1 DEF LogInv, Pended
  <2>3. \/ pending'[Tx(r)] = pending[Tx(r)] /\ (Tx(r) \in removed => Tx(r) \in removed')
        \/ pending'[Tx(r)] = "sent" \/ Tx(r) \in removed'
    BY <1>2, ServiceLogs
  <2>4. ASSUME pending'[Tx(r)] = pending[Tx(r)], Tx(r) \notin removed PROVE InLog(r)'
    <3>1. ASSUME NEW p \in Requests, Spoiled(p, r) PROVE InLog(r)'
      BY <1>d, <2>1, <2>4, <3>1, SpoiledStays
    <3>2. QED
      BY <1>c, <2>1, <2>2, <2>4, <3>1 DEF InLog
  <2>5. QED
    BY <1>c, <2>3, <2>4
<1>3. CASE Crash
  <2>1. /\ UNCHANGED <<pending, removed, vin, lost>> /\ faulted \subseteq faulted'
        /\ \A p \in Requests : pc'[p] = pc[p] \/ Tx(p) \in faulted'
    BY <1>3, CrashFrame
  <2>2. InLog(r)
    BY <2>1 DEF LogInv, Pended
  <2>3. ASSUME NEW p \in Requests, Spoiled(p, r) PROVE InLog(r)'
    <3>1. pc'[p] = pc[p]
      BY <2>1, <2>3 DEF Spoiled
    <3>2. QED
      BY <1>d, <2>1, <2>3, <3>1, SpoiledStays
  <2>4. QED
    BY <1>c, <2>1, <2>2, <2>3 DEF InLog
<1>4. CASE UNCHANGED vars
  BY <1>4 DEF vars, LogInv, Pended, InLog, Spoiled, Delogged, Attempting, Tx
<1>5. QED
  BY <1>1, <1>2, <1>3, <1>4 DEF Next

\* From its attempt on a transaction stays in the log, or excused.
LEMMA TrackedStep ==
  ASSUME LogInv, [Next]_vars
  PROVE  Tracked'
<1>a. /\ IInv /\ pc \in [Requests -> Places] /\ vin \in [Requests -> Nat \ {0}]
      /\ pending \in [Txids -> {"none", "attempt", "sent"}]
  BY DEF LogInv, IInv, TypeOK
<1>b. \A r \in Requests : Tx(r) \in Txids
  BY InputFacts
<1>c. /\ Marking = {"mark", "look"}
      /\ Submitted = {"submit", "wait", "accept", "ingest", "ilog", "ok", "orphan"}
  BY DEF Marking, Submitted, Submitting
<1> SUFFICES ASSUME NEW r \in Requests, pc'[r] \in Marking \cup Submitted
             PROVE  Logged(r)'
  BY DEF Tracked, Logged, Tx, Marking, Submitted, Submitting
<1> USE <1>a, <1>b
<1>d. ASSUME pending'[Tx(r)] # "none" \/ Tx(r) \in removed' PROVE Logged(r)'
  BY <1>d DEF Logged, Tx
<1>e. ASSUME NEW q \in Requests, Delogged(q, r)' PROVE Logged(r)'
  BY <1>e DEF Logged
<1>1. ASSUME NEW q \in Requests, Request(q)
      PROVE  Logged(r)'
  <2>a. \A p \in Requests \ {q} : pc'[p] = pc[p] /\ vin'[p] = vin[p]
    BY <1>1, RequestFrame
  <2>b. \/ UNCHANGED <<pending, removed>>
        \/ LogAttempt(q) /\ Log(Tx(q), "attempt")
        \/ pc[q] \in {"accept", "ilog"} /\ Log(Tx(q), "sent")
        \/ Delog(q) /\ Log(Tx(q), "none")
    BY <1>1, LogEffect
  <2>c. \A score : Log(Tx(q), score) =>
          /\ pending'[Tx(q)] = score
          /\ Tx(q) # Tx(r) => /\ pending'[Tx(r)] = pending[Tx(r)]
                              /\ Tx(r) \in removed => Tx(r) \in removed'
    BY DEF Log
  <2>1. CASE Tx(q) = Tx(r) /\ \E score \in {"attempt", "sent"} : Log(Tx(q), score)
    BY <1>d, <2>1, <2>c
  <2>2. CASE Tx(q) = Tx(r) /\ Delog(q)
    <3>1. pc'[q] = "failed" /\ vin'[q] > 1
      BY <2>2 DEF Delog, Goto, LogInv, Undoing, Unwinding
    <3>2. q # r
      BY <1>c, <3>1
    <3>3. Delogged(q, r)'
      BY <2>2, <3>1, <3>2 DEF Delogged, Tx
    <3>4. QED
      BY <1>e, <3>3
  <2>3. CASE Tx(q) # Tx(r) \/ UNCHANGED <<pending, removed>>
    <3>1. pending'[Tx(r)] = pending[Tx(r)] /\ (Tx(r) \in removed => Tx(r) \in removed')
      BY <2>3, <2>b, <2>c
    <3>2. pc[q] # "failed"
      BY <1>1 DEF Request, Vet, LogAttempt, Mark, Look, AllMarked, Submit, Answer,
         Accept, Ingest, IngestLog, Unread, Unset, Delog, Unwind, Goto
    <3>3. ASSUME NEW p \in Requests, Delogged(p, r) PROVE Logged(r)'
      <4>1. p # q
        BY <3>2, <3>3 DEF Delogged
      <4>2. Delogged(p, r)'
        BY <2>a, <3>3, <4>1 DEF Delogged, Tx
      <4>3. QED
        BY <1>e, <4>2
    <3>4. CASE pc[r] \in Marking \cup Submitted
      BY <1>d, <3>1, <3>3, <3>4 DEF LogInv, Tracked, Logged
    <3>5. CASE pc[r] \notin Marking \cup Submitted
      <4>1. q = r
        BY <2>a, <3>5
      <4>2. pc[r] \notin Marking \cup Submitted /\ pc'[r] \in Marking \cup Submitted
        BY <3>5
      <4>3. LogAttempt(r) /\ pc'[r] = "mark"
        <5>1. LogAttempt(r)
          BY <1>1, <1>c, <4>1, <4>2 DEF Request, Vet, Mark, Look, AllMarked, Submit,
             Answer, Accept, Ingest, IngestLog, Unread, Unset, Delog, Unwind, Goto
        <5>2. QED
          BY <1>c, <4>2, <5>1 DEF LogAttempt, Goto
      <4>4. Log(Tx(r), "attempt")
        BY <4>3 DEF LogAttempt, Goto
      <4>5. QED
        BY <1>d, <2>c, <4>1, <4>4
    <3>6. QED
      BY <3>4, <3>5
  <2>4. QED
    BY <2>b, <2>1, <2>2, <2>3
<1>2. ASSUME NEW t \in Txids, Service(t)
      PROVE  Logged(r)'
  <2>1. UNCHANGED <<pc, vin>>
    BY <1>2, ServiceFrame
  <2>2. Logged(r)
    BY <2>1 DEF LogInv, Tracked
  <2>3. \/ pending'[Tx(r)] = pending[Tx(r)] /\ (Tx(r) \in removed => Tx(r) \in removed')
        \/ pending'[Tx(r)] = "sent" \/ Tx(r) \in removed'
    BY <1>2, ServiceLogs
  <2>4. \A p \in Requests : Delogged(p, r) => Delogged(p, r)'
    BY <2>1 DEF Delogged, Tx
  <2>5. QED
    BY <1>d, <1>e, <2>2, <2>3, <2>4 DEF Logged
<1>3. CASE Crash
  <2>1. /\ UNCHANGED <<pending, removed, vin>>
        /\ \A p \in Requests :
             \/ pc'[p] = pc[p]
             \/ pc[p] \in Submitting /\ pc'[p] = "orphan"
             \/ pc'[p] = "dead"
        /\ \A p \in Requests : pc[p] = "failed" => pc'[p] = "failed"
    BY <1>3, CrashFrame DEF Crash, Submitting, Marking, Unwinding
  <2>2. pc[r] \in Marking \cup Submitted
    BY <1>c, <2>1 DEF Submitting
  <2>3. \A p \in Requests : Delogged(p, r) => Delogged(p, r)'
    BY <2>1 DEF Delogged, Tx
  <2>4. QED
    BY <1>d, <1>e, <2>1, <2>2, <2>3 DEF LogInv, Tracked, Logged
<1>4. CASE UNCHANGED vars
  BY <1>4 DEF vars, LogInv, Tracked, Logged, Delogged, Tx
<1>5. QED
  BY <1>1, <1>2, <1>3, <1>4 DEF Next

\* The log keeps what it is for in every reachable state.
LEMMA LogHolds ==
  ASSUME "sqlite" \notin Backends, \A r \in Requests : In(r) # <<>>
  PROVE  Spec => []LogInv
<1>1. Init => LogInv
  <2> SUFFICES ASSUME Init PROVE LogInv
    OBVIOUS
  <2>1. IInv /\ \A r \in Requests : pc[r] = "new"
    BY InitIInv DEF Init
  <2>2. Undoing /\ Pended /\ Tracked
    BY <2>1 DEF Undoing, Pended, Tracked, Unwinding, Marking, Submitted, Submitting
  <2>3. QED
    BY <2>1, <2>2 DEF LogInv
<1>2. LogInv /\ [Next]_vars => LogInv'
  BY NextIInv, UndoingStep, PendedStep, TrackedStep DEF LogInv
<1>3. QED
  BY <1>1, <1>2, PTL DEF Spec

Undone == IInv /\ Accounted /\ OwnDels

\* What is undone stays accounted for in every reachable state.
LEMMA UndoneHolds ==
  ASSUME "sqlite" \notin Backends
  PROVE  Spec => []Undone
<1>1. Init => Undone
  <2> SUFFICES ASSUME Init PROVE Undone
    OBVIOUS
  <2>1. IInv
    BY InitIInv
  <2>2. Accounted /\ OwnDels
    BY DEF Init, Accounted, OwnDels
  <2>3. QED
    BY <2>1, <2>2 DEF Undone
<1>2. Undone /\ [Next]_vars => Undone'
  <2> SUFFICES ASSUME Undone, [Next]_vars PROVE Undone'
    OBVIOUS
  <2>1. IInv'
    BY NextIInv DEF Undone
  <2>2. OwnDels'
    BY OwnDelsStep DEF Undone
  <2>3. Accounted'
    <3>1. CASE backend # "redis"
      <4>1. backend' = backend
        BY RequestFrame, ServiceFrame, CrashFrame DEF Next, vars, Undone
      <4>2. QED
        BY <3>1, <4>1 DEF Accounted
    <3>2. CASE backend = "redis" /\ Next
      BY <3>2, AccountedRequest, AccountedService, AccountedCrash DEF Next, Undone
    <3>3. CASE UNCHANGED vars
      BY <3>3 DEF vars, Undone, Accounted, Keeps, Prefix, In, Tx
    <3>4. QED
      BY <3>1, <3>2, <3>3
  <2>4. QED
    BY <2>1, <2>2, <2>3 DEF Undone
<1>3. QED
  BY <1>1, <1>2, PTL DEF Spec

\* On Redis a request that failed leaves no marks behind, on whichever path it
\* failed, among duplicates, rollbacks and ingests, unless a store error or a
\* crash hit its transaction (broadcast.go:115-133, 264-287).
THEOREM NothingLeaks ==
  ASSUME "sqlite" \notin Backends
  PROVE  Spec => []NoLeakedMarks
<1>1. Undone => NoLeakedMarks
  BY DEF Undone, Accounted, NoLeakedMarks, Keeps, Unwinding
<1>2. QED
  BY <1>1, UndoneHolds, PTL

\* A transaction answered with success stays logged as sent, among duplicates that
\* are refused, fail or succeed, store errors, crashes, rollbacks and audits, or a
\* duplicate or one of the named events took it out; a transaction spends something
\* (broadcast.go:105-133, 252, 264-287).
THEOREM SuccessIsPending ==
  ASSUME "sqlite" \notin Backends, \A r \in Requests : In(r) # <<>>
  PROVE  Spec => []SuccessStaysPending
<1>1. LogInv => SuccessStaysPending
  BY DEF LogInv, Pended, InLog, SuccessStaysPending
<1>2. QED
  BY <1>1, LogHolds, PTL

\* A transaction that may have reached ARC is in the log, whatever errors and
\* crashes hit its requests, unless a duplicate undid its own marks, or a
\* rollback or an audit took it out (broadcast.go:109, 252, 283).
THEOREM SubmittedIsLogged ==
  ASSUME "sqlite" \notin Backends, \A r \in Requests : In(r) # <<>>
  PROVE  Spec => []SubmittedIsTracked
<1>1. LogInv => SubmittedIsTracked
  BY DEF LogInv, Tracked, Logged, SubmittedIsTracked
<1>2. QED
  BY <1>1, LogHolds, PTL

\* On Redis rollbackSpends takes away no mark of another transaction, unless the
\* mark changed hands after it was read (broadcast.go:264-287).
THEOREM UnsetsItsOwn ==
  ASSUME "sqlite" \notin Backends
  PROVE  Spec => UnsetsOnlyOwn
<1> DEFINE Own == \A r \in Requests :
                    /\ backend = "redis"
                    /\ pc[r] = "unset" /\ pc'[r] = "delog"
                    /\ r \notin overtaken
                    => \A o \in Outpoints : spend'[o] # spend[o] => spend[o] = Tx(r)
<1>1. Undone /\ [Next]_vars => [Own]_vars
  <2> SUFFICES ASSUME Undone, Next, NEW r \in Requests, backend = "redis",
                      pc[r] = "unset", pc'[r] = "delog", r \notin overtaken,
                      NEW o \in Outpoints, spend'[o] # spend[o]
               PROVE  spend[o] = Tx(r)
    OBVIOUS
  <2>1. Unset(r)
    <3>1. ASSUME NEW q \in Requests, Request(q) PROVE q = r
      BY <3>1, RequestFrame DEF Undone
    <3>2. ~Crash /\ \A t \in Txids : ~Service(t)
      BY ServiceFrame, CrashFrame DEF Undone
    <3>3. Request(r)
      BY <3>1, <3>2 DEF Next
    <3>4. QED
      BY <3>3 DEF Request, Goto, Vet, LogAttempt, Mark, Look, AllMarked, Submit, Answer,
         Accept, Ingest, IngestLog, Unread, Delog, Unwind
  <2>2. o \in dels[r]
    BY <2>1 DEF Unset, Overwrite, Without, NoOverwrite
  <2>3. QED
    BY <2>2 DEF Undone, OwnDels
<1>2. QED
  BY <1>1, UndoneHolds, PTL DEF Spec, UnsetsOnlyOwn

=============================================================================
