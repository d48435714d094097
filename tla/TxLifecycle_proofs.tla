------------------------- MODULE TxLifecycle_proofs -------------------------
(***************************************************************************)
(* Proofs about TxLifecycle: its invariants, and that the audit spares     *)
(* what is final, for any number of transactions, any depth, and any       *)
(* number of blocks, inputs, callbacks and faults, when every Height is    *)
(* read after it was stored.                                               *)
(***************************************************************************)
EXTENDS TxLifecycle, SequenceTheorems, TLAPS

\* The phases in which a part of the audit has jobs.
Later(kind) == CASE kind = "attempt" -> {"mined", "mempool", "wait"}
                 [] kind = "mined"   -> {"mempool", "wait"}
                 [] OTHER            -> {"wait"}

\* Which kinds of job get where, and when an audit has jobs.
Roles ==
  \A j \in Jobs :
    /\ job[j].at = "sent" => Kind(j) = "post"
    /\ job[j].at = "load" => Kind(j) \in Audits \cup {"proof", "queue"}
    /\ job[j].at \in {"save", "logp"} => Kind(j) \in Archivers \cup {"post", "queue"}
    /\ job[j].at \in {"cmp", "logi", "delog"} => Kind(j) \in Archivers
    /\ job[j].at = "rollback" => Kind(j) \in Audits \cup {"reject"}
    /\ job[j].at = "dequeue" => Kind(j) = "queue"
    /\ Kind(j) \in Audits /\ job[j].at # "idle" => phase \in Later(Kind(j))

\* imm stays Depth below the tip, and so do the tips that wait.
TipOrder ==
  /\ imm <= tip - Depth
  /\ \A i \in 1..Len(C) : C[i] <= tip

Final(t) == chain[t] \in 1..(tip - Depth - 1)

\* A job whose proof is validated, not compared, and will be found to be below
\* the imm it was validated under.
Below(j) == /\ Kind(j) \in Archivers
            /\ job[j].at \in {"save", "logp", "cmp"}
            /\ ~job[j].stale
            /\ job[j].height < imm
Archives(j) == job[j].at = "logi" /\ ~job[j].stale

\* What was validated and is below imm is final, so it still holds.
ProofsHold ==
  /\ \A j \in Jobs : Below(j) => /\ job[j].height >= 1
                                 /\ chain[Tx(j)] = job[j].height
  /\ \A j \in Jobs : Archives(j) => Final(Tx(j))
  /\ ArchivedIsFinal

\* What an audit is about to roll back is not below imm, nor archived, nor
\* about to be.
Condemned ==
  \A j \in Jobs :
    Kind(j) \in Audits /\ job[j].at = "rollback" =>
      \/ Tx(j) \in Noted("denied")
      \/ /\ chain[Tx(j)] \notin 1..(imm - 1)
         /\ Tx(j) \notin logs["immutable"] \ Noted("early")
         /\ \A i \in Jobs : Tx(i) = Tx(j) => ~Archives(i)

Undone == Noted("denied") \cup Noted("rejected")

\* What will be archived has been saved.
Indexed ==
  /\ \A j \in Jobs : \/ Archives(j)
                     \/ Below(j) /\ job[j].at # "save"
                     => Tx(j) \in index \cup Undone
  /\ ArchivedIsIndexed

\* A transaction at rest is in a log that only a rollback touches; what was
\* kept once is pending, at rest, or known to be lost.
AtRest(t) == \/ t \in logs["immutable"] \cup logs["rollback"]
             \/ \E k \in Kinds : job[<<k, t>>].at = "logr"
             \/ t \in Noted("cut")
Kept(t) == AtRest(t) \/ pend[t] # NoEntry \/ t \in Noted("dropped")

Tracking ==
  /\ \A t \in Noted("posted") : Kept(t)
  /\ \A t \in Noted("known") : Kept(t) \/ t \in logs["queue"]
  /\ \A j \in Jobs : job[j].at # "idle" =>
       /\ Kind(j) \in {"attempt", "mined", "mempool", "proof", "post"} => Kept(Tx(j))
       /\ Kind(j) = "queue" => Kept(Tx(j)) \/ Tx(j) \in logs["queue"]
       /\ job[j].at = "dequeue" => Kept(Tx(j))
       /\ job[j].at = "delog" => AtRest(Tx(j))

IInv == TypeOK /\ Roles /\ TipOrder /\ ProofsHold /\ Condemned /\ Indexed /\ Tracking

(***************************************************************************)
(* Types.                                                                  *)
(***************************************************************************)

\* What Goto does to the jobs.
LEMMA Going ==
  ASSUME NEW j \in Jobs, NEW from, NEW to \in Places, job \in [Jobs -> JobStates],
         Goto(j, from, to)
  PROVE  /\ job' \in [Jobs -> JobStates]
         /\ job[j].at = from /\ job'[j].at = to
         /\ to # "idle" => /\ job'[j].height = job[j].height
                           /\ job'[j].stale = job[j].stale
                           /\ job'[j].old = job[j].old
         /\ \A i \in Jobs : i # j => job'[i] = job[i]
<1>1. Idle \in JobStates /\ Idle.at = "idle"
  BY DepthAssumption, TipAssumption DEF Idle, JobStates, Places, Heights
<1>2. CASE to = "idle"
  BY <1>1, <1>2 DEF Goto
<1>3. CASE to # "idle"
  <2>1. job' = [job EXCEPT ![j] = [job[j] EXCEPT !.at = to]]
    BY <1>3 DEF Goto
  <2>2. job[j] \in JobStates
    OBVIOUS
  <2>3. [job[j] EXCEPT !.at = to] \in JobStates
    BY <2>2 DEF JobStates
  <2>4. /\ [job[j] EXCEPT !.at = to].at = to
        /\ [job[j] EXCEPT !.at = to].height = job[j].height
        /\ [job[j] EXCEPT !.at = to].stale = job[j].stale
        /\ [job[j] EXCEPT !.at = to].old = job[j].old
    BY <2>2 DEF JobStates
  <2>5. job[j].at = from
    BY DEF Goto
  <2> QED
    BY <1>3, <2>1, <2>3, <2>4, <2>5
<1> QED
  BY <1>2, <1>3

\* Where the jobs are headed are places.
LEMMA Destinations ==
  ASSUME NEW j \in Jobs
  PROVE  GoneTo(j) \in {"idle", "rollback"} /\ MissingTo(j) \in {"idle", "rollback", "drop"}
BY DEF GoneTo, MissingTo

\* Entries of the pending log.
LEMMA EntryType ==
  /\ NoEntry \in Entries
  /\ \A h \in Heights : Entry(h) \in Entries /\ Entry(h) # NoEntry
  /\ [class |-> "attempt", at |-> 0] \in Entries \ {NoEntry}
BY DepthAssumption, TipAssumption DEF NoEntry, Entry, Entries, Heights

\* A block of a transaction is a height up to the tip.
LEMMA ChainType ==
  ASSUME TypeOK
  PROVE  \A t \in Txids : chain[t] \in Nat
<1>1. SUFFICES ASSUME NEW t \in Txids
               PROVE  chain[t] \in Nat
  OBVIOUS
<1>2. MaxTip \in Nat
  BY TipAssumption
<1>3. chain[t] \in 0..MaxTip
  BY DEF TypeOK, Heights
<1> QED
  BY <1>2, <1>3

\* The types hold when the service first starts.
LEMMA TypeInit == ASSUME Init PROVE TypeOK
BY DepthAssumption, TipAssumption, FlagAssumption, BackendAssumption, BoundAssumption, EntryType
   DEF Init, TypeOK, Idle, JobStates, Places, Heights, Jobs

\* Jobs keep their type, whichever of them moves.
LEMMA JobTypes ==
  ASSUME TypeOK, NEW j \in Jobs, Job(j)
  PROVE  job' \in [Jobs -> JobStates]
<1> USE DEF TypeOK
<1>1. CASE Accepted(j)
  BY <1>1, Going DEF Accepted, Places
<1>2. CASE Refused(j)
  BY <1>2, Going DEF Refused, Places
<1>3. CASE Load(j)
  <2>1. PICK h \in {0, chain[Tx(j)]} : job' = [job EXCEPT ![j].at = "save", ![j].height = h]
    BY <1>3 DEF Load
  <2>2. h \in Heights
    BY TipAssumption DEF Heights, Jobs, Tx
  <2>3. job[j] \in JobStates
    OBVIOUS
  <2>4. [job[j] EXCEPT !.at = "save", !.height = h] \in JobStates
    BY <2>2, <2>3 DEF JobStates, Places
  <2> QED
    BY <2>1, <2>4
<1>4. CASE Missing(j)
  BY <1>4, Going, Destinations DEF Missing, Places
<1>5. CASE CheckAttempt(j)
  BY <1>5, Going DEF CheckAttempt, Places
<1>6. CASE Valid(j)
  <2>1. chain[Tx(j)] \in Heights
    BY DEF Heights, Jobs, Tx
  <2>2. job[j] \in JobStates
    OBVIOUS
  <2>3. [job[j] EXCEPT !.at = "save", !.height = chain[Tx(j)]] \in JobStates
    BY <2>1, <2>2 DEF JobStates, Places
  <2> QED
    BY <1>6, <2>3 DEF Valid
<1>7. CASE Invalid(j)
  BY <1>7, Going, Destinations DEF Invalid, Places
<1>8. CASE Save(j)
  BY <1>8, Going DEF Save, Places
<1>9. CASE SaveLog(j)
  BY <1>9, Going DEF SaveLog, Places
<1>10. CASE Compare(j)
  BY <1>10, Going DEF Compare, Places
<1>11. CASE LogImmutable(j)
  BY <1>11, Going DEF LogImmutable, Places
<1>12. CASE Delog(j)
  BY <1>12, Going DEF Delog, Places
<1>13. CASE Drop(j)
  BY <1>13, Going DEF Drop, Places
<1>14. CASE Rollback(j)
  BY <1>14, Going DEF Rollback, Places
<1>15. CASE LogRollback(j)
  BY <1>15, Going DEF LogRollback, Places
<1>16. CASE Dequeue(j)
  BY <1>16, Going DEF Dequeue, Places
<1>17. CASE Fail(j)
  <2>1. Idle \in JobStates
    BY TipAssumption DEF Idle, JobStates, Places, Heights
  <2> QED
    BY <1>17, <2>1 DEF Fail
<1> QED
  BY <1>1, <1>2, <1>3, <1>4, <1>5, <1>6, <1>7, <1>8, <1>9, <1>10, <1>11, <1>12, <1>13,
     <1>14, <1>15, <1>16, <1>17 DEF Job

\* So do the store and the ghosts; no job touches the chain or the tips.
LEMMA StoreTypes ==
  ASSUME TypeOK, NEW j \in Jobs, Job(j)
  PROVE  /\ UNCHANGED env
         /\ index' \subseteq Txids
         /\ pend' \in [Txids -> Entries]
         /\ logs' \in [{"immutable", "rollback", "queue"} -> SUBSET Txids]
         /\ notes' \subseteq Notes \X Txids
         /\ left' \in [{"input", "callback", "fault"} -> Nat]
<1>1. Tx(j) \in Txids
  BY DEF Jobs, Tx
<1>2. job[j].height \in Heights
  BY DEF TypeOK, JobStates
<1> USE <1>1, EntryType DEF TypeOK, store, Note, Log, LogPending, Unqueue, Use, Notes
<1>3. CASE Accepted(j) \/ Refused(j) \/ SaveLog(j)
  <2>1. Entry(0) \in Entries /\ Entry(job[j].height) \in Entries
    BY <1>2, TipAssumption DEF Heights
  <2>2. PICK e \in Entries : LogPending(Tx(j), e)
    BY <1>3, <2>1 DEF Accepted, Refused, SaveLog
  <2>3. pend' \in [Txids -> Entries]
    BY <2>2
  <2>4. UNCHANGED <<env, index, logs, left>> /\ notes' \subseteq Notes \X Txids
    BY <1>3 DEF Accepted, Refused, SaveLog
  <2> QED
    BY <2>3, <2>4
<1>4. CASE Load(j) \/ CheckAttempt(j) \/ Valid(j) \/ Compare(j)
  BY <1>4 DEF Load, CheckAttempt, Valid, Compare
<1>5. CASE Missing(j) \/ Invalid(j)
  BY <1>5 DEF Missing, Invalid, Denied
<1>6. CASE Save(j)
  BY <1>6 DEF Save
<1>7. CASE LogImmutable(j) \/ LogRollback(j)
  BY <1>7 DEF LogImmutable, LogRollback
<1>8. CASE Delog(j) \/ Drop(j) \/ Dequeue(j)
  BY <1>8 DEF Delog, Drop, Dequeue
<1>9. CASE Rollback(j)
  <2>1. pend' \in [Txids -> Entries]
    BY <1>9 DEF Rollback
  <2>2. logs' \in [{"immutable", "rollback", "queue"} -> SUBSET Txids]
    BY <1>9 DEF Rollback
  <2>3. UNCHANGED <<env, left>> /\ index' \subseteq Txids
    BY <1>9 DEF Rollback
  <2>4. notes' \subseteq Notes \X Txids
    BY <1>9 DEF Rollback
  <2> QED
    BY <2>1, <2>2, <2>3, <2>4
<1>10. CASE Fail(j)
  <2>1. notes' \subseteq Notes \X Txids
    BY <1>10 DEF Fail
  <2>2. left' \in [{"input", "callback", "fault"} -> Nat]
    BY <1>10 DEF Fail
  <2> QED
    BY <1>10, <2>1, <2>2 DEF Fail
<1> QED
  BY <1>3, <1>4, <1>5, <1>6, <1>7, <1>8, <1>9, <1>10 DEF Job

\* A block keeps the types, whatever it undoes.
LEMMA ExtendTypes ==
  ASSUME TypeOK, Extend
  PROVE  /\ chain' \in [Txids -> Heights]
         /\ \A t \in Txids : chain'[t] <= tip'
         /\ tip' = tip + 1 /\ tip' \in Depth..MaxTip
         /\ \A t \in Txids : \/ chain'[t] = chain[t] /\ chain[t] # 0
                             \/ chain'[t] = 0 \/ chain'[t] >= tip - Depth
         /\ \A t \in Txids : chain[t] \in 1..(tip - Depth - 1) => chain'[t] = chain[t]
<1> USE DepthAssumption, TipAssumption DEF TypeOK
<1>1. tip' = tip + 1 /\ tip' \in Depth..MaxTip
  BY DEF Extend
<1>2. PICK f \in (tip - Depth - 1)..tip :
        /\ chain' \in [Txids -> Heights]
        /\ \A t \in Txids : IF chain[t] \in 1..f THEN chain'[t] = chain[t]
                                              ELSE chain'[t] \in {0} \cup (f + 1)..(tip + 1)
  BY DEF Extend
<1>3. \A t \in Txids : chain[t] \in Nat
  BY ChainType
<1>4. tip \in Nat
  OBVIOUS
<1>5. \A t \in Txids : chain'[t] <= tip'
  BY <1>1, <1>2, <1>3, <1>4
<1> QED
  BY <1>1, <1>2, <1>3, <1>4, <1>5

\* Every step keeps the types.
LEMMA TypeStep == ASSUME TypeOK, [Next]_vars PROVE TypeOK'
<1>1. CASE Extend
  BY <1>1, ExtendTypes DEF TypeOK, Extend, store, Forever, Heights
<1>2. CASE GetChaintip
  BY <1>2 DEF GetChaintip, TypeOK, store
<1>3. CASE Announce
  <2>1. /\ Head(C) \in Depth..MaxTip
        /\ Tail(C) \in Seq(Depth..MaxTip)
    <3>1. C \in Seq(Depth..MaxTip) /\ C # <<>>
      BY <1>3 DEF Announce, TypeOK
    <3> QED
      BY <3>1, HeadTailProperties
  <2>2. imm' \in Heights \cup {Forever}
    BY <1>3, <2>1, DepthAssumption, TipAssumption DEF Announce, Heights
  <2>3. \A j \in Jobs : [job[j] EXCEPT !.stale = TRUE] \in JobStates /\ job[j] \in JobStates
    <3>1. SUFFICES ASSUME NEW j \in Jobs
                   PROVE  [job[j] EXCEPT !.stale = TRUE] \in JobStates /\ job[j] \in JobStates
      OBVIOUS
    <3>2. job[j] \in JobStates
      BY DEF TypeOK
    <3> QED
      BY <3>2 DEF JobStates
  <2>4. job' \in [Jobs -> JobStates]
    BY <1>3, <2>3 DEF Announce
  <2> QED
    BY <1>3, <2>1, <2>2, <2>4 DEF Announce, TypeOK, store, Audits
<1>4. CASE \E kind \in Audits : Search(kind)
  <2>1. PICK kind \in Audits : Search(kind)
    BY <1>4
  <2>2. \A b \in BOOLEAN : [Idle EXCEPT !.at = "load", !.old = b] \in JobStates
    <3>1. Idle \in JobStates
      BY TipAssumption DEF Idle, JobStates, Places, Heights
    <3> QED
      BY <3>1 DEF JobStates, Places
  <2>3. job' \in [Jobs -> JobStates]
    BY <2>1, <2>2 DEF Search, TypeOK
  <2>4. phase' \in Audits \cup {"wait"}
    BY <2>1 DEF Search, Following, Audits
  <2> QED
    BY <2>1, <2>3, <2>4 DEF Search, TypeOK, store
<1>5. CASE \E kind \in Audits : SearchFails(kind)
  <2>1. PICK kind \in Audits : SearchFails(kind)
    BY <1>5
  <2>2. phase' \in Audits \cup {"wait"}
    BY <2>1 DEF SearchFails, Following, Audits
  <2>3. left' \in [{"input", "callback", "fault"} -> Nat]
    BY <2>1 DEF SearchFails, Use, TypeOK
  <2> QED
    BY <2>1, <2>2, <2>3 DEF SearchFails, TypeOK, store
<1>6. CASE Wait
  BY <1>6 DEF Wait, TypeOK, store
<1>7. CASE \E t \in Txids : Age(t) \/ Enqueue(t)
  <2>1. PICK t \in Txids : Age(t) \/ Enqueue(t)
    BY <1>7
  <2>2. ASSUME Age(t) PROVE [pend[t] EXCEPT !.at = @ + 1] \in Entries
    <3>1. pend[t] \in Entries
      BY DEF TypeOK
    <3>2. CASE pend[t].class = "attempt" /\ pend[t].at < 1
      BY <3>1, <3>2 DEF Entries, Heights
    <3>3. CASE pend[t].class = "mempool" /\ pend[t].at < 2
      BY <3>1, <3>3 DEF Entries, Heights
    <3> QED
      BY <2>2, <3>2, <3>3 DEF Age
  <2>3. CASE Age(t)
    BY <2>2, <2>3 DEF Age, LogPending, TypeOK, env
  <2>4. CASE Enqueue(t)
    BY <2>4 DEF Enqueue, Use, Log, TypeOK, env
  <2> QED
    BY <2>1, <2>3, <2>4
<1>8. CASE \E t \in Txids : Take(t) \/ Post(t) \/ Callback(t)
  <2>1. PICK t \in Txids : Take(t) \/ Post(t) \/ Callback(t)
    BY <1>8
  <2>2. <<"queue", t>> \in Jobs /\ <<"post", t>> \in Jobs
        /\ <<"proof", t>> \in Jobs /\ <<"reject", t>> \in Jobs
    BY DEF Jobs, Kinds, Audits
  <2>3. job' \in [Jobs -> JobStates]
    BY <2>1, <2>2, Going DEF Take, Post, Callback, TypeOK, Places
  <2>4. CASE Take(t)
    BY <2>3, <2>4 DEF Take, TypeOK, env, store
  <2>5. CASE Post(t)
    BY <2>3, <2>5, EntryType DEF Post, Use, Note, LogPending, TypeOK, env, Notes
  <2>6. CASE Callback(t)
    BY <2>3, <2>6 DEF Callback, Use, TypeOK, env, store
  <2> QED
    BY <2>1, <2>4, <2>5, <2>6
<1>9. CASE \E j \in Jobs : Job(j)
  BY <1>9, JobTypes, StoreTypes DEF TypeOK, env
<1>10. CASE Crash
  <2>1. Idle \in JobStates
    BY TipAssumption DEF Idle, JobStates, Places, Heights
  <2>2. notes' \subseteq Notes \X Txids
    <3>1. \A j \in Cut : Tx(j) \in Txids
      BY DEF Cut, Jobs, Tx
    <3> QED
      BY <1>10, <3>1 DEF Crash, TypeOK, Notes
  <2>3. left' \in [{"input", "callback", "fault"} -> Nat]
    BY <1>10 DEF Crash, Use, TypeOK
  <2>4. UNCHANGED <<backend, chain, tip, index, pend, logs>>
    BY <1>10 DEF Crash, store
  <2>5. /\ chaintip' \in {0} \cup Depth..MaxTip /\ C' \in Seq(Depth..MaxTip)
        /\ imm' \in Heights /\ phase' \in Audits \cup {"idle", "wait"}
        /\ job' \in [Jobs -> JobStates]
    BY <1>10, <2>1, TipAssumption DEF Crash, Heights
  <2> QED
    BY <2>2, <2>3, <2>4, <2>5 DEF TypeOK
<1>11. CASE UNCHANGED vars
  BY <1>11 DEF vars, TypeOK
<1> QED
  BY <1>1, <1>2, <1>3, <1>4, <1>5, <1>6, <1>7, <1>8, <1>9, <1>10, <1>11
     DEF Next, Audit, Client

(***************************************************************************)
(* Roles, and the order of the tips.                                       *)
(***************************************************************************)

\* Only the job that moves changes.
LEMMA Alone ==
  ASSUME TypeOK, NEW j \in Jobs, Job(j)
  PROVE  \A i \in Jobs : i # j => job'[i] = job[i]
<1> USE DEF Goto
<1>1. job \in [Jobs -> JobStates]
  BY DEF TypeOK
<1>2. CASE Accepted(j) \/ Refused(j) \/ Load(j) \/ Missing(j) \/ CheckAttempt(j) \/ Valid(j)
  BY <1>1, <1>2 DEF Accepted, Refused, Load, Missing, CheckAttempt, Valid
<1>3. CASE Invalid(j) \/ Save(j) \/ SaveLog(j) \/ Compare(j) \/ LogImmutable(j) \/ Delog(j)
  BY <1>1, <1>3 DEF Invalid, Save, SaveLog, Compare, LogImmutable, Delog
<1>4. CASE Drop(j) \/ Rollback(j) \/ LogRollback(j) \/ Dequeue(j) \/ Fail(j)
  BY <1>1, <1>4 DEF Drop, Rollback, LogRollback, Dequeue, Fail
<1> QED
  BY <1>2, <1>3, <1>4 DEF Job

\* No goroutine runs when the service first starts.
LEMMA RolesInit == ASSUME Init PROVE Roles
BY DEF Init, Roles, Idle

\* Every step leaves each goroutine at a place of its kind.
LEMMA RolesStep == ASSUME TypeOK, Roles, [Next]_vars PROVE Roles'
<1> USE DEF Roles
<1>0. /\ job \in [Jobs -> JobStates]
      /\ Idle.at = "idle"
  BY DEF TypeOK, Idle
<1>1. CASE Extend \/ GetChaintip \/ UNCHANGED vars \/ \E t \in Txids : Age(t) \/ Enqueue(t)
  <2>1. job' = job /\ phase' = phase
    BY <1>1 DEF Extend, GetChaintip, vars, Age, Enqueue, env
  <2> QED
    BY <2>1
<1>2. CASE Announce
  <2>1. \A j \in Jobs : job'[j].at = job[j].at
    <3>1. SUFFICES ASSUME NEW j \in Jobs PROVE job'[j].at = job[j].at
      OBVIOUS
    <3>2. job[j] \in JobStates
      BY <1>0
    <3>3. job'[j] \in {job[j], [job[j] EXCEPT !.stale = TRUE]}
      BY <1>2 DEF Announce
    <3> QED
      BY <3>2, <3>3 DEF JobStates
  <2>2. \A j \in Jobs : Kind(j) \in Audits => job[j].at = "idle"
    BY <1>2 DEF Announce, Later
  <2> QED
    BY <2>1, <2>2
<1>3. CASE \E kind \in Audits : Search(kind)
  <2>1. PICK kind \in Audits : Search(kind)
    BY <1>3
  <2>2. \A b \in BOOLEAN : [Idle EXCEPT !.at = "load", !.old = b].at = "load"
    BY DEF Idle
  <2>3. \A j \in Jobs : \/ job'[j].at = job[j].at
                        \/ job'[j].at = "load" /\ Kind(j) = kind
    BY <2>1, <2>2 DEF Search
  <2>4. phase = kind /\ phase' = Following(kind)
    BY <2>1 DEF Search
  <2>5. Following(kind) \in Later(kind)
    BY DEF Following, Later, Audits
  <2>6. \A k \in Audits : phase \in Later(k) => phase' \in Later(k)
    BY <2>4 DEF Following, Later, Audits
  <2> QED
    BY <2>3, <2>4, <2>5, <2>6
<1>4. CASE \E kind \in Audits : SearchFails(kind)
  <2>1. job' = job /\ \A k \in Audits : phase \in Later(k) => phase' \in Later(k)
    BY <1>4 DEF SearchFails, Following, Later, Audits
  <2> QED
    BY <2>1
<1>5. CASE Wait
  BY <1>5, <1>0 DEF Wait
<1>6. CASE \E t \in Txids : Take(t) \/ Post(t) \/ Callback(t)
  <2>1. PICK t \in Txids : Take(t) \/ Post(t) \/ Callback(t)
    BY <1>6
  <2>2. /\ <<"queue", t>> \in Jobs /\ <<"post", t>> \in Jobs
        /\ <<"proof", t>> \in Jobs /\ <<"reject", t>> \in Jobs
    BY DEF Jobs, Kinds, Audits
  <2>3. CASE Take(t)
    <3>1. /\ \A i \in Jobs : i # <<"queue", t>> => job'[i] = job[i]
          /\ job'[<<"queue", t>>].at = "load"
      BY <1>0, <2>2, <2>3, Going DEF Take, Places
    <3> QED
      BY <3>1, <2>3 DEF Take, env, Kind, Audits
  <2>4. CASE Post(t)
    <3>1. /\ \A i \in Jobs : i # <<"post", t>> => job'[i] = job[i]
          /\ job'[<<"post", t>>].at = "sent"
      BY <1>0, <2>2, <2>4, Going DEF Post, Places
    <3> QED
      BY <3>1, <2>4 DEF Post, env, Kind, Audits
  <2>5. CASE Callback(t)
    <3>1. PICK k \in {"proof", "reject"} :
            /\ \A i \in Jobs : i # <<k, t>> => job'[i] = job[i]
            /\ job'[<<k, t>>].at = IF k = "proof" THEN "load" ELSE "rollback"
      BY <1>0, <2>2, <2>5, Going DEF Callback, Places
    <3> QED
      BY <3>1, <2>5 DEF Callback, env, Kind, Audits
  <2> QED
    BY <2>1, <2>3, <2>4, <2>5
<1>7. CASE \E j \in Jobs : Job(j)
  <2>1. PICK j \in Jobs : Job(j)
    BY <1>7
  <2>2. phase' = phase
    BY <2>1, StoreTypes DEF env
  <2>3. \A i \in Jobs : i # j => job'[i] = job[i]
    BY <2>1, Alone
  <2>4. SUFFICES /\ job'[j].at \notin {"sent", "load"}
                 /\ job'[j].at \in {"save", "logp"} => Kind(j) \in Archivers \cup {"post", "queue"}
                 /\ job'[j].at \in {"cmp", "logi", "delog"} => Kind(j) \in Archivers
                 /\ job'[j].at = "rollback" => Kind(j) \in Audits \cup {"reject"}
                 /\ job'[j].at = "dequeue" => Kind(j) = "queue"
                 /\ Kind(j) \in Audits /\ job'[j].at # "idle" => phase \in Later(Kind(j))
    BY <2>2, <2>3
  <2>5. Kind(j) \in Kinds
    BY DEF Jobs, Kind
  <2>6. job[j].at = "idle" => FALSE
    BY <2>1 DEF Job, Accepted, Refused, Load, Missing, CheckAttempt, Valid, Invalid, Save,
          SaveLog, Compare, LogImmutable, Delog, Drop, Rollback, LogRollback, Dequeue, Fail, Goto
  <2>7. job[j] \in JobStates
    BY <1>0
  <2>8. CASE Accepted(j) \/ Refused(j)
    BY <1>0, <2>6, <2>8, Going DEF Accepted, Refused, Places, Goto
  <2>9. CASE Load(j) \/ Valid(j)
    <3>1. job'[j].at = "save" /\ Kind(j) \in Archivers \cup {"queue"}
      BY <1>0, <2>7, <2>9 DEF Load, Valid, JobStates
    <3> QED
      BY <2>6, <3>1
  <2>10. CASE Missing(j)
    <3>1. job'[j].at = MissingTo(j)
      BY <1>0, <2>10, Going, Destinations DEF Missing, Places
    <3>2. Kind(j) \in Audits \cup {"proof", "queue"}
      BY <2>10 DEF Missing, Goto
    <3> QED
      BY <2>6, <3>1, <3>2, Destinations DEF MissingTo, GoneTo, Audits
  <2>11. CASE CheckAttempt(j)
    BY <1>0, <2>6, <2>11, Going DEF CheckAttempt, Places
  <2>12. CASE Invalid(j)
    <3>1. job'[j].at = GoneTo(j)
      BY <1>0, <2>12, Going, Destinations DEF Invalid, Places
    <3> QED
      BY <2>6, <2>12, <3>1 DEF GoneTo, Invalid, Archivers, Audits
  <2>13. CASE Save(j)
    BY <1>0, <2>6, <2>13, Going DEF Save, Places, Goto
  <2>14. CASE SaveLog(j)
    <3>1. job'[j].at = CASE Kind(j) = "queue" -> "dequeue"
                         [] Kind(j) = "post"  -> "idle"
                         [] OTHER             -> "cmp"
      BY <1>0, <2>14, Going DEF SaveLog, Places
    <3>2. Kind(j) \in Archivers \cup {"post", "queue"}
      BY <2>14 DEF SaveLog, Goto
    <3> QED
      BY <2>6, <3>1, <3>2
  <2>15. CASE Compare(j)
    BY <1>0, <2>6, <2>15, Going DEF Compare, Places, Goto
  <2>16. CASE LogImmutable(j)
    BY <1>0, <2>6, <2>16, Going DEF LogImmutable, Places, Goto
  <2>17. CASE Delog(j) \/ Drop(j) \/ LogRollback(j) \/ Dequeue(j) \/ Fail(j)
    BY <1>0, <2>17, Going DEF Delog, Drop, LogRollback, Dequeue, Fail, Places
  <2>18. CASE Rollback(j)
    BY <1>0, <2>6, <2>18, Going DEF Rollback, Places
  <2> QED
    BY <2>1, <2>8, <2>9, <2>10, <2>11, <2>12, <2>13, <2>14, <2>15, <2>16, <2>17, <2>18 DEF Job
<1>8. CASE Crash
  BY <1>0, <1>8 DEF Crash
<1> QED
  BY <1>1, <1>2, <1>3, <1>4, <1>5, <1>6, <1>7, <1>8 DEF Next, Audit, Client

\* Nothing was announced when the service first starts.
LEMMA TipInit == ASSUME Init PROVE TipOrder
BY DepthAssumption DEF Init, TipOrder

\* Every step keeps the announced tips in order.
LEMMA TipStep == ASSUME TypeOK, TornHeight = FALSE, TipOrder, [Next]_vars PROVE TipOrder'
<1> USE DepthAssumption, TipAssumption DEF TipOrder
<1>0. /\ tip \in Nat /\ Depth \in Nat
      /\ C \in Seq(Depth..MaxTip)
  BY DEF TypeOK
<1>1. CASE Extend
  <2>1. tip' = tip + 1 /\ C' = C /\ imm' = imm
    BY <1>1 DEF Extend
  <2>2. imm \in Nat
    BY DEF TypeOK, Heights, Forever
  <2>3. \A i \in 1..Len(C) : C[i] \in Nat
    BY <1>0
  <2> QED
    BY <1>0, <2>1, <2>2, <2>3
<1>2. CASE GetChaintip
  <2>1. C' = Append(C, tip) /\ UNCHANGED <<tip, imm>>
    BY <1>2 DEF GetChaintip
  <2>2. \A i \in 1..Len(C') : C'[i] \in {tip} \cup {C[k] : k \in 1..Len(C)}
    BY <1>0, <2>1
  <2> QED
    BY <1>0, <2>1, <2>2
<1>3. CASE Announce
  <2>1. /\ C # <<>> /\ C' = Tail(C) /\ tip' = tip
        /\ imm' = Head(C) - Depth
    BY <1>3 DEF Announce
  <2>2. /\ Len(C') = Len(C) - 1 /\ Len(C) \in Nat /\ Len(C) >= 1
        /\ \A i \in 1..Len(C') : C'[i] = C[i + 1]
    BY <1>0, <2>1, HeadTailProperties, EmptySeq, LenProperties
  <2>3. Head(C) = C[1] /\ C[1] \in Nat
    BY <1>0, <2>1, <2>2
  <2> QED
    BY <1>0, <2>1, <2>2, <2>3
<1>4. CASE \E kind \in Audits : Search(kind) \/ SearchFails(kind)
  BY <1>4 DEF Search, SearchFails
<1>5. CASE Wait \/ UNCHANGED vars
  BY <1>5 DEF Wait, vars
<1>6. CASE \E t \in Txids : Client(t)
  BY <1>6 DEF Client, Age, Enqueue, Take, Post, Callback, env
<1>7. CASE \E j \in Jobs : Job(j)
  BY <1>7, StoreTypes DEF env
<1>8. CASE Crash
  <2>1. C' = <<>> /\ imm' = 0 /\ tip' = tip
    BY <1>8 DEF Crash
  <2>2. tip >= Depth
    BY DEF TypeOK
  <2> QED
    BY <1>0, <2>1, <2>2
<1> QED
  BY <1>1, <1>2, <1>3, <1>4, <1>5, <1>6, <1>7, <1>8 DEF Next, Audit

(***************************************************************************)
(* What steps leave alone.                                                 *)
(***************************************************************************)

\* The steps that are not of a job, other than Announce.
Outside == \/ Extend \/ GetChaintip \/ Wait \/ Crash \/ UNCHANGED vars
           \/ \E kind \in Audits : Search(kind) \/ SearchFails(kind)
           \/ \E t \in Txids : Client(t)

\* They delete nothing, and start jobs at load, sent, or a rejection.
LEMMA OutsideKeeps ==
  ASSUME TypeOK, Roles, Outside
  PROVE  /\ index' = index
         /\ \A l \in {"immutable", "rollback"} : logs'[l] = logs[l]
         /\ logs["queue"] \subseteq logs'["queue"]
         /\ \A t \in Txids : pend[t] # NoEntry => pend'[t] # NoEntry
         /\ notes \subseteq notes'
         /\ \A j \in Jobs :
              \/ job'[j] = job[j]
              \/ /\ \/ job'[j].at \in {"idle", "load", "sent"}
                    \/ job'[j].at = "rollback" /\ Kind(j) = "reject"
                 /\ job[j].at = "logr" => <<"cut", Tx(j)>> \in notes'
<1> USE DEF Outside
<1>0. /\ job \in [Jobs -> JobStates] /\ Idle.at = "idle"
      /\ logs \in [{"immutable", "rollback", "queue"} -> SUBSET Txids]
      /\ pend \in [Txids -> Entries]
  BY DEF TypeOK, Idle
<1>1. CASE Extend \/ GetChaintip \/ Wait \/ UNCHANGED vars
           \/ \E kind \in Audits : SearchFails(kind)
  <2>1. UNCHANGED <<job, index, pend, logs, notes>>
    BY <1>1 DEF Extend, GetChaintip, Wait, SearchFails, store, vars
  <2> QED
    BY <2>1
<1>2. CASE \E kind \in Audits : Search(kind)
  <2>1. PICK kind \in Audits : Search(kind)
    BY <1>2
  <2>2. UNCHANGED <<index, pend, logs, notes>>
    BY <2>1 DEF Search, store
  <2>3. \A b \in BOOLEAN : [Idle EXCEPT !.at = "load", !.old = b].at = "load"
    BY DEF Idle
  <2>4. \A j \in Jobs : \/ job'[j] = job[j]
                        \/ Kind(j) = kind /\ job'[j].at = "load"
    BY <2>1, <2>3 DEF Search
  <2>5. \A j \in Jobs : Kind(j) = kind => job[j].at = "idle"
    BY <2>1 DEF Search, Roles, Later, Audits
  <2> QED
    BY <2>2, <2>4, <2>5
<1>3. CASE \E t \in Txids : Age(t) \/ Enqueue(t)
  <2>1. PICK t \in Txids : Age(t) \/ Enqueue(t)
    BY <1>3
  <2>2. CASE Age(t)
    <3>1. pend[t] \in Entries
      BY <1>0
    <3>2. [pend[t] EXCEPT !.at = @ + 1] # NoEntry
      BY <2>2, <3>1 DEF Age, Entries, NoEntry, Heights
    <3>3. pend' = [pend EXCEPT ![t] = [pend[t] EXCEPT !.at = @ + 1]]
      BY <2>2 DEF Age, LogPending
    <3>4. UNCHANGED <<job, index, logs, notes>>
      BY <2>2 DEF Age
    <3> QED
      BY <1>0, <3>2, <3>3, <3>4
  <2>3. CASE Enqueue(t)
    <3>1. UNCHANGED <<job, index, pend, notes>>
      BY <2>3 DEF Enqueue
    <3>2. logs' = [logs EXCEPT !["queue"] = @ \cup {t}]
      BY <2>3 DEF Enqueue, Log
    <3> QED
      BY <1>0, <3>1, <3>2
  <2> QED
    BY <2>1, <2>2, <2>3
<1>4. CASE \E t \in Txids : Take(t) \/ Post(t) \/ Callback(t)
  <2>1. PICK t \in Txids : Take(t) \/ Post(t) \/ Callback(t)
    BY <1>4
  <2>2. PICK k \in {"queue", "post", "proof", "reject"}, to \in {"load", "sent", "rollback"} :
          /\ Goto(<<k, t>>, "idle", to)
          /\ to = "rollback" => k = "reject"
    BY <2>1 DEF Take, Post, Callback
  <2>3. <<k, t>> \in Jobs /\ Kind(<<k, t>>) = k
    BY DEF Jobs, Kinds, Audits, Kind
  <2>4. /\ job[<<k, t>>].at = "idle" /\ job'[<<k, t>>].at = to
        /\ \A i \in Jobs : i # <<k, t>> => job'[i] = job[i]
    BY <1>0, <2>2, <2>3, Going DEF Places
  <2>5. /\ UNCHANGED <<index, logs>> /\ notes \subseteq notes'
        /\ pend' = pend \/ LogPending(t, [class |-> "attempt", at |-> 0])
    BY <2>1 DEF Take, Post, Callback, store, Note
  <2>6. \A u \in Txids : pend[u] # NoEntry => pend'[u] # NoEntry
    BY <1>0, <2>5, EntryType DEF LogPending
  <2> QED
    BY <2>2, <2>3, <2>4, <2>5, <2>6
<1>5. CASE Crash
  <2>1. UNCHANGED <<index, pend, logs>> /\ notes \subseteq notes'
    BY <1>5 DEF Crash, store
  <2>2. \A j \in Jobs : job'[j].at = "idle" /\ (job[j].at = "logr" => <<"cut", Tx(j)>> \in notes')
    BY <1>0, <1>5 DEF Crash, Cut
  <2> QED
    BY <2>1, <2>2
<1> QED
  BY <1>1, <1>2, <1>3, <1>4, <1>5 DEF Client

\* A step is outside, of a job, or announces a tip.
LEMMA Steps ==
  ASSUME [Next]_vars
  PROVE  Outside \/ Announce \/ \E j \in Jobs : Job(j)
BY DEF Next, Audit, Outside

\* Announce changes no job, but those it makes stale.
LEMMA AnnounceKeeps ==
  ASSUME TypeOK, Announce
  PROVE  /\ UNCHANGED <<chain, tip, index, pend, logs, notes>>
         /\ \A j \in Jobs :
              /\ job'[j].at = job[j].at /\ job'[j].height = job[j].height
              /\ job[j].stale => job'[j].stale
              /\ IF Kind(j) \in Archivers /\ job[j].at \in {"save", "logp", "cmp"}
                   THEN job'[j].stale ELSE job'[j] = job[j]
<1>1. UNCHANGED <<chain, tip, index, pend, logs, notes>>
  BY DEF Announce, store
<1>2. SUFFICES ASSUME NEW j \in Jobs
               PROVE  /\ job'[j].at = job[j].at /\ job'[j].height = job[j].height
                      /\ job[j].stale => job'[j].stale
                      /\ IF Kind(j) \in Archivers /\ job[j].at \in {"save", "logp", "cmp"}
                           THEN job'[j].stale ELSE job'[j] = job[j]
  BY <1>1
<1>3. job[j] \in JobStates
  BY DEF TypeOK
<1>4. job'[j] = IF Kind(j) \in Archivers /\ job[j].at \in {"save", "logp", "cmp"}
                  THEN [job[j] EXCEPT !.stale = TRUE] ELSE job[j]
  BY DEF Announce
<1>5. /\ [job[j] EXCEPT !.stale = TRUE].at = job[j].at
      /\ [job[j] EXCEPT !.stale = TRUE].height = job[j].height
      /\ [job[j] EXCEPT !.stale = TRUE].stale = TRUE
  BY <1>3 DEF JobStates
<1> QED
  BY <1>4, <1>5

(***************************************************************************)
(* What is archived is final.                                              *)
(***************************************************************************)

\* What a job's step does to the immutable log and the notes.
LEMMA Archiving ==
  ASSUME TypeOK, NEW j \in Jobs, Job(j)
  PROVE  /\ notes \subseteq notes'
         /\ \A t \in logs'["immutable"] :
              \/ t \in logs["immutable"]
              \/ /\ t = Tx(j) /\ job[j].at = "logi"
                 /\ job[j].stale => <<"early", t>> \in notes'
<1>0. logs \in [{"immutable", "rollback", "queue"} -> SUBSET Txids]
  BY DEF TypeOK
<1>1. CASE Accepted(j) \/ Refused(j) \/ Load(j) \/ CheckAttempt(j) \/ Valid(j) \/ Save(j)
  BY <1>1 DEF Accepted, Refused, Load, CheckAttempt, Valid, Save, Note, store
<1>2. CASE Missing(j) \/ Invalid(j)
  BY <1>2 DEF Missing, Invalid, Denied, Note, store
<1>3. CASE SaveLog(j) \/ Compare(j) \/ Delog(j)
  BY <1>3 DEF SaveLog, Compare, Delog, store
<1>4. CASE LogImmutable(j)
  BY <1>0, <1>4 DEF LogImmutable, Goto, Log, Note
<1>5. CASE Drop(j) \/ LogRollback(j) \/ Dequeue(j)
  BY <1>0, <1>5 DEF Drop, LogRollback, Dequeue, Unqueue, Log, Note
<1>6. CASE Rollback(j)
  BY <1>0, <1>6 DEF Rollback, Note
<1>7. CASE Fail(j)
  BY <1>7 DEF Fail, Note, store
<1> QED
  BY <1>1, <1>2, <1>3, <1>4, <1>5, <1>6, <1>7 DEF Job

\* A job is Below after its step only if it was before, or has just validated.
LEMMA Validating ==
  ASSUME TypeOK, Roles, NEW j \in Jobs, Job(j)
  PROVE  /\ Below(j)' => \/ Below(j) /\ job'[j].height = job[j].height
                         \/ /\ job'[j].at = "save"
                            /\ job'[j].height = chain[Tx(j)] /\ chain[Tx(j)] # 0
         /\ Below(j)' /\ job'[j].at # "save" => \/ Below(j) /\ job[j].at # "save"
                                                \/ Save(j)
         /\ Archives(j)' => Below(j) /\ job[j].at = "cmp"
<1>0. /\ job \in [Jobs -> JobStates] /\ job[j] \in JobStates
      /\ imm' = imm
  BY StoreTypes DEF TypeOK, env
<1> USE DEF Below, Archives, Archivers
<1>1. CASE Accepted(j)
  BY <1>0, <1>1, Going DEF Accepted, Places, Roles, Goto
<1>2. CASE Load(j)
  BY <1>0, <1>2 DEF Load, JobStates
<1>3. CASE Valid(j)
  BY <1>0, <1>3 DEF Valid, JobStates
<1>4. CASE Missing(j) \/ Invalid(j)
  <2>1. job'[j].at \in {"idle", "rollback", "drop"}
    BY <1>0, <1>4, Going, Destinations DEF Missing, Invalid, Places
  <2> QED
    BY <2>1
<1>5. CASE Refused(j) \/ CheckAttempt(j) \/ Drop(j) \/ Rollback(j) \/ LogRollback(j)
           \/ Dequeue(j) \/ Delog(j) \/ LogImmutable(j)
  <2>1. job'[j].at \in {"idle", "drop", "logr", "delog"}
    BY <1>0, <1>5, Going DEF Refused, CheckAttempt, Drop, Rollback, LogRollback, Dequeue,
       Delog, LogImmutable, Places
  <2> QED
    BY <2>1
<1>6. CASE Save(j)
  BY <1>0, <1>6, Going DEF Save, Places, Goto
<1>7. CASE SaveLog(j)
  <2>1. /\ job'[j].at \in {"dequeue", "idle", "cmp"} /\ job[j].at = "logp"
        /\ job'[j].at # "idle" => job'[j].height = job[j].height /\ job'[j].stale = job[j].stale
    BY <1>0, <1>7, Going DEF SaveLog, Places
  <2> QED
    BY <1>0, <2>1
<1>8. CASE Compare(j)
  <2>1. /\ job'[j].at = IF job[j].height < imm THEN "logi" ELSE "idle"
        /\ job[j].at = "cmp"
        /\ job'[j].at # "idle" => job'[j].stale = job[j].stale
    BY <1>0, <1>8, Going DEF Compare, Places
  <2> QED
    BY <2>1 DEF Roles
<1>9. CASE Fail(j)
  BY <1>0, <1>9 DEF Fail, Idle
<1> QED
  BY <1>1, <1>2, <1>3, <1>4, <1>5, <1>6, <1>7, <1>8, <1>9 DEF Job

\* No proof is held when the service first starts.
LEMMA ProofsInit == ASSUME Init PROVE ProofsHold
BY DEF Init, ProofsHold, Below, Archives, ArchivedIsFinal, Idle

\* Every step keeps the proofs that jobs hold, and the archive, on the chain.
LEMMA ProofsStep ==
  ASSUME TypeOK, TornHeight = FALSE, Roles, TipOrder, ProofsHold, [Next]_vars
  PROVE  ProofsHold'
<1> USE DepthAssumption, TipAssumption
<1>0. /\ job \in [Jobs -> JobStates]
      /\ tip \in Nat /\ Depth \in Nat /\ imm \in Int /\ imm <= tip - Depth
      /\ \A t \in Txids : chain[t] \in Nat
      /\ \A j \in Jobs : Tx(j) \in Txids /\ job[j].height \in Nat
      /\ logs["immutable"] \subseteq Txids
  <2>1. tip \in Nat /\ imm \in Int /\ Depth \in Nat
    BY DEF TypeOK, Heights, Forever
  <2>2. \A j \in Jobs : Tx(j) \in Txids
    BY DEF Jobs, Tx
  <2>3. \A j \in Jobs : job[j].height \in Heights
    BY DEF TypeOK, JobStates
  <2> QED
    BY <2>1, <2>2, <2>3, ChainType DEF TypeOK, TipOrder, Heights
<1>1. CASE Outside /\ ~Extend
  <2>1. UNCHANGED <<chain, tip>>
    BY <1>1 DEF Outside, GetChaintip, Wait, Crash, vars, Search, SearchFails, Client, Age,
       Enqueue, Take, Post, Callback, env
  <2>2. imm' = imm \/ Crash
    BY <1>1 DEF Outside, GetChaintip, Wait, vars, Search, SearchFails, Client, Age,
       Enqueue, Take, Post, Callback, env
  <2>3. Crash => \A j \in Jobs : job'[j].at = "idle"
    BY DEF Crash, Idle
  <2>4. \A j \in Jobs : job'[j] = job[j] \/ job'[j].at \in {"idle", "load", "sent", "rollback"}
    BY <1>1, OutsideKeeps
  <2>5. logs'["immutable"] = logs["immutable"] /\ notes \subseteq notes'
    BY <1>1, OutsideKeeps
  <2> QED
    BY <2>1, <2>2, <2>3, <2>4, <2>5
       DEF ProofsHold, Below, Archives, ArchivedIsFinal, Final, Noted
<1>2. CASE Extend
  <2>1. UNCHANGED <<job, imm, logs, notes>>
    BY <1>2 DEF Extend, store
  <2>2. \A t \in Txids : Final(t) => chain'[t] = chain[t] /\ Final(t)'
    BY <1>0, <1>2, ExtendTypes DEF Final
  <2>3. \A j \in Jobs : Below(j) => Final(Tx(j))
    BY <1>0 DEF ProofsHold, Below, Final
  <2> QED
    BY <1>0, <2>1, <2>2, <2>3 DEF ProofsHold, Below, Archives, ArchivedIsFinal, Final, Noted
<1>3. CASE Announce
  <2>1. \A j \in Jobs : ~Below(j)' /\ (Archives(j)' => Archives(j))
    BY <1>3, AnnounceKeeps DEF Below, Archives
  <2> QED
    BY <1>3, <2>1, AnnounceKeeps DEF ProofsHold, ArchivedIsFinal, Final, Noted
<1>4. CASE \E j \in Jobs : Job(j)
  <2>1. PICK j \in Jobs : Job(j)
    BY <1>4
  <2>2. UNCHANGED <<chain, tip, imm>>
    BY <2>1, StoreTypes DEF env
  <2>3. \A i \in Jobs : i # j => job'[i] = job[i]
    BY <2>1, Alone
  <2>4. Below(j)' => job'[j].height >= 1 /\ chain'[Tx(j)] = job'[j].height
    <3>1. SUFFICES ASSUME Below(j)'
                   PROVE  job'[j].height >= 1 /\ chain'[Tx(j)] = job'[j].height
      OBVIOUS
    <3>2. CASE job'[j].height = chain[Tx(j)] /\ chain[Tx(j)] # 0
      BY <1>0, <2>2, <3>2
    <3>3. CASE Below(j) /\ job'[j].height = job[j].height
      BY <2>2, <3>3 DEF ProofsHold
    <3> QED
      BY <2>1, <3>1, <3>2, <3>3, Validating
  <2>5. Archives(j)' => Final(Tx(j))'
    BY <1>0, <2>1, <2>2, Validating DEF ProofsHold, Below, Final
  <2>6. ArchivedIsFinal'
    <3>1. SUFFICES ASSUME NEW t \in logs'["immutable"], <<"early", t>> \notin notes', t \in Txids
                   PROVE  Final(t)
      BY <1>0, <2>1, <2>2, Archiving, StoreTypes DEF ArchivedIsFinal, Final, Noted
    <3> QED
      BY <2>1, <3>1, Archiving DEF ProofsHold, ArchivedIsFinal, Archives, Final, Noted
  <2> QED
    BY <2>2, <2>3, <2>4, <2>5, <2>6 DEF ProofsHold, Below, Archives, Final
<1> QED
  BY <1>1, <1>2, <1>3, <1>4, Steps

(***************************************************************************)
(* What the audit rolls back, and what stays in the index.                 *)
(***************************************************************************)

\* A job of the audit is sent to its rollback when its transaction is off the
\* chain, or denied.
LEMMA Condemning ==
  ASSUME TypeOK, Roles, NEW j \in Jobs, Job(j), Kind(j) \in Audits, job'[j].at = "rollback"
  PROVE  /\ job[j].at = "load"
         /\ chain[Tx(j)] = 0 \/ <<"denied", Tx(j)>> \in notes'
<1>0. job \in [Jobs -> JobStates] /\ job[j] \in JobStates
  BY DEF TypeOK
<1>1. CASE Missing(j) \/ Invalid(j)
  BY <1>1 DEF Missing, Invalid, Denied, Note, Goto
<1>2. CASE Load(j) \/ Valid(j)
  BY <1>0, <1>2 DEF Load, Valid, JobStates
<1>3. CASE Accepted(j) \/ Refused(j) \/ CheckAttempt(j) \/ Save(j)
  BY <1>0, <1>3, Going DEF Accepted, Refused, CheckAttempt, Save, Places
<1>4. CASE SaveLog(j)
  BY <1>0, <1>4, Going DEF SaveLog, Places
<1>5. CASE Compare(j) \/ LogImmutable(j) \/ Delog(j) \/ Drop(j)
  BY <1>0, <1>5, Going DEF Compare, LogImmutable, Delog, Drop, Places
<1>6. CASE Rollback(j) \/ LogRollback(j) \/ Dequeue(j) \/ Fail(j)
  BY <1>0, <1>6, Going DEF Rollback, LogRollback, Dequeue, Fail, Idle, Places
<1> QED
  BY <1>1, <1>2, <1>3, <1>4, <1>5, <1>6 DEF Job

\* No job is about to roll back when the service first starts.
LEMMA CondemnedInit == ASSUME Init PROVE Condemned
BY DEF Init, Condemned, Idle

\* Every step keeps the final transactions out of the jobs that roll back.
LEMMA CondemnedStep ==
  ASSUME TypeOK, TornHeight = FALSE, Roles, TipOrder, ProofsHold, Condemned, [Next]_vars
  PROVE  Condemned'
<1> USE DepthAssumption, TipAssumption
<1>0. /\ tip \in Nat /\ Depth \in Nat /\ imm \in Int /\ imm <= tip - Depth
      /\ \A t \in Txids : chain[t] \in Nat
      /\ \A j \in Jobs : Tx(j) \in Txids
  <2>1. tip \in Nat /\ imm \in Int /\ Depth \in Nat
    BY DEF TypeOK, Heights, Forever
  <2>2. \A j \in Jobs : Tx(j) \in Txids
    BY DEF Jobs, Tx
  <2> QED
    BY <2>1, <2>2, ChainType DEF TipOrder
<1>1. CASE Outside /\ ~Extend
  <2>1. UNCHANGED chain /\ (imm' = imm \/ Crash)
    BY <1>1 DEF Outside, GetChaintip, Wait, Crash, vars, Search, SearchFails, Client, Age,
       Enqueue, Take, Post, Callback, env
  <2>2. Crash => \A j \in Jobs : job'[j].at = "idle"
    BY DEF Crash, Idle
  <2>3. \A j \in Jobs : \/ job'[j] = job[j]
                        \/ job'[j].at \in {"idle", "load", "sent"}
                        \/ job'[j].at = "rollback" /\ Kind(j) = "reject"
    BY <1>1, OutsideKeeps
  <2>4. logs'["immutable"] = logs["immutable"] /\ notes \subseteq notes'
    BY <1>1, OutsideKeeps
  <2>5. "reject" \notin Audits
    BY DEF Audits
  <2> QED
    BY <2>1, <2>2, <2>3, <2>4, <2>5 DEF Condemned, Archives, Noted
<1>2. CASE Extend
  <2>1. UNCHANGED <<job, imm, logs, notes>>
    BY <1>2 DEF Extend, store
  <2>2. \A t \in Txids : chain[t] \notin 1..(imm - 1) => chain'[t] \notin 1..(imm - 1)
    BY <1>0, <1>2, ExtendTypes
  <2> QED
    BY <1>0, <2>1, <2>2 DEF Condemned, Archives, Noted
<1>3. CASE Announce
  <2>1. \A j \in Jobs : Kind(j) \in Audits => job[j].at = "idle"
    BY <1>3 DEF Announce, Roles, Later
  <2> QED
    BY <1>3, <2>1, AnnounceKeeps DEF Condemned
<1>4. CASE \E j \in Jobs : Job(j)
  <2>1. PICK j \in Jobs : Job(j)
    BY <1>4
  <2>2. UNCHANGED <<chain, imm>>
    BY <2>1, StoreTypes DEF env
  <2>3. \A i \in Jobs : i # j => job'[i] = job[i]
    BY <2>1, Alone
  <2>4. SUFFICES ASSUME NEW i \in Jobs, Kind(i) \in Audits, job'[i].at = "rollback",
                        Tx(i) \notin Noted("denied")'
                 PROVE  /\ chain[Tx(i)] \notin 1..(imm - 1)
                        /\ Tx(i) \notin logs'["immutable"] \ Noted("early")'
                        /\ \A k \in Jobs : Tx(k) = Tx(i) => ~Archives(k)'
    BY <2>2 DEF Condemned
  <2>5. notes \subseteq notes' /\ <<"denied", Tx(i)>> \notin notes'
    BY <1>0, <2>1, <2>4, Archiving DEF Noted
  <2>6. CASE i # j
    <3>1. /\ chain[Tx(i)] \notin 1..(imm - 1)
          /\ Tx(i) \notin logs["immutable"] \ Noted("early")
          /\ \A k \in Jobs : Tx(k) = Tx(i) => ~Archives(k)
      BY <2>3, <2>4, <2>5, <2>6 DEF Condemned, Noted
    <3>2. Tx(i) \notin logs'["immutable"] \ Noted("early")'
      BY <1>0, <2>1, <2>5, <3>1, Archiving DEF Noted, Archives
    <3>3. ASSUME NEW k \in Jobs, Tx(k) = Tx(i), Archives(k)' PROVE FALSE
      <4>1. CASE k # j
        BY <2>3, <3>1, <3>3, <4>1 DEF Archives
      <4>2. CASE k = j
        <5>1. Below(j)
          BY <2>1, <3>3, <4>2, Validating
        <5>2. chain[Tx(j)] \in 1..(imm - 1)
          BY <1>0, <5>1 DEF ProofsHold, Below
        <5> QED
          BY <3>1, <3>3, <4>2, <5>2
      <4> QED
        BY <4>1, <4>2
    <3> QED
      BY <3>1, <3>2, <3>3
  <2>7. CASE i = j
    <3>1. chain[Tx(i)] = 0 /\ job[j].at = "load"
      BY <2>1, <2>4, <2>5, <2>7, Condemning
    <3>2. Tx(i) \notin logs'["immutable"] \ Noted("early")'
      BY <1>0, <2>1, <2>5, <3>1, Archiving DEF Noted, ProofsHold, ArchivedIsFinal
    <3>3. \A k \in Jobs : Tx(k) = Tx(i) => ~Archives(k)'
      BY <1>0, <2>3, <2>4, <2>7, <3>1 DEF ProofsHold, Archives, Final
    <3> QED
      BY <3>1, <3>2, <3>3
  <2> QED
    BY <2>6, <2>7
<1> QED
  BY <1>1, <1>2, <1>3, <1>4, Steps

\* What a job's step does to the index.
LEMMA Indexing ==
  ASSUME TypeOK, NEW j \in Jobs, Job(j)
  PROVE  /\ Save(j) => Tx(j) \in index'
         /\ \A t \in index : \/ t \in index'
                             \/ /\ t = Tx(j) /\ job[j].at = "rollback"
                                /\ Kind(j) = "reject" => <<"rejected", t>> \in notes'
<1>1. CASE Accepted(j) \/ Refused(j) \/ Load(j) \/ Missing(j) \/ CheckAttempt(j) \/ Valid(j)
           \/ Invalid(j)
  BY <1>1 DEF Accepted, Refused, Load, Missing, CheckAttempt, Valid, Invalid, store, Goto, Save
<1>2. CASE Save(j)
  BY <1>2 DEF Save
<1>3. CASE SaveLog(j) \/ Compare(j) \/ LogImmutable(j) \/ Delog(j) \/ Drop(j) \/ LogRollback(j)
           \/ Dequeue(j)
  BY <1>3 DEF SaveLog, Compare, LogImmutable, Delog, Drop, LogRollback, Dequeue, store, Goto, Save
<1>4. CASE Rollback(j)
  BY <1>4 DEF Rollback, Goto, Note, Save
<1>5. CASE Fail(j)
  BY <1>5 DEF Fail, store, Save, Note
<1> QED
  BY <1>1, <1>2, <1>3, <1>4, <1>5 DEF Job

\* Nothing is archived when the service first starts.
LEMMA IndexedInit == ASSUME Init PROVE Indexed
BY DEF Init, Indexed, Below, Archives, ArchivedIsIndexed, Idle

\* Every step keeps the archived transactions in the index.
LEMMA IndexedStep ==
  ASSUME TypeOK, TornHeight = FALSE, Roles, TipOrder, ProofsHold, Condemned, Indexed, [Next]_vars
  PROVE  Indexed'
<1> USE DEF Undone
<1>1. CASE Outside
  <2>1. imm' = imm \/ Crash
    BY <1>1 DEF Outside, Extend, GetChaintip, Wait, vars, Search, SearchFails, Client, Age,
       Enqueue, Take, Post, Callback, env
  <2>2. Crash => \A j \in Jobs : job'[j].at = "idle"
    BY DEF Crash, Idle
  <2>3. \A j \in Jobs : job'[j] = job[j] \/ job'[j].at \in {"idle", "load", "sent", "rollback"}
    BY <1>1, OutsideKeeps
  <2>4. logs'["immutable"] = logs["immutable"] /\ index' = index /\ notes \subseteq notes'
    BY <1>1, OutsideKeeps
  <2> QED
    BY <2>1, <2>2, <2>3, <2>4 DEF Indexed, Below, Archives, ArchivedIsIndexed, Noted
<1>2. CASE Announce
  <2>1. \A j \in Jobs : ~Below(j)' /\ (Archives(j)' => Archives(j))
    BY <1>2, AnnounceKeeps DEF Below, Archives
  <2> QED
    BY <1>2, <2>1, AnnounceKeeps DEF Indexed, ArchivedIsIndexed, Noted
<1>3. CASE \E j \in Jobs : Job(j)
  <2>1. PICK j \in Jobs : Job(j)
    BY <1>3
  <2>2. UNCHANGED <<chain, imm>>
    BY <2>1, StoreTypes DEF env
  <2>3. \A i \in Jobs : i # j => job'[i] = job[i]
    BY <2>1, Alone
  <2>4. /\ notes \subseteq notes'
        /\ \A i \in Jobs : Tx(i) \in Txids
    BY <2>1, Archiving DEF Jobs, Tx
  <2>5. imm \in Int /\ \A i \in Jobs : job[i].height \in Nat
    <3>1. \A i \in Jobs : job[i].height \in Heights
      BY DEF TypeOK, JobStates
    <3> QED
      BY <3>1, TipAssumption DEF TypeOK, Heights, Forever
  <2>6. \A t \in index : \/ t \in index'
                         \/ <<"denied", t>> \in notes' \/ <<"rejected", t>> \in notes'
                         \/ /\ t = Tx(j) /\ job[j].at = "rollback"
                            /\ chain[t] \notin 1..(imm - 1)
                            /\ t \notin logs["immutable"] \ Noted("early")
                            /\ \A i \in Jobs : Tx(i) = t => ~Archives(i)
    BY <2>1, <2>4, Indexing DEF Roles, Condemned, Noted
  <2>7. ASSUME NEW i \in Jobs, Archives(i)' \/ (Below(i)' /\ job'[i].at # "save")
        PROVE  Tx(i) \in (index \cup Undone)'
    <3>1. CASE i # j
      <4>1. /\ Archives(i) \/ Below(i)
            /\ Tx(i) \in index \cup Undone
        BY <2>2, <2>3, <2>7, <3>1 DEF Archives, Below, Indexed
      <4>2. Below(i) => chain[Tx(i)] \in 1..(imm - 1)
        BY <2>5 DEF ProofsHold, Below
      <4> QED
        BY <2>4, <2>6, <4>1, <4>2 DEF Noted
    <3>2. CASE i = j
      <4>1. Save(j) \/ (Below(j) /\ job[j].at # "save")
        BY <2>1, <2>7, <3>2, Validating
      <4>2. CASE Save(j)
        BY <2>1, <3>2, <4>2, Indexing
      <4>3. CASE Below(j) /\ job[j].at # "save"
        <5>1. Tx(j) \in index \cup Undone /\ job[j].at # "rollback"
          BY <4>3 DEF Indexed, Below
        <5> QED
          BY <2>4, <2>6, <3>2, <5>1 DEF Noted
      <4> QED
        BY <4>1, <4>2, <4>3
    <3> QED
      BY <3>1, <3>2
  <2>8. ArchivedIsIndexed'
    <3>1. SUFFICES ASSUME NEW t \in logs'["immutable"], t \in Txids, <<"early", t>> \notin notes',
                          <<"denied", t>> \notin notes', <<"rejected", t>> \notin notes'
                   PROVE  t \in index'
      BY <2>1, StoreTypes DEF ArchivedIsIndexed, Noted
    <3>2. CASE t \in logs["immutable"]
      BY <2>4, <2>6, <3>1, <3>2 DEF Indexed, ArchivedIsIndexed, Noted
    <3>3. CASE t = Tx(j) /\ job[j].at = "logi" /\ ~job[j].stale
      BY <2>4, <2>6, <3>1, <3>3 DEF Indexed, Archives, Noted
    <3> QED
      BY <2>1, <3>1, <3>2, <3>3, Archiving
  <2> QED
    BY <2>7, <2>8 DEF Indexed
<1> QED
  BY <1>1, <1>2, <1>3, Steps

(***************************************************************************)
(* Nothing that was saved is forgotten.                                    *)
(***************************************************************************)

\* A transaction at rest stays so: a rollback that deletes its logs is about to
\* log it, or noted as cut off.
LEMMA RestStays ==
  ASSUME TypeOK, NEW j \in Jobs, Job(j), NEW t \in Txids, AtRest(t)
  PROVE  AtRest(t)'
<1>0. /\ job \in [Jobs -> JobStates] /\ notes \subseteq notes'
      /\ logs \in [{"immutable", "rollback", "queue"} -> SUBSET Txids]
      /\ \A i \in Jobs : i # j => job'[i] = job[i]
      /\ j = <<Kind(j), Tx(j)>> /\ Kind(j) \in Kinds
      /\ \A k \in Kinds : <<k, t>> \in Jobs /\ Tx(<<k, t>>) = t
  BY Archiving, Alone DEF TypeOK, Jobs, Kind, Tx
<1> USE DEF AtRest, Noted
<1>1. CASE Rollback(j)
  <2>1. job'[j].at = "logr" /\ job[j].at = "rollback"
    BY <1>0, <1>1, Going DEF Rollback, Places
  <2>2. Tx(j) # t => /\ t \in logs["immutable"] => t \in logs'["immutable"]
                     /\ t \in logs["rollback"] => t \in logs'["rollback"]
    BY <1>0, <1>1 DEF Rollback
  <2>3. CASE Tx(j) = t
    BY <1>0, <2>1, <2>3
  <2>4. CASE Tx(j) # t
    <3>1. \A k \in Kinds : <<k, t>> # j
      BY <1>0, <2>4
    <3> QED
      BY <1>0, <2>2, <2>4, <3>1
  <2> QED
    BY <2>3, <2>4
<1>2. CASE ~Rollback(j)
  <2>1. /\ logs["immutable"] \subseteq logs'["immutable"]
        /\ logs["rollback"] \subseteq logs'["rollback"]
    <3>1. CASE Accepted(j) \/ Refused(j) \/ Load(j) \/ Missing(j) \/ CheckAttempt(j) \/ Valid(j)
               \/ Invalid(j) \/ Save(j) \/ SaveLog(j) \/ Compare(j) \/ Delog(j) \/ Fail(j)
      BY <3>1 DEF Accepted, Refused, Load, Missing, CheckAttempt, Valid, Invalid, Save, SaveLog,
         Compare, Delog, Fail, store
    <3>2. CASE LogImmutable(j) \/ LogRollback(j) \/ Drop(j) \/ Dequeue(j)
      BY <1>0, <3>2 DEF LogImmutable, LogRollback, Drop, Dequeue, Log, Unqueue
    <3> QED
      BY <1>2, <3>1, <3>2 DEF Job
  <2>2. ASSUME job[j].at = "logr" PROVE Tx(j) \in logs'["rollback"] \/ <<"cut", Tx(j)>> \in notes'
    <3>1. CASE LogRollback(j)
      BY <1>0, <3>1 DEF LogRollback, Log, Jobs, Tx
    <3>2. CASE Fail(j)
      BY <2>2, <3>2 DEF Fail, Cut, Note
    <3>3. CASE ~LogRollback(j) /\ ~Fail(j)
      BY <1>2, <2>2, <3>3 DEF Job, Accepted, Refused, Load, Missing, CheckAttempt, Valid, Invalid,
         Save, SaveLog, Compare, LogImmutable, Delog, Drop, Dequeue, Goto
    <3> QED
      BY <3>1, <3>2, <3>3
  <2>3. CASE t \in logs["immutable"] \cup logs["rollback"] \/ t \in Noted("cut")
    BY <1>0, <2>1, <2>3
  <2>4. CASE \E k \in Kinds : job[<<k, t>>].at = "logr"
    <3>1. PICK k \in Kinds : job[<<k, t>>].at = "logr"
      BY <2>4
    <3>2. CASE <<k, t>> # j
      BY <1>0, <3>1, <3>2
    <3>3. CASE <<k, t>> = j
      BY <1>0, <2>2, <3>1, <3>3
    <3> QED
      BY <3>2, <3>3
  <2> QED
    BY <2>3, <2>4
<1> QED
  BY <1>1, <1>2

\* A rollback leaves its transaction at rest.
LEMMA RollbackRests ==
  ASSUME TypeOK, NEW j \in Jobs, Rollback(j)
  PROVE  AtRest(Tx(j))'
<1>1. job \in [Jobs -> JobStates] /\ j = <<Kind(j), Tx(j)>> /\ Kind(j) \in Kinds
  BY DEF TypeOK, Jobs, Kind, Tx
<1>2. job'[<<Kind(j), Tx(j)>>].at = "logr"
  BY <1>1, Going DEF Rollback, Places
<1> QED
  BY <1>1, <1>2 DEF AtRest

\* What is kept stays so, ...
LEMMA KeptStays ==
  ASSUME TypeOK, Roles, Tracking, NEW j \in Jobs, Job(j), NEW t \in Txids, Kept(t)
  PROVE  Kept(t)'
<1>0. /\ pend \in [Txids -> Entries] /\ notes \subseteq notes' /\ Tx(j) \in Txids
  BY Archiving DEF TypeOK, Jobs, Tx
<1>1. CASE AtRest(t) \/ t \in Noted("dropped")
  BY <1>0, <1>1, RestStays DEF Kept, Noted
<1>2. CASE pend[t] # NoEntry
  <2>1. CASE Accepted(j) \/ SaveLog(j)
    <3>1. job[j].height \in Heights
      BY DEF TypeOK, JobStates
    <3>2. 0 \in Heights
      BY TipAssumption, DepthAssumption DEF Heights
    <3>3. \E e \in Entries \ {NoEntry} : LogPending(Tx(j), e)
      BY <2>1, <3>1, <3>2, EntryType DEF Accepted, SaveLog
    <3> QED
      BY <1>0, <1>2, <3>3 DEF LogPending, Kept
  <2>2. CASE Refused(j)
    BY <1>0, <1>2, <2>2 DEF Refused, LogPending, Note, Kept, Noted
  <2>3. CASE Load(j) \/ Missing(j) \/ CheckAttempt(j) \/ Valid(j) \/ Invalid(j) \/ Save(j)
             \/ Compare(j) \/ LogImmutable(j) \/ LogRollback(j) \/ Dequeue(j) \/ Fail(j)
    BY <1>2, <2>3 DEF Load, Missing, CheckAttempt, Valid, Invalid, Save, Compare, LogImmutable,
       LogRollback, Dequeue, Fail, store, Kept
  <2>4. CASE Delog(j)
    <3>1. AtRest(Tx(j))
      BY <2>4 DEF Delog, Goto, Tracking
    <3>2. AtRest(Tx(j))'
      BY <1>0, <3>1, RestStays
    <3> QED
      BY <1>0, <1>2, <2>4, <3>2 DEF Delog, LogPending, Kept
  <2>5. CASE Drop(j)
    BY <1>0, <1>2, <2>5 DEF Drop, LogPending, Note, Kept, Noted
  <2>6. CASE Rollback(j)
    BY <1>0, <1>2, <2>6, RollbackRests DEF Rollback, LogPending, Kept
  <2> QED
    BY <2>1, <2>2, <2>3, <2>4, <2>5, <2>6 DEF Job
<1> QED
  BY <1>1, <1>2 DEF Kept

\* ... and what is queued stays so, or is kept.
LEMMA QueuedStays ==
  ASSUME TypeOK, Roles, Tracking, NEW j \in Jobs, Job(j), NEW t \in logs["queue"]
  PROVE  t \in logs'["queue"] \/ Kept(t)'
<1>0. /\ logs \in [{"immutable", "rollback", "queue"} -> SUBSET Txids]
      /\ Tx(j) \in Txids /\ t \in Txids
  BY DEF TypeOK, Jobs, Tx
<1>1. CASE Drop(j)
  BY <1>0, <1>1 DEF Drop, Unqueue, Note, Kept, Noted
<1>2. CASE Dequeue(j)
  <2>1. Kept(Tx(j))
    BY <1>2 DEF Dequeue, Goto, Tracking
  <2>2. Kept(Tx(j))'
    BY <1>0, <2>1, KeptStays
  <2> QED
    BY <1>0, <1>2, <2>2 DEF Dequeue, Unqueue
<1>3. CASE Rollback(j)
  BY <1>0, <1>3, RollbackRests DEF Rollback, Kept
<1>4. CASE LogImmutable(j) \/ LogRollback(j)
  BY <1>0, <1>4 DEF LogImmutable, LogRollback, Log
<1>5. CASE Accepted(j) \/ Refused(j) \/ Load(j) \/ Missing(j) \/ CheckAttempt(j) \/ Valid(j)
           \/ Invalid(j) \/ Save(j) \/ SaveLog(j) \/ Compare(j) \/ Delog(j) \/ Fail(j)
  BY <1>5 DEF Accepted, Refused, Load, Missing, CheckAttempt, Valid, Invalid, Save, SaveLog,
     Compare, Delog, Fail, store
<1> QED
  BY <1>1, <1>2, <1>3, <1>4, <1>5 DEF Job

\* Nothing is known when the service first starts.
LEMMA TrackingInit == ASSUME Init PROVE Tracking
BY DEF Init, Tracking, Noted, Idle

\* The steps outside keep what is kept.
LEMMA OutsideStays ==
  ASSUME TypeOK, Roles, Outside \/ Announce, NEW t \in Txids
  PROVE  /\ AtRest(t) => AtRest(t)'
         /\ Kept(t) => Kept(t)'
         /\ t \in logs["queue"] => t \in logs'["queue"]
<1>0. \A k \in Kinds : <<k, t>> \in Jobs /\ Tx(<<k, t>>) = t
  BY DEF Jobs, Tx
<1>1. CASE Outside
  BY <1>0, <1>1, OutsideKeeps DEF AtRest, Kept, Noted
<1>2. CASE Announce
  BY <1>0, <1>2, AnnounceKeeps DEF AtRest, Kept, Noted
<1> QED
  BY <1>1, <1>2

\* Every step keeps hold of what was saved.
LEMMA TrackingStep ==
  ASSUME TypeOK, Roles, Tracking, [Next]_vars
  PROVE  Tracking'
<1>0. /\ job \in [Jobs -> JobStates] /\ Idle.at = "idle"
      /\ pend \in [Txids -> Entries] /\ notes \subseteq Notes \X Txids
      /\ \A i \in Jobs : Tx(i) \in Txids /\ Kind(i) \in Kinds
  BY DEF TypeOK, Jobs, Tx, Kind, Idle
<1>a. \A n, t : <<n, t>> \in notes => t \in Txids
  BY <1>0
<1>1. CASE Outside /\ ~(\E t \in Txids : Take(t) \/ Post(t) \/ Callback(t))
                  /\ ~(\E kind \in Audits : Search(kind))
  <2>1. job' = job \/ \A j \in Jobs : job'[j].at = "idle"
    BY <1>0, <1>1 DEF Outside, Extend, GetChaintip, Wait, Crash, vars, SearchFails, Client, Age,
       Enqueue
  <2>2. \A t : /\ <<"posted", t>> \in notes' => <<"posted", t>> \in notes
               /\ <<"known", t>> \in notes' => <<"known", t>> \in notes
    <3>1. notes' = notes \/ \E s : notes' = notes \cup {<<"cut", Tx(j)>> : j \in s}
      BY <1>1 DEF Outside, Extend, GetChaintip, Wait, Crash, vars, SearchFails, Client, Age, Enqueue
    <3> QED
      BY <3>1
  <2> QED
    BY <1>0, <1>a, <1>1, <2>1, <2>2, OutsideStays DEF Tracking, Noted
<1>2. CASE \E kind \in Audits : Search(kind)
  <2>1. PICK kind \in Audits : Search(kind)
    BY <1>2
  <2>2. UNCHANGED <<index, pend, logs, notes>> /\ Outside
    BY <2>1 DEF Search, store, Outside
  <2>3. \A b \in BOOLEAN : [Idle EXCEPT !.at = "load", !.old = b].at = "load"
    BY DEF Idle
  <2>4. \A j \in Jobs : \/ job'[j] = job[j]
                        \/ /\ Kind(j) \in Audits /\ job'[j].at = "load"
                           /\ Tx(j) \in Found(kind)
    BY <2>1, <2>3 DEF Search
  <2>5. \A t \in Found(kind) : pend[t] # NoEntry
    BY <2>1 DEF Found, Audits, UnconfirmedAttempts, MinedEntries, MempoolEntries, NoEntry
  <2>6. \A t \in Found(kind) : Kept(t)'
    BY <2>2, <2>5 DEF Kept
  <2>7. "queue" \notin Audits
    BY DEF Audits
  <2> QED
    BY <1>0, <1>a, <2>2, <2>4, <2>6, <2>7, OutsideStays DEF Tracking, Noted
<1>3. CASE \E t \in Txids : Take(t) \/ Post(t) \/ Callback(t)
  <2>1. PICK t \in Txids : Take(t) \/ Post(t) \/ Callback(t)
    BY <1>3
  <2>2. Outside
    BY <2>1 DEF Outside, Client
  <2>3. /\ <<"queue", t>> \in Jobs /\ <<"post", t>> \in Jobs
        /\ <<"proof", t>> \in Jobs /\ <<"reject", t>> \in Jobs
    BY DEF Jobs, Kinds, Audits
  <2>4. CASE Take(t)
    <3>1. /\ \A i \in Jobs : i # <<"queue", t>> => job'[i] = job[i]
          /\ job'[<<"queue", t>>].at = "load"
      BY <1>0, <2>3, <2>4, Going DEF Take, Places
    <3>2. t \in logs'["queue"] /\ notes' = notes
      BY <2>4 DEF Take, store
    <3> QED
      BY <1>0, <1>a, <2>2, <3>1, <3>2, OutsideStays DEF Tracking, Noted, Kind, Tx
  <2>5. CASE Post(t)
    <3>1. /\ \A i \in Jobs : i # <<"post", t>> => job'[i] = job[i]
          /\ job'[<<"post", t>>].at = "sent"
      BY <1>0, <2>3, <2>5, Going DEF Post, Places
    <3>2. Kept(t)'
      BY <1>0, <2>5, EntryType DEF Post, LogPending, Kept
    <3>3. \A u : /\ <<"posted", u>> \in notes' => <<"posted", u>> \in notes \/ u = t
                 /\ <<"known", u>> \in notes' => <<"known", u>> \in notes
      BY <2>5 DEF Post, Note
    <3>4. \A u \in Txids : /\ AtRest(u) => AtRest(u)'
                           /\ Kept(u) => Kept(u)'
                           /\ u \in logs["queue"] => u \in logs'["queue"]
      BY <2>2, OutsideStays
    <3>5. \A u \in Noted("posted")' : Kept(u)'
      BY <1>a, <3>2, <3>3, <3>4 DEF Tracking, Noted
    <3>6. \A u \in Noted("known")' : Kept(u)' \/ u \in logs'["queue"]
      BY <1>a, <3>3, <3>4 DEF Tracking, Noted
    <3>7. Kind(<<"post", t>>) = "post" /\ Tx(<<"post", t>>) = t
      BY DEF Kind, Tx
    <3>8. ASSUME NEW i \in Jobs, job'[i].at # "idle"
          PROVE  /\ Kind(i) \in {"attempt", "mined", "mempool", "proof", "post"} => Kept(Tx(i))'
                 /\ Kind(i) = "queue" => Kept(Tx(i))' \/ Tx(i) \in logs'["queue"]
                 /\ job'[i].at = "dequeue" => Kept(Tx(i))'
                 /\ job'[i].at = "delog" => AtRest(Tx(i))'
      <4>1. CASE i = <<"post", t>>
        BY <3>1, <3>2, <3>7, <4>1
      <4>2. CASE i # <<"post", t>>
        <5>1. job[i].at # "idle" /\ job'[i] = job[i]
          BY <3>1, <3>8, <4>2
        <5> QED
          BY <1>0, <3>4, <5>1 DEF Tracking
      <4> QED
        BY <4>1, <4>2
    <3> QED
      BY <3>5, <3>6, <3>8 DEF Tracking
  <2>6. CASE Callback(t)
    <3>1. PICK k \in {"proof", "reject"} :
            /\ \A i \in Jobs : i # <<k, t>> => job'[i] = job[i]
            /\ job'[<<k, t>>].at = IF k = "proof" THEN "load" ELSE "rollback"
      BY <1>0, <2>3, <2>6, Going DEF Callback, Places
    <3>2. Kept(t)' /\ notes' = notes
      BY <2>2, <2>6, OutsideStays DEF Callback, Tracking, env, store
    <3>3. /\ <<k, t>> \in Jobs /\ Tx(<<k, t>>) = t
          /\ \A u \in Txids : (AtRest(u) => AtRest(u)') /\ (Kept(u) => Kept(u)')
                              /\ (u \in logs["queue"] => u \in logs'["queue"])
      BY <2>2, <2>3, OutsideStays DEF Tx
    <3>4. job'[<<k, t>>].at \in {"load", "rollback"} /\ k # "queue"
      BY <3>1
    <3>5. ASSUME NEW i \in Jobs PROVE i = <<k, t>> \/ job'[i] = job[i]
      BY <3>1
    <3> QED
      BY <1>0, <1>a, <3>2, <3>3, <3>4, <3>5 DEF Tracking, Noted, Kind, Tx
  <2> QED
    BY <2>1, <2>4, <2>5, <2>6
<1>4. CASE Announce
  <2>1. \A i \in Jobs : job'[i].at = job[i].at
    BY <1>4, AnnounceKeeps
  <2>2. notes' = notes
    BY <1>4, AnnounceKeeps
  <2> QED
    BY <1>0, <1>a, <1>4, <2>1, <2>2, OutsideStays DEF Tracking, Noted
<1>5. CASE \E j \in Jobs : Job(j)
  <2>1. PICK j \in Jobs : Job(j)
    BY <1>5
  <2>2. \A i \in Jobs : i # j => job'[i] = job[i]
    BY <2>1, Alone
  <2>3. \A t \in Txids : /\ AtRest(t) => AtRest(t)'
                         /\ Kept(t) => Kept(t)'
                         /\ t \in logs["queue"] => t \in logs'["queue"] \/ Kept(t)'
    BY <2>1, RestStays, KeptStays, QueuedStays
  <2>4. job[j].at # "idle"
    BY <2>1 DEF Job, Accepted, Refused, Load, Missing, CheckAttempt, Valid, Invalid, Save,
       SaveLog, Compare, LogImmutable, Delog, Drop, Rollback, LogRollback, Dequeue, Fail, Goto
  <2>5. \A t : /\ <<"posted", t>> \in notes' => <<"posted", t>> \in notes
               /\ <<"known", t>> \in notes' => <<"known", t>> \in notes \/ (t = Tx(j) /\ Save(j))
    <3>1. CASE Missing(j) \/ Invalid(j)
      BY <3>1 DEF Missing, Invalid, Denied, Note
    <3>2. CASE Accepted(j) \/ Refused(j) \/ Load(j) \/ CheckAttempt(j) \/ Valid(j) \/ Save(j)
               \/ SaveLog(j) \/ Compare(j) \/ LogImmutable(j)
      BY <3>2 DEF Accepted, Refused, Load, CheckAttempt, Valid, Save, SaveLog, Compare,
         LogImmutable, Note
    <3>3. CASE Delog(j) \/ Drop(j) \/ Rollback(j) \/ LogRollback(j) \/ Dequeue(j) \/ Fail(j)
      BY <3>3 DEF Delog, Drop, Rollback, LogRollback, Dequeue, Fail, Note
    <3> QED
      BY <2>1, <3>1, <3>2, <3>3 DEF Job
  <2>6. Save(j) => Kept(Tx(j)) \/ Tx(j) \in logs["queue"]
    BY <1>0 DEF Save, Goto, Roles, Tracking, Archivers
  <2>7. job'[j].at = "dequeue" => Kept(Tx(j))'
    <3>1. SUFFICES ASSUME job'[j].at = "dequeue" PROVE SaveLog(j)
      <4>1. job[j].height \in Heights
        BY <1>0 DEF JobStates
      <4> QED
        BY <1>0, <4>1, EntryType DEF SaveLog, LogPending, Kept
    <3>2. CASE Load(j) \/ Valid(j)
      BY <1>0, <3>1, <3>2 DEF Load, Valid, JobStates
    <3>3. CASE Missing(j) \/ Invalid(j)
      BY <1>0, <3>1, <3>3, Going, Destinations DEF Missing, Invalid, Places
    <3>4. CASE Accepted(j) \/ Refused(j) \/ CheckAttempt(j) \/ Save(j) \/ Compare(j) \/ LogImmutable(j)
      BY <1>0, <3>1, <3>4, Going DEF Accepted, Refused, CheckAttempt, Save, Compare, LogImmutable, Places
    <3>5. CASE Delog(j) \/ Drop(j) \/ Rollback(j) \/ LogRollback(j) \/ Dequeue(j) \/ Fail(j)
      BY <1>0, <3>1, <3>5, Going DEF Delog, Drop, Rollback, LogRollback, Dequeue, Fail, Places
    <3> QED
      BY <2>1, <3>2, <3>3, <3>4, <3>5 DEF Job
  <2>8. job'[j].at = "delog" => AtRest(Tx(j))'
    <3>1. SUFFICES ASSUME job'[j].at = "delog" PROVE LogImmutable(j)
      BY <1>0 DEF LogImmutable, Log, AtRest, TypeOK
    <3>2. CASE Load(j) \/ Valid(j)
      BY <1>0, <3>1, <3>2 DEF Load, Valid, JobStates
    <3>3. CASE Missing(j) \/ Invalid(j)
      BY <1>0, <3>1, <3>3, Going, Destinations DEF Missing, Invalid, Places
    <3>4. CASE Accepted(j) \/ Refused(j) \/ CheckAttempt(j) \/ Save(j) \/ SaveLog(j) \/ Compare(j)
      BY <1>0, <3>1, <3>4, Going DEF Accepted, Refused, CheckAttempt, Save, SaveLog, Compare, Places
    <3>5. CASE Delog(j) \/ Drop(j) \/ Rollback(j) \/ LogRollback(j) \/ Dequeue(j) \/ Fail(j)
      BY <1>0, <3>1, <3>5, Going DEF Delog, Drop, Rollback, LogRollback, Dequeue, Fail, Places
    <3> QED
      BY <2>1, <3>2, <3>3, <3>4, <3>5 DEF Job
  <2>9. \A t \in Noted("known")' : Kept(t)' \/ t \in logs'["queue"]
    BY <1>0, <1>a, <2>3, <2>5, <2>6 DEF Tracking, Noted
  <2>10. \A t \in Noted("posted")' : Kept(t)'
    BY <1>a, <2>3, <2>5 DEF Tracking, Noted
  <2>11. \A i \in Jobs : job'[i].at # "idle" =>
           /\ Kind(i) \in {"attempt", "mined", "mempool", "proof", "post"} => Kept(Tx(i))'
           /\ Kind(i) = "queue" => Kept(Tx(i))' \/ Tx(i) \in logs'["queue"]
    BY <1>0, <2>2, <2>3, <2>4 DEF Tracking
  <2>12. \A i \in Jobs : /\ job'[i].at = "dequeue" => Kept(Tx(i))'
                         /\ job'[i].at = "delog" => AtRest(Tx(i))'
    BY <1>0, <2>2, <2>3, <2>7, <2>8 DEF Tracking
  <2> QED
    BY <2>9, <2>10, <2>11, <2>12 DEF Tracking
<1> QED
  BY <1>1, <1>2, <1>3, <1>4, <1>5, Steps

(***************************************************************************)
(* Theorems.                                                               *)
(***************************************************************************)

\* The invariant holds in every reachable state, when Heights are not torn.
THEOREM Invariance == ASSUME TornHeight = FALSE PROVE Spec => []IInv
<1>1. Init => IInv
  BY TypeInit, RolesInit, TipInit, ProofsInit, CondemnedInit, IndexedInit, TrackingInit DEF IInv
<1>2. IInv /\ [Next]_vars => IInv'
  BY TypeStep, RolesStep, TipStep, ProofsStep, CondemnedStep, IndexedStep, TrackingStep DEF IInv
<1> QED
  BY <1>1, <1>2, PTL DEF Spec

\* Every variable keeps its type, whatever the chain and the jobs do.
THEOREM TypeCorrect == Spec => []TypeOK
<1>1. Init => TypeOK
  BY TypeInit
<1>2. TypeOK /\ [Next]_vars => TypeOK'
  BY TypeStep
<1> QED
  BY <1>1, <1>2, PTL DEF Spec

\* What is in the immutable log can no longer be undone by a reorganisation,
\* unless a job archived it by a tip it had not validated against.
THEOREM Finality == ASSUME TornHeight = FALSE PROVE Spec => []ArchivedIsFinal
<1>1. IInv => ArchivedIsFinal
  BY DEF IInv, ProofsHold
<1> QED
  BY <1>1, Invariance, PTL

\* What is archived stays in the index.
THEOREM ArchiveIsIndexed == ASSUME TornHeight = FALSE PROVE Spec => []ArchivedIsIndexed
<1>1. IInv => ArchivedIsIndexed
  BY DEF IInv, Indexed
<1> QED
  BY <1>1, Invariance, PTL

\* What was saved is in a log, or a job is about to log it.
THEOREM NothingForgotten == Spec => []Tracked
<1>1. Init => TypeOK /\ Roles /\ Tracking
  BY TypeInit, RolesInit, TrackingInit
<1>2. TypeOK /\ Roles /\ Tracking /\ [Next]_vars => (TypeOK /\ Roles /\ Tracking)'
  BY TypeStep, RolesStep, TrackingStep
<1>3. TypeOK /\ Tracking => Tracked
  BY DEF TypeOK, Tracking, Tracked, Kept, AtRest, Noted
<1> QED
  BY <1>1, <1>2, <1>3, PTL DEF Spec

\* The audit rolls back nothing that is below imm, unless a provider denied it.
THEOREM FinalIsSpared == ASSUME TornHeight = FALSE PROVE Spec => AuditSparesFinal
<1>1. IInv /\ [Next]_vars =>
        [\A j \in Jobs :
           /\ Kind(j) \in Audits
           /\ job[j].at = "rollback" /\ job'[j].at = "logr"
           => Tx(j) \in Noted("denied") \/ chain[Tx(j)] \notin 1..(imm - 1)]_vars
  BY DEF IInv, Condemned
<1> QED
  BY <1>1, Invariance, PTL DEF Spec, AuditSparesFinal
=============================================================================
