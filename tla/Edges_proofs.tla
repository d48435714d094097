----------------------------- MODULE Edges_proofs -----------------------------
(***************************************************************************)
(* Proofs about Subscription, EventStream and their composition, for any   *)
(* transactions, heights, flags and stores, any number of failures,        *)
(* restarts and reorganisations, and any sessions and topics.              *)
(*                                                                         *)
(* ResumesBehindNothing speaks of the height where the next process would  *)
(* start; it is inductive together with the same statement about the block *)
(* that is delivered, which needs in turn that what was delivered of that  *)
(* block is in the batch, queued or given up, and that nothing is left of  *)
(* the block when its end is handled.                                      *)
(***************************************************************************)
EXTENDS Edges, FiniteSetTheorems, SequenceTheorems, TLAPS

Excused == subQueue \cup subLost \cup (IF "rewind" \in subFlags THEN {} ELSE subMoved)
Covered(h) == \A t \in SubTx : subBlock[t] \in FirstBlock..(h - 1) => t \in Excused

\* Where all of the block has been delivered, and where the batch is empty.
BlockOver == {"block", "blockErr", "store", "storeErr"}
Stored == {"store", "storeErr"}

Clean == subHandler = "idle" /\ subSent = {} /\ subBatch = {}
Delivering ==
  /\ subAt <= subTip + 1
  /\ Covered(subAt)
  /\ subSent \subseteq subBatch \cup subQueue \cup subLost
  /\ subHandler \in BlockOver =>
       subAt <= subTip /\ \A t \in SubTx : subBlock[t] = subAt => t \in subSent
  /\ subHandler \in Stored => subBatch = {}

SubInv ==
  /\ SubTypeOK
  /\ Covered(ResumeAt)
  /\ subMain = "down" => Clean
  /\ subMain # "down" => Delivering

-----------------------------------------------------------------------------
\* What the places and heights are.

LEMMA PlaceFacts ==
  /\ SubPlaces = {"idle", "store", "page", "block", "pageErr", "blockErr", "storeErr", "mempoolErr"}
  /\ Flushing = {"page", "block"} /\ FlushFailed = {"pageErr", "blockErr"}
  /\ Reporting = {"pageErr", "blockErr", "storeErr", "mempoolErr"}
BY DEF SubPlaces, Flushing, FlushFailed, Reporting

LEMMA ConfigFacts ==
  SubTypeOK => subFlags \subseteq {"rewind", "mempool"} /\ subBackend \in {"redis", "pg", "sqlite"}
BY SubConfigAssumption DEF SubTypeOK

\* The next process starts at a block of the chain or at the first one.
LEMMA ResumeFacts ==
  SubTypeOK => /\ ResumeAt \in 1..subTip
               /\ ResumeAt <= FirstBlock \/ ResumeAt <= subProgress
<1> SUFFICES ASSUME SubTypeOK
             PROVE  /\ ResumeAt \in 1..subTip
                    /\ ResumeAt <= FirstBlock \/ ResumeAt <= subProgress
  OBVIOUS
<1>1. subTip \in Nat /\ FirstBlock \in Nat \ {0} /\ FirstBlock <= subTip /\ subProgress \in 0..subTip
  BY SubHeightAssumption DEF SubTypeOK
<1>2. CASE subProgress <= RewindAbove
  BY <1>1, <1>2 DEF ResumeAt
<1>3. CASE ~(subProgress <= RewindAbove)
  <2>1. RewindAbove \in Nat /\ RewindBy \in 0..RewindAbove BY SubHeightAssumption
  <2>2. CASE "rewind" \in subFlags BY <1>1, <1>3, <2>1, <2>2 DEF ResumeAt
  <2>3. CASE "rewind" \notin subFlags BY <1>1, <1>3, <2>1, <2>3 DEF ResumeAt
  <2>. QED BY <2>2, <2>3
<1>. QED BY <1>2, <1>3

LEMMA SubInitInv == SubInit => SubInv
<1> SUFFICES ASSUME SubInit PROVE SubInv
  OBVIOUS
<1>1. SubTypeOK
  <2>1. <<subBackend, subFlags>> \in SubConfigs
    <3>1. PICK c \in SubConfigs : subBackend = c[1] /\ subFlags = c[2] BY DEF SubInit
    <3>2. c = <<c[1], c[2]>> BY <3>1, SubConfigAssumption
    <3>. QED BY <3>1, <3>2
  <2>. QED BY <2>1, SubHeightAssumption, SubBoundAssumption, PlaceFacts
       DEF SubInit, SubTypeOK, SubHeights
<1>2. Covered(ResumeAt) BY SubHeightAssumption DEF SubInit, Covered
<1>. QED BY <1>1, <1>2 DEF SubInit, SubInv, Clean

-----------------------------------------------------------------------------
\* The process is down, or ends.

LEMMA EndsInv ==
  ASSUME SubInv, Ends, subLeft' \in [{"fault", "reorg"} -> Nat]
  PROVE  SubInv'
<1>1. SubTypeOK' BY SubHeightAssumption, PlaceFacts DEF SubInv, Ends, SubTypeOK, subEnv, SubHeights
<1>2. Covered(ResumeAt)'
  BY DEF SubInv, Ends, Covered, ResumeAt, Excused, subEnv
<1>. QED BY <1>1, <1>2 DEF SubInv, Clean, Ends

LEMMA UseFacts ==
  ASSUME NEW b \in {"fault", "reorg"}, SubTypeOK, SubUse(b)
  PROVE  subLeft' \in [{"fault", "reorg"} -> Nat]
BY DEF SubUse, SubTypeOK

LEMMA StartInv == SubInv /\ SubStart => SubInv'
<1> SUFFICES ASSUME SubInv, SubStart PROVE SubInv'
  OBVIOUS
<1>1. SubTypeOK /\ Clean /\ Covered(ResumeAt) BY DEF SubInv, SubStart
<1>2. subAt' = ResumeAt /\ ResumeAt \in 1..subTip /\ subTip \in FirstBlock..SubMaxTip
  BY <1>1, ResumeFacts DEF SubStart, SubTypeOK
<1>3. SubTypeOK'
  BY <1>1, <1>2, SubHeightAssumption DEF SubStart, SubTypeOK, subEnv, SubHeights
<1>4. UNCHANGED <<subBlock, Excused, ResumeAt, subTip>> /\ Clean'
  BY <1>1 DEF SubStart, Excused, ResumeAt, subEnv, Clean
<1>5. Covered(ResumeAt)' BY <1>1, <1>4 DEF Covered
<1>6. Covered(subAt)' BY <1>1, <1>2, <1>4 DEF Covered
<1>7. Delivering'
  BY <1>2, <1>4, <1>6, SubHeightAssumption DEF Delivering, Clean, BlockOver, Stored
<1>. QED BY <1>3, <1>5, <1>7 DEF SubInv, SubStart

-----------------------------------------------------------------------------
\* The chain.

\* A block that is mined is at or above the one that is delivered.
LEMMA ExtendInv == SubInv /\ SubExtend => SubInv'
<1> SUFFICES ASSUME SubInv, SubExtend PROVE SubInv'
  OBVIOUS
<1>1. PICK mined \in SUBSET {t \in SubTx : subBlock[t] = 0} :
        subBlock' = [t \in SubTx |-> IF t \in mined THEN subTip + 1 ELSE subBlock[t]]
  BY DEF SubExtend
<1>2. SubTypeOK /\ subTip \in FirstBlock..SubMaxTip /\ subTip < SubMaxTip /\ subTip' = subTip + 1
  BY DEF SubInv, SubTypeOK, SubExtend
<1>3. \A t \in SubTx : /\ subBlock[t] \in 0..SubMaxTip /\ subBlock[t] <= subTip
                       /\ subBlock'[t] = subBlock[t] \/ subBlock'[t] = subTip + 1
  BY <1>1, <1>2 DEF SubTypeOK, SubHeights
<1>4. SubTypeOK'
  <2>1. subBlock' \in [SubTx -> SubHeights] /\ \A t \in SubTx : subBlock'[t] <= subTip'
    BY <1>1, <1>2, <1>3, SubHeightAssumption DEF SubHeights
  <2>. QED BY <1>2, <2>1, SubHeightAssumption DEF SubExtend, SubTypeOK, subVolatile
<1>5. UNCHANGED <<Excused, ResumeAt>> BY DEF SubExtend, Excused, ResumeAt
<1>6. ASSUME NEW h \in Nat, h <= subTip + 1, Covered(h) PROVE Covered(h)'
  BY <1>2, <1>3, <1>5, <1>6, SubHeightAssumption DEF Covered
<1>7. Covered(ResumeAt)'
  <2>1. ResumeAt \in Nat /\ ResumeAt <= subTip + 1 BY <1>2, ResumeFacts, SubHeightAssumption
  <2>2. Covered(ResumeAt) BY DEF SubInv
  <2> HIDE DEF Covered
  <2>. QED BY <1>3, <1>2, <1>5, <2>1, <2>2, SubHeightAssumption DEF Covered
<1>8. ASSUME Delivering PROVE Delivering'
  <2>1. UNCHANGED <<subAt, subSent, subBatch, subQueue, subLost, subHandler>>
    BY DEF SubExtend, subVolatile
  <2>2. subAt \in Nat /\ subAt <= subTip + 1 /\ Covered(subAt)
    BY <1>2, <1>8, SubHeightAssumption DEF SubTypeOK, Delivering
  <2>3. Covered(subAt)'
    BY <1>2, <1>3, <1>5, <2>1, <2>2, SubHeightAssumption DEF Covered
  <2>4. subHandler \in BlockOver => \A t \in SubTx : subBlock'[t] = subAt => t \in subSent
    BY <1>2, <1>3, <1>8, <2>2, SubHeightAssumption DEF Delivering
  <2>. QED BY <1>2, <1>8, <2>1, <2>2, <2>3, <2>4, SubHeightAssumption DEF Delivering
<1>. QED BY <1>4, <1>7, <1>8 DEF SubInv, SubExtend, Clean, subVolatile

\* A reorganisation puts transactions where the next process, if it rewinds,
\* comes by again: ReorgDepth is at most RewindBy + 1.
LEMMA ReorgInv == SubInv /\ SubReorg => SubInv'
<1> DEFINE undone == {h \in FirstBlock..subTip : h > subTip - ReorgDepth}
           open == {t \in SubTx : subBlock[t] \in undone \cup {0}}
<1> SUFFICES ASSUME SubInv, SubReorg PROVE SubInv'
  OBVIOUS
<1>1. PICK c \in [open -> undone \cup {0}] :
        /\ subBlock' = [t \in SubTx |-> IF t \in open THEN c[t] ELSE subBlock[t]]
        /\ subMoved' = subMoved \cup {t \in open : c[t] # subBlock[t] /\ c[t] # 0}
  BY DEF SubReorg
<1>2. SubTypeOK /\ Clean /\ Covered(ResumeAt) /\ subMain' = "down" BY DEF SubInv, SubReorg
<1>3. subTip \in Nat /\ subTip \in FirstBlock..SubMaxTip
  BY <1>2, SubHeightAssumption DEF SubTypeOK
<1>4. \A t \in SubTx : \/ subBlock'[t] = subBlock[t]
                       \/ t \in open /\ subBlock'[t] \in undone \cup {0} /\ subBlock'[t] = c[t]
  BY <1>1
<1>5. SubTypeOK'
  <2>1. subBlock' \in [SubTx -> SubHeights]
    <3>1. undone \cup {0} \subseteq SubHeights BY <1>3, SubHeightAssumption DEF SubHeights
    <3>. QED BY <1>1, <1>2, <3>1 DEF SubTypeOK
  <2>2. \A t \in SubTx : subBlock'[t] <= subTip
    BY <1>2, <1>3, <1>4 DEF SubTypeOK
  <2>3. subMoved' \subseteq SubTx BY <1>1, <1>2 DEF SubTypeOK
  <2>4. subLeft' \in [{"fault", "reorg"} -> Nat] BY <1>2, UseFacts DEF SubReorg
  <2>. QED BY <1>2, <2>1, <2>2, <2>3, <2>4 DEF SubReorg, SubTypeOK, subVolatile
<1>6. UNCHANGED <<ResumeAt, subFlags, subQueue, subLost, subProgress, subTip>> /\ Clean'
  BY <1>2 DEF SubReorg, ResumeAt, Clean, subVolatile
<1>7. subMoved \subseteq subMoved' BY <1>1
<1>8. ASSUME NEW t \in SubTx, subBlock'[t] \in FirstBlock..(ResumeAt - 1)
      PROVE  t \in Excused'
  <2>1. CASE subBlock'[t] = subBlock[t]
    <3>1. t \in Excused BY <1>2, <1>8, <2>1 DEF Covered
    <3>. QED BY <1>6, <1>7, <3>1 DEF Excused
  <2>2. CASE subBlock'[t] # subBlock[t]
    <3>1. t \in open /\ c[t] = subBlock'[t] /\ c[t] \in undone \cup {0} BY <1>4, <2>2
    <3>2. c[t] # 0 /\ c[t] \in undone BY <1>8, <3>1, SubHeightAssumption
    <3>3. CASE "rewind" \notin subFlags
      <4>1. t \in subMoved' BY <1>1, <2>2, <3>1, <3>2
      <4>. QED BY <1>6, <3>3, <4>1 DEF Excused
    <3>4. CASE "rewind" \in subFlags
      <4>1. ResumeAt = FirstBlock \/ ResumeAt = subProgress - RewindBy BY <3>4 DEF ResumeAt
      <4>2. c[t] > subTip - ReorgDepth /\ c[t] \in Nat BY <1>3, <3>2, SubHeightAssumption
      <4>3. subProgress \in 0..subTip BY <1>2 DEF SubTypeOK
      <4>4. c[t] >= subProgress - RewindBy
        BY <1>3, <4>2, <4>3, SubReorgAssumption, SubHeightAssumption
      <4>5. c[t] >= FirstBlock /\ c[t] < ResumeAt
        <5>1. c[t] \in FirstBlock..(ResumeAt - 1) BY <1>8, <3>1
        <5>2. ResumeAt \in 1..subTip BY <1>2, ResumeFacts
        <5>. QED BY <1>3, <4>2, <5>1, <5>2, SubHeightAssumption
      <4>6. ResumeAt \in 1..subTip BY <1>2, ResumeFacts
      <4>. QED BY <1>3, <4>1, <4>2, <4>3, <4>4, <4>5, <4>6, SubHeightAssumption
    <3>. QED BY <3>3, <3>4
  <2>. QED BY <2>1, <2>2
<1>9. Covered(ResumeAt)' BY <1>6, <1>8 DEF Covered
<1>. QED BY <1>2, <1>5, <1>6, <1>9 DEF SubInv

-----------------------------------------------------------------------------
\* The event handler.

\* A step of the handler inside a block keeps the invariant when what was
\* delivered is still accounted for.
LEMMA InsideInv ==
  ASSUME SubInv, subMain # "down", SubTypeOK', subMain' # "down",
         UNCHANGED <<subEnv, subProgress, subAt>>,
         subQueue \subseteq subQueue', subLost \subseteq subLost',
         subSent' \subseteq subBatch' \cup subQueue' \cup subLost', subSent \subseteq subSent',
         subHandler' \in BlockOver =>
           subHandler \in BlockOver
             \/ (subAt <= subTip /\ \A t \in SubTx : subBlock[t] = subAt => t \in subSent),
         subHandler' \in Stored => subBatch' = {}
  PROVE  SubInv'
<1>1. Delivering /\ Covered(ResumeAt) BY DEF SubInv
<1>2. Excused \subseteq Excused' BY DEF Excused, subEnv
<1>3. UNCHANGED <<ResumeAt, subBlock, subTip>> BY DEF ResumeAt, subEnv
<1>4. Covered(ResumeAt)' /\ Covered(subAt)'
  BY <1>1, <1>2, <1>3 DEF Covered, Delivering
<1>5. Delivering' BY <1>1, <1>3, <1>4 DEF Delivering
<1>. QED BY <1>4, <1>5 DEF SubInv

\* The end of a block: whatever the block held is excused.
LEMMA NextInv ==
  ASSUME SubInv, subMain # "down", subHandler \in Stored, SubTypeOK', subMain' # "down",
         UNCHANGED <<subEnv, subQueue, subLost, subBatch>>, NextBlock,
         subProgress' \in {subProgress, subAt}
  PROVE  SubInv'
<1>1. Delivering /\ Covered(ResumeAt) /\ SubTypeOK BY DEF SubInv
<1>2. UNCHANGED <<Excused, subBlock, subTip, subFlags>> BY DEF Excused, subEnv
<1>3. subAt \in Nat /\ FirstBlock \in Nat /\ subTip \in Nat
  BY <1>1, SubHeightAssumption DEF SubTypeOK
<1>4. subAt <= subTip /\ subBatch = {} /\ subSent \subseteq subQueue \cup subLost
        /\ \A t \in SubTx : subBlock[t] = subAt => t \in Excused
  BY <1>1, <1>2 DEF Delivering, Stored, BlockOver, Excused
<1>5. Covered(subAt + 1)
  BY <1>1, <1>3, <1>4 DEF Covered, Delivering, SubTypeOK, SubHeights
<1>6. Covered(subAt)' BY <1>2, <1>5 DEF Covered, NextBlock
<1>7. Covered(ResumeAt)'
  <2>1. CASE subProgress' = subProgress
    <3>1. ResumeAt' = ResumeAt BY <1>2, <2>1 DEF ResumeAt
    <3>. QED BY <1>1, <1>2, <3>1 DEF Covered
  <2>2. CASE subProgress' = subAt
    <3>1. ResumeAt' \in Nat /\ (ResumeAt' <= FirstBlock \/ ResumeAt' <= subAt)
      <4>1. ResumeAt' = IF subAt <= RewindAbove THEN FirstBlock
                        ELSE IF "rewind" \in subFlags THEN subAt - RewindBy ELSE subAt
        BY <1>2, <2>2 DEF ResumeAt
      <4>. QED BY <1>3, <4>1, SubHeightAssumption
    <3>2. ASSUME NEW t \in SubTx, subBlock[t] \in FirstBlock..(ResumeAt' - 1)
          PROVE  t \in Excused
      <4>1. subBlock[t] \in FirstBlock..((subAt + 1) - 1) BY <1>3, <3>1, <3>2
      <4>. QED BY <1>5, <4>1 DEF Covered
    <3>. QED BY <1>2, <3>2 DEF Covered
  <2>. QED BY <2>1, <2>2
<1>8. Delivering'
  <2>1. subAt' <= subTip' + 1 BY <1>2, <1>3, <1>4 DEF NextBlock
  <2>2. subSent' = {} /\ subHandler' = "idle" BY DEF NextBlock
  <2>. QED BY <1>6, <2>1, <2>2 DEF Delivering, BlockOver, Stored
<1>. QED BY <1>7, <1>8 DEF SubInv

LEMMA NextBlockType ==
  ASSUME SubInv, subMain # "down", subHandler \in Stored, NextBlock
  PROVE  subAt' \in 1..(SubMaxTip + 1) /\ subAt \in 0..subTip
<1>1. SubTypeOK /\ subAt <= subTip BY DEF SubInv, Delivering, Stored, BlockOver
<1>. QED BY <1>1, SubHeightAssumption DEF SubTypeOK, NextBlock

\* Transactions and statuses: the first half of the handler.
LEMMA EventInv ==
  SubInv /\ ((\E t \in SubTx : OnTransaction(t) \/ OnMempool(t)) \/ OnPage \/ OnBlock) => SubInv'
<1> SUFFICES ASSUME SubInv,
                    (\E t \in SubTx : OnTransaction(t) \/ OnMempool(t)) \/ OnPage \/ OnBlock
             PROVE  SubInv'
  OBVIOUS
<1>0. SubTypeOK BY DEF SubInv
<1>1. ASSUME NEW t \in SubTx, OnTransaction(t) PROVE SubInv'
  <2>1. subMain # "down" /\ subHandler = "idle" /\ subHandler' = "idle" /\ Delivering
    BY <1>1 DEF OnTransaction, Awaits, SubInv
  <2>2. SubTypeOK' BY <1>0, <1>1 DEF OnTransaction, SubTypeOK, subEnv
  <2>3. subSent' \subseteq subBatch' \cup subQueue' \cup subLost'
    BY <1>1, <2>1 DEF OnTransaction, Delivering
  <2>. QED BY <1>1, <2>1, <2>2, <2>3, InsideInv DEF OnTransaction, BlockOver, Stored
<1>2. ASSUME NEW t \in SubTx, OnMempool(t) PROVE SubInv'
  <2>1. subMain # "down" /\ subHandler = "idle" /\ Delivering
    BY <1>2 DEF OnMempool, Awaits, SubInv
  <2>2. subHandler' \in {"idle", "mempoolErr"} /\ subQueue \subseteq subQueue'
          /\ subQueue' \subseteq SubTx /\ subLeft' \in [{"fault", "reorg"} -> Nat]
    <3>1. CASE SubUse("fault") /\ subHandler' = "mempoolErr" /\ UNCHANGED subQueue
      BY <1>0, <3>1, UseFacts DEF SubTypeOK
    <3>2. CASE subQueue' = subQueue \cup {t} /\ UNCHANGED <<subHandler, subLeft>>
      BY <1>0, <2>1, <3>2 DEF SubTypeOK
    <3>. QED BY <1>2, <3>1, <3>2 DEF OnMempool
  <2>3. SubTypeOK' BY <1>0, <1>2, <2>2, PlaceFacts DEF OnMempool, SubTypeOK, subEnv
  <2>4. subSent' \subseteq subBatch' \cup subQueue' \cup subLost'
    BY <1>2, <2>1, <2>2 DEF OnMempool, Delivering
  <2>. QED BY <1>2, <2>1, <2>2, <2>3, <2>4, InsideInv DEF OnMempool, BlockOver, Stored
<1>3. CASE OnPage
  <2>1. subMain # "down" /\ Delivering BY <1>3 DEF OnPage, Awaits, SubInv
  <2>2. SubTypeOK' BY <1>0, <1>3, PlaceFacts DEF OnPage, SubTypeOK, subEnv
  <2>3. subSent' \subseteq subBatch' \cup subQueue' \cup subLost' BY <1>3, <2>1 DEF OnPage, Delivering
  <2>. QED BY <1>3, <2>1, <2>2, <2>3, InsideInv DEF OnPage, BlockOver, Stored
<1>4. CASE OnBlock
  <2>1. subMain # "down" /\ Delivering BY <1>4 DEF OnBlock, Awaits, SubInv
  <2>2. subHandler' \in {"block", "store"} /\ (subHandler' = "store" => subBatch' = {})
    BY <1>4 DEF OnBlock
  <2>3. SubTypeOK' BY <1>0, <1>4, <2>2, PlaceFacts DEF OnBlock, SubTypeOK, subEnv
  <2>4. subSent' \subseteq subBatch' \cup subQueue' \cup subLost' BY <1>4, <2>1 DEF OnBlock, Delivering
  <2>. QED BY <1>4, <2>1, <2>2, <2>3, <2>4, InsideInv DEF OnBlock, BlockOver, Stored
<1>. QED BY <1>1, <1>2, <1>3, <1>4

LEMMA LogManyInv == SubInv /\ LogMany => SubInv'
<1> SUFFICES ASSUME SubInv, LogMany PROVE SubInv'
  OBVIOUS
<1>0. SubTypeOK /\ Delivering /\ subMain # "down" /\ subHandler \in {"page", "block"}
  BY PlaceFacts DEF SubInv, LogMany
<1>1. CASE /\ subQueue' = subQueue \cup subBatch
           /\ subHandler' = AfterFlush /\ subBatch' = {}
           /\ UNCHANGED <<subLost, subLeft>>
  <2>1. subHandler' \in {"idle", "store"} /\ (subHandler' = "store" => subHandler = "block")
    BY <1>0, <1>1 DEF AfterFlush
  <2>2. SubTypeOK' BY <1>0, <1>1, <2>1, PlaceFacts DEF LogMany, SubTypeOK, subEnv
  <2>3. subSent' \subseteq subBatch' \cup subQueue' \cup subLost'
    BY <1>0, <1>1 DEF LogMany, Delivering
  <2>4. /\ UNCHANGED <<subEnv, subProgress, subAt>> /\ subMain' # "down" /\ subMain # "down"
        /\ subQueue \subseteq subQueue' /\ subLost \subseteq subLost' /\ subSent \subseteq subSent'
    BY <1>0, <1>1, <2>1, <2>2, <2>3 DEF LogMany
  <2>5. /\ subHandler' \in BlockOver => subHandler \in BlockOver
        /\ subHandler' \in Stored => subBatch' = {}
    BY <1>0, <1>1, <2>1, <2>2, <2>3 DEF LogMany, BlockOver, Stored
  <2>. QED BY <2>2, <2>3, <2>4, <2>5, InsideInv
<1>2. ASSUME NEW r \in ShortLogMany,
             SubUse("fault"),
             subQueue' = subQueue \cup r.written,
             subHandler' = CASE ~r.err -> AfterFlush
                             [] r.err /\ subHandler = "page" -> "pageErr"
                             [] r.err /\ subHandler = "block" -> "blockErr",
             subBatch' = IF r.err THEN subBatch ELSE {},
             subLost' = IF r.err THEN subLost ELSE subLost \cup subBatch
      PROVE  SubInv'
  <2>1. r.written \subseteq subBatch /\ r.err \in BOOLEAN
    <3>1. subBackend \in {"redis", "pg", "sqlite"} BY <1>0, ConfigFacts
    <3>2. CASE subBackend = "redis" BY <1>2, <3>2 DEF ShortLogMany
    <3>3. CASE subBackend = "pg" BY <1>2, <3>3 DEF ShortLogMany
    <3>4. CASE subBackend = "sqlite" BY <1>2, <3>4 DEF ShortLogMany
    <3>. QED BY <3>1, <3>2, <3>3, <3>4
  <2>2. subHandler' \in {"idle", "store", "pageErr", "blockErr"}
          /\ (subHandler' \in {"store", "blockErr"} => subHandler = "block")
          /\ (subHandler' = "store" => ~r.err)
    <3>1. CASE r.err
      <4>1. CASE subHandler = "page" BY <1>2, <3>1, <4>1
      <4>2. CASE subHandler = "block" BY <1>2, <3>1, <4>2
      <4>. QED BY <1>0, <4>1, <4>2
    <3>2. CASE ~r.err BY <1>0, <1>2, <3>2 DEF AfterFlush
    <3>. QED BY <3>1, <3>2
  <2>3. subLeft' \in [{"fault", "reorg"} -> Nat] BY <1>0, <1>2, UseFacts
  <2>4. subBatch \subseteq subSent /\ subSent \subseteq SubTx BY <1>0 DEF SubTypeOK
  <2>5. SubTypeOK'
    BY <1>0, <1>2, <2>1, <2>2, <2>3, <2>4, PlaceFacts DEF LogMany, SubTypeOK, subEnv
  <2>6. subSent' \subseteq subBatch' \cup subQueue' \cup subLost'
    BY <1>0, <1>2, <2>1 DEF LogMany, Delivering
  <2>7. /\ UNCHANGED <<subEnv, subProgress, subAt>> /\ subMain' # "down" /\ subMain # "down"
        /\ subQueue \subseteq subQueue' /\ subLost \subseteq subLost' /\ subSent \subseteq subSent'
    BY <1>0, <1>2, <2>1, <2>2, <2>5, <2>6 DEF LogMany
  <2>8. /\ subHandler' \in BlockOver => subHandler \in BlockOver
        /\ subHandler' \in Stored => subBatch' = {}
    BY <1>0, <1>2, <2>1, <2>2, <2>5, <2>6 DEF LogMany, BlockOver, Stored
  <2>. QED BY <2>5, <2>6, <2>7, <2>8, InsideInv
<1>. QED BY <1>1, <1>2 DEF LogMany

LEMMA LogProgressInv == SubInv /\ LogProgress => SubInv'
<1> SUFFICES ASSUME SubInv, LogProgress PROVE SubInv'
  OBVIOUS
<1>0. SubTypeOK /\ Delivering /\ subMain # "down" /\ subMain' # "down" /\ subHandler = "store"
  BY DEF SubInv, LogProgress
<1>1. CASE subProgress' = subAt /\ NextBlock /\ UNCHANGED subLeft
  <2>1. subAt' \in 1..(SubMaxTip + 1) /\ subAt \in 0..subTip
    BY <1>0, <1>1, NextBlockType DEF Stored
  <2>2. SubTypeOK'
    BY <1>0, <1>1, <2>1, PlaceFacts DEF LogProgress, SubTypeOK, subEnv, NextBlock, Delivering, Stored
  <2>. QED BY <1>0, <1>1, <2>2, NextInv DEF LogProgress, Stored
<1>2. CASE /\ SubUse("fault") /\ subHandler' = "storeErr"
           /\ UNCHANGED <<subProgress, subAt, subSent>>
  <2>1. subLeft' \in [{"fault", "reorg"} -> Nat] BY <1>0, <1>2, UseFacts
  <2>2. SubTypeOK' BY <1>0, <1>2, <2>1, PlaceFacts DEF LogProgress, SubTypeOK, subEnv
  <2>3. subSent' \subseteq subBatch' \cup subQueue' \cup subLost' /\ subBatch' = {}
    BY <1>0, <1>2 DEF LogProgress, Delivering, Stored
  <2>4. /\ UNCHANGED <<subEnv, subProgress, subAt>> /\ subMain' # "down" /\ subMain # "down"
        /\ subQueue \subseteq subQueue' /\ subLost \subseteq subLost' /\ subSent \subseteq subSent'
    BY <1>0, <1>2, <2>2, <2>3 DEF LogProgress
  <2>5. /\ subHandler' \in BlockOver => subHandler \in BlockOver
        /\ subHandler' \in Stored => subBatch' = {}
    BY <1>0, <1>2, <2>2, <2>3 DEF LogProgress, BlockOver, Stored
  <2>. QED BY <2>2, <2>3, <2>4, <2>5, InsideInv
<1>. QED BY <1>1, <1>2 DEF LogProgress

LEMMA ReportInv == SubInv /\ Report => SubInv'
<1> SUFFICES ASSUME SubInv, Report PROVE SubInv'
  OBVIOUS
<1>0. SubTypeOK /\ Delivering /\ subMain # "down" /\ subMain' # "down"
        /\ subHandler \in {"pageErr", "blockErr", "storeErr", "mempoolErr"}
  BY PlaceFacts DEF SubInv, Report
<1>1. CASE subHandler \in {"pageErr", "blockErr"}
  <2>1. /\ subLost' = subLost \cup (subBatch \ subQueue)
        /\ subBatch' = {} /\ subDrops' = subDrops + 1
        /\ subHandler' = AfterFlush
        /\ UNCHANGED <<subAt, subSent>>
    BY <1>1, PlaceFacts DEF Report
  <2>2. subHandler' \in {"idle", "store"} /\ (subHandler' = "store" => subHandler = "blockErr")
    BY <1>1, <2>1 DEF AfterFlush
  <2>3. SubTypeOK' BY <1>0, <2>1, <2>2, PlaceFacts DEF Report, SubTypeOK, subEnv
  <2>4. subSent' \subseteq subBatch' \cup subQueue' \cup subLost'
    BY <1>0, <2>1 DEF Report, Delivering
  <2>5. /\ UNCHANGED <<subEnv, subProgress, subAt>> /\ subMain' # "down" /\ subMain # "down"
        /\ subQueue \subseteq subQueue' /\ subLost \subseteq subLost' /\ subSent \subseteq subSent'
    BY <1>0, <2>1, <2>2, <2>3, <2>4 DEF Report
  <2>6. /\ subHandler' \in BlockOver => subHandler \in BlockOver
        /\ subHandler' \in Stored => subBatch' = {}
    BY <1>0, <2>1, <2>2, <2>3, <2>4 DEF Report, BlockOver, Stored
  <2>. QED BY <2>3, <2>4, <2>5, <2>6, InsideInv
<1>2. CASE subHandler = "storeErr"
  <2>1. NextBlock /\ UNCHANGED <<subBatch, subLost, subDrops>>
    BY <1>2, PlaceFacts DEF Report
  <2>2. subAt' \in 1..(SubMaxTip + 1) BY <1>0, <1>2, <2>1, NextBlockType DEF Stored
  <2>3. SubTypeOK'
    BY <1>0, <1>2, <2>1, <2>2, PlaceFacts DEF Report, SubTypeOK, subEnv, NextBlock, Delivering, Stored
  <2>. QED BY <1>0, <1>2, <2>1, <2>3, NextInv DEF Report, Stored
<1>3. CASE subHandler = "mempoolErr"
  <2>1. subHandler' = "idle" /\ UNCHANGED <<subBatch, subLost, subDrops, subAt, subSent>>
    BY <1>3, PlaceFacts DEF Report
  <2>2. SubTypeOK' BY <1>0, <2>1, PlaceFacts DEF Report, SubTypeOK, subEnv
  <2>3. subSent' \subseteq subBatch' \cup subQueue' \cup subLost'
    BY <1>0, <2>1 DEF Report, Delivering
  <2>. QED BY <1>0, <2>1, <2>2, <2>3, InsideInv DEF Report, BlockOver, Stored
<1>. QED BY <1>0, <1>1, <1>2, <1>3

LEMMA SubInvStep == SubInv /\ [SubNext]_subVars => SubInv'
<1> SUFFICES ASSUME SubInv, [SubNext]_subVars PROVE SubInv'
  OBVIOUS
<1>0. SubTypeOK BY DEF SubInv
<1>1. CASE SubLeave BY <1>0, <1>1, EndsInv DEF SubLeave, SubTypeOK
<1>2. CASE SubExit BY <1>0, <1>2, EndsInv, UseFacts DEF SubExit
<1>3. CASE SubSignal
  <2>1. subLeft' \in [{"fault", "reorg"} -> Nat] BY <1>0, <1>3, UseFacts DEF SubSignal
  <2>2. SubTypeOK' BY <1>0, <1>3, <2>1 DEF SubSignal, SubTypeOK, subEnv, subVolatile
  <2>3. subSent' \subseteq subBatch' \cup subQueue' \cup subLost' /\ (subHandler \in Stored => subBatch = {})
    BY <1>3 DEF SubSignal, SubInv, Delivering, subVolatile
  <2>4. /\ UNCHANGED <<subEnv, subProgress, subAt>> /\ subMain' # "down" /\ subMain # "down"
        /\ subQueue \subseteq subQueue' /\ subLost \subseteq subLost' /\ subSent \subseteq subSent'
    BY <1>3, <2>2, <2>3 DEF SubSignal, subVolatile
  <2>5. /\ subHandler' \in BlockOver => subHandler \in BlockOver
        /\ subHandler' \in Stored => subBatch' = {}
    BY <1>3, <2>2, <2>3 DEF SubSignal, subVolatile, BlockOver, Stored
  <2>. QED BY <2>2, <2>3, <2>4, <2>5, InsideInv
<1>4. CASE (\E t \in SubTx : OnTransaction(t) \/ OnMempool(t)) \/ OnPage \/ OnBlock
  BY <1>4, EventInv
<1>5. CASE UNCHANGED subVars
  <2>1. SubTypeOK' BY <1>0, <1>5 DEF SubTypeOK, subVars, subEnv, subVolatile
  <2>2. Covered(ResumeAt)' /\ (subMain' = "down" => Clean')
    BY <1>5 DEF SubInv, Covered, Excused, ResumeAt, Clean, subVars, subEnv, subVolatile
  <2>3. subMain' # "down" => Delivering'
    BY <1>5 DEF SubInv, Covered, Excused, Delivering, subVars, subEnv, subVolatile
  <2>. QED BY <2>1, <2>2, <2>3 DEF SubInv
<1>. QED BY <1>1, <1>2, <1>3, <1>4, <1>5, StartInv, ExtendInv, ReorgInv, LogManyInv,
            LogProgressInv, ReportInv DEF SubNext

-----------------------------------------------------------------------------
\* The theorems.

LEMMA SubInvariant == SubSpec => []SubInv
<1>. QED BY SubInitInv, SubInvStep, PTL DEF SubSpec

\* Every variable has its type.
THEOREM SubTypeCorrect == SubSpec => []SubTypeOK
<1>1. SubInv => SubTypeOK BY DEF SubInv
<1>. QED BY <1>1, SubInvariant, PTL

\* sub.go:56-73, 113-121: whenever the process ends, the next one resumes behind
\* every transaction that was not written to the queue, given up, or, without
\* -r, moved by a reorganisation.
THEOREM SubResumesBehindNothing == SubSpec => []ResumesBehindNothing
<1>1. SubInv => ResumesBehindNothing BY DEF SubInv, Covered, Excused, ResumesBehindNothing
<1>. QED BY <1>1, SubInvariant, PTL

\* An Exec that has not returned has given up nothing.
Given == subDrops \in Nat /\ subDrops <= 1 /\ (subMain # "leaving" => subDrops = 0)

\* sub.go:59, 66, 143: a process gives up one batch at most that it reported.
THEOREM SubOneBatchGivenUp == SubSpec => []OneBatchGivenUp
<1>1. SubInit => Given BY DEF SubInit, Given
<1>2. Given /\ [SubNext]_subVars => Given'
  <2> SUFFICES ASSUME Given, [SubNext]_subVars PROVE Given'
    OBVIOUS
  <2>1. CASE UNCHANGED subDrops /\ (subMain' # "leaving" => subMain # "leaving")
    BY <2>1 DEF Given
  <2>2. CASE SubLeave \/ SubExit BY <2>2 DEF SubLeave, SubExit, Ends, Given
  <2>3. CASE Report
    <3>1. subMain = "select" /\ subMain' = "leaving" /\ subDrops' \in {subDrops, subDrops + 1}
      <4>1. subHandler \in Reporting BY <2>3 DEF Report
      <4>2. CASE subHandler \in {"pageErr", "blockErr"} BY <2>3, <4>2, PlaceFacts DEF Report
      <4>3. CASE subHandler = "storeErr" BY <2>3, <4>3, PlaceFacts DEF Report
      <4>4. CASE subHandler = "mempoolErr" BY <2>3, <4>4, PlaceFacts DEF Report
      <4>. QED BY <2>3, <4>1, <4>2, <4>3, <4>4, PlaceFacts DEF Report
    <3>. QED BY <3>1 DEF Given
  <2>4. CASE SubExtend \/ SubReorg
    BY <2>1, <2>4 DEF SubExtend, SubReorg, subVolatile
  <2>5. CASE SubStart \/ SubSignal
    BY <2>5 DEF SubStart, SubSignal, subVolatile, Given
  <2>6. CASE (\E t \in SubTx : OnTransaction(t) \/ OnMempool(t)) \/ OnPage \/ OnBlock
    BY <2>1, <2>6 DEF OnTransaction, OnMempool, OnPage, OnBlock
  <2>7. CASE LogMany \/ LogProgress BY <2>1, <2>7 DEF LogMany, LogProgress
  <2>8. CASE UNCHANGED subVars BY <2>1, <2>8 DEF subVars, subVolatile
  <2>. QED BY <2>2, <2>3, <2>4, <2>5, <2>6, <2>7, <2>8 DEF SubNext
<1>3. Given => OneBatchGivenUp BY DEF Given, OneBatchGivenUp
<1>. QED BY <1>1, <1>2, <1>3, PTL DEF SubSpec

-----------------------------------------------------------------------------
\* The stream of events.

LEMMA EsInitType == EsInit => EsTypeOK
<1>1. Cardinality({}) = 0 BY FS_EmptySet
<1>2. <<>> \in Seq(Session) /\ <<>> \in Seq(Topic) OBVIOUS
<1>. QED BY <1>1, <1>2 DEF EsInit, EsTypeOK, Handler

LEMMA EsTypeStep == EsTypeOK /\ [EsNext]_esVars => EsTypeOK'
<1> SUFFICES ASSUME EsTypeOK, [EsNext]_esVars PROVE EsTypeOK'
  OBVIOUS
<1> USE DEF EsTypeOK, Handler
<1>0. Cardinality({}) = 0 BY FS_EmptySet
<1>1. ASSUME NEW s \in Session, Connect(s) PROVE EsTypeOK'
  <2>1. PICK ts \in [1..1 -> Topic] \cup [1..2 -> Topic] :
          asked' = [asked EXCEPT ![s] = ts] /\ todo' = [todo EXCEPT ![s] = ts]
    BY <1>1 DEF Connect
  <2>a. \A n \in Nat : [1..n -> Topic] \subseteq Seq(Topic)
    <3>1. Seq(Topic) = UNION {[1..n -> Topic] : n \in Nat} BY SeqDef, Zenon
    <3>. QED BY <3>1, Zenon
  <2>b. 1 \in Nat /\ 2 \in Nat OBVIOUS
  <2>2. CASE ts \in [1..1 -> Topic]
    <3>1. ts \in Seq(Topic) BY <2>a, <2>b, <2>2, Zenon
    <3>. QED BY <1>1, <2>1, <3>1 DEF Connect
  <2>3. CASE ts \in [1..2 -> Topic]
    <3>1. ts \in Seq(Topic) BY <2>a, <2>b, <2>3, Zenon
    <3>. QED BY <1>1, <2>1, <3>1 DEF Connect
  <2>. QED BY <2>2, <2>3
<1>2. ASSUME NEW s \in Session, Lock(s) PROVE EsTypeOK'
  <2>1. Cardinality({s}) = 1 BY FS_Singleton
  <2>. QED BY <1>2, <2>1 DEF Lock
<1>3. ASSUME NEW s \in Session, Register(s) PROVE EsTypeOK'
  <2>1. Head(todo[s]) \in Topic /\ Tail(todo[s]) \in Seq(Topic) BY <1>3 DEF Register
  <2>2. <<s>> \in Seq(Session) OBVIOUS
  <2>3. CASE topics[Head(todo[s])] = <<>>
    <3>1. topics' = [topics EXCEPT ![Head(todo[s])] = <<s>>] BY <1>3, <2>3 DEF Register
    <3>2. newSubs' = [newSubs EXCEPT ![s] = @ \cup {Head(todo[s])}] BY <1>3, <2>3 DEF Register
    <3>3. topics' \in [Topic -> Seq(Session)] BY <2>2, <3>1
    <3>4. newSubs' \in [Session -> SUBSET Topic] BY <2>1, <3>2
    <3>. QED BY <1>3, <2>1, <3>3, <3>4 DEF Register
  <2>4. CASE topics[Head(todo[s])] # <<>>
    BY <1>3, <2>1, <2>4 DEF Register
  <2>. QED BY <2>3, <2>4
<1>4. ASSUME NEW s \in Session, Unlock(s) PROVE EsTypeOK'
  BY <1>4, <1>0 DEF Unlock
<1>5. CASE Loop
  <2>1. CASE loop = <<>>
    <3>1. PICK t \in Subscribed : loop' = topics[t] /\ due' = due \cup Registered(t)
      BY <1>5, <2>1 DEF Loop
    <3>2. Registered(t) \subseteq Session BY DEF Registered
    <3>. QED BY <1>5, <3>1, <3>2, SubscribedAssumption DEF Loop
  <2>2. CASE loop # <<>>
    <3>1. Head(loop) \in Session /\ Tail(loop) \in Seq(Session) BY <2>2
    <3>. QED BY <1>5, <2>2, <3>1 DEF Loop
  <2>. QED BY <2>1, <2>2
<1>6. CASE MapFault
  <2>1. <<>> \in Seq(Session) /\ <<>> \in Seq(Topic) OBVIOUS
  <2>. QED BY <1>6, <1>0, <2>1 DEF MapFault
<1>7. CASE UNCHANGED esVars BY <1>7 DEF esVars
<1>. QED BY <1>1, <1>2, <1>3, <1>4, <1>5, <1>6, <1>7 DEF EsNext

\* Every variable has its type, whatever sessions connect.
THEOREM EsTypeCorrect == EsSpec => []EsTypeOK
<1>. QED BY EsInitType, EsTypeStep, PTL DEF EsSpec

-----------------------------------------------------------------------------
\* The two parts together.

\* Whichever of the two parts runs, the variables of both have their types.
THEOREM EdgesTypeCorrect == EdgesSpec => []EdgesTypeOK
<1> DEFINE Inv == SubInv /\ EsTypeOK
<1>1. EdgesInit => Inv
  BY SubInitInv, EsInitType DEF EdgesInit
<1>2. Inv /\ [EdgesNext]_edgeVars => Inv'
  <2> SUFFICES ASSUME SubInv, EsTypeOK, [EdgesNext]_edgeVars
               PROVE  SubInv' /\ EsTypeOK'
    OBVIOUS
  <2>1. [SubNext]_subVars /\ [EsNext]_esVars
    BY DEF EdgesNext, edgeVars
  <2> QED BY <2>1, SubInvStep, EsTypeStep
<1>3. Inv => EdgesTypeOK
  BY DEF EdgesTypeOK, SubInv
<1> QED BY <1>1, <1>2, <1>3, PTL DEF EdgesSpec
==============================================================================
