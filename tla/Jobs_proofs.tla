----------------------------- MODULE Jobs_proofs -----------------------------
(***************************************************************************)
(* Proofs about Jobs and its two parts, for any owners, accounts,          *)
(* transactions and requests, page sizes, stores, and any number of        *)
(* failures; the two parts have nothing in common but the type invariant   *)
(* at the end.                                                             *)
(***************************************************************************)
EXTENDS Jobs, FiniteSetTheorems, TLAPS

(***************************************************************************)
(* Owner sync.                                                             *)
(*                                                                         *)
(* NothingPassed speaks of the heights in the sync log. What is logged was *)
(* computed from a page that was read before, while blocks, other requests *)
(* and the loop went on, so the invariant says of every height that is     *)
(* under way (in a round of the loop, in a request) that nothing lies      *)
(* behind it but what is still in the page, or being ingested.             *)
(***************************************************************************)

Done(o, t) == t \in osQueue \cup osIngested \cup osLate \/ <<o, t>> \in osTies

\* Nothing of the history of o lies below last, and nothing outside of the page
\* below what is in it, but what is done or in run.
Ahead(o, last, page, run) ==
  \A t \in OsTx : o \in OwnersOf[t] /\ osBlock[t] # 0 =>
    \/ t \in page \cup run
    \/ Done(o, t)
    \/ (osBlock[t] >= last /\ \A u \in page : osBlock[u] <= osBlock[t])

\* The page is mined, from last on.
Mined(last, page) ==
  \A u \in page : osBlock[u] >= last /\ osBlock[u] <= osTip /\ osBlock[u] # 0

HeightFine(o) == osHeight[o] <= osTip + 1 /\ Ahead(o, osHeight[o], {}, {})

LoopFine(l) ==
  /\ l.last <= osTip + 1
  /\ \A e \in l.todo : e[2] <= osTip + 1 /\ Ahead(e[1], e[2], {}, {})
  /\ l.at \in {"queue", "log"} => l.owner # NoScore
  /\ l.at # "queue" => l.page = {}
  /\ l.at = "log" /\ l.full => l.last <= osTip
  /\ l.owner # NoScore => Ahead(l.owner, l.last, l.page, {}) /\ Mined(l.last, l.page)

ReqFine(q) ==
  /\ q.last <= osTip + 1
  /\ q.at \in {"update", "insert"} => q.acct \in OsAcct
  /\ q.at \in {"insert", "fetch", "loop", "slot", "wait"} => q.owner # NoScore
  /\ q.at \notin {"loop", "slot", "wait"} => q.run = {} /\ ~q.err
  /\ q.at \notin {"loop", "slot"} => q.page = {}
  /\ q.at \in {"fetch", "loop", "slot", "wait"} /\ ~q.err =>
       Ahead(q.owner, q.last, q.page, q.run) /\ Mined(q.last, q.page)

OsInv ==
  /\ OsTypeOK
  /\ \A o \in OsOwner : HeightFine(o)
  /\ LoopFine(osLoop)
  /\ \A r \in Request : ReqFine(osReq[r])

-----------------------------------------------------------------------------
\* What every step may do to the world.

Grows ==
  /\ osQueue \subseteq osQueue' /\ osIngested \subseteq osIngested'
  /\ osLate \subseteq osLate' /\ osTies \subseteq osTies'
  /\ osTip <= osTip' /\ osTip' \in Nat
  /\ \A t \in OsTx :
       \/ osBlock'[t] = osBlock[t]
       \/ (osBlock[t] = 0 /\ (t \in osLate' \/ osBlock'[t] = osTip + 1))

LEMMA TypeFacts ==
  OsTypeOK => /\ osTip \in Nat /\ OsMaxTip \in Nat /\ osTip <= OsMaxTip
              /\ \A t \in OsTx : osBlock[t] \in Nat /\ osBlock[t] <= osTip
              /\ osPage \in Nat \ {0} /\ osBackend \in {"redis", "sql"}
              /\ osRefused \subseteq OsOwner
              /\ NoScore = -1 /\ NoScore \notin OsOwner
BY OsBoundAssumption, OsConfigAssumption, OsNoScoreAssumption DEF OsTypeOK, NoScore

\* Blocks that appear lie ahead, and those that replace others are late; what
\* leaves run must be done.
LEMMA AheadKept ==
  ASSUME OsTypeOK, Grows,
         NEW o \in OsOwner, NEW last \in Int, last <= osTip + 1,
         NEW page \in SUBSET OsTx, Mined(last, page),
         NEW run, NEW run2, Ahead(o, last, page, run),
         \A t \in run \ run2 : Done(o, t)'
  PROVE  Ahead(o, last, page, run2)' /\ Mined(last, page)'
<1>1. \A u \in page : osBlock'[u] = osBlock[u] BY DEF Mined, Grows
<1>2. Mined(last, page)'
  BY <1>1, TypeFacts DEF Mined, Grows
<1>3. ASSUME NEW t \in OsTx, o \in OwnersOf[t], osBlock'[t] # 0
      PROVE  \/ t \in page \cup run2
             \/ Done(o, t)'
             \/ (osBlock'[t] >= last /\ \A u \in page : osBlock'[u] <= osBlock'[t])
  <2>1. CASE osBlock'[t] = osBlock[t]
    <3>1. Done(o, t) => Done(o, t)' BY DEF Done, Grows
    <3>. QED BY <1>1, <1>3, <2>1, <3>1 DEF Ahead
  <2>2. CASE t \in osLate' BY <2>2 DEF Done
  <2>3. CASE osBlock'[t] = osTip + 1
    BY <1>1, <2>3, TypeFacts DEF Mined
  <2>. QED BY <2>1, <2>2, <2>3 DEF Grows
<1>. QED BY <1>2, <1>3 DEF Ahead

LEMMA MinedEmpty == \A last : Mined(last, {}) /\ Mined(last, {})'
BY DEF Mined

\* The heights in the log that a step leaves alone.
LEMMA HeightKept ==
  ASSUME OsInv, Grows, NEW o \in OsOwner, osHeight'[o] = osHeight[o]
  PROVE  HeightFine(o)'
<1>1. OsTypeOK /\ osHeight[o] \in Int /\ osHeight[o] <= osTip + 1
        /\ Ahead(o, osHeight[o], {}, {})
  BY DEF OsInv, OsTypeOK, HeightFine, OsHeights, NoScore
<1>2. \A h \in Int : h <= osTip + 1 /\ Ahead(o, h, {}, {}) => Ahead(o, h, {}, {})'
  BY <1>1, AheadKept, MinedEmpty
<1>3. PICK h \in Int : h = osHeight[o] BY <1>1
<1>4. Ahead(o, h, {}, {})' BY <1>1, <1>2, <1>3
<1>. QED BY <1>1, <1>3, <1>4, TypeFacts DEF HeightFine, Grows

\* What holds of a record of the loop or of a request holds after a step too.
LEMMA LoopGrown ==
  ASSUME OsTypeOK, Grows, NEW l \in LoopStates, LoopFine(l)
  PROVE  LoopFine(l)'
<1>1. l.todo \subseteq OsOwner \X OsHeights /\ l.last \in OsHeights /\ l.page \in SUBSET OsTx
        /\ l.owner \in OsOwner \cup {NoScore}
  BY DEF LoopStates
<1>2. OsHeights \subseteq Int BY TypeFacts DEF OsHeights
<1>3. ASSUME NEW e \in l.todo PROVE e[2] <= osTip' + 1 /\ Ahead(e[1], e[2], {}, {})'
  <2>1. e[1] \in OsOwner /\ e[2] \in Int /\ e[2] <= osTip + 1 /\ Ahead(e[1], e[2], {}, {})
    BY <1>1, <1>2 DEF LoopFine
  <2>2. PICK o \in OsOwner, h \in Int : o = e[1] /\ h = e[2] BY <2>1
  <2>3. h <= osTip + 1 /\ Ahead(o, h, {}, {}) BY <2>1, <2>2
  <2>4. Ahead(o, h, {}, {})' BY <2>2, <2>3, AheadKept, MinedEmpty
  <2>5. h <= osTip' + 1
    <3>1. osTip \in Nat BY TypeFacts
    <3>2. osTip' \in Nat /\ osTip <= osTip' BY DEF Grows
    <3>. QED BY <2>2, <2>3, <3>1, <3>2
  <2>. QED BY <2>2, <2>4, <2>5
<1>4. ASSUME l.owner # NoScore
      PROVE  Ahead(l.owner, l.last, l.page, {})' /\ Mined(l.last, l.page)'
  <2>1. l.owner \in OsOwner /\ l.last \in Int /\ l.last <= osTip + 1
          /\ Ahead(l.owner, l.last, l.page, {}) /\ Mined(l.last, l.page)
    BY <1>1, <1>2, <1>4 DEF LoopFine
  <2>. QED BY <1>1, <2>1, AheadKept
<1>5. l.last \in Int /\ osTip \in Int /\ osTip' \in Int /\ osTip <= osTip'
  <2>1. osTip \in Nat BY TypeFacts
  <2>2. osTip' \in Nat /\ osTip <= osTip' BY DEF Grows
  <2>3. l.last \in Int BY <1>1, <1>2
  <2>4. osTip' \in Int /\ osTip <= osTip' BY <2>2
  <2>. QED BY <2>1, <2>3, <2>4
<1>6. l.last <= osTip' + 1
  <2>1. l.last <= osTip + 1 BY DEF LoopFine
  <2>. QED BY <1>5, <2>1
<1>7. ASSUME l.at = "log", l.full PROVE l.last <= osTip'
  <2>1. l.last <= osTip BY <1>7 DEF LoopFine
  <2>. QED BY <1>5, <2>1
<1>8. (l.at \in {"queue", "log"} => l.owner # NoScore) /\ (l.at # "queue" => l.page = {})
  BY DEF LoopFine
<1>. QED BY <1>3, <1>4, <1>6, <1>7, <1>8 DEF LoopFine

LEMMA ReqGrown ==
  ASSUME OsTypeOK, Grows, NEW q \in ReqStates, ReqFine(q)
  PROVE  ReqFine(q)'
<1>1. q.last \in OsHeights /\ q.page \in SUBSET OsTx /\ q.owner \in OsOwner \cup {NoScore}
        /\ q.last \in Int
  BY TypeFacts DEF ReqStates, OsHeights
<1>2. ASSUME q.at \in {"fetch", "loop", "slot", "wait"}, ~q.err
      PROVE  Ahead(q.owner, q.last, q.page, q.run)' /\ Mined(q.last, q.page)'
  <2>1. q.owner \in OsOwner /\ q.last <= osTip + 1
          /\ Ahead(q.owner, q.last, q.page, q.run) /\ Mined(q.last, q.page)
    BY <1>1, <1>2 DEF ReqFine
  <2>. QED BY <1>1, <2>1, AheadKept
<1>3. q.last <= osTip' + 1 BY <1>1, TypeFacts DEF ReqFine, Grows
<1>. QED BY <1>2, <1>3 DEF ReqFine

\* A step of the environment or of the loop.
LEMMA LoopStep ==
  ASSUME OsInv, Grows, OsTypeOK', UNCHANGED osReq, \A o \in OsOwner : HeightFine(o)',
         NEW l \in LoopStates, osLoop' = l, LoopFine(l)'
  PROVE  OsInv'
<1>1. ASSUME NEW r \in Request PROVE ReqFine(osReq[r])'
  <2>1. PICK q \in ReqStates : q = osReq[r] BY DEF OsInv, OsTypeOK
  <2>2. ReqFine(q)' BY <2>1, ReqGrown DEF OsInv
  <2>. QED BY <2>1, <2>2
<1>. QED BY <1>1 DEF OsInv

\* A step of a request.
LEMMA ReqStep ==
  ASSUME OsInv, Grows, OsTypeOK', UNCHANGED osLoop, \A o \in OsOwner : HeightFine(o)',
         NEW r \in Request, NEW q \in ReqStates, Step(r, q), ReqFine(q)'
  PROVE  OsInv'
<1>1. ASSUME NEW p \in Request PROVE ReqFine(osReq[p])'
  <2>1. CASE p = r
    <3>1. osReq'[p] = q BY <2>1 DEF Step, OsInv, OsTypeOK
    <3>. QED BY <3>1
  <2>2. CASE p # r
    <3>1. PICK s \in ReqStates : s = osReq[p] BY DEF OsInv, OsTypeOK
    <3>2. osReq'[p] = s BY <2>2, <3>1 DEF Step, OsInv, OsTypeOK
    <3>3. ReqFine(s)' BY <3>1, ReqGrown DEF OsInv
    <3>. QED BY <3>2, <3>3
  <2>. QED BY <2>1, <2>2
<1>2. LoopFine(osLoop)'
  <2>1. PICK l \in LoopStates : l = osLoop BY DEF OsInv, OsTypeOK
  <2>2. LoopFine(l)' BY <2>1, LoopGrown DEF OsInv
  <2>. QED BY <2>1, <2>2
<1>. QED BY <1>1, <1>2 DEF OsInv

\* The type of what a step of a request wrote.
LEMMA ReqType ==
  ASSUME OsTypeOK, NEW r \in Request, NEW q \in ReqStates, Step(r, q)
  PROVE  osReq' \in [Request -> ReqStates]
BY DEF Step, OsTypeOK

LEMMA OsUseType ==
  ASSUME OsTypeOK, NEW b \in {"ask", "fault", "reorg"}, OsUse(b)
  PROVE  osLeft' \in [{"ask", "fault", "reorg"} -> Nat]
BY DEF OsUse, OsTypeOK

-----------------------------------------------------------------------------
\* Pages.

\* What a page leaves out is not below what it holds.
LEMMA FetchAhead ==
  ASSUME OsTypeOK, NEW o \in OsOwner, NEW from \in Int, Ahead(o, from, {}, {}),
         NEW p \in FetchOwnerTxns(o, from)
  PROVE  Ahead(o, from, p, {}) /\ Mined(from, p) /\ p \in SUBSET OsTx
<1>1. p \subseteq History(o, from)
        /\ \A t \in p, u \in History(o, from) \ p : osBlock[t] <= osBlock[u]
  BY DEF FetchOwnerTxns
<1>2. Mined(from, p) /\ p \in SUBSET OsTx BY <1>1, TypeFacts DEF Mined, History
<1>. QED BY <1>1, <1>2 DEF Ahead, History

\* The first transaction of a page is the new height; it is under way.
LEMMA FirstAhead ==
  ASSUME OsTypeOK, NEW o \in OsOwner, NEW last \in Int, NEW page \in SUBSET OsTx,
         NEW run \in SUBSET OsTx, Ahead(o, last, page, run), Mined(last, page),
         NEW t \in First(page)
  PROVE  /\ Higher(last, osBlock[t]) = osBlock[t]
         /\ t \in OsTx /\ osBlock[t] \in 1..osTip
         /\ Ahead(o, osBlock[t], page \ {t}, run \cup {t})
         /\ Mined(osBlock[t], page \ {t})
<1>1. t \in page /\ \A u \in page : osBlock[t] <= osBlock[u] BY DEF First
<1>2. osBlock[t] \in 1..osTip /\ osBlock[t] >= last BY <1>1, TypeFacts DEF Mined
<1>3. Higher(last, osBlock[t]) = osBlock[t] BY <1>2, TypeFacts DEF Higher
<1>4. Mined(osBlock[t], page \ {t}) BY <1>1 DEF Mined
<1>5. Ahead(o, osBlock[t], page \ {t}, run \cup {t})
  <2> SUFFICES ASSUME NEW u \in OsTx, o \in OwnersOf[u], osBlock[u] # 0
               PROVE  \/ u \in (page \ {t}) \cup (run \cup {t})
                      \/ Done(o, u)
                      \/ (osBlock[u] >= osBlock[t] /\ \A v \in page \ {t} : osBlock[v] <= osBlock[u])
    BY DEF Ahead
  <2>. QED BY <1>1 DEF Ahead
<1>. QED BY <1>1, <1>2, <1>3, <1>4, <1>5

-----------------------------------------------------------------------------
\* The heights that a step leaves alone stay fine.
LEMMA HeightsKept ==
  ASSUME OsInv, Grows, UNCHANGED osHeight
  PROVE  \A o \in OsOwner : HeightFine(o)'
BY HeightKept

\* A height of an owner is in the range of the loop's and the requests' heights.
LEMMA OwnerHeight ==
  ASSUME OsInv, NEW o \in OsOwner, osHeight[o] # NoScore
  PROVE  osHeight[o] \in OsHeights /\ osHeight[o] \in Int
           /\ osHeight[o] <= osTip + 1 /\ Ahead(o, osHeight[o], {}, {})
BY TypeFacts DEF OsInv, OsTypeOK, HeightFine, OsHeights

\* Steps that leave the chain and what is stored of transactions alone.
LEMMA Stays ==
  ASSUME OsTypeOK, UNCHANGED <<osTip, osBlock, osLate>>,
         osQueue \subseteq osQueue', osIngested \subseteq osIngested', osTies \subseteq osTies'
  PROVE  Grows
BY TypeFacts DEF Grows

\* A place is taken where there is one, and given back where one is held.
LEMMA LimiterFacts ==
  /\ 0 \in 0..Concurrency
  /\ \A n \in 0..Concurrency : n < Concurrency => n + 1 \in 0..Concurrency
  /\ \A n \in 0..Concurrency : n > 0 => n - 1 \in 0..Concurrency
BY OsConcurrencyAssumption

LEMMA IdleTypes ==
  OsTypeOK => LoopIdle \in LoopStates /\ ReqIdle \in ReqStates
                /\ (osTip \in Nat => LoopFine(LoopIdle) /\ ReqFine(ReqIdle))
<1> SUFFICES ASSUME OsTypeOK
             PROVE  LoopIdle \in LoopStates /\ ReqIdle \in ReqStates
                      /\ (osTip \in Nat => LoopFine(LoopIdle) /\ ReqFine(ReqIdle))
  OBVIOUS
<1>1. 0 \in OsHeights BY TypeFacts DEF OsHeights
<1>2. LoopIdle \in LoopStates BY <1>1 DEF LoopIdle, LoopStates
<1>3. ReqIdle \in ReqStates BY <1>1, LimiterFacts DEF ReqIdle, ReqStates, NoAcct
<1>4. ASSUME osTip \in Nat PROVE LoopFine(LoopIdle)
  BY <1>4, MinedEmpty DEF LoopFine, LoopIdle
<1>5. ASSUME osTip \in Nat PROVE ReqFine(ReqIdle) BY <1>5 DEF ReqFine, ReqIdle
<1>. QED BY <1>2, <1>3, <1>4, <1>5

-----------------------------------------------------------------------------
\* The chain.

LEMMA ExtendInv == ASSUME OsInv, OsExtend PROVE OsInv'
<1>1. OsTypeOK BY DEF OsInv
<1>2. Grows BY <1>1, TypeFacts DEF Grows, OsExtend
<1>3. OsTypeOK'
  <2>1. osTip' \in 0..OsMaxTip /\ osTip' = osTip + 1 BY <1>1, TypeFacts DEF OsExtend
  <2>2. osBlock' \in [OsTx -> 0..osTip']
    <3>1. PICK mined \in SUBSET {t \in OsTx : osBlock[t] = 0} :
            osBlock' = [t \in OsTx |-> IF t \in mined THEN osTip + 1 ELSE osBlock[t]]
      BY DEF OsExtend
    <3>. QED BY <1>1, <2>1, <3>1, TypeFacts
  <2>. QED BY <1>1, <2>1, <2>2 DEF OsTypeOK, OsExtend
<1>4. PICK l \in LoopStates : l = osLoop BY <1>1 DEF OsTypeOK
<1>5. LoopFine(l)' BY <1>1, <1>2, <1>4, LoopGrown DEF OsInv
<1>6. osLoop' = l /\ UNCHANGED <<osReq, osHeight>> BY <1>4 DEF OsExtend
<1>. QED BY <1>2, <1>3, <1>5, <1>6, HeightsKept, LoopStep

LEMMA ReorgInv == ASSUME OsInv, OsReorg PROVE OsInv'
<1>1. OsTypeOK BY DEF OsInv
<1>2. PICK t \in OsTx : osBlock[t] = 0 /\ osBlock' = [osBlock EXCEPT ![t] = osTip]
                          /\ osLate' = osLate \cup {t}
  BY DEF OsReorg
<1>3. Grows BY <1>1, <1>2, TypeFacts DEF Grows, OsReorg, OsTypeOK
<1>4. OsTypeOK'
  <2>1. osLeft' \in [{"ask", "fault", "reorg"} -> Nat] BY <1>1, OsUseType DEF OsReorg
  <2>2. osBlock' \in [OsTx -> 0..osTip'] BY <1>1, <1>2, TypeFacts DEF OsReorg, OsTypeOK
  <2>. QED BY <1>1, <1>2, <2>1, <2>2 DEF OsTypeOK, OsReorg
<1>5. PICK l \in LoopStates : l = osLoop BY <1>1 DEF OsTypeOK
<1>6. LoopFine(l)' BY <1>1, <1>3, <1>5, LoopGrown DEF OsInv
<1>7. osLoop' = l /\ UNCHANGED <<osReq, osHeight>> BY <1>5 DEF OsReorg
<1>. QED BY <1>3, <1>4, <1>6, <1>7, HeightsKept, LoopStep

-----------------------------------------------------------------------------
\* The sync loop.

LEMMA LoopSearchInv == ASSUME OsInv, LoopSearch PROVE OsInv'
<1>1. OsTypeOK BY DEF OsInv
<1>2. PICK l \in LoopStates : l = osLoop BY <1>1 DEF OsTypeOK
<1> DEFINE todo == {<<o, osHeight[o]>> : o \in Synced}
           k == [l EXCEPT !.at = "fetch", !.todo = todo, !.owner = NoScore]
<1>3. todo \subseteq OsOwner \X OsHeights BY OwnerHeight DEF Synced
<1>4. k \in LoopStates BY <1>3 DEF LoopStates
<1>5. Grows BY <1>1, Stays DEF LoopSearch, loopOnly, osChain
<1>6. OsTypeOK' BY <1>1, <1>2, <1>4 DEF OsTypeOK, LoopSearch, loopOnly, osChain
<1>7. LoopFine(k)
  <2>1. \A e \in todo : e[2] <= osTip + 1 /\ Ahead(e[1], e[2], {}, {})
    BY OwnerHeight DEF Synced
  <2>2. k.at = "fetch" /\ k.todo = todo /\ k.owner = NoScore /\ k.last = l.last
          /\ k.page = l.page
    BY DEF LoopStates
  <2>3. l.last <= osTip + 1 /\ l.page = {} BY <1>2 DEF OsInv, LoopFine, LoopSearch
  <2>. HIDE DEF todo, k
  <2>. QED BY <2>1, <2>2, <2>3 DEF LoopFine
<1>8. osLoop' = k /\ UNCHANGED <<osReq, osHeight>> BY <1>2 DEF LoopSearch, loopOnly
<1>. HIDE DEF k
<1>9. PICK m \in LoopStates : m = k BY <1>4
<1>10. LoopFine(m)' BY <1>1, <1>5, <1>7, <1>9, LoopGrown
<1>11. osLoop' = m BY <1>8, <1>9
<1>. QED BY <1>5, <1>6, <1>8, <1>9, <1>10, <1>11, HeightsKept, LoopStep

LEMMA LoopOwnerInv == ASSUME OsInv, LoopOwner PROVE OsInv'
<1>1. OsTypeOK BY DEF OsInv
<1>2. PICK l \in LoopStates : l = osLoop BY <1>1 DEF OsTypeOK
<1>3. LoopFine(l) /\ l.at = "fetch" /\ l.owner = NoScore BY <1>2 DEF OsInv, LoopOwner
<1>4. Grows BY <1>1, Stays DEF LoopOwner, loopOnly, osChain
<1>5. UNCHANGED <<osReq, osHeight>> BY DEF LoopOwner, loopOnly
<1>6. \E k \in LoopStates : osLoop' = k /\ LoopFine(k)
  <2>1. CASE l.todo = {}
    BY <1>1, <1>2, <2>1, IdleTypes, TypeFacts DEF LoopOwner
  <2>2. CASE l.todo # {}
    <3>1. PICK e \in l.todo :
            osLoop' = IF e[1] \in osRefused THEN [l EXCEPT !.todo = @ \ {e}]
                      ELSE [l EXCEPT !.owner = e[1], !.last = e[2], !.todo = @ \ {e}]
      BY <1>2, <2>2 DEF LoopOwner
    <3>2. e[1] \in OsOwner /\ e[2] \in OsHeights /\ e[2] <= osTip + 1
            /\ Ahead(e[1], e[2], {}, {}) /\ l.page = {}
      BY <1>3 DEF LoopFine, LoopStates
    <3>3. CASE e[1] \in osRefused
      <4> DEFINE k == [l EXCEPT !.todo = @ \ {e}]
      <4>1. k \in LoopStates /\ k.todo \subseteq l.todo /\ k.at = l.at /\ k.owner = l.owner
              /\ k.last = l.last /\ k.page = l.page /\ k.full = l.full
        BY DEF LoopStates
      <4>2. osLoop' = k BY <3>1, <3>3
      <4>. HIDE DEF k
      <4>3. LoopFine(k) BY <1>3, <4>1 DEF LoopFine
      <4>. QED BY <4>1, <4>2, <4>3
    <3>4. CASE e[1] \notin osRefused
      <4> DEFINE k == [l EXCEPT !.owner = e[1], !.last = e[2], !.todo = @ \ {e}]
      <4>1. k \in LoopStates /\ k.todo \subseteq l.todo /\ k.at = "fetch" /\ k.owner = e[1]
              /\ k.last = e[2] /\ k.page = {}
        BY <1>3, <3>2 DEF LoopStates
      <4>2. osLoop' = k BY <3>1, <3>4
      <4>. HIDE DEF k
      <4>3. LoopFine(k) BY <1>3, <3>2, <4>1, MinedEmpty DEF LoopFine
      <4>. QED BY <4>1, <4>2, <4>3
    <3>. QED BY <3>3, <3>4
  <2>. QED BY <2>1, <2>2
<1>7. PICK k \in LoopStates : osLoop' = k /\ LoopFine(k) BY <1>6
<1>8. OsTypeOK' BY <1>1, <1>7 DEF OsTypeOK, LoopOwner, loopOnly, osChain
<1>9. LoopFine(k)' BY <1>1, <1>4, <1>7, LoopGrown
<1>. QED BY <1>4, <1>5, <1>7, <1>8, <1>9, HeightsKept, LoopStep

LEMMA LoopFetchInv == ASSUME OsInv, LoopFetch PROVE OsInv'
<1>1. OsTypeOK BY DEF OsInv
<1>2. PICK l \in LoopStates : l = osLoop BY <1>1 DEF OsTypeOK
<1>3. LoopFine(l) /\ l.at = "fetch" /\ l.owner # NoScore BY <1>2 DEF OsInv, LoopFetch
<1>4. l.owner \in OsOwner /\ l.last \in Int /\ l.last <= osTip + 1 /\ l.page = {}
        /\ Ahead(l.owner, l.last, {}, {})
  BY <1>1, <1>3, TypeFacts DEF LoopFine, LoopStates, OsHeights
<1>5. Grows BY <1>1, Stays DEF LoopFetch, loopOnly, osChain
<1>6. UNCHANGED <<osReq, osHeight>> BY DEF LoopFetch, loopOnly
<1>7. PICK p \in FetchOwnerTxns(l.owner, l.last) :
        osLoop' = [l EXCEPT !.at = AfterQueue(p), !.page = p, !.full = Cardinality(p) >= osPage]
  BY <1>2 DEF LoopFetch
<1>8. Ahead(l.owner, l.last, p, {}) /\ Mined(l.last, p) /\ p \in SUBSET OsTx
  BY <1>1, <1>4, FetchAhead
<1>9. p = {} => ~(Cardinality(p) >= osPage) BY <1>1, TypeFacts, FS_EmptySet
<1> DEFINE b == Cardinality(p) >= osPage
           k == [l EXCEPT !.at = AfterQueue(p), !.page = p, !.full = b]
<1>10. k \in LoopStates /\ k.at = (IF p = {} THEN "log" ELSE "queue") /\ k.page = p
         /\ k.full = b /\ k.owner = l.owner /\ k.last = l.last /\ k.todo = l.todo
  <2>1. b \in BOOLEAN OBVIOUS
  <2>. HIDE DEF b
  <2>. QED BY <1>8, <2>1 DEF LoopStates, AfterQueue
<1>11. p = {} => ~b BY <1>9
<1>12. osLoop' = k BY <1>7
<1>. HIDE DEF k, b
<1>13. LoopFine(k) BY <1>3, <1>4, <1>8, <1>10, <1>11 DEF LoopFine
<1>14. OsTypeOK' BY <1>1, <1>10, <1>12 DEF OsTypeOK, LoopFetch, loopOnly, osChain
<1>15. PICK m \in LoopStates : m = k BY <1>10
<1>16. LoopFine(m)' BY <1>1, <1>5, <1>13, <1>15, LoopGrown
<1>17. osLoop' = m BY <1>12, <1>15
<1>. QED BY <1>5, <1>6, <1>14, <1>15, <1>16, <1>17, HeightsKept, LoopStep

\* A transaction of the page is queued: what was under way is done.
LEMMA LoopQueueInv == ASSUME OsInv, LoopQueue PROVE OsInv'
<1>1. OsTypeOK BY DEF OsInv
<1>2. PICK l \in LoopStates : l = osLoop BY <1>1 DEF OsTypeOK
<1>3. LoopFine(l) /\ l.at = "queue" /\ l.owner # NoScore
  BY <1>2 DEF OsInv, LoopQueue, LoopFine
<1>4. l.owner \in OsOwner /\ l.last \in Int /\ l.page \in SUBSET OsTx
        /\ Ahead(l.owner, l.last, l.page, {}) /\ Mined(l.last, l.page)
  BY <1>1, <1>3, TypeFacts DEF LoopFine, LoopStates, OsHeights
<1>5. PICK t \in First(l.page) :
        /\ osLoop' = [l EXCEPT !.at = AfterQueue(l.page \ {t}), !.page = @ \ {t},
                               !.last = Higher(@, osBlock[t])]
        /\ osQueue' = IF t \in osIngested THEN osQueue ELSE osQueue \cup {t}
  BY <1>2 DEF LoopQueue
<1>6. /\ Higher(l.last, osBlock[t]) = osBlock[t]
      /\ t \in OsTx /\ osBlock[t] \in 1..osTip
      /\ Ahead(l.owner, osBlock[t], l.page \ {t}, {t})
      /\ Mined(osBlock[t], l.page \ {t})
  <2>1. {} \in SUBSET OsTx /\ {} \cup {t} = {t} /\ t \in First(l.page) OBVIOUS
  <2>2. PICK h \in Int : h = l.last BY <1>4
  <2>3. PICK page \in SUBSET OsTx : page = l.page BY <1>4
  <2>4. PICK o \in OsOwner : o = l.owner BY <1>4
  <2>5. Ahead(o, h, page, {}) /\ Mined(h, page) /\ t \in First(page)
    BY <1>4, <2>1, <2>2, <2>3, <2>4
  <2>6. \A x \in SUBSET OsTx : Ahead(o, h, page, x) =>
          /\ Higher(h, osBlock[t]) = osBlock[t]
          /\ t \in OsTx /\ osBlock[t] \in 1..osTip
          /\ Ahead(o, osBlock[t], page \ {t}, x \cup {t})
          /\ Mined(osBlock[t], page \ {t})
    BY <1>1, <2>5, FirstAhead
  <2>. QED BY <2>1, <2>2, <2>3, <2>4, <2>5, <2>6
<1>7. UNCHANGED <<osTip, osBlock, osLate, osIngested, osTies, osReq, osHeight>>
        /\ osQueue \subseteq osQueue' /\ osQueue' \subseteq OsTx
  BY <1>1, <1>5, <1>6 DEF LoopQueue, loopOnly, osChain, OsTypeOK
<1>8. Grows BY <1>1, <1>7, Stays
<1> DEFINE rest == l.page \ {t}
<1>9. PICK h \in Int : h = osBlock[t] /\ h \in 1..osTip BY <1>6
<1>10. Ahead(l.owner, h, rest, {})' /\ Mined(h, rest)'
  <2>1. \A u \in {t} \ {} : Done(l.owner, u)' BY <1>5, <1>7 DEF Done
  <2>2. h <= osTip + 1 BY <1>1, <1>9, TypeFacts
  <2>3. rest \in SUBSET OsTx BY <1>4
  <2>4. Ahead(l.owner, h, rest, {t}) /\ Mined(h, rest) BY <1>6, <1>9
  <2>. HIDE DEF rest
  <2>. QED BY <1>1, <1>4, <1>8, <1>9, <2>1, <2>2, <2>3, <2>4, AheadKept
<1> DEFINE k == [l EXCEPT !.at = AfterQueue(rest), !.page = rest, !.last = h]
<1>11. osLoop' = k BY <1>5, <1>6, <1>9
<1>12. k \in LoopStates /\ k.at = (IF rest = {} THEN "log" ELSE "queue") /\ k.page = rest
         /\ k.full = l.full /\ k.owner = l.owner /\ k.last = h /\ k.todo = l.todo
  <2>1. h \in OsHeights BY <1>1, <1>9, TypeFacts DEF OsHeights
  <2>. QED BY <1>4, <2>1 DEF LoopStates, AfterQueue
<1>13. OsTypeOK' BY <1>1, <1>7, <1>11, <1>12 DEF OsTypeOK, LoopQueue, loopOnly, osChain
<1>14. LoopFine(l)' BY <1>1, <1>3, <1>8, LoopGrown
<1>15. h <= osTip' BY <1>1, <1>7, <1>9, TypeFacts
<1>. HIDE DEF k, rest
<1>16. LoopFine(k)'
  <2>1. k.last <= osTip' + 1 /\ k.last <= osTip' BY <1>1, <1>7, <1>9, <1>12, <1>15, TypeFacts
  <2>2. \A e \in k.todo : e[2] <= osTip' + 1 /\ Ahead(e[1], e[2], {}, {})'
    BY <1>12, <1>14 DEF LoopFine
  <2>3. Ahead(k.owner, k.last, k.page, {})' /\ Mined(k.last, k.page)' BY <1>10, <1>12
  <2>4. k.owner # NoScore BY <1>3, <1>12
  <2>5. k.at # "queue" => k.page = {} BY <1>12
  <2>. QED BY <2>1, <2>2, <2>3, <2>4, <2>5 DEF LoopFine
<1>17. PICK m \in LoopStates : m = k BY <1>12
<1>. QED BY <1>7, <1>8, <1>11, <1>13, <1>16, <1>17, HeightsKept, LoopStep

\* The height of the owner is stored; after a full page the transactions of its
\* last block that are not done become ties.
LEMMA LoopLogInv == ASSUME OsInv, LoopLog PROVE OsInv'
<1>1. OsTypeOK BY DEF OsInv
<1>2. PICK l \in LoopStates : l = osLoop BY <1>1 DEF OsTypeOK
<1>3. LoopFine(l) /\ l.at = "log" /\ l.owner # NoScore BY <1>2 DEF OsInv, LoopLog, LoopFine
<1>4. l.owner \in OsOwner /\ l.last \in Int /\ l.last \in OsHeights /\ l.page = {}
        /\ l.last <= osTip + 1 /\ Ahead(l.owner, l.last, {}, {})
  BY <1>1, <1>3, TypeFacts DEF LoopFine, LoopStates, OsHeights
<1>5. UNCHANGED <<osTip, osBlock, osLate, osIngested, osQueue, osReq>>
        /\ osTies \subseteq osTies' /\ osTies' \subseteq OsOwner \X OsTx
        /\ osHeight' = [osHeight EXCEPT ![l.owner] = l.last]
  BY <1>1, <1>2, <1>4 DEF LoopLog, loopOnly, osChain, OsTypeOK, History
<1>6. Grows BY <1>1, <1>5, Stays
<1>7. \A h \in Int : h <= osTip + 1 /\ Ahead(l.owner, h, {}, {}) => Ahead(l.owner, h, {}, {})'
  BY <1>1, <1>4, <1>6, AheadKept, MinedEmpty
<1>8. ASSUME NEW o \in OsOwner PROVE HeightFine(o)'
  <2>1. CASE o = l.owner
    <3>1. osHeight'[o] = l.last BY <1>1, <1>5, <2>1 DEF OsTypeOK
    <3>2. Ahead(o, l.last, {}, {})' /\ l.last <= osTip' + 1 BY <1>4, <1>5, <1>7, <2>1
    <3>. QED BY <3>1, <3>2 DEF HeightFine
  <2>2. CASE o # l.owner
    <3>1. osHeight'[o] = osHeight[o] BY <1>1, <1>5, <2>2 DEF OsTypeOK
    <3>. QED BY <1>6, <3>1, HeightKept
  <2>. QED BY <2>1, <2>2
<1>9. LoopFine(l)' BY <1>1, <1>3, <1>6, LoopGrown
<1>10. \E k \in LoopStates : osLoop' = k /\ LoopFine(k)'
  <2>1. CASE l.full
    <3>1. l.last <= osTip /\ osTip \in Nat BY <1>1, <1>3, <2>1, TypeFacts DEF LoopFine
    <3>2. osLoop' = [l EXCEPT !.at = "fetch", !.last = @ + 1]
            /\ osTies' = osTies \cup ({l.owner} \X
                 {t \in History(l.owner, l.last) \ (osQueue \cup osIngested) :
                    osBlock[t] = l.last})
      BY <1>2, <2>1 DEF LoopLog
    <3>3. PICK h \in Int : h = l.last + 1 BY <1>4
    <3> DEFINE k == [l EXCEPT !.at = "fetch", !.last = h]
    <3>4. h \in OsHeights /\ h <= osTip' + 1
      BY <1>1, <1>4, <1>5, <3>1, <3>3, TypeFacts DEF OsHeights
    <3>5. k \in LoopStates /\ k.at = "fetch" /\ k.last = h /\ k.owner = l.owner
            /\ k.page = {} /\ k.todo = l.todo
      BY <1>4, <3>4 DEF LoopStates
    <3>6. Ahead(l.owner, h, {}, {})'
      <4> SUFFICES ASSUME NEW t \in OsTx, l.owner \in OwnersOf[t], osBlock[t] # 0
                   PROVE  Done(l.owner, t)' \/ osBlock[t] >= h
        BY <1>5 DEF Ahead
      <4>1. Done(l.owner, t) => Done(l.owner, t)' BY <1>5 DEF Done
      <4>2. Done(l.owner, t) \/ osBlock[t] >= l.last BY <1>4 DEF Ahead
      <4>3. CASE osBlock[t] = l.last /\ ~Done(l.owner, t)
        <5>1. t \in History(l.owner, l.last) \ (osQueue \cup osIngested)
          BY <4>2, <4>3 DEF History, Done
        <5>2. <<l.owner, t>> \in osTies' BY <3>2, <4>3, <5>1
        <5>. QED BY <5>2 DEF Done
      <4>4. CASE osBlock[t] # l.last /\ ~Done(l.owner, t)
        <5>1. osBlock[t] \in Int BY <1>1, TypeFacts
        <5>. QED BY <1>4, <3>3, <4>2, <4>4, <5>1
      <4>. QED BY <4>1, <4>3, <4>4
    <3>7. osLoop' = k BY <3>2, <3>3
    <3>. HIDE DEF k
    <3>8. LoopFine(k)' BY <1>9, <3>4, <3>5, <3>6, MinedEmpty DEF LoopFine
    <3>. QED BY <3>5, <3>7, <3>8
  <2>2. CASE ~l.full
    <3> DEFINE k == [LoopIdle EXCEPT !.at = "fetch", !.todo = l.todo]
    <3>1. k \in LoopStates /\ k.at = "fetch" /\ k.last = 0 /\ k.owner = NoScore
            /\ k.page = {} /\ k.todo = l.todo
      <4>1. LoopIdle \in LoopStates /\ LoopIdle.owner = NoScore /\ LoopIdle.last = 0
              /\ LoopIdle.page = {}
        BY <1>1, IdleTypes DEF LoopIdle
      <4>2. l.todo \in SUBSET (OsOwner \X OsHeights) BY DEF LoopStates
      <4>. QED BY <4>1, <4>2 DEF LoopStates
    <3>2. osLoop' = k BY <1>2, <2>2 DEF LoopLog
    <3>. HIDE DEF k
    <3>3. 0 <= osTip' + 1 BY <1>1, <1>5, TypeFacts
    <3>4. LoopFine(k)' BY <1>9, <3>1, <3>3 DEF LoopFine
    <3>. QED BY <3>1, <3>2, <3>4
  <2>. QED BY <2>1, <2>2
<1>11. PICK k \in LoopStates : osLoop' = k /\ LoopFine(k)' BY <1>10
<1>12. OsTypeOK'
  <2>1. osHeight' \in [OsOwner -> OsHeights \cup {NoScore}] BY <1>1, <1>4, <1>5 DEF OsTypeOK
  <2>. QED BY <1>1, <1>5, <1>11, <2>1 DEF OsTypeOK, LoopLog, loopOnly, osChain
<1>. QED BY <1>5, <1>6, <1>8, <1>11, <1>12, LoopStep

LEMMA LoopRestartInv == ASSUME OsInv, LoopPanic \/ LoopStart PROVE OsInv'
<1>1. OsTypeOK BY DEF OsInv
<1>2. UNCHANGED <<osTip, osBlock, osLate, osIngested, osQueue, osTies, osReq, osHeight>>
  BY DEF LoopPanic, LoopStart, loopOnly, osChain
<1>3. Grows BY <1>1, <1>2, Stays
<1>4. PICK k \in LoopStates : osLoop' = k /\ LoopFine(k)
  <2>1. LoopIdle \in LoopStates /\ LoopFine(LoopIdle) BY <1>1, IdleTypes, TypeFacts
  <2> DEFINE k == [LoopIdle EXCEPT !.at = "down"]
  <2>2. k \in LoopStates /\ k.at = "down" /\ k.last = LoopIdle.last /\ k.page = {}
          /\ k.owner = NoScore /\ k.todo = {}
    BY <2>1 DEF LoopStates, LoopIdle
  <2>3. osLoop' = k \/ osLoop' = LoopIdle BY DEF LoopPanic, LoopStart
  <2>. HIDE DEF k
  <2>4. LoopFine(k) BY <2>1, <2>2 DEF LoopFine
  <2>. QED BY <2>1, <2>2, <2>3, <2>4
<1>5. OsTypeOK'
  <2>1. osLeft' \in [{"ask", "fault", "reorg"} -> Nat]
    BY <1>1, OsUseType DEF LoopPanic, LoopStart, OsTypeOK
  <2>. QED BY <1>1, <1>2, <1>4, <2>1 DEF OsTypeOK, LoopPanic, LoopStart, loopOnly, osChain
<1>6. LoopFine(k)' BY <1>1, <1>3, <1>4, LoopGrown
<1>. QED BY <1>2, <1>3, <1>4, <1>5, <1>6, HeightsKept, LoopStep

-----------------------------------------------------------------------------
\* Requests.

reqStays == UNCHANGED <<osTip, osBlock, osLate, osQueue, osTies, osLoop>>

\* A step of a request that leaves the heights alone.
LEMMA ReqQuiet ==
  ASSUME OsInv, reqStays, osIngested \subseteq osIngested', OsTypeOK', UNCHANGED osHeight,
         NEW r \in Request, NEW q \in ReqStates, Step(r, q), ReqFine(q)'
  PROVE  OsInv'
<1>1. Grows BY Stays DEF OsInv, reqStays
<1>. QED BY <1>1, HeightsKept, ReqStep DEF reqStays

\* The same when what the request computed holds before the step.
LEMMA ReqCalm ==
  ASSUME OsInv, reqStays, osIngested \subseteq osIngested', OsTypeOK', UNCHANGED osHeight,
         NEW r \in Request, NEW q \in ReqStates, Step(r, q), ReqFine(q)
  PROVE  OsInv'
<1>1. Grows /\ OsTypeOK BY Stays DEF OsInv, reqStays
<1>2. ReqFine(q)' BY <1>1, ReqGrown
<1>. QED BY <1>2, ReqQuiet

LEMMA AskInv == ASSUME OsInv, NEW r \in Request, Ask(r) PROVE OsInv'
<1>1. OsTypeOK BY DEF OsInv
<1>2. ReqIdle \in ReqStates /\ ReqIdle.at = "idle" /\ ReqIdle.last = 0 /\ ReqIdle.run = {}
        /\ ReqIdle.page = {} /\ ReqIdle.err = FALSE /\ 0 <= osTip + 1
  BY <1>1, IdleTypes, TypeFacts DEF ReqIdle
<1>3. PICK q \in ReqStates : Step(r, q) /\ ReqFine(q)
  <2>1. ASSUME NEW a \in OsAcct, NEW new \in SUBSET OsOwner,
               Step(r, [ReqIdle EXCEPT !.at = "update", !.acct = a, !.new = new])
        PROVE  \E q \in ReqStates : Step(r, q) /\ ReqFine(q)
    <3> DEFINE q == [ReqIdle EXCEPT !.at = "update", !.acct = a, !.new = new]
    <3>1. q \in ReqStates /\ q.at = "update" /\ q.acct = a /\ q.last = 0 /\ q.run = {}
            /\ q.page = {} /\ q.err = FALSE
      BY <1>2 DEF ReqStates
    <3>2. Step(r, q) BY <2>1
    <3>. HIDE DEF q
    <3>3. ReqFine(q) BY <1>2, <3>1 DEF ReqFine
    <3>. QED BY <3>1, <3>2, <3>3
  <2>2. ASSUME NEW a \in OsAcct, Step(r, [ReqIdle EXCEPT !.at = "owners", !.acct = a])
        PROVE  \E q \in ReqStates : Step(r, q) /\ ReqFine(q)
    <3> DEFINE q == [ReqIdle EXCEPT !.at = "owners", !.acct = a]
    <3>1. q \in ReqStates /\ q.at = "owners" /\ q.last = 0 /\ q.run = {}
            /\ q.page = {} /\ q.err = FALSE
      BY <1>2 DEF ReqStates
    <3>2. Step(r, q) BY <2>2
    <3>. HIDE DEF q
    <3>3. ReqFine(q) BY <1>2, <3>1 DEF ReqFine
    <3>. QED BY <3>1, <3>2, <3>3
  <2>3. ASSUME NEW o \in OsOwner, Step(r, [ReqIdle EXCEPT !.at = "next", !.todo = {o}])
        PROVE  \E q \in ReqStates : Step(r, q) /\ ReqFine(q)
    <3> DEFINE q == [ReqIdle EXCEPT !.at = "next", !.todo = {o}]
    <3>1. q \in ReqStates /\ q.at = "next" /\ q.last = 0 /\ q.run = {}
            /\ q.page = {} /\ q.err = FALSE
      BY <1>2 DEF ReqStates
    <3>2. Step(r, q) BY <2>3
    <3>. HIDE DEF q
    <3>3. ReqFine(q) BY <1>2, <3>1 DEF ReqFine
    <3>. QED BY <3>1, <3>2, <3>3
  <2>. QED BY <2>1, <2>2, <2>3 DEF Ask
<1>4. UNCHANGED <<osChain, osMember, osHeight, osQueue, osIngested, osLoop, osTies, osCut>>
  BY DEF Ask, reqOnly
<1>5. osLeft' \in [{"ask", "fault", "reorg"} -> Nat] BY <1>1, OsUseType DEF Ask
<1>6. osReq' \in [Request -> ReqStates] BY <1>1, <1>3, ReqType
<1>7. OsTypeOK' BY <1>1, <1>4, <1>5, <1>6 DEF OsTypeOK, osChain
<1>. QED BY <1>3, <1>4, <1>7, ReqCalm DEF reqStays, osChain

\* The registrations: a new owner starts at height 0.
LEMMA ZeroFine ==
  ASSUME OsTypeOK, NEW o \in OsOwner PROVE Ahead(o, 0, {}, {})
BY TypeFacts DEF Ahead

LEMMA RegisterInv ==
  ASSUME OsInv, reqStays, UNCHANGED osIngested, OsTypeOK',
         \A o \in OsOwner : osHeight'[o] = osHeight[o] \/ osHeight'[o] = 0,
         NEW r \in Request, NEW q \in ReqStates, Step(r, q), ReqFine(q)
  PROVE  OsInv'
<1>1. Grows /\ OsTypeOK BY Stays DEF OsInv, reqStays
<1>2. ReqFine(q)' BY <1>1, ReqGrown
<1>3. ASSUME NEW o \in OsOwner PROVE HeightFine(o)'
  <2>1. CASE osHeight'[o] = osHeight[o] BY <1>1, <2>1, HeightKept
  <2>2. CASE osHeight'[o] = 0
    <3>1. osTip \in Nat /\ Ahead(o, 0, {}, {}) BY <1>1, ZeroFine, TypeFacts
    <3>2. 0 <= osTip' + 1 BY <3>1 DEF reqStays
    <3>3. 0 \in Int /\ 0 <= osTip + 1 BY <3>1
    <3>4. Ahead(o, 0, {}, {})' BY <1>1, <3>1, <3>3, AheadKept, MinedEmpty
    <3>. QED BY <2>2, <3>2, <3>4 DEF HeightFine
  <2>. QED BY <2>1, <2>2
<1>. QED BY <1>1, <1>2, <1>3, ReqStep DEF reqStays

LEMMA UpdateRedisInv == ASSUME OsInv, NEW r \in Request, UpdateRedis(r) PROVE OsInv'
<1>1. OsTypeOK BY DEF OsInv
<1>2. PICK q \in ReqStates : q = osReq[r] BY <1>1 DEF OsTypeOK
<1>3. ReqFine(q) /\ q.at = "update" BY <1>2 DEF OsInv, UpdateRedis
<1> DEFINE k == [q EXCEPT !.at = "owners", !.new = {}]
<1>4. k \in ReqStates /\ k.at = "owners" /\ k.last = q.last /\ k.run = q.run
        /\ k.page = q.page /\ k.err = q.err
  BY DEF ReqStates
<1>5. Step(r, k) BY <1>2 DEF UpdateRedis
<1>. HIDE DEF k
<1>6. ReqFine(k) BY <1>3, <1>4 DEF ReqFine
<1>7. UNCHANGED <<osChain, osQueue, osIngested, osLoop, osTies, osCut, osLeft>>
  BY DEF UpdateRedis, reqOnly
<1>8. /\ osMember' \subseteq OsOwner \X OsAcct
      /\ osHeight' \in [OsOwner -> OsHeights \cup {NoScore}]
      /\ \A o \in OsOwner : osHeight'[o] = osHeight[o] \/ osHeight'[o] = 0
  <2>1. q.new \subseteq OsOwner /\ q.acct \in OsAcct BY <1>3 DEF ReqFine, ReqStates
  <2>2. 0 \in OsHeights BY <1>1, TypeFacts DEF OsHeights
  <2>. QED BY <1>1, <1>2, <2>1, <2>2 DEF UpdateRedis, OsTypeOK
<1>9. OsTypeOK'
  <2>1. osReq' \in [Request -> ReqStates] BY <1>1, <1>4, <1>5, ReqType
  <2>. QED BY <1>1, <1>7, <1>8, <2>1 DEF OsTypeOK, osChain
<1>10. reqStays BY <1>7 DEF reqStays, osChain
<1>11. PICK m \in ReqStates : m = k BY <1>4
<1>. QED BY <1>5, <1>6, <1>7, <1>8, <1>9, <1>10, <1>11, RegisterInv

LEMMA UpsertOwnerInv == ASSUME OsInv, NEW r \in Request, UpsertOwner(r) PROVE OsInv'
<1>1. OsTypeOK BY DEF OsInv
<1>2. PICK q \in ReqStates : q = osReq[r] BY <1>1 DEF OsTypeOK
<1>3. ReqFine(q) /\ q.at = "update" /\ q.acct \in OsAcct BY <1>2 DEF OsInv, UpsertOwner, ReqFine
<1>4. PICK o \in q.new :
        /\ osMember' = (osMember \ ({o} \X OsAcct)) \cup {<<o, q.acct>>}
        /\ Step(r, [q EXCEPT !.at = "insert", !.owner = o, !.new = @ \ {o}])
  BY <1>2 DEF UpsertOwner
<1>5. o \in OsOwner /\ o # NoScore BY <1>1, TypeFacts DEF ReqStates
<1> DEFINE k == [q EXCEPT !.at = "insert", !.owner = o, !.new = @ \ {o}]
<1>6. k \in ReqStates /\ k.at = "insert" /\ k.last = q.last /\ k.run = q.run
        /\ k.page = q.page /\ k.err = q.err /\ k.acct = q.acct /\ k.owner = o
  BY <1>5 DEF ReqStates
<1>7. Step(r, k) BY <1>4
<1>. HIDE DEF k
<1>8. ReqFine(k) BY <1>3, <1>5, <1>6 DEF ReqFine
<1>9. UNCHANGED <<osChain, osHeight, osQueue, osIngested, osLoop, osTies, osCut, osLeft>>
  BY DEF UpsertOwner, reqOnly
<1>10. OsTypeOK'
  <2>1. osReq' \in [Request -> ReqStates] BY <1>1, <1>6, <1>7, ReqType
  <2>2. osMember' \subseteq OsOwner \X OsAcct BY <1>1, <1>3, <1>4, <1>5 DEF OsTypeOK
  <2>. QED BY <1>1, <1>9, <2>1, <2>2 DEF OsTypeOK, osChain
<1>11. reqStays BY <1>9 DEF reqStays, osChain
<1>12. PICK m \in ReqStates : m = k BY <1>6
<1>. QED BY <1>7, <1>8, <1>9, <1>10, <1>11, <1>12, ReqCalm

LEMMA LogOwnerInv == ASSUME OsInv, NEW r \in Request, LogOwner(r) PROVE OsInv'
<1>1. OsTypeOK BY DEF OsInv
<1>2. PICK q \in ReqStates : q = osReq[r] BY <1>1 DEF OsTypeOK
<1>3. ReqFine(q) /\ q.at = "insert" BY <1>2 DEF OsInv, LogOwner
<1> DEFINE w == IF q.new = {} THEN "owners" ELSE "update"
           k == [q EXCEPT !.owner = NoScore, !.at = w]
<1>4. k \in ReqStates /\ k.at \in {"owners", "update"} /\ k.last = q.last /\ k.run = q.run
        /\ k.page = q.page /\ k.err = q.err /\ k.acct = q.acct
  BY DEF ReqStates
<1>5. Step(r, k) BY <1>2 DEF LogOwner
<1>. HIDE DEF k
<1>6. ReqFine(k) BY <1>3, <1>4 DEF ReqFine
<1>7. UNCHANGED <<osChain, osMember, osQueue, osIngested, osLoop, osTies, osCut, osLeft>>
  BY DEF LogOwner, reqOnly
<1>8. /\ osHeight' \in [OsOwner -> OsHeights \cup {NoScore}]
      /\ \A o \in OsOwner : osHeight'[o] = osHeight[o] \/ osHeight'[o] = 0
  <2>1. 0 \in OsHeights BY <1>1, TypeFacts DEF OsHeights
  <2>. QED BY <1>1, <2>1 DEF LogOwner, Register, OsTypeOK
<1>9. OsTypeOK'
  <2>1. osReq' \in [Request -> ReqStates] BY <1>1, <1>4, <1>5, ReqType
  <2>. QED BY <1>1, <1>7, <1>8, <2>1 DEF OsTypeOK, osChain
<1>10. reqStays BY <1>7 DEF reqStays, osChain
<1>11. PICK m \in ReqStates : m = k BY <1>4
<1>. QED BY <1>5, <1>6, <1>7, <1>8, <1>9, <1>10, <1>11, RegisterInv

LEMMA SyncAcctInv == ASSUME OsInv, NEW r \in Request, SyncAcct(r) PROVE OsInv'
<1>1. OsTypeOK BY DEF OsInv
<1>2. PICK q \in ReqStates : q = osReq[r] BY <1>1 DEF OsTypeOK
<1>3. ReqFine(q) /\ q.at = "owners" BY <1>2 DEF OsInv, SyncAcct
<1> DEFINE ow == {o \in OsOwner : <<o, q.acct>> \in osMember}
           k == [q EXCEPT !.at = "next", !.todo = ow]
<1>4. k \in ReqStates /\ k.at = "next" /\ k.last = q.last /\ k.run = q.run
        /\ k.page = q.page /\ k.err = q.err
  <2>1. ow \in SUBSET OsOwner OBVIOUS
  <2>. HIDE DEF ow
  <2>. QED BY <2>1 DEF ReqStates
<1>5. Step(r, k) BY <1>2 DEF SyncAcct
<1>. HIDE DEF k
<1>6. ReqFine(k) BY <1>3, <1>4 DEF ReqFine
<1>7. UNCHANGED <<osChain, osMember, osHeight, osQueue, osIngested, osLoop, osTies, osCut, osLeft>>
  BY DEF SyncAcct, reqOnly
<1>8. OsTypeOK'
  <2>1. osReq' \in [Request -> ReqStates] BY <1>1, <1>4, <1>5, ReqType
  <2>. QED BY <1>1, <1>7, <2>1 DEF OsTypeOK, osChain
<1>9. reqStays BY <1>7 DEF reqStays, osChain
<1>10. PICK m \in ReqStates : m = k BY <1>4
<1>. QED BY <1>5, <1>6, <1>7, <1>8, <1>9, <1>10, ReqCalm

\* An owner without a height starts at 0.
LEMMA SyncOwnerInv == ASSUME OsInv, NEW r \in Request, SyncOwner(r) PROVE OsInv'
<1>1. OsTypeOK BY DEF OsInv
<1>2. PICK q \in ReqStates : q = osReq[r] BY <1>1 DEF OsTypeOK
<1>3. ReqFine(q) /\ q.at = "next" BY <1>2 DEF OsInv, SyncOwner
<1>4. PICK k \in ReqStates : Step(r, k) /\ ReqFine(k)
  <2>1. CASE q.todo = {}
    <3>1. Step(r, ReqIdle) BY <1>2, <2>1 DEF SyncOwner
    <3>. QED BY <1>1, <3>1, IdleTypes, TypeFacts
  <2>2. CASE q.todo # {}
    <3>1. PICK o \in q.todo :
            Step(r, [q EXCEPT !.at = "fetch", !.owner = o, !.todo = @ \ {o},
                              !.last = Higher(0, osHeight[o])])
      BY <1>2, <2>2 DEF SyncOwner
    <3>2. o \in OsOwner /\ o # NoScore BY <1>1, TypeFacts DEF ReqStates
    <3>3. PICK h \in Int : h = Higher(0, osHeight[o]) /\ h \in OsHeights
                            /\ h <= osTip + 1 /\ Ahead(o, h, {}, {})
      <4>1. CASE osHeight[o] = NoScore
        <5>1. Higher(0, osHeight[o]) = 0 BY <4>1 DEF Higher, NoScore
        <5>2. 0 \in OsHeights /\ 0 <= osTip + 1 BY <1>1, TypeFacts DEF OsHeights
        <5>. QED BY <1>1, <3>2, <5>1, <5>2, ZeroFine
      <4>2. CASE osHeight[o] # NoScore
        <5>1. osHeight[o] \in OsHeights /\ osHeight[o] \in Int
                /\ osHeight[o] <= osTip + 1 /\ Ahead(o, osHeight[o], {}, {})
          BY <3>2, <4>2, OwnerHeight
        <5>2. Higher(0, osHeight[o]) = osHeight[o] BY <1>1, <5>1, TypeFacts DEF Higher, OsHeights
        <5>. QED BY <5>1, <5>2
      <4>. QED BY <4>1, <4>2
    <3> DEFINE k == [q EXCEPT !.at = "fetch", !.owner = o, !.todo = @ \ {o}, !.last = h]
    <3>4. k \in ReqStates /\ k.at = "fetch" /\ k.last = h /\ k.run = q.run
            /\ k.page = q.page /\ k.err = q.err /\ k.owner = o
      BY <3>2, <3>3 DEF ReqStates
    <3>5. Step(r, k) BY <3>1, <3>3
    <3>. HIDE DEF k
    <3>6. q.run = {} /\ ~q.err /\ q.page = {} BY <1>3 DEF ReqFine
    <3>7. ReqFine(k) BY <3>2, <3>3, <3>4, <3>6, MinedEmpty DEF ReqFine
    <3>. QED BY <3>4, <3>5, <3>7
  <2>. QED BY <2>1, <2>2
<1>5. UNCHANGED <<osChain, osMember, osHeight, osQueue, osIngested, osLoop, osTies, osCut, osLeft>>
  BY DEF SyncOwner, reqOnly
<1>6. OsTypeOK'
  <2>1. osReq' \in [Request -> ReqStates] BY <1>1, <1>4, ReqType
  <2>. QED BY <1>1, <1>5, <2>1 DEF OsTypeOK, osChain
<1>7. reqStays BY <1>5 DEF reqStays, osChain
<1>. QED BY <1>4, <1>5, <1>6, <1>7, ReqCalm

LEMMA OwnerDoneFine ==
  ASSUME OsTypeOK, NEW q \in ReqStates, q.run = {}
  PROVE  OwnerDone(q) \in ReqStates /\ ReqFine(OwnerDone(q))
<1> DEFINE k == OwnerDone(q)
<1>1. 0 \in OsHeights /\ 0 <= osTip + 1 BY TypeFacts DEF OsHeights
<1>2. k \in ReqStates /\ k.at = "next" /\ k.last = 0 /\ k.run = {} /\ k.page = {}
        /\ k.err = FALSE
  BY <1>1, LimiterFacts DEF ReqStates, OwnerDone
<1>. HIDE DEF k
<1>3. ReqFine(k) BY <1>1, <1>2 DEF ReqFine
<1>. QED BY <1>2, <1>3 DEF k

LEMMA FetchInv == ASSUME OsInv, NEW r \in Request, Fetch(r) PROVE OsInv'
<1>1. OsTypeOK BY DEF OsInv
<1>2. PICK q \in ReqStates : q = osReq[r] BY <1>1 DEF OsTypeOK
<1>3. ReqFine(q) /\ q.at = "fetch" BY <1>2 DEF OsInv, Fetch
<1>4. q.run = {} /\ ~q.err /\ q.page = {} /\ q.owner # NoScore /\ q.last <= osTip + 1
        /\ Ahead(q.owner, q.last, {}, {})
  BY <1>3 DEF ReqFine
<1>5. PICK k \in ReqStates : Step(r, k) /\ ReqFine(k)
  <2>1. CASE Step(r, OwnerDone(q)) BY <1>1, <1>4, <2>1, OwnerDoneFine
  <2>2. CASE \E p \in FetchOwnerTxns(q.owner, q.last) :
               Step(r, [q EXCEPT !.at = "loop", !.page = p])
    <3>1. PICK p \in FetchOwnerTxns(q.owner, q.last) :
               Step(r, [q EXCEPT !.at = "loop", !.page = p])
      BY <2>2
    <3>2. q.owner \in OsOwner /\ q.last \in Int
      BY <1>1, <1>4, TypeFacts DEF ReqStates, OsHeights
    <3>3. Ahead(q.owner, q.last, p, {}) /\ Mined(q.last, p) /\ p \in SUBSET OsTx
      BY <1>1, <1>4, <3>1, <3>2, FetchAhead
    <3> DEFINE k == [q EXCEPT !.at = "loop", !.page = p]
    <3>4. k \in ReqStates /\ k.at = "loop" /\ k.last = q.last /\ k.run = {}
            /\ k.page = p /\ k.err = q.err /\ k.owner = q.owner
      BY <1>4, <3>3 DEF ReqStates
    <3>5. Step(r, k) BY <3>1
    <3>. HIDE DEF k
    <3>6. ReqFine(k) BY <1>4, <3>3, <3>4 DEF ReqFine
    <3>. QED BY <3>4, <3>5, <3>6
  <2>. QED BY <1>2, <2>1, <2>2 DEF Fetch
<1>6. UNCHANGED <<osChain, osMember, osHeight, osQueue, osIngested, osLoop, osTies, osCut>>
  BY DEF Fetch, reqOnly
<1>7. OsTypeOK'
  <2>1. osReq' \in [Request -> ReqStates] BY <1>1, <1>5, ReqType
  <2>2. osLeft' \in [{"ask", "fault", "reorg"} -> Nat] BY <1>1, OsUseType DEF Fetch, OsTypeOK
  <2>. QED BY <1>1, <1>6, <2>1, <2>2 DEF OsTypeOK, osChain
<1>8. reqStays BY <1>6 DEF reqStays, osChain
<1>. QED BY <1>5, <1>6, <1>7, <1>8, ReqCalm

LEMMA ScheduleInv == ASSUME OsInv, NEW r \in Request, Schedule(r) PROVE OsInv'
<1>1. OsTypeOK BY DEF OsInv
<1>2. PICK q \in ReqStates : q = osReq[r] BY <1>1 DEF OsTypeOK
<1>3. ReqFine(q) /\ q.at = "loop" BY <1>2 DEF OsInv, Schedule
<1> DEFINE k == [q EXCEPT !.at = "slot"]
<1>4. k \in ReqStates /\ k.at = "slot" /\ k.last = q.last /\ k.run = q.run
        /\ k.page = q.page /\ k.err = q.err /\ k.owner = q.owner
  BY DEF ReqStates
<1>5. Step(r, k) BY <1>2 DEF Schedule
<1>. HIDE DEF k
<1>6. ReqFine(k) BY <1>3, <1>4 DEF ReqFine
<1>7. UNCHANGED <<osChain, osMember, osHeight, osQueue, osIngested, osLoop, osTies, osCut, osLeft>>
  BY DEF Schedule, reqOnly
<1>8. OsTypeOK'
  <2>1. osReq' \in [Request -> ReqStates] BY <1>1, <1>4, <1>5, ReqType
  <2>. QED BY <1>1, <1>7, <2>1 DEF OsTypeOK, osChain
<1>9. reqStays BY <1>7 DEF reqStays, osChain
<1>10. PICK m \in ReqStates : m = k BY <1>4
<1>. QED BY <1>5, <1>6, <1>7, <1>8, <1>9, <1>10, ReqCalm

\* What begins is at the height of the page that was reached.  After an error,
\* nothing is said of the height, which will not be logged.
LEMMA StartIngestInv == ASSUME OsInv, NEW r \in Request, StartIngest(r) PROVE OsInv'
<1>1. OsTypeOK BY DEF OsInv
<1>2. PICK q \in ReqStates : q = osReq[r] BY <1>1 DEF OsTypeOK
<1>3. ReqFine(q) /\ q.at = "slot" /\ q.held < Concurrency BY <1>2 DEF OsInv, StartIngest
<1>4. PICK t \in First(q.page) :
        Step(r, [q EXCEPT !.at = "loop", !.page = @ \ {t}, !.run = @ \cup {t},
                          !.held = @ + 1, !.last = Higher(@, osBlock[t])])
  BY <1>2 DEF StartIngest
<1>5. q.owner \in OsOwner /\ q.last \in Int /\ q.page \in SUBSET OsTx /\ q.run \in SUBSET OsTx
        /\ q.owner # NoScore
        /\ (~q.err => Ahead(q.owner, q.last, q.page, q.run) /\ Mined(q.last, q.page))
  BY <1>1, <1>3, TypeFacts DEF ReqStates, OsHeights, ReqFine
<1>6. ASSUME ~q.err
      PROVE  /\ Higher(q.last, osBlock[t]) = osBlock[t] /\ t \in OsTx /\ osBlock[t] \in 1..osTip
             /\ Ahead(q.owner, osBlock[t], q.page \ {t}, q.run \cup {t})
             /\ Mined(osBlock[t], q.page \ {t})
  <2>1. PICK o \in OsOwner, last \in Int, page \in SUBSET OsTx, run \in SUBSET OsTx :
          o = q.owner /\ last = q.last /\ page = q.page /\ run = q.run
    BY <1>5
  <2>2. Ahead(o, last, page, run) /\ Mined(last, page) /\ t \in First(page)
    BY <1>4, <1>5, <1>6, <2>1
  <2>3. /\ Higher(last, osBlock[t]) = osBlock[t] /\ t \in OsTx /\ osBlock[t] \in 1..osTip
        /\ Ahead(o, osBlock[t], page \ {t}, run \cup {t}) /\ Mined(osBlock[t], page \ {t})
    <3>1. \A u \in First(page) :
            /\ Higher(last, osBlock[u]) = osBlock[u]
            /\ u \in OsTx /\ osBlock[u] \in 1..osTip
            /\ Ahead(o, osBlock[u], page \ {u}, run \cup {u})
            /\ Mined(osBlock[u], page \ {u})
      <4> SUFFICES ASSUME NEW u \in First(page)
                   PROVE  /\ Higher(last, osBlock[u]) = osBlock[u]
                          /\ u \in OsTx /\ osBlock[u] \in 1..osTip
                          /\ Ahead(o, osBlock[u], page \ {u}, run \cup {u})
                          /\ Mined(osBlock[u], page \ {u})
        OBVIOUS
      <4>1. OsTypeOK /\ o \in OsOwner /\ last \in Int /\ page \in SUBSET OsTx
              /\ run \in SUBSET OsTx /\ Ahead(o, last, page, run) /\ Mined(last, page)
        BY <1>1, <2>1, <2>2
      <4>2. \A x \in SUBSET OsTx : Ahead(o, last, page, x) =>
               /\ Higher(last, osBlock[u]) = osBlock[u]
               /\ u \in OsTx /\ osBlock[u] \in 1..osTip
               /\ Ahead(o, osBlock[u], page \ {u}, x \cup {u})
               /\ Mined(osBlock[u], page \ {u})
        BY <4>1, FirstAhead
      <4>. QED BY <4>1, <4>2
    <3>. QED BY <2>2, <3>1
  <2>. QED BY <2>1, <2>3
<1>7. PICK h \in Int : h = Higher(q.last, osBlock[t]) /\ h \in OsHeights /\ h <= osTip + 1
  <2>1. t \in OsTx BY <1>4, <1>5 DEF First
  <2>2. q.last \in OsHeights /\ q.last <= osTip + 1 BY <1>3 DEF ReqStates, ReqFine
  <2>. QED BY <1>1, <1>5, <2>1, <2>2, TypeFacts DEF Higher, OsHeights
<1> DEFINE k == [q EXCEPT !.at = "loop", !.page = @ \ {t}, !.run = @ \cup {t},
                          !.held = @ + 1, !.last = h]
<1>8. t \in OsTx /\ q.page \ {t} \in SUBSET OsTx BY <1>4, <1>5 DEF First
<1>9. k \in ReqStates /\ k.at = "loop" /\ k.last = h /\ k.run = q.run \cup {t}
        /\ k.page = q.page \ {t} /\ k.err = q.err /\ k.owner = q.owner
  BY <1>3, <1>7, <1>8, LimiterFacts DEF ReqStates
<1>10. Step(r, k) BY <1>4, <1>7
<1>. HIDE DEF k
<1>11. ReqFine(k) BY <1>5, <1>6, <1>7, <1>9 DEF ReqFine
<1>12. UNCHANGED <<osChain, osMember, osHeight, osQueue, osIngested, osLoop, osTies, osCut, osLeft>>
  BY DEF StartIngest, reqOnly
<1>13. OsTypeOK'
  <2>1. osReq' \in [Request -> ReqStates] BY <1>1, <1>9, <1>10, ReqType
  <2>. QED BY <1>1, <1>12, <2>1 DEF OsTypeOK, osChain
<1>14. reqStays BY <1>12 DEF reqStays, osChain
<1>15. PICK m \in ReqStates : m = k BY <1>9
<1>. QED BY <1>10, <1>11, <1>12, <1>13, <1>14, <1>15, ReqCalm

LEMMA ScheduledInv == ASSUME OsInv, NEW r \in Request, Scheduled(r) PROVE OsInv'
<1>1. OsTypeOK BY DEF OsInv
<1>2. PICK q \in ReqStates : q = osReq[r] BY <1>1 DEF OsTypeOK
<1>3. ReqFine(q) /\ q.at = "loop" /\ (q.page = {} \/ q.err) BY <1>2 DEF OsInv, Scheduled
<1> DEFINE k == [q EXCEPT !.at = "wait", !.page = {}]
<1>4. k \in ReqStates /\ k.at = "wait" /\ k.last = q.last /\ k.run = q.run
        /\ k.page = {} /\ k.err = q.err /\ k.owner = q.owner
  BY DEF ReqStates
<1>5. Step(r, k) BY <1>2 DEF Scheduled
<1>. HIDE DEF k
<1>6. ReqFine(k) BY <1>3, <1>4 DEF ReqFine
<1>7. UNCHANGED <<osChain, osMember, osHeight, osQueue, osIngested, osLoop, osTies, osCut, osLeft>>
  BY DEF Scheduled, reqOnly
<1>8. OsTypeOK'
  <2>1. osReq' \in [Request -> ReqStates] BY <1>1, <1>4, <1>5, ReqType
  <2>. QED BY <1>1, <1>7, <2>1 DEF OsTypeOK, osChain
<1>9. reqStays BY <1>7 DEF reqStays, osChain
<1>10. PICK m \in ReqStates : m = k BY <1>4
<1>. QED BY <1>5, <1>6, <1>7, <1>8, <1>9, <1>10, ReqCalm

\* What was under way is ingested.
LEMMA IngestedInv ==
  ASSUME OsInv, NEW r \in Request, NEW t \in OsTx, Ingested(r, t) PROVE OsInv'
<1>1. OsTypeOK BY DEF OsInv
<1>2. PICK q \in ReqStates : q = osReq[r] BY <1>1 DEF OsTypeOK
<1>3. ReqFine(q) /\ t \in q.run BY <1>2 DEF OsInv, Ingested
<1>4. q.at \in {"loop", "slot", "wait"} /\ q.owner # NoScore /\ q.last <= osTip + 1
  BY <1>3 DEF ReqFine
<1>5. UNCHANGED <<osChain, osMember, osHeight, osQueue, osLoop, osTies, osCut, osLeft>>
        /\ osIngested' = osIngested \cup {t}
  BY DEF Ingested, reqOnly
<1> DEFINE rest == q.run \ {t}
           k == [q EXCEPT !.run = rest, !.held = @ - 1]
<1>6. k \in ReqStates /\ k.at = q.at /\ k.last = q.last /\ k.run = rest
        /\ k.page = q.page /\ k.err = q.err /\ k.owner = q.owner /\ k.acct = q.acct
  BY <1>2, LimiterFacts DEF ReqStates, Ingested
<1>7. Step(r, k) BY <1>2 DEF Ingested
<1>8. Grows BY <1>1, <1>5, Stays DEF osChain
<1>9. ASSUME ~q.err
      PROVE  Ahead(q.owner, q.last, q.page, rest)' /\ Mined(q.last, q.page)'
  <2>1. q.owner \in OsOwner /\ q.last \in Int /\ q.page \in SUBSET OsTx
          /\ Ahead(q.owner, q.last, q.page, q.run) /\ Mined(q.last, q.page)
    BY <1>1, <1>3, <1>4, <1>9, TypeFacts DEF ReqStates, OsHeights, ReqFine
  <2>2. \A u \in q.run \ rest : Done(q.owner, u)' BY <1>5 DEF Done
  <2>. HIDE DEF rest
  <2>. QED BY <1>1, <1>4, <1>8, <2>1, <2>2, AheadKept
<1>10. q.last <= osTip' + 1 BY <1>4, <1>5 DEF osChain
<1>11. q.at \notin {"loop", "slot"} => q.page = {} BY <1>3 DEF ReqFine
<1>. HIDE DEF k, rest
<1>12. ReqFine(k)' BY <1>4, <1>6, <1>9, <1>10, <1>11 DEF ReqFine
<1>13. OsTypeOK'
  <2>1. osReq' \in [Request -> ReqStates] BY <1>1, <1>6, <1>7, ReqType
  <2>. QED BY <1>1, <1>5, <2>1 DEF OsTypeOK, osChain
<1>14. reqStays BY <1>5 DEF reqStays, osChain
<1>15. osIngested \subseteq osIngested' BY <1>5
<1>16. PICK m \in ReqStates : m = k BY <1>6
<1>. QED BY <1>5, <1>7, <1>12, <1>13, <1>14, <1>15, <1>16, ReqQuiet

LEMMA IngestFailedInv ==
  ASSUME OsInv, NEW r \in Request, NEW t \in OsTx, IngestFailed(r, t) PROVE OsInv'
<1>1. OsTypeOK BY DEF OsInv
<1>2. PICK q \in ReqStates : q = osReq[r] BY <1>1 DEF OsTypeOK
<1>3. ReqFine(q) /\ t \in q.run BY <1>2 DEF OsInv, IngestFailed
<1>4. q.at \in {"loop", "slot", "wait"} BY <1>3 DEF ReqFine
<1> DEFINE k == [q EXCEPT !.run = @ \ {t}, !.held = @ - 1, !.err = TRUE]
<1>5. k \in ReqStates /\ k.at = q.at /\ k.last = q.last /\ k.page = q.page /\ k.err = TRUE
        /\ k.owner = q.owner
  BY <1>2, LimiterFacts DEF ReqStates, IngestFailed
<1>6. Step(r, k) BY <1>2 DEF IngestFailed
<1>. HIDE DEF k
<1>7. ReqFine(k) BY <1>3, <1>4, <1>5 DEF ReqFine
<1>8. UNCHANGED <<osChain, osMember, osHeight, osQueue, osIngested, osLoop, osTies, osCut>>
  BY DEF IngestFailed, reqOnly
<1>9. OsTypeOK'
  <2>1. osReq' \in [Request -> ReqStates] BY <1>1, <1>5, <1>6, ReqType
  <2>2. osLeft' \in [{"ask", "fault", "reorg"} -> Nat]
    BY <1>1, <1>2 DEF IngestFailed, OsTypeOK
  <2>. QED BY <1>1, <1>8, <2>1, <2>2 DEF OsTypeOK, osChain
<1>10. reqStays BY <1>8 DEF reqStays, osChain
<1>11. PICK m \in ReqStates : m = k BY <1>5
<1>. QED BY <1>6, <1>7, <1>8, <1>9, <1>10, <1>11, ReqCalm

\* The height is logged when all that was under way is done.
LEMMA LogSyncedInv == ASSUME OsInv, NEW r \in Request, LogSynced(r) PROVE OsInv'
<1>1. OsTypeOK BY DEF OsInv
<1>2. PICK q \in ReqStates : q = osReq[r] BY <1>1 DEF OsTypeOK
<1>3. ReqFine(q) /\ q.at = "wait" /\ q.run = {} BY <1>2 DEF OsInv, LogSynced
<1>4. UNCHANGED <<osChain, osMember, osIngested, osQueue, osLoop, osTies, osCut, osLeft>>
        /\ osHeight' = (IF q.err THEN osHeight ELSE [osHeight EXCEPT ![q.owner] = q.last])
        /\ Step(r, OwnerDone(q))
  BY <1>2 DEF LogSynced, reqOnly
<1>5. PICK k \in ReqStates : k = OwnerDone(q) /\ ReqFine(k) BY <1>1, <1>3, OwnerDoneFine
<1>6. Grows BY <1>1, <1>4, Stays DEF osChain
<1>7. ReqFine(k)' BY <1>1, <1>5, <1>6, ReqGrown
<1>8. q.owner \in OsOwner /\ q.last \in Int /\ q.last \in OsHeights
  BY <1>1, <1>3, TypeFacts DEF ReqStates, OsHeights, ReqFine
<1>9. ASSUME NEW o \in OsOwner PROVE HeightFine(o)'
  <2>1. CASE q.err \/ o # q.owner
    <3>1. osHeight'[o] = osHeight[o] BY <1>1, <1>4, <2>1 DEF OsTypeOK
    <3>. QED BY <1>6, <3>1, HeightKept
  <2>2. CASE ~q.err /\ o = q.owner
    <3>1. osHeight'[o] = q.last BY <1>1, <1>4, <2>2 DEF OsTypeOK
    <3>2. Ahead(o, q.last, {}, {}) /\ q.last <= osTip + 1 BY <1>3, <2>2 DEF ReqFine
    <3>3. Ahead(o, q.last, {}, {})' BY <1>1, <1>6, <1>8, <3>2, AheadKept, MinedEmpty
    <3>4. q.last <= osTip' + 1 BY <1>4, <3>2 DEF osChain
    <3>. QED BY <3>1, <3>3, <3>4 DEF HeightFine
  <2>. QED BY <2>1, <2>2
<1>10. OsTypeOK'
  <2>1. osReq' \in [Request -> ReqStates] BY <1>1, <1>4, <1>5, ReqType
  <2>2. osHeight' \in [OsOwner -> OsHeights \cup {NoScore}] BY <1>1, <1>4, <1>8 DEF OsTypeOK
  <2>. QED BY <1>1, <1>4, <2>1, <2>2 DEF OsTypeOK, osChain
<1>. QED BY <1>4, <1>5, <1>6, <1>7, <1>9, <1>10, ReqStep

LEMMA RequestFailsInv == ASSUME OsInv, NEW r \in Request, RequestFails(r) PROVE OsInv'
<1>1. OsTypeOK BY DEF OsInv
<1>2. PICK q \in ReqStates : q = osReq[r] BY <1>1 DEF OsTypeOK
<1>3. PICK k \in ReqStates : Step(r, k) /\ ReqFine(k)
  BY <1>1, IdleTypes, TypeFacts DEF RequestFails
<1>4. UNCHANGED <<osChain, osMember, osHeight, osQueue, osIngested, osLoop, osTies>>
  BY DEF RequestFails, reqOnly
<1>5. osCut' \subseteq OsOwner
  <2>1. ReqFine(q) BY <1>2 DEF OsInv
  <2>2. q.at = "insert" => q.owner \in OsOwner BY <2>1 DEF ReqFine, ReqStates
  <2>. QED BY <1>1, <1>2, <2>2 DEF RequestFails, OsTypeOK
<1>6. OsTypeOK'
  <2>1. osReq' \in [Request -> ReqStates] BY <1>1, <1>3, ReqType
  <2>2. osLeft' \in [{"ask", "fault", "reorg"} -> Nat] BY <1>1, OsUseType DEF RequestFails
  <2>. QED BY <1>1, <1>4, <1>5, <2>1, <2>2 DEF OsTypeOK, osChain
<1>7. reqStays BY <1>4 DEF reqStays, osChain
<1>. QED BY <1>3, <1>4, <1>6, <1>7, ReqCalm

LEMMA ServerPanicInv == ASSUME OsInv, ServerPanic PROVE OsInv'
<1>1. OsTypeOK /\ ReqIdle \in ReqStates BY IdleTypes DEF OsInv
<1>2. UNCHANGED <<osChain, osMember, osHeight, osQueue, osIngested, osLoop, osTies>>
  BY DEF ServerPanic, reqOnly
<1>3. osReq' = [r \in Request |-> ReqIdle] BY DEF ServerPanic
<1>4. OsTypeOK'
  <2>1. osCut' \subseteq OsOwner
    <3>1. ASSUME NEW r \in Request, osReq[r].at = "insert" PROVE osReq[r].owner \in OsOwner
      <4>1. ReqFine(osReq[r]) /\ osReq[r] \in ReqStates BY <1>1 DEF OsInv, OsTypeOK
      <4>. QED BY <3>1, <4>1 DEF ReqFine, ReqStates
    <3>. QED BY <1>1, <3>1 DEF ServerPanic, OsTypeOK
  <2>2. osLeft' \in [{"ask", "fault", "reorg"} -> Nat]
    BY <1>1, OsUseType DEF ServerPanic, OsTypeOK
  <2>. QED BY <1>1, <1>2, <1>3, <2>1, <2>2 DEF OsTypeOK, osChain
<1>5. Grows BY <1>1, <1>2, Stays DEF osChain
<1>6. \A r \in Request : ReqFine(osReq[r])'
  <2>1. ReqFine(ReqIdle)' BY <1>1, <1>2, TypeFacts DEF ReqFine, ReqIdle, osChain
  <2>. QED BY <1>3, <2>1
<1>7. LoopFine(osLoop)'
  <2>1. PICK l \in LoopStates : l = osLoop BY <1>1 DEF OsTypeOK
  <2>. QED BY <1>2, <1>5, <2>1, LoopGrown DEF OsInv
<1>. QED BY <1>2, <1>4, <1>5, <1>6, <1>7, HeightsKept DEF OsInv

-----------------------------------------------------------------------------
\* The theorems.

LEMMA StartInv == ASSUME OsInit PROVE OsInv
<1>1. OsTypeOK
  <2>1. OsMaxTip \in Nat /\ 0 \in OsHeights BY OsBoundAssumption DEF OsHeights
  <2>2. osLoop \in LoopStates BY <2>1 DEF OsInit, LoopIdle, LoopStates
  <2>3. ReqIdle \in ReqStates BY <2>1, LimiterFacts DEF ReqIdle, ReqStates, NoAcct
  <2>4. osReq \in [Request -> ReqStates] BY <2>3 DEF OsInit
  <2>5. osLeft \in [{"ask", "fault", "reorg"} -> Nat] BY OsBoundAssumption DEF OsInit
  <2>6. <<osBackend, osPage, osRefused>> \in OsConfigs BY OsConfigAssumption DEF OsInit
  <2>. QED BY <2>1, <2>2, <2>4, <2>5, <2>6 DEF OsInit, OsTypeOK
<1>2. \A o \in OsOwner : HeightFine(o)
  BY <1>1, TypeFacts DEF OsInit, HeightFine, Ahead
<1>3. LoopFine(osLoop) BY <1>1, IdleTypes, TypeFacts DEF OsInit
<1>4. \A r \in Request : ReqFine(osReq[r])
  <2>1. ReqFine(ReqIdle) BY <1>1, IdleTypes, TypeFacts
  <2>. QED BY <2>1 DEF OsInit
<1>. QED BY <1>1, <1>2, <1>3, <1>4 DEF OsInv

LEMMA StutterInv == ASSUME OsInv, UNCHANGED osVars PROVE OsInv'
<1>1. OsTypeOK BY DEF OsInv
<1>2. UNCHANGED <<osChain, osMember, osHeight, osQueue, osIngested, osLoop, osReq, osTies,
                  osCut, osLeft>>
  BY DEF osVars
<1>3. OsTypeOK' BY <1>1, <1>2 DEF OsTypeOK, osChain
<1>4. Grows BY <1>1, <1>2, Stays DEF osChain
<1>5. PICK l \in LoopStates : l = osLoop BY <1>1 DEF OsTypeOK
<1>6. LoopFine(l)' BY <1>1, <1>4, <1>5, LoopGrown DEF OsInv
<1>. QED BY <1>2, <1>3, <1>4, <1>5, <1>6, HeightsKept, LoopStep

LEMMA NextInv == ASSUME OsInv, [OsNext]_osVars PROVE OsInv'
<1>1. CASE Loop
  BY <1>1, LoopSearchInv, LoopOwnerInv, LoopFetchInv, LoopQueueInv, LoopLogInv DEF Loop
<1>2. ASSUME NEW r \in Request, Handler(r) PROVE OsInv'
  BY <1>2, UpdateRedisInv, UpsertOwnerInv, LogOwnerInv, SyncAcctInv, SyncOwnerInv, FetchInv,
     ScheduleInv, StartIngestInv, ScheduledInv, LogSyncedInv DEF Handler
<1>3. ASSUME NEW r \in Request, Goroutines(r) PROVE OsInv'
  BY <1>3, IngestedInv, IngestFailedInv DEF Goroutines
<1>. QED BY <1>1, <1>2, <1>3, ExtendInv, ReorgInv, LoopRestartInv, AskInv, RequestFailsInv,
            ServerPanicInv, StutterInv DEF OsNext

THEOREM OsInvariant == OsSpec => []OsInv
BY StartInv, NextInv, PTL DEF OsSpec

\* Types: the loop and every request only ever hold what their states allow.
THEOREM OsTypeCorrect == OsSpec => []OsTypeOK
<1>1. OsInv => OsTypeOK BY DEF OsInv
<1>. QED BY <1>1, OsInvariant, PTL

\* owner-sync.go:39-76, accounts.go:24-79: whatever the pages, the failures and the
\* interleaving of the loop with requests for the same owner, no logged height
\* passes a transaction that was neither queued nor ingested, late or a tie.
THEOREM OsNothingPassed == OsSpec => []NothingPassed
<1>1. ASSUME OsInv PROVE NothingPassed
  <2> SUFFICES ASSUME NEW t \in OsTx, NEW o \in OwnersOf[t], osBlock[t] \in 1..(osHeight[o] - 1)
               PROVE  Done(o, t)
    BY DEF NothingPassed, Done
  <2>1. o \in OsOwner BY OsOwnersAssumption
  <2>2. OsTypeOK /\ HeightFine(o) BY <1>1, <2>1 DEF OsInv
  <2>3. osHeight[o] \in Int BY <2>1, <2>2 DEF OsTypeOK, OsHeights, NoScore
  <2>4. osBlock[t] # 0 /\ ~(osBlock[t] >= osHeight[o]) BY <2>3
  <2>. QED BY <2>2, <2>4 DEF HeightFine, Ahead
<1>. QED BY <1>1, OsInvariant, PTL

-----------------------------------------------------------------------------
\* Once an owner is in the sync log it stays there.
LEMMA SyncedStays ==
  ASSUME OsInv, [OsNext]_osVars, NEW o \in OsOwner, osHeight[o] # NoScore
  PROVE  osHeight'[o] # NoScore
<1>1. OsTypeOK /\ NoScore \notin OsHeights
  BY TypeFacts DEF OsInv, OsHeights
<1>2. CASE LoopLog
  BY <1>1, <1>2 DEF LoopLog, OsTypeOK, LoopStates
<1>3. CASE \E r \in Request : LogSynced(r)
  BY <1>1, <1>3 DEF LogSynced, OsTypeOK, ReqStates
<1>4. CASE \E r \in Request : UpdateRedis(r) \/ LogOwner(r)
  BY SMTT(30), <1>1, <1>4, TypeFacts DEF UpdateRedis, LogOwner, Register, OsTypeOK
<1>5. ASSUME ~LoopLog, \A r \in Request : ~LogSynced(r) /\ ~UpdateRedis(r) /\ ~LogOwner(r)
      PROVE  osHeight' = osHeight
  BY <1>5 DEF OsNext, osVars, OsExtend, OsReorg, Loop, LoopSearch, LoopOwner, LoopFetch,
     LoopQueue, LoopPanic, LoopStart, Ask, Handler, UpsertOwner, SyncAcct, SyncOwner, Fetch,
     Schedule, StartIngest, Scheduled, Goroutines, Ingested, IngestFailed, RequestFails, ServerPanic
<1>. QED BY <1>2, <1>3, <1>4, <1>5

\* redis accounts.go:36-80, pg accounts.go:58-79, sqlite accounts.go:52-66:
\* an owner that has an account is in the log the sync loop reads, but for one
\* whose registration is, or was cut, between its two statements.
THEOREM OsMembersAreSynced == OsSpec => []MembersAreSynced
<1>1. OsInit => MembersAreSynced BY DEF OsInit, MembersAreSynced
<1>2. ASSUME OsInv, MembersAreSynced, [OsNext]_osVars PROVE MembersAreSynced'
  <2> SUFFICES ASSUME NEW o \in OsOwner, NEW a \in OsAcct, <<o, a>> \in osMember'
               PROVE  \/ o \in (Synced \cup osCut)'
                      \/ \E r \in Request : osReq'[r].at = "insert" /\ osReq'[r].owner = o
    BY DEF MembersAreSynced
  <2>1. OsTypeOK BY <1>2 DEF OsInv
  <2>2. osHeight[o] # NoScore => o \in Synced' BY SMTT(30), <1>2, SyncedStays DEF Synced
  <2>3. osCut \subseteq osCut'
    BY <1>2 DEF OsNext, osVars, OsExtend, OsReorg, Loop, LoopSearch, LoopOwner, LoopFetch,
       LoopQueue, LoopLog, loopOnly, LoopPanic, LoopStart, Ask, Handler, UpdateRedis, UpsertOwner,
       LogOwner, LogSynced, SyncAcct, SyncOwner, Fetch, Schedule, StartIngest, Scheduled, Goroutines,
       Ingested, IngestFailed, RequestFails, ServerPanic
  <2>4. ASSUME NEW r \in Request, osReq[r].at = "insert", osReq[r].owner = o
        PROVE  \/ osReq'[r] = osReq[r]
               \/ o \in (Synced \cup osCut)'
    <3>1. CASE LogOwner(r)
      BY <2>1, <2>4, <3>1, TypeFacts DEF LogOwner, Register, Synced, OsTypeOK
    <3>2. CASE RequestFails(r) BY <2>4, <3>2 DEF RequestFails
    <3>3. CASE \E t \in OsTx : Ingested(r, t) \/ IngestFailed(r, t)
      <4>1. ReqFine(osReq[r]) BY <1>2 DEF OsInv
      <4>2. osReq[r].run = {} BY <2>4, <4>1 DEF ReqFine
      <4>. QED BY <3>3, <4>2 DEF Ingested, IngestFailed
    <3>4. CASE \E p \in Request \ {r} : Ask(p) \/ Handler(p) \/ Goroutines(p) \/ RequestFails(p)
      <4>1. PICK p \in Request \ {r} : Ask(p) \/ Handler(p) \/ Goroutines(p) \/ RequestFails(p)
        BY <3>4
      <4>2. \E s : Step(p, s)
        BY <4>1 DEF Ask, Handler, UpdateRedis, UpsertOwner, LogOwner, LogSynced, SyncAcct,
           SyncOwner, Fetch, Schedule, StartIngest, Scheduled, Goroutines, Ingested, IngestFailed, RequestFails
      <4>. QED BY <2>1, <4>2 DEF Step, OsTypeOK
    <3>5. CASE OsExtend \/ OsReorg \/ Loop \/ LoopPanic \/ LoopStart \/ UNCHANGED osVars
      BY <3>5 DEF OsExtend, OsReorg, Loop, LoopSearch, LoopOwner, LoopFetch, LoopQueue, LoopLog,
         LoopPanic, LoopStart, loopOnly, osVars
    <3>6. CASE Ask(r) \/ UpdateRedis(r) \/ UpsertOwner(r) \/ SyncAcct(r) \/ SyncOwner(r)
                \/ Fetch(r) \/ Schedule(r) \/ StartIngest(r) \/ Scheduled(r) \/ LogSynced(r)
      BY <2>4, <3>6 DEF Ask, UpdateRedis, UpsertOwner, SyncAcct, SyncOwner, Fetch, Schedule,
         StartIngest, Scheduled, LogSynced
    <3>7. CASE ServerPanic BY <2>4, <3>7 DEF ServerPanic
    <3>. QED BY <1>2, <3>1, <3>2, <3>3, <3>4, <3>5, <3>6, <3>7 DEF OsNext, Handler, Goroutines
  <2>5. CASE <<o, a>> \in osMember
    BY <1>2, <2>2, <2>3, <2>4, <2>5 DEF MembersAreSynced, Synced
  <2>6. CASE <<o, a>> \notin osMember
    <3>1. \E r \in Request : UpdateRedis(r) \/ UpsertOwner(r)
      BY <1>2, <2>6 DEF OsNext, osVars, OsExtend, OsReorg, Loop, LoopSearch, LoopOwner, LoopFetch,
         LoopQueue, LoopLog, loopOnly, LoopPanic, LoopStart, Ask, Handler, LogOwner, LogSynced,
         SyncAcct, SyncOwner, Fetch, Schedule, StartIngest, Scheduled, Goroutines, Ingested, IngestFailed,
         RequestFails, ServerPanic
    <3>2. ASSUME NEW r \in Request, UpdateRedis(r) PROVE o \in Synced'
      BY <2>1, <2>6, <3>2, TypeFacts DEF UpdateRedis, Synced, OsTypeOK
    <3>3. ASSUME NEW r \in Request, UpsertOwner(r)
          PROVE  osReq'[r].at = "insert" /\ osReq'[r].owner = o
      BY <2>1, <2>6, <3>3 DEF UpsertOwner, Step, OsTypeOK, ReqStates
    <3>4. PICK r \in Request : UpdateRedis(r) \/ UpsertOwner(r) BY <3>1
    <3>5. CASE UpdateRedis(r) BY <3>2, <3>5
    <3>6. CASE UpsertOwner(r) BY <3>3, <3>6
    <3>. QED BY <3>4, <3>5, <3>6, SMTT(30)
  <2>. QED BY <2>5, <2>6
<1>. QED BY <1>1, <1>2, OsInvariant, PTL DEF OsSpec

-----------------------------------------------------------------------------
(***************************************************************************)
(* Origins.                                                                *)
(*                                                                         *)
(* OriginTrue speaks of the records. A record is computed from what a job  *)
(* read of its inputs, one after the other, while other jobs wrote theirs, *)
(* so the invariant says the same of what every job holds: what it read    *)
(* was stored, and an origin in it belongs to the line of that input. Of   *)
(* that Parse makes a true origin, because one input at most carries the   *)
(* satoshi of an output, and the line of an output is the output and the   *)
(* line of what that input spends.                                         *)
(***************************************************************************)
\* A satoshi that can have an origin.
Single(o) == Sats[o] = 1 /\ TxOf[o] \notin OldTx

Origin(o, a) == Single(o) /\ a \in Lineage[o] /\ (Ancestor(a) = {} \/ a \in orYoung)

\* The height of a record tells the outputs below TRIGGER from the others, and
\* an origin in it is one.
OldHeight(h, t) == (h = 1) <=> (t \in OldTx)
Sound(o, x) == x.stored => /\ OldHeight(x.height, TxOf[o])
                           /\ x.origin # NoOut => Origin(o, x.origin)

\* What a job has read, and how far it is.
JobSound(job) ==
  /\ job.at # "idle" => job.tx \in OrTx
  /\ job.at \in {"idle", "load", "failing"} => job.spends = <<>>
  /\ job.at \notin {"idle", "load", "failing"} =>
       /\ OldHeight(job.height, job.tx)
       /\ Len(job.spends) \in 0..Len(InsOf[job.tx])
       /\ job.at \in {"spend", "parent"} => Len(job.spends) # Len(InsOf[job.tx])
       /\ job.at \in {"save", "queue", "delog"} => Len(job.spends) = Len(InsOf[job.tx])
       /\ \A i \in 1..Len(job.spends) :
            job.spends[i].stored /\ Sound(InsOf[job.tx][i], job.spends[i])

OrInv ==
  /\ OrTypeOK
  /\ \A o \in OrOut : /\ Sound(o, orTxo[o])
                      /\ orTxo[o].origin # NoOut => orTxo[o].stored
  /\ \A w \in Slot \cup Outside : JobSound(orJob[w])
  /\ orMain.at = "search" => orMain.todo = {}

LEMMA Owned ==
  ASSUME NEW o \in OrOut
  PROVE  /\ TxOf[o] \in OrTx /\ o \in Outs(TxOf[o])
         /\ \A t \in OrTx : o \in Outs(t) => t = TxOf[o]
<1>1. PICK t \in OrTx : {u \in OrTx : \E i \in DOMAIN OutsOf[u] : OutsOf[u][i] = o} = {t}
  BY OrTxidAssumption
<1>2. \A u \in OrTx : o \in Outs(u) <=> u = t
  BY <1>1 DEF Outs
<1> QED BY <1>2 DEF TxOf

LEMMA Inputs ==
  ASSUME NEW t \in OrTx
  PROVE  /\ InsOf[t] \in Seq(OrOut) /\ Len(InsOf[t]) \in Nat /\ DOMAIN InsOf[t] = 1..Len(InsOf[t])
         /\ \A i \in 1..Len(InsOf[t]) : InsOf[t][i] \in OrOut
         /\ Outs(t) \subseteq OrOut
  BY OrOutsAssumption DEF Outs

\* The loop of Parse stops at one input at most, among those it was given.
LEMMA OneCarrier ==
  ASSUME NEW o \in OrOut, NEW n \in 0..Len(InsOf[TxOf[o]])
  PROVE  /\ Carriers[o][n] \subseteq 1..n
         /\ \A i, j \in Carriers[o][n] : i = j
<1> DEFINE ins == InsOf[TxOf[o]]
           beyond == {i \in DOMAIN ins : Sum(SubSeq(ins, 1, i)) > OutAcc(o)}
           first == {i \in beyond : \A j \in beyond : i <= j}
<1>1. ins \in Seq(OrOut) /\ Len(ins) \in Nat /\ DOMAIN ins = 1..Len(ins)
  BY Owned, Inputs
<1>2. Carriers[o][n] = first \cap 1..n
  BY DEF Carriers
<1>3. beyond \subseteq 1..Len(ins)
  BY <1>1
<1> HIDE DEF beyond, ins
<1>4. \A i, j \in first : i = j
  BY <1>1, <1>3
<1> QED BY <1>2, <1>4

\* Lineages.
LEMMA InLineage ==
  ASSUME NEW o \in OrOut
  PROVE  /\ o \in Lineage[o] /\ Lineage[o] \subseteq OrOut
         /\ \A q \in Lineage[o] : Ancestor(q) \subseteq Lineage[o]
         /\ \A S \in SUBSET OrOut :
              o \in S /\ (\A q \in S : Ancestor(q) \subseteq S) => Lineage[o] \subseteq S
<1>1. \A q \in OrOut : Ancestor(q) \subseteq OrOut
  <2> TAKE q \in OrOut
  <2>1. Carriers[q][Len(InsOf[TxOf[q]])] \subseteq 1..Len(InsOf[TxOf[q]])
    BY OneCarrier, Owned, Inputs
  <2> QED BY <2>1, Owned, Inputs DEF Ancestor, Carrier
<1>2. Lineage[o] = {p \in OrOut : \A S \in SUBSET OrOut :
                      o \in S /\ (\A q \in S : Ancestor(q) \subseteq S) => p \in S}
  BY DEF Lineage
<1> QED BY <1>1, <1>2

LEMMA OneAncestor ==
  ASSUME NEW o \in OrOut
  PROVE  /\ Ancestor(o) \subseteq OrOut
         /\ \A p, q \in Ancestor(o) : p = q
         /\ \A p \in Ancestor(o) : Single(p)
<1>1. /\ Carriers[o][Len(InsOf[TxOf[o]])] \subseteq 1..Len(InsOf[TxOf[o]])
      /\ \A i, j \in Carriers[o][Len(InsOf[TxOf[o]])] : i = j
  BY OneCarrier, Owned, Inputs
<1> QED BY <1>1, Owned, Inputs DEF Ancestor, Carrier, Single

LEMMA Inherits ==
  ASSUME NEW o \in OrOut, NEW p \in Ancestor(o)
  PROVE  Lineage[p] \subseteq Lineage[o]
<1>1. p \in Lineage[o] /\ p \in OrOut
  BY InLineage, OneAncestor
<1> QED BY <1>1, InLineage

\* The origin of a single satoshi is the one output of its lineage without ancestor.
LEMMA OneOrigin ==
  ASSUME NEW o \in OrOut, Single(o), NEW a \in Lineage[o], Ancestor(a) = {}
  PROVE  a = TrueOrigin(o)
<1> DEFINE S == {q \in Lineage[o] : Single(q) /\ a \in Lineage[q]}
<1>1. S \in SUBSET OrOut /\ o \in S
  BY InLineage
<1>2. ASSUME NEW q \in S PROVE Ancestor(q) \subseteq S
  <2>1. q \in OrOut /\ q \in Lineage[o] /\ a \in Lineage[q]
    BY InLineage
  <2>2. SUFFICES ASSUME NEW p \in Ancestor(q) PROVE a \in Lineage[p]
    BY <2>1, OneAncestor, InLineage
  <2>3. a # q
    BY <2>2
  <2>4. p \in OrOut /\ p \in Lineage[p] /\ Lineage[p] \subseteq OrOut
    BY <2>1, OneAncestor, InLineage
  <2> DEFINE T == {q} \cup Lineage[p]
  <2>5. T \in SUBSET OrOut /\ q \in T
    BY <2>1, <2>4
  <2>6. \A r \in T : Ancestor(r) \subseteq T
    BY <2>1, <2>4, OneAncestor, InLineage
  <2>7. Lineage[q] \subseteq T
    <3> HIDE DEF T
    <3> QED BY <2>1, <2>5, <2>6, InLineage
  <2> QED BY <2>1, <2>3, <2>7
<1>3. Lineage[o] \subseteq S
  <2> HIDE DEF S
  <2> QED BY <1>1, <1>2, InLineage
<1>4. \A q \in Lineage[o] : q \in OrOut /\ Single(q) /\ a \in Lineage[q]
  BY <1>3, InLineage
<1>5. a \in OrOut /\ \A p \in Carrier(a) : p \notin Lineage[o]
  BY <1>4 DEF Ancestor, Single
<1>6. ASSUME NEW b \in Lineage[o], \A p \in Carrier(b) : p \notin Lineage[o] PROVE b = a
  <2>1. b \in OrOut /\ a \in Lineage[b] /\ Ancestor(b) = {}
    BY <1>4, <1>6, InLineage DEF Ancestor
  <2> DEFINE T == {b}
  <2>2. T \in SUBSET OrOut /\ b \in T /\ \A q \in T : Ancestor(q) \subseteq T
    BY <2>1
  <2>3. Lineage[b] \subseteq T
    <3> HIDE DEF T
    <3> QED BY <2>1, <2>2, InLineage
  <2> QED BY <2>1, <2>3
<1>7. \A b \in Lineage[o] : (\A p \in Carrier(b) : p \notin Lineage[o]) <=> b = a
  BY <1>5, <1>6
<1> QED BY <1>7 DEF TrueOrigin

-----------------------------------------------------------------------------
\* What Parse returns for an output, if the records it is given are sound.
LEMMA ParseSound ==
  ASSUME NEW o \in OrOut, NEW h \in 0..TRIGGER, OldHeight(h, TxOf[o]),
         NEW spends \in Seq(Txo), Len(spends) \in {0, Len(InsOf[TxOf[o]])},
         \A i \in 1..Len(spends) : spends[i].stored /\ Sound(InsOf[TxOf[o]][i], spends[i])
  PROVE  /\ Parse(o, h, spends) \in Txo
         /\ Parse(o, h, spends).stored /\ Parse(o, h, spends).height = h
         /\ LET a == Parse(o, h, spends).origin IN
            a # NoOut =>
              /\ Single(o) /\ a \in Lineage[o]
              /\ \/ Ancestor(a) = {} \/ a \in orYoung
                 \/ /\ a = o
                    /\ \E i \in Carriers[o][Len(spends)] :
                         Sats[InsOf[TxOf[o]][i]] = 1 /\ spends[i].height = 0
<1> DEFINE ins == InsOf[TxOf[o]]
           carriers == Carriers[o][Len(spends)]
           inherits(i) == Sats[ins[i]] = 1 /\ spends[i].height >= TRIGGER
           has == Sats[o] = 1 /\ h \notin 1..(TRIGGER - 1)
           x == Parse(o, h, spends)
<1>1. /\ Len(ins) \in Nat /\ \A i \in 1..Len(ins) : ins[i] \in OrOut
      /\ Len(spends) \in 0..Len(ins) /\ Sats[o] \in Nat
      /\ \A i \in 1..Len(spends) : spends[i] \in Txo
  BY Owned, Inputs, OrOutsAssumption
<1>2. carriers \subseteq 1..Len(spends) /\ \A i, j \in carriers : i = j
  BY <1>1, OneCarrier
<1>3. x = [stored |-> TRUE, height |-> h, data |-> has,
           origin |-> IF ~has \/ carriers = {} THEN NoOut
                      ELSE LET i == CHOOSE i \in carriers : TRUE
                           IN IF inherits(i) THEN spends[i].origin ELSE o]
  BY DEF Parse
<1> SUFFICES /\ x \in Txo /\ x.stored /\ x.height = h
             /\ x.origin # NoOut =>
                  /\ Single(o) /\ x.origin \in Lineage[o]
                  /\ \/ Ancestor(x.origin) = {} \/ x.origin \in orYoung
                     \/ /\ x.origin = o
                        /\ \E i \in carriers : Sats[ins[i]] = 1 /\ spends[i].height = 0
  OBVIOUS
<1> HIDE DEF x, carriers
<1>4. has => Single(o)
  BY DEF OldHeight, Single, TRIGGER
<1>5. CASE ~has \/ carriers = {}
  BY <1>3, <1>5 DEF Txo
<1>6. CASE has /\ carriers # {}
  <2>1. PICK i \in carriers : i = CHOOSE j \in carriers : TRUE
    BY <1>6
  <2>2. /\ i \in 1..Len(spends) /\ i \in 1..Len(ins) /\ ins[i] \in OrOut /\ spends[i] \in Txo
        /\ Len(spends) = Len(ins) /\ carriers = {i}
    <3>1. i \in 1..Len(spends) /\ carriers = {i}
      BY <1>2, <2>1
    <3>2. Len(spends) = Len(ins)
      BY <1>1, <3>1
    <3> QED BY <1>1, <3>1, <3>2
  <2>3. Carrier(o) = {ins[i]}
    BY <2>2 DEF Carrier, carriers
  <2>4. x.origin = IF inherits(i) THEN spends[i].origin ELSE o
    BY <1>3, <1>6, <2>1
  <2>5. x \in Txo /\ x.stored /\ x.height = h
    BY <1>3, <2>2, <2>4 DEF Txo
  <2>6. spends[i].stored /\ OldHeight(spends[i].height, TxOf[ins[i]]) /\
        (spends[i].origin # NoOut => Origin(ins[i], spends[i].origin))
    BY <2>2 DEF Sound
  <2>7. CASE inherits(i)
    <3>1. ins[i] \in Ancestor(o)
      BY <2>2, <2>3, <2>6, <2>7 DEF Ancestor, OldHeight, TRIGGER, Txo
    <3>2. Lineage[ins[i]] \subseteq Lineage[o]
      BY <3>1, Inherits
    <3> QED BY <1>4, <1>6, <2>4, <2>5, <2>6, <2>7, <3>2 DEF Origin
  <2>8. CASE ~inherits(i)
    <3>1. x.origin = o /\ o \in Lineage[o]
      BY <2>4, <2>8, InLineage
    <3>2. ASSUME Ancestor(o) # {}
          PROVE  Sats[ins[i]] = 1 /\ spends[i].height = 0
      <4>1. Sats[ins[i]] = 1 /\ TxOf[ins[i]] \notin OldTx
        BY <2>3, <3>2 DEF Ancestor
      <4>2. spends[i].height \in 0..2 /\ ~(spends[i].height >= 2) /\ spends[i].height # 1
        BY <2>2, <2>6, <2>8, <4>1 DEF OldHeight, TRIGGER, Txo
      <4> QED BY <4>1, <4>2
    <3> QED BY <1>4, <1>6, <2>1, <2>5, <3>1, <3>2
  <2> QED BY <2>7, <2>8
<1> QED BY <1>5, <1>6

LEMMA Heights ==
  ASSUME OrTypeOK, NEW t \in OrTx
  PROVE  HeightOf(t) \in 0..TRIGGER /\ OldHeight(HeightOf(t), t)
  BY DEF HeightOf, OldHeight, TRIGGER

-----------------------------------------------------------------------------
LEMMA OrInitInv == OrInit => OrInv
<1>1. Len(<<>>) = 0 /\ <<>> \in Seq(OrTx) /\ <<>> \in Seq(Txo)
  OBVIOUS
<1>2. JobIdle \in Jobs /\ JobSound(JobIdle) /\ Absent \in Txo
  BY <1>1 DEF JobIdle, Jobs, JobSound, Absent, Txo, TRIGGER
<1>3. OrInit => OrTypeOK
  BY <1>1, <1>2, OrBoundAssumption DEF OrInit, OrTypeOK, MainStart
<1>4. OrInit => \A o \in OrOut : Sound(o, orTxo[o]) /\ (orTxo[o].origin # NoOut => orTxo[o].stored)
  BY DEF OrInit, Absent, Sound
<1> QED BY <1>2, <1>3, <1>4 DEF OrInit, OrInv, MainStart

\* A step that changes one job.
LEMMA JobMoves ==
  ASSUME OrInv, NEW w \in Slot \cup Outside, NEW job \in Jobs, JobSound(job), Moves(w, job),
         orYoung \subseteq orYoung'
  PROVE  /\ orJob' \in [Slot \cup Outside -> Jobs]
         /\ \A v \in Slot \cup Outside : JobSound(orJob[v])'
<1>1. orJob' = [orJob EXCEPT ![w] = job] /\ orJob \in [Slot \cup Outside -> Jobs]
  BY DEF Moves, OrInv, OrTypeOK
<1>2. \A v \in Slot \cup Outside : orJob'[v] = IF v = w THEN job ELSE orJob[v]
  BY <1>1
<1>3. \A v \in Slot \cup Outside : JobSound(orJob'[v])
  BY <1>2 DEF OrInv
<1>4. orJob' \in [Slot \cup Outside -> Jobs]
  BY <1>1
<1>5. ASSUME NEW v \in Slot \cup Outside PROVE JobSound(orJob[v])'
  BY <1>3 DEF JobSound, Sound, Origin
<1> QED BY <1>4, <1>5

\* What SaveTxos does with the records of a job that has read all its inputs, or
\* of a parent of which none was read.
LEMMA Saves ==
  ASSUME OrInv, NEW t \in OrTx, NEW h \in 0..TRIGGER, OldHeight(h, t),
         NEW spends \in Seq(Txo), Len(spends) \in {0, Len(InsOf[t])},
         \A i \in 1..Len(spends) : spends[i].stored /\ Sound(InsOf[t][i], spends[i]),
         SaveTxos(t, h, spends),
         orYoung' = orYoung \cup
           {o \in Outs(t) : \E i \in Carriers[o][Len(spends)] :
              Sats[InsOf[t][i]] = 1 /\ spends[i].height = 0}
  PROVE  /\ orTxo' \in [OrOut -> Txo] /\ orLog' \subseteq OrOut /\ orYoung' \subseteq OrOut
         /\ \A o \in OrOut : Sound(o, orTxo[o])' /\ (orTxo[o].origin # NoOut => orTxo[o].stored)'
<1> DEFINE P(o) == Parse(o, h, spends)
<1>1. /\ orTxo \in [OrOut -> Txo] /\ orLog \subseteq OrOut /\ orYoung \subseteq OrOut
      /\ Outs(t) \subseteq OrOut
  BY Inputs DEF OrInv, OrTypeOK
<1>2. ASSUME NEW o \in Outs(t)
      PROVE  /\ P(o) \in Txo /\ P(o).stored /\ P(o).height = h /\ OldHeight(h, TxOf[o])
             /\ P(o).origin # NoOut =>
                  /\ Single(o) /\ P(o).origin \in Lineage[o]
                  /\ Ancestor(P(o).origin) = {} \/ P(o).origin \in orYoung'
  <2>1. o \in OrOut /\ t = TxOf[o]
    BY <1>1, Owned
  <2>2. /\ OldHeight(h, TxOf[o]) /\ Len(spends) \in {0, Len(InsOf[TxOf[o]])}
        /\ \A i \in 1..Len(spends) :
             spends[i].stored /\ Sound(InsOf[TxOf[o]][i], spends[i])
    BY <2>1
  <2>3. /\ Parse(o, h, spends) \in Txo
        /\ Parse(o, h, spends).stored /\ Parse(o, h, spends).height = h
        /\ LET a == Parse(o, h, spends).origin IN
           a # NoOut =>
             /\ Single(o) /\ a \in Lineage[o]
             /\ \/ Ancestor(a) = {} \/ a \in orYoung
                \/ /\ a = o
                   /\ \E i \in Carriers[o][Len(spends)] :
                        Sats[InsOf[TxOf[o]][i]] = 1 /\ spends[i].height = 0
    BY <2>1, <2>2, ParseSound
  <2> QED BY <2>1, <2>3
<1> HIDE DEF P
<1>3. \A o \in OrOut : orTxo'[o] = IF o \in Outs(t) THEN P(o) ELSE orTxo[o]
  BY DEF SaveTxos, P
<1>4. orTxo' \in [OrOut -> Txo]
  BY <1>1, <1>2 DEF SaveTxos, P
<1>5. orLog' \subseteq OrOut /\ orYoung' \subseteq OrOut /\ orYoung \subseteq orYoung'
  BY <1>1 DEF SaveTxos
<1>6. ASSUME NEW o \in OrOut
      PROVE  Sound(o, orTxo[o])' /\ (orTxo[o].origin # NoOut => orTxo[o].stored)'
  <2>1. CASE o \in Outs(t)
    BY <1>2, <1>3, <2>1 DEF Sound, Origin
  <2>2. CASE o \notin Outs(t)
    BY <1>3, <1>5, <2>2 DEF Sound, Origin, OrInv
  <2> QED BY <2>1, <2>2
<1> QED BY <1>4, <1>5, <1>6

-----------------------------------------------------------------------------
\* A job between two steps of IngestTxid.
LEMMA Proceeds ==
  ASSUME NEW job \in Jobs, job.tx \in OrTx, OldHeight(job.height, job.tx),
         Len(job.spends) \in 0..Len(InsOf[job.tx]),
         \A i \in 1..Len(job.spends) :
           job.spends[i].stored /\ Sound(InsOf[job.tx][i], job.spends[i])
  PROVE  Proceed(job) \in Jobs /\ JobSound(Proceed(job))
  BY DEF Proceed, Jobs, JobSound

\* One more input is read.
LEMMA Reads ==
  ASSUME NEW job \in Jobs, JobSound(job), job.at \in {"spend", "parent"}, NEW x \in Txo,
         x.stored, Sound(InsOf[job.tx][Len(job.spends) + 1], x)
  PROVE  /\ Proceed([job EXCEPT !.spends = Append(@, x)]) \in Jobs
         /\ JobSound(Proceed([job EXCEPT !.spends = Append(@, x)]))
<1> DEFINE new == [job EXCEPT !.spends = Append(@, x)]
<1>1. job.tx \in OrTx /\ job.spends \in Seq(Txo)
  BY DEF Jobs, JobSound
<1>2. /\ Len(job.spends) \in Nat /\ Len(InsOf[job.tx]) \in Nat
      /\ Len(job.spends) < Len(InsOf[job.tx])
  BY <1>1, Inputs DEF JobSound
<1>3. /\ new \in Jobs /\ new.tx = job.tx /\ new.height = job.height
      /\ new.spends = Append(job.spends, x)
  BY SMTT(30), <1>1 DEF Jobs
<1>4. /\ Len(new.spends) = Len(job.spends) + 1
      /\ \A i \in 1..Len(new.spends) :
           new.spends[i] = IF i = Len(job.spends) + 1 THEN x ELSE job.spends[i]
  BY <1>1, <1>3
<1> HIDE DEF new
<1>5. \A i \in 1..Len(new.spends) :
        new.spends[i].stored /\ Sound(InsOf[new.tx][i], new.spends[i])
  BY <1>1, <1>2, <1>3, <1>4 DEF JobSound
<1>6. /\ new.tx \in OrTx /\ OldHeight(new.height, new.tx)
      /\ Len(new.spends) \in 0..Len(InsOf[new.tx])
  BY <1>1, <1>2, <1>3, <1>4 DEF JobSound
<1>7. Proceed(new) \in Jobs /\ JobSound(Proceed(new))
  BY <1>3, <1>5, <1>6, Proceeds
<1> QED BY <1>7 DEF new
-----------------------------------------------------------------------------
\* Every step keeps the invariant.

\* A step that stores nothing keeps the records.
LEMMA SameRecords ==
  ASSUME OrInv, UNCHANGED <<orTxo, orYoung>>
  PROVE  \A o \in OrOut : Sound(o, orTxo[o])' /\ (orTxo[o].origin # NoOut => orTxo[o].stored)'
  BY DEF OrInv, Sound, Origin

LEMMA SameJobs ==
  ASSUME OrInv, UNCHANGED <<orJob, orYoung>>
  PROVE  \A w \in Slot \cup Outside : JobSound(orJob[w])'
  BY ZenonT(40) DEF OrInv, JobSound, Sound, Origin

LEMMA IdleSound == JobIdle \in Jobs /\ JobSound(JobIdle) /\ JobSound(JobIdle)'
<1>1. <<>> \in Seq(Txo)
  OBVIOUS
<1> QED BY <1>1 DEF JobIdle, Jobs, JobSound, TRIGGER

LEMMA RunningSound ==
  ASSUME NEW t \in OrTx PROVE Running(t) \in Jobs /\ JobSound(Running(t))
<1>1. JobIdle \in Jobs /\ JobIdle.spends = <<>>
  BY IdleSound DEF JobIdle
<1>2. /\ Running(t) \in Jobs /\ Running(t).at = "load" /\ Running(t).tx = t
      /\ Running(t).spends = <<>>
  BY <1>1 DEF Running, Jobs
<1> QED BY <1>2 DEF JobSound

\* The steps of main, the dispatcher and the chain.
LEMMA MainStep ==
  ASSUME OrInv, OrMine \/ Take \/ TakeFailed \/ Search \/ Push \/ Wait
  PROVE  OrInv'
<1>1. UNCHANGED <<orTxo, orYoung, orJob>>
  BY DEF OrMine, Take, TakeFailed, Search, Push, Wait, orProcess
<1>2. \A q \in Seq(OrTx) : q # <<>> =>
        /\ Tail(q) \in Seq(OrTx) /\ Head(q) \in OrTx
        /\ Len(Tail(q)) = Len(q) - 1 /\ Len(q) \in Nat
  OBVIOUS
<1>3. \A o \in OrOut : TxOf[o] \in OrTx
  BY Owned
<1>4. OrTypeOK' /\ (orMain.at = "search" => orMain.todo = {})'
  <2>1. OrTypeOK /\ FailedCap \in Nat /\ (orMain.at = "search" => orMain.todo = {})
    BY OrBoundAssumption DEF OrInv
  <2>2. CASE OrMine
    BY <2>1, <2>2 DEF OrMine, OrTypeOK, orProcess
  <2>3. CASE Take
    BY <1>2, <2>1, <2>3 DEF Take, OrTypeOK
  <2>4. CASE TakeFailed
    BY <1>2, <2>1, <2>4 DEF TakeFailed, OrTypeOK
  <2>5. CASE Search
    BY <1>3, <2>1, <2>5 DEF Search, OrTypeOK
  <2>6. CASE Push
    <3>1. PICK t \in orMain.todo :
            orMain' = [orMain EXCEPT !.todo = @ \ {t}] /\ orQueue' = Append(orQueue, t)
      BY <2>6 DEF Push
    <3> QED BY <2>1, <2>6, <3>1 DEF Push, OrTypeOK
  <2>7. CASE Wait
    BY <2>1, <2>7 DEF Wait, OrTypeOK, MainStart
  <2> QED BY <2>2, <2>3, <2>4, <2>5, <2>6, <2>7
<1> QED BY <1>1, <1>4, SameRecords, SameJobs DEF OrInv

\* Steps that only move a job.
LEMMA JobStepInv ==
  ASSUME OrInv, NEW w \in Slot \cup Outside, NEW job \in Jobs, JobSound(job), Moves(w, job),
         UNCHANGED <<orTxo, orYoung>>,
         orMined' \subseteq OrTx, orLog' \subseteq OrOut, UNCHANGED orMain,
         orQueue' \in Seq(OrTx), orDisp' \in OrTx \cup {NoOut}, processed' \subseteq OrTx,
         failed' \in Seq(OrTx), Len(failed') <= FailedCap,
         orLeft' \in [{"fault", "restart", "other"} -> Nat]
  PROVE  OrInv'
<1>1. OrTypeOK'
  BY JobMoves DEF OrInv, OrTypeOK
<1> QED BY <1>1, JobMoves, SameRecords DEF OrInv

LEMMA Uses ==
  ASSUME OrTypeOK, NEW b \in {"fault", "restart", "other"}, OrUse(b)
  PROVE  orLeft' \in [{"fault", "restart", "other"} -> Nat]
  BY DEF OrTypeOK, OrUse

LEMMA LoadTxStep ==
  ASSUME OrInv, NEW w \in Slot \cup Outside, LoadTx(w)
  PROVE  OrInv'
<1> DEFINE job == orJob[w]
           new == [job EXCEPT !.height = HeightOf(job.tx)]
<1>1. OrTypeOK /\ job \in Jobs /\ JobSound(job) /\ job.at = "load"
  BY DEF OrInv, OrTypeOK, LoadTx
<1>2. job.tx \in OrTx /\ job.spends = <<>>
  BY <1>1 DEF JobSound
<1>3. HeightOf(job.tx) \in 0..TRIGGER /\ OldHeight(HeightOf(job.tx), job.tx)
  BY <1>1, <1>2, Heights
<1>4. /\ new \in Jobs /\ new.tx = job.tx /\ new.height = HeightOf(job.tx)
      /\ new.spends = <<>> /\ Len(new.spends) = 0
  BY <1>1, <1>2, <1>3 DEF Jobs
<1>5. Moves(w, Proceed(new))
  BY DEF LoadTx
<1> HIDE DEF new
<1>6. Proceed(new) \in Jobs /\ JobSound(Proceed(new))
  BY <1>2, <1>3, <1>4, Inputs, Proceeds
<1> QED BY <1>1, <1>5, <1>6, JobStepInv DEF LoadTx, OrTypeOK, orProcess

\* The record of an input.
LEMMA NextInput ==
  ASSUME OrInv, NEW w \in Slot \cup Outside, orJob[w].at \in {"spend", "parent"}
  PROVE  /\ orJob[w] \in Jobs /\ JobSound(orJob[w]) /\ orJob[w].tx \in OrTx
         /\ InsOf[orJob[w].tx][Len(orJob[w].spends) + 1] \in OrOut
<1>1. orJob[w] \in Jobs /\ JobSound(orJob[w])
  BY DEF OrInv, OrTypeOK
<1>2. orJob[w].tx \in OrTx /\ orJob[w].spends \in Seq(Txo)
  BY <1>1 DEF JobSound, Jobs
<1>3. Len(orJob[w].spends) + 1 \in 1..Len(InsOf[orJob[w].tx])
  BY <1>1, <1>2, Inputs DEF JobSound
<1> QED BY <1>1, <1>2, <1>3, Inputs

LEMMA ReadSpendStep ==
  ASSUME OrInv, NEW w \in Slot \cup Outside, ReadSpend(w)
  PROVE  OrInv'
<1> DEFINE job == orJob[w]
           o == InsOf[job.tx][Len(job.spends) + 1]
           spend == orTxo[o]
<1>1. job \in Jobs /\ JobSound(job) /\ job.tx \in OrTx /\ o \in OrOut /\ job.at = "spend"
  BY NextInput DEF ReadSpend
<1>2. spend \in Txo /\ Sound(o, spend) /\ OrTypeOK
  BY SMTT(30), <1>1 DEF OrInv, OrTypeOK
<1>3. CASE spend.stored
  <2>1. Moves(w, Proceed([job EXCEPT !.spends = Append(@, spend)]))
    BY SMTT(30), <1>3 DEF ReadSpend
  <2>2. /\ Proceed([job EXCEPT !.spends = Append(@, spend)]) \in Jobs
        /\ JobSound(Proceed([job EXCEPT !.spends = Append(@, spend)]))
    <3>1. /\ job \in Jobs /\ JobSound(job) /\ job.at \in {"spend", "parent"}
          /\ spend \in Txo /\ spend.stored
          /\ Sound(InsOf[job.tx][Len(job.spends) + 1], spend)
      BY <1>1, <1>2, <1>3
    <3> HIDE DEF job, o, spend
    <3> QED BY <3>1, Reads
  <2> QED BY <1>2, <2>1, <2>2, JobStepInv DEF ReadSpend, OrTypeOK, orProcess
<1>4. CASE ~spend.stored
  <2> DEFINE new == [job EXCEPT !.at = "parent"]
  <2>1. Moves(w, new)
    BY <1>4 DEF ReadSpend
  <2>2. new \in Jobs /\ JobSound(new)
    BY <1>1 DEF Jobs, JobSound
  <2> HIDE DEF new
  <2> QED BY <1>2, <2>1, <2>2, JobStepInv DEF ReadSpend, OrTypeOK, orProcess
<1> QED BY SMTT(30), <1>3, <1>4

\* A parent is parsed with none of its inputs: it has no origin yet.
LEMMA NoCarrier ==
  ASSUME NEW o \in OrOut PROVE Carriers[o][0] = {}
<1>1. Len(InsOf[TxOf[o]]) \in Nat
  BY Owned, Inputs
<1>2. 0 \in 0..Len(InsOf[TxOf[o]])
  BY <1>1
<1>3. Carriers[o][0] \subseteq 1..0
  BY <1>2, OneCarrier
<1> QED BY <1>3

LEMMA ParseBlind ==
  ASSUME NEW o \in OrOut, NEW h \in 0..TRIGGER, NEW s \in Seq(Txo), Len(s) = 0
  PROVE  /\ Parse(o, h, s) \in Txo /\ Parse(o, h, s).stored
         /\ Parse(o, h, s).height = h /\ Parse(o, h, s).origin = NoOut
<1>1. Parse(o, h, s) = [stored |-> TRUE, height |-> h,
                        data |-> Sats[o] = 1 /\ h \notin 1..(TRIGGER - 1), origin |-> NoOut]
  BY NoCarrier DEF Parse
<1> QED BY <1>1 DEF Txo

LEMMA SavesBlind ==
  ASSUME OrInv, NEW t \in OrTx, NEW h \in 0..TRIGGER, OldHeight(h, t),
         NEW s \in Seq(Txo), Len(s) = 0, SaveTxos(t, h, s), UNCHANGED orYoung
  PROVE  /\ orTxo' \in [OrOut -> Txo] /\ orLog' \subseteq OrOut
         /\ \A o \in OrOut : Sound(o, orTxo[o])' /\ (orTxo[o].origin # NoOut => orTxo[o].stored)'
<1>1. \A i \in 1..Len(s) : s[i].stored /\ Sound(InsOf[t][i], s[i])
  OBVIOUS
<1>2. Len(s) \in {0, Len(InsOf[t])}
  OBVIOUS
<1>3. \A o \in Outs(t) : Carriers[o][Len(s)] = {}
  BY NoCarrier, Inputs
<1>4. orYoung' = orYoung \cup {o \in Outs(t) : \E i \in Carriers[o][Len(s)] :
                                 Sats[InsOf[t][i]] = 1 /\ s[i].height = 0}
  BY SMTT(30), <1>3
<1> QED BY <1>1, <1>2, <1>4, Saves

LEMMA LoadParentStep ==
  ASSUME OrInv, NEW w \in Slot \cup Outside, LoadParent(w)
  PROVE  OrInv'
<1> DEFINE job == orJob[w]
           o == InsOf[job.tx][Len(job.spends) + 1]
           t == TxOf[o]
           h == HeightOf(t)
           x == Parse(o, h, <<>>)
           new == Proceed([job EXCEPT !.spends = Append(@, x)])
<1>1. job \in Jobs /\ JobSound(job) /\ job.tx \in OrTx /\ o \in OrOut /\ job.at = "parent"
  BY NextInput DEF LoadParent
<1>2. OrTypeOK /\ t \in OrTx /\ h \in 0..TRIGGER /\ OldHeight(h, t)
  BY <1>1, Owned, Heights DEF OrInv
<1>3. <<>> \in Seq(Txo) /\ Len(<<>>) = 0
  OBVIOUS
<1>5. x \in Txo /\ x.stored /\ x.height = h /\ x.origin = NoOut
  <2> HIDE DEF h, o
  <2> QED BY <1>1, <1>2, <1>3, ParseBlind
<1>6. new \in Jobs /\ JobSound(new)
  <2>1. Sound(o, x)
    BY <1>2, <1>5 DEF Sound
  <2> HIDE DEF x
  <2> QED BY <1>1, <1>5, <2>1, Reads
<1>7. Moves(w, new) /\ UNCHANGED <<orMined, orProcess, orYoung, orLeft>>
  BY DEF LoadParent
<1>8. orJob' \in [Slot \cup Outside -> Jobs] /\ \A v \in Slot \cup Outside : JobSound(orJob[v])'
  <2> HIDE DEF new
  <2> QED BY <1>6, <1>7, JobMoves
<1>9. /\ orTxo' \in [OrOut -> Txo] /\ orLog' \subseteq OrOut
      /\ \A q \in OrOut : Sound(q, orTxo[q])' /\ (orTxo[q].origin # NoOut => orTxo[q].stored)'
  <2>1. CASE SaveTxos(t, h, <<>>)
    <3> HIDE DEF t, h
    <3> QED BY <1>2, <1>3, <1>7, <2>1, SavesBlind
  <2>2. CASE UNCHANGED <<orTxo, orLog>>
    BY <1>2, <1>7, <2>2, SameRecords DEF OrTypeOK
  <2> QED BY <2>1, <2>2 DEF LoadParent
<1> QED BY <1>2, <1>7, <1>8, <1>9 DEF OrInv, OrTypeOK, orProcess

LEMMA SaveStep ==
  ASSUME OrInv, NEW w \in Slot \cup Outside, Save(w)
  PROVE  OrInv'
<1> DEFINE job == orJob[w]
           new == IF w \in Slot THEN [job EXCEPT !.at = "queue"] ELSE JobIdle
<1>1. OrTypeOK /\ job \in Jobs /\ JobSound(job) /\ job.at = "save"
  BY DEF OrInv, OrTypeOK, Save
<1>2. /\ job.tx \in OrTx /\ job.height \in 0..TRIGGER /\ OldHeight(job.height, job.tx)
      /\ job.spends \in Seq(Txo) /\ Len(job.spends) = Len(InsOf[job.tx])
      /\ \A i \in 1..Len(job.spends) :
           job.spends[i].stored /\ Sound(InsOf[job.tx][i], job.spends[i])
  BY <1>1 DEF Jobs, JobSound
<1>3. new \in Jobs /\ JobSound(new)
  BY <1>1, IdleSound DEF Jobs, JobSound
<1>4. /\ SaveTxos(job.tx, job.height, job.spends) /\ Moves(w, new)
      /\ orYoung' = orYoung \cup
           {o \in Outs(job.tx) : \E i \in Carriers[o][Len(job.spends)] :
              Sats[InsOf[job.tx][i]] = 1 /\ job.spends[i].height = 0}
      /\ UNCHANGED <<orMined, orProcess, orLeft>>
  BY DEF Save
<1> HIDE DEF job, new
<1>5. /\ orTxo' \in [OrOut -> Txo] /\ orLog' \subseteq OrOut /\ orYoung' \subseteq OrOut
      /\ \A q \in OrOut : Sound(q, orTxo[q])' /\ (orTxo[q].origin # NoOut => orTxo[q].stored)'
  BY <1>2, <1>4, Saves
<1>6. orJob' \in [Slot \cup Outside -> Jobs] /\ \A v \in Slot \cup Outside : JobSound(orJob[v])'
  BY <1>3, <1>4, JobMoves
<1> QED BY <1>1, <1>4, <1>5, <1>6 DEF OrInv, OrTypeOK, orProcess

LEMMA LoadFailsStep ==
  ASSUME OrInv, NEW w \in Slot \cup Outside, LoadFails(w)
  PROVE  OrInv'
<1> DEFINE job == orJob[w]
           failing == [JobIdle EXCEPT !.at = "failing", !.tx = job.tx]
           new == IF w \in Slot THEN failing ELSE JobIdle
<1>1. OrTypeOK /\ JobSound(job) /\ job.at \in {"load", "parent"}
  BY DEF OrInv, OrTypeOK, LoadFails
<1>2. JobIdle \in Jobs /\ JobIdle.spends = <<>>
  BY IdleSound DEF JobIdle
<1>3. failing \in Jobs /\ failing.at = "failing" /\ failing.tx \in OrTx /\ failing.spends = <<>>
  BY <1>1, <1>2 DEF Jobs, JobSound
<1>4. new \in Jobs /\ JobSound(new)
  <2> HIDE DEF failing
  <2> QED BY <1>3, IdleSound DEF JobSound
<1>5. Moves(w, new) /\ OrUse("fault") /\ UNCHANGED <<orMined, orTxo, orLog, orProcess, orYoung>>
  BY DEF LoadFails
<1> HIDE DEF new
<1> QED BY <1>1, <1>4, <1>5, Uses, JobStepInv DEF OrTypeOK, orProcess

LEMMA QueueParentsStep ==
  ASSUME OrInv, NEW w \in Slot, QueueParents(w)
  PROVE  OrInv'
<1> DEFINE job == orJob[w]
           ins == InsOf[job.tx]
           new == [job EXCEPT !.at = "delog"]
<1>1. OrTypeOK /\ job \in Jobs /\ JobSound(job) /\ job.at = "queue"
  BY DEF OrInv, OrTypeOK, QueueParents
<1>2. new \in Jobs /\ JobSound(new) /\ job.tx \in OrTx
  BY <1>1 DEF Jobs, JobSound
<1>3. Moves(w, new)
  BY DEF QueueParents
<1>4. orQueue' \in Seq(OrTx)
  <2>1. PICK n \in 0..Len(ins) : \E parents \in [1..n -> DOMAIN ins] :
          orQueue' = orQueue \o [i \in 1..n |-> TxOf[ins[parents[i]]]]
    BY DEF QueueParents
  <2>2. PICK parents \in [1..n -> DOMAIN ins] :
          orQueue' = orQueue \o [i \in 1..n |-> TxOf[ins[parents[i]]]]
    BY <2>1
  <2>3. \A i \in 1..n : TxOf[ins[parents[i]]] \in OrTx
    BY <1>2, Inputs, Owned
  <2>4. [i \in 1..n |-> TxOf[ins[parents[i]]]] \in Seq(OrTx)
    BY <1>2, <2>3, Inputs
  <2> QED BY <1>1, <2>2, <2>4 DEF OrTypeOK
<1> HIDE DEF new
<1> QED BY <1>1, <1>2, <1>3, <1>4, JobStepInv DEF QueueParents, OrTypeOK

LEMMA DelogStep ==
  ASSUME OrInv, NEW w \in Slot, Delog(w)
  PROVE  OrInv'
<1>1. OrTypeOK /\ Moves(w, JobIdle)
  BY DEF OrInv, Delog
<1> QED BY <1>1, IdleSound, JobStepInv DEF Delog, OrTypeOK, orProcess

LEMMA ReportFailedStep ==
  ASSUME OrInv, NEW w \in Slot, ReportFailed(w)
  PROVE  OrInv'
<1>1. /\ OrTypeOK /\ Moves(w, JobIdle) /\ orJob[w].tx \in OrTx
      /\ failed' = Append(failed, orJob[w].tx) /\ Len(failed) < FailedCap
  BY DEF OrInv, ReportFailed, JobSound
<1>2. failed' \in Seq(OrTx) /\ Len(failed') <= FailedCap
  BY <1>1, OrBoundAssumption DEF OrTypeOK
<1> QED BY <1>1, <1>2, IdleSound, JobStepInv DEF ReportFailed, OrTypeOK

LEMMA SpawnStep ==
  ASSUME OrInv, Spawn
  PROVE  OrInv'
<1>1. PICK w \in Slot : Moves(w, Running(orDisp))
  BY DEF Spawn
<1>2. OrTypeOK /\ orDisp \in OrTx /\ orDisp' \in OrTx \cup {NoOut}
  BY DEF OrInv, OrTypeOK, Spawn
<1> QED BY <1>1, <1>2, RunningSound, JobStepInv DEF Spawn, OrTypeOK

LEMMA OtherStep ==
  ASSUME OrInv, Other
  PROVE  OrInv'
<1>1. PICK w \in Outside, t \in OrTx : Moves(w, Running(t))
  BY DEF Other
<1>2. OrTypeOK /\ OrUse("other") /\ UNCHANGED <<orMined, orTxo, orLog, orProcess, orYoung>>
  BY DEF OrInv, Other
<1> QED BY <1>1, <1>2, Uses, RunningSound, JobStepInv DEF OrTypeOK, orProcess

LEMMA RestartStep ==
  ASSUME OrInv, OrRestart
  PROVE  OrInv'
<1>1. /\ OrTypeOK /\ <<>> \in Seq(OrTx) /\ Len(<<>>) = 0 /\ FailedCap \in Nat
      /\ UNCHANGED <<orMined, orTxo, orLog, orYoung>>
  BY OrBoundAssumption DEF OrInv, OrRestart
<1>2. \A w \in Slot \cup Outside : orJob'[w] = IF w \in Slot THEN JobIdle ELSE orJob[w]
  BY <1>1 DEF OrRestart, OrTypeOK
<1>3. orJob' \in [Slot \cup Outside -> Jobs]
  BY <1>1, IdleSound DEF OrRestart, OrTypeOK
<1>4. \A w \in Slot \cup Outside : JobSound(orJob'[w])
  BY <1>2, IdleSound DEF OrInv
<1>5. ASSUME NEW w \in Slot \cup Outside PROVE JobSound(orJob[w])'
  BY <1>1, <1>4 DEF JobSound, Sound, Origin
<1>6. orMain' = [at |-> "search", todo |-> {}] /\ orLeft' \in [{"fault", "restart", "other"} -> Nat]
  BY <1>1, Uses DEF OrRestart, MainStart
<1>7. OrTypeOK'
  BY <1>1, <1>3, <1>6 DEF OrRestart, OrTypeOK
<1> QED BY <1>1, <1>5, <1>6, <1>7, SameRecords DEF OrInv

LEMMA OrStep == OrInv /\ [OrNext]_orVars => OrInv'
<1> SUFFICES ASSUME OrInv, [OrNext]_orVars PROVE OrInv'
  OBVIOUS
<1>1. CASE OrMine \/ Take \/ TakeFailed \/ Search \/ Push \/ Wait
  BY <1>1, MainStep
<1>2. CASE Other \/ OrRestart \/ Spawn
  BY <1>2, OtherStep, RestartStep, SpawnStep
<1>3. ASSUME NEW w \in Slot \cup Outside,
             LoadTx(w) \/ ReadSpend(w) \/ LoadParent(w) \/ LoadFails(w) \/ Save(w)
      PROVE  OrInv'
  BY <1>3, LoadTxStep, ReadSpendStep, LoadParentStep, LoadFailsStep, SaveStep
<1>4. ASSUME NEW w \in Slot, QueueParents(w) \/ Delog(w) \/ ReportFailed(w)
      PROVE  OrInv'
  BY <1>4, QueueParentsStep, DelogStep, ReportFailedStep
<1>5. CASE UNCHANGED orVars
  <2>1. UNCHANGED <<orMined, orTxo, orLog, orProcess, orJob, orYoung, orLeft>>
    BY <1>5 DEF orVars
  <2>2. OrTypeOK' /\ (orMain.at = "search" => orMain.todo = {})'
    BY <2>1 DEF OrInv, OrTypeOK, orProcess
  <2> QED BY <2>1, <2>2, SameRecords, SameJobs DEF OrInv
<1> QED BY <1>1, <1>2, <1>3, <1>4, <1>5 DEF OrNext

-----------------------------------------------------------------------------
\* origin.go:26-145: the queue, the records and what each goroutine holds have
\* their types through failed loads, restarts and lookups from outside.
THEOREM OrTypeCorrect == OrSpec => []OrTypeOK
<1>1. OrInv => OrTypeOK
  BY DEF OrInv
<1> QED BY <1>1, OrInitInv, OrStep, PTL DEF OrSpec

\* origin.go:62-91: whatever transactions are resolved at a time and in whatever
\* order, and whichever loads fail, an origin that was stored is the first
\* output of the line, or one that was taken for it while its own parent was
\* not known.
THEOREM OrOriginTrue == OrSpec => []OriginTrue
<1>1. OrInv => OriginTrue
  <2> SUFFICES ASSUME OrInv, NEW o \in OrOut, orTxo[o].origin \notin {NoOut, TrueOrigin(o)}
               PROVE  orTxo[o].origin \in Lineage[o] \cap orYoung
    BY DEF OriginTrue
  <2>1. Origin(o, orTxo[o].origin)
    BY DEF OrInv, Sound
  <2> QED BY <2>1, OneOrigin DEF Origin
<1> QED BY <1>1, OrInitInv, OrStep, PTL DEF OrSpec

-----------------------------------------------------------------------------
\* The two jobs together.

\* Whichever of the two jobs runs, the variables of both have their types.
THEOREM JobsTypeCorrect == JobsSpec => []JobsTypeOK
<1> DEFINE Inv == OsInv /\ OrInv
<1>1. JobsInit => Inv
  BY StartInv, OrInitInv DEF JobsInit
<1>2. Inv /\ [JobsNext]_jobVars => Inv'
  <2> SUFFICES ASSUME OsInv, OrInv, [JobsNext]_jobVars PROVE OsInv' /\ OrInv'
    OBVIOUS
  <2>1. [OsNext]_osVars /\ [OrNext]_orVars
    BY DEF JobsNext, jobVars
  <2> QED BY <2>1, NextInv, OrStep
<1>3. Inv => JobsTypeOK
  BY DEF JobsTypeOK, OsInv, OrInv
<1> QED BY <1>1, <1>2, <1>3, PTL DEF JobsSpec
=============================================================================
