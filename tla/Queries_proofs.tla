---------------------------- MODULE Queries_proofs ----------------------------
(***************************************************************************)
(* Proofs about Queries, for any keys, outputs, transactions and contents  *)
(* of the store, and any number of writes beside a request.                *)
(***************************************************************************)
EXTENDS Queries, FiniteSetTheorems, TLAPS

(***************************************************************************)
(* Requests.                                                               *)
(*                                                                         *)
(* Justified, NothingLeftOut and PanicsOnlyWhen speak of a request that is *)
(* answered. The invariant says at each stage what the request owes to all *)
(* that the store has held since it began: what it has looked at was       *)
(* there, what was there all the time it has met or may leave out, and     *)
(* why. The store may change between any two stages; what is owed only     *)
(* gets weaker.                                                            *)
(***************************************************************************)

(***************************************************************************)
(* The requests.                                                           *)
(***************************************************************************)
Once(s) == \A i, j \in DOMAIN s : s[i] = s[j] => i = j

\* What the routes make of their parameters.
CfgOK(cfg) ==
  /\ cfg \in SearchCfg /\ Once(cfg.keys)
  /\ cfg.kind \in Searches => cfg.outs = {}
  /\ cfg.kind \notin Searches => cfg.keys = <<>> /\ ~cfg.filter
  /\ cfg.kind \in {"txns", "spend", "spends"} => ~cfg.txo
  /\ cfg.kind \in {"ancestors", "txns", "balance"} => ~cfg.filter /\ ~cfg.spend

LEMMA AskOK ==
  ASSUME NEW kind \in QKinds, NEW keys \in Seq(QKey), NEW outs \in SUBSET QOut
  PROVE  /\ Ask(kind, keys, outs) \in SearchCfg
         /\ Ask(kind, keys, outs).kind = kind /\ Ask(kind, keys, outs).keys = keys
         /\ Ask(kind, keys, outs).outs = outs
         /\ ~Ask(kind, keys, outs).txo /\ ~Ask(kind, keys, outs).filter
         /\ ~Ask(kind, keys, outs).spend
  BY DEF Ask, SearchCfg, NoFrom

LEMMA OwnersOK == \A s \in Owners : s \in Seq(QKey) /\ Once(s)
<1>1. Cardinality(QKey) \in Nat
  BY FS_CardinalityType, QNumberAssumption
<1>2. ASSUME NEW s \in Owners PROVE s \in Seq(QKey) /\ Once(s)
  <2>1. PICK n \in 1..Cardinality(QKey) : s \in [1..n -> QKey]
    BY DEF Owners
  <2>2. n \in Nat
    BY <1>1
  <2> QED BY <2>1, <2>2 DEF Owners, Once
<1> QED BY <1>2

LEMMA OneKeyOK == \A s \in OneKey : s \in Seq(QKey) /\ Once(s)
<1>1. \A k \in QKey : <<k>> \in Seq(QKey) /\ Once(<<k>>)
  BY DEF Once
<1> QED BY <1>1 DEF OneKey

LEMMA ListingOK ==
  ASSUME NEW kind \in {"txos", "txns"}, NEW keys, NEW flags, NEW refreshes,
         \A s \in keys : s \in Seq(QKey) /\ Once(s),
         flags \subseteq BOOLEAN, refreshes \subseteq BOOLEAN,
         kind = "txns" => flags = {FALSE},
         NEW cfg \in Listing(kind, keys, flags, refreshes)
  PROVE  CfgOK(cfg) /\ cfg.kind = kind
<1>1. cfg \in SearchCfg /\ cfg.kind = kind /\ cfg.keys \in keys /\ cfg.outs = {}
      /\ cfg.txo \in flags /\ cfg.spend \in flags /\ cfg.filter \in flags
  BY DEF Listing, SearchCfg, QKinds
<1> QED BY <1>1 DEF CfgOK, Searches

LEMMA OriginOK ==
  ASSUME NEW kind \in {"txos", "ancestors"}, NEW cfg \in OfOrigin(kind)
  PROVE  CfgOK(cfg) /\ cfg.kind = kind
<1>1. /\ cfg \in SearchCfg /\ cfg.kind = kind /\ cfg.keys \in OneKey /\ cfg.outs = {}
      /\ ~cfg.filter /\ ~cfg.spend
  BY OneKeyOK DEF OfOrigin, SearchCfg, QKinds, NoFrom
<1> QED BY <1>1, OneKeyOK DEF CfgOK, Searches

LEMMA NamedOK ==
  ASSUME NEW kind \in {"txo", "load", "txid"}, NEW O \in SUBSET QOut, NEW x \in BOOLEAN
  PROVE  /\ CfgOK([Ask(kind, <<>>, O) EXCEPT !.spend = x])
         /\ [Ask(kind, <<>>, O) EXCEPT !.spend = x].kind = kind
<1> DEFINE a == Ask(kind, <<>>, O)
           cfg == [a EXCEPT !.spend = x]
<1>1. kind \in QKinds /\ <<>> \in Seq(QKey) /\ Once(<<>>)
  BY DEF QKinds, Once
<1>2. a \in SearchCfg /\ a.kind = kind /\ a.keys = <<>> /\ ~a.filter
  BY <1>1, AskOK
<1> HIDE DEF a
<1>3. cfg \in SearchCfg /\ cfg.kind = kind /\ cfg.keys = <<>> /\ ~cfg.filter
  BY <1>2 DEF SearchCfg
<1> HIDE DEF cfg
<1>4. CfgOK(cfg) /\ cfg.kind = kind
  BY <1>1, <1>3 DEF CfgOK, Searches
<1> QED BY <1>4 DEF cfg, a

LEMMA SpendOK ==
  ASSUME NEW kind \in {"spend", "spends"}, NEW O \in SUBSET QOut
  PROVE  /\ CfgOK([Ask(kind, <<>>, O) EXCEPT !.refresh = TRUE])
         /\ [Ask(kind, <<>>, O) EXCEPT !.refresh = TRUE].kind = kind
<1> DEFINE a == Ask(kind, <<>>, O)
           cfg == [a EXCEPT !.refresh = TRUE]
<1>1. kind \in QKinds /\ <<>> \in Seq(QKey) /\ Once(<<>>)
  BY DEF QKinds, Once
<1>2. a \in SearchCfg /\ a.kind = kind /\ a.keys = <<>> /\ ~a.filter /\ ~a.txo
  BY <1>1, AskOK
<1> HIDE DEF a
<1>3. cfg \in SearchCfg /\ cfg.kind = kind /\ cfg.keys = <<>> /\ ~cfg.filter /\ ~cfg.txo
  BY <1>2 DEF SearchCfg
<1> HIDE DEF cfg
<1>4. CfgOK(cfg) /\ cfg.kind = kind
  BY <1>1, <1>3 DEF CfgOK, Searches
<1> QED BY <1>4 DEF cfg, a

LEMMA RequestsOK ==
  \A cfg \in Requests : CfgOK(cfg) /\ (cfg.kind = "ancestors" => cfg \in OriginAncestors)
<1> SUFFICES ASSUME NEW cfg \in Requests
             PROVE  CfgOK(cfg) /\ (cfg.kind = "ancestors" => cfg \in OriginAncestors)
  OBVIOUS
<1>0. <<>> \in Seq(QKey) /\ Once(<<>>)
  BY DEF Once
<1>1. CASE cfg \in OwnerTxos \cup TxosByEvent \cup TxosByTag
  BY <1>1, OneKeyOK, ListingOK DEF OwnerTxos, TxosByEvent, TxosByTag
<1>2. CASE cfg \in AccountTxos
  BY <1>2, OwnersOK, ListingOK DEF AccountTxos
<1>3. CASE cfg \in Balances
  <2>1. PICK s \in Owners, j \in BOOLEAN : cfg = [Ask("balance", s, {}) EXCEPT !.refresh = j]
    BY <1>3 DEF Balances
  <2> DEFINE a == Ask("balance", s, {})
  <2>2. /\ a \in SearchCfg /\ a.kind = "balance" /\ a.keys = s /\ a.outs = {} /\ Once(s)
        /\ ~a.filter /\ ~a.spend
        /\ cfg = [a EXCEPT !.refresh = j]
    BY <2>1, OwnersOK, AskOK DEF QKinds
  <2> HIDE DEF a
  <2>3. /\ cfg \in SearchCfg /\ cfg.kind = "balance" /\ cfg.keys = s /\ cfg.outs = {}
        /\ ~cfg.filter /\ ~cfg.spend
    BY <2>2 DEF SearchCfg
  <2> QED BY <2>2, <2>3 DEF CfgOK, Searches
<1>4. CASE cfg \in AccountActivity
  BY <1>4, OwnersOK, ListingOK DEF AccountActivity
<1>5. CASE cfg \in OriginsHistory \cup OriginsAncestors
  BY <1>5, OriginOK DEF OriginsHistory, OriginsAncestors, OriginHistory
<1>6. CASE cfg \in OriginAncestors
  BY <1>6, OriginOK DEF OriginAncestors
<1>7. CASE cfg \in GetTxo
  <2>1. PICK O \in {{o} : o \in QOut}, x \in BOOLEAN :
          cfg = [Ask("txo", <<>>, O) EXCEPT !.spend = x]
    BY <1>7 DEF GetTxo
  <2> QED BY <2>1, NamedOK
<1>8. CASE cfg \in GetTxos
  <2>1. PICK O \in SUBSET QOut, x \in BOOLEAN : cfg = [Ask("load", <<>>, O) EXCEPT !.spend = x]
    BY <1>8 DEF GetTxos
  <2> QED BY <2>1, NamedOK
<1>9. CASE cfg \in TxosByTxid
  <2>1. PICK t \in QTxid, x \in BOOLEAN :
          cfg = [Ask("txid", <<>>, {o \in QOut : TxidOf[o] = t}) EXCEPT !.spend = x]
    BY <1>9 DEF TxosByTxid
  <2> QED BY <2>1, NamedOK
<1>10. CASE cfg \in GetSpend
  <2>1. PICK o \in QOut : cfg = [Ask("spend", <<>>, {o}) EXCEPT !.refresh = TRUE]
    BY <1>10 DEF GetSpend
  <2> QED BY <2>1, SpendOK
<1>11. CASE cfg \in GetSpends
  <2>1. PICK O \in SUBSET QOut : cfg = [Ask("spends", <<>>, O) EXCEPT !.refresh = TRUE]
    BY <1>11 DEF GetSpends
  <2> QED BY <2>1, SpendOK
<1> QED BY <1>1, <1>2, <1>3, <1>4, <1>5, <1>6, <1>7,
           <1>8, <1>9, <1>10, <1>11 DEF Requests

(***************************************************************************)
(* The invariant of a request: what its state owes to the store so far.    *)
(* The operators take the backend, what the store held, and the request.   *)
(***************************************************************************)
\* Why an entry that was there all the time may be missing.
MayMiss(b, s, r, e) ==
  \/ b # "redis" /\ CutOff(r.cfg, r.looked, e)
  \/ b = "redis" /\ CutOff(r.cfg, {f \in r.looked : f[1] = e[1]}, e)
  \/ b = "redis" /\ CutOff(r.cfg, r.rows, e)
  \/ b = "redis" /\ \E f \in s.ever : f[1] # e[1] /\ f[2] = e[2] /\ f[3] # e[3]
  \/ (Unspent(r.cfg) \/ Recorded(r.cfg)) /\ e[2] \in QTxid \cup s.gone
  \/ (Unspent(r.cfg) \/ (b # "redis" /\ r.cfg.refresh)) /\ EverSpent(s, e[2])

Covers(b, s, r, ms) ==
  \A e \in s.always : Searched(r.cfg, e) => e[2] \in ms \/ MayMiss(b, s, r, e)
Entered(s, r, ms) ==
  r.cfg.keys # <<>> => \A m \in ms : \E e \in s.ever : e[2] = m /\ Searched(r.cfg, e)
Listed(b, s, r, ms) == Entered(s, r, ms) /\ Covers(b, s, r, ms)
Free(s, ms) == \A m \in ms : m \in QOut /\ <<m, QNone>> \in s.marks

RequestType ==
  [at : Stages, cfg : SearchCfg, todo : Seq(QKey), rows : SUBSET Entry, looked : SUBSET Entry,
   left : SUBSET (Entry \cup Member), list : SUBSET Member, known : SUBSET QMarks,
   answer : SUBSET Member, shown : SUBSET QMarks, outcome : {"none", "ok", "error", "panic"}]
SeenType ==
  [ever : SUBSET Entry, always : SUBSET Entry, marks : SUBSET QMarks, saved : SUBSET QOut,
   gone : SUBSET QOut, bare : SUBSET QOut, said : SUBSET (QOut \X QTxid)]

Basic(s, r) ==
  /\ r \in RequestType
  /\ r.at # "idle" => r.cfg \in Requests
  /\ r.at = "end" <=> r.outcome # "none"
  /\ r.rows \subseteq r.looked /\ r.looked \subseteq s.ever
  /\ \A e \in r.looked : Searched(r.cfg, e)
  /\ \A p \in r.known : p[1] \in QOut => p \in Told(s)

Blank(r) == r.looked = {} /\ r.known = {}

AtOrigin(r) == r.cfg.kind = "ancestors" /\ Blank(r)

\* What became of an entry whose key has been searched.
Met(r, e) ==
  \/ \E f \in r.rows : f[2] = e[2] /\ (f = e \/ f[1] # e[1])
  \/ CutOff(r.cfg, {f \in r.looked : f[1] = e[1]}, e)
  \/ Unspent(r.cfg) /\ e[2] \in QTxid

Ranged(b, s, r) ==
  /\ b = "redis" /\ r.cfg.kind \in Searches
  /\ r.known = {}
  /\ Unspent(r.cfg) => MembersOf(r.rows) \subseteq QOut
  /\ \A e \in s.always : Searched(r.cfg, e) /\ e[1] \notin Keys(r) => Met(r, e)

AtRange(b, s, r) ==
  /\ Ranged(b, s, r)
  /\ Once(r.todo) /\ Keys(r) \subseteq KeysOf(r.cfg)
  /\ \A f \in r.looked : f[1] \notin Keys(r)

AtSelect(b, r) ==
  b # "redis" /\ r.cfg.kind \in Searches /\ Keys(r) = KeysOf(r.cfg) /\ Blank(r)

Selected(b, s, r) ==
  /\ b # "redis" /\ r.cfg.kind \in Searches /\ r.known = {}
  /\ r.left # {} => r.cfg.refresh
  /\ r.left \subseteq Entry
  /\ \A e \in s.always : Searched(r.cfg, e) => e \in r.rows \/ MayMiss(b, s, r, e)
  /\ Unspent(r.cfg) => Free(s, MembersOf(r.rows))

AtMarks(b, s, r) ==
  \/ r.cfg.kind \in {"spend", "spends"} /\ r.list \subseteq r.cfg.outs
  \/ /\ b = "redis" /\ r.cfg.kind \in {"txos", "balance"}
     /\ Listed(b, s, r, r.list)
     /\ Unspent(r.cfg) => r.list \subseteq QOut

AtAsk(b, s, r) ==
  /\ AtMarks(b, s, r)
  /\ r.left \subseteq r.list
  /\ \A p \in r.known : p[1] \in r.list
  /\ \A m \in r.list : \E p \in r.known : p[1] = m

AtLoad(b, s, r) ==
  /\ r.cfg.kind \notin {"txns", "spend", "spends"}
  /\ b # "redis" => Recorded(r.cfg)
  /\ b # "redis" \/ r.cfg.kind \notin Searches => r.list \subseteq QOut
  /\ b = "redis" /\ ~Unspent(r.cfg) => \A p \in r.known : p[1] \in r.list
  /\ Listed(b, s, r, r.list)
  /\ Unspent(r.cfg) => Free(s, r.list)

Answers(b, s, r) ==
  /\ Listed(b, s, r, r.answer)
  /\ Unspent(r.cfg) => Free(s, r.answer)
  /\ Recorded(r.cfg) =>
       r.answer \subseteq s.saved \cup (IF b = "pg" THEN s.bare ELSE {})

AtShown(b, s, r) ==
  /\ b = "redis" /\ Recorded(r.cfg) /\ r.cfg.spend
  /\ r.answer \subseteq r.list /\ r.list \ r.answer \subseteq s.gone \cup QTxid
  /\ Answers(b, s, r)

Shows(b, s, r) ==
  \A p \in r.shown :
    \/ p \in Told(s)
    \/ /\ b = "redis" /\ r.cfg.kind \in {"txos", "ancestors"} /\ ~r.cfg.txo
       /\ \E o \in r.answer : <<o, p[2]>> \in Told(s)
    \/ /\ b = "pg" /\ r.cfg.kind = "spends"
       /\ \E o \in r.cfg.outs : <<o, p[2]>> \in Told(s)

Panics(b, s, r) ==
  \/ r.cfg.kind = "ancestors"
  \/ /\ b = "redis"
     /\ \/ r.cfg.kind = "txos" /\ r.cfg.filter /\ r.cfg.spend /\ ~r.cfg.txo
        \/ /\ Recorded(r.cfg) /\ (r.cfg.spend \/ r.cfg.kind = "balance")
           /\ r.list \cap (s.gone \cup QTxid) # {}
  \/ b = "sqlite" /\ (r.cfg.kind = "spends" \/ s.bare # {})

AtEnd(b, s, r) ==
  /\ r.outcome = "ok" => Answers(b, s, r) /\ Shows(b, s, r)
  /\ r.outcome = "panic" => Panics(b, s, r)

Staged(b, s, r) ==
  /\ r.at = "idle" => r = QIdle
  /\ r.at = "origin" => AtOrigin(r)
  /\ r.at = "range" => AtRange(b, s, r)
  /\ r.at = "select" => AtSelect(b, r)
  /\ r.at = "refresh" => Selected(b, s, r)
  /\ r.at = "marks" => AtMarks(b, s, r) /\ r.known = {}
  /\ r.at = "ask" => AtAsk(b, s, r)
  /\ r.at = "scan" => r.cfg.kind = "txid" /\ r.list \subseteq QOut /\ r.known = {}
  /\ r.at = "load" => AtLoad(b, s, r)
  /\ r.at = "shown" => AtShown(b, s, r)
  /\ r.at = "end" => AtEnd(b, s, r)

ReqInv(b, s, r) == Basic(s, r) /\ Staged(b, s, r)

StoreOK ==
  /\ qBackend \in QBackends
  /\ qLog \subseteq Entry /\ qSaved \subseteq qRow /\ qRow \subseteq QOut
  /\ qBackend = "redis" => qRow = qSaved
  /\ qMark \in [QOut -> QTxid \cup {QNone}]
  /\ qBackend # "redis" => \A o \in QOut : qMark[o] # QNone => o \in qRow
  /\ \A e, f \in qLog : e[1] = f[1] /\ e[2] = f[2] => e = f
  /\ writes \in 0..MaxWrites

\* The ghost holds what the store holds.
Witnessed ==
  /\ qLog \subseteq seen.ever /\ seen.always \subseteq qLog
  /\ \A o \in QOut : <<o, qMark[o]>> \in seen.marks
  /\ qSaved \subseteq seen.saved /\ QOut \ qSaved \subseteq seen.gone
  /\ qRow \ qSaved \subseteq seen.bare

QInv ==
  /\ StoreOK /\ seen \in SeenType
  /\ req.at # "idle" => Witnessed
  /\ ReqInv(qBackend, seen, req)

(***************************************************************************)
(* What a request owes to the store it still owes when more was seen.      *)
(***************************************************************************)
Grows(s, t) ==
  /\ s.ever \subseteq t.ever /\ t.always \subseteq s.always /\ s.marks \subseteq t.marks
  /\ s.saved \subseteq t.saved /\ s.gone \subseteq t.gone /\ s.bare \subseteq t.bare
  /\ s.said \subseteq t.said

LEMMA MayMissGrows ==
  ASSUME NEW b, NEW s, NEW t, Grows(s, t), NEW r, NEW e, MayMiss(b, s, r, e)
  PROVE  MayMiss(b, t, r, e)
<1>1. s.gone \subseteq t.gone /\ s.ever \subseteq t.ever
  BY DEF Grows
<1>2. EverSpent(s, e[2]) => EverSpent(t, e[2])
  BY DEF Grows, EverSpent, Told
<1> QED BY <1>1, <1>2 DEF MayMiss

LEMMA ListedGrows ==
  ASSUME NEW b, NEW s, NEW t, Grows(s, t), NEW r, NEW ms, Listed(b, s, r, ms)
  PROVE  Listed(b, t, r, ms)
<1>1. Entered(t, r, ms)
  BY DEF Grows, Listed, Entered
<1>2. Covers(b, t, r, ms)
  BY MayMissGrows DEF Listed, Covers, Grows
<1> QED BY <1>1, <1>2 DEF Listed

LEMMA FreeGrows ==
  ASSUME NEW s, NEW t, Grows(s, t), NEW ms, Free(s, ms) PROVE Free(t, ms)
  BY DEF Grows, Free

LEMMA AnswersGrow ==
  ASSUME NEW b, NEW s, NEW t, Grows(s, t), NEW r, Answers(b, s, r)
  PROVE  Answers(b, t, r)
<1>1. Listed(b, t, r, r.answer) /\ (Unspent(r.cfg) => Free(t, r.answer))
  BY ListedGrows, FreeGrows DEF Answers
<1>2. s.saved \subseteq t.saved /\ s.bare \subseteq t.bare
  BY DEF Grows
<1> QED BY <1>1, <1>2 DEF Answers

LEMMA InvGrows ==
  ASSUME NEW b, NEW s, NEW t, Grows(s, t), NEW r, ReqInv(b, s, r)
  PROVE  ReqInv(b, t, r)
<1> USE DEF ReqInv
<1>1. Basic(t, r)
  BY DEF Basic, Grows, Told
<1>2. AtRange(b, s, r) => AtRange(b, t, r)
  BY DEF AtRange, Ranged, Grows
<1>3. Selected(b, s, r) => Selected(b, t, r)
  BY MayMissGrows, FreeGrows DEF Selected, Grows
<1>4. AtMarks(b, s, r) => AtMarks(b, t, r)
  BY ListedGrows DEF AtMarks
<1>5. AtAsk(b, s, r) => AtAsk(b, t, r)
  BY <1>4 DEF AtAsk
<1>6. AtLoad(b, s, r) => AtLoad(b, t, r)
  BY ListedGrows, FreeGrows DEF AtLoad
<1>7. AtShown(b, s, r) => AtShown(b, t, r)
  BY AnswersGrow DEF AtShown, Grows
<1>8. AtEnd(b, s, r) => AtEnd(b, t, r)
  <2>1. Shows(b, s, r) => Shows(b, t, r)
    BY DEF Shows, Told, Grows
  <2>2. Panics(b, s, r) => Panics(b, t, r)
    <3>1. s.gone \subseteq t.gone /\ s.bare \subseteq t.bare
      BY DEF Grows
    <3> QED BY <3>1 DEF Panics
  <2> QED BY <2>1, <2>2, AnswersGrow DEF AtEnd
<1>9. Staged(b, t, r)
  BY <1>2, <1>3, <1>4, <1>5, <1>6, <1>7, <1>8 DEF Staged
<1> QED BY <1>1, <1>9

(***************************************************************************)
(* The answers.                                                            *)
(***************************************************************************)
LEMMA SameListed ==
  ASSUME NEW b, NEW s, NEW r, NEW q, NEW ms, q.cfg = r.cfg, q.looked = r.looked,
         b = "redis" => q.rows = r.rows
  PROVE  Listed(b, s, q, ms) <=> Listed(b, s, r, ms)
<1>1. \A e : MayMiss(b, s, q, e) <=> MayMiss(b, s, r, e)
  BY DEF MayMiss
<1> QED BY <1>1 DEF Listed, Entered, Covers

LEMMA FinishOK ==
  ASSUME NEW b, NEW s, NEW r, Basic(s, r), r.at # "idle",
         NEW outcome \in {"error", "panic"}, outcome = "panic" => Panics(b, s, r)
  PROVE  ReqInv(b, s, Finish(r, outcome))
<1> DEFINE q == Finish(r, outcome)
<1>1. /\ q \in RequestType /\ q.at = "end" /\ q.outcome = outcome /\ q.cfg = r.cfg
      /\ q.rows = r.rows /\ q.looked = r.looked /\ q.known = r.known /\ q.list = r.list
  BY DEF Basic, RequestType, Finish, Stages
<1> HIDE DEF q
<1>2. Basic(s, q)
  BY <1>1 DEF Basic
<1>3. AtEnd(b, s, q)
  BY <1>1 DEF AtEnd, Panics
<1>4. Staged(b, s, q)
  BY <1>1, <1>3 DEF Staged
<1>5. ReqInv(b, s, q)
  BY <1>2, <1>4 DEF ReqInv
<1> QED BY <1>5 DEF q

LEMMA RespondOK ==
  ASSUME NEW b, NEW s, NEW r, Basic(s, r), r.at # "idle",
         NEW answer \in SUBSET Member, NEW shown \in SUBSET QMarks,
         Listed(b, s, r, answer), Unspent(r.cfg) => Free(s, answer),
         Recorded(r.cfg) =>
           answer \subseteq s.saved \cup (IF b = "pg" THEN s.bare ELSE {}),
         \A p \in shown :
           \/ p \in Told(s)
           \/ /\ b = "redis" /\ r.cfg.kind \in {"txos", "ancestors"} /\ ~r.cfg.txo
              /\ \E o \in answer : <<o, p[2]>> \in Told(s)
           \/ /\ b = "pg" /\ r.cfg.kind = "spends"
              /\ \E o \in r.cfg.outs : <<o, p[2]>> \in Told(s)
  PROVE  ReqInv(b, s, Respond(r, answer, shown))
<1> DEFINE q == Respond(r, answer, shown)
<1>1. /\ q \in RequestType /\ q.at = "end" /\ q.outcome = "ok" /\ q.cfg = r.cfg
      /\ q.rows = r.rows /\ q.looked = r.looked /\ q.known = r.known
      /\ q.answer = answer /\ q.shown = shown
  BY DEF Basic, RequestType, Respond, Finish, Stages
<1> HIDE DEF q
<1>2. Basic(s, q)
  BY <1>1 DEF Basic
<1>3. Answers(b, s, q)
  BY <1>1, SameListed DEF Answers
<1>4. Shows(b, s, q)
  BY <1>1 DEF Shows
<1>5. Staged(b, s, q)
  BY <1>1, <1>3, <1>4 DEF Staged, AtEnd
<1>6. ReqInv(b, s, q)
  BY <1>2, <1>5 DEF ReqInv
<1> QED BY <1>6 DEF q

\* A request that names what it wants is answered without the log.
LEMMA NamedListed ==
  ASSUME NEW b, NEW s, NEW r, CfgOK(r.cfg), r.cfg.kind \notin Searches, NEW ms
  PROVE  Listed(b, s, r, ms)
  BY DEF CfgOK, Listed, Entered, Covers, Searched

LEMMA RowsListed ==
  ASSUME NEW b, NEW s, NEW r, Basic(s, r), Selected(b, s, r)
  PROVE  /\ MembersOf(r.rows) \in SUBSET Member
         /\ Listed(b, s, r, MembersOf(r.rows))
<1>1. r.rows \subseteq Entry /\ r.rows \subseteq s.ever /\ \A e \in r.rows : Searched(r.cfg, e)
  BY DEF Basic, RequestType
<1>2. MembersOf(r.rows) \in SUBSET Member
  BY <1>1 DEF MembersOf, Entry
<1>3. Entered(s, r, MembersOf(r.rows))
  BY <1>1 DEF Entered, MembersOf
<1>4. Covers(b, s, r, MembersOf(r.rows))
  BY DEF Covers, MembersOf, Selected
<1> QED BY <1>2, <1>3, <1>4 DEF Listed

LEMMA UnrecordedSQLOK ==
  ASSUME NEW b, NEW s, NEW r, Basic(s, r), r.at # "idle", ~Recorded(r.cfg),
         NEW list \in SUBSET Member, Listed(b, s, r, list),
         Unspent(r.cfg) => Free(s, list), NEW q \in UnrecordedSQL(r, list)
  PROVE  ReqInv(b, s, q)
<1>1. CASE q = Finish(r, "error")
  BY <1>1, FinishOK
<1>2. CASE q = Respond(r, list, {})
  BY <1>2, RespondOK
<1> QED BY <1>1, <1>2 DEF UnrecordedSQL

LEMMA AfterRowsOK ==
  ASSUME NEW b, NEW s, NEW r, Basic(s, r), r.at \notin {"idle", "end"},
         Selected(b, s, r), NEW q \in AfterRows(r)
  PROVE  ReqInv(b, s, q)
<1> DEFINE list == MembersOf(r.rows)
<1>1. list \in SUBSET Member /\ Listed(b, s, r, list)
  BY RowsListed
<1>2. Unspent(r.cfg) => Free(s, list)
  BY DEF Selected
<1>3. CfgOK(r.cfg)
  BY RequestsOK DEF Basic
<1>4. b # "redis" /\ r.cfg.kind \in Searches
  BY DEF Selected
<1> HIDE DEF list
<1>5. CASE r.cfg.kind = "txns"
  <2>1. ~Recorded(r.cfg)
    BY <1>3, <1>5 DEF CfgOK, Recorded
  <2>2. q = Respond(r, list, {})
    <3>1. ~r.cfg.txo
      BY <1>3, <1>5 DEF CfgOK
    <3> QED BY <3>1, <1>5 DEF AfterRows, list
  <2> QED BY <2>1, <2>2, <1>1, <1>2, RespondOK
<1>6. CASE r.cfg.kind # "txns" /\ (r.cfg.kind = "balance" \/ r.cfg.txo)
  <2>1. q = [r EXCEPT !.at = "load", !.list = list \cap QOut]
    <3>1. r.cfg.txo \in BOOLEAN /\ (r.cfg.kind = "balance" \/ r.cfg.txo = TRUE)
      BY <1>3, <1>6 DEF CfgOK, SearchCfg
    <3> QED BY <3>1, <1>6 DEF AfterRows, list
  <2>2. /\ q \in RequestType /\ q.at = "load" /\ q.outcome = r.outcome /\ q.cfg = r.cfg
        /\ q.rows = r.rows /\ q.looked = r.looked /\ q.known = r.known
        /\ q.list = list \cap QOut
    BY <2>1, <1>1 DEF Basic, RequestType, Stages, Member
  <2>3. Basic(s, q)
    BY <2>2 DEF Basic
  <2>4. Recorded(r.cfg)
    BY <1>6 DEF Recorded
  <2>5. Listed(b, s, r, list \cap QOut)
    <3>1. Entered(s, r, list \cap QOut)
      BY <1>1 DEF Listed, Entered
    <3>2. Covers(b, s, r, list \cap QOut)
      BY <1>1, <2>4 DEF Listed, Covers, MayMiss, Member
    <3> QED BY <3>1, <3>2 DEF Listed
  <2>6. Listed(b, s, q, q.list)
    BY <2>2, <2>5, SameListed
  <2>7. Unspent(q.cfg) => Free(s, q.list)
    BY <2>2, <1>2 DEF Free
  <2>8. AtLoad(b, s, q)
    BY <2>2, <2>4, <2>6, <2>7, <1>4, <1>6 DEF AtLoad, Searches
  <2> QED BY <2>2, <2>3, <2>8 DEF ReqInv, Staged
<1>7. CASE r.cfg.kind # "txns" /\ ~(r.cfg.kind = "balance" \/ r.cfg.txo)
  <2>1. ~Recorded(r.cfg)
    BY <1>4, <1>7 DEF Recorded, Searches
  <2>2. q \in UnrecordedSQL(r, list)
    BY <1>7 DEF AfterRows, list
  <2> QED BY <2>1, <2>2, <1>1, <1>2, UnrecordedSQLOK
<1> QED BY <1>5, <1>6, <1>7

LEMMA RefreshedOK ==
  ASSUME NEW b, NEW s, NEW r, Basic(s, r), r.at \notin {"idle", "end"},
         Selected(b, s, r), NEW q \in Refreshed(r)
  PROVE  ReqInv(b, s, q)
<1>1. CASE r.left = {}
  BY <1>1, AfterRowsOK DEF Refreshed
<1>2. CASE r.left # {}
  <2>1. q = [r EXCEPT !.at = "refresh"]
    BY <1>2 DEF Refreshed
  <2>2. /\ q \in RequestType /\ q.at = "refresh" /\ q.outcome = r.outcome /\ q.cfg = r.cfg
        /\ q.rows = r.rows /\ q.looked = r.looked /\ q.known = r.known /\ q.left = r.left
    BY <2>1 DEF Basic, RequestType, Stages
  <2>3. Basic(s, q)
    BY <2>2 DEF Basic
  <2>4. Selected(b, s, q)
    BY <2>2 DEF Selected, MayMiss
  <2> QED BY <2>2, <2>3, <2>4 DEF ReqInv, Staged
<1> QED BY <1>1, <1>2

LEMMA AfterMarksOK ==
  ASSUME NEW s \in SeenType, NEW r, Basic(s, r), r.at \notin {"idle", "end"},
         AtAsk(qBackend, s, r), NEW q \in AfterMarks(r)
  PROVE  ReqInv(qBackend, s, q)
<1> DEFINE unspent == {m \in r.list : <<m, QNone>> \in r.known}
           b == qBackend
<1>1. CfgOK(r.cfg) /\ r.list \in SUBSET Member /\ r.known \in SUBSET QMarks
  BY RequestsOK DEF Basic, RequestType
<1>2. CASE r.cfg.kind \in {"spend", "spends"}
  <2>1. r.list \subseteq r.cfg.outs /\ r.cfg.outs \subseteq QOut
    BY <1>1, <1>2 DEF AtAsk, AtMarks, CfgOK, SearchCfg
  <2>2. \A p \in r.known : p \in Told(s) /\ p[1] \in r.list
    BY <2>1 DEF AtAsk, Basic
  <2>3. \A ms : Listed(b, s, r, ms)
    BY <1>1, <1>2, NamedListed DEF Searches
  <2>4. ~Unspent(r.cfg) /\ ~Recorded(r.cfg)
    BY <1>1, <1>2 DEF Unspent, Recorded, CfgOK, Searches
  <2>5. CASE r.cfg.kind = "spends" /\ b = "pg"
    <3>1. q \in InRowOrder(r)
      BY <2>5 DEF AfterMarks
    <3>2. PICK place \in [r.list -> r.cfg.outs] :
            q = Respond(r, {place[o] : o \in r.list},
                        {<<place[p[1]], p[2]>> : p \in r.known})
      BY <3>1 DEF InRowOrder
    <3> DEFINE answer == {place[o] : o \in r.list}
               shown == {<<place[p[1]], p[2]>> : p \in r.known}
    <3>3. answer \in SUBSET Member
      BY <2>1 DEF Member
    <3>4. shown \in SUBSET QMarks
      BY <1>1, <2>1, <2>2 DEF QMarks, Member
    <3>5. ASSUME NEW u \in shown
          PROVE  \E o \in r.cfg.outs : <<o, u[2]>> \in Told(s)
      <4>1. PICK p \in r.known : u = <<place[p[1]], p[2]>>
        OBVIOUS
      <4>2. p = <<p[1], p[2]>> /\ u[2] = p[2]
        BY <1>1, <4>1 DEF QMarks
      <4> QED BY <2>1, <2>2, <4>2
    <3> HIDE DEF answer, shown
    <3>6. q = Respond(r, answer, shown)
      BY <3>2 DEF answer, shown
    <3> QED BY <2>3, <2>4, <2>5, <3>3, <3>4, <3>5, <3>6, RespondOK
  <2>6. CASE ~(r.cfg.kind = "spends" /\ b = "pg")
    <3>1. q = Respond(r, r.list, r.known)
      BY <1>2, <2>6 DEF AfterMarks
    <3> QED BY <3>1, <2>2, <2>3, <2>4, <1>1, RespondOK
  <2> QED BY <2>5, <2>6
<1>3. CASE r.cfg.kind \notin {"spend", "spends"}
  <2>1. /\ b = "redis" /\ r.cfg.kind \in {"txos", "balance"}
        /\ Listed(b, s, r, r.list)
        /\ Unspent(r.cfg) => r.list \subseteq QOut
    BY <1>3 DEF AtAsk, AtMarks
  <2>2. r.cfg.filter \in BOOLEAN
    BY <1>1 DEF CfgOK, SearchCfg
  <2>3. PICK list \in {r.list, unspent} :
          /\ q = [r EXCEPT !.at = "load", !.list = list]
          /\ Unspent(r.cfg) => list = unspent
          /\ ~Unspent(r.cfg) => list = r.list
    <3>1. CASE r.cfg.kind = "balance"
      <4>1. q = [r EXCEPT !.at = "load", !.list = unspent]
        BY <3>1 DEF AfterMarks
      <4> QED BY <4>1, <3>1 DEF Unspent
    <3>2. CASE r.cfg.kind # "balance"
      <4>1. q = [r EXCEPT !.at = "load", !.list = IF r.cfg.filter THEN unspent ELSE @]
        BY <3>2, <1>3 DEF AfterMarks
      <4> QED BY <4>1, <3>2, <2>2 DEF Unspent
    <3> QED BY <3>1, <3>2
  <2>4. list \in SUBSET Member
    BY <1>1
  <2>5. /\ q \in RequestType /\ q.at = "load" /\ q.outcome = r.outcome /\ q.cfg = r.cfg
        /\ q.rows = r.rows /\ q.looked = r.looked /\ q.known = r.known /\ q.list = list
    BY <2>3, <2>4 DEF Basic, RequestType, Stages
  <2>6. Basic(s, q)
    BY <2>5 DEF Basic
  <2>7. Unspent(r.cfg) => Free(s, unspent)
    BY <2>1, QMemberAssumption DEF Basic, Told, SeenType, Free
  <2>8. Unspent(r.cfg) => \A m \in r.list \ unspent : EverSpent(s, m)
    <3>1. ASSUME Unspent(r.cfg), NEW m \in r.list \ unspent PROVE EverSpent(s, m)
      <4>1. PICK p \in r.known : p[1] = m
        BY DEF AtAsk
      <4>2. p \in Told(s)
        BY <4>1, <3>1, <2>1 DEF Basic
      <4>3. p = <<m, p[2]>> /\ p[2] \in QTxid \cup {QNone}
        BY <4>1, <1>1 DEF QMarks
      <4>4. p[2] # QNone
        BY <4>1, <4>3
      <4> QED BY <4>2, <4>3, <4>4 DEF EverSpent
    <3> QED BY <3>1
  <2>9. Listed(b, s, r, list)
    <3>1. CASE Unspent(r.cfg)
      <4>1. Entered(s, r, unspent)
        BY <2>1 DEF Listed, Entered
      <4>2. Covers(b, s, r, unspent)
        BY <2>1, <2>8, <3>1 DEF Listed, Covers, MayMiss
      <4> QED BY <4>1, <4>2, <3>1, <2>3 DEF Listed
    <3>2. CASE ~Unspent(r.cfg)
      BY <3>2, <2>1, <2>3
    <3> QED BY <3>1, <3>2
  <2>10. Listed(b, s, q, q.list)
    BY <2>5, <2>9, SameListed
  <2>11. AtLoad(b, s, q)
    <3>1. Unspent(q.cfg) => Free(s, q.list)
      BY <2>5, <2>3, <2>7
    <3>2. ~Unspent(q.cfg) => \A p \in q.known : p[1] \in q.list
      BY <2>5, <2>3 DEF AtAsk
    <3> QED BY <2>1, <2>5, <2>10, <3>1, <3>2 DEF AtLoad, Searches
  <2> QED BY <2>5, <2>6, <2>11 DEF ReqInv, Staged
<1> QED BY <1>2, <1>3

LEMMA AskedOK ==
  ASSUME NEW s \in SeenType, NEW r, Basic(s, r), r.at \notin {"idle", "end"},
         AtAsk(qBackend, s, r), NEW q \in Asked(r)
  PROVE  ReqInv(qBackend, s, q)
<1>1. CASE r.left = {}
  BY <1>1, AfterMarksOK DEF Asked
<1>2. CASE r.left # {}
  <2>1. q = [r EXCEPT !.at = "ask"]
    BY <1>2 DEF Asked
  <2>2. /\ q \in RequestType /\ q.at = "ask" /\ q.outcome = r.outcome /\ q.cfg = r.cfg
        /\ q.rows = r.rows /\ q.looked = r.looked /\ q.known = r.known /\ q.left = r.left
        /\ q.list = r.list
    BY <2>1 DEF Basic, RequestType, Stages
  <2>3. Basic(s, q)
    BY <2>2 DEF Basic
  <2>4. AtAsk(qBackend, s, q)
    BY <2>2, SameListed DEF AtAsk, AtMarks
  <2> QED BY <2>2, <2>3, <2>4 DEF ReqInv, Staged
<1> QED BY <1>1, <1>2

(***************************************************************************)
(* The pages.                                                              *)
(***************************************************************************)
LEMMA PageCuts ==
  ASSUME NEW cfg, cfg.limit \in Nat, NEW S, NEW page \in Pages(cfg, S)
  PROVE  page \subseteq S /\ \A e \in S \ page : CutOff(cfg, page, e)
<1>1. CASE page = S
  BY <1>1
<1>2. CASE page # S
  <2>1. /\ cfg.limit # 0 /\ page \subseteq S /\ Cardinality(page) = cfg.limit
        /\ \A e \in page, f \in S \ page : ~Before(cfg, f[3], e[3])
    BY <1>2 DEF Pages
  <2> QED BY <2>1 DEF CutOff
<1> QED BY <1>1, <1>2

\* After the merge, what each entry met is in the list or excused.
LEMMA MergeOK ==
  ASSUME NEW b, NEW s, NEW r, Basic(s, r), Ranged(b, s, r), Keys(r) = {},
         r.at \notin {"idle", "end"}, NEW q \in Merge(r)
  PROVE  /\ Basic(s, q) /\ q.at = r.at /\ q.cfg = r.cfg /\ q.known = {}
         /\ q.list = MembersOf(q.rows) /\ Listed(b, s, q, q.list)
         /\ Unspent(q.cfg) => q.list \subseteq QOut
<1>1. PICK P \in Pages(r.cfg, r.rows) : q = [r EXCEPT !.rows = P, !.list = MembersOf(P)]
  BY DEF Merge
<1>2. r.rows \subseteq r.looked /\ r.looked \subseteq s.ever /\ r.looked \subseteq Entry
  BY DEF Basic, RequestType
<1>3. r.cfg \in SearchCfg /\ r.cfg.limit \in Nat
  <2>1. r.cfg \in SearchCfg
    BY DEF Basic, RequestType
  <2>2. r.cfg.limit \in QLimits \cup {0}
    BY <2>1 DEF SearchCfg
  <2>3. \A n \in QLimits \cup {0} : n \in Nat
    BY QNumberAssumption
  <2> QED BY <2>1, <2>2, <2>3
<1>4. P \subseteq r.rows /\ \A e \in r.rows \ P : CutOff(r.cfg, P, e)
  BY <1>3, PageCuts
<1>5. MembersOf(P) \subseteq Member
  BY <1>2, <1>4 DEF MembersOf, Entry
<1>6. /\ q \in RequestType /\ q.at = r.at /\ q.outcome = r.outcome /\ q.cfg = r.cfg
      /\ q.rows = P /\ q.looked = r.looked /\ q.known = r.known /\ q.list = MembersOf(P)
  BY <1>1, <1>2, <1>4, <1>5 DEF Basic, RequestType
<1>7. Basic(s, q)
  BY <1>4, <1>6 DEF Basic
<1>8. Entered(s, q, MembersOf(P))
  BY <1>2, <1>4, <1>6 DEF Entered, MembersOf, Basic
<1>9. Covers(b, s, q, MembersOf(P))
  <2>1. SUFFICES ASSUME NEW e \in s.always, Searched(r.cfg, e), e[2] \notin MembersOf(P)
                 PROVE  MayMiss(b, s, q, e)
    BY <1>6 DEF Covers
  <2>2. Met(r, e) /\ b = "redis"
    BY <2>1 DEF Ranged
  <2>3. CASE \E f \in r.rows : f[2] = e[2] /\ (f = e \/ f[1] # e[1])
    <3>1. PICK f \in r.rows : f[2] = e[2] /\ (f = e \/ f[1] # e[1])
      BY <2>3
    <3>2. f \notin P /\ e \notin P
      BY <2>1, <3>1 DEF MembersOf
    <3>3. CutOff(r.cfg, P, f) /\ f \in s.ever
      BY <3>1, <3>2, <1>2, <1>4
    <3>4. CASE f[3] = e[3]
      <4>1. CutOff(r.cfg, P, e)
        BY <3>2, <3>3, <3>4 DEF CutOff
      <4> QED BY <4>1, <2>2, <1>6 DEF MayMiss
    <3>5. CASE f[3] # e[3]
      BY <3>1, <3>3, <3>5, <2>2 DEF MayMiss
    <3> QED BY <3>4, <3>5
  <2>4. CASE CutOff(r.cfg, {f \in r.looked : f[1] = e[1]}, e)
    BY <2>2, <2>4, <1>6 DEF MayMiss
  <2>5. CASE Unspent(r.cfg) /\ e[2] \in QTxid
    BY <2>5, <1>6 DEF MayMiss
  <2> QED BY <2>2, <2>3, <2>4, <2>5 DEF Met
<1>10. Unspent(q.cfg) => MembersOf(P) \subseteq QOut
  BY <1>4, <1>6 DEF Ranged, MembersOf
<1> QED BY <1>6, <1>7, <1>8, <1>9, <1>10 DEF Listed, Ranged

LEMMA AfterRangesOK ==
  ASSUME NEW s, NEW r, Basic(s, r), r.at \notin {"idle", "end"},
         r.cfg.kind \in Searches, r.known = {}, Listed("redis", s, r, r.list),
         Unspent(r.cfg) => r.list \subseteq QOut
  PROVE  ReqInv("redis", s, AfterRanges(r))
<1> DEFINE q == AfterRanges(r)
<1>1. CfgOK(r.cfg) /\ r.list \in SUBSET Member /\ r.cfg \in SearchCfg
  BY RequestsOK DEF Basic, RequestType
<1>2. ASSUME q = [r EXCEPT !.at = "load"], r.cfg.kind # "txns",
             Unspent(r.cfg) => r.list = {}
      PROVE  ReqInv("redis", s, q)
  <2>1. /\ q \in RequestType /\ q.at = "load" /\ q.outcome = r.outcome /\ q.cfg = r.cfg
        /\ q.rows = r.rows /\ q.looked = r.looked /\ q.known = {} /\ q.list = r.list
    BY <1>2 DEF Basic, RequestType, Stages
  <2> HIDE DEF q
  <2>2. Basic(s, q)
    BY <2>1 DEF Basic
  <2>3. Listed("redis", s, q, q.list)
    BY <2>1, SameListed
  <2>4. Unspent(q.cfg) => Free(s, q.list)
    BY <2>1, <1>2 DEF Free
  <2>5. AtLoad("redis", s, q)
    BY <2>1, <2>3, <2>4, <1>2 DEF AtLoad, Searches
  <2> QED BY <2>1, <2>2, <2>5 DEF ReqInv, Staged
<1>3. ASSUME q = [r EXCEPT !.at = "marks"], r.cfg.kind \in {"txos", "balance"}
      PROVE  ReqInv("redis", s, q)
  <2>1. /\ q \in RequestType /\ q.at = "marks" /\ q.outcome = r.outcome /\ q.cfg = r.cfg
        /\ q.rows = r.rows /\ q.looked = r.looked /\ q.known = {} /\ q.list = r.list
    BY <1>3 DEF Basic, RequestType, Stages
  <2> HIDE DEF q
  <2>2. Basic(s, q)
    BY <2>1 DEF Basic
  <2>3. Listed("redis", s, q, q.list)
    BY <2>1, SameListed
  <2>4. AtMarks("redis", s, q)
    BY <2>1, <2>3, <1>3 DEF AtMarks
  <2> QED BY <2>1, <2>2, <2>4 DEF ReqInv, Staged
<1>4. CASE r.cfg.kind = "txns"
  <2>1. ~Unspent(r.cfg) /\ ~Recorded(r.cfg) /\ ~r.cfg.filter /\ ~r.cfg.spend
    BY <1>1, <1>4 DEF CfgOK, Unspent, Recorded
  <2>2. q = Respond(r, r.list, {})
    BY <2>1, <1>4 DEF AfterRanges
  <2> HIDE DEF q
  <2>3. ReqInv("redis", s, q)
    BY <2>1, <2>2, <1>1, RespondOK
  <2> QED BY <2>3 DEF q
<1>5. CASE r.cfg.kind # "txns" /\ Unspent(r.cfg)
  <2>1. q = [r EXCEPT !.at = IF r.list = {} THEN "load" ELSE "marks"]
    BY <1>1, <1>5 DEF AfterRanges, Unspent, CfgOK, SearchCfg
  <2>2. r.cfg.kind \in {"txos", "balance"}
    BY <1>1, <1>5 DEF Unspent, CfgOK, Searches
  <2> QED BY <2>1, <2>2, <1>2, <1>3
<1>6. CASE r.cfg.kind # "txns" /\ ~Unspent(r.cfg) /\ r.cfg.spend
  <2>1. q = [r EXCEPT !.at = "marks"]
    BY <1>1, <1>6 DEF AfterRanges, Unspent, CfgOK, SearchCfg
  <2>2. r.cfg.kind = "txos"
    BY <1>1, <1>6 DEF CfgOK, Searches
  <2> QED BY <2>1, <2>2, <1>3
<1>7. CASE r.cfg.kind # "txns" /\ ~Unspent(r.cfg) /\ ~r.cfg.spend
  <2>1. q = [r EXCEPT !.at = "load"]
    BY <1>1, <1>7 DEF AfterRanges, Unspent, CfgOK, SearchCfg
  <2> QED BY <2>1, <1>7, <1>2
<1> QED BY <1>4, <1>5, <1>6, <1>7

(***************************************************************************)
(* The steps.                                                              *)
(***************************************************************************)
LEMMA WitnessOK ==
  ASSUME NEW s \in SeenType, StoreOK', seen' = Witness(s)
  PROVE  seen' \in SeenType /\ Grows(s, seen') /\ Witnessed'
<1>1. /\ seen'.ever = s.ever \cup qLog' /\ seen'.always = s.always \cap qLog'
      /\ seen'.marks = s.marks \cup {<<o, qMark'[o]>> : o \in QOut}
      /\ seen'.saved = s.saved \cup qSaved' /\ seen'.gone = s.gone \cup (QOut \ qSaved')
      /\ seen'.bare = s.bare \cup (qRow' \ qSaved') /\ seen'.said = s.said
  BY DEF SeenType, Witness
<1>2. {<<o, qMark'[o]>> : o \in QOut} \subseteq QMarks
  BY DEF StoreOK, QMarks, Member
<1>3. seen' \in SeenType
  BY <1>2 DEF SeenType, Witness, StoreOK
<1>4. Grows(s, seen')
  BY <1>1 DEF Grows
<1>5. Witnessed'
  BY <1>1 DEF Witnessed
<1> QED BY <1>3, <1>4, <1>5

LEMMA QInitInv == QInit => QInv
<1> SUFFICES ASSUME QInit PROVE QInv
  OBVIOUS
<1>1. StoreOK
  <2>1. PICK s \in QStores :
          /\ qLog = s.log /\ qSaved = s.saved /\ qMark = s.mark
          /\ qRow = s.saved \cup
               (IF qBackend = "redis" THEN {} ELSE {o \in QOut : s.mark[o] # QNone})
    BY DEF QInit
  <2>2. s \in [log : SUBSET Entry, saved : SUBSET QOut, mark : [QOut -> QTxid \cup {QNone}]]
        /\ \A e, f \in s.log : e[1] = f[1] /\ e[2] = f[2] => e = f
    BY QStoreAssumption
  <2>3. writes \in 0..MaxWrites
    BY QNumberAssumption DEF QInit
  <2>4. qLog \subseteq Entry /\ qSaved \subseteq QOut /\ qMark \in [QOut -> QTxid \cup {QNone}]
    BY <2>1, <2>2
  <2>5. qBackend = "redis" => qRow = qSaved
    BY <2>1
  <2>6. qSaved \subseteq qRow /\ qRow \subseteq QOut
    BY <2>1, <2>4
  <2> QED BY <2>1, <2>2, <2>3, <2>4, <2>5, <2>6 DEF StoreOK, QInit
<1>2. seen \in SeenType
  BY DEF QInit, QNothing, SeenType
<1>3. req = QIdle
  BY DEF QInit
<1>4. Basic(seen, QIdle) /\ QIdle.at = "idle"
  <2>1. Ask("txos", <<>>, {}) \in SearchCfg
    BY DEF Ask, SearchCfg, QKinds, NoFrom
  <2>2. /\ QIdle \in RequestType /\ QIdle.at = "idle" /\ QIdle.outcome = "none"
        /\ QIdle.rows = {} /\ QIdle.looked = {} /\ QIdle.known = {}
    BY <2>1 DEF QIdle, RequestType, Stages
  <2> QED BY <2>2 DEF Basic
<1>5. ReqInv(qBackend, seen, req)
  BY <1>3, <1>4 DEF ReqInv, Staged
<1> QED BY <1>1, <1>2, <1>3, <1>4, <1>5 DEF QInv

LEMMA WriteStep == QInv /\ QWrite => QInv'
<1> SUFFICES ASSUME QInv, QWrite PROVE QInv'
  OBVIOUS
<1>1. StoreOK'
  <2>1. qBackend' = qBackend /\ writes' \in 0..MaxWrites /\ StoreOK
    BY QNumberAssumption DEF QWrite, QInv, StoreOK
  <2>2. CASE \E e \in Entry : /\ qLog' = {f \in qLog : f[1] # e[1] \/ f[2] # e[2]} \cup {e}
                              /\ UNCHANGED <<qSaved, qRow, qMark>>
    BY <2>1, <2>2 DEF StoreOK
  <2>3. CASE \E e \in qLog : qLog' = qLog \ {e} /\ UNCHANGED <<qSaved, qRow, qMark>>
    BY <2>1, <2>3 DEF StoreOK
  <2>4. CASE \E o \in QOut : /\ qSaved' = qSaved \cup {o} /\ qRow' = qRow \cup {o}
                             /\ UNCHANGED <<qLog, qMark>>
    BY <2>1, <2>4 DEF StoreOK
  <2>5. CASE \E o \in qSaved :
               /\ qSaved' = qSaved \ {o} /\ qRow' = qRow \ {o}
               /\ qMark' = IF QSQL THEN [qMark EXCEPT ![o] = QNone] ELSE qMark
               /\ UNCHANGED qLog
    <3>1. PICK o \in qSaved :
            /\ qSaved' = qSaved \ {o} /\ qRow' = qRow \ {o}
            /\ qMark' = IF QSQL THEN [qMark EXCEPT ![o] = QNone] ELSE qMark
            /\ UNCHANGED qLog
      BY <2>5
    <3>2. CASE qBackend = "redis"
      BY <2>1, <3>1, <3>2 DEF StoreOK, QSQL
    <3>3. CASE qBackend # "redis"
      <4>1. qMark' = [qMark EXCEPT ![o] = QNone]
        BY <3>1, <3>3 DEF QSQL
      <4> QED BY <2>1, <3>1, <3>3, <4>1 DEF StoreOK
    <3> QED BY <3>2, <3>3
  <2>6. CASE \E o \in QOut, t \in QTxid :
               /\ qMark' = [qMark EXCEPT ![o] = t]
               /\ qRow' = IF QSQL THEN qRow \cup {o} ELSE qRow
               /\ UNCHANGED <<qLog, qSaved>>
    BY <2>1, <2>6 DEF StoreOK, QSQL
  <2>7. CASE \E o \in QOut :
               qMark' = [qMark EXCEPT ![o] = QNone] /\ UNCHANGED <<qLog, qSaved, qRow>>
    BY <2>1, <2>7 DEF StoreOK
  <2> QED BY <2>2, <2>3, <2>4, <2>5, <2>6, <2>7 DEF QWrite
<1>2. seen \in SeenType /\ seen' = Witness(seen) /\ req' = req /\ qBackend' = qBackend
  BY DEF QInv, QWrite
<1>3. seen' \in SeenType /\ Grows(seen, seen') /\ Witnessed'
  BY <1>1, <1>2, WitnessOK
<1>4. ReqInv(qBackend, seen', req)
  BY <1>3, InvGrows DEF QInv
<1> QED BY <1>1, <1>2, <1>3, <1>4 DEF QInv

LEMMA BeginStep == QInv /\ Begin => QInv'
<1> SUFFICES ASSUME QInv, Begin PROVE QInv'
  OBVIOUS
<1>1. PICK cfg \in Requests :
        req' = [QIdle EXCEPT !.at = FirstStage(cfg), !.cfg = cfg, !.todo = cfg.keys,
                             !.list = cfg.outs]
  BY DEF Begin
<1>2. UNCHANGED <<qBackend, qStore, writes>> /\ seen' = Witness([QNothing EXCEPT !.always = qLog])
  BY DEF Begin
<1>3. StoreOK'
  BY <1>2 DEF QInv, StoreOK, qStore
<1>4. [QNothing EXCEPT !.always = qLog] \in SeenType
  BY DEF QNothing, SeenType, QInv, StoreOK
<1>5. seen' \in SeenType /\ Witnessed'
  BY <1>2, <1>3, <1>4, WitnessOK
<1>6. CfgOK(cfg) /\ cfg \in SearchCfg
  BY RequestsOK DEF CfgOK
<1>7. cfg.kind \in QKinds /\ cfg.keys \in Seq(QKey) /\ cfg.outs \in SUBSET QOut
  BY <1>6 DEF SearchCfg
<1>8. FirstStage(cfg) \in {"origin", "select", "range", "load", "scan", "marks"}
  BY <1>7 DEF FirstStage, QKinds
<1>9. /\ req' \in RequestType /\ req'.at = FirstStage(cfg) /\ req'.cfg = cfg
      /\ req'.todo = cfg.keys /\ req'.list = cfg.outs /\ req'.outcome = "none"
      /\ req'.rows = {} /\ req'.looked = {} /\ req'.known = {}
  BY <1>1, <1>6, <1>7, <1>8 DEF QIdle, RequestType, Stages, Member
<1>10. Basic(seen', req')
  BY <1>8, <1>9 DEF Basic
<1>11. Staged(qBackend, seen', req')
  <2>1. CASE cfg.kind = "ancestors"
    <3>1. FirstStage(cfg) = "origin"
      BY <2>1 DEF FirstStage
    <3> QED BY <3>1, <2>1, <1>9 DEF Staged, AtOrigin, Blank
  <2>2. CASE cfg.kind \in {"txos", "balance", "txns"} /\ QSQL
    <3>1. FirstStage(cfg) = "select"
      BY <2>2 DEF FirstStage
    <3>2. AtSelect(qBackend, req')
      BY <2>2, <1>9 DEF AtSelect, Blank, Searches, QSQL, Keys, KeysOf
    <3> QED BY <3>1, <3>2, <1>9 DEF Staged
  <2>3. CASE cfg.kind \in {"txos", "balance", "txns"} /\ ~QSQL
    <3>1. FirstStage(cfg) = "range"
      BY <2>3 DEF FirstStage
    <3>2. Keys(req') = KeysOf(cfg)
      BY <1>9 DEF Keys, KeysOf
    <3>3. Ranged(qBackend, seen', req')
      BY <2>3, <3>2, <1>9 DEF Ranged, Searches, QSQL, Searched, MembersOf
    <3>4. AtRange(qBackend, seen', req')
      BY <3>2, <3>3, <1>6, <1>9 DEF AtRange, CfgOK
    <3> QED BY <3>1, <3>4, <1>9 DEF Staged
  <2>4. CASE cfg.kind \in {"txo", "load"}
    <3>1. FirstStage(cfg) = "load"
      BY <2>4 DEF FirstStage
    <3>2. cfg.kind \notin Searches /\ ~Unspent(cfg) /\ Recorded(cfg)
      BY <2>4, <1>6 DEF CfgOK, Searches, Unspent, Recorded
    <3>3. Listed(qBackend, seen', req', req'.list)
      BY <3>2, <1>6, <1>9, NamedListed
    <3>4. AtLoad(qBackend, seen', req')
      BY <2>4, <3>2, <3>3, <1>7, <1>9 DEF AtLoad
    <3> QED BY <3>1, <3>4, <1>9 DEF Staged
  <2>5. CASE cfg.kind = "txid"
    <3>1. FirstStage(cfg) = "scan"
      BY <2>5 DEF FirstStage
    <3> QED BY <3>1, <2>5, <1>7, <1>9 DEF Staged
  <2>6. CASE cfg.kind \in {"spend", "spends"}
    <3>1. FirstStage(cfg) = "marks"
      BY <2>6 DEF FirstStage
    <3> QED BY <3>1, <2>6, <1>7, <1>9 DEF Staged, AtMarks
  <2> QED BY <2>1, <2>2, <2>3, <2>4, <2>5, <2>6, <1>7 DEF QKinds
<1> QED BY <1>2, <1>3, <1>5, <1>10, <1>11 DEF QInv, ReqInv

LEMMA AncestorKeys ==
  ASSUME NEW cfg \in Requests, cfg.kind = "ancestors", NEW l \in QKey
  PROVE  [cfg EXCEPT !.keys = <<l>>] \in Requests
<1>1. cfg \in OriginAncestors
  BY RequestsOK
<1>2. [cfg EXCEPT !.keys = <<l>>] \in OriginAncestors
  BY <1>1 DEF OriginAncestors, OfOrigin, OneKey
<1> QED BY <1>2 DEF Requests

\* A step that leaves the store and what was seen of it.
LEMMA QuietStep ==
  ASSUME QInv, UNCHANGED <<qBackend, qStore, seen, writes>>, req.at # "idle",
         ReqInv(qBackend, seen, req')
  PROVE  QInv'
<1>1. StoreOK' /\ seen' \in SeenType /\ Witnessed' /\ ReqInv(qBackend, seen, req)
  BY DEF QInv, StoreOK, Witnessed, qStore
<1> QED BY <1>1 DEF QInv

LEMMA LoadOriginStep == QInv /\ LoadOrigin => QInv'
<1> SUFFICES ASSUME QInv, LoadOrigin PROVE QInv'
  OBVIOUS
<1>1. /\ req.at = "origin" /\ UNCHANGED <<qBackend, qStore, seen, writes>>
      /\ Basic(seen, req) /\ AtOrigin(req)
  BY DEF LoadOrigin, QInv, ReqInv, Staged
<1>2. ASSUME NEW k \in QKey,
             req' = [req EXCEPT !.at = IF QSQL THEN "select" ELSE "range",
                                !.cfg.keys = <<k>>, !.todo = <<k>>]
      PROVE  ReqInv(qBackend, seen, req')
  <2> DEFINE cfg == [req.cfg EXCEPT !.keys = <<k>>]
             at == IF QSQL THEN "select" ELSE "range"
  <2>1. cfg \in Requests /\ CfgOK(cfg) /\ req.cfg \in SearchCfg /\ <<k>> \in Seq(QKey)
    BY <1>1, AncestorKeys, RequestsOK DEF Basic, AtOrigin, RequestType
  <2>2. cfg \in SearchCfg /\ cfg.kind = "ancestors" /\ cfg.keys = <<k>>
    BY <2>1, <1>1 DEF CfgOK, AtOrigin, SearchCfg
  <2> HIDE DEF cfg
  <2>3. req' = [req EXCEPT !.at = at, !.cfg = cfg, !.todo = <<k>>]
    BY <1>2, <1>1 DEF cfg, Basic, RequestType
  <2>4. /\ req' \in RequestType /\ req'.at = at /\ req'.cfg = cfg /\ req'.todo = <<k>>
        /\ req'.outcome = req.outcome
        /\ req'.rows = req.rows /\ req'.looked = {} /\ req'.known = {}
    BY <2>1, <2>2, <2>3, <1>1 DEF Basic, RequestType, AtOrigin, Blank, Stages
  <2>5. Basic(seen, req') /\ req'.rows = {}
    BY <2>1, <2>4, <1>1 DEF Basic, AtOrigin, Blank
  <2>6. Keys(req') = KeysOf(cfg) /\ Once(req'.todo)
    BY <2>1, <2>2, <2>4 DEF Keys, KeysOf, CfgOK
  <2>7. CASE QSQL
    <3>1. AtSelect(qBackend, req')
      BY <2>2, <2>4, <2>6, <2>7 DEF AtSelect, Blank, Searches, QSQL
    <3> QED BY <2>4, <2>5, <2>7, <3>1 DEF ReqInv, Staged
  <2>8. CASE ~QSQL
    <3>1. Ranged(qBackend, seen, req')
      BY <2>2, <2>4, <2>5, <2>6, <2>8 DEF Ranged, Searches, QSQL, Searched, MembersOf
    <3>2. AtRange(qBackend, seen, req')
      BY <3>1, <2>4, <2>6 DEF AtRange
    <3> QED BY <2>4, <2>5, <2>8, <3>2 DEF ReqInv, Staged
  <2> QED BY <2>7, <2>8
<1>3. ASSUME req' = Finish(req, "panic") PROVE ReqInv(qBackend, seen, req')
  BY <1>1, <1>3, FinishOK DEF Panics, AtOrigin
<1>4. ReqInv(qBackend, seen, req')
  BY <1>2, <1>3 DEF LoadOrigin
<1> QED BY <1>1, <1>4, QuietStep

LEMMA HeadTail ==
  ASSUME NEW s \in Seq(QKey), s # <<>>, Once(s)
  PROVE  /\ Head(s) \in {s[i] : i \in DOMAIN s} /\ Tail(s) \in Seq(QKey) /\ Once(Tail(s))
         /\ {Tail(s)[i] : i \in DOMAIN Tail(s)} = {s[i] : i \in DOMAIN s} \ {Head(s)}
<1>1. /\ Len(s) \in Nat /\ Len(s) # 0 /\ DOMAIN s = 1..Len(s) /\ Head(s) = s[1]
      /\ Tail(s) \in Seq(QKey) /\ Len(Tail(s)) = Len(s) - 1
      /\ DOMAIN Tail(s) = 1..Len(Tail(s))
  OBVIOUS
<1>2. \A i \in DOMAIN Tail(s) : Tail(s)[i] = s[i + 1] /\ i + 1 \in DOMAIN s
  BY <1>1
<1>3. Once(Tail(s))
  <2>1. ASSUME NEW i \in DOMAIN Tail(s), NEW j \in DOMAIN Tail(s), Tail(s)[i] = Tail(s)[j]
        PROVE  i = j
    <3>1. i + 1 = j + 1
      BY <2>1, <1>2 DEF Once
    <3> QED BY <3>1, <1>1
  <2> QED BY <2>1 DEF Once
<1>4. \A i \in DOMAIN Tail(s) : s[i + 1] # Head(s)
  <2>1. ASSUME NEW i \in DOMAIN Tail(s), s[i + 1] = s[1] PROVE FALSE
    <3>1. i + 1 = 1
      BY <2>1, <1>1, <1>2 DEF Once
    <3> QED BY <3>1, <1>1
  <2> QED BY <2>1, <1>1
<1>5. \A i \in DOMAIN s : i # 1 => i - 1 \in DOMAIN Tail(s) /\ Tail(s)[i - 1] = s[i]
  BY <1>1
<1>6. {Tail(s)[i] : i \in DOMAIN Tail(s)} \subseteq {s[i] : i \in DOMAIN s} \ {Head(s)}
  BY <1>2, <1>4
<1>7. ASSUME NEW x \in {s[i] : i \in DOMAIN s} \ {Head(s)}
      PROVE  x \in {Tail(s)[i] : i \in DOMAIN Tail(s)}
  <2>1. PICK i \in DOMAIN s : x = s[i]
    OBVIOUS
  <2>2. i # 1
    BY <2>1, <1>1
  <2> QED BY <2>1, <2>2, <1>5
<1>8. Head(s) \in {s[i] : i \in DOMAIN s}
  <2>1. 1 \in DOMAIN s
    BY <1>1
  <2> QED BY <2>1, <1>1
<1> QED BY <1>1, <1>3, <1>6, <1>7, <1>8

LEMMA ReadRangeStep == QInv /\ ReadRange => QInv'
<1> SUFFICES ASSUME QInv, ReadRange PROVE QInv'
  OBVIOUS
<1> DEFINE cfg == req.cfg
           key == Head(req.todo)
           found == {e \in qLog : e[1] = key /\ InBounds(cfg, e)}
<1>1. PICK page \in Pages(cfg, found) :
        LET kept == {e \in page :
                       /\ e[2] \in QTxid => cfg.kind # "balance" /\ ~cfg.filter
                       /\ e[2] \notin MembersOf(req.rows)}
            r == [req EXCEPT !.todo = Tail(@), !.rows = @ \cup kept, !.looked = @ \cup page]
        IN IF r.todo # <<>> THEN req' = r
           ELSE req' \in {AfterRanges(m) : m \in Merge(r)}
  BY DEF ReadRange
<1> DEFINE kept == {e \in page :
                     /\ e[2] \in QTxid => cfg.kind # "balance" /\ ~cfg.filter
                     /\ e[2] \notin MembersOf(req.rows)}
           r == [req EXCEPT !.todo = Tail(@), !.rows = @ \cup kept, !.looked = @ \cup page]
<1>2. /\ req.at = "range" /\ req.todo # <<>> /\ UNCHANGED <<qBackend, qStore, seen, writes>>
      /\ Basic(seen, req) /\ AtRange(qBackend, seen, req)
      /\ StoreOK /\ Witnessed /\ seen \in SeenType
  BY DEF ReadRange, QInv, ReqInv, Staged
<1>3. /\ req \in RequestType /\ cfg \in SearchCfg /\ req.todo \in Seq(QKey) /\ cfg.limit \in Nat
  <2>1. req \in RequestType /\ cfg \in SearchCfg /\ req.todo \in Seq(QKey)
    BY <1>2 DEF Basic, RequestType
  <2>2. cfg.limit \in QLimits \cup {0}
    BY <2>1 DEF SearchCfg
  <2>3. \A n \in QLimits \cup {0} : n \in Nat
    BY QNumberAssumption
  <2> QED BY <2>1, <2>2, <2>3
<1>4. page \subseteq found /\ \A e \in found \ page : CutOff(cfg, page, e)
  BY <1>3, PageCuts
<1>5. /\ page \subseteq Entry /\ page \subseteq seen.ever
      /\ \A e \in page : e[1] = key /\ InBounds(cfg, e)
  BY <1>2, <1>4 DEF StoreOK, Witnessed
<1>6. /\ key \in Keys(req) /\ Tail(req.todo) \in Seq(QKey) /\ Once(Tail(req.todo))
      /\ {Tail(req.todo)[i] : i \in DOMAIN Tail(req.todo)} = Keys(req) \ {key}
  BY <1>2, <1>3, HeadTail DEF AtRange, Keys
<1>7. /\ r \in RequestType /\ r.at = "range" /\ r.cfg = cfg /\ r.todo = Tail(req.todo)
      /\ r.rows = req.rows \cup kept /\ r.looked = req.looked \cup page
      /\ r.known = req.known /\ r.outcome = req.outcome
  BY <1>2, <1>3, <1>5, <1>6 DEF RequestType
<1>8. Keys(r) = Keys(req) \ {key}
  BY <1>6, <1>7 DEF Keys
<1>9. kept \subseteq page /\ \A e \in page : e \in kept \/ e[2] \in MembersOf(req.rows)
                                          \/ (Unspent(cfg) /\ e[2] \in QTxid)
  BY <1>3 DEF Unspent, SearchCfg
<1>10. Unspent(cfg) => \A e \in kept : e[2] \in QOut
  BY <1>5, <1>9 DEF Unspent, Entry, Member
<1>11. req' = r \/ (Tail(req.todo) = <<>> /\ \E m \in Merge(r) : req' = AfterRanges(m))
  BY <1>1, <1>7
<1> HIDE DEF r, kept, found
<1>12. Basic(seen, r)
  <2>1. r.rows \subseteq r.looked /\ r.looked \subseteq seen.ever
    BY <1>2, <1>5, <1>7, <1>9 DEF Basic
  <2>2. \A e \in page : Searched(cfg, e)
    BY <1>2, <1>5, <1>6 DEF Searched, AtRange, Ranged
  <2> QED BY <1>2, <1>7, <2>1, <2>2 DEF Basic
<1>13. Ranged(qBackend, seen, r)
  <2>1. qBackend = "redis" /\ r.cfg.kind \in Searches /\ r.known = {}
    BY <1>2, <1>7 DEF AtRange, Ranged
  <2>2. Unspent(r.cfg) => MembersOf(r.rows) \subseteq QOut
    BY <1>2, <1>7, <1>10 DEF AtRange, Ranged, MembersOf
  <2>3. ASSUME NEW e \in seen.always, Searched(cfg, e), e[1] \notin Keys(r) PROVE Met(r, e)
    <3>1. CASE e[1] \notin Keys(req)
      <4>1. Met(req, e)
        BY <1>2, <2>3, <3>1 DEF AtRange, Ranged
      <4>2. {f \in r.looked : f[1] = e[1]} = {f \in req.looked : f[1] = e[1]}
        BY <1>5, <1>6, <1>7, <3>1
      <4> QED BY <4>1, <4>2, <1>7 DEF Met
    <3>2. CASE e[1] \in Keys(req)
      <4>1. e[1] = key
        BY <2>3, <3>2, <1>8
      <4>2. e \in found
        BY <2>3, <4>1, <1>2 DEF found, Searched, Witnessed
      <4>3. CASE e \notin page
        <5>1. {f \in r.looked : f[1] = e[1]} = page
          BY <1>2, <1>5, <1>6, <1>7, <4>1 DEF AtRange
        <5> QED BY <4>2, <4>3, <5>1, <1>4, <1>7 DEF Met
      <4>4. CASE e \in kept
        BY <4>4, <1>7 DEF Met
      <4>5. CASE e[2] \in MembersOf(req.rows)
        <5>1. PICK f \in req.rows : f[2] = e[2]
          BY <4>5 DEF MembersOf
        <5>2. f[1] # e[1] /\ f \in r.rows
          BY <5>1, <1>2, <1>6, <1>7, <4>1 DEF AtRange, Basic
        <5> QED BY <5>1, <5>2 DEF Met
      <4>6. CASE Unspent(cfg) /\ e[2] \in QTxid
        BY <4>6, <1>7 DEF Met
      <4> QED BY <4>3, <4>4, <4>5, <4>6, <1>9
    <3> QED BY <3>1, <3>2
  <2> QED BY <2>1, <2>2, <2>3, <1>7 DEF Ranged
<1>14. CASE req' = r
  <2>1. AtRange(qBackend, seen, r)
    <3>1. \A f \in r.looked : f[1] \notin Keys(r)
      BY <1>2, <1>5, <1>7, <1>8 DEF AtRange
    <3>2. Once(r.todo) /\ Keys(r) \subseteq KeysOf(r.cfg)
      BY <1>2, <1>6, <1>7, <1>8 DEF AtRange
    <3> QED BY <3>1, <3>2, <1>13 DEF AtRange
  <2>2. ReqInv(qBackend, seen, r)
    BY <2>1, <1>7, <1>12 DEF ReqInv, Staged
  <2> QED BY <2>2, <1>2, <1>14, QuietStep
<1>15. ASSUME Tail(req.todo) = <<>>, NEW m \in Merge(r), req' = AfterRanges(m) PROVE QInv'
  <2>1. Keys(r) = {}
    BY <1>7, <1>15 DEF Keys
  <2>2. /\ Basic(seen, m) /\ m.at = r.at /\ m.cfg = r.cfg /\ m.known = {}
        /\ Listed(qBackend, seen, m, m.list)
        /\ Unspent(m.cfg) => m.list \subseteq QOut
    BY <2>1, <1>7, <1>12, <1>13, <1>15, MergeOK
  <2>3. qBackend = "redis" /\ m.cfg.kind \in Searches
    BY <2>2, <1>13 DEF Ranged
  <2>4. ReqInv(qBackend, seen, AfterRanges(m))
    BY <2>2, <2>3, <1>7, AfterRangesOK
  <2> QED BY <2>4, <1>2, <1>15, QuietStep
<1> QED BY <1>11, <1>14, <1>15

LEMMA SelectStep == QInv /\ Select => QInv'
<1> SUFFICES ASSUME QInv, Select PROVE QInv'
  OBVIOUS
<1> DEFINE cfg == req.cfg
<1>1. PICK page \in Pages(cfg, Found(req)) :
        req' \in Refreshed([req EXCEPT !.todo = <<>>, !.rows = page, !.looked = page,
                                      !.left = IF cfg.refresh THEN page ELSE {}])
  BY DEF Select
<1> DEFINE left == IF cfg.refresh THEN page ELSE {}
           r == [req EXCEPT !.todo = <<>>, !.rows = page, !.looked = page, !.left = left]
<1>2. /\ req.at = "select" /\ UNCHANGED <<qBackend, qStore, seen, writes>>
      /\ Basic(seen, req) /\ AtSelect(qBackend, req)
      /\ StoreOK /\ Witnessed /\ seen \in SeenType
  BY DEF Select, QInv, ReqInv, Staged
<1>3. /\ req \in RequestType /\ cfg \in SearchCfg /\ cfg.limit \in Nat
  <2>1. req \in RequestType /\ cfg \in SearchCfg
    BY <1>2 DEF Basic, RequestType
  <2>2. cfg.limit \in QLimits \cup {0}
    BY <2>1 DEF SearchCfg
  <2>3. \A n \in QLimits \cup {0} : n \in Nat
    BY QNumberAssumption
  <2> QED BY <2>1, <2>2, <2>3
<1>4. page \subseteq Found(req) /\ \A e \in Found(req) \ page : CutOff(cfg, page, e)
  BY <1>3, PageCuts
<1>5. page \subseteq Entry /\ page \subseteq seen.ever /\ \A e \in page : Searched(cfg, e)
  BY <1>2, <1>4 DEF StoreOK, Witnessed, Found, Searched, AtSelect
<1>6. left \subseteq Entry /\ (left # {} => cfg.refresh)
  BY <1>5
<1>7. req' \in Refreshed(r)
  BY <1>1
<1> HIDE DEF left
<1>8. /\ r \in RequestType /\ r.at = "select" /\ r.cfg = cfg /\ r.rows = page
      /\ r.looked = page /\ r.left = left /\ r.known = req.known /\ r.outcome = req.outcome
  <2>1. left \in SUBSET (Entry \cup Member) /\ page \in SUBSET Entry /\ <<>> \in Seq(QKey)
    BY <1>5, <1>6
  <2> QED BY <2>1, <1>2, <1>3 DEF RequestType
<1> HIDE DEF r
<1>9. Basic(seen, r)
  BY <1>2, <1>5, <1>8 DEF Basic
<1>10. Selected(qBackend, seen, r)
  <2>1. Unspent(cfg) => Free(seen, MembersOf(page))
    <3>1. ASSUME Unspent(cfg), NEW e \in page
          PROVE  e[2] \in QOut /\ <<e[2], QNone>> \in seen.marks
      <4>1. e[2] \in qRow /\ qMark[e[2]] = QNone
        BY <1>4, <3>1 DEF Found, Unspent
      <4> QED BY <4>1, <1>2 DEF StoreOK, Witnessed
    <3> QED BY <3>1 DEF Free, MembersOf
  <2>2. ASSUME NEW e \in seen.always, Searched(cfg, e)
        PROVE  e \in page \/ MayMiss(qBackend, seen, r, e)
    <3>1. e \in qLog /\ e[1] \in Keys(req) /\ InBounds(cfg, e) /\ e[2] \in QOut \cup QTxid
      BY <2>2, <1>2 DEF Witnessed, AtSelect, Searched, StoreOK, Entry, Member
    <3>2. CASE e \in Found(req)
      BY <3>2, <1>2, <1>4, <1>8 DEF MayMiss, AtSelect
    <3>3. CASE e \notin Found(req)
      <4>1. Unspent(cfg) /\ ~(e[2] \in qRow /\ qMark[e[2]] = QNone)
        BY <3>1, <3>3 DEF Found, Unspent
      <4>2. CASE e[2] \in QTxid \/ e[2] \in QOut \ qRow
        <5>1. e[2] \in QTxid \cup seen.gone
          BY <4>2, <1>2 DEF StoreOK, Witnessed
        <5> QED BY <5>1, <4>1, <1>8 DEF MayMiss
      <4>3. CASE e[2] \in QOut /\ qMark[e[2]] # QNone
        <5>1. EverSpent(seen, e[2])
          BY <4>3, <1>2 DEF StoreOK, Witnessed, EverSpent, Told
        <5> QED BY <5>1, <4>1, <1>8 DEF MayMiss
      <4> QED BY <3>1, <4>1, <4>2, <4>3
    <3> QED BY <3>2, <3>3
  <2> QED BY <2>1, <2>2, <1>2, <1>5, <1>6, <1>8 DEF Selected, AtSelect, Blank
<1>11. ReqInv(qBackend, seen, req')
  BY <1>2, <1>7, <1>8, <1>9, <1>10, RefreshedOK
<1> QED BY <1>2, <1>11, QuietStep

\* JungleBus fails, knows no spend, or tells of one, which is stored and seen.
LEMMA JungleBusStep ==
  ASSUME QInv, req.at \notin {"idle", "end"}, NEW m, NEW unspent, NEW spentBy,
         JungleBus(m, unspent, spentBy), UNCHANGED <<qBackend, writes>>,
         \A q \in unspent : ReqInv(qBackend, seen, q),
         \A t \in QTxid, s \in SeenType :
           m \in QOut /\ Grows(seen, s) /\ <<m, t>> \in s.said
             => \A q \in spentBy[t] : ReqInv(qBackend, s, q)
  PROVE  QInv'
<1>1. StoreOK /\ Witnessed /\ seen \in SeenType /\ Basic(seen, req)
  BY DEF QInv, ReqInv
<1>2. CASE req' = Finish(req, "error") /\ UNCHANGED <<qStore, seen>>
  <2>1. ReqInv(qBackend, seen, req')
    BY <1>1, <1>2, FinishOK
  <2> QED BY <2>1, <1>2, QuietStep
<1>3. CASE req' \in unspent /\ UNCHANGED <<qStore, seen>>
  BY <1>3, QuietStep
<1>4. ASSUME m \in QOut, NEW t \in QTxid, req' \in spentBy[t], QSetNewSpend(m, t),
             seen' = Witness([seen EXCEPT !.said = @ \cup {<<m, t>>}])
      PROVE  QInv'
  <2> DEFINE s == [seen EXCEPT !.said = @ \cup {<<m, t>>}]
  <2>1. StoreOK'
    <3>1. qMark' \in [QOut -> QTxid \cup {QNone}]
      BY <1>1, <1>4 DEF QSetNewSpend, StoreOK
    <3> QED BY <3>1, <1>1, <1>4 DEF QSetNewSpend, StoreOK, QSQL
  <2>2. s \in SeenType /\ <<m, t>> \in s.said /\ Grows(seen, s)
    BY <1>1, <1>4 DEF SeenType, Grows
  <2> HIDE DEF s
  <2>3. seen' \in SeenType /\ Grows(s, seen') /\ Witnessed'
    BY <1>4, <2>1, <2>2, WitnessOK DEF s
  <2>4. Grows(seen, seen') /\ <<m, t>> \in seen'.said
    BY <2>2, <2>3 DEF Grows
  <2>5. ReqInv(qBackend, seen', req')
    BY <1>4, <2>3, <2>4
  <2> QED BY <2>1, <2>3, <2>5 DEF QInv
<1> QED BY <1>2, <1>3, <1>4 DEF JungleBus

LEMMA RefreshStep == QInv /\ Refresh => QInv'
<1> SUFFICES ASSUME QInv, Refresh PROVE QInv'
  OBVIOUS
<1>1. PICK e \in req.left :
        LET heard == [req EXCEPT !.left = @ \ {e}]
            dropped == [t \in QTxid |-> Refreshed([heard EXCEPT !.rows = @ \ {e}])]
        IN JungleBus(e[2], Refreshed(heard), dropped)
  BY DEF Refresh
<1> DEFINE heard == [req EXCEPT !.left = @ \ {e}]
           fewer == [heard EXCEPT !.rows = @ \ {e}]
           dropped == [t \in QTxid |-> Refreshed(fewer)]
<1>2. /\ req.at = "refresh" /\ UNCHANGED <<qBackend, writes>> /\ seen \in SeenType
      /\ Basic(seen, req) /\ Selected(qBackend, seen, req)
  BY DEF Refresh, QInv, ReqInv, Staged
<1>3. JungleBus(e[2], Refreshed(heard), dropped)
  BY <1>1
<1>4. /\ heard \in RequestType /\ heard.at = "refresh" /\ heard.cfg = req.cfg
      /\ heard.rows = req.rows /\ heard.looked = req.looked /\ heard.known = req.known
      /\ heard.outcome = req.outcome /\ heard.left = req.left \ {e}
  BY <1>2 DEF Basic, RequestType
<1> HIDE DEF heard
<1>5. /\ fewer \in RequestType /\ fewer.at = "refresh" /\ fewer.cfg = req.cfg
      /\ fewer.rows = req.rows \ {e} /\ fewer.looked = req.looked /\ fewer.known = req.known
      /\ fewer.outcome = req.outcome /\ fewer.left = req.left \ {e}
  BY <1>4 DEF RequestType
<1> HIDE DEF fewer
<1>6. Basic(seen, heard) /\ Selected(qBackend, seen, heard)
  BY <1>2, <1>4 DEF Basic, Selected, MayMiss
<1>7. \A q \in Refreshed(heard) : ReqInv(qBackend, seen, q)
  BY <1>4, <1>6, RefreshedOK
<1>8. ASSUME NEW t \in QTxid, NEW s \in SeenType, Grows(seen, s), <<e[2], t>> \in s.said
      PROVE  \A q \in Refreshed(fewer) : ReqInv(qBackend, s, q)
  <2>1. ReqInv(qBackend, s, req)
    BY <1>8, InvGrows DEF QInv
  <2>2. Basic(s, req) /\ Selected(qBackend, s, req)
    BY <2>1, <1>2 DEF ReqInv, Staged
  <2>3. Basic(s, fewer)
    BY <2>2, <1>2, <1>5 DEF Basic
  <2>4. MayMiss(qBackend, s, fewer, e)
    <3>1. EverSpent(s, e[2])
      BY <1>8 DEF EverSpent, Told
    <3>2. qBackend # "redis" /\ req.cfg.refresh
      BY <1>2 DEF Selected
    <3> QED BY <3>1, <3>2, <1>5 DEF MayMiss
  <2>5. \A f : MayMiss(qBackend, s, req, f) => MayMiss(qBackend, s, fewer, f)
    BY <1>2, <1>5 DEF MayMiss, Selected
  <2>6. Unspent(fewer.cfg) => Free(s, MembersOf(fewer.rows))
    BY <2>2, <1>5 DEF Selected, Free, MembersOf
  <2>7. Selected(qBackend, s, fewer)
    BY <2>2, <2>4, <2>5, <2>6, <1>5 DEF Selected
  <2> QED BY <2>3, <2>7, <1>5, RefreshedOK
<1>9. \A t \in QTxid : dropped[t] = Refreshed(fewer)
  OBVIOUS
<1> HIDE DEF dropped
<1> QED BY <1>2, <1>3, <1>7, <1>8, <1>9, JungleBusStep

LEMMA MarksOK ==
  ASSUME Witnessed, NEW ms
  PROVE  /\ \A p \in MarksOf(ms) : p[1] \in ms /\ (p[1] \in QOut => p \in Told(seen))
         /\ \A m \in ms : \E p \in MarksOf(ms) : p[1] = m
<1>1. ASSUME NEW m \in ms
      PROVE  <<m, ChosenMark(qMark, m)>> \in MarksOf(ms)
  BY DEF MarksOf
<1>2. \A m : <<m, ChosenMark(qMark, m)>>[1] = m
  OBVIOUS
<1>3. ASSUME NEW p \in MarksOf(ms) PROVE p[1] \in ms /\ (p[1] \in QOut => p \in Told(seen))
  <2>1. PICK m \in ms : p = <<m, ChosenMark(qMark, m)>>
    BY DEF MarksOf
  <2> QED BY <2>1 DEF ChosenMark, Witnessed, Told
<1> QED BY <1>1, <1>2, <1>3

LEMMA ReadMarksStep == QInv /\ ReadMarks => QInv'
<1> SUFFICES ASSUME QInv, ReadMarks PROVE QInv'
  OBVIOUS
<1> DEFINE list == IF qBackend = "pg" /\ req.cfg.kind = "spends"
                   THEN req.list \cap qRow ELSE req.list
           known == MarksOf(list)
           left == IF req.cfg.refresh THEN {m \in list : <<m, QNone>> \in known} ELSE {}
           r == [req EXCEPT !.list = list, !.known = known, !.left = left]
<1>1. /\ req.at = "marks" /\ UNCHANGED <<qBackend, qStore, seen, writes>>
      /\ Basic(seen, req) /\ AtMarks(qBackend, seen, req)
      /\ StoreOK /\ Witnessed /\ seen \in SeenType
  BY DEF ReadMarks, QInv, ReqInv, Staged
<1>2. CannotBind => req' = Finish(req, "panic")
  BY DEF ReadMarks
<1>3. ~CannotBind => req' = Finish(req, "error") \/ req' \in Asked(r)
  BY DEF ReadMarks
<1>4. list \in SUBSET Member /\ list \subseteq req.list
  BY <1>1 DEF Basic, RequestType
<1>5. known \in SUBSET QMarks
  BY <1>1, <1>4 DEF MarksOf, ChosenMark, QMarks, StoreOK
<1>6. /\ \A p \in known : p[1] \in list /\ (p[1] \in QOut => p \in Told(seen))
      /\ \A m \in list : \E p \in known : p[1] = m
  BY <1>1, MarksOK
<1>7. left \subseteq list
  OBVIOUS
<1>8. req.cfg.kind \notin {"spend", "spends"} => list = req.list
  OBVIOUS
<1> HIDE DEF list, known, left
<1>9. /\ r \in RequestType /\ r.at = "marks" /\ r.cfg = req.cfg /\ r.rows = req.rows
      /\ r.looked = req.looked /\ r.outcome = req.outcome
      /\ r.list = list /\ r.known = known /\ r.left = left
  BY <1>1, <1>4, <1>5, <1>7 DEF Basic, RequestType
<1> HIDE DEF r
<1>10. Basic(seen, r)
  BY <1>1, <1>6, <1>9 DEF Basic
<1>11. AtMarks(qBackend, seen, r)
  <2>1. CASE req.cfg.kind \in {"spend", "spends"}
    BY <2>1, <1>1, <1>4, <1>9 DEF AtMarks
  <2>2. CASE req.cfg.kind \notin {"spend", "spends"}
    BY <2>2, <1>1, <1>8, <1>9, SameListed DEF AtMarks
  <2> QED BY <2>1, <2>2
<1>12. AtAsk(qBackend, seen, r)
  BY <1>6, <1>7, <1>9, <1>11 DEF AtAsk
<1>13. ReqInv(qBackend, seen, req')
  <2>1. CASE CannotBind
    BY <2>1, <1>1, <1>2, FinishOK DEF Panics, CannotBind
  <2>2. CASE req' = Finish(req, "error")
    BY <2>2, <1>1, FinishOK
  <2>3. CASE req' \in Asked(r)
    BY <2>3, <1>1, <1>9, <1>10, <1>12, AskedOK
  <2> QED BY <2>1, <2>2, <2>3, <1>3
<1> QED BY <1>1, <1>13, QuietStep

LEMMA AskSpendStep == QInv /\ AskSpend => QInv'
<1> SUFFICES ASSUME QInv, AskSpend PROVE QInv'
  OBVIOUS
<1>1. PICK m \in req.left :
        LET heard == [req EXCEPT !.left = @ \ {m}]
            told == [t \in QTxid |->
                      Asked([heard EXCEPT !.known = (@ \ {<<m, QNone>>}) \cup {<<m, t>>}])]
        IN JungleBus(m, Asked(heard), told)
  BY DEF AskSpend
<1> DEFINE heard == [req EXCEPT !.left = @ \ {m}]
           marked(t) == [heard EXCEPT !.known = (@ \ {<<m, QNone>>}) \cup {<<m, t>>}]
           told == [t \in QTxid |-> Asked(marked(t))]
<1>2. /\ req.at = "ask" /\ UNCHANGED <<qBackend, writes>> /\ seen \in SeenType
      /\ Basic(seen, req) /\ AtAsk(qBackend, seen, req)
  BY DEF AskSpend, QInv, ReqInv, Staged
<1>3. JungleBus(m, Asked(heard), told)
  BY <1>1
<1>4. /\ heard \in RequestType /\ heard.at = "ask" /\ heard.cfg = req.cfg
      /\ heard.rows = req.rows /\ heard.looked = req.looked /\ heard.known = req.known
      /\ heard.outcome = req.outcome /\ heard.left = req.left \ {m} /\ heard.list = req.list
  BY <1>2 DEF Basic, RequestType
<1> HIDE DEF heard
<1>5. m \in req.list /\ req.list \subseteq Member
  BY <1>2 DEF AtAsk, Basic, RequestType
<1>6. Basic(seen, heard) /\ AtAsk(qBackend, seen, heard)
  BY <1>2, <1>4, SameListed DEF Basic, AtAsk, AtMarks
<1>7. \A q \in Asked(heard) : ReqInv(qBackend, seen, q)
  BY <1>2, <1>4, <1>6, AskedOK
<1>8. ASSUME NEW t \in QTxid, NEW s \in SeenType, Grows(seen, s), <<m, t>> \in s.said
      PROVE  \A q \in Asked(marked(t)) : ReqInv(qBackend, s, q)
  <2> DEFINE r == marked(t)
             known == (req.known \ {<<m, QNone>>}) \cup {<<m, t>>}
  <2>1. known \in SUBSET QMarks
    BY <1>2, <1>5 DEF Basic, RequestType, QMarks
  <2>2. /\ r \in RequestType /\ r.at = "ask" /\ r.cfg = req.cfg
        /\ r.rows = req.rows /\ r.looked = req.looked /\ r.known = known
        /\ r.outcome = req.outcome /\ r.left = req.left \ {m} /\ r.list = req.list
    BY <2>1, <1>4 DEF RequestType
  <2> HIDE DEF r
  <2>3. ReqInv(qBackend, s, req)
    BY <1>8, InvGrows DEF QInv
  <2>4. Basic(s, req) /\ AtAsk(qBackend, s, req)
    BY <2>3, <1>2 DEF ReqInv, Staged
  <2>5. Basic(s, r)
    BY <2>2, <2>4, <1>2, <1>8 DEF Basic, Told
  <2>6. \A p \in known : p[1] \in req.list
    BY <2>4, <1>5 DEF AtAsk
  <2>7. \A n \in req.list : \E p \in known : p[1] = n
    <3>1. ASSUME NEW n \in req.list PROVE \E p \in known : p[1] = n
      <4>1. CASE n = m
        <5>1. <<m, t>> \in known /\ <<m, t>>[1] = m
          OBVIOUS
        <5> QED BY <5>1, <4>1
      <4>2. CASE n # m
        <5>1. PICK p \in req.known : p[1] = n
          BY <2>4 DEF AtAsk
        <5> QED BY <5>1, <4>2
      <4> QED BY <4>1, <4>2
    <3> QED BY <3>1
  <2>8. AtAsk(qBackend, s, r)
    BY <2>2, <2>4, <2>6, <2>7, SameListed DEF AtAsk, AtMarks
  <2>9. \A q \in Asked(r) : ReqInv(qBackend, s, q)
    BY <2>2, <2>5, <2>8, AskedOK
  <2> QED BY <2>9 DEF r
<1>9. \A t \in QTxid : told[t] = Asked(marked(t))
  OBVIOUS
<1> HIDE DEF told, marked
<1> QED BY <1>2, <1>3, <1>7, <1>8, <1>9, JungleBusStep

LEMMA ScanStep == QInv /\ Scan => QInv'
<1> SUFFICES ASSUME QInv, Scan PROVE QInv'
  OBVIOUS
<1> DEFINE list == IF QSQL THEN {} ELSE req.list \cap qSaved
<1>1. /\ req.at = "scan" /\ UNCHANGED <<qBackend, qStore, seen, writes>>
      /\ Basic(seen, req) /\ req.cfg.kind = "txid" /\ req.list \subseteq QOut
      /\ req.known = {}
      /\ req' = [req EXCEPT !.at = "load", !.list = list]
  BY DEF Scan, QInv, ReqInv, Staged
<1>2. list \subseteq QOut
  BY <1>1
<1> HIDE DEF list
<1>3. /\ req' \in RequestType /\ req'.at = "load" /\ req'.cfg = req.cfg
      /\ req'.rows = req.rows /\ req'.looked = req.looked /\ req'.known = req.known
      /\ req'.outcome = req.outcome /\ req'.list = list
  BY <1>1, <1>2 DEF Basic, RequestType, Stages, Member
<1>4. Basic(seen, req')
  BY <1>1, <1>3 DEF Basic
<1>5. CfgOK(req.cfg)
  BY <1>1, RequestsOK DEF Basic
<1>6. req.cfg.kind \notin Searches /\ ~Unspent(req.cfg) /\ Recorded(req.cfg)
  BY <1>1, <1>5 DEF CfgOK, Searches, Unspent, Recorded
<1>7. Listed(qBackend, seen, req', req'.list)
  BY <1>3, <1>5, <1>6, NamedListed
<1>8. AtLoad(qBackend, seen, req')
  BY <1>1, <1>2, <1>3, <1>6, <1>7 DEF AtLoad
<1>9. ReqInv(qBackend, seen, req')
  BY <1>3, <1>4, <1>8 DEF ReqInv, Staged
<1> QED BY <1>1, <1>9, QuietStep

\* What is not stored now had no record at some time, and what is stored had one.
LEMMA SavedSeen ==
  ASSUME Witnessed, NEW ms \in SUBSET Member
  PROVE  /\ ms \cap qSaved \subseteq seen.saved
         /\ ms \ qSaved \subseteq seen.gone \cup QTxid
         /\ ms \cap qRow \subseteq seen.saved \cup seen.bare
         /\ qRow \ qSaved \subseteq seen.bare
  BY DEF Witnessed, Member

LEMMA UnrecordedRedisStep ==
  ASSUME NEW s, NEW r, Basic(s, r), r.at = "load", AtLoad("redis", s, r),
         r.cfg.kind \in {"txos", "ancestors"}, ~r.cfg.txo, NEW q \in UnrecordedRedis(r)
  PROVE  ReqInv("redis", s, q)
<1>1. CfgOK(r.cfg) /\ r.list \in SUBSET Member /\ r.known \in SUBSET QMarks
  BY RequestsOK DEF Basic, RequestType
<1>2. ~Recorded(r.cfg)
  BY DEF Recorded
<1>3. Listed("redis", s, r, r.list) /\ (Unspent(r.cfg) => Free(s, r.list))
  BY DEF AtLoad
<1>4. CASE r.list = {}
  <2>1. q = Respond(r, {}, {})
    BY <1>4 DEF UnrecordedRedis
  <2> QED BY <2>1, <1>2, <1>3, <1>4, RespondOK
<1>5. CASE r.list # {} /\ r.cfg.spend /\ r.cfg.filter
  <2>1. q = Finish(r, "panic")
    BY <1>5 DEF UnrecordedRedis
  <2>2. Panics("redis", s, r)
    BY <1>5 DEF Panics
  <2> QED BY <2>1, <2>2, FinishOK
<1>6. CASE r.list # {} /\ ~(r.cfg.spend /\ r.cfg.filter) /\ r.list \cap QTxid # {}
  <2>1. q = Finish(r, "error")
    BY <1>6 DEF UnrecordedRedis
  <2> QED BY <2>1, FinishOK
<1>7. CASE r.list # {} /\ ~(r.cfg.spend /\ r.cfg.filter) /\ r.list \cap QTxid = {} /\ r.cfg.spend
  <2> DEFINE first == {e \in r.rows : \A f \in r.rows : ~Before(r.cfg, f[3], e[3])}
             shown(p) == {<<o, p[2]>> : o \in r.list}
  <2>1. PICK p \in r.known : p[1] \in MembersOf(first) /\ q = Respond(r, r.list, shown(p))
    BY <1>7 DEF UnrecordedRedis
  <2>2. ~Unspent(r.cfg)
    BY <1>7, <1>1 DEF Unspent, CfgOK, SearchCfg
  <2>3. p[1] \in r.list /\ p[1] \in QOut
    BY <1>1, <1>7, <2>2 DEF AtLoad, Member
  <2>4. p \in Told(s) /\ p = <<p[1], p[2]>> /\ p[2] \in QTxid \cup {QNone}
    BY <1>1, <2>3 DEF Basic, QMarks
  <2>5. shown(p) \in SUBSET QMarks
    BY <1>1, <2>4 DEF QMarks
  <2>6. \A z \in shown(p) : \E o \in r.list : <<o, z[2]>> \in Told(s)
    BY <2>3, <2>4
  <2> HIDE DEF shown
  <2> QED BY <2>1, <2>2, <2>5, <2>6, <1>1, <1>2, <1>3, RespondOK
<1>8. CASE r.list # {} /\ r.list \cap QTxid = {} /\ ~r.cfg.spend
  <2>1. q = Respond(r, r.list, {})
    BY <1>8 DEF UnrecordedRedis
  <2> QED BY <2>1, <1>1, <1>2, <1>3, RespondOK
<1> QED BY <1>4, <1>5, <1>6, <1>7, <1>8

LEMMA LoadRedisStep ==
  ASSUME Witnessed, Basic(seen, req), req.at = "load",
         AtLoad("redis", seen, req), NEW q \in LoadRedis(req)
  PROVE  ReqInv("redis", seen, q)
<1> DEFINE found == req.list \cap qSaved
           missing == req.list \ qSaved
<1>1. CfgOK(req.cfg) /\ req.cfg \in SearchCfg /\ req.list \in SUBSET Member
  BY RequestsOK DEF Basic, RequestType
<1>2. req.cfg.kind \in QKinds
  BY <1>1 DEF SearchCfg
<1>3. CASE req.cfg.kind \in {"txos", "ancestors"} /\ ~req.cfg.txo
  <2>1. q \in UnrecordedRedis(req)
    BY <1>3 DEF LoadRedis
  <2> QED BY <2>1, <1>3, UnrecordedRedisStep
<1>4. CASE ~(req.cfg.kind \in {"txos", "ancestors"} /\ ~req.cfg.txo)
  <2>1. Recorded(req.cfg)
    BY <1>2, <1>4 DEF Recorded, AtLoad, QKinds
  <2>2. found \subseteq seen.saved /\ missing \subseteq seen.gone \cup QTxid
    BY <1>1, SavedSeen
  <2>3. Listed("redis", seen, req, found)
    <3>1. Entered(seen, req, found)
      BY DEF AtLoad, Listed, Entered
    <3>2. Covers("redis", seen, req, found)
      BY <2>1, <2>2 DEF AtLoad, Listed, Covers, MayMiss
    <3> QED BY <3>1, <3>2 DEF Listed
  <2>4. Unspent(req.cfg) => Free(seen, found)
    BY DEF AtLoad, Free
  <2>5. ASSUME missing # {}, req.cfg.spend \/ req.cfg.kind = "balance"
        PROVE  Panics("redis", seen, req)
    BY <2>1, <2>2, <2>5 DEF Panics
  <2>6. CASE q = Finish(req, "panic") /\ req.cfg.kind = "balance" /\ missing # {}
    BY <2>5, <2>6, FinishOK
  <2>7. CASE q = [req EXCEPT !.at = "shown", !.answer = found] /\ req.cfg.spend
    <3>1. /\ q \in RequestType /\ q.at = "shown" /\ q.cfg = req.cfg
          /\ q.rows = req.rows /\ q.looked = req.looked /\ q.known = req.known
          /\ q.outcome = req.outcome /\ q.list = req.list /\ q.answer = found
      BY <2>7, <1>1 DEF Basic, RequestType, Stages
    <3> HIDE DEF found
    <3>2. Basic(seen, q)
      BY <3>1 DEF Basic
    <3>3. Answers("redis", seen, q)
      BY <3>1, <2>2, <2>3, <2>4, SameListed DEF Answers
    <3>4. q.answer \subseteq q.list /\ q.list \ q.answer \subseteq seen.gone \cup QTxid
      BY <3>1, <2>2 DEF found
    <3>5. AtShown("redis", seen, q)
      BY <3>1, <3>3, <3>4, <2>1, <2>7 DEF AtShown
    <3> QED BY <3>1, <3>2, <3>5 DEF ReqInv, Staged
  <2>8. CASE q = Respond(req, found, {})
    BY <2>2, <2>3, <2>4, <2>8, <1>1, RespondOK
  <2> QED BY <2>6, <2>7, <2>8, <1>4 DEF LoadRedis
<1> QED BY <1>3, <1>4

LEMMA LoadSQLStep ==
  ASSUME StoreOK, Witnessed, Basic(seen, req), req.at = "load", qBackend # "redis",
         AtLoad(qBackend, seen, req), NEW q \in LoadSQL(req)
  PROVE  ReqInv(qBackend, seen, q)
<1> DEFINE found == req.list \cap (IF req.cfg.kind = "txo" THEN qSaved ELSE qRow)
<1>1. CfgOK(req.cfg) /\ req.list \in SUBSET Member /\ req.list \subseteq QOut
      /\ Recorded(req.cfg) /\ qBackend \in {"pg", "sqlite"}
  BY RequestsOK, QBackendAssumption DEF Basic, RequestType, AtLoad, StoreOK
<1>2. found \subseteq qRow /\ (req.cfg.kind = "txo" => found \subseteq qSaved)
  BY DEF StoreOK
<1>3. req.list \ found \subseteq seen.gone
  BY <1>1 DEF StoreOK, Witnessed
<1>4. found \subseteq seen.saved \cup seen.bare
  BY <1>1, <1>2, SavedSeen
<1>5. CASE Unscannable(found)
  <2>1. q = Finish(req, "panic")
    BY <1>5 DEF LoadSQL
  <2>2. Panics(qBackend, seen, req)
    BY <1>1, <1>2, <1>5, SavedSeen DEF Unscannable, Panics
  <2> QED BY <2>1, <2>2, FinishOK
<1>6. CASE ~Unscannable(found)
  <2> DEFINE shown == IF req.cfg.spend THEN MarksOf(found) ELSE {}
  <2>1. q = Respond(req, found, shown)
    BY <1>6 DEF LoadSQL
  <2>2. qBackend = "sqlite" => found \subseteq seen.saved
    BY <1>6, <1>1, SavedSeen DEF Unscannable
  <2>3. Listed(qBackend, seen, req, found)
    <3>1. Entered(seen, req, found)
      BY DEF AtLoad, Listed, Entered
    <3>2. Covers(qBackend, seen, req, found)
      BY <1>1, <1>3 DEF AtLoad, Listed, Covers, MayMiss
    <3> QED BY <3>1, <3>2 DEF Listed
  <2>4. Unspent(req.cfg) => Free(seen, found)
    BY DEF AtLoad, Free
  <2>5. \A p \in MarksOf(found) : p \in Told(seen) /\ p \in QMarks
    BY <1>1 DEF MarksOf, ChosenMark, Witnessed, Told, StoreOK, QMarks, Member
  <2>6. shown \in SUBSET QMarks /\ \A p \in shown : p \in Told(seen)
    BY <2>5
  <2> HIDE DEF shown, found
  <2>7. found \in SUBSET Member
    BY <1>1 DEF found
  <2> QED BY <2>1, <2>2, <2>3, <2>4, <2>6, <2>7, <1>1, <1>4, RespondOK
<1> QED BY <1>5, <1>6

LEMMA LoadStep == QInv /\ Load => QInv'
<1> SUFFICES ASSUME QInv, Load PROVE QInv'
  OBVIOUS
<1>1. /\ req.at = "load" /\ UNCHANGED <<qBackend, qStore, seen, writes>>
      /\ Basic(seen, req) /\ AtLoad(qBackend, seen, req) /\ StoreOK /\ Witnessed
      /\ (QSQL => req' \in LoadSQL(req)) /\ (~QSQL => req' \in LoadRedis(req))
  BY DEF Load, QInv, ReqInv, Staged
<1>2. ReqInv(qBackend, seen, req')
  BY <1>1, LoadSQLStep, LoadRedisStep DEF QSQL
<1> QED BY <1>1, <1>2, QuietStep

LEMMA ShowSpendsStep == QInv /\ ShowSpends => QInv'
<1> SUFFICES ASSUME QInv, ShowSpends PROVE QInv'
  OBVIOUS
<1>1. /\ req.at = "shown" /\ UNCHANGED <<qBackend, qStore, seen, writes>>
      /\ Basic(seen, req) /\ AtShown(qBackend, seen, req) /\ StoreOK /\ Witnessed
      /\ seen \in SeenType
      /\ req' = IF req.list # req.answer THEN Finish(req, "panic")
                ELSE Respond(req, req.answer, MarksOf(req.list))
  BY DEF ShowSpends, QInv, ReqInv, Staged
<1>2. CASE req.list # req.answer
  <2>1. Panics(qBackend, seen, req)
    BY <1>1, <1>2 DEF Panics, AtShown
  <2>2. ReqInv(qBackend, seen, req')
    BY <1>1, <1>2, <2>1, FinishOK
  <2> QED BY <2>2, <1>1, QuietStep
<1>3. CASE req.list = req.answer
  <2>1. req.answer \in SUBSET Member /\ req.answer \subseteq QOut
    BY <1>1 DEF Basic, RequestType, AtShown, Answers, SeenType
  <2>2. \A p \in MarksOf(req.list) : p \in Told(seen) /\ p \in QMarks
    BY <2>1, <1>1, <1>3 DEF MarksOf, ChosenMark, Witnessed, Told, StoreOK, QMarks, Member
  <2>3. MarksOf(req.list) \in SUBSET QMarks
    BY <2>2
  <2>4. ReqInv(qBackend, seen, req')
    BY <1>1, <1>3, <2>1, <2>2, <2>3, RespondOK DEF AtShown, Answers
  <2> QED BY <2>4, <1>1, QuietStep
<1> QED BY <1>2, <1>3

LEMMA QStep == QInv /\ [QNext]_qVars => QInv'
<1>1. QInv /\ QNext => QInv'
  BY WriteStep, BeginStep, LoadOriginStep, ReadRangeStep, SelectStep, RefreshStep,
     ReadMarksStep, AskSpendStep, ScanStep, LoadStep, ShowSpendsStep DEF QNext
<1>2. QInv /\ UNCHANGED qVars => QInv'
  BY DEF QInv, qVars, qStore, StoreOK, Witnessed
<1> QED BY <1>1, <1>2

LEMMA QInvType == QInv => QTypeOK
<1> SUFFICES ASSUME QInv PROVE QTypeOK
  OBVIOUS
<1>1. StoreOK /\ Basic(seen, req) /\ req \in RequestType
  BY DEF QInv, ReqInv, Basic
<1>2. /\ req.at \in Stages /\ req.looked \subseteq Entry /\ req.list \subseteq Member
      /\ req.known \subseteq QMarks /\ req.answer \subseteq Member /\ req.shown \subseteq QMarks
      /\ req.outcome \in {"none", "ok", "error", "panic"}
  BY <1>1 DEF RequestType
<1> QED BY <1>1, <1>2 DEF QTypeOK, StoreOK, Basic, QSQL

LEMMA QInvJustified == QInv => Justified
<1> SUFFICES ASSUME QInv, req.outcome = "ok" PROVE Justified
  BY DEF Justified
<1>1. Answers(qBackend, seen, req) /\ Shows(qBackend, seen, req)
  BY DEF QInv, ReqInv, Basic, Staged, AtEnd
<1> QED BY <1>1 DEF Justified, Answers, Listed, Entered, Free, Shows

LEMMA QInvNothingLeftOut == QInv => NothingLeftOut
<1> SUFFICES ASSUME QInv, req.outcome = "ok" PROVE NothingLeftOut
  BY DEF NothingLeftOut
<1>1. Covers(qBackend, seen, req, req.answer)
  BY DEF QInv, ReqInv, Basic, Staged, AtEnd, Answers, Listed
<1> QED BY <1>1 DEF NothingLeftOut, Covers, MayMiss, QSQL

LEMMA QInvPanicsOnlyWhen == QInv => PanicsOnlyWhen
<1> SUFFICES ASSUME QInv, req.outcome = "panic" PROVE PanicsOnlyWhen
  BY DEF PanicsOnlyWhen
<1>1. Panics(qBackend, seen, req)
  BY DEF QInv, ReqInv, Basic, Staged, AtEnd
<1> QED BY <1>1 DEF Panics, PanicsOnlyWhen

LEMMA QInvariant == QSpec => []QInv
  BY QInitInv, QStep, PTL DEF QSpec

\* Every variable of a request and of the store it reads has its type.
THEOREM QTypeCorrect == QSpec => []QTypeOK
  BY QInvariant, QInvType, PTL

\* search.go and txos.go of the three stores: whatever is written while a request
\* runs, each member of its answer was entered under a key it searched, was
\* unspent at some time if it asked for the unspent, and every spend it shows
\* was recorded for that output, or told of it by JungleBus, but for the lists of
\* Postgres and Redis that pair spends with outputs wrongly, where it was recorded
\* for one of them.
THEOREM QAnswersJustified == QSpec => []Justified
  BY QInvariant, QInvJustified, PTL

\* search.go and txos.go of the three stores: an output that was in the log all
\* the time and is missing from an answer lies behind the limit, was spent, is a
\* transaction, had no record, or has another score under another key.
THEOREM QLeavesNothingOut == QSpec => []NothingLeftOut
  BY QInvariant, QInvNothingLeftOut, PTL

\* txos.go of the three stores, search.go, spends.go: a request that ends in a
\* panic read an output without its record, or is one of those that index what
\* they have not filled.
THEOREM QPanicsOnlyWhen == QSpec => []PanicsOnlyWhen
  BY QInvariant, QInvPanicsOnlyWhen, PTL
==============================================================================
