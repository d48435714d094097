------------------------------- MODULE Queries -------------------------------
(***************************************************************************)
(* One request of the HTTP API that reads the index (server/routes/own,    *)
(* acct, evt, tag, origins, txos, spend, tx), down to the commands and     *)
(* statements that the store of the deployment sends for it.               *)
(*                                                                         *)
(* A request reads the log of its keys, then the marks of what it found,   *)
(* then their records, each in a call of its own, and between two of them  *)
(* the writers of the store (TxoStore) may write anything.  Requests share *)
(* nothing but the store, so one request beside arbitrary writes stands    *)
(* for any number of them.  JungleBus is external: it says of an output    *)
(* what it likes, or fails.                                                *)
(*                                                                         *)
(* The flags script and tags only add data to an answer and are left out,  *)
(* as are the bound To and the comparison AND, which no route sets.        *)
(***************************************************************************)
EXTENDS Integers, Sequences, FiniteSets

CONSTANTS
  QKey,       \* keys of the log: owners, events, tags, origins
  QOut,       \* outputs
  QTxid,      \* transactions: the log of an owner also holds those that spent
  TxidOf,     \* TxidOf[o]: the transaction that creates an output
  QNone,      \* no transaction: the empty string
  QScores,    \* scores of the log
  QFroms,     \* values of the query parameter from
  QLimits,    \* values of the query parameter limit, 0 for none
  QBackends,  \* the stores explored
  QStores,    \* contents of the store when the request arrives
  MaxWrites   \* bound: writes of others during the request

NoFrom == -1

ASSUME QMemberAssumption == QOut \cap QTxid = {} /\ QNone \notin QTxid /\ NoFrom \notin QScores
ASSUME QNumberAssumption ==
  /\ QScores \subseteq Nat \ {0} /\ QFroms \subseteq Nat /\ QLimits \subseteq Nat
  /\ MaxWrites \in Nat /\ IsFiniteSet(QKey)
ASSUME QTxidOfAssumption == TxidOf \in [QOut -> QTxid]
ASSUME QBackendAssumption == QBackends \subseteq {"redis", "pg", "sqlite"}

Member == QOut \cup QTxid
Entry == QKey \X Member \X QScores
QMarks == Member \X (QTxid \cup {QNone})
ASSUME QStoreAssumption ==
  /\ QStores \subseteq [log : SUBSET Entry, saved : SUBSET QOut, mark : [QOut -> QTxid \cup {QNone}]]
  /\ \A s \in QStores : \A e, f \in s.log : e[1] = f[1] /\ e[2] = f[2] => e = f

VARIABLES
  qBackend,   \* the store of this deployment, never written
  qLog,       \* the entries of the log: key, member, score
  qSaved,     \* the outputs whose record is stored
  qRow,       \* SQL: the outputs that have a row, with or without a record
  qMark,      \* the transaction marked as spending an output
  req,        \* the request
  seen,       \* ghost: what the store held while the request ran
  writes      \* writes of others that are left

qStore == <<qLog, qSaved, qRow, qMark>>
qVars == <<qBackend, qStore, req, seen, writes>>

QSQL == qBackend # "redis"

(***************************************************************************)
(* The requests that the routes make of their parameters.                  *)
(***************************************************************************)

QKinds == {"txos", "balance", "txns", "ancestors", "txo", "load", "txid", "spend", "spends"}

\* Those that search the log.
Searches == {"txos", "balance", "txns", "ancestors"}

\* keys: what is searched; outs: the outputs asked for by name.
SearchCfg == [kind : QKinds, keys : Seq(QKey), outs : SUBSET QOut,
              from : QFroms \cup {NoFrom}, rev : BOOLEAN, limit : QLimits \cup {0},
              txo : BOOLEAN, spend : BOOLEAN, filter : BOOLEAN, refresh : BOOLEAN]

Ask(kind, keys, outs) ==
  [kind |-> kind, keys |-> keys, outs |-> outs, from |-> NoFrom, rev |-> FALSE,
   limit |-> 0, txo |-> FALSE, spend |-> FALSE, filter |-> FALSE, refresh |-> FALSE]

\* The pages of a list of entries; flags: the values that txo, spend and filter take.
Listing(kind, keys, flags, refreshes) ==
  [kind : {kind}, keys : keys, outs : {{}}, from : QFroms, rev : BOOLEAN, limit : QLimits,
   txo : flags, spend : flags, filter : flags, refresh : refreshes]

OneKey == {<<k>> : k \in QKey}

OwnerTxos == Listing("txos", OneKey, BOOLEAN, {FALSE})
TxosByEvent == Listing("txos", OneKey, BOOLEAN, {FALSE})
TxosByTag == {c \in TxosByEvent : ~c.spend /\ ~c.filter}

\* The owners of an account, in any order.
Owners == {s \in UNION {[1..n -> QKey] : n \in 1..Cardinality(QKey)} :
             \A i, j \in DOMAIN s : s[i] = s[j] => i = j}

AccountTxos == Listing("txos", Owners, BOOLEAN, BOOLEAN)
Balances == {[Ask("balance", s, {}) EXCEPT !.refresh = j] : s \in Owners, j \in BOOLEAN}
AccountActivity == Listing("txns", Owners, {FALSE}, {FALSE})
\* All entries of an origin.
OfOrigin(kind) ==
  [kind : {kind}, keys : OneKey, outs : {{}}, from : {NoFrom}, rev : {FALSE}, limit : {0},
   txo : BOOLEAN, spend : {FALSE}, filter : {FALSE}, refresh : {FALSE}]

OriginHistory == OfOrigin("txos")
\* The origin itself, which the route drops from the answer, is not in QOut.
OriginAncestors == OfOrigin("ancestors")

\* A list of origins: the searches one after the other, each a request of its own.
OriginsHistory == OriginHistory
OriginsAncestors == OriginHistory   \* those without an origin are skipped
GetTxo == {[Ask("txo", <<>>, O) EXCEPT !.spend = s] : O \in {{o} : o \in QOut}, s \in BOOLEAN}
GetTxos == {[Ask("load", <<>>, O) EXCEPT !.spend = s] : O \in SUBSET QOut, s \in BOOLEAN}
TxosByTxid ==
  {[Ask("txid", <<>>, {o \in QOut : TxidOf[o] = t}) EXCEPT !.spend = s] :
     t \in QTxid, s \in BOOLEAN}
GetSpend == {[Ask("spend", <<>>, {o}) EXCEPT !.refresh = TRUE] : o \in QOut}
GetSpends == {[Ask("spends", <<>>, O) EXCEPT !.refresh = TRUE] : O \in SUBSET QOut}

Requests ==
  OwnerTxos \cup TxosByEvent \cup TxosByTag \cup AccountTxos \cup Balances \cup AccountActivity
    \cup OriginsHistory \cup OriginsAncestors \cup OriginAncestors
    \cup GetTxo \cup GetTxos \cup TxosByTxid \cup GetSpend \cup GetSpends

(***************************************************************************)
(* The state of a request.                                                 *)
(***************************************************************************)

\* "range", "select": the search; "refresh", "ask": before each question to
\* JungleBus; "marks", "load", "shown": before the calls that read the marks,
\* the records, and for Redis the marks of what was loaded.
Stages == {"idle", "origin", "range", "select", "refresh", "marks", "ask", "scan",
           "load", "shown", "end"}

\* todo: keys left; rows: entries found; looked: ghost, the entries that came
\* out of the store; left: what JungleBus is to be asked; list: the members under
\* way; known: the marks read; answer, shown: the outputs and spends answered.
QIdle == [at |-> "idle", cfg |-> Ask("txos", <<>>, {}), todo |-> <<>>, rows |-> {},
          looked |-> {}, left |-> {}, list |-> {}, known |-> {}, answer |-> {},
          shown |-> {}, outcome |-> "none"]

QNothing == [ever |-> {}, always |-> {}, marks |-> {}, saved |-> {}, gone |-> {},
             bare |-> {}, said |-> {}]

QTypeOK ==
  /\ qBackend \in QBackends
  /\ qLog \subseteq Entry /\ qSaved \subseteq qRow /\ qRow \subseteq QOut
  /\ qBackend = "redis" => qRow = qSaved
  /\ qMark \in [QOut -> QTxid \cup {QNone}]
  /\ QSQL => \A o \in QOut : qMark[o] # QNone => o \in qRow
  /\ \A e, f \in qLog : e[1] = f[1] /\ e[2] = f[2] => e = f
  /\ req.at \in Stages /\ (req.at # "idle" => req.cfg \in Requests)
  /\ req.rows \subseteq req.looked /\ req.looked \subseteq Entry
  /\ req.list \subseteq Member /\ req.known \subseteq QMarks
  /\ req.answer \subseteq Member /\ req.shown \subseteq QMarks
  /\ req.outcome \in {"none", "ok", "error", "panic"} /\ (req.at = "end" <=> req.outcome # "none")
  /\ writes \in 0..MaxWrites

QInit ==
  /\ qBackend \in QBackends
  /\ \E s \in QStores :
       /\ qLog = s.log /\ qSaved = s.saved /\ qMark = s.mark
       /\ qRow = s.saved \cup
            (IF qBackend = "redis" THEN {} ELSE {o \in QOut : s.mark[o] # QNone})
  /\ req = QIdle /\ seen = QNothing /\ writes = MaxWrites

MembersOf(rows) == {e[2] : e \in rows}
ChosenMark(mark, m) == IF m \in QOut THEN mark[m] ELSE QNone
MarksOf(ms) == {<<m, ChosenMark(qMark, m)>> : m \in ms}

\* The ghost follows the store while the request runs.
Witness(s) ==
  [s EXCEPT !.ever = @ \cup qLog', !.always = @ \cap qLog',
            !.marks = @ \cup {<<o, qMark'[o]>> : o \in QOut},
            !.saved = @ \cup qSaved', !.gone = @ \cup (QOut \ qSaved'),
            !.bare = @ \cup (qRow' \ qSaved')]

Finish(r, outcome) == [r EXCEPT !.at = "end", !.outcome = outcome]
Respond(r, answer, shown) ==
  Finish([r EXCEPT !.answer = answer, !.shown = shown], "ok")

(***************************************************************************)
(* What others write meanwhile: the single writes that saves, rollbacks    *)
(* and broadcasts consist of.                                              *)
(***************************************************************************)

QWrite ==
  /\ req.at \notin {"idle", "end"}
  /\ writes > 0 /\ writes' = writes - 1
  /\ \/ \E e \in Entry :
          /\ qLog' = {f \in qLog : f[1] # e[1] \/ f[2] # e[2]} \cup {e}
          /\ UNCHANGED <<qSaved, qRow, qMark>>
     \/ \E e \in qLog : qLog' = qLog \ {e} /\ UNCHANGED <<qSaved, qRow, qMark>>
     \/ \E o \in QOut :
          /\ qSaved' = qSaved \cup {o} /\ qRow' = qRow \cup {o}
          /\ UNCHANGED <<qLog, qMark>>
     \/ \E o \in qSaved :       \* a row takes its mark with it
          /\ qSaved' = qSaved \ {o} /\ qRow' = qRow \ {o}
          /\ qMark' = IF QSQL THEN [qMark EXCEPT ![o] = QNone] ELSE qMark
          /\ UNCHANGED qLog
     \/ \E o \in QOut, t \in QTxid :
          /\ qMark' = [qMark EXCEPT ![o] = t]
          /\ qRow' = IF QSQL THEN qRow \cup {o} ELSE qRow
          /\ UNCHANGED <<qLog, qSaved>>
     \/ \E o \in QOut :
          /\ qMark' = [qMark EXCEPT ![o] = QNone] /\ UNCHANGED <<qLog, qSaved, qRow>>
  /\ seen' = Witness(seen)
  /\ UNCHANGED <<qBackend, req>>

(***************************************************************************)
(* The search of the log.                                                  *)
(***************************************************************************)

Before(cfg, s, t) == IF cfg.rev THEN s > t ELSE s < t

\* From is exclusive.
InBounds(cfg, e) == cfg.from # NoFrom => Before(cfg, cfg.from, e[3])

\* The pages that ORDER BY score and LIMIT may return of some entries, whatever
\* the order of equal scores.
Pages(cfg, S) ==
  IF cfg.limit = 0 \/ Cardinality(S) <= cfg.limit THEN {S}
  ELSE {P \in SUBSET S : /\ Cardinality(P) = cfg.limit
                         /\ \A e \in P, f \in S \ P : ~Before(cfg, f[3], e[3])}

\* A request begins with the data of the origin, with the commands that search
\* each key, with the statement that searches all, or with what it names.
FirstStage(cfg) ==
  CASE cfg.kind = "ancestors" -> "origin"
    [] cfg.kind \in {"txos", "balance", "txns"} -> IF QSQL THEN "select" ELSE "range"
    [] cfg.kind \in {"txo", "load"} -> "load"
    [] cfg.kind = "txid" -> "scan"
    [] cfg.kind \in {"spend", "spends"} -> "marks"

Begin ==
  /\ req.at = "idle"
  /\ \E cfg \in Requests :
       req' = [QIdle EXCEPT !.at = FirstStage(cfg), !.cfg = cfg, !.todo = cfg.keys,
                            !.list = cfg.outs]
  /\ UNCHANGED <<qBackend, qStore, writes>>
  /\ seen' = Witness([QNothing EXCEPT !.always = qLog])

\* OriginAncestors reads the origin of the output first, and uses its Outpoint,
\* nil when the origin is not resolved.  The data is another component's.
LoadOrigin ==
  /\ req.at = "origin"
  /\ \/ \E k \in QKey :
          req' = [req EXCEPT !.at = IF QSQL THEN "select" ELSE "range",
                             !.cfg.keys = <<k>>, !.todo = <<k>>]
     \/ req' = Finish(req, "panic")
  /\ UNCHANGED <<qBackend, qStore, seen, writes>>

Keys(r) == {r.todo[i] : i \in DOMAIN r.todo}

\* Redis, at the end of the search: what each kind of request reads next.
\* GetSpends sends its HMGET without fields when there is nothing to read.
AfterRanges(r) ==
  LET cfg == r.cfg IN
  CASE cfg.kind = "txns" -> Respond(r, r.list, {})
    [] cfg.kind = "balance" \/ cfg.filter ->
         [r EXCEPT !.at = IF r.list = {} THEN "load" ELSE "marks"]
    [] ~cfg.filter /\ cfg.spend -> [r EXCEPT !.at = "marks"]
    [] OTHER -> [r EXCEPT !.at = "load"]

\* Mutant: the rows of all keys are cut off in the order of the keys.
MergeUnsorted(r) ==
  {[r EXCEPT !.rows = P, !.list = MembersOf(P)] :
     P \in {P \in SUBSET r.rows : \/ P = r.rows
                                  \/ r.cfg.limit > 0 /\ Cardinality(P) = r.cfg.limit}}

\* Redis: the rows of all keys, sorted and cut off.
Merge(r) ==
  {[r EXCEPT !.rows = P, !.list = MembersOf(P)] : P \in Pages(r.cfg, r.rows)}

\* Redis: one range for each key; the limit counts members that are dropped, and
\* a member that an earlier key had keeps its score.
ReadRange ==
  /\ req.at = "range" /\ req.todo # <<>>
  /\ LET cfg == req.cfg
         found == {e \in qLog : e[1] = Head(req.todo) /\ InBounds(cfg, e)}
     IN \E page \in Pages(cfg, found) :
          LET kept == {e \in page :
                         /\ e[2] \in QTxid => cfg.kind # "balance" /\ ~cfg.filter
                         /\ e[2] \notin MembersOf(req.rows)}
              r == [req EXCEPT !.todo = Tail(@), !.rows = @ \cup kept,
                               !.looked = @ \cup page]
          IN IF r.todo # <<>> THEN req' = r
             ELSE req' \in {AfterRanges(m) : m \in Merge(r)}
  /\ UNCHANGED <<qBackend, qStore, seen, writes>>

\* Redis, without records: the outputs as they are in the log.  Each gets the
\* spend of the first one, and there is none to show when spent ones are
\* filtered.  A transaction among the members fails the request.
UnrecordedRedis(r) ==
  LET first == {e \in r.rows : \A f \in r.rows : ~Before(r.cfg, f[3], e[3])} IN
  IF r.list = {} THEN {Respond(r, {}, {})}
  ELSE IF r.cfg.spend /\ r.cfg.filter THEN {Finish(r, "panic")}
  ELSE IF r.list \cap QTxid # {} THEN {Finish(r, "error")}
  ELSE IF r.cfg.spend
  THEN {Respond(r, r.list, {<<o, p[2]>> : o \in r.list}) :
          p \in {p \in r.known : p[1] \in MembersOf(first)}}
  ELSE {Respond(r, r.list, {})}

\* SQL, without records: the spends are not shown.
UnrecordedSQL(r, list) ==
  IF list \cap QTxid # {} THEN {Finish(r, "error")} ELSE {Respond(r, list, {})}

\* SQL, when all rows are read: SearchOutpoints drops the transactions.
AfterRows(r) ==
  LET list == MembersOf(r.rows) IN
  CASE r.cfg.kind = "txns" -> {Respond(r, list, {})}
    [] r.cfg.kind = "balance" \/ r.cfg.txo ->
         {[r EXCEPT !.at = "load", !.list = list \cap QOut]}
    [] OTHER -> UnrecordedSQL(r, list)

Refreshed(r) == IF r.left = {} THEN AfterRows(r) ELSE {[r EXCEPT !.at = "refresh"]}

\* Mutant: the join forgets to ask for outputs that are not spent.
FoundSpent(r) ==
  {e \in qLog : /\ e[1] \in Keys(r) /\ InBounds(r.cfg, e)
                /\ r.cfg.filter \/ r.cfg.kind = "balance" => e[2] \in qRow}

\* SQL: what the statement finds, joined with the unspent outputs if only those
\* are asked for.
Found(r) ==
  {e \in qLog : /\ e[1] \in Keys(r) /\ InBounds(r.cfg, e)
                /\ r.cfg.filter \/ r.cfg.kind = "balance"
                     => e[2] \in qRow /\ qMark[e[2]] = QNone}

\* SQL: one statement finds the rows of all keys.
Select ==
  /\ req.at = "select"
  /\ \E page \in Pages(req.cfg, Found(req)) :
       req' \in Refreshed([req EXCEPT !.todo = <<>>, !.rows = page, !.looked = page,
                                      !.left = IF req.cfg.refresh THEN page ELSE {}])
  /\ UNCHANGED <<qBackend, qStore, seen, writes>>

(***************************************************************************)
(* Marks, and the questions to JungleBus.                                  *)
(***************************************************************************)

\* Mutant: no row is inserted for an output that has none.
QSetNewSpendUpdates(o, t) ==
  /\ qMark' = IF qMark[o] = QNone \/ qBackend = "sqlite"
              THEN [qMark EXCEPT ![o] = t] ELSE qMark
  /\ UNCHANGED <<qLog, qSaved, qRow>>

\* Sets the mark of o unless it has one; SQLite replaces the one it has.
QSetNewSpend(o, t) ==
  /\ qMark' = IF qMark[o] = QNone \/ qBackend = "sqlite"
              THEN [qMark EXCEPT ![o] = t] ELSE qMark
  /\ qRow' = IF QSQL THEN qRow \cup {o} ELSE qRow
  /\ UNCHANGED <<qLog, qSaved>>

\* JungleBus fails, knows no spend of m, or names one, which is stored: what may
\* become of the request when it knows none, and for each spend.
JungleBus(m, unspent, spentBy) ==
  \/ /\ req' = Finish(req, "error") /\ UNCHANGED <<qStore, seen>>
  \/ /\ req' \in unspent /\ UNCHANGED <<qStore, seen>>
  \/ /\ m \in QOut
     /\ \E t \in QTxid :
          /\ req' \in spentBy[t]
          /\ QSetNewSpend(m, t)
          /\ seen' = Witness([seen EXCEPT !.said = @ \cup {<<m, t>>}])

\* SQL: row by row, also the rows of transactions and of spent outputs; what is
\* spent is left out.
Refresh ==
  /\ req.at = "refresh"
  /\ \E e \in req.left :
       LET asked == [req EXCEPT !.left = @ \ {e}]
           dropped == [t \in QTxid |-> Refreshed([asked EXCEPT !.rows = @ \ {e}])]
       IN JungleBus(e[2], Refreshed(asked), dropped)
  /\ UNCHANGED <<qBackend, writes>>

\* GetSpends of Postgres returns the marks alone, of the rows it found and in
\* their order.  The route answers that list as it is, so its reader takes the
\* i-th mark for that of the i-th output asked for.  Each is asked for once.
InRowOrder(r) ==
  {Respond(r, {place[o] : o \in r.list}, {<<place[p[1]], p[2]>> : p \in r.known}) :
     place \in {f \in [r.list -> r.cfg.outs] : \A o, u \in r.list : f[o] = f[u] => o = u}}

\* filterSpent keeps the members without a mark, GetSpends all of them.
AfterMarks(r) ==
  LET unspent == {m \in r.list : <<m, QNone>> \in r.known}
  IN CASE r.cfg.kind = "spends" /\ qBackend = "pg" -> InRowOrder(r)
       [] r.cfg.kind = "spend" \/ (r.cfg.kind = "spends" /\ qBackend # "pg") ->
            {Respond(r, r.list, r.known)}
       [] r.cfg.kind = "balance" -> {[r EXCEPT !.at = "load", !.list = unspent]}
       [] OTHER -> {[r EXCEPT !.at = "load", !.list = IF r.cfg.filter THEN unspent ELSE @]}

Asked(r) == IF r.left = {} THEN AfterMarks(r) ELSE {[r EXCEPT !.at = "ask"]}

\* The statement of SQLite for the marks of a list cannot bind it.
CannotBind == qBackend = "sqlite" /\ req.cfg.kind = "spends"

\* One read of the marks of the list: HMGET fails without fields; Postgres has
\* rows only of outputs it knows.
ReadMarks ==
  /\ req.at = "marks"
  /\ LET list == IF qBackend = "pg" /\ req.cfg.kind = "spends"
                 THEN req.list \cap qRow ELSE req.list
         known == MarksOf(list)
     IN IF CannotBind THEN req' = Finish(req, "panic")
        ELSE IF ~QSQL /\ list = {} THEN req' = Finish(req, "error")
        ELSE req' \in Asked([req EXCEPT !.list = list, !.known = known,
               !.left = IF req.cfg.refresh THEN {m \in list : <<m, QNone>> \in known}
                        ELSE {}])
  /\ UNCHANGED <<qBackend, qStore, seen, writes>>

AskSpend ==
  /\ req.at = "ask"
  /\ \E m \in req.left :
       LET asked == [req EXCEPT !.left = @ \ {m}]
           told == [t \in QTxid |->
                   Asked([asked EXCEPT !.known = (@ \ {<<m, QNone>>}) \cup {<<m, t>>}])]
       IN JungleBus(m, Asked(asked), told)
  /\ UNCHANGED <<qBackend, writes>>

(***************************************************************************)
(* Records.                                                                *)
(***************************************************************************)

\* LoadTxosByTxid: the SQL stores read the outputs and append none to the list.
Scan ==
  /\ req.at = "scan"
  /\ req' = [req EXCEPT !.at = "load", !.list = IF QSQL THEN {} ELSE @ \cap qSaved]
  /\ UNCHANGED <<qBackend, qStore, seen, writes>>

\* Redis: HMGET, with a nil for what is missing, of which a balance reads the
\* satoshis; then the marks, if they are asked for.
LoadRedis(r) ==
  LET found == r.list \cap qSaved
      missing == r.list \ qSaved
  IN IF r.cfg.kind \in {"txos", "ancestors"} /\ ~r.cfg.txo THEN UnrecordedRedis(r)
     ELSE IF r.cfg.kind = "balance" /\ missing # {} THEN {Finish(r, "panic")}
     ELSE IF r.cfg.spend /\ r.list # {} /\ (r.cfg.kind = "txo" => missing = {})
     THEN {[r EXCEPT !.at = "shown", !.answer = found]}
     ELSE {Respond(r, found, {})}

\* Mutant: Postgres cannot scan the owners of a row that has none, either.
UnscannableNull(rows) == ~(rows \subseteq qSaved)

\* SQLite cannot scan the owners of a row without a record.
Unscannable(rows) == qBackend = "sqlite" /\ ~(rows \subseteq qSaved)

\* SQL: one statement reads records and marks; LoadTxo asks for rows with a record.
LoadSQL(r) ==
  LET found == r.list \cap (IF r.cfg.kind = "txo" THEN qSaved ELSE qRow)
  IN IF Unscannable(found) THEN {Finish(r, "panic")}
     ELSE {Respond(r, found, IF r.cfg.spend THEN MarksOf(found) ELSE {})}

Load ==
  /\ req.at = "load"
  /\ req' \in IF QSQL THEN LoadSQL(req) ELSE LoadRedis(req)
  /\ UNCHANGED <<qBackend, qStore, seen, writes>>

\* Redis: the second read of the marks; a nil has no Spend to set.
ShowSpends ==
  /\ req.at = "shown"
  /\ req' = IF req.list # req.answer THEN Finish(req, "panic")
            ELSE Respond(req, req.answer, MarksOf(req.list))
  /\ UNCHANGED <<qBackend, qStore, seen, writes>>

QNext ==
  \/ QWrite \/ Begin \/ LoadOrigin
  \/ ReadRange \/ Select \/ Refresh
  \/ ReadMarks \/ AskSpend
  \/ Scan \/ Load \/ ShowSpends

QSpec == QInit /\ [][QNext]_qVars

(***************************************************************************)
(* Properties.                                                             *)
(***************************************************************************)

KeysOf(cfg) == {cfg.keys[i] : i \in DOMAIN cfg.keys}
Searched(cfg, e) == cfg.kind \in Searches /\ e[1] \in KeysOf(cfg) /\ InBounds(cfg, e)
Unspent(cfg) == cfg.filter \/ cfg.kind = "balance"
Recorded(cfg) == cfg.txo \/ cfg.kind \in {"balance", "load", "txo", "txid"}
Told(s) == s.marks \cup s.said
EverSpent(s, m) == \E t \in QTxid : <<m, t>> \in Told(s)

\* rows is a full page, and e may come after all of it.
CutOff(cfg, rows, e) ==
  /\ cfg.limit > 0 /\ Cardinality(rows) = cfg.limit /\ e \notin rows
  /\ \A f \in rows : ~Before(cfg, e[3], f[3])

\* search.go of the three stores: what a request answers held at some time while
\* it ran, each part for itself: a member was in the log of a key in the bounds,
\* unspent if that was asked, with a record if that was answered, and the spend
\* shown was the mark of the output or the answer of JungleBus.  Without txo
\* Redis shows the spend of one output of the page with all (search.go:215), and
\* Postgres takes the row of a mark for a record.  A list of spends that Postgres
\* answers may name them beside other outputs (pg-store/txos.go:458): there each
\* was the spend of some output that was asked for.
Justified ==
  req.outcome = "ok" =>
    /\ \A m \in req.answer :
         /\ req.cfg.keys # <<>> => \E e \in seen.ever : e[2] = m /\ Searched(req.cfg, e)
         /\ Unspent(req.cfg) => <<m, QNone>> \in seen.marks
         /\ Recorded(req.cfg) => m \in seen.saved \cup (IF qBackend = "pg" THEN seen.bare ELSE {})
    /\ \A p \in req.shown :
         \/ p \in Told(seen)
         \/ /\ qBackend = "redis" /\ req.cfg.kind \in {"txos", "ancestors"} /\ ~req.cfg.txo
            /\ \E o \in req.answer : <<o, p[2]>> \in Told(seen)
         \/ /\ qBackend = "pg" /\ req.cfg.kind = "spends"
            /\ \E o \in req.cfg.outs : <<o, p[2]>> \in Told(seen)

\* search.go of the three stores: an entry that was in the log all the time and
\* is not answered lies behind the page that was looked at, or was spent, or had
\* no record, at some time of the request.  For Redis the page is that of its key
\* or that of all keys, and an entry moves with its score in an earlier key.
NothingLeftOut ==
  req.outcome = "ok" =>
    \A e \in seen.always :
      Searched(req.cfg, e) /\ e[2] \notin req.answer =>
        \/ CutOff(req.cfg, IF QSQL THEN req.looked ELSE {f \in req.looked : f[1] = e[1]}, e)
        \/ ~QSQL /\ CutOff(req.cfg, req.rows, e)
        \/ ~QSQL /\ \E f \in seen.ever : f[1] # e[1] /\ f[2] = e[2] /\ f[3] # e[3]
        \/ (Unspent(req.cfg) \/ Recorded(req.cfg)) /\ e[2] \in QTxid \cup seen.gone
        \/ (Unspent(req.cfg) \/ (QSQL /\ req.cfg.refresh)) /\ EverSpent(seen, e[2])

\* search.go, txos.go: the handlers recover from no panic, so one of them ends the
\* server.  A request panics on Redis when it filters, shows spends and loads no
\* records, or when a record it reads was missing at some time; on SQLite when it
\* asks for several spends, or loads a row that only holds a mark; and for the
\* ancestors of an origin that is not resolved.  No search of Postgres panics.
PanicsOnlyWhen ==
  req.outcome = "panic" =>
    \/ req.cfg.kind = "ancestors"
    \/ /\ qBackend = "redis"
       /\ \/ req.cfg.kind = "txos" /\ req.cfg.filter /\ req.cfg.spend /\ ~req.cfg.txo
          \/ /\ Recorded(req.cfg) /\ (req.cfg.spend \/ req.cfg.kind = "balance")
             /\ req.list \cap (seen.gone \cup QTxid) # {}
    \/ qBackend = "sqlite" /\ (req.cfg.kind = "spends" \/ seen.bare # {})
=============================================================================
