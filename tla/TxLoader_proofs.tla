--------------------------- MODULE TxLoader_proofs ---------------------------
(***************************************************************************)
(* Proofs about TxLoader: requests are shared, waiters are served, a proof *)
(* that is kept holds, and without faults ErrNotFound is true.             *)
(***************************************************************************)
EXTENDS TxLoader, TLAPS

(***************************************************************************)
(* The inductive invariant.                                                *)
(***************************************************************************)

Leads(c) == call[c].at \in {"request", "unmap"}

\* A flight is in the map exactly while its leader requests it or is about to
\* delete it, and it is done exactly in the second case.
Led ==
  \A c \in Callers : Leads(c) =>
    /\ inflightMap[Url(c)] # NoFlight
    /\ inflightMap[Url(c)].leader = c
    /\ inflightMap[Url(c)].done <=> call[c].at = "unmap"
Leaders ==
  \A u \in Urls : inflightMap[u] # NoFlight =>
    Leads(inflightMap[u].leader) /\ Url(inflightMap[u].leader) = u

\* Who waits waits for a flight that is not done.
Waiting ==
  \A c \in Callers : call[c].at = "wait" =>
    inflightMap[Url(c)] # NoFlight /\ ~inflightMap[Url(c)].done

\* Where a caller can be with which resource, and what a proof looks like.
Carries(r) ==
  /\ r.at \in {"proof", "check"} => r.res = "prf"
  /\ r.at \in {"cache", "node", "store"} => r.res = "tx"
  /\ r.at = "check" => r.body.is = "good"
  /\ r.res = "prf" /\ r.body.is = "good" => r.body.height >= 1
Carrying == \A c \in Callers : Carries(call[c])
Results ==
  \A u \in Urls :
    inflightMap[u] # NoFlight /\ u[1] = "prf" /\ inflightMap[u].Result.is = "good"
      => inflightMap[u].Result.height >= 1

\* A proof is kept only below Depth blocks, and there nothing undoes it.
TipOrder == Chaintip <= tip
Kept ==
  \A t \in Txids \ late :
    proofs[t].kept => chain[t] = proofs[t].height /\ chain[t] \in 1..(tip - Depth - 1)

\* Without faults nothing is malformed, and a request for a transaction that
\* was known as the call began is in vain only when the node has it.
NodeHas(t) == "node" \in providers /\ t \in known["node"]
Asking(c) == call[c].knew /\ call[c].res = "tx"
NoBad ==
  /\ \A u \in Urls : inflightMap[u] # NoFlight => inflightMap[u].Result.is # "bad"
  /\ \A c \in Callers : call[c].body.is # "bad"
Provided(c) == \E p \in providers : call[c].tx \in known[p]
Promised(c) ==
  Asking(c) =>
    /\ Provided(c)
    /\ call[c].at \in {"cache", "join"} /\ inflightMap[Url(c)] # NoFlight =>
         \/ ~inflightMap[Url(c)].done
         \/ inflightMap[Url(c)].Result.is = "good"
         \/ NodeHas(call[c].tx)
    /\ call[c].at \in {"unmap", "parse"} => call[c].body.is = "good" \/ NodeHas(call[c].tx)
    /\ call[c].at = "node" => NodeHas(call[c].tx)
NotFoundTrue(c) == call[c].out = "not-found" => ~call[c].knew
Known ==
  left = MaxFaults => NoBad /\ \A c \in Callers : Promised(c) /\ NotFoundTrue(c)

IInv == TypeOK /\ Led /\ Leaders /\ Waiting /\ Carrying /\ Results /\ TipOrder /\ Kept /\ Known

(***************************************************************************)
(* How a call ends or goes on.                                             *)
(***************************************************************************)

\* What every caller state keeps: its transaction and what it knew.
Same(r, s) == r.tx = s.tx /\ r.knew = s.knew

\* End leaves a call at its outcome.
LEMMA EndFacts ==
  ASSUME NEW s \in CallStates, NEW out \in Outcomes
  PROVE  /\ End(s, out) \in CallStates /\ Same(End(s, out), s)
         /\ End(s, out).at = "done" /\ End(s, out).out = out
         /\ End(s, out).body = Nothing /\ End(s, out).res = s.res
<1>1. Nothing \in Bodies
  BY BoundAssumption DEF Nothing, Bodies, Heights
<1> QED
  BY <1>1 DEF End, CallStates, Same, Places, Errors

\* LoadTx goes on to the proof or ends.
LEMMA LoadedFacts ==
  ASSUME NEW s \in CallStates
  PROVE  /\ Loaded(s) \in CallStates /\ Same(Loaded(s), s)
         /\ Loaded(s).at \in {"proof", "done"} /\ Loaded(s).body = Nothing
         /\ Loaded(s).at = "proof" => Loaded(s).res = "prf" /\ Loaded(s).out = s.out
         /\ Loaded(s).at = "done" => Loaded(s).out = "found"
<1>1. Nothing \in Bodies
  BY BoundAssumption DEF Nothing, Bodies, Heights
<1>2. CASE s.kind = "tx"
  BY <1>1, <1>2 DEF Loaded, CallStates, Same, Places, Resources
<1>3. CASE s.kind # "tx"
  BY <1>3, EndFacts DEF Loaded, Outcomes
<1> QED
  BY <1>2, <1>3

\* LoadTx ends without a transaction.
LEMMA NotLoadedFacts ==
  ASSUME NEW s \in CallStates, NEW err \in Errors
  PROVE  /\ NotLoaded(s, err) \in CallStates /\ Same(NotLoaded(s, err), s)
         /\ NotLoaded(s, err).at = "done" /\ NotLoaded(s, err).body = Nothing
         /\ NotLoaded(s, err).res = s.res
         /\ NotLoaded(s, err).out = "not-found" => err # "other"
<1>1. CASE err = "other"
  BY <1>1, EndFacts DEF NotLoaded, Outcomes
<1>2. CASE err # "other"
  BY <1>2, EndFacts DEF NotLoaded, Outcomes
<1> QED
  BY <1>1, <1>2

\* LoadTx goes on to the node or ends.
LEMMA FallbackFacts ==
  ASSUME NEW s \in CallStates, NEW err \in Errors
  PROVE  /\ Fallback(s, err) \in CallStates /\ Same(Fallback(s, err), s)
         /\ Fallback(s, err).at \in {"node", "done"} /\ Fallback(s, err).body = Nothing
         /\ Fallback(s, err).res = s.res
         /\ Fallback(s, err).at = "node" => "node" \in providers /\ Fallback(s, err).out = s.out
         /\ Fallback(s, err).at = "done" =>
              "node" \notin providers /\ (Fallback(s, err).out = "not-found" => err # "other")
<1>1. Nothing \in Bodies
  BY BoundAssumption DEF Nothing, Bodies, Heights
<1>2. CASE "node" \in providers
  BY <1>1, <1>2 DEF Fallback, CallStates, Same, Places, Errors
<1>3. CASE "node" \notin providers
  BY <1>3, NotLoadedFacts DEF Fallback
<1> QED
  BY <1>2, <1>3

\* LoadProof ends.
LEMMA ProofLoadedFacts ==
  ASSUME NEW s \in CallStates, NEW out \in Outcomes
  PROVE  /\ ProofLoaded(s, out) \in CallStates /\ Same(ProofLoaded(s, out), s)
         /\ ProofLoaded(s, out).at = "done" /\ ProofLoaded(s, out).body = Nothing
         /\ ProofLoaded(s, out).out \in {"found", out}
<1>1. CASE s.kind = "tx"
  BY <1>1, EndFacts DEF ProofLoaded, Outcomes
<1>2. CASE s.kind # "tx"
  BY <1>2, EndFacts DEF ProofLoaded
<1> QED
  BY <1>1, <1>2

(***************************************************************************)
(* The steps of a caller, in short: all but Request change one caller.     *)
(***************************************************************************)

\* The steps that neither enter nor leave a flight.
Quiet(c) == \/ ReadCache(c) \/ ParseTx(c) \/ ParseProof(c) \/ Node(c) \/ Store(c)
            \/ ReadProof(c) \/ Check(c) \/ Return(c)

\* A quiet step changes one caller, to a state that is well-formed.
LEMMA QuietFacts ==
  ASSUME TypeOK, Carrying, NEW c \in Callers, Quiet(c)
  PROVE  /\ \A d \in Callers : d # c => call'[d] = call[d]
         /\ call'[c] \in CallStates
         /\ call' \in [Callers -> CallStates]
         /\ call'[c].at # "idle" => Same(call'[c], call[c]) /\ call'[c].tx \in Txids
         /\ call[c].at \in {"cache", "parse", "node", "store", "proof", "check", "done"}
         /\ call'[c].at \notin {"request", "unmap", "wait", "parse"}
         /\ UNCHANGED <<inflightMap, providers, known, chain, tip>>
         /\ call'[c].body \in {Nothing, Rawtx} \/ call'[c].body = call[c].body
            \/ (call'[c].at = "check" /\ call'[c].body = Proof(proofs[Tx(c)].height)
                /\ proofs[Tx(c)].height # 0)
<1>0. call[c] \in CallStates /\ call \in [Callers -> CallStates]
  BY DEF TypeOK
<1>00. /\ Nothing \in Bodies /\ Rawtx \in Bodies
       /\ \A h \in Heights : Proof(h) \in Bodies
  BY BoundAssumption DEF Nothing, Rawtx, Proof, Bodies, Heights
<1>1. CASE ReadCache(c)
  <2>1. PICK err \in Errors :
          call' = [call EXCEPT ![c] = IF rawtxs[Tx(c)] = "good" THEN Loaded(call[c])
                       ELSE IF "jb" \in providers THEN [call[c] EXCEPT !.at = "join"]
                       ELSE Fallback(call[c], err)]
    BY <1>1 DEF ReadCache, Becomes, Errors
  <2>2. [call[c] EXCEPT !.at = "join"] \in CallStates
    BY <1>0 DEF CallStates, Places
  <2>3. call[c].at = "cache" /\ UNCHANGED <<inflightMap, world>>
    BY <1>1 DEF ReadCache, At
  <2>4. call[c].tx \in Txids
    BY <2>3 DEF TypeOK
  <2>5. CASE rawtxs[Tx(c)] = "good"
    BY <1>0, <2>1, <2>3, <2>4, <2>5, LoadedFacts DEF Same, world
  <2>6. CASE rawtxs[Tx(c)] # "good" /\ "jb" \in providers
    BY <1>0, <2>1, <2>2, <2>3, <2>4, <2>6 DEF Same, world, CallStates
  <2>7. CASE rawtxs[Tx(c)] # "good" /\ "jb" \notin providers
    BY <1>0, <2>1, <2>3, <2>4, <2>7, FallbackFacts DEF Same, world
  <2> QED
    BY <2>5, <2>6, <2>7
<1>2. CASE ParseTx(c)
  <2>1. call[c].at = "parse" /\ UNCHANGED <<inflightMap, world>> /\ call[c].tx \in Txids
    BY <1>2 DEF ParseTx, At, TypeOK
  <2>2. [call[c] EXCEPT !.at = "store"] \in CallStates
    BY <1>0 DEF CallStates, Places
  <2>3. call[c].err \in Errors /\ "other" \in Errors /\ call[c].body.is \in {"none", "bad", "good"}
    BY <1>0 DEF CallStates, Errors, Bodies
  <2>4. CASE call[c].body.is = "good"
    BY <1>0, <1>2, <2>1, <2>2, <2>4 DEF ParseTx, Becomes, Same, world, CallStates
  <2>5. CASE call[c].body.is = "bad"
    BY <1>0, <1>2, <2>1, <2>3, <2>5, FallbackFacts DEF ParseTx, Becomes, Same, world
  <2>6. CASE call[c].body.is = "none"
    BY <1>0, <1>2, <2>1, <2>3, <2>6, FallbackFacts DEF ParseTx, Becomes, Same, world
  <2> QED
    BY <2>3, <2>4, <2>5, <2>6
<1>3. CASE ParseProof(c)
  <2>1. call[c].at = "parse" /\ UNCHANGED <<inflightMap, world>> /\ call[c].tx \in Txids
    BY <1>3 DEF ParseProof, At, TypeOK
  <2>2. [call[c] EXCEPT !.at = "check"] \in CallStates
    BY <1>0 DEF CallStates, Places
  <2>3. call[c].body.is \in {"none", "bad", "good"} /\ {"error", "nothing"} \subseteq Outcomes
    BY <1>0 DEF CallStates, Outcomes, Bodies
  <2>4. CASE call[c].body.is = "good"
    BY <1>0, <1>3, <2>1, <2>2, <2>4 DEF ParseProof, Becomes, Same, world, CallStates
  <2>5. CASE call[c].body.is = "bad"
    BY <1>0, <1>3, <2>1, <2>3, <2>5, ProofLoadedFacts DEF ParseProof, Becomes, Same, world
  <2>6. CASE call[c].body.is = "none"
    BY <1>0, <1>3, <2>1, <2>3, <2>6, ProofLoadedFacts DEF ParseProof, Becomes, Same, world
  <2> QED
    BY <2>3, <2>4, <2>5, <2>6
<1>4. CASE Node(c)
  <2>1. call[c].at = "node" /\ UNCHANGED <<inflightMap, world>> /\ call[c].tx \in Txids
    BY <1>4 DEF Node, At, TypeOK
  <2>2. CASE call' = [call EXCEPT ![c] = [call[c] EXCEPT !.at = "store", !.body = Rawtx]]
    <3>1. [call[c] EXCEPT !.at = "store", !.body = Rawtx] \in CallStates
      BY <1>0, <1>00 DEF CallStates, Places
    <3> QED
      BY <1>0, <2>1, <2>2, <3>1 DEF Same, world, CallStates
  <2>3. CASE \E err \in Errors : call' = [call EXCEPT ![c] = NotLoaded(call[c], err)]
    BY <1>0, <2>1, <2>3, NotLoadedFacts DEF Same, world
  <2>4. {"nil", "other"} \subseteq Errors
    BY DEF Errors
  <2> QED
    BY <1>4, <2>2, <2>3, <2>4 DEF Node, Becomes
<1>5. CASE Store(c)
  <2>1. call[c].at = "store" /\ UNCHANGED <<inflightMap, world>> /\ call[c].tx \in Txids
    BY <1>5 DEF Store, At, TypeOK
  <2> QED
    BY <1>0, <1>5, <2>1, LoadedFacts DEF Store, Becomes, Same, world
<1>6. CASE ReadProof(c)
  <2>1. call[c].at = "proof" /\ UNCHANGED <<inflightMap, world>> /\ call[c].tx \in Txids
    BY <1>6 DEF ReadProof, At, TypeOK
  <2>2. proofs[Tx(c)].height \in Heights
    BY <2>1 DEF TypeOK, Tx
  <2>3. [call[c] EXCEPT !.at = "check", !.body = Proof(proofs[Tx(c)].height)] \in CallStates
    BY <1>0, <1>00, <2>2 DEF CallStates, Places
  <2>4. [call[c] EXCEPT !.at = "join"] \in CallStates
    BY <1>0 DEF CallStates, Places
  <2>5. "nothing" \in Outcomes
    BY DEF Outcomes
  <2>6. CASE proofs[Tx(c)].height # 0
    BY <1>0, <1>6, <2>1, <2>3, <2>6 DEF ReadProof, Becomes, Same, world, CallStates
  <2>7. CASE proofs[Tx(c)].height = 0 /\ "jb" \in providers
    BY <1>0, <1>6, <2>1, <2>4, <2>7 DEF ReadProof, Becomes, Same, world, CallStates
  <2>8. CASE proofs[Tx(c)].height = 0 /\ "jb" \notin providers
    BY <1>0, <1>6, <2>1, <2>5, <2>8, ProofLoadedFacts DEF ReadProof, Becomes, Same, world
  <2> QED
    BY <2>6, <2>7, <2>8
<1>7. CASE Check(c)
  <2>1. call[c].at = "check" /\ UNCHANGED <<inflightMap, world>> /\ call[c].tx \in Txids
    BY <1>7 DEF Check, At, TypeOK
  <2>2. \E out \in Outcomes : Becomes(c, ProofLoaded(call[c], out))
    BY <1>7 DEF Check, Keep, Outcomes
  <2> QED
    BY <1>0, <2>1, <2>2, ProofLoadedFacts DEF Becomes, Same, world
<1>8. CASE Return(c)
  <2>1. Idle \in CallStates
    BY <1>00 DEF Idle, CallStates, Places, Kinds, Resources, Errors, Outcomes
  <2> QED
    BY <1>0, <1>8, <2>1 DEF Return, At, Becomes, Idle, world
<1> QED
  BY <1>1, <1>2, <1>3, <1>4, <1>5, <1>6, <1>7, <1>8 DEF Quiet

\* A new flight.
Fresh(c) == [leader |-> c, done |-> FALSE, Result |-> Nothing]

\* A caller starts a flight, takes the Result of one, or waits.
LEMMA JoinFacts ==
  ASSUME TypeOK, NEW c \in Callers, Join(c)
  PROVE  /\ \A d \in Callers : d # c => call'[d] = call[d]
         /\ call[c].at = "join" /\ call'[c] \in CallStates /\ call[c].tx \in Txids
         /\ Same(call'[c], call[c]) /\ call'[c].res = call[c].res /\ call'[c].out = call[c].out
         /\ UNCHANGED <<providers, known, chain, tip, Chaintip, rawtxs, proofs, late, left>>
         /\ \/ /\ inflightMap[Url(c)] = NoFlight /\ call'[c].at = "request"
               /\ call'[c].body = call[c].body
               /\ inflightMap' = [inflightMap EXCEPT ![Url(c)] = Fresh(c)]
            \/ /\ inflightMap[Url(c)] # NoFlight /\ ~inflightMap[Url(c)].done
               /\ call'[c].at = "wait" /\ call'[c].body = call[c].body
               /\ UNCHANGED inflightMap
            \/ /\ inflightMap[Url(c)] # NoFlight /\ inflightMap[Url(c)].done
               /\ call'[c].at = "parse" /\ call'[c].body = inflightMap[Url(c)].Result
               /\ UNCHANGED inflightMap
<1>1. call[c] \in CallStates /\ call \in [Callers -> CallStates]
  BY DEF TypeOK
<1>2. call[c].at = "join" /\ call[c].tx \in Txids /\ Url(c) \in Urls
  BY <1>1 DEF Join, At, TypeOK, Url, Urls, CallStates
<1>3. UNCHANGED <<providers, known, chain, tip, Chaintip, rawtxs, proofs, late, left>>
  BY DEF Join, world
<1>4. inflightMap[Url(c)] \in Flights \cup {NoFlight}
  BY <1>2 DEF TypeOK
<1>5. CASE inflightMap[Url(c)] = NoFlight
  <2>1. [call[c] EXCEPT !.at = "request"] \in CallStates
    BY <1>1 DEF CallStates, Places
  <2> QED
    BY <1>1, <1>2, <1>3, <1>5, <2>1 DEF Join, Becomes, Fresh, Same, CallStates
<1>6. CASE inflightMap[Url(c)] # NoFlight /\ inflightMap[Url(c)].done
  <2>1. inflightMap[Url(c)].Result \in Bodies
    BY <1>4, <1>6 DEF Flights
  <2>2. [call[c] EXCEPT !.at = "parse", !.body = inflightMap[Url(c)].Result] \in CallStates
    BY <1>1, <2>1 DEF CallStates, Places
  <2>3. /\ call' = [call EXCEPT ![c] = [call[c] EXCEPT !.at = "parse",
                                           !.body = inflightMap[Url(c)].Result]]
        /\ UNCHANGED inflightMap
    BY <1>6 DEF Join, Becomes
  <2> QED
    BY <1>1, <1>2, <1>3, <1>6, <2>2, <2>3 DEF Same, CallStates
<1>7. CASE inflightMap[Url(c)] # NoFlight /\ ~inflightMap[Url(c)].done
  <2>1. [call[c] EXCEPT !.at = "wait"] \in CallStates
    BY <1>1 DEF CallStates, Places
  <2>2. call' = [call EXCEPT ![c] = [call[c] EXCEPT !.at = "wait"]] /\ UNCHANGED inflightMap
    BY <1>7 DEF Join, Becomes
  <2> QED
    BY <1>1, <1>2, <1>3, <1>7, <2>1, <2>2 DEF Same, CallStates
<1> QED
  BY <1>5, <1>6, <1>7

\* The flight of c is done, and its waiters have the body.
Landed(c, body, err) ==
  /\ call'[c] = [call[c] EXCEPT !.at = "unmap", !.body = body, !.err = err]
  /\ \A d \in Callers \ {c} :
       call'[d] = IF d \in Waiters(c) THEN [call[d] EXCEPT !.at = "parse", !.body = body]
                                      ELSE call[d]
  /\ call' \in [Callers -> CallStates]
  /\ inflightMap' = [inflightMap EXCEPT ![Url(c)] =
                       [inflightMap[Url(c)] EXCEPT !.done = TRUE, !.Result = body]]
  /\ call[c].res = "prf" /\ body.is = "good" => body.height >= 1
  /\ \/ /\ left' = left
        /\ body.is # "bad"
        /\ call[c].res = "tx" /\ body.is = "none" => Tx(c) \notin known["jb"]
     \/ left > 0 /\ left' = left - 1

\* What a request returns, and to whom.
LEMMA RequestFacts ==
  ASSUME TypeOK, Led, NEW c \in Callers, Request(c)
  PROVE  /\ call[c].at = "request" /\ call[c].tx \in Txids /\ Url(c) \in Urls
         /\ inflightMap[Url(c)] \in Flights
         /\ UNCHANGED <<providers, known, chain, tip, Chaintip, rawtxs, proofs, late>>
         /\ \E body \in Bodies, err \in Errors : Landed(c, body, err)
<1>1. call[c] \in CallStates /\ call \in [Callers -> CallStates]
  BY DEF TypeOK
<1>2. call[c].at = "request" /\ call[c].tx \in Txids /\ Url(c) \in Urls
  BY <1>1 DEF Request, At, TypeOK, Url, Urls, CallStates
<1>3. inflightMap[Url(c)] \in Flights
  BY <1>2 DEF TypeOK, Led, Leads
<1>4. UNCHANGED <<providers, known, chain, tip, Chaintip, rawtxs, proofs, late>>
  BY DEF Request, world
<1>5. PICK a \in Answers(c) \cup Failures(c) :
        /\ Land(c, a[1], a[2])
        /\ \/ a \in Answers(c) /\ left' = left
           \/ left > 0 /\ left' = left - 1
  BY DEF Request, Fault
<1>6. chain[Tx(c)] \in Heights
  BY <1>2 DEF Tx, TypeOK
<1>7. /\ {Nothing, Bad, Rawtx, Proof(chain[Tx(c)])} \subseteq Bodies
      /\ Nothing.is = "none" /\ Bad.is = "bad" /\ Rawtx.is = "good"
      /\ \A h : Proof(h).is = "good" /\ Proof(h).height = h
  BY <1>6, BoundAssumption DEF Nothing, Bad, Rawtx, Proof, Bodies, Heights
<1>8. a[1] \in Bodies /\ a[2] \in Errors
  BY <1>7 DEF Answers, Failures, Errors
<1>9. /\ call[c].res = "prf" /\ a[1].is = "good" => a[1].height >= 1
      /\ a \in Answers(c) => /\ a[1].is # "bad"
                             /\ call[c].res = "tx" /\ a[1].is = "none" => Tx(c) \notin known["jb"]
  <2>1. chain[Tx(c)] # 0 => chain[Tx(c)] >= 1
    BY <1>6, BoundAssumption DEF Heights
  <2>2. CASE call[c].res = "tx"
    BY <1>7, <2>2 DEF Answers
  <2>3. CASE call[c].res # "tx"
    BY <1>7, <2>1, <2>3 DEF Answers, Failures
  <2> QED
    BY <2>2, <2>3
<1>10. \A d \in Callers : d # c => call'[d] =
         IF d \in Waiters(c) THEN [call[d] EXCEPT !.at = "parse", !.body = a[1]] ELSE call[d]
  BY <1>5 DEF Land
<1>11. call'[c] = [call[c] EXCEPT !.at = "unmap", !.body = a[1], !.err = a[2]]
  BY <1>5 DEF Land
<1>12. call' \in [Callers -> CallStates]
  <2>1. \A d \in Callers : call'[d] \in CallStates
    <3>1. \A r \in CallStates : [r EXCEPT !.at = "parse", !.body = a[1]] \in CallStates
      BY <1>8 DEF CallStates, Places
    <3>2. call'[c] \in CallStates
      BY <1>1, <1>8, <1>11 DEF CallStates, Places
    <3> QED
      BY <1>1, <1>10, <3>1, <3>2
  <2> QED
    BY <1>5, <2>1 DEF Land
<1>13. inflightMap' = [inflightMap EXCEPT ![Url(c)] =
                         [inflightMap[Url(c)] EXCEPT !.done = TRUE, !.Result = a[1]]]
  BY <1>5 DEF Land
<1>14. Landed(c, a[1], a[2])
  BY <1>5, <1>9, <1>10, <1>11, <1>12, <1>13 DEF Landed
<1> QED
  BY <1>2, <1>3, <1>4, <1>8, <1>14

\* The leader deletes its flight.
LEMMA UnmapFacts ==
  ASSUME TypeOK, NEW c \in Callers, Unmap(c)
  PROVE  /\ \A d \in Callers : d # c => call'[d] = call[d]
         /\ call[c].at = "unmap" /\ call[c].tx \in Txids /\ Url(c) \in Urls
         /\ call'[c] = [call[c] EXCEPT !.at = "parse"] /\ call'[c] \in CallStates
         /\ inflightMap' = [inflightMap EXCEPT ![Url(c)] = NoFlight]
         /\ UNCHANGED <<providers, known, chain, tip, Chaintip, rawtxs, proofs, late, left>>
<1>1. call[c] \in CallStates /\ call \in [Callers -> CallStates]
  BY DEF TypeOK
<1>2. call[c].at = "unmap" /\ call[c].tx \in Txids /\ Url(c) \in Urls
  BY <1>1 DEF Unmap, At, TypeOK, Url, Urls, CallStates
<1>3. [call[c] EXCEPT !.at = "parse"] \in CallStates
  BY <1>1 DEF CallStates, Places
<1> QED
  BY <1>1, <1>2, <1>3 DEF Unmap, Becomes, world

\* A call starts.
LEMMA CallFacts ==
  ASSUME TypeOK, NEW c \in Callers, NEW t \in Txids, NEW kind \in Kinds, Call(c, t, kind)
  PROVE  /\ \A d \in Callers : d # c => call'[d] = call[d]
         /\ call[c].at = "idle" /\ call'[c] \in CallStates
         /\ call'[c].at = (IF kind = "proof" THEN "proof" ELSE "cache")
         /\ call'[c].res = (IF kind = "proof" THEN "prf" ELSE "tx")
         /\ call'[c].tx = t /\ call'[c].body = Nothing /\ call'[c].out = "none"
         /\ call'[c].knew => Knew(t)
         /\ UNCHANGED <<providers, known, chain, tip, Chaintip, rawtxs, proofs, inflightMap, late, left>>
<1>1. call \in [Callers -> CallStates] /\ Nothing \in Bodies
  BY BoundAssumption DEF TypeOK, Nothing, Bodies, Heights
<1>2. Knew(t) \in BOOLEAN
  BY DEF Knew
<1> DEFINE r == [Idle EXCEPT !.at = IF kind = "proof" THEN "proof" ELSE "cache",
                             !.tx = t, !.kind = kind,
                             !.res = IF kind = "proof" THEN "prf" ELSE "tx",
                             !.knew = Knew(t)]
<1>3. r \in CallStates
  BY <1>1, <1>2 DEF Idle, CallStates, Places, Kinds, Resources, Errors, Outcomes
<1>4. call' = [call EXCEPT ![c] = r] /\ call[c].at = "idle"
  BY DEF Call, Becomes, At
<1>5. /\ r.at = (IF kind = "proof" THEN "proof" ELSE "cache")
      /\ r.res = (IF kind = "proof" THEN "prf" ELSE "tx")
      /\ r.tx = t /\ r.body = Nothing /\ r.out = "none" /\ r.knew = Knew(t)
  BY DEF Idle
<1>6. UNCHANGED <<providers, known, chain, tip, Chaintip, rawtxs, proofs, inflightMap, late, left>>
  BY DEF Call, world
<1> HIDE DEF r
<1> QED
  BY <1>1, <1>3, <1>4, <1>5, <1>6

(***************************************************************************)
(* Types.                                                                  *)
(***************************************************************************)

\* Every variable has its type at the start.
LEMMA TypeInit == ASSUME Init PROVE TypeOK
<1>1. Nothing \in Bodies
  BY BoundAssumption DEF Nothing, Bodies, Heights
<1>2. Idle \in CallStates /\ Idle.at = "idle"
  BY <1>1 DEF Idle, CallStates, Places, Kinds, Resources, Errors, Outcomes
<1>3. chain \in [Txids -> Heights] /\ \A t \in Txids : chain[t] <= tip
  BY DepthAssumption, BoundAssumption DEF Init, Heights
<1>4. tip \in Depth..MaxTip /\ left \in 0..MaxFaults
  BY DepthAssumption, BoundAssumption DEF Init
<1>5. proofs \in [Txids -> [height : Heights, kept : BOOLEAN]]
  BY BoundAssumption DEF Init, NoProof, Heights
<1>6. call \in [Callers -> CallStates] /\ \A c \in Callers : call[c].at = "idle"
  BY <1>2 DEF Init
<1> QED
  BY <1>3, <1>4, <1>5, <1>6 DEF Init, TypeOK

\* What the world leaves alone.
LEMMA WorldFacts ==
  ASSUME TypeOK, World
  PROVE  /\ UNCHANGED <<providers, Chaintip, inflightMap, call, late, left>>
         /\ \A p \in {"jb", "node"} : known[p] \subseteq known'[p]
         /\ TypeOK'
<1>1. CASE \E p \in {"jb", "node"}, t \in Txids : Learn(p, t)
  BY <1>1 DEF Learn, TypeOK
<1>2. CASE Extend
  <2>1. tip \in Nat /\ tip' = tip + 1 /\ tip < MaxTip /\ Depth \in Nat /\ MaxTip \in Nat
    BY <1>2, DepthAssumption, BoundAssumption DEF Extend, TypeOK
  <2>2. PICK f \in (tip - Depth - 1)..tip :
          chain' \in {c \in [Txids -> Heights] : \A t \in Txids :
                        IF chain[t] \in 1..f THEN c[t] = chain[t]
                                             ELSE c[t] \in {0} \cup (f + 1)..(tip + 1)}
    BY <1>2 DEF Extend
  <2>3. chain' \in [Txids -> Heights]
    BY <2>2
  <2>4. \A t \in Txids : chain'[t] <= tip + 1
    <3>1. SUFFICES ASSUME NEW t \in Txids PROVE chain'[t] <= tip + 1
      OBVIOUS
    <3>2. IF chain[t] \in 1..f THEN chain'[t] = chain[t]
                               ELSE chain'[t] \in {0} \cup (f + 1)..(tip + 1)
      BY <2>2
    <3>3. chain[t] \in Nat /\ chain[t] <= tip
      BY BoundAssumption DEF TypeOK, Heights
    <3> QED
      BY <2>1, <3>2, <3>3
  <2>5. tip' \in Depth..MaxTip
    BY <2>1 DEF TypeOK
  <2> QED
    BY <1>2, <2>1, <2>3, <2>4, <2>5 DEF Extend, TypeOK
<1>3. CASE \E t \in Txids : Put(t)
  BY <1>3 DEF Put, TypeOK, world
<1>4. CASE \E t \in Txids : Expire(t)
  <2>1. NoProof \in [height : Heights, kept : BOOLEAN]
    BY BoundAssumption DEF NoProof, Heights
  <2> QED
    BY <1>4, <2>1 DEF Expire, TypeOK, world
<1> QED
  BY <1>1, <1>2, <1>3, <1>4 DEF World

\* What a quiet step writes besides its caller.
LEMMA QuietTypes ==
  ASSUME TypeOK, Carrying, NEW c \in Callers, Quiet(c)
  PROVE  /\ Chaintip' \in {0} \cup Depth..MaxTip
         /\ rawtxs' \in [Txids -> {"none", "bad", "good"}]
         /\ proofs' \in [Txids -> [height : Heights, kept : BOOLEAN]]
         /\ late' \subseteq Txids
         /\ left' \in 0..MaxFaults /\ left' <= left
<1>0. MaxFaults \in Nat /\ left \in 0..MaxFaults
  BY BoundAssumption DEF TypeOK
<1>00. call[c] \in CallStates
  BY DEF TypeOK
<1>000. left \in Int /\ left <= left
  BY <1>0
<1>1. CASE ReadCache(c)
  <2>1. UNCHANGED <<Chaintip, proofs, late, left>>
    BY <1>1 DEF ReadCache
  <2>2. rawtxs' \in [Txids -> {"none", "bad", "good"}]
    BY <1>1 DEF ReadCache, TypeOK
  <2> QED
    BY <1>0, <1>000, <2>1, <2>2 DEF TypeOK
<1>2. CASE ParseTx(c) \/ ParseProof(c) \/ ReadProof(c) \/ Return(c)
  <2>1. UNCHANGED <<Chaintip, rawtxs, proofs, late, left>>
    BY <1>2 DEF ParseTx, ParseProof, ReadProof, Return
  <2> QED
    BY <1>0, <1>000, <2>1 DEF TypeOK
<1>3. CASE Node(c)
  BY <1>0, <1>3 DEF Node, Fault, TypeOK
<1>4. CASE Store(c)
  <2>1. call[c].body.is \in {"none", "bad", "good"}
    BY <1>00 DEF CallStates, Bodies
  <2>2. rawtxs' \in [Txids -> {"none", "bad", "good"}]
    BY <1>4, <2>1 DEF Store, TypeOK
  <2>3. UNCHANGED <<Chaintip, proofs, late, left>>
    BY <1>4 DEF Store
  <2> QED
    BY <1>0, <1>000, <2>2, <2>3 DEF TypeOK
<1>5. CASE Check(c)
  <2>1. Tips \subseteq {0} \cup Depth..MaxTip
    BY DEF Tips, TypeOK
  <2>2. call[c].body.height \in Heights /\ call[c].tx \in Txids
    BY <1>00, <1>5 DEF CallStates, Bodies, Check, At, TypeOK
  <2>3. CASE Chaintip' \in Tips /\ Keep(c, call[c].body.height + Depth < Chaintip') /\ UNCHANGED left
    BY <1>0, <1>5, <2>1, <2>2, <2>3 DEF Check, Keep, TypeOK, Tx
  <2>4. CASE Fault /\ UNCHANGED <<Chaintip, proofs, late>>
    BY <1>0, <1>5, <2>4 DEF Check, Fault, TypeOK
  <2> QED
    BY <1>5, <2>3, <2>4 DEF Check
<1> QED
  BY <1>1, <1>2, <1>3, <1>4, <1>5 DEF Quiet

\* Every step keeps the types.
LEMMA TypeStep == ASSUME TypeOK, Led, Carrying, [Next]_vars PROVE TypeOK'
<1>1. CASE World
  BY <1>1, WorldFacts
<1>2. ASSUME NEW c \in Callers, Quiet(c) PROVE TypeOK'
  <2>1. \A d \in Callers : call'[d].at # "idle" => call'[d].tx \in Txids
    BY <1>2, QuietFacts DEF TypeOK
  <2> QED
    BY <1>2, <2>1, QuietFacts, QuietTypes DEF TypeOK
<1>3. ASSUME NEW c \in Callers, NEW t \in Txids, NEW kind \in Kinds, Call(c, t, kind) PROVE TypeOK'
  <2>1. call' \in [Callers -> CallStates]
    BY <1>3, CallFacts DEF TypeOK, Call, Becomes
  <2> QED
    BY <1>3, <2>1, CallFacts DEF TypeOK
<1>4. ASSUME NEW c \in Callers, Join(c) PROVE TypeOK'
  <2>1. call' \in [Callers -> CallStates]
    <3>1. \E r : call' = [call EXCEPT ![c] = r]
      BY <1>4 DEF Join, Becomes
    <3> QED
      BY <1>4, <3>1, JoinFacts DEF TypeOK
  <2>2. Fresh(c) \in Flights
    BY BoundAssumption DEF Fresh, Flights, Nothing, Bodies, Heights
  <2>3. inflightMap' \in [Urls -> Flights \cup {NoFlight}]
    BY <1>4, <2>2, JoinFacts DEF TypeOK
  <2>4. \A d \in Callers : call'[d].at # "idle" => call'[d].tx \in Txids
    BY <1>4, JoinFacts DEF TypeOK, Same
  <2> QED
    BY <1>4, <2>1, <2>3, <2>4, JoinFacts DEF TypeOK
<1>5. ASSUME NEW c \in Callers, Request(c) PROVE TypeOK'
  <2>1. PICK body \in Bodies, err \in Errors : Landed(c, body, err)
    BY <1>5, RequestFacts
  <2>2. call \in [Callers -> CallStates]
    BY DEF TypeOK
  <2>3. \A d \in Callers : call'[d].tx = call[d].tx
    BY <2>1, <2>2 DEF CallStates, Landed
  <2>4. \A d \in Callers : call'[d].at # "idle" => call'[d].tx \in Txids
    <3>1. SUFFICES ASSUME NEW d \in Callers, call'[d].at # "idle" PROVE call[d].at # "idle"
      BY <2>3 DEF TypeOK
    <3>2. CASE d = c
      BY <1>5, <3>2, RequestFacts
    <3>3. CASE d # c /\ d \in Waiters(c)
      BY <3>3 DEF Waiters, At
    <3>4. CASE d # c /\ d \notin Waiters(c)
      BY <2>1, <3>1, <3>4 DEF Landed
    <3> QED
      BY <3>2, <3>3, <3>4
  <2>5. [inflightMap[Url(c)] EXCEPT !.done = TRUE, !.Result = body] \in Flights
    BY <1>5, RequestFacts DEF Flights
  <2>6. inflightMap' \in [Urls -> Flights \cup {NoFlight}]
    BY <1>5, <2>1, <2>5, RequestFacts DEF TypeOK, Landed
  <2>7. left' \in 0..MaxFaults
    <3>1. left \in 0..MaxFaults /\ MaxFaults \in Nat
      BY BoundAssumption DEF TypeOK
    <3>2. (left' = left) \/ (left > 0 /\ left' = left - 1)
      BY <2>1 DEF Landed
    <3> QED
      BY <3>1, <3>2
  <2>8. call' \in [Callers -> CallStates]
    BY <2>1 DEF Landed
  <2>9. UNCHANGED <<providers, known, chain, tip, Chaintip, rawtxs, proofs, late>>
    BY <1>5, RequestFacts
  <2> QED
    BY <2>4, <2>6, <2>7, <2>8, <2>9 DEF TypeOK
<1>6. ASSUME NEW c \in Callers, Unmap(c) PROVE TypeOK'
  <2>1. call' \in [Callers -> CallStates]
    BY <1>6, UnmapFacts DEF TypeOK, Unmap, Becomes
  <2>2. inflightMap' \in [Urls -> Flights \cup {NoFlight}]
    BY <1>6, UnmapFacts DEF TypeOK
  <2>3. \A d \in Callers : call'[d].at # "idle" => call'[d].tx \in Txids
    <3>1. call'[c].tx = call[c].tx
      <4>1. call[c] \in CallStates
        BY DEF TypeOK
      <4> QED
        BY <1>6, <4>1, UnmapFacts DEF CallStates
    <3> QED
      BY <1>6, <3>1, UnmapFacts DEF TypeOK
  <2> QED
    BY <1>6, <2>1, <2>2, <2>3, UnmapFacts DEF TypeOK
<1>7. CASE UNCHANGED vars
  BY <1>7 DEF vars, TypeOK
<1> QED
  BY <1>1, <1>2, <1>3, <1>4, <1>5, <1>6, <1>7 DEF Next, Run, Quiet

(***************************************************************************)
(* Flights.                                                                *)
(***************************************************************************)

FlightInv == Led /\ Leaders /\ Waiting

\* A call that has begun has a URL.
LEMMA UrlFacts ==
  ASSUME TypeOK, NEW c \in Callers, call[c].at # "idle"
  PROVE  Url(c) \in Urls /\ call[c].tx \in Txids /\ call[c].res \in Resources
<1>1. call[c] \in CallStates /\ call[c].tx \in Txids
  BY DEF TypeOK
<1> QED
  BY <1>1 DEF Url, Urls, CallStates

\* A caller that is on no flight, and starts none, disturbs none; if it waits
\* then for a flight that is not done.
LEMMA CalmStep ==
  ASSUME FlightInv, TypeOK, NEW c \in Callers,
         \A d \in Callers : d # c => call'[d] = call[d],
         UNCHANGED inflightMap,
         call[c].at \notin {"request", "unmap"},
         call'[c].at \notin {"request", "unmap"},
         call'[c].at = "wait" => /\ inflightMap[Url(c)'] # NoFlight
                                 /\ ~inflightMap[Url(c)'].done
  PROVE  FlightInv'
<1>1. Led'
  BY DEF FlightInv, Led, Leads, Url
<1>2. Leaders'
  <2>1. SUFFICES ASSUME NEW u \in Urls, inflightMap[u] # NoFlight
                 PROVE  Leads(inflightMap[u].leader)' /\ Url(inflightMap[u].leader)' = u
    BY DEF Leaders
  <2>2. inflightMap[u].leader \in Callers
    BY <2>1 DEF TypeOK, Flights
  <2>3. Leads(inflightMap[u].leader) /\ Url(inflightMap[u].leader) = u
    BY <2>1 DEF FlightInv, Leaders
  <2> QED
    BY <2>2, <2>3 DEF Leads, Url
<1>3. Waiting'
  BY DEF FlightInv, Waiting, Url
<1> QED
  BY <1>1, <1>2, <1>3 DEF FlightInv

\* The first for a URL starts a flight.
LEMMA JoinStep == ASSUME FlightInv, TypeOK, NEW c \in Callers, Join(c) PROVE FlightInv'
<1>1. call[c].at = "join" /\ Url(c)' = Url(c) /\ Url(c) \in Urls
  BY JoinFacts, UrlFacts DEF Url, Same
<1>2. \A d \in Callers : d # c => call'[d] = call[d]
  BY JoinFacts
<1>3. CASE inflightMap[Url(c)] # NoFlight
  <2>1. /\ UNCHANGED inflightMap /\ call'[c].at \notin {"request", "unmap"}
        /\ call'[c].at = "wait" => ~inflightMap[Url(c)].done
    BY <1>3, JoinFacts
  <2> QED
    BY <1>1, <1>2, <1>3, <2>1, CalmStep
<1>4. CASE inflightMap[Url(c)] = NoFlight
  <2>1. call'[c].at = "request" /\ inflightMap' = [inflightMap EXCEPT ![Url(c)] = Fresh(c)]
    BY <1>4, JoinFacts
  <2>2. inflightMap'[Url(c)] = Fresh(c) /\ \A u \in Urls : u # Url(c) => inflightMap'[u] = inflightMap[u]
    BY <1>1, <2>1 DEF TypeOK
  <2>3. Fresh(c) # NoFlight /\ Fresh(c).leader = c /\ Fresh(c).done = FALSE
    <3>1. Fresh(c) \in Flights
      BY BoundAssumption DEF Fresh, Flights, Nothing, Bodies, Heights
    <3> QED
      BY <3>1, NoFlightAssumption DEF Fresh
  <2>4. ASSUME NEW d \in Callers, d # c, call[d].at \in {"request", "unmap", "wait"}
        PROVE  Url(d) # Url(c) /\ Url(d) \in Urls
    BY <1>4, <2>4, UrlFacts DEF FlightInv, Led, Leads, Waiting
  <2>5. Led'
    <3>1. SUFFICES ASSUME NEW d \in Callers, Leads(d)'
                   PROVE  /\ inflightMap'[Url(d)'] # NoFlight
                          /\ inflightMap'[Url(d)'].leader = d
                          /\ inflightMap'[Url(d)'].done <=> call'[d].at = "unmap"
      BY DEF Led
    <3>2. CASE d = c
      BY <1>1, <2>1, <2>2, <2>3, <3>2
    <3>3. CASE d # c
      <4>1. Leads(d) /\ Url(d)' = Url(d) /\ call'[d].at = call[d].at
        BY <1>2, <3>1, <3>3 DEF Leads, Url
      <4>2. inflightMap'[Url(d)] = inflightMap[Url(d)]
        BY <2>2, <2>4, <3>3, <4>1 DEF Leads
      <4> QED
        BY <4>1, <4>2 DEF FlightInv, Led
    <3> QED
      BY <3>2, <3>3
  <2>6. Leaders'
    <3>1. SUFFICES ASSUME NEW u \in Urls, inflightMap'[u] # NoFlight
                   PROVE  Leads(inflightMap[u].leader)' /\ Url(inflightMap[u].leader)' = u
      BY DEF Leaders
    <3>2. CASE u = Url(c)
      BY <1>1, <2>1, <2>2, <2>3, <3>2 DEF Leads
    <3>3. CASE u # Url(c)
      <4>1. inflightMap'[u] = inflightMap[u] /\ inflightMap[u].leader \in Callers
        BY <2>2, <3>1, <3>3 DEF TypeOK, Flights
      <4>2. Leads(inflightMap[u].leader) /\ Url(inflightMap[u].leader) = u
        BY <3>1, <4>1 DEF FlightInv, Leaders
      <4> QED
        BY <1>1, <1>2, <4>1, <4>2 DEF Leads, Url
    <3> QED
      BY <3>2, <3>3
  <2>7. Waiting'
    <3>1. SUFFICES ASSUME NEW d \in Callers, call'[d].at = "wait"
                   PROVE  inflightMap'[Url(d)'] # NoFlight /\ ~inflightMap'[Url(d)'].done
      BY DEF Waiting
    <3>2. d # c /\ call'[d] = call[d]
      BY <1>2, <2>1, <3>1
    <3>3. Url(d)' = Url(d) /\ inflightMap'[Url(d)] = inflightMap[Url(d)]
      BY <2>2, <2>4, <3>1, <3>2 DEF Url
    <3> QED
      BY <3>1, <3>2, <3>3 DEF FlightInv, Waiting
  <2> QED
    BY <2>5, <2>6, <2>7 DEF FlightInv
<1> QED
  BY <1>3, <1>4

\* A request lands its flight and releases its waiters.
LEMMA RequestStep == ASSUME FlightInv, TypeOK, NEW c \in Callers, Request(c) PROVE FlightInv'
<1>1. /\ call[c].at = "request" /\ Url(c) \in Urls /\ inflightMap[Url(c)] \in Flights
      /\ \E body \in Bodies, err \in Errors : Landed(c, body, err)
  BY RequestFacts DEF FlightInv
<1>2. PICK body \in Bodies, err \in Errors : Landed(c, body, err)
  BY <1>1
<1> DEFINE flight == [inflightMap[Url(c)] EXCEPT !.done = TRUE, !.Result = body]
<1>3. flight \in Flights /\ flight # NoFlight /\ flight.done /\ flight.leader = c
  <2>1. inflightMap[Url(c)].leader = c
    BY <1>1 DEF FlightInv, Led, Leads
  <2>2. flight \in Flights /\ flight.done /\ flight.leader = c
    BY <1>1, <2>1 DEF Flights
  <2> QED
    BY <2>2, NoFlightAssumption
<1>4. inflightMap'[Url(c)] = flight /\ \A u \in Urls : u # Url(c) => inflightMap'[u] = inflightMap[u]
  BY <1>1, <1>2 DEF Landed, TypeOK
<1> HIDE DEF flight
<1>5. call'[c].at = "unmap" /\ Url(c)' = Url(c)
  <2>1. call[c] \in CallStates
    BY DEF TypeOK
  <2> QED
    BY <1>2, <2>1 DEF Landed, Url, CallStates
<1>6. ASSUME NEW d \in Callers, d # c, d \in Waiters(c)
      PROVE  call'[d].at = "parse"
  <2>1. call[d] \in CallStates
    BY DEF TypeOK
  <2> QED
    BY <1>2, <1>6, <2>1 DEF Landed, CallStates
<1>7. ASSUME NEW d \in Callers, d # c, d \notin Waiters(c)
      PROVE  call'[d] = call[d] /\ Url(d)' = Url(d)
  BY <1>2, <1>7 DEF Landed, Url
<1>8. Led'
  <2>1. SUFFICES ASSUME NEW d \in Callers, Leads(d)'
                 PROVE  /\ inflightMap'[Url(d)'] # NoFlight
                        /\ inflightMap'[Url(d)'].leader = d
                        /\ inflightMap'[Url(d)'].done <=> call'[d].at = "unmap"
    BY DEF Led
  <2>2. CASE d = c
    BY <1>3, <1>4, <1>5, <2>2
  <2>3. CASE d # c
    <3>1. call'[d] = call[d] /\ Url(d)' = Url(d) /\ Leads(d)
      BY <1>6, <1>7, <2>1, <2>3 DEF Leads
    <3>2. Url(d) # Url(c) /\ Url(d) \in Urls
      BY <1>1, <2>3, <3>1, UrlFacts DEF FlightInv, Led, Leads
    <3> QED
      BY <1>4, <3>1, <3>2 DEF FlightInv, Led
  <2> QED
    BY <2>2, <2>3
<1>9. Leaders'
  <2>1. SUFFICES ASSUME NEW u \in Urls, inflightMap'[u] # NoFlight
                 PROVE  Leads(inflightMap[u].leader)' /\ Url(inflightMap[u].leader)' = u
    BY DEF Leaders
  <2>2. CASE u = Url(c)
    BY <1>3, <1>4, <1>5, <2>2 DEF Leads
  <2>3. CASE u # Url(c)
    <3>1. inflightMap'[u] = inflightMap[u] /\ inflightMap[u].leader \in Callers
      BY <1>4, <2>1, <2>3 DEF TypeOK, Flights
    <3>2. Leads(inflightMap[u].leader) /\ Url(inflightMap[u].leader) = u
      BY <2>1, <3>1 DEF FlightInv, Leaders
    <3>3. inflightMap[u].leader # c /\ inflightMap[u].leader \notin Waiters(c)
      BY <2>3, <3>2 DEF Leads, Waiters, At
    <3> QED
      BY <1>7, <3>1, <3>2, <3>3 DEF Leads
  <2> QED
    BY <2>2, <2>3
<1>10. Waiting'
  <2>1. SUFFICES ASSUME NEW d \in Callers, call'[d].at = "wait"
                 PROVE  inflightMap'[Url(d)'] # NoFlight /\ ~inflightMap'[Url(d)'].done
    BY DEF Waiting
  <2>2. d # c /\ d \notin Waiters(c)
    BY <1>5, <1>6, <2>1
  <2>3. call'[d] = call[d] /\ Url(d)' = Url(d) /\ call[d].at = "wait"
    BY <1>7, <2>1, <2>2
  <2>4. Url(d) # Url(c) /\ Url(d) \in Urls
    BY <2>2, <2>3, UrlFacts DEF Waiters, At
  <2> QED
    BY <1>4, <2>3, <2>4 DEF FlightInv, Waiting
<1> QED
  BY <1>8, <1>9, <1>10 DEF FlightInv

\* A leader deletes the flight it landed, which nobody waits for.
LEMMA UnmapStep == ASSUME FlightInv, TypeOK, NEW c \in Callers, Unmap(c) PROVE FlightInv'
<1>1. /\ call[c].at = "unmap" /\ Url(c) \in Urls
      /\ \A d \in Callers : d # c => call'[d] = call[d]
      /\ inflightMap' = [inflightMap EXCEPT ![Url(c)] = NoFlight]
      /\ call'[c] = [call[c] EXCEPT !.at = "parse"]
  BY UnmapFacts
<1>2. call'[c].at = "parse"
  <2>1. call[c] \in CallStates
    BY DEF TypeOK
  <2> QED
    BY <1>1, <2>1 DEF CallStates
<1>3. inflightMap'[Url(c)] = NoFlight /\ \A u \in Urls : u # Url(c) => inflightMap'[u] = inflightMap[u]
  BY <1>1 DEF TypeOK
<1>4. inflightMap[Url(c)].leader = c /\ inflightMap[Url(c)].done
  BY <1>1 DEF FlightInv, Led, Leads
<1>5. Led'
  <2>1. SUFFICES ASSUME NEW d \in Callers, Leads(d)'
                 PROVE  /\ inflightMap'[Url(d)'] # NoFlight
                        /\ inflightMap'[Url(d)'].leader = d
                        /\ inflightMap'[Url(d)'].done <=> call'[d].at = "unmap"
    BY DEF Led
  <2>2. d # c /\ call'[d] = call[d] /\ Leads(d) /\ Url(d)' = Url(d)
    BY <1>1, <1>2, <2>1 DEF Leads, Url
  <2>3. Url(d) # Url(c) /\ Url(d) \in Urls
    BY <1>4, <2>2, UrlFacts DEF FlightInv, Led, Leads
  <2> QED
    BY <1>3, <2>2, <2>3 DEF FlightInv, Led
<1>6. Leaders'
  <2>1. SUFFICES ASSUME NEW u \in Urls, inflightMap'[u] # NoFlight
                 PROVE  Leads(inflightMap[u].leader)' /\ Url(inflightMap[u].leader)' = u
    BY DEF Leaders
  <2>2. u # Url(c)
    BY <1>3, <2>1
  <2>3. inflightMap'[u] = inflightMap[u] /\ inflightMap[u].leader \in Callers
    BY <1>3, <2>1, <2>2 DEF TypeOK, Flights
  <2>4. Leads(inflightMap[u].leader) /\ Url(inflightMap[u].leader) = u
    BY <2>1, <2>3 DEF FlightInv, Leaders
  <2> QED
    BY <1>1, <2>2, <2>3, <2>4 DEF Leads, Url
<1>7. Waiting'
  <2>1. SUFFICES ASSUME NEW d \in Callers, call'[d].at = "wait"
                 PROVE  inflightMap'[Url(d)'] # NoFlight /\ ~inflightMap'[Url(d)'].done
    BY DEF Waiting
  <2>2. d # c /\ call'[d] = call[d] /\ Url(d)' = Url(d)
    BY <1>1, <1>2, <2>1 DEF Url
  <2>3. inflightMap[Url(d)] # NoFlight /\ ~inflightMap[Url(d)].done
    BY <2>1, <2>2 DEF FlightInv, Waiting
  <2>4. Url(d) # Url(c) /\ Url(d) \in Urls
    BY <1>4, <2>1, <2>2, <2>3, UrlFacts
  <2> QED
    BY <1>3, <2>2, <2>3, <2>4
<1> QED
  BY <1>5, <1>6, <1>7 DEF FlightInv

\* Every step keeps the flights.
LEMMA FlightStep == ASSUME FlightInv, TypeOK, Carrying, [Next]_vars PROVE FlightInv'
<1>1. CASE UNCHANGED <<call, inflightMap>>
  BY <1>1 DEF FlightInv, Led, Leaders, Waiting, Leads, Url
<1>2. CASE World \/ UNCHANGED vars
  BY <1>1, <1>2, WorldFacts DEF vars
<1>3. ASSUME NEW c \in Callers, Quiet(c) PROVE FlightInv'
  <2>1. call[c].at \notin {"request", "unmap"} /\ call'[c].at \notin {"request", "unmap", "wait"}
    BY <1>3, QuietFacts
  <2> QED
    BY <1>3, <2>1, QuietFacts, CalmStep
<1>4. ASSUME NEW c \in Callers, NEW t \in Txids, NEW kind \in Kinds, Call(c, t, kind) PROVE FlightInv'
  <2>1. call[c].at = "idle" /\ call'[c].at \in {"proof", "cache"} /\ UNCHANGED inflightMap
    BY <1>4, CallFacts
  <2> QED
    BY <1>4, <2>1, CallFacts, CalmStep
<1> QED
  BY <1>2, <1>3, <1>4, JoinStep, RequestStep, UnmapStep DEF Next, Run, Quiet

(***************************************************************************)
(* What callers carry.                                                     *)
(***************************************************************************)

\* A quiet step leaves its caller where its resource allows.
LEMMA QuietCarries ==
  ASSUME TypeOK, Carrying, NEW c \in Callers, Quiet(c)
  PROVE  Carries(call'[c])
<1>0. call[c] \in CallStates /\ call \in [Callers -> CallStates] /\ Carries(call[c])
  BY DEF TypeOK, Carrying
<1>00. Nothing.is = "none" /\ Rawtx.is = "good" /\ \A h : Proof(h).is = "good" /\ Proof(h).height = h
  BY DEF Nothing, Rawtx, Proof
<1>1. ASSUME NEW r, r.body = Nothing, r.at \notin {"cache", "store", "check"},
             r.at = "proof" => r.res = "prf", r.at = "node" => r.res = "tx"
      PROVE  Carries(r)
  BY <1>00, <1>1 DEF Carries
<1>2. CASE ReadCache(c)
  <2>1. PICK err \in Errors :
          call' = [call EXCEPT ![c] = IF rawtxs[Tx(c)] = "good" THEN Loaded(call[c])
                       ELSE IF "jb" \in providers THEN [call[c] EXCEPT !.at = "join"]
                       ELSE Fallback(call[c], err)]
    BY <1>2 DEF ReadCache, Becomes, Errors
  <2>2. call[c].at = "cache" /\ call[c].res = "tx"
    BY <1>0, <1>2 DEF ReadCache, At, Carries
  <2>3. Carries([call[c] EXCEPT !.at = "join"])
    BY <1>0, <2>2 DEF Carries, CallStates
  <2>4. Carries(Loaded(call[c]))
    BY <1>0, <1>1, LoadedFacts
  <2>5. Carries(Fallback(call[c], err))
    BY <1>0, <1>1, <2>2, FallbackFacts
  <2> QED
    BY <1>0, <2>1, <2>3, <2>4, <2>5
<1>3. CASE ParseTx(c)
  <2>1. call[c].res = "tx"
    BY <1>3 DEF ParseTx
  <2>2. Carries([call[c] EXCEPT !.at = "store"])
    BY <1>0, <2>1 DEF Carries, CallStates
  <2>3. \A err \in Errors : Carries(Fallback(call[c], err))
    BY <1>0, <1>1, <2>1, FallbackFacts
  <2>4. call[c].err \in Errors /\ "other" \in Errors /\ call[c].body.is \in {"none", "bad", "good"}
    BY <1>0 DEF CallStates, Errors, Bodies
  <2> QED
    BY <1>0, <1>3, <2>2, <2>3, <2>4 DEF ParseTx, Becomes
<1>4. CASE ParseProof(c)
  <2>1. call[c].res = "prf"
    BY <1>4 DEF ParseProof
  <2>2. call[c].body.is = "good" => Carries([call[c] EXCEPT !.at = "check"])
    BY <1>0, <2>1 DEF Carries, CallStates
  <2>3. \A out \in Outcomes : Carries(ProofLoaded(call[c], out))
    BY <1>0, <1>1, ProofLoadedFacts
  <2>4. {"error", "nothing"} \subseteq Outcomes /\ call[c].body.is \in {"none", "bad", "good"}
    BY <1>0 DEF CallStates, Outcomes, Bodies
  <2> QED
    BY <1>0, <1>4, <2>2, <2>3, <2>4 DEF ParseProof, Becomes
<1>5. CASE Node(c)
  <2>1. call[c].res = "tx"
    BY <1>0, <1>5 DEF Node, At, Carries
  <2>2. Carries([call[c] EXCEPT !.at = "store", !.body = Rawtx])
    BY <1>0, <2>1 DEF Carries, CallStates
  <2>3. \A err \in Errors : Carries(NotLoaded(call[c], err))
    BY <1>0, <1>1, NotLoadedFacts
  <2>4. {"nil", "other"} \subseteq Errors
    BY DEF Errors
  <2> QED
    BY <1>0, <1>5, <2>2, <2>3, <2>4 DEF Node, Becomes
<1>6. CASE Store(c)
  BY <1>0, <1>1, <1>6, LoadedFacts DEF Store, Becomes
<1>7. CASE ReadProof(c)
  <2>1. call[c].at = "proof" /\ call[c].res = "prf"
    BY <1>0, <1>7 DEF ReadProof, At, Carries
  <2>2. proofs[Tx(c)].height \in Heights
    BY <2>1 DEF TypeOK, Tx
  <2>3. proofs[Tx(c)].height # 0 => proofs[Tx(c)].height >= 1
    BY <2>2, BoundAssumption DEF Heights
  <2>4. Carries([call[c] EXCEPT !.at = "join"])
    BY <1>0, <2>1 DEF Carries, CallStates
  <2>5. proofs[Tx(c)].height # 0 =>
          Carries([call[c] EXCEPT !.at = "check", !.body = Proof(proofs[Tx(c)].height)])
    BY <1>0, <1>00, <2>1, <2>3 DEF Carries, CallStates
  <2>6. Carries(ProofLoaded(call[c], "nothing"))
    BY <1>0, <1>1, ProofLoadedFacts DEF Outcomes
  <2> QED
    BY <1>0, <1>7, <2>4, <2>5, <2>6 DEF ReadProof, Becomes
<1>8. CASE Check(c)
  <2>1. \E out \in Outcomes : Becomes(c, ProofLoaded(call[c], out))
    BY <1>8 DEF Check, Keep, Outcomes
  <2>2. \A out \in Outcomes : Carries(ProofLoaded(call[c], out))
    BY <1>0, <1>1, ProofLoadedFacts
  <2> QED
    BY <1>0, <2>1, <2>2 DEF Becomes
<1>9. CASE Return(c)
  <2>1. Carries(Idle)
    BY <1>1 DEF Idle
  <2> QED
    BY <1>0, <1>9, <2>1 DEF Return, Becomes
<1> QED
  BY <1>2, <1>3, <1>4, <1>5, <1>6, <1>7, <1>8, <1>9 DEF Quiet

\* Every step keeps what callers and flights carry.
LEMMA CarryStep == ASSUME FlightInv, TypeOK, Carrying, Results, [Next]_vars PROVE Carrying' /\ Results'
<1>0. Nothing.is = "none"
  BY DEF Nothing
<1>1. CASE UNCHANGED <<call, inflightMap>>
  BY <1>1 DEF Carrying, Results
<1>2. CASE World \/ UNCHANGED vars
  BY <1>1, <1>2, WorldFacts DEF vars
<1>3. ASSUME NEW c \in Callers, Quiet(c) PROVE Carrying' /\ Results'
  BY <1>3, QuietFacts, QuietCarries DEF Carrying, Results
<1>4. ASSUME NEW c \in Callers, NEW t \in Txids, NEW kind \in Kinds, Call(c, t, kind)
      PROVE  Carrying' /\ Results'
  <2>1. Carries(call'[c])
    BY <1>0, <1>4, CallFacts DEF Carries
  <2> QED
    BY <1>4, <2>1, CallFacts DEF Carrying, Results
<1>5. ASSUME NEW c \in Callers, Join(c) PROVE Carrying' /\ Results'
  <2>1. /\ call[c].at = "join" /\ call'[c].res = call[c].res
        /\ call'[c].at \in {"request", "wait", "parse"}
        /\ \A d \in Callers : d # c => call'[d] = call[d]
    BY <1>5, JoinFacts
  <2>2. Url(c) \in Urls /\ Url(c)[1] = call[c].res
    BY <2>1, UrlFacts DEF Url
  <2>3. Carries(call'[c])
    <3>1. CASE call'[c].body = call[c].body
      BY <2>1, <3>1 DEF Carrying, Carries
    <3>2. CASE inflightMap[Url(c)] # NoFlight /\ call'[c].body = inflightMap[Url(c)].Result
      BY <2>1, <2>2, <3>2 DEF Results, Carries
    <3> QED
      BY <1>5, <3>1, <3>2, JoinFacts
  <2>4. Results'
    <3>1. CASE inflightMap' = [inflightMap EXCEPT ![Url(c)] = Fresh(c)]
      <4>1. Fresh(c).Result.is = "none"
        BY <1>0 DEF Fresh
      <4> QED
        BY <2>2, <3>1, <4>1 DEF Results, TypeOK
    <3>2. CASE UNCHANGED inflightMap
      BY <3>2 DEF Results
    <3> QED
      BY <1>5, <3>1, <3>2, JoinFacts
  <2> QED
    BY <2>1, <2>3, <2>4 DEF Carrying
<1>6. ASSUME NEW c \in Callers, Request(c) PROVE Carrying' /\ Results'
  <2>1. /\ Url(c) \in Urls /\ inflightMap[Url(c)] \in Flights
        /\ \E body \in Bodies, err \in Errors : Landed(c, body, err)
    BY <1>6, RequestFacts DEF FlightInv
  <2>2. PICK body \in Bodies, err \in Errors : Landed(c, body, err)
    BY <2>1
  <2>3. call[c].res = "prf" /\ body.is = "good" => body.height >= 1
    BY <2>2 DEF Landed
  <2>4. ASSUME NEW d \in Callers PROVE Carries(call'[d])
    <3>1. call[d] \in CallStates
      BY DEF TypeOK
    <3>2. CASE d = c
      <4>1. call'[d].at = "unmap" /\ call'[d].res = call[c].res /\ call'[d].body = body
        BY <2>2, <3>1, <3>2 DEF Landed, CallStates
      <4> QED
        BY <2>3, <4>1 DEF Carries
    <3>3. CASE d # c /\ d \in Waiters(c)
      <4>1. call'[d].at = "parse" /\ call'[d].res = call[d].res /\ call'[d].body = body
        BY <2>2, <3>1, <3>3 DEF Landed, CallStates
      <4>2. call[d].res = call[c].res
        BY <3>3 DEF Waiters, Url
      <4> QED
        BY <2>3, <4>1, <4>2 DEF Carries
    <3>4. CASE d # c /\ d \notin Waiters(c)
      BY <2>2, <3>4 DEF Landed, Carrying
    <3> QED
      BY <3>2, <3>3, <3>4
  <2>5. Results'
    <3>1. SUFFICES ASSUME NEW u \in Urls, inflightMap'[u] # NoFlight, u[1] = "prf",
                          inflightMap'[u].Result.is = "good"
                   PROVE  inflightMap'[u].Result.height >= 1
      BY DEF Results
    <3>2. CASE u = Url(c)
      <4>1. inflightMap'[u].Result = body
        BY <2>1, <2>2, <3>2 DEF Landed, TypeOK, Flights
      <4>2. call[c].res = "prf"
        BY <3>1, <3>2 DEF Url
      <4> QED
        BY <2>3, <3>1, <4>1, <4>2
    <3>3. CASE u # Url(c)
      <4>1. inflightMap'[u] = inflightMap[u]
        BY <2>1, <2>2, <3>3 DEF Landed, TypeOK
      <4> QED
        BY <3>1, <4>1 DEF Results
    <3> QED
      BY <3>2, <3>3
  <2> QED
    BY <2>4, <2>5 DEF Carrying
<1>7. ASSUME NEW c \in Callers, Unmap(c) PROVE Carrying' /\ Results'
  <2>1. /\ Url(c) \in Urls /\ inflightMap' = [inflightMap EXCEPT ![Url(c)] = NoFlight]
        /\ call'[c] = [call[c] EXCEPT !.at = "parse"]
        /\ \A d \in Callers : d # c => call'[d] = call[d]
    BY <1>7, UnmapFacts
  <2>2. Carries(call'[c])
    <3>1. call[c] \in CallStates
      BY DEF TypeOK
    <3> QED
      BY <2>1, <3>1 DEF Carrying, Carries, CallStates
  <2>3. Results'
    <3>1. \A u \in Urls : inflightMap'[u] \in {NoFlight, inflightMap[u]}
      BY <2>1 DEF TypeOK
    <3> QED
      BY <3>1 DEF Results
  <2> QED
    BY <2>1, <2>2, <2>3 DEF Carrying
<1> QED
  BY <1>2, <1>3, <1>4, <1>5, <1>6, <1>7 DEF Next, Run, Quiet

(***************************************************************************)
(* Proofs that are kept.                                                   *)
(***************************************************************************)

\* A kept proof is below Depth blocks, and there nothing undoes it.
LEMMA KeptStep == ASSUME FlightInv, TypeOK, Carrying, TipOrder, Kept, [Next]_vars PROVE TipOrder' /\ Kept'
<1>0. tip \in Int /\ Chaintip \in Int /\ Depth \in Nat /\ Chaintip <= tip
  BY DepthAssumption, BoundAssumption DEF TypeOK, TipOrder
<1>1. CASE UNCHANGED <<chain, tip, Chaintip, proofs, late>>
  BY <1>1 DEF TipOrder, Kept
<1>2. ASSUME NEW p \in {"jb", "node"}, NEW t \in Txids, Learn(p, t) \/ Put(t) PROVE TipOrder' /\ Kept'
  BY <1>1, <1>2 DEF Learn, Put, world
<1>3. CASE Extend
  <2>1. PICK f \in (tip - Depth - 1)..tip :
          chain' \in {c \in [Txids -> Heights] : \A t \in Txids :
                        IF chain[t] \in 1..f THEN c[t] = chain[t]
                                             ELSE c[t] \in {0} \cup (f + 1)..(tip + 1)}
    BY <1>3 DEF Extend
  <2>2. tip' = tip + 1 /\ UNCHANGED <<Chaintip, proofs, late>>
    BY <1>3 DEF Extend
  <2>3. ASSUME NEW t \in Txids \ late, proofs[t].kept
        PROVE  chain'[t] = proofs[t].height /\ chain'[t] \in 1..(tip' - Depth - 1)
    <3>1. chain[t] = proofs[t].height /\ chain[t] \in 1..(tip - Depth - 1)
      BY <2>3 DEF Kept
    <3>2. chain[t] \in 1..f
      BY <1>0, <3>1
    <3>3. chain'[t] = chain[t]
      BY <2>1, <3>2
    <3> QED
      BY <1>0, <2>2, <3>1, <3>3
  <2> QED
    BY <1>0, <2>2, <2>3 DEF TipOrder, Kept
<1>4. ASSUME NEW t \in Txids, Expire(t) PROVE TipOrder' /\ Kept'
  <2>1. /\ UNCHANGED <<chain, tip, Chaintip, late>>
        /\ proofs' = [proofs EXCEPT ![t] = NoProof]
    BY <1>4 DEF Expire, world
  <2>2. ~NoProof.kept
    BY DEF NoProof
  <2> QED
    BY <2>1, <2>2 DEF TipOrder, Kept, TypeOK
<1>5. ASSUME NEW c \in Callers, Check(c) PROVE TipOrder' /\ Kept'
  <2>1. UNCHANGED <<chain, tip>> /\ call[c].at = "check"
    BY <1>5 DEF Check, At, world
  <2>2. CASE Chaintip' \in Tips /\ Keep(c, call[c].body.height + Depth < Chaintip')
    <3>1. Chaintip' \in Int /\ Chaintip' <= tip
      BY <1>0, <2>2 DEF Tips
    <3>2. call[c].body.height \in Nat /\ call[c].body.height >= 1 /\ Tx(c) \in Txids
      <4>1. call[c] \in CallStates /\ call[c].tx \in Txids
        BY <2>1 DEF TypeOK
      <4>2. call[c].body.height \in Nat
        BY <4>1, BoundAssumption DEF CallStates, Bodies, Heights
      <4>3. call[c].body.height >= 1
        BY <2>1 DEF Carrying, Carries
      <4> QED
        BY <4>1, <4>2, <4>3 DEF Tx
    <3> DEFINE kept == call[c].body.height + Depth < Chaintip'
    <3>3. /\ proofs' = [proofs EXCEPT ![Tx(c)] = [height |-> call[c].body.height, kept |-> kept]]
          /\ late' = IF kept /\ chain[Tx(c)] # call[c].body.height THEN late \cup {Tx(c)} ELSE late
      BY <2>2 DEF Keep
    <3>0. kept \in BOOLEAN /\ (kept => call[c].body.height + Depth < Chaintip')
      OBVIOUS
    <3> HIDE DEF kept
    <3>4. ASSUME NEW t \in Txids \ late', proofs'[t].kept
          PROVE  chain[t] = proofs'[t].height /\ chain[t] \in 1..(tip - Depth - 1)
      <4>1. CASE t = Tx(c)
        <5>1. proofs'[t] = [height |-> call[c].body.height, kept |-> kept]
          BY <3>2, <3>3, <4>1 DEF TypeOK
        <5>2. kept
          <6>1. CASE ~kept
            <7>1. kept = FALSE
              BY <3>0, <6>1
            <7>2. proofs'[t].kept = FALSE
              BY <5>1, <7>1
            <7> QED
              BY <3>4, <7>2
          <6> QED
            BY <6>1
        <5>3. chain[t] = call[c].body.height
          <6>1. CASE chain[Tx(c)] # call[c].body.height
            <7>1. late' = late \cup {Tx(c)}
              BY <3>3, <5>2, <6>1
            <7> QED
              BY <3>4, <4>1, <7>1
          <6> QED
            BY <4>1, <6>1
        <5> QED
          BY <1>0, <3>1, <3>2, <3>0, <5>1, <5>2, <5>3
      <4>2. CASE t # Tx(c)
        <5>1. proofs'[t] = proofs[t] /\ t \notin late
          BY <3>3, <3>4, <4>2 DEF TypeOK
        <5> QED
          BY <3>4, <5>1 DEF Kept
      <4> QED
        BY <4>1, <4>2
    <3> QED
      BY <2>1, <3>1, <3>4 DEF TipOrder, Kept
  <2>3. CASE UNCHANGED <<Chaintip, proofs, late>>
    BY <1>1, <2>1, <2>3
  <2> QED
    BY <1>5, <2>2, <2>3 DEF Check
<1>6. ASSUME NEW c \in Callers, Quiet(c) PROVE TipOrder' /\ Kept'
  <2>1. CASE Check(c)
    BY <1>5, <2>1
  <2>2. CASE ~Check(c)
    <3>1. UNCHANGED <<chain, tip, Chaintip, proofs, late>>
      BY <1>6, <2>2 DEF Quiet, ReadCache, ParseTx, ParseProof, Node, Store, ReadProof, Return, world
    <3> QED
      BY <1>1, <3>1
  <2> QED
    BY <2>1, <2>2
<1>7. ASSUME NEW c \in Callers, NEW t \in Txids, NEW kind \in Kinds, Call(c, t, kind) PROVE TipOrder' /\ Kept'
  BY <1>1, <1>7, CallFacts
<1>8. ASSUME NEW c \in Callers, Join(c) PROVE TipOrder' /\ Kept'
  BY <1>1, <1>8, JoinFacts
<1>9. ASSUME NEW c \in Callers, Request(c) PROVE TipOrder' /\ Kept'
  BY <1>1, <1>9, RequestFacts DEF FlightInv
<1>10. ASSUME NEW c \in Callers, Unmap(c) PROVE TipOrder' /\ Kept'
  BY <1>1, <1>10, UnmapFacts
<1>11. CASE UNCHANGED vars
  BY <1>1, <1>11 DEF vars
<1>12. CASE World
  BY <1>2, <1>3, <1>4, <1>12 DEF World
<1> QED
  BY <1>6, <1>7, <1>8, <1>9, <1>10, <1>11, <1>12 DEF Next, Run, Quiet

(***************************************************************************)
(* Runs without a fault.                                                   *)
(***************************************************************************)

\* Known, for as long as nothing has failed.
Fine == NoBad /\ \A c \in Callers : Promised(c) /\ NotFoundTrue(c)

\* Where a caller stands is all the same to the promise of another.
LEMMA OtherPromise ==
  ASSUME NEW d \in Callers, Promised(d), NotFoundTrue(d), call'[d] = call[d],
         UNCHANGED <<providers, known, inflightMap>>
  PROVE  Promised(d)' /\ NotFoundTrue(d)'
BY DEF Promised, NotFoundTrue, Asking, Provided, NodeHas, Url

\* A caller that has asked the only other provider in vain has the node.
LEMMA OnlyNode ==
  ASSUME TypeOK, NEW c \in Callers, Provided(c), "jb" \notin providers \/ call[c].tx \notin known["jb"]
  PROVE  NodeHas(call[c].tx)
<1>1. providers \subseteq {"jb", "node"}
  BY ProvidersAssumption DEF TypeOK
<1>2. PICK p \in providers : call[c].tx \in known[p]
  BY DEF Provided
<1> QED
  BY <1>1, <1>2 DEF NodeHas

\* A caller that reaches no place where a promise is made has nothing to keep
\* but that a provider had its transaction.
LEMMA Harmless ==
  ASSUME TypeOK, NEW c \in Callers, Promised(c), UNCHANGED <<providers, known>>,
         Same(call'[c], call[c]), call'[c].res = "tx" => call[c].res = "tx",
         call'[c].at \notin {"cache", "join", "unmap", "parse", "node"}
  PROVE  Promised(c)'
<1>1. call'[c].knew = call[c].knew /\ call'[c].tx = call[c].tx
  BY DEF Same
<1>2. ASSUME Asking(c)' PROVE Provided(c)'
  <2>1. Provided(c)
    BY <1>1, <1>2 DEF Asking, Promised
  <2> QED
    BY <1>1, <2>1 DEF Provided
<1> QED
  BY <1>2 DEF Promised, Asking

\* A quiet step keeps the promise of its caller: LoadTx goes on to the node or
\* ends in vain only if nothing was promised.
LEMMA QuietPromise ==
  ASSUME TypeOK, Carrying, Fine, NEW c \in Callers, Quiet(c), left' = left
  PROVE  Promised(c)' /\ NotFoundTrue(c)'
<1>0. /\ call[c] \in CallStates /\ call \in [Callers -> CallStates] /\ Carries(call[c])
      /\ Promised(c) /\ NotFoundTrue(c) /\ call[c].body.is # "bad"
  BY DEF TypeOK, Carrying, Fine, NoBad
<1>00. UNCHANGED <<providers, known, inflightMap>>
  BY QuietFacts
<1>1. left \in Int
  BY BoundAssumption DEF TypeOK
<1>2. ASSUME NEW r \in CallStates, call' = [call EXCEPT ![c] = r], Same(r, call[c]),
             r.res = "tx" => call[c].res = "tx",
             r.at \notin {"cache", "join", "unmap", "parse", "node"},
             r.out \in {call[c].out, "found", "error", "nothing"}
      PROVE  Promised(c)' /\ NotFoundTrue(c)'
  <2>1. call'[c] = r
    BY <1>0, <1>2
  <2>2. Promised(c)'
    BY <1>0, <1>00, <1>2, <2>1, Harmless
  <2>3. NotFoundTrue(c)'
    BY <1>0, <1>2, <2>1 DEF NotFoundTrue, Same
  <2> QED
    BY <2>2, <2>3
<1>3. ASSUME NEW err \in Errors, call' = [call EXCEPT ![c] = Fallback(call[c], err)],
             Asking(c) => NodeHas(call[c].tx), call[c].res = "tx"
      PROVE  Promised(c)' /\ NotFoundTrue(c)'
  <2> DEFINE r == Fallback(call[c], err)
  <2>1. call'[c] = r
    BY <1>0, <1>3
  <2>2. /\ Same(r, call[c]) /\ r.res = "tx" /\ r.at \in {"node", "done"}
        /\ r.at = "node" => r.out = call[c].out
        /\ r.at = "done" => "node" \notin providers
    BY <1>0, <1>3, FallbackFacts
  <2>3. call'[c].knew = call[c].knew /\ call'[c].tx = call[c].tx
    BY <2>1, <2>2 DEF Same
  <2>4. call'[c].at = "done" => ~call[c].knew
    BY <1>3, <2>1, <2>2 DEF Asking, NodeHas
  <2> HIDE DEF r
  <2>5. Promised(c)'
    <3>1. SUFFICES ASSUME Asking(c)' PROVE Provided(c)' /\ (call'[c].at = "node" => NodeHas(call[c].tx)')
      BY <2>1, <2>2, <2>3 DEF Promised
    <3>2. Asking(c)
      BY <1>3, <2>3, <3>1 DEF Asking
    <3>3. Provided(c)
      BY <1>0, <3>2 DEF Promised
    <3> QED
      BY <1>00, <1>3, <2>3, <3>2, <3>3 DEF Provided, NodeHas
  <2>6. NotFoundTrue(c)'
    BY <1>0, <2>1, <2>2, <2>3, <2>4 DEF NotFoundTrue
  <2> QED
    BY <2>5, <2>6
<1>4. CASE ReadCache(c)
  <2>1. PICK err \in Errors :
          call' = [call EXCEPT ![c] = IF rawtxs[Tx(c)] = "good" THEN Loaded(call[c])
                       ELSE IF "jb" \in providers THEN [call[c] EXCEPT !.at = "join"]
                       ELSE Fallback(call[c], err)]
    BY <1>4 DEF ReadCache, Becomes, Errors
  <2>2. call[c].at = "cache" /\ call[c].res = "tx"
    BY <1>0, <1>4 DEF ReadCache, At, Carries
  <2>3. CASE rawtxs[Tx(c)] = "good"
    <3>1. /\ Loaded(call[c]) \in CallStates /\ Same(Loaded(call[c]), call[c])
          /\ Loaded(call[c]).at \in {"proof", "done"}
          /\ Loaded(call[c]).out \in {call[c].out, "found"}
      BY <1>0, LoadedFacts
    <3> QED
      BY <1>2, <2>1, <2>2, <2>3, <3>1
  <2>4. CASE rawtxs[Tx(c)] # "good" /\ "jb" \in providers
    <3>1. call'[c] = [call[c] EXCEPT !.at = "join"]
      BY <1>0, <2>1, <2>4
    <3>2. /\ call'[c].at = "join" /\ call'[c].tx = call[c].tx /\ call'[c].res = call[c].res
          /\ call'[c].knew = call[c].knew /\ call'[c].out = call[c].out
      BY <1>0, <3>1 DEF CallStates
    <3>3. Promised(c)'
      BY <1>0, <1>00, <2>2, <3>2 DEF Promised, Asking, Provided, NodeHas, Url
    <3> QED
      BY <1>0, <3>2, <3>3 DEF NotFoundTrue
  <2>5. CASE rawtxs[Tx(c)] # "good" /\ "jb" \notin providers
    <3>1. Asking(c) => NodeHas(call[c].tx)
      BY <1>0, <2>5, OnlyNode DEF Promised
    <3> QED
      BY <1>3, <2>1, <2>2, <2>5, <3>1
  <2> QED
    BY <2>3, <2>4, <2>5
<1>5. CASE ParseTx(c)
  <2>1. call[c].at = "parse" /\ call[c].res = "tx"
    BY <1>5 DEF ParseTx, At
  <2>2. call[c].err \in Errors /\ call[c].body.is \in {"none", "good"}
    BY <1>0 DEF CallStates, Errors, Bodies
  <2>3. CASE call[c].body.is = "good"
    <3>1. [call[c] EXCEPT !.at = "store"] \in CallStates
      BY <1>0 DEF CallStates, Places
    <3>2. /\ Same([call[c] EXCEPT !.at = "store"], call[c])
          /\ [call[c] EXCEPT !.at = "store"].at = "store"
          /\ [call[c] EXCEPT !.at = "store"].out = call[c].out
      BY <1>0 DEF CallStates, Same
    <3>3. call' = [call EXCEPT ![c] = [call[c] EXCEPT !.at = "store"]]
      BY <1>5, <2>3 DEF ParseTx, Becomes
    <3> QED
      BY <1>2, <2>1, <3>1, <3>2, <3>3
  <2>4. CASE call[c].body.is = "none"
    <3>1. Asking(c) => NodeHas(call[c].tx)
      BY <1>0, <2>1, <2>4 DEF Promised
    <3>2. call' = [call EXCEPT ![c] = Fallback(call[c], call[c].err)]
      BY <1>5, <2>4 DEF ParseTx, Becomes
    <3> QED
      BY <1>3, <2>1, <2>2, <3>1, <3>2
  <2> QED
    BY <2>2, <2>3, <2>4
<1>6. ASSUME NEW out \in {"error", "nothing", "found"}, Becomes(c, ProofLoaded(call[c], out)),
             call[c].res = "prf"
      PROVE  Promised(c)' /\ NotFoundTrue(c)'
  <2>1. /\ ProofLoaded(call[c], out) \in CallStates /\ Same(ProofLoaded(call[c], out), call[c])
        /\ ProofLoaded(call[c], out).at = "done"
        /\ ProofLoaded(call[c], out).out \in {"found", out}
    BY <1>0, ProofLoadedFacts DEF Outcomes
  <2>2. ProofLoaded(call[c], out).res = call[c].res
    BY <1>0 DEF ProofLoaded, End, CallStates
  <2> QED
    BY <1>2, <1>6, <2>1, <2>2 DEF Becomes
<1>7. ASSUME NEW r \in CallStates, call' = [call EXCEPT ![c] = r], Same(r, call[c]),
             r.res = "prf", r.out = call[c].out
      PROVE  Promised(c)' /\ NotFoundTrue(c)'
  <2>1. call'[c] = r
    BY <1>0, <1>7
  <2> QED
    BY <1>0, <1>7, <2>1 DEF Promised, Asking, NotFoundTrue, Same
<1>8. CASE ParseProof(c)
  <2>1. call[c].res = "prf"
    BY <1>8 DEF ParseProof
  <2>2. CASE call[c].body.is = "good"
    <3>1. [call[c] EXCEPT !.at = "check"] \in CallStates
      BY <1>0 DEF CallStates, Places
    <3>2. /\ Same([call[c] EXCEPT !.at = "check"], call[c])
          /\ [call[c] EXCEPT !.at = "check"].res = "prf"
          /\ [call[c] EXCEPT !.at = "check"].out = call[c].out
      BY <1>0, <2>1 DEF CallStates, Same
    <3>3. call' = [call EXCEPT ![c] = [call[c] EXCEPT !.at = "check"]]
      BY <1>8, <2>2 DEF ParseProof, Becomes
    <3> QED
      BY <1>7, <3>1, <3>2, <3>3
  <2>3. CASE call[c].body.is = "none"
    BY <1>6, <1>8, <2>1, <2>3 DEF ParseProof
  <2>4. call[c].body.is \in {"none", "good"}
    BY <1>0 DEF CallStates, Bodies
  <2> QED
    BY <2>2, <2>3, <2>4
<1>9. CASE Node(c)
  <2>1. call[c].at = "node" /\ call[c].res = "tx"
    BY <1>0, <1>9 DEF Node, At, Carries
  <2>2. CASE call' = [call EXCEPT ![c] = [call[c] EXCEPT !.at = "store", !.body = Rawtx]]
    <3> DEFINE r == [call[c] EXCEPT !.at = "store", !.body = Rawtx]
    <3>1. Rawtx \in Bodies
      BY BoundAssumption DEF Rawtx, Bodies, Heights
    <3>2. r \in CallStates
      BY <1>0, <3>1 DEF CallStates, Places
    <3>3. Same(r, call[c]) /\ r.at = "store" /\ r.out = call[c].out
      BY <1>0 DEF CallStates, Same
    <3>4. call' = [call EXCEPT ![c] = r]
      BY <2>2
    <3> HIDE DEF r
    <3> QED
      BY <1>2, <2>1, <3>2, <3>3, <3>4
  <2>3. CASE Tx(c) \notin known["node"] /\ \E err \in Errors : Becomes(c, NotLoaded(call[c], err))
    <3>1. PICK err \in Errors : Becomes(c, NotLoaded(call[c], err))
      BY <2>3
    <3>2. /\ Same(NotLoaded(call[c], err), call[c])
          /\ NotLoaded(call[c], err).at = "done" /\ NotLoaded(call[c], err).res = call[c].res
      BY <1>0, NotLoadedFacts
    <3>3. call'[c] = NotLoaded(call[c], err)
      BY <1>0, <3>1 DEF Becomes
    <3>4. ~call[c].knew
      BY <1>0, <2>1, <2>3 DEF Promised, Asking, NodeHas, Tx
    <3>5. ~call'[c].knew
      BY <3>2, <3>3, <3>4 DEF Same
    <3> QED
      BY <3>5 DEF Promised, Asking, NotFoundTrue
  <2>4. ~Fault
    BY <1>1 DEF Fault
  <2>5. {"nil", "other"} \subseteq Errors
    BY DEF Errors
  <2> QED
    BY <1>9, <2>2, <2>3, <2>4, <2>5 DEF Node, Becomes
<1>10. CASE Store(c)
  <2>1. /\ Loaded(call[c]) \in CallStates /\ Same(Loaded(call[c]), call[c])
        /\ Loaded(call[c]).at \in {"proof", "done"}
        /\ Loaded(call[c]).out \in {call[c].out, "found"}
    BY <1>0, LoadedFacts
  <2>2. call[c].res = "tx" /\ call' = [call EXCEPT ![c] = Loaded(call[c])]
    BY <1>0, <1>10 DEF Store, At, Carries, Becomes
  <2> QED
    BY <1>2, <2>1, <2>2
<1>11. CASE ReadProof(c)
  <2>1. call[c].at = "proof" /\ call[c].res = "prf"
    BY <1>0, <1>11 DEF ReadProof, At, Carries
  <2>2. CASE proofs[Tx(c)].height # 0
    <3> DEFINE r == [call[c] EXCEPT !.at = "check", !.body = Proof(proofs[Tx(c)].height)]
    <3>1. proofs[Tx(c)].height \in Heights
      BY <2>1 DEF TypeOK, Tx
    <3>2. Proof(proofs[Tx(c)].height) \in Bodies
      BY <3>1 DEF Proof, Bodies
    <3>3. r \in CallStates
      BY <1>0, <3>2 DEF CallStates, Places
    <3>4. Same(r, call[c]) /\ r.res = "prf" /\ r.out = call[c].out
      BY <1>0, <2>1 DEF CallStates, Same
    <3>5. call' = [call EXCEPT ![c] = r]
      BY <1>11, <2>2 DEF ReadProof, Becomes
    <3> HIDE DEF r
    <3> QED
      BY <1>7, <3>3, <3>4, <3>5
  <2>3. CASE proofs[Tx(c)].height = 0 /\ "jb" \in providers
    <3> DEFINE r == [call[c] EXCEPT !.at = "join"]
    <3>1. r \in CallStates
      BY <1>0 DEF CallStates, Places
    <3>2. Same(r, call[c]) /\ r.res = "prf" /\ r.out = call[c].out
      BY <1>0, <2>1 DEF CallStates, Same
    <3>3. call' = [call EXCEPT ![c] = r]
      BY <1>11, <2>3 DEF ReadProof, Becomes
    <3> HIDE DEF r
    <3> QED
      BY <1>7, <3>1, <3>2, <3>3
  <2>4. CASE proofs[Tx(c)].height = 0 /\ "jb" \notin providers
    BY <1>6, <1>11, <2>1, <2>4 DEF ReadProof
  <2> QED
    BY <2>2, <2>3, <2>4
<1>12. CASE Check(c)
  <2>1. \E out \in {"error", "found"} : Becomes(c, ProofLoaded(call[c], out))
    BY <1>12 DEF Check, Keep
  <2>2. call[c].res = "prf"
    BY <1>0, <1>12 DEF Check, At, Carries
  <2> QED
    BY <1>6, <2>1, <2>2
<1>13. CASE Return(c)
  <2>1. call'[c] = Idle
    BY <1>0, <1>13 DEF Return, Becomes
  <2> QED
    BY <2>1 DEF Idle, Promised, Asking, NotFoundTrue
<1> QED
  BY <1>4, <1>5, <1>8, <1>9, <1>10, <1>11, <1>12, <1>13 DEF Quiet

\* A caller that is told of a flight that landed is told the truth.
LEMMA LandedPromise ==
  ASSUME TypeOK, Fine, NEW c \in Callers, call[c].at = "request",
         NEW body \in Bodies, body.is # "bad",
         call[c].res = "tx" /\ body.is = "none" => Tx(c) \notin known["jb"],
         NEW d \in Callers, Asking(d), Url(d) = Url(c)
  PROVE  body.is = "good" \/ NodeHas(call[d].tx)
<1>1. Provided(d) /\ call[d].tx = call[c].tx /\ call[c].res = "tx"
  BY DEF Fine, Promised, Asking, Url
<1>2. CASE body.is = "none"
  BY <1>1, <1>2, OnlyNode DEF Tx
<1>3. body.is \in {"none", "good"}
  BY DEF Bodies
<1> QED
  BY <1>2, <1>3

\* Every step without a fault keeps the promises.
LEMMA FineStep ==
  ASSUME TypeOK, FlightInv, Carrying, Fine, [Next]_vars, left' = left
  PROVE  Fine'
<1>0. Nothing.is = "none" /\ Rawtx.is = "good" /\ \A h : Proof(h).is = "good"
  BY DEF Nothing, Rawtx, Proof
<1>00. /\ NoBad /\ \A d \in Callers : Promised(d) /\ NotFoundTrue(d)
       /\ left \in Int
  BY BoundAssumption DEF Fine, TypeOK
<1>1. CASE World
  <2>1. UNCHANGED <<providers, inflightMap, call>>
    BY <1>1, WorldFacts
  <2>2. \A p \in {"jb", "node"} : known[p] \subseteq known'[p]
    BY <1>1, WorldFacts
  <2>3. providers \subseteq {"jb", "node"}
    BY ProvidersAssumption DEF TypeOK
  <2>4. NoBad'
    BY <1>00, <2>1 DEF NoBad
  <2>5. ASSUME NEW d \in Callers PROVE Promised(d)' /\ NotFoundTrue(d)'
    <3>1. Provided(d) => Provided(d)'
      BY <2>1, <2>2, <2>3 DEF Provided
    <3>2. NodeHas(call[d].tx) => NodeHas(call[d].tx)'
      BY <2>1, <2>2 DEF NodeHas
    <3>3. Asking(d)' = Asking(d) /\ Url(d)' = Url(d)
      BY <2>1 DEF Asking, Url
    <3>4. Promised(d)'
      BY <1>00, <2>1, <3>1, <3>2, <3>3 DEF Promised
    <3> QED
      BY <1>00, <2>1, <3>4 DEF NotFoundTrue
  <2> QED
    BY <2>4, <2>5 DEF Fine
<1>2. ASSUME NEW c \in Callers, Quiet(c) PROVE Fine'
  <2>1. UNCHANGED <<providers, known, inflightMap>> /\ \A d \in Callers : d # c => call'[d] = call[d]
    BY <1>2, QuietFacts
  <2>2. call'[c].body.is # "bad"
    BY <1>0, <1>00, <1>2, QuietFacts DEF NoBad
  <2>3. NoBad'
    BY <1>00, <2>1, <2>2 DEF NoBad
  <2>4. Promised(c)' /\ NotFoundTrue(c)'
    BY <1>2, QuietPromise
  <2>5. \A d \in Callers : d # c => Promised(d)' /\ NotFoundTrue(d)'
    BY <1>00, <2>1, OtherPromise
  <2> QED
    BY <2>3, <2>4, <2>5 DEF Fine
<1>3. ASSUME NEW c \in Callers, NEW t \in Txids, NEW kind \in Kinds, Call(c, t, kind) PROVE Fine'
  <2>1. UNCHANGED <<providers, known, inflightMap>> /\ \A d \in Callers : d # c => call'[d] = call[d]
    BY <1>3, CallFacts
  <2>2. /\ call'[c].at = (IF kind = "proof" THEN "proof" ELSE "cache")
        /\ call'[c].res = (IF kind = "proof" THEN "prf" ELSE "tx")
        /\ call'[c].tx = t /\ call'[c].body = Nothing /\ call'[c].out = "none"
        /\ call'[c].knew => Knew(t)
    BY <1>3, CallFacts
  <2>3. NoBad'
    BY <1>0, <1>00, <2>1, <2>2 DEF NoBad
  <2>4. Promised(c)'
    <3>1. SUFFICES ASSUME Asking(c)'
                   PROVE  Provided(c)' /\ (inflightMap[Url(c)'] # NoFlight => ~inflightMap[Url(c)'].done)
      BY <2>1, <2>2 DEF Promised
    <3>2. Knew(t) /\ Url(c)' = <<"tx", t>>
      BY <2>2, <3>1 DEF Asking, Url
    <3> QED
      BY <2>1, <2>2, <3>2 DEF Knew, Provided
  <2>5. NotFoundTrue(c)'
    BY <2>2 DEF NotFoundTrue
  <2>6. \A d \in Callers : d # c => Promised(d)' /\ NotFoundTrue(d)'
    BY <1>00, <2>1, OtherPromise
  <2> QED
    BY <2>3, <2>4, <2>5, <2>6 DEF Fine
<1>4. ASSUME NEW c \in Callers, Join(c) PROVE Fine'
  <2>1. /\ \A d \in Callers : d # c => call'[d] = call[d]
        /\ call[c].at = "join" /\ UNCHANGED <<providers, known>>
        /\ call'[c].knew = call[c].knew /\ call'[c].tx = call[c].tx
        /\ call'[c].res = call[c].res /\ call'[c].out = call[c].out
    BY <1>4, JoinFacts DEF Same
  <2>2. Url(c)' = Url(c) /\ Url(c) \in Urls /\ Asking(c)' = Asking(c) /\ Provided(c)' = Provided(c)
    BY <2>1, UrlFacts DEF Url, Asking, Provided
  <2>3. NotFoundTrue(c)'
    BY <1>00, <2>1 DEF NotFoundTrue
  <2>4. CASE UNCHANGED inflightMap
    <3>1. /\ call'[c].at = "wait" /\ call'[c].body = call[c].body
          \/ /\ call'[c].at = "parse" /\ call'[c].body = inflightMap[Url(c)].Result
             /\ inflightMap[Url(c)] # NoFlight /\ inflightMap[Url(c)].done
      <4>1. Fresh(c) \in Flights
        BY BoundAssumption DEF Fresh, Flights, Nothing, Bodies, Heights
      <4>2. ~(inflightMap[Url(c)] = NoFlight /\ inflightMap' = [inflightMap EXCEPT ![Url(c)] = Fresh(c)])
        BY <2>2, <2>4, <4>1, NoFlightAssumption DEF TypeOK
      <4> QED
        BY <1>4, <4>2, JoinFacts
    <3>2. NoBad'
      BY <1>00, <2>1, <2>2, <2>4, <3>1 DEF NoBad
    <3>3. Promised(c)'
      <4>1. SUFFICES ASSUME Asking(c)
                     PROVE  Provided(c) /\ (call'[c].at = "parse" =>
                              inflightMap[Url(c)].Result.is = "good" \/ NodeHas(call[c].tx))
        BY <2>1, <2>2, <3>1 DEF Promised, NodeHas
      <4> QED
        BY <1>00, <2>1, <3>1, <4>1 DEF Promised
    <3>4. \A d \in Callers : d # c => Promised(d)' /\ NotFoundTrue(d)'
      BY <1>00, <2>1, <2>4, OtherPromise
    <3> QED
      BY <2>3, <3>2, <3>3, <3>4 DEF Fine
  <2>5. CASE inflightMap' = [inflightMap EXCEPT ![Url(c)] = Fresh(c)] /\ call'[c].at = "request"
             /\ call'[c].body = call[c].body
    <3>1. /\ inflightMap'[Url(c)] = Fresh(c)
          /\ \A u \in Urls : u # Url(c) => inflightMap'[u] = inflightMap[u]
      BY <2>2, <2>5 DEF TypeOK
    <3>2. ~Fresh(c).done /\ Fresh(c).Result.is # "bad"
      BY <1>0 DEF Fresh
    <3>3. NoBad'
      BY <1>00, <2>1, <2>5, <3>1, <3>2 DEF NoBad
    <3>4. Promised(c)'
      BY <1>00, <2>2, <2>5 DEF Promised
    <3>5. ASSUME NEW d \in Callers, d # c PROVE Promised(d)' /\ NotFoundTrue(d)'
      <4>1. call'[d] = call[d] /\ Url(d)' = Url(d) /\ Asking(d)' = Asking(d) /\ Provided(d)' = Provided(d)
            /\ NodeHas(call[d].tx)' = NodeHas(call[d].tx)
        BY <2>1, <3>5 DEF Url, Asking, Provided, NodeHas
      <4>2. CASE call[d].at \in {"cache", "join"}
        <5>1. Url(d) \in Urls
          BY <4>2, UrlFacts
        <5>2. inflightMap'[Url(d)] = inflightMap[Url(d)] \/ ~inflightMap'[Url(d)].done
          BY <3>1, <3>2, <5>1
        <5> QED
          BY <1>00, <4>1, <4>2, <5>2 DEF Promised, NotFoundTrue
      <4>3. CASE call[d].at \notin {"cache", "join"}
        BY <1>00, <4>1, <4>3 DEF Promised, NotFoundTrue
      <4> QED
        BY <4>2, <4>3
    <3> QED
      BY <2>3, <3>3, <3>4, <3>5 DEF Fine
  <2> QED
    BY <1>4, <2>4, <2>5, JoinFacts
<1>5. ASSUME NEW c \in Callers, Request(c) PROVE Fine'
  <2>1. /\ call[c].at = "request" /\ Url(c) \in Urls /\ inflightMap[Url(c)] \in Flights
        /\ UNCHANGED <<providers, known>>
        /\ \E body \in Bodies, err \in Errors : Landed(c, body, err)
    BY <1>5, RequestFacts DEF FlightInv
  <2>2. PICK body \in Bodies, err \in Errors : Landed(c, body, err)
    BY <2>1
  <2>3. body.is # "bad" /\ (call[c].res = "tx" /\ body.is = "none" => Tx(c) \notin known["jb"])
    <3>1. left' # left - 1
      BY <1>00
    <3> QED
      BY <2>2, <3>1 DEF Landed
  <2>4. /\ inflightMap'[Url(c)] = [inflightMap[Url(c)] EXCEPT !.done = TRUE, !.Result = body]
        /\ \A u \in Urls : u # Url(c) => inflightMap'[u] = inflightMap[u]
    BY <2>1, <2>2 DEF Landed, TypeOK
  <2>5. inflightMap'[Url(c)].Result = body
    BY <2>1, <2>4 DEF Flights
  <2>6. ASSUME NEW d \in Callers
        PROVE  /\ call'[d].tx = call[d].tx /\ call'[d].res = call[d].res
               /\ call'[d].knew = call[d].knew /\ call'[d].out = call[d].out
               /\ \/ Url(d) = Url(c) /\ call'[d].at \in {"unmap", "parse"} /\ call'[d].body = body
                  \/ call'[d] = call[d]
    <3>1. call[d] \in CallStates
      BY DEF TypeOK
    <3>2. CASE d = c
      BY <2>2, <3>1, <3>2 DEF Landed, CallStates
    <3>3. CASE d # c /\ d \in Waiters(c)
      BY <2>2, <3>1, <3>3 DEF Landed, CallStates, Waiters
    <3>4. CASE d # c /\ d \notin Waiters(c)
      BY <2>2, <3>4 DEF Landed
    <3> QED
      BY <3>2, <3>3, <3>4
  <2>7. NoBad'
    <3>1. \A u \in Urls : inflightMap'[u] # NoFlight => inflightMap'[u].Result.is # "bad"
      BY <1>00, <2>3, <2>4, <2>5 DEF NoBad
    <3>2. \A d \in Callers : call'[d].body.is # "bad"
      BY <1>00, <2>3, <2>6 DEF NoBad
    <3> QED
      BY <3>1, <3>2 DEF NoBad
  <2>8. ASSUME NEW d \in Callers PROVE Promised(d)' /\ NotFoundTrue(d)'
    <3>1. /\ Url(d)' = Url(d) /\ Asking(d)' = Asking(d) /\ Provided(d)' = Provided(d)
          /\ NodeHas(call[d].tx)' = NodeHas(call[d].tx) /\ call'[d].tx = call[d].tx
      BY <2>1, <2>6 DEF Url, Asking, Provided, NodeHas
    <3>2. NotFoundTrue(d)'
      BY <1>00, <2>6 DEF NotFoundTrue
    <3>3. Asking(d) /\ Url(d) = Url(c) => body.is = "good" \/ NodeHas(call[d].tx)
      BY <2>1, <2>3, LandedPromise
    <3>4. CASE Url(d) = Url(c) /\ call'[d].at \in {"unmap", "parse"} /\ call'[d].body = body
      BY <1>00, <3>1, <3>2, <3>3, <3>4 DEF Promised
    <3>5. CASE call'[d] = call[d]
      <4>1. CASE call[d].at \in {"cache", "join"}
        <5>1. Url(d) \in Urls
          BY <4>1, UrlFacts
        <5>2. CASE Url(d) = Url(c)
          BY <1>00, <2>5, <3>1, <3>2, <3>3, <3>5, <4>1, <5>2 DEF Promised
        <5>3. CASE Url(d) # Url(c)
          BY <1>00, <2>4, <3>1, <3>2, <3>5, <4>1, <5>1, <5>3 DEF Promised
        <5> QED
          BY <5>2, <5>3
      <4>2. CASE call[d].at \notin {"cache", "join"}
        BY <1>00, <3>1, <3>2, <3>5, <4>2 DEF Promised
      <4> QED
        BY <4>1, <4>2
    <3> QED
      BY <2>6, <3>2, <3>4, <3>5
  <2> QED
    BY <2>7, <2>8 DEF Fine
<1>6. ASSUME NEW c \in Callers, Unmap(c) PROVE Fine'
  <2>1. /\ call[c].at = "unmap" /\ Url(c) \in Urls /\ UNCHANGED <<providers, known>>
        /\ call'[c] = [call[c] EXCEPT !.at = "parse"]
        /\ inflightMap' = [inflightMap EXCEPT ![Url(c)] = NoFlight]
        /\ \A d \in Callers : d # c => call'[d] = call[d]
    BY <1>6, UnmapFacts
  <2>2. \A u \in Urls : inflightMap'[u] \in {NoFlight, inflightMap[u]}
    BY <2>1 DEF TypeOK
  <2>3. ASSUME NEW d \in Callers
        PROVE  /\ call'[d].tx = call[d].tx /\ call'[d].res = call[d].res
               /\ call'[d].knew = call[d].knew /\ call'[d].out = call[d].out
               /\ call'[d].body = call[d].body
               /\ \/ call[d].at = "unmap" /\ call'[d].at = "parse"
                  \/ call'[d].at = call[d].at
    <3>1. call[c] \in CallStates
      BY DEF TypeOK
    <3> QED
      BY <2>1, <3>1 DEF CallStates
  <2>4. NoBad'
    BY <1>00, <2>2, <2>3 DEF NoBad
  <2>5. ASSUME NEW d \in Callers PROVE Promised(d)' /\ NotFoundTrue(d)'
    <3>1. /\ Url(d)' = Url(d) /\ Asking(d)' = Asking(d) /\ Provided(d)' = Provided(d)
          /\ NodeHas(call[d].tx)' = NodeHas(call[d].tx) /\ call'[d].tx = call[d].tx
      BY <2>1, <2>3 DEF Url, Asking, Provided, NodeHas
    <3>2. NotFoundTrue(d)'
      BY <1>00, <2>3 DEF NotFoundTrue
    <3>3. CASE call'[d].at \in {"cache", "join"}
      <4>1. call[d].at = call'[d].at
        BY <2>3, <3>3
      <4>2. Url(d) \in Urls
        BY <3>3, <4>1, UrlFacts
      <4> QED
        BY <1>00, <2>2, <3>1, <3>2, <3>3, <4>1, <4>2 DEF Promised
    <3>4. CASE call'[d].at \notin {"cache", "join"}
      BY <1>00, <2>3, <3>1, <3>2, <3>4 DEF Promised
    <3> QED
      BY <3>3, <3>4
  <2> QED
    BY <2>4, <2>5 DEF Fine
<1>7. CASE UNCHANGED vars
  <2>1. UNCHANGED <<providers, known, inflightMap, call>>
    BY <1>7 DEF vars
  <2> QED
    BY <1>00, <2>1 DEF Fine, NoBad, Promised, NotFoundTrue, Asking, Provided, NodeHas, Url
<1> QED
  BY <1>1, <1>2, <1>3, <1>4, <1>5, <1>6, <1>7 DEF Next, Run, Quiet

\* Requests fail no less as time goes on.
LEMMA LeftStep == ASSUME TypeOK, FlightInv, Carrying, [Next]_vars, left' = MaxFaults PROVE left' = left
<1>0. left \in Int /\ left <= MaxFaults /\ MaxFaults \in Int
  BY BoundAssumption DEF TypeOK
<1>1. CASE World
  BY <1>1, WorldFacts
<1>2. ASSUME NEW c \in Callers, Quiet(c) PROVE left' = left
  <2>1. left' <= left
    BY <1>2, QuietTypes
  <2> QED
    BY <1>0, <2>1
<1>3. ASSUME NEW c \in Callers, NEW t \in Txids, NEW kind \in Kinds, Call(c, t, kind) PROVE left' = left
  BY <1>3, CallFacts
<1>4. ASSUME NEW c \in Callers, Join(c) PROVE left' = left
  BY <1>4, JoinFacts
<1>5. ASSUME NEW c \in Callers, Request(c) PROVE left' = left
  <2>1. \E body \in Bodies, err \in Errors : Landed(c, body, err)
    BY <1>5, RequestFacts DEF FlightInv
  <2>2. left' = left \/ left' = left - 1
    BY <2>1 DEF Landed
  <2> QED
    BY <1>0, <2>2
<1>6. ASSUME NEW c \in Callers, Unmap(c) PROVE left' = left
  BY <1>6, UnmapFacts
<1>7. CASE UNCHANGED vars
  BY <1>7 DEF vars
<1> QED
  BY <1>1, <1>2, <1>3, <1>4, <1>5, <1>6, <1>7 DEF Next, Run, Quiet

(***************************************************************************)
(* The theorems.                                                           *)
(***************************************************************************)

\* The invariant holds at the start.
LEMMA InvInit == ASSUME Init PROVE IInv
<1>1. TypeOK
  BY TypeInit
<1>2. call = [c \in Callers |-> Idle] /\ inflightMap = [u \in Urls |-> NoFlight]
  BY DEF Init
<1>3. /\ Idle.at = "idle" /\ Idle.body.is = "none" /\ Idle.out = "none" /\ Idle.knew = FALSE
      /\ Idle.res = "tx"
  BY DEF Idle, Nothing
<1>4. Led /\ Leaders /\ Waiting /\ Results
  BY <1>2, <1>3 DEF Led, Leaders, Waiting, Results, Leads
<1>5. Carrying
  BY <1>2, <1>3 DEF Carrying, Carries
<1>6. TipOrder
  BY DepthAssumption DEF Init, TipOrder
<1>7. Kept
  BY DEF Init, Kept, NoProof
<1>8. Known
  BY <1>2, <1>3 DEF Known, NoBad, Promised, NotFoundTrue, Asking
<1> QED
  BY <1>1, <1>4, <1>5, <1>6, <1>7, <1>8 DEF IInv

\* Every step keeps the invariant.
LEMMA InvStep == ASSUME IInv, [Next]_vars PROVE IInv'
<1>1. TypeOK /\ FlightInv /\ Carrying /\ Results /\ TipOrder /\ Kept /\ Known /\ Led
  BY DEF IInv, FlightInv
<1>2. TypeOK'
  BY <1>1, TypeStep
<1>3. FlightInv'
  BY <1>1, FlightStep
<1>4. Carrying' /\ Results'
  BY <1>1, CarryStep
<1>5. TipOrder' /\ Kept'
  BY <1>1, KeptStep
<1>6. Known'
  <2>1. SUFFICES ASSUME left' = MaxFaults PROVE Fine'
    BY DEF Known, Fine
  <2>2. left' = left
    BY <1>1, <2>1, LeftStep
  <2>3. Fine
    BY <1>1, <2>1, <2>2 DEF Known, Fine
  <2> QED
    BY <1>1, <2>2, <2>3, FineStep
<1> QED
  BY <1>2, <1>3, <1>4, <1>5, <1>6 DEF IInv, FlightInv

\* The invariant holds of every behaviour.
THEOREM Invariance == Spec => []IInv
<1>1. IInv /\ [Next]_vars => IInv'
  BY InvStep
<1> QED
  BY <1>1, InvInit, PTL DEF Spec

\* Every variable of the loader keeps its type.
THEOREM TypeCorrect == Spec => []TypeOK
<1>1. IInv => TypeOK
  BY DEF IInv
<1> QED
  BY <1>1, Invariance, PTL

\* LoadRemoteRawtx and LoadProof never have two requests for one URL under way,
\* and a caller only ever deletes its own flight.
THEOREM OneRequest == Spec => []SingleFlight
<1>1. IInv => SingleFlight
  BY DEF IInv, Led, Leads, SingleFlight
<1> QED
  BY <1>1, Invariance, PTL

\* Wg.Wait is always followed by the Wg.Done of the request it waits for: no
\* flight that is waited for has lost its leader.
THEOREM NoWaiterIsLost == Spec => []WaitersAreServed
<1>1. IInv => WaitersAreServed
  <2>1. SUFFICES ASSUME IInv, NEW c \in Callers, At(c, "wait")
                 PROVE  \E d \in Callers : At(d, "request") /\ Url(d) = Url(c)
    BY DEF WaitersAreServed
  <2>2. Url(c) \in Urls
    BY <2>1, UrlFacts DEF IInv, At
  <2>3. inflightMap[Url(c)] # NoFlight /\ ~inflightMap[Url(c)].done
    BY <2>1 DEF IInv, Waiting, At
  <2> DEFINE d == inflightMap[Url(c)].leader
  <2>4. d \in Callers
    BY <2>1, <2>2, <2>3 DEF IInv, TypeOK, Flights
  <2>5. Leads(d) /\ Url(d) = Url(c)
    BY <2>1, <2>2, <2>3 DEF IInv, Leaders
  <2>6. call[d].at = "request"
    BY <2>1, <2>3, <2>4, <2>5 DEF IInv, Led, Leads
  <2> QED
    BY <2>4, <2>5, <2>6 DEF At
<1> QED
  BY <1>1, Invariance, PTL

\* A proof that LoadProof stored for good stays true on every chain that
\* undoes at most Depth blocks, unless it was undone before it was stored.
THEOREM KeptForGood == Spec => []KeptProofsHold
<1>1. IInv => KeptProofsHold
  BY DEF IInv, Kept, KeptProofsHold
<1> QED
  BY <1>1, Invariance, PTL

\* ErrNotFound is true as long as no request has failed.
THEOREM NotFoundIsSound == Spec => []NotFoundWithoutFault
<1>1. IInv => NotFoundWithoutFault
  BY DEF IInv, Known, NotFoundTrue, NotFoundWithoutFault
<1> QED
  BY <1>1, Invariance, PTL
=============================================================================
