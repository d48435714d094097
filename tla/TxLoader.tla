------------------------------ MODULE TxLoader ------------------------------
(***************************************************************************)
(* How every part of the indexer gets a transaction or its proof           *)
(* (jb/client.go).  LoadTx asks a cache, JungleBus and a node in turn;     *)
(* LoadProof asks the cache and JungleBus.  Callers that want the same URL *)
(* at the same time share one request: the first makes it, the others wait *)
(* on its flight, a map entry that is deleted after they are released.     *)
(*                                                                         *)
(* The cache outlives its callers, transactions and blocks appear          *)
(* meanwhile, and providers fail.                                          *)
(***************************************************************************)
EXTENDS Integers, FiniteSets

CONSTANTS
  Callers,      \* goroutines that load
  Txids,        \* transactions
  Deployments,  \* the sets of providers that are configured
  NoTx,         \* no transaction
  NoFlight,     \* no entry of inflightMap
  Depth,        \* the 5 of LoadProof: a reorganisation never undoes a block
                \* that has more than Depth blocks on top
  StartTip,     \* height of the longest chain at the start
  MaxTip,       \* bound: heights
  MaxFaults     \* bound: failed requests

ASSUME ProvidersAssumption == Deployments \subseteq SUBSET {"jb", "node"}
ASSUME NoTxAssumption == NoTx \notin Txids
ASSUME DepthAssumption == Depth \in Nat /\ StartTip \in Nat /\ StartTip > Depth
ASSUME BoundAssumption == MaxTip \in Nat /\ StartTip <= MaxTip /\ MaxFaults \in Nat

VARIABLES
  providers,   \* JB # nil, bit # nil: never written
  known,       \* known[p]: the transactions that provider p has
  chain,       \* chain[t]: the height at which t is on the longest chain, or 0
  tip,         \* height of the longest chain
  Chaintip,    \* the tip GetChaintip saw last, 0 at the start
  rawtxs,      \* Cache, keys tx: what is stored
  proofs,      \* Cache, keys prf: the block of the proof, and whether for good
  inflightMap, \* the request under way for each URL
  call,        \* where each caller is, and what it holds
  late,        \* ghost: transactions of which a proof was kept that was undone
               \* while it waited, in the cache or in a call
  left         \* what is left of MaxFaults

world == <<providers, known, chain, tip>>
vars == <<providers, known, chain, tip, Chaintip, rawtxs, proofs, inflightMap, call, late, left>>

Heights == 0..MaxTip
Resources == {"tx", "prf"}
Urls == Resources \X Txids

\* What a request returns: nothing, bytes that do not parse, or the
\* transaction, or the proof of a block.
Bodies == [is : {"none", "bad", "good"}, height : Heights]
Nothing == [is |-> "none", height |-> 0]
Bad == [is |-> "bad", height |-> 0]
Rawtx == [is |-> "good", height |-> 0]
Proof(h) == [is |-> "good", height |-> h]

\* InFlight: whose request it is, and its Result once it is done.
Flights == [leader : Callers, done : BOOLEAN, Result : Bodies]

ASSUME NoFlightAssumption == NoFlight \notin Flights

\* raw: LoadTx without the proof; tx: with it; proof: LoadProof.
Kinds == {"raw", "tx", "proof"}
Places == {"idle", "cache", "join", "wait", "request", "unmap", "parse", "node",
           "store", "proof", "check", "done"}
Errors == {"nil", "not-found", "other"}
\* nothing: LoadProof returns nil and no error.
Outcomes == {"none", "found", "not-found", "error", "nothing"}
CallStates == [at : Places, tx : Txids \cup {NoTx}, kind : Kinds, res : Resources,
               body : Bodies, err : Errors, out : Outcomes, knew : BOOLEAN]
Idle == [at |-> "idle", tx |-> NoTx, kind |-> "raw", res |-> "tx", body |-> Nothing,
         err |-> "nil", out |-> "none", knew |-> FALSE]

NoProof == [height |-> 0, kept |-> FALSE]

TypeOK ==
  /\ providers \in Deployments
  /\ known \in [{"jb", "node"} -> SUBSET Txids]
  /\ chain \in [Txids -> Heights]
  /\ \A t \in Txids : chain[t] <= tip
  /\ tip \in Depth..MaxTip /\ Chaintip \in {0} \cup Depth..MaxTip
  /\ rawtxs \in [Txids -> {"none", "bad", "good"}]
  /\ proofs \in [Txids -> [height : Heights, kept : BOOLEAN]]
  /\ inflightMap \in [Urls -> Flights \cup {NoFlight}]
  /\ call \in [Callers -> CallStates]
  /\ \A c \in Callers : call[c].at # "idle" => call[c].tx \in Txids
  /\ late \subseteq Txids
  /\ left \in 0..MaxFaults

\* The cache was filled by earlier processes, and may hold bytes that do not
\* parse; its proofs are modelled from the first one on.
Init ==
  /\ providers \in Deployments
  /\ known \in [{"jb", "node"} -> SUBSET Txids]
  /\ \A p \in {"jb", "node"} \ providers : known[p] = {}
  /\ chain \in [Txids -> 0..StartTip]
  /\ tip = StartTip /\ Chaintip = 0
  /\ rawtxs \in [Txids -> {"none", "bad"}]
  /\ proofs = [t \in Txids |-> NoProof]
  /\ inflightMap = [u \in Urls |-> NoFlight]
  /\ call = [c \in Callers |-> Idle]
  /\ late = {}
  /\ left = MaxFaults

(***************************************************************************)
(* The world.                                                              *)
(***************************************************************************)

Learn(p, t) ==
  /\ p \in providers
  /\ t \notin known[p]
  /\ known' = [known EXCEPT ![p] = @ \cup {t}]
  /\ UNCHANGED <<providers, chain, tip, Chaintip, rawtxs, proofs, inflightMap, call, late, left>>

\* A block arrives, on top of the longest chain or of an earlier block f whose
\* successors it undoes.
Extend ==
  /\ tip < MaxTip
  /\ tip' = tip + 1
  /\ \E f \in (tip - Depth - 1)..tip :
       chain' \in {c \in [Txids -> Heights] : \A t \in Txids :
                     IF chain[t] \in 1..f THEN c[t] = chain[t]
                                          ELSE c[t] \in {0} \cup (f + 1)..(tip + 1)}
  /\ UNCHANGED <<providers, known, Chaintip, rawtxs, proofs, inflightMap, call, late, left>>

\* Broadcast stores the transaction it was given.
Put(t) ==
  /\ rawtxs' = [rawtxs EXCEPT ![t] = "good"]
  /\ UNCHANGED <<world, Chaintip, proofs, inflightMap, call, late, left>>

\* The hour of a proof that was not kept for good is over.
Expire(t) ==
  /\ proofs[t].height # 0 /\ ~proofs[t].kept
  /\ proofs' = [proofs EXCEPT ![t] = NoProof]
  /\ UNCHANGED <<world, Chaintip, rawtxs, inflightMap, call, late, left>>

(***************************************************************************)
(* What the steps of a caller are made of.                                 *)
(***************************************************************************)

Tx(c) == call[c].tx
Url(c) == <<call[c].res, call[c].tx>>
At(c, place) == call[c].at = place
Becomes(c, r) == call' = [call EXCEPT ![c] = r]
Fault == left > 0 /\ left' = left - 1

End(r, out) == [r EXCEPT !.at = "done", !.out = out, !.body = Nothing, !.err = "nil"]

\* Mutant: LoadTx returns no transaction and no error.
NotLoadedNil(r, err) == End(r, CASE err = "nil"       -> "nil"
                                 [] err = "not-found" -> "not-found"
                                 [] OTHER             -> "error")

\* LoadTx ends without a transaction: with the last error, or ErrNotFound.
NotLoaded(r, err) == End(r, IF err = "other" THEN "error" ELSE "not-found")

\* LoadTx has its transaction; an error of LoadProof is dropped.
Loaded(r) == IF r.kind = "tx" THEN [r EXCEPT !.at = "proof", !.res = "prf", !.body = Nothing]
                              ELSE End(r, "found")

\* JungleBus had no transaction: the node is next, if there is one.
Fallback(r, err) ==
  IF "node" \in providers THEN [r EXCEPT !.at = "node", !.body = Nothing, !.err = "nil"]
                          ELSE NotLoaded(r, err)

\* LoadProof ends, for its caller or for LoadTx.
ProofLoaded(r, out) == End(r, IF r.kind = "tx" THEN "found" ELSE out)

(***************************************************************************)
(* The steps of a caller.                                                  *)
(***************************************************************************)

\* A provider has t, and no request for it was answered and is still mapped.
Knew(t) == /\ \E p \in providers : t \in known[p]
           /\ inflightMap[<<"tx", t>>] = NoFlight \/ ~inflightMap[<<"tx", t>>].done

Call(c, t, kind) ==
  /\ At(c, "idle")
  /\ Becomes(c, [Idle EXCEPT !.at = IF kind = "proof" THEN "proof" ELSE "cache",
                             !.tx = t, !.kind = kind,
                             !.res = IF kind = "proof" THEN "prf" ELSE "tx",
                             !.knew = Knew(t)])
  /\ UNCHANGED <<world, Chaintip, rawtxs, proofs, inflightMap, late, left>>

\* Bytes that do not parse are deleted from the cache.
ReadCache(c) ==
  /\ At(c, "cache")
  /\ LET cached == rawtxs[Tx(c)]
         err == IF cached = "bad" THEN "other" ELSE "nil"
     IN  /\ Becomes(c, IF cached = "good" THEN Loaded(call[c])
                       ELSE IF "jb" \in providers THEN [call[c] EXCEPT !.at = "join"]
                       ELSE Fallback(call[c], err))
         /\ rawtxs' = IF cached = "bad" THEN [rawtxs EXCEPT ![Tx(c)] = "none"] ELSE rawtxs
  /\ UNCHANGED <<world, Chaintip, proofs, inflightMap, late, left>>

\* Mutant: the map is not looked up.
JoinAlways(c) ==
  /\ At(c, "join")
  /\ inflightMap' = [inflightMap EXCEPT ![Url(c)] = [leader |-> c, done |-> FALSE, Result |-> Nothing]]
  /\ Becomes(c, [call[c] EXCEPT !.at = "request"])
  /\ UNCHANGED <<world, Chaintip, rawtxs, proofs, late, left>>

\* Under the lock: the first for the URL will request it, the others wait.  A
\* flight that is done, and not deleted yet, gives its Result at once.
Join(c) ==
  /\ At(c, "join")
  /\ LET flight == inflightMap[Url(c)] IN
       IF flight = NoFlight
         THEN /\ inflightMap' = [inflightMap EXCEPT ![Url(c)] =
                                   [leader |-> c, done |-> FALSE, Result |-> Nothing]]
              /\ Becomes(c, [call[c] EXCEPT !.at = "request"])
         ELSE /\ Becomes(c, IF flight.done
                              THEN [call[c] EXCEPT !.at = "parse", !.body = flight.Result]
                              ELSE [call[c] EXCEPT !.at = "wait"])
              /\ UNCHANGED inflightMap
  /\ UNCHANGED <<world, Chaintip, rawtxs, proofs, late, left>>

\* What JungleBus answers, and the error of the caller that asked.  It may not
\* have a proof yet that exists.  A failed request has no body, or one that
\* does not parse.
Answers(c) ==
  IF call[c].res = "tx"
    THEN IF Tx(c) \in known["jb"] THEN {<<Rawtx, "nil">>} ELSE {<<Nothing, "not-found">>}
    ELSE {<<Nothing, "nil">>} \cup (IF chain[Tx(c)] = 0 THEN {} ELSE {<<Proof(chain[Tx(c)]), "nil">>})
Failures(c) == {<<Nothing, IF call[c].res = "tx" THEN "other" ELSE "nil">>, <<Bad, "nil">>}

Waiters(c) == {d \in Callers : At(d, "wait") /\ Url(d) = Url(c)}

\* The flight is done, and its waiters have its Result and no error.
Land(c, body, err) ==
  /\ inflightMap' = [inflightMap EXCEPT ![Url(c)].done = TRUE, ![Url(c)].Result = body]
  /\ call' = [d \in Callers |->
       IF d = c THEN [call[d] EXCEPT !.at = "unmap", !.body = body, !.err = err]
       ELSE IF d \in Waiters(c) THEN [call[d] EXCEPT !.at = "parse", !.body = body]
       ELSE call[d]]

\* Mutant: a request that fails does not release its waiters.
RequestUnreleased(c) ==
  /\ At(c, "request")
  /\ \/ \E a \in Answers(c) : Land(c, a[1], a[2]) /\ UNCHANGED left
     \/ \E a \in Failures(c) :
          /\ Becomes(c, [call[c] EXCEPT !.at = "unmap", !.body = a[1], !.err = a[2]])
          /\ Fault
          /\ UNCHANGED inflightMap
  /\ UNCHANGED <<world, Chaintip, rawtxs, proofs, late>>

\* Mutant: the waiters are released before the Result is set.
RequestEarly(c) ==
  /\ At(c, "request")
  /\ \E a \in Answers(c) :
       /\ inflightMap' = [inflightMap EXCEPT ![Url(c)].done = TRUE]
       /\ call' = [d \in Callers |->
            IF d = c THEN [call[d] EXCEPT !.at = "unmap", !.body = a[1], !.err = a[2]]
            ELSE IF d \in Waiters(c) THEN [call[d] EXCEPT !.at = "parse"]
            ELSE call[d]]
  /\ UNCHANGED <<world, Chaintip, rawtxs, proofs, late, left>>

Request(c) ==
  /\ At(c, "request")
  /\ \/ \E a \in Answers(c) : Land(c, a[1], a[2]) /\ UNCHANGED left
     \/ \E a \in Failures(c) : Land(c, a[1], a[2]) /\ Fault
  /\ UNCHANGED <<world, Chaintip, rawtxs, proofs, late>>

\* Under the lock again.
Unmap(c) ==
  /\ At(c, "unmap")
  /\ inflightMap' = [inflightMap EXCEPT ![Url(c)] = NoFlight]
  /\ Becomes(c, [call[c] EXCEPT !.at = "parse"])
  /\ UNCHANGED <<world, Chaintip, rawtxs, proofs, late, left>>

\* LoadTx on what the request returned.
ParseTx(c) ==
  /\ At(c, "parse")
  /\ call[c].res = "tx"
  /\ Becomes(c, CASE call[c].body.is = "good" -> [call[c] EXCEPT !.at = "store"]
                  [] call[c].body.is = "bad"  -> Fallback(call[c], "other")
                  [] call[c].body.is = "none" -> Fallback(call[c], call[c].err))
  /\ UNCHANGED <<world, Chaintip, rawtxs, proofs, inflightMap, late, left>>

\* LoadProof on what the request returned.
ParseProof(c) ==
  /\ At(c, "parse")
  /\ call[c].res = "prf"
  /\ Becomes(c, CASE call[c].body.is = "good" -> [call[c] EXCEPT !.at = "check"]
                  [] call[c].body.is = "bad"  -> ProofLoaded(call[c], "error")
                  [] call[c].body.is = "none" -> ProofLoaded(call[c], "nothing"))
  /\ UNCHANGED <<world, Chaintip, rawtxs, proofs, inflightMap, late, left>>

\* The node returns the transaction, or an error, or nothing at all.
Node(c) ==
  /\ At(c, "node")
  /\ \/ /\ Tx(c) \in known["node"]
        /\ Becomes(c, [call[c] EXCEPT !.at = "store", !.body = Rawtx])
        /\ UNCHANGED left
     \/ /\ Tx(c) \notin known["node"]
        /\ \E err \in {"nil", "other"} : Becomes(c, NotLoaded(call[c], err))
        /\ UNCHANGED left
     \/ /\ Becomes(c, NotLoaded(call[c], "other"))
        /\ Fault
  /\ UNCHANGED <<world, Chaintip, rawtxs, proofs, inflightMap, late>>

Store(c) ==
  /\ At(c, "store")
  /\ rawtxs' = [rawtxs EXCEPT ![Tx(c)] = call[c].body.is]
  /\ Becomes(c, Loaded(call[c]))
  /\ UNCHANGED <<world, Chaintip, proofs, inflightMap, late, left>>

\* LoadProof starts with the cache.
ReadProof(c) ==
  /\ At(c, "proof")
  /\ LET cached == proofs[Tx(c)].height
     IN  Becomes(c, IF cached # 0 THEN [call[c] EXCEPT !.at = "check", !.body = Proof(cached)]
                    ELSE IF "jb" \in providers THEN [call[c] EXCEPT !.at = "join"]
                    ELSE ProofLoaded(call[c], "nothing"))
  /\ UNCHANGED <<world, Chaintip, rawtxs, proofs, inflightMap, late, left>>

\* GetChaintip, which asks again only after five seconds.
Tips == {tip} \cup (IF Chaintip = 0 THEN {} ELSE {Chaintip})

Keep(c, kept) ==
  /\ proofs' = [proofs EXCEPT ![Tx(c)] = [height |-> call[c].body.height, kept |-> kept]]
  /\ late' = IF kept /\ chain[Tx(c)] # call[c].body.height THEN late \cup {Tx(c)} ELSE late
  /\ Becomes(c, ProofLoaded(call[c], "found"))

\* Mutant: one block less is enough to keep a proof.
CheckLoose(c) ==
  /\ At(c, "check")
  /\ Chaintip' \in Tips
  /\ Keep(c, call[c].body.height + Depth <= Chaintip')
  /\ UNCHANGED <<world, rawtxs, inflightMap, left>>

\* A proof below Depth blocks is stored for good, another for an hour.
Check(c) ==
  /\ At(c, "check")
  /\ \/ /\ Chaintip' \in Tips
        /\ Keep(c, call[c].body.height + Depth < Chaintip')
        /\ UNCHANGED left
     \/ /\ Becomes(c, ProofLoaded(call[c], "error"))
        /\ Fault
        /\ UNCHANGED <<Chaintip, proofs, late>>
  /\ UNCHANGED <<world, rawtxs, inflightMap>>

Return(c) ==
  /\ At(c, "done")
  /\ Becomes(c, Idle)
  /\ UNCHANGED <<world, Chaintip, rawtxs, proofs, inflightMap, late, left>>

Run(c) == \/ ReadCache(c) \/ Join(c) \/ Request(c) \/ Unmap(c)
          \/ ParseTx(c) \/ ParseProof(c) \/ Node(c) \/ Store(c)
          \/ ReadProof(c) \/ Check(c) \/ Return(c)

World == \/ \E p \in {"jb", "node"}, t \in Txids : Learn(p, t)
         \/ Extend
         \/ \E t \in Txids : Put(t) \/ Expire(t)

Next == \/ World
        \/ \E c \in Callers, t \in Txids, kind \in Kinds : Call(c, t, kind)
        \/ \E c \in Callers : Run(c)

Spec == Init /\ [][Next]_vars

(***************************************************************************)
(* Properties.                                                             *)
(***************************************************************************)

\* A URL is requested by one caller at a time, and the flight that is deleted
\* is the one of the caller that deletes it, never a later one that others
\* wait for.
SingleFlight ==
  \A c, d \in Callers :
    /\ call[c].at \in {"request", "unmap"} /\ call[d].at \in {"request", "unmap"}
    /\ Url(c) = Url(d)
    => c = d

\* As long as no request has failed, ErrNotFound is returned only when no
\* provider had the transaction as the call began, whether the caller asked or
\* waited for another caller (Knew excepts an older answer that is still mapped).
NotFoundWithoutFault ==
  \A c \in Callers : call[c].out = "not-found" /\ left = MaxFaults => ~call[c].knew

\* ErrNotFound is returned only when no provider had the transaction: other
\* errors (network, timeout) are errors (ingest.go:312).
NotFoundIsTrue ==
  \A c \in Callers : call[c].out = "not-found" => ~call[c].knew

\* A proof that was stored for good stays true: it was below Depth blocks of
\* the chain it belongs to, whatever arrives after it was checked.  Not when it
\* was undone between its request and its check, or in its hour in the cache.
KeptProofsHold ==
  \A t \in Txids \ late : proofs[t].kept => chain[t] = proofs[t].height

\* No waiter is left behind: as long as one waits, a caller is about to land the
\* flight of its URL, although flights of the same URL follow each other and a
\* caller may join between the landing of one and its end.
WaitersAreServed ==
  \A c \in Callers : At(c, "wait") => \E d \in Callers : At(d, "request") /\ Url(d) = Url(c)
=============================================================================
