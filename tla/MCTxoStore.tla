----------------------------- MODULE MCTxoStore -----------------------------
(* A coinbase g with one output, and a and b that both spend it; a has one
   output of its own. *)
EXTENDS TxoStore, TLC

CONSTANTS g, a, b, g0, a0, w1, w2

MCTxOf == (g0 :> g) @@ (a0 :> a)
MCIns == (g :> {}) @@ (a :> {g0}) @@ (b :> {g0})
Symmetric == Permutations(Worker)
=============================================================================
