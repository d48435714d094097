-------------------------------- MODULE Edges --------------------------------
(* The edges of the server: a subscription, through which transactions come  *)
(* in, and the stream of events that it sends out.  They share no state that *)
(* one reads of the other, so a behaviour runs one of them: part says which. *)
EXTENDS Subscription, EventStream

VARIABLE part
edgeVars == <<subVars, esVars, part>>

EdgesInit == SubInit /\ EsInit /\ part \in {"subscription", "stream"}

EdgesNext ==
  \/ part = "subscription" /\ SubNext /\ UNCHANGED <<esVars, part>>
  \/ part = "stream" /\ EsNext /\ UNCHANGED <<subVars, part>>

EdgesSpec == EdgesInit /\ [][EdgesNext]_edgeVars

\* Every variable of the two parts has its type.
EdgesTypeOK == SubTypeOK /\ EsTypeOK
=============================================================================
