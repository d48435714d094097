--------------------------- MODULE MCEventStream ---------------------------
(* The stream of events with two sessions, which may ask for the same topic  *)
(* or for one that the loop is not subscribed to.                            *)
EXTENDS EventStream

CONSTANTS e1, e2
=============================================================================
