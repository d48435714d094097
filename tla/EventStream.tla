----------------------------- MODULE EventStream -----------------------------
(***************************************************************************)
(* Server-sent events (server/server.go, server/routes/sse): the handlers  *)
(* of the sessions register in the lists of their topics, and one loop     *)
(* hands each message of Redis to the sessions of its topic.               *)
(*                                                                         *)
(* The loop is subscribed to "block" from the start and would take further *)
(* subscriptions from the channels AddSubs and RemoveSubs of               *)
(* currentSessions.  Neither is ever made: a send to AddSubs waits for     *)
(* good, the two cases of the loop that receive are never ready, and they  *)
(* have no action here.  The loop of a handler has no exit either, so that *)
(* RemoveSession never runs.  Redis is external: it delivers messages of   *)
(* the channels that are subscribed, in any number.                        *)
(***************************************************************************)
EXTENDS Naturals, Sequences, FiniteSets

CONSTANTS
  Session,    \* requests to /v5/sse
  Topic,      \* topics that are asked for
  Subscribed  \* topics the loop is subscribed to: "block"

ASSUME SubscribedAssumption == Subscribed \subseteq Topic

VARIABLES
  asked,      \* asked[s]: the topics of the request, in its order
  topics,     \* Topics: the sessions registered for each topic, in order
  session,    \* session[s]: where the handler is
  mutex,      \* MU: the session that holds it, or {}
  newSubs,    \* newSubs[s]: topics for which s is the first session
  todo,       \* todo[s]: topics that s has left to register
  loop,       \* the sessions that the loop has left to hand its message to
  due         \* ghost: the registered sessions that asked for the topic of a
              \* message that was taken, and have not been handed one since

esVars == <<asked, topics, session, mutex, newSubs, todo, loop, due>>

\* "lock": waits for MU; "register": holds it; "subscribe": sends to AddSubs;
\* "listen": in the select of the handler, with its keep-alive.
Handler == {"none", "lock", "register", "subscribe", "listen"}

EsTypeOK ==
  /\ asked \in [Session -> Seq(Topic)] /\ todo \in [Session -> Seq(Topic)]
  /\ topics \in [Topic -> Seq(Session)]
  /\ session \in [Session -> Handler]
  /\ mutex \subseteq Session /\ Cardinality(mutex) <= 1
  /\ newSubs \in [Session -> SUBSET Topic]
  /\ loop \in Seq(Session)
  /\ due \subseteq Session

EsInit ==
  /\ asked = [s \in Session |-> <<>>] /\ todo = [s \in Session |-> <<>>]
  /\ topics = [t \in Topic |-> <<>>]
  /\ session = [s \in Session |-> "none"]
  /\ mutex = {} /\ newSubs = [s \in Session |-> {}]
  /\ loop = <<>> /\ due = {}

\* A request with one or two topics, of which one may be named twice.
Connect(s) ==
  /\ session[s] = "none"
  /\ \E ts \in [1..1 -> Topic] \cup [1..2 -> Topic] :
       asked' = [asked EXCEPT ![s] = ts] /\ todo' = [todo EXCEPT ![s] = ts]
  /\ session' = [session EXCEPT ![s] = "lock"]
  /\ UNCHANGED <<topics, mutex, newSubs, loop, due>>

Lock(s) ==
  /\ session[s] = "lock" /\ mutex = {} /\ mutex' = {s}
  /\ session' = [session EXCEPT ![s] = "register"]
  /\ UNCHANGED <<asked, topics, newSubs, todo, loop, due>>

\* The append to the list of a topic that has one changes a local variable.
Register(s) ==
  /\ session[s] = "register" /\ todo[s] # <<>>
  /\ LET t == Head(todo[s]) IN
       IF topics[t] = <<>>
       THEN /\ topics' = [topics EXCEPT ![t] = <<s>>]
            /\ newSubs' = [newSubs EXCEPT ![s] = @ \cup {t}]
       ELSE UNCHANGED <<topics, newSubs>>
  /\ todo' = [todo EXCEPT ![s] = Tail(@)]
  /\ UNCHANGED <<asked, session, mutex, loop, due>>

Unlock(s) ==
  /\ session[s] = "register" /\ todo[s] = <<>> /\ mutex' = {}
  /\ session' = [session EXCEPT ![s] = IF newSubs[s] = {} THEN "listen" ELSE "subscribe"]
  /\ UNCHANGED <<asked, topics, newSubs, todo, loop, due>>

\* The sessions that are registered for a topic, as they see it.
Registered(t) ==
  {s \in Session : /\ session[s] \in {"subscribe", "listen"}
                   /\ \E i \in DOMAIN asked[s] : asked[s][i] = t}

\* The loop takes a message of a topic it is subscribed to, and hands it to one
\* session of the list after the other, each of which it meets in its
\* StateChannel.
Loop ==
  /\ IF loop = <<>>
     THEN \E t \in Subscribed : loop' = topics[t] /\ due' = due \cup Registered(t)
     ELSE /\ session[Head(loop)] = "listen"
          /\ loop' = Tail(loop) /\ due' = due \ {Head(loop)}
  /\ UNCHANGED <<asked, topics, session, mutex, newSubs, todo>>

\* The loop reads Topics without MU: while a handler writes it, the runtime may
\* end the server.  All of this state is lost.
MapFault ==
  /\ loop = <<>> /\ Subscribed # {}
  /\ \E s \in mutex : todo[s] # <<>> /\ topics[Head(todo[s])] = <<>>
  /\ asked' = [s \in Session |-> <<>>] /\ todo' = [s \in Session |-> <<>>]
  /\ topics' = [t \in Topic |-> <<>>]
  /\ session' = [s \in Session |-> "none"]
  /\ mutex' = {} /\ newSubs' = [s \in Session |-> {}]
  /\ loop' = <<>> /\ due' = {}

EsNext ==
  \/ \E s \in Session : Connect(s)
  \/ \E s \in Session : Lock(s)
  \/ \E s \in Session : Register(s)
  \/ \E s \in Session : Unlock(s)
  \/ Loop \/ MapFault

EsSpec == EsInit /\ [][EsNext]_esVars

\* The loop and the handlers are goroutines, which run while they can.  Nobody
\* has to connect, and no message has to come.
EsFairness ==
  /\ WF_esVars(loop # <<>> /\ Loop)
  /\ \A s \in Session : WF_esVars(Lock(s) \/ Register(s) \/ Unlock(s))

EsFairSpec == EsSpec /\ EsFairness

\* server.go:131, "Subscribe to real-time updates via server-sent events": when
\* a message of a topic is taken, every session that is registered for it is
\* handed a message in the end, unless the server ends before.
UpdatesArrive == \A s \in Session : s \in due ~> s \notin due
=============================================================================
