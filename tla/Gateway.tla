------------------------------ MODULE Gateway ------------------------------
(***************************************************************************)
(* The websocket gateway of one API instance and its NATS subscriber, for  *)
(* one user.                                                               *)
(*                                                                         *)
(*   - internal/drivers/websocket: connections with bounded queues, the    *)
(*     state that the connections of a user share, shutdown;               *)
(*   - internal/resources/nats/realtime_subscriber: one subscription for   *)
(*     each such state, made in the background while the NATS connection   *)
(*     may break, and a health flag with an epoch.                         *)
(*                                                                         *)
(* Every mutex region of the code is one step, and so is every atomic      *)
(* read; what a goroutine has copied under a mutex and uses after it is a  *)
(* variable (failing, closing, pushing).  Events are numbered as they are  *)
(* published; 0 is the ready message.  A user state that failed is         *)
(* replaced by a new one, so there are several.                            *)
(***************************************************************************)
EXTENDS Naturals, Sequences, FiniteSets

CONSTANTS
  Connections,    \* websocket requests of the user
  States,         \* userState objects
  NoState,
  MaxEvents, MaxBreaks,   \* bounds: events published, breaks of the link,
  MaxBoth,                \* the two together,
  MaxEnded,               \* sessions that end
  MaxConnectionsPerUser, QueueMessages,
  MaxPending      \* SetPendingLimits: events that the NATS client holds

ASSUME GatewayAssumption ==
  /\ NoState \notin States
  /\ {MaxEvents, MaxBreaks, MaxBoth, MaxEnded, MaxConnectionsPerUser} \subseteq Nat
  /\ {QueueMessages, MaxPending} \subseteq Nat \ {0}

VARIABLES
  link,       \* "up"; "broken", which the client has not noticed yet; "down"
  breaks,     \* how often it broke
  callbacks,  \* handlers of the NATS client that wait to run fail
  epoch, healthy, listeners,  \* the subscriber's
  failing,    \* the listeners that a running fail has still to call
  current,    \* users[id]: the state that the next connection joins
  stage,      \* stage[s]: where prepare of s is, "new" before it
  seen,       \* seen[s]: the epoch that Subscribe read
  failed,     \* failed[s]
  sub,        \* sub[s]: "none", "sent" to the server, "registered" there
  inbox,      \* inbox[s]: events on their way to the handler of s
  pushing,    \* pushing[s]: the event that broadcast hands on, and to whom yet
  pc,         \* pc[c]: where the request of c is
  owner,      \* owner[c]: its userState
  stopped,    \* stopped[c]: stop is closed
  ready,      \* ready[c]: activated
  queue,      \* queue[c]
  written,    \* written[c]: what the client was sent
  closing,    \* connections on which requestClose is going to be called
  draining,
  published,  \* the number of events published
  since,      \* since[c]: the number published when c was activated
  ended       \* connections whose session has ended

natsVars == <<link, breaks, callbacks, epoch, healthy, listeners, failing>>
stateVars == <<current, stage, seen, failed, sub, inbox, pushing>>
connectionVars == <<pc, owner, stopped, ready, queue, written, since>>
vars == <<natsVars, stateVars, connectionVars, closing, draining, published, ended>>

Stages == {"new", "started", "loaded", "listening", "verified", "refused", "live",
           "dropping", "done"}

TypeOK ==
  /\ link \in {"up", "broken", "down"} /\ breaks \in 0..MaxBreaks
  /\ {callbacks, epoch} \subseteq Nat
  /\ {healthy, draining} \subseteq BOOLEAN
  /\ listeners \subseteq States /\ failing \subseteq States
  /\ current \in States \union {NoState}
  /\ stage \in [States -> Stages] /\ seen \in [States -> Nat]
  /\ failed \in [States -> BOOLEAN]
  /\ sub \in [States -> {"none", "sent", "registered"}]
  /\ inbox \in [States -> Seq(1..MaxEvents)] /\ \A s \in States : Len(inbox[s]) <= MaxPending
  /\ pushing \in [States -> [event : 0..MaxEvents, to : SUBSET Connections]]
  /\ pc \in [Connections -> {"new", "reserved", "waiting", "running", "gone"}]
  /\ owner \in [Connections -> States \union {NoState}]
  /\ {stopped, ready} \subseteq [Connections -> BOOLEAN]
  /\ {queue, written} \subseteq [Connections -> Seq(0..MaxEvents)]
  /\ \A c \in Connections : Len(queue[c]) <= QueueMessages
  /\ closing \subseteq Connections /\ ended \subseteq Connections
  /\ published \in 0..MaxEvents
  /\ since \in [Connections -> 0..MaxEvents]

Init ==
  /\ link = "up" /\ breaks = 0 /\ callbacks = 0 /\ epoch = 0 /\ healthy = FALSE
  /\ listeners = {} /\ failing = {}
  /\ current = NoState
  /\ stage = [s \in States |-> "new"] /\ seen = [s \in States |-> 0]
  /\ failed = [s \in States |-> FALSE]
  /\ sub = [s \in States |-> "none"] /\ inbox = [s \in States |-> <<>>]
  /\ pushing = [s \in States |-> [event |-> 0, to |-> {}]]
  /\ pc = [c \in Connections |-> "new"] /\ owner = [c \in Connections |-> NoState]
  /\ stopped = [c \in Connections |-> FALSE] /\ ready = [c \in Connections |-> FALSE]
  /\ queue = [c \in Connections |-> <<>>] /\ written = [c \in Connections |-> <<>>]
  /\ closing = {} /\ draining = FALSE /\ ended = {}
  /\ published = 0 /\ since = [c \in Connections |-> 0]

-----------------------------------------------------------------------------
Open(c) == pc[c] \notin {"new", "gone"}

OpenConnections == {c \in Connections : Open(c)}

\* The clients of a userState.
Clients(s) == {c \in OpenConnections : owner[c] = s}

Healthy == healthy /\ link # "down"

\* Mutant: failUser marks the state, for the next connection, and closes nothing.
FailWithoutClose(s) ==
  /\ failed' = [failed EXCEPT ![s] = TRUE]
  /\ UNCHANGED closing

failUser(s) ==
  /\ failed' = [failed EXCEPT ![s] = TRUE]
  /\ closing' = closing \union Clients(s)

requestClose(c) == stopped' = [stopped EXCEPT ![c] = TRUE]

\* subscription.Close: the listener goes, and the client drops what it holds.
CloseSubscription(s) ==
  /\ listeners' = listeners \ {s}
  /\ sub' = [sub EXCEPT ![s] = "none"]
  /\ inbox' = [inbox EXCEPT ![s] = <<>>]

Goto(s, place) == stage' = [stage EXCEPT ![s] = place]

-----------------------------------------------------------------------------
(* NATS: the dispatchers publish to the user's subject, the connection     *)
(* breaks, and the client calls fail from its handlers, one at a time.     *)

Overflowing(s) == Len(inbox[s]) >= MaxPending

\* Mutant: the client has no ErrorHandler.
Unreported(slow) == 0

\* The client reports each subscription that overflows.
Reported(slow) == Cardinality(slow)

Publish ==
  /\ published < MaxEvents /\ published + breaks < MaxBoth
  /\ published' = published + 1
  /\ LET served == {s \in States : sub[s] = "registered"}
         slow == {s \in served : Overflowing(s)}
     IN /\ inbox' = [s \in States |-> IF s \in served \ slow
                                      THEN Append(inbox[s], published') ELSE inbox[s]]
        /\ callbacks' = callbacks + Reported(slow)
  /\ UNCHANGED <<link, breaks, epoch, healthy, listeners, failing, current, stage, seen, failed,
                 sub, pushing, connectionVars, closing, draining, ended>>

\* The server forgets the subscriptions; the client has not noticed yet.
Break ==
  /\ link = "up" /\ breaks < MaxBreaks /\ published + breaks < MaxBoth
  /\ link' = "broken" /\ breaks' = breaks + 1
  /\ sub' = [s \in States |-> IF sub[s] = "registered" THEN "sent" ELSE sub[s]]
  /\ UNCHANGED <<callbacks, epoch, healthy, listeners, failing, current, stage, seen, failed,
                 inbox, pushing, connectionVars, closing, draining, published, ended>>

\* The client sees the break, then the new connection, and has a handler for each.
Relink(from, to) ==
  /\ link = from /\ link' = to
  /\ callbacks' = callbacks + 1
  /\ UNCHANGED <<breaks, epoch, healthy, listeners, failing, stateVars, connectionVars,
                 closing, draining, published, ended>>

Notice == Relink("broken", "down")
Reconnect == Relink("down", "up")

\* The server handles SUB, the first one or the one sent again.
Register(s) ==
  /\ link = "up" /\ sub[s] = "sent"
  /\ sub' = [sub EXCEPT ![s] = "registered"]
  /\ UNCHANGED <<natsVars, current, stage, seen, failed, inbox, pushing, connectionVars,
                 closing, draining, published, ended>>

\* fail, up to the end of its critical section; then it calls the listeners.
fail ==
  /\ callbacks > 0 /\ failing = {}
  /\ callbacks' = callbacks - 1
  /\ epoch' = epoch + 1
  /\ healthy' = FALSE
  /\ failing' = listeners
  /\ UNCHANGED <<link, breaks, listeners, stateVars, connectionVars, closing, draining,
                 published, ended>>

CallListener(s) ==
  /\ s \in failing
  /\ failing' = failing \ {s}
  /\ failUser(s)
  /\ UNCHANGED <<link, breaks, callbacks, epoch, healthy, listeners, current, stage, seen, sub,
                 inbox, pushing, connectionVars, draining, published, ended>>

\* monitor: a flush has succeeded and fail has not run in between.
BecomeHealthy ==
  /\ ~healthy /\ link # "down"
  /\ healthy' = TRUE
  /\ UNCHANGED <<link, breaks, callbacks, epoch, listeners, failing, stateVars, connectionVars,
                 closing, draining, published, ended>>

-----------------------------------------------------------------------------
(* prepare: the goroutine that subscribes for a userState.                 *)

PrepareStep(s) ==
  UNCHANGED <<link, breaks, callbacks, epoch, healthy, failing, current, pushing,
              connectionVars, draining, published, ended>>

\* The check of the health, and the epoch from which on it must not change.
LoadEpoch(s) ==
  /\ stage[s] = "started"
  /\ Goto(s, IF Healthy THEN "loaded" ELSE "refused")
  /\ seen' = [seen EXCEPT ![s] = epoch]
  /\ PrepareStep(s)
  /\ UNCHANGED <<failed, sub, inbox, listeners, closing>>

\* The listener comes first, so that no failure after this goes unheard.
Subscribe(s) ==
  /\ stage[s] = "loaded"
  /\ listeners' = listeners \union {s}
  /\ sub' = [sub EXCEPT ![s] = "sent"]
  /\ Goto(s, "listening")
  /\ PrepareStep(s)
  /\ UNCHANGED <<seen, failed, inbox, closing>>

\* The server has answered the flush that follows SUB.  A break between this answer
\* and the check is the break after the check, or a flush that fails.
Verify(s) ==
  /\ stage[s] = "listening" /\ sub[s] = "registered"
  /\ \/ Healthy /\ epoch = seen[s] /\ Goto(s, "verified") /\ UNCHANGED <<sub, inbox, listeners>>
     \/ ~(Healthy /\ epoch = seen[s]) /\ Goto(s, "refused") /\ CloseSubscription(s)
  /\ PrepareStep(s)
  /\ UNCHANGED <<seen, failed, closing>>

\* It does not answer in time, or the last client has gone.
FlushFails(s) ==
  /\ stage[s] = "listening"
  /\ Goto(s, "refused")
  /\ CloseSubscription(s)
  /\ PrepareStep(s)
  /\ UNCHANGED <<seen, failed, closing>>

\* Mutant: nobody looks whether the connections have gone in the meantime.
AbandonedOnlyFailed(s) == draining \/ failed[s] \/ ~Healthy

Abandoned(s) == Clients(s) = {} \/ draining \/ failed[s] \/ ~Healthy

\* Subscribe has returned; ready is closed in either case.
Complete(s) ==
  /\ \/ stage[s] = "verified" /\ ~Abandoned(s) /\ Goto(s, "live") /\ UNCHANGED failed
     \/ /\ stage[s] = "verified" /\ Abandoned(s)
        /\ Goto(s, "dropping")
        /\ failed' = [failed EXCEPT ![s] = TRUE]
     \/ /\ stage[s] = "refused"
        /\ Goto(s, "done")
        /\ failed' = [failed EXCEPT ![s] = TRUE]
  /\ PrepareStep(s)
  /\ seen' = [seen EXCEPT ![s] = 0]
  /\ UNCHANGED <<sub, inbox, listeners, closing>>

\* A subscription that nobody wants is closed outside the critical section.
Drop(s) ==
  /\ stage[s] = "dropping"
  /\ CloseSubscription(s)
  /\ Goto(s, "done")
  /\ PrepareStep(s)
  /\ UNCHANGED <<seen, failed, closing>>

-----------------------------------------------------------------------------
(* broadcast: the handler of a subscription, one event at a time.          *)

Deliver(s) ==
  /\ inbox[s] # <<>> /\ pushing[s].to = {}
  /\ inbox' = [inbox EXCEPT ![s] = Tail(@)]
  /\ pushing' = [pushing EXCEPT ![s] =
                   [event |-> IF failed[s] \/ Clients(s) = {} THEN 0 ELSE Head(inbox[s]),
                    to |-> IF failed[s] THEN {} ELSE Clients(s)]]
  /\ UNCHANGED <<natsVars, current, stage, seen, failed, sub, connectionVars, closing, draining,
                 published, ended>>

\* The event is too large or does not decode.
Reject(s) ==
  /\ inbox[s] # <<>> /\ pushing[s].to = {}
  /\ inbox' = [inbox EXCEPT ![s] = Tail(@)]
  /\ failUser(s)
  /\ UNCHANGED <<natsVars, current, stage, seen, sub, pushing, connectionVars, draining,
                 published, ended>>

Full(c) == Len(queue[c]) >= QueueMessages

\* enqueue refuses a connection that is stopped, and stops one whose queue is full.
Accepting(c) == Open(c) /\ ~stopped[c] /\ ~Full(c)

Overwhelmed(c) == Open(c) /\ ~stopped[c] /\ Full(c)

\* Mutant: the queue has no bound.
enqueueAlways(to, e) ==
  /\ queue' = [c \in Connections |-> IF c \in to /\ Open(c) /\ ~stopped[c]
                                     THEN Append(queue[c], e) ELSE queue[c]]
  /\ UNCHANGED stopped

\* Mutant: an event that finds the queue full is dropped.
enqueueOrDrop(to, e) ==
  /\ queue' = [c \in Connections |-> IF c \in to /\ Accepting(c) THEN Append(queue[c], e)
                                     ELSE queue[c]]
  /\ UNCHANGED stopped

enqueue(to, e) ==
  /\ queue' = [c \in Connections |-> IF c \in to /\ Accepting(c) THEN Append(queue[c], e)
                                     ELSE queue[c]]
  /\ stopped' = [c \in Connections |-> stopped[c] \/ (c \in to /\ Overwhelmed(c))]

\* The queues of different connections have nothing to do with each other: to hand the
\* event to all of them is one step.
Push(s) ==
  /\ pushing[s].to # {}
  /\ pushing' = [pushing EXCEPT ![s] = [event |-> 0, to |-> {}]]
  /\ enqueue(pushing[s].to, pushing[s].event)
  /\ UNCHANGED <<natsVars, current, stage, seen, failed, sub, inbox, pc, owner, ready, written,
                 since, closing, draining, published, ended>>

-----------------------------------------------------------------------------
(* A connection: ServeHTTP and run.                                        *)

Fresh(s) == \A c \in Connections : owner[c] # s

\* The state that a new connection joins: a new one in place of a failed one.
Joinable(s) ==
  IF current = NoState \/ failed[current] THEN Fresh(s) ELSE s = current

reserve(c, s) ==
  /\ pc[c] = "new" /\ ~draining /\ Healthy
  /\ Cardinality(OpenConnections) < MaxConnectionsPerUser
  /\ Joinable(s)
  /\ current' = s
  /\ owner' = [owner EXCEPT ![c] = s]
  /\ pc' = [pc EXCEPT ![c] = "reserved"]
  /\ UNCHANGED <<natsVars, stage, seen, failed, sub, inbox, pushing, stopped, ready, queue,
                 written, since, closing, draining, published, ended>>

\* Accept succeeds and run begins: the first connection of a state prepares it.
Start(c) ==
  /\ pc[c] = "reserved"
  /\ pc' = [pc EXCEPT ![c] = "waiting"]
  /\ IF stage[owner[c]] = "new" /\ ~draining THEN Goto(owner[c], "started") ELSE UNCHANGED stage
  /\ UNCHANGED <<natsVars, current, seen, failed, sub, inbox, pushing, owner, stopped, ready,
                 queue, written, since, closing, draining, published, ended>>

ReadyClosed(s) == stage[s] \in {"live", "dropping", "done"}

\* Mutant: the ready message is queued behind the events.
ReadyLast(q) == Append(q, 0)

ReadyFirst(q) == <<0>> \o q

activate(c) ==
  \/ Full(c) /\ requestClose(c) /\ UNCHANGED <<queue, ready, since>>
  \/ /\ ~Full(c)
     /\ queue' = [queue EXCEPT ![c] = ReadyFirst(@)]
     /\ ready' = [ready EXCEPT ![c] = TRUE]
     /\ since' = [since EXCEPT ![c] = published]
     /\ UNCHANGED stopped

\* run waits for ready, reads the outcome under the gateway's mutex and then activates
\* under the connection's: no step of another goroutine touches both, so this is one.
CheckReady(c) ==
  /\ pc[c] = "waiting" /\ ReadyClosed(owner[c])
  /\ pc' = [pc EXCEPT ![c] = "running"]
  /\ \/ /\ failed[owner[c]] \/ ~Healthy
        /\ requestClose(c)
        /\ UNCHANGED <<queue, ready, since>>
     \/ /\ ~failed[owner[c]] /\ Healthy
        /\ activate(c)
  /\ UNCHANGED <<natsVars, stateVars, owner, written, closing, draining, published, ended>>

Write(c) ==
  /\ Open(c) /\ ready[c] /\ ~stopped[c] /\ queue[c] # <<>>
  /\ written' = [written EXCEPT ![c] = Append(@, Head(queue[c]))]
  /\ queue' = [queue EXCEPT ![c] = Tail(@)]
  /\ UNCHANGED <<natsVars, stateVars, pc, owner, stopped, ready, since, closing, draining,
                 published, ended>>

Stop(c) ==
  /\ Open(c) /\ ~stopped[c]
  /\ requestClose(c)
  /\ UNCHANGED <<natsVars, stateVars, pc, owner, ready, queue, written, since, draining,
                 published, ended>>

\* The client leaves or speaks, a write or a ping fails, a timer ends.
CloseItself(c) == pc[c] # "reserved" /\ Stop(c) /\ UNCHANGED closing

\* monitorSessions finds the session ended.
CheckSession(c) == c \in ended /\ Stop(c) /\ UNCHANGED closing

\* It cannot read the sessions: no connection stays open unchecked.
SessionsUnread(c) == Stop(c) /\ UNCHANGED closing

\* failUser or Shutdown comes to this connection.
CloseNext(c) ==
  /\ c \in closing
  /\ closing' = closing \ {c}
  /\ requestClose(c)
  /\ UNCHANGED <<natsVars, stateVars, pc, owner, ready, queue, written, since, draining,
                 published, ended>>

\* Mutant: the last connection leaves the subscription behind.
Unsubscribed(s) == stage[s]

\* The last connection takes the subscription, if there is one yet, and closes it.
AfterLast(s) == IF stage[s] = "live" THEN "dropping" ELSE stage[s]

release(c) ==
  LET s == owner[c]
      last == Clients(s) = {c}
  IN /\ pc' = [pc EXCEPT ![c] = "gone"]
     /\ Goto(s, IF last THEN AfterLast(s) ELSE stage[s])
     /\ current' = IF last /\ current = s THEN NoState ELSE current
     /\ queue' = [queue EXCEPT ![c] = <<>>]
     /\ written' = [written EXCEPT ![c] = <<>>]
     /\ since' = [since EXCEPT ![c] = 0]
     /\ ready' = [ready EXCEPT ![c] = FALSE]
     /\ stopped' = [stopped EXCEPT ![c] = TRUE]
     /\ closing' = closing \ {c}
     /\ ended' = ended \ {c}
     /\ UNCHANGED <<natsVars, seen, failed, sub, inbox, pushing, owner,
                    draining, published>>

\* Accept fails, or run returns because stop is closed.
End(c) ==
  /\ pc[c] = "reserved" \/ (pc[c] \in {"waiting", "running"} /\ stopped[c])
  /\ release(c)

EndSession(c) ==
  /\ Open(c) /\ c \notin ended /\ Cardinality(ended) < MaxEnded
  /\ ended' = ended \union {c}
  /\ UNCHANGED <<natsVars, stateVars, connectionVars, closing, draining, published>>

Shutdown ==
  /\ ~draining
  /\ draining' = TRUE
  /\ closing' = closing \union OpenConnections
  /\ failed' = [s \in States |-> failed[s] \/ s = current]
  /\ UNCHANGED <<natsVars, current, stage, seen, sub, inbox, pushing, connectionVars, published,
                 ended>>

-----------------------------------------------------------------------------
(* The goroutines: prepare of a state, the handler of its subscription,    *)
(* the request of a connection.                                            *)

Prepare(s) ==
  LoadEpoch(s) \/ Subscribe(s) \/ Verify(s) \/ FlushFails(s) \/ Complete(s) \/ Drop(s)

Broadcast(s) == Deliver(s) \/ Push(s)

Run(c) == Start(c) \/ CheckReady(c) \/ End(c)

Next ==
  \/ Publish \/ Break \/ Notice \/ Reconnect \/ fail \/ BecomeHealthy \/ Shutdown
  \/ \E s \in States : Register(s) \/ CallListener(s) \/ Prepare(s) \/ Broadcast(s) \/ Reject(s)
  \/ \E c \in Connections, s \in States : reserve(c, s)
  \/ \E c \in Connections : Run(c) \/ Write(c) \/ CloseItself(c) \/ CheckSession(c)
                            \/ SessionsUnread(c) \/ CloseNext(c) \/ EndSession(c)

Spec == Init /\ [][Next]_vars

(* Goroutines run; the client library notices a break and calls its handlers; the      *)
(* monitor keeps looking at the sessions.  Nothing makes the link break, come back or  *)
(* carry events, and nobody has to connect, to leave or to shut the gateway down.      *)
FairSpec ==
  /\ Spec
  /\ WF_vars(Notice) /\ WF_vars(fail \/ \E s \in States : CallListener(s))
  /\ \A s \in States : WF_vars(Prepare(s)) /\ WF_vars(Broadcast(s) \/ Reject(s))
  /\ \A c \in Connections : /\ WF_vars(Run(c)) /\ WF_vars(Write(c))
                            /\ WF_vars(CheckSession(c)) /\ WF_vars(CloseNext(c))

-----------------------------------------------------------------------------
(* Properties.                                                             *)

\* Something that is bound to happen closes c.
Doomed(c) ==
  \/ stopped[c] \/ c \in closing \/ owner[c] \in failing
  \/ owner[c] \in listeners /\ (link # "up" \/ callbacks > 0)

\* What the client of c has been sent, and what is on its way to it in this process.
Stream(c) ==
  LET s == owner[c]
  IN written[c] \o queue[c]
       \o (IF c \in pushing[s].to THEN <<pushing[s].event>> ELSE <<>>)
       \o inbox[s]

Consecutive(q) == \A i \in 1..Len(q) : q[i] = q[1] + i - 1

\* A feed that is not going to be closed has every event from its activation on,
\* after the ready message, each once and in order: whatever the order in which a
\* break of the link, the failure handlers, the preparation of the shared
\* subscription, broadcasts and slow clients meet (hub.go, connection.go, subscriber.go).
NoSilentGap ==
  \A c \in OpenConnections :
    ready[c] /\ ~Doomed(c) =>
      LET events == Tail(Stream(c))
      IN /\ Head(Stream(c)) = 0
         /\ Consecutive(events)
         /\ IF events = <<>> THEN published = since[c]
            ELSE events[1] <= since[c] + 1 /\ events[Len(events)] = published

\* What a client is sent, even by a connection about to be closed, begins with the
\* ready message and goes up; nothing is sent before it (connection.go:59, hub.go:194).
FeedInOrder ==
  \A c \in OpenConnections :
    LET feed == written[c] \o queue[c]
    IN IF ready[c] THEN feed[1] = 0 /\ \A i, j \in 1..Len(feed) : i < j => feed[i] < feed[j]
       ELSE written[c] = <<>>

\* The connections of a user share one subscription: those that are not about to be
\* closed are in one state, which new ones join, and a subscription that stays open
\* has a connection that uses it (hub.go:119, hub.go:135, hub.go:161).
SharedSubscription ==
  /\ \A c \in OpenConnections : owner[c] = current \/ failed[owner[c]]
  /\ \A s \in States : sub[s] # "none" /\ stage[s] = "live" => Clients(s) # {}
  /\ \A s \in States : stage[s] \in {"new", "started", "done"} => sub[s] = "none"
  /\ \A s \in States : s \in listeners <=> sub[s] # "none"
  /\ current # NoState => Clients(current) # {}

\* An event published after the activation of a connection is written to it, unless
\* the connection is closed.
EveryFeedAdvances ==
  \A c \in Connections, e \in 1..MaxEvents :
    (Open(c) /\ ready[c] /\ since[c] < e /\ e <= published)
      ~> (pc[c] = "gone" \/ e \in {written[c][i] : i \in DOMAIN written[c]})

\* A connection of a session that has ended, of a state that failed, or that may have
\* missed an event, is closed.
DoomedIsClosed ==
  \A c \in Connections :
    (Open(c) /\ (Doomed(c) \/ c \in ended \/ failed[owner[c]])) ~> pc[c] = "gone"

\* Shutdown ends: every connection is closed, every subscription too (hub.go:233).
ShutdownCompletes ==
  draining ~> (OpenConnections = {} /\ \A s \in States : sub[s] = "none")
=============================================================================
