--------------------------- MODULE GatewayProofs ---------------------------
(***************************************************************************)
(* For any sets of connections and of user states, any number of events    *)
(* and of breaks, and any bounds of the queues: a user's connections share *)
(* one subscription, a client is sent the ready message and then events    *)
(* that go up, and one that stays connected misses none.                   *)
(*                                                                         *)
(* A connection that does not run has left no trace (ConnectionsAreSound); *)
(* what a state does belongs to a stage of its life (StatesAreShared), and *)
(* the server knows its subscription from the answer to the flush on       *)
(* (SubscriptionsAreSound).  As long as no failure strikes a state, what a *)
(* connection was sent, what waits in its queue, what broadcast hands on   *)
(* and what the NATS client holds are, put together, all that was          *)
(* published from some event on (NothingMissed); and the parts follow one  *)
(* another (FeedsInOrder).  A failure that would make a gap stops every    *)
(* connection of the state first (FailedAreClosing).                       *)
(***************************************************************************)
EXTENDS Gateway, Integers, SequenceTheorems, FiniteSetTheorems, WellFoundedInduction, TLAPS

-----------------------------------------------------------------------------
(* Sequences of numbers that go up. *)

Rising(q) == \A i, j \in 1..Len(q) : i < j => q[i] < q[j]

Before(A, B) == \A x \in A, y \in B : x < y

LEMMA RangeOfEmpty == Range(<<>>) = {}
BY DEF Range

LEMMA RangeOfAppend ==
  ASSUME NEW S, NEW q \in Seq(S), NEW x \in S
  PROVE  Range(Append(q, x)) = Range(q) \union {x}
<1>1. <<x>> \in Seq(S) /\ Range(<<x>>) = {x}
  BY DEF Range
<1>2. Range(q \o <<x>>) = Range(q) \union Range(<<x>>)
  BY <1>1, RangeConcatenation
<1>3. Append(q, x) = q \o <<x>>
  BY AppendIsConcat
<1> QED
  BY <1>1, <1>2, <1>3, Zenon

LEMMA RangeOfTail ==
  ASSUME NEW S, NEW q \in Seq(S), q # <<>>
  PROVE  /\ Tail(q) \in Seq(S) /\ Head(q) \in S
         /\ Range(q) = {Head(q)} \union Range(Tail(q))
<1>1. /\ Tail(q) \in Seq(S) /\ Head(q) \in S /\ Head(q) = q[1]
      /\ Len(Tail(q)) = Len(q) - 1 /\ Len(q) \in Nat \ {0}
      /\ \A i \in 1..Len(Tail(q)) : Tail(q)[i] = q[i + 1]
  BY HeadTailProperties, EmptySeq
<1>2. Range(q) = {q[i] : i \in 1..Len(q)}
  BY RangeEquality
<1>3. Range(Tail(q)) = {Tail(q)[i] : i \in 1..Len(Tail(q))}
  BY <1>1, RangeEquality
<1>4. ASSUME NEW i \in 1..Len(q)
      PROVE  q[i] \in {Head(q)} \union Range(Tail(q))
  <2>1. CASE i = 1
    BY <1>1, <2>1
  <2>2. CASE i # 1
    <3>1. i - 1 \in 1..Len(Tail(q)) /\ (i - 1) + 1 = i
      BY <1>1, <2>2
    <3>2. Tail(q)[i - 1] = q[i]
      BY <1>1, <3>1
    <3> QED
      BY <1>3, <3>1, <3>2
  <2> QED
    BY <2>1, <2>2
<1>5. ASSUME NEW i \in 1..Len(Tail(q))
      PROVE  Tail(q)[i] \in Range(q)
  <2>1. i + 1 \in 1..Len(q) /\ Tail(q)[i] = q[i + 1]
    BY <1>1
  <2> QED
    BY <1>2, <2>1
<1>6. Head(q) \in Range(q)
  BY <1>1, <1>2
<1> QED
  BY <1>1, <1>2, <1>3, <1>4, <1>5, <1>6

LEMMA RisingConcat ==
  ASSUME NEW S \in SUBSET Nat, NEW p \in Seq(S), NEW q \in Seq(S),
         Rising(p), Rising(q), Before(Range(p), Range(q))
  PROVE  Rising(p \o q)
<1>1. /\ Len(p) \in Nat /\ Len(q) \in Nat /\ Len(p \o q) = Len(p) + Len(q)
      /\ \A i \in 1..(Len(p) + Len(q)) :
           (p \o q)[i] = IF i <= Len(p) THEN p[i] ELSE q[i - Len(p)]
  BY ConcatProperties, LenProperties
<1>2. /\ \A i \in 1..Len(p) : p[i] \in Range(p)
      /\ \A i \in 1..Len(q) : q[i] \in Range(q)
  BY RangeEquality
<1> SUFFICES ASSUME NEW i \in 1..(Len(p) + Len(q)), NEW j \in 1..(Len(p) + Len(q)), i < j
             PROVE  (p \o q)[i] < (p \o q)[j]
  BY <1>1 DEF Rising
<1>3. CASE j <= Len(p)
  <2>1. i \in 1..Len(p) /\ j \in 1..Len(p) /\ i <= Len(p)
    BY <1>1, <1>3
  <2>2. p[i] < p[j]
    BY <2>1 DEF Rising
  <2> QED
    BY <1>1, <1>3, <2>1, <2>2
<1>4. CASE i <= Len(p) /\ ~(j <= Len(p))
  <2>1. i \in 1..Len(p) /\ j - Len(p) \in 1..Len(q)
    BY <1>1, <1>4
  <2>2. p[i] < q[j - Len(p)]
    BY <1>2, <2>1 DEF Before
  <2> QED
    BY <1>1, <1>4, <2>2
<1>5. CASE ~(i <= Len(p)) /\ ~(j <= Len(p))
  <2>1. i - Len(p) \in 1..Len(q) /\ j - Len(p) \in 1..Len(q) /\ i - Len(p) < j - Len(p)
    BY <1>1, <1>5
  <2>2. q[i - Len(p)] < q[j - Len(p)]
    BY <2>1 DEF Rising
  <2> QED
    BY <1>1, <1>5, <2>2
<1>6. (j <= Len(p)) => (i <= Len(p))
  BY <1>1
<1> QED
  BY <1>3, <1>4, <1>5, <1>6

LEMMA RisingAppend ==
  ASSUME NEW S \in SUBSET Nat, NEW q \in Seq(S), NEW x \in S,
         Rising(q), Before(Range(q), {x})
  PROVE  Rising(Append(q, x))
<1>1. <<x>> \in Seq(S) /\ Range(<<x>>) = {x} /\ Rising(<<x>>)
  BY DEF Range, Rising
<1>2. Rising(q \o <<x>>)
  BY <1>1, RisingConcat
<1>3. Append(q, x) = q \o <<x>>
  BY AppendIsConcat
<1> QED
  BY <1>2, <1>3, Zenon

LEMMA RisingTail ==
  ASSUME NEW S \in SUBSET Nat, NEW q \in Seq(S), q # <<>>, Rising(q)
  PROVE  Rising(Tail(q)) /\ Before({Head(q)}, Range(Tail(q)))
<1>1. /\ Tail(q) \in Seq(S) /\ Head(q) = q[1]
      /\ Len(Tail(q)) = Len(q) - 1 /\ Len(q) \in Nat \ {0}
      /\ \A i \in 1..Len(Tail(q)) : Tail(q)[i] = q[i + 1]
  BY HeadTailProperties, EmptySeq
<1>2. ASSUME NEW i \in 1..Len(Tail(q)), NEW j \in 1..Len(Tail(q)), i < j
      PROVE  Tail(q)[i] < Tail(q)[j]
  <2>1. i + 1 \in 1..Len(q) /\ j + 1 \in 1..Len(q) /\ i + 1 < j + 1
    BY <1>1, <1>2
  <2>2. q[i + 1] < q[j + 1]
    BY <2>1 DEF Rising
  <2> QED
    BY <1>1, <2>2
<1>3. ASSUME NEW i \in 1..Len(Tail(q))
      PROVE  Head(q) < Tail(q)[i]
  <2>1. 1 \in 1..Len(q) /\ i + 1 \in 1..Len(q) /\ 1 < i + 1
    BY <1>1
  <2>2. q[1] < q[i + 1]
    BY <2>1 DEF Rising
  <2> QED
    BY <1>1, <2>2
<1>4. Range(Tail(q)) = {Tail(q)[i] : i \in 1..Len(Tail(q))}
  BY <1>1, RangeEquality
<1> QED
  BY <1>2, <1>3, <1>4 DEF Rising, Before

\* A set of numbers has a least one.
LEMMA LeastNumber ==
  ASSUME NEW N \in SUBSET Nat, N # {}
  PROVE  \E n \in N : \A m \in N : n <= m
<1>1. PICK n \in N : \A m \in N : ~(<<m, n>> \in OpToRel(<, Nat))
  BY NatLessThanWellFounded, WFMin
<1>2. \A m \in N : ~(m < n)
  BY <1>1 DEF OpToRel
<1> QED
  BY <1>2

\* A sequence that goes up and has every number from a to b counts them.
LEMMA RisingInterval ==
  ASSUME NEW S \in SUBSET Nat, NEW q \in Seq(S), NEW a \in Nat, NEW b \in Nat,
         Rising(q), Range(q) = a..b, q # <<>>
  PROVE  Consecutive(q) /\ q[1] = a /\ q[Len(q)] = b
<1>1. /\ Len(q) \in Nat \ {0}
      /\ \A i \in 1..Len(q) : q[i] \in Nat /\ a <= q[i] /\ q[i] <= b
      /\ \A x \in a..b : \E i \in 1..Len(q) : q[i] = x
  <2>1. Len(q) \in Nat \ {0}
    BY EmptySeq
  <2>2. Range(q) = {q[i] : i \in 1..Len(q)}
    BY RangeEquality
  <2>3. \A x \in a..b : x \in Nat /\ a <= x /\ x <= b
    OBVIOUS
  <2> QED
    BY <2>1, <2>2, <2>3
<1>2. ASSUME NEW i \in 1..Len(q), NEW j \in 1..Len(q)
      PROVE  i < j => q[i] < q[j]
  BY DEF Rising
<1>3. q[1] = a
  <2>1. 1 \in 1..Len(q) /\ a <= q[1] /\ q[1] <= b
    BY <1>1
  <2>2. a \in a..b
    BY <1>1, <2>1
  <2>3. PICK i \in 1..Len(q) : q[i] = a
    BY <1>1, <2>2
  <2>4. i = 1 \/ 1 < i
    OBVIOUS
  <2> QED
    BY <1>1, <1>2, <2>1, <2>3, <2>4
<1>4. q[Len(q)] = b
  <2>1. Len(q) \in 1..Len(q) /\ a <= q[Len(q)] /\ q[Len(q)] <= b
    BY <1>1
  <2>2. b \in a..b
    BY <1>1, <2>1
  <2>3. PICK i \in 1..Len(q) : q[i] = b
    BY <1>1, <2>2
  <2>4. i = Len(q) \/ i < Len(q)
    BY <1>1
  <2> QED
    BY <1>1, <1>2, <2>1, <2>3, <2>4
<1>5. ASSUME NEW i \in 1..Len(q), i + 1 <= Len(q)
      PROVE  q[i + 1] = q[i] + 1
  <2>1. i + 1 \in 1..Len(q) /\ q[i] < q[i + 1]
    BY <1>1, <1>2, <1>5
  <2>2. ASSUME q[i] + 1 < q[i + 1] PROVE FALSE
    <3>1. q[i] + 1 \in a..b
      BY <1>1, <2>1, <2>2
    <3>2. PICK k \in 1..Len(q) : q[k] = q[i] + 1
      BY <1>1, <3>1
    <3>3. k = i \/ k < i \/ k = i + 1 \/ i + 1 < k
      BY <1>1
    <3> QED
      BY <1>1, <1>2, <2>1, <2>2, <3>2, <3>3
  <2>3. q[i] \in Nat /\ q[i + 1] \in Nat
    BY <1>1, <2>1
  <2> QED
    BY <2>1, <2>2, <2>3
<1>6. Consecutive(q)
  <2> DEFINE Wrong == {i \in 1..Len(q) : q[i] # q[1] + i - 1}
  <2> SUFFICES ASSUME Wrong # {} PROVE FALSE
    BY DEF Consecutive
  <2>1. Wrong \subseteq Nat
    BY <1>1
  <2>2. PICK i \in Wrong : \A j \in Wrong : i <= j
    BY <2>1, LeastNumber
  <2>3. i \in 1..Len(q) /\ q[i] # q[1] + i - 1
    OBVIOUS
  <2>4. i # 1
    BY <1>1, <2>3
  <2>5. i - 1 \in 1..Len(q) /\ (i - 1) + 1 = i /\ (i - 1) + 1 <= Len(q) /\ ~(i <= i - 1)
    BY <1>1, <2>3, <2>4
  <2>6. q[i - 1] = q[1] + (i - 1) - 1
    BY <2>2, <2>5
  <2>7. q[i] = q[i - 1] + 1
    BY <1>5, <2>5
  <2>8. q[1] \in Nat /\ i \in Nat
    BY <1>1, <2>3
  <2>9. q[i] = q[1] + i - 1
    <3> HIDE DEF Wrong
    <3> QED
      BY <2>6, <2>7, <2>8
  <2> QED
    BY <2>3, <2>9
<1> QED
  BY <1>3, <1>4, <1>6

-----------------------------------------------------------------------------
(* The inductive invariant. *)

Early == {"new", "started", "loaded"}

Subscribed == {"listening", "verified", "live", "dropping"}

\* A connection that has not been made yet has left no trace; one that has belongs to a
\* state; an activated one runs, on a state that is prepared; and broadcast hands
\* events only to connections of its state.
ConnectionsAreSound ==
  \A c \in Connections :
    /\ pc[c] = "new" => /\ owner[c] = NoState /\ ~stopped[c] /\ c \notin closing
                        /\ queue[c] = <<>> /\ written[c] = <<>>
    /\ pc[c] # "new" => owner[c] \in States
    /\ ready[c] => pc[c] = "running" /\ ReadyClosed(owner[c])
    /\ \A s \in States : c \in pushing[s].to => owner[c] = s

\* The connections share a state, and a state has a listener and a subscription during
\* certain stages of its life.
StatesAreShared ==
  /\ \A c \in OpenConnections : owner[c] = current \/ failed[owner[c]]
  /\ current # NoState => Clients(current) # {}
  /\ IsFiniteSet(listeners)
  /\ \A s \in States :
       /\ s \in listeners <=> sub[s] # "none"
       /\ sub[s] # "none" <=> stage[s] \in Subscribed
       /\ stage[s] = "live" => Clients(s) # {}
       /\ stage[s] \in {"dropping", "done"} /\ ~failed[s] => Clients(s) = {}
       /\ stage[s] # "new" => ~Fresh(s)

\* Nobody has forgotten the connections of a state that failed.
FailedAreClosing ==
  \A c \in OpenConnections : ready[c] /\ failed[owner[c]] => stopped[c] \/ c \in closing

\* No failure of the link has struck or is about to strike the state.
Good(s) ==
  s \in listeners /\ s \notin failing /\ ~failed[s] /\ link = "up" /\ callbacks = 0

\* No event is on its way to the connections of the state.
Quiet(s) ==
  inbox[s] = <<>> /\ pushing[s].to = {} /\ \A c \in Clients(s) : queue[c] = <<>>

\* The server knows the subscription of a state that no failure strikes from the answer to
\* the flush on; before it does, nothing comes.
SubscriptionsAreSound ==
  \A s \in States :
    /\ sub[s] = "registered" => link = "up"
    /\ sub[s] = "none" => inbox[s] = <<>>
    /\ stage[s] \in Early => Quiet(s)
    /\ Good(s) /\ stage[s] \in {"verified", "live"} => sub[s] = "registered"
    /\ Good(s) /\ sub[s] = "sent" => Quiet(s)

\* The events that wait in the NATS client, behind the one that broadcast hands on.
EventsInOrder ==
  \A s \in States :
    /\ Rising(inbox[s]) /\ Range(inbox[s]) \subseteq 1..published
    /\ pushing[s].to # {} => /\ pushing[s].event \in 1..published
                             /\ Before({pushing[s].event}, Range(inbox[s]))

\* What the client of c was sent or will be from the queue; what comes after it.
Sent(c) == Range(written[c]) \union Range(queue[c])

Pushed(c) == IF c \in pushing[owner[c]].to THEN {pushing[owner[c]].event} ELSE {}

Coming(c) == Pushed(c) \union Range(inbox[owner[c]])

\* What FeedsInOrder says of one connection.
FeedIsInOrder(c) ==
  /\ Rising(written[c]) /\ Rising(queue[c])
  /\ Before(Range(written[c]), Range(queue[c]))
  /\ Before(Sent(c), Coming(c))
  /\ Sent(c) \subseteq 0..published
  /\ ready[c] => 0 \in Sent(c)
  /\ ~ready[c] => written[c] = <<>> /\ 0 \notin Range(queue[c])

\* Feeds go up from the ready message, and what comes is later than what was sent.
FeedsInOrder ==
  /\ \A c \in Connections : since[c] <= published
  /\ \A c \in OpenConnections : FeedIsInOrder(c)

\* E has every event from some event on, at the latest the one that follows e, up to n.
Covers(E, e, n) == \E a \in 1..(e + 1) : E = a..n

Events(c) == (Sent(c) \union Coming(c)) \ {0}

FeedIsComplete(c) == Covers(Events(c), IF ready[c] THEN since[c] ELSE published, published)

\* As long as no failure strikes a state, what its connections have, and what comes, is all
\* that was published from some event on.
NothingMissed ==
  \A s \in States :
    Good(s) => /\ Covers(Range(inbox[s]), published, published)
               /\ \A c \in Clients(s) : ~stopped[c] => FeedIsComplete(c)

IInv ==
  /\ TypeOK
  /\ ConnectionsAreSound
  /\ StatesAreShared
  /\ FailedAreClosing
  /\ SubscriptionsAreSound
  /\ EventsInOrder
  /\ FeedsInOrder
  /\ NothingMissed

-----------------------------------------------------------------------------
(* Type correctness. *)

\* TypeOK, by the parts of the state.
NatsTyped ==
  /\ link \in {"up", "broken", "down"} /\ breaks \in 0..MaxBreaks
  /\ callbacks \in Nat /\ epoch \in Nat /\ healthy \in BOOLEAN
  /\ listeners \subseteq States /\ failing \subseteq States

StatesTyped ==
  /\ current \in States \union {NoState}
  /\ stage \in [States -> Stages] /\ seen \in [States -> Nat]
  /\ failed \in [States -> BOOLEAN]
  /\ sub \in [States -> {"none", "sent", "registered"}]
  /\ inbox \in [States -> Seq(1..MaxEvents)] /\ \A s \in States : Len(inbox[s]) <= MaxPending
  /\ pushing \in [States -> [event : 0..MaxEvents, to : SUBSET Connections]]

ConnectionsTyped ==
  /\ pc \in [Connections -> {"new", "reserved", "waiting", "running", "gone"}]
  /\ owner \in [Connections -> States \union {NoState}]
  /\ stopped \in [Connections -> BOOLEAN] /\ ready \in [Connections -> BOOLEAN]
  /\ queue \in [Connections -> Seq(0..MaxEvents)]
  /\ written \in [Connections -> Seq(0..MaxEvents)]
  /\ \A c \in Connections : Len(queue[c]) <= QueueMessages
  /\ since \in [Connections -> 0..MaxEvents]

OthersTyped ==
  /\ closing \subseteq Connections /\ ended \subseteq Connections
  /\ draining \in BOOLEAN /\ published \in 0..MaxEvents

TypesUnchanged ==
  /\ UNCHANGED natsVars => NatsTyped'
  /\ UNCHANGED stateVars => StatesTyped'
  /\ UNCHANGED connectionVars => ConnectionsTyped'
  /\ UNCHANGED <<closing, ended, draining, published>> => OthersTyped'

LEMMA Typed ==
  /\ TypeOK <=> NatsTyped /\ StatesTyped /\ ConnectionsTyped /\ OthersTyped
  /\ TypeOK' <=> NatsTyped' /\ StatesTyped' /\ ConnectionsTyped' /\ OthersTyped'
  /\ TypeOK => TypesUnchanged
<1>1. TypeOK <=> NatsTyped /\ StatesTyped /\ ConnectionsTyped /\ OthersTyped
  BY DEF TypeOK, NatsTyped, StatesTyped, ConnectionsTyped, OthersTyped
<1>2. TypeOK' <=> NatsTyped' /\ StatesTyped' /\ ConnectionsTyped' /\ OthersTyped'
  BY DEF TypeOK, NatsTyped, StatesTyped, ConnectionsTyped, OthersTyped
<1>3. ASSUME TypeOK PROVE TypesUnchanged
  <2>1. UNCHANGED natsVars => NatsTyped'
    BY <1>1, <1>3 DEF NatsTyped, natsVars
  <2>2. UNCHANGED stateVars => StatesTyped'
    BY <1>1, <1>3 DEF StatesTyped, stateVars
  <2>3. UNCHANGED connectionVars => ConnectionsTyped'
    BY <1>1, <1>3 DEF ConnectionsTyped, connectionVars
  <2>4. UNCHANGED <<closing, ended, draining, published>> => OthersTyped'
    BY <1>1, <1>3 DEF OthersTyped
  <2> QED
    BY <2>1, <2>2, <2>3, <2>4 DEF TypesUnchanged
<1> QED
  BY <1>1, <1>2, <1>3

\* An open connection belongs to a state.
LEMMA OwnerIsState ==
  ASSUME ConnectionsAreSound, NEW c \in Connections, Open(c)
  PROVE  owner[c] \in States
BY DEF ConnectionsAreSound, Open

\* The subscriptions that overflow at once are finitely many.
LEMMA ReportedIsNumber ==
  ASSUME StatesAreShared, NEW slow \in SUBSET {s \in States : sub[s] = "registered"}
  PROVE  Reported(slow) \in Nat /\ (slow # {} => Reported(slow) > 0)
<1>1. slow \subseteq listeners /\ IsFiniteSet(listeners)
  BY DEF StatesAreShared
<1>2. IsFiniteSet(slow)
  BY <1>1, FS_Subset
<1>3. Cardinality(slow) \in Nat /\ (Cardinality(slow) = 0 <=> slow = {})
  BY <1>2, FS_CardinalityType, FS_EmptySet
<1> QED
  BY <1>3 DEF Reported

LEMMA PublishTyped ==
  ASSUME TypeOK, StatesAreShared, Publish
  PROVE  TypeOK'
<1> DEFINE served == {s \in States : sub[s] = "registered"}
           slow == {s \in served : Overflowing(s)}
<1>1. Reported(slow) \in Nat
  BY ReportedIsNumber
<1>2. callbacks' \in Nat
  <2>1. callbacks' = callbacks + Reported(slow) /\ callbacks \in Nat
    BY DEF Publish, TypeOK
  <2> HIDE DEF slow
  <2> QED
    BY <1>1, <2>1
<1>3. published' \in 1..MaxEvents /\ published' \in 0..MaxEvents
  BY GatewayAssumption DEF Publish, TypeOK
<1>4. ASSUME NEW s \in States
      PROVE  inbox'[s] \in Seq(1..MaxEvents) /\ Len(inbox'[s]) <= MaxPending
  <2>1. inbox[s] \in Seq(1..MaxEvents) /\ Len(inbox[s]) <= MaxPending /\ Len(inbox[s]) \in Nat
    BY LenProperties DEF TypeOK
  <2>2. \/ inbox'[s] = inbox[s]
        \/ inbox'[s] = Append(inbox[s], published') /\ ~(Len(inbox[s]) >= MaxPending)
    BY DEF Publish, Overflowing
  <2>3. Append(inbox[s], published') \in Seq(1..MaxEvents)
        /\ Len(Append(inbox[s], published')) = Len(inbox[s]) + 1
    BY <1>3, <2>1, AppendProperties
  <2>4. MaxPending \in Nat
    BY GatewayAssumption
  <2>5. CASE inbox'[s] = inbox[s]
    BY <2>1, <2>5
  <2>6. CASE inbox'[s] = Append(inbox[s], published') /\ ~(Len(inbox[s]) >= MaxPending)
    <3>1. Len(inbox'[s]) = Len(inbox[s]) + 1
      BY <2>3, <2>6
    <3>2. Len(inbox'[s]) <= MaxPending
      BY <2>1, <2>4, <2>6, <3>1
    <3> QED
      BY <2>3, <2>6, <3>2, Zenon
  <2> QED
    BY <2>2, <2>5, <2>6
<1>5. inbox' \in [States -> Seq(1..MaxEvents)]
  <2>1. \E f \in {inbox'} : f = [s \in States |-> f[s]]
    BY DEF Publish
  <2> QED
    BY <1>4, <2>1
<1> QED
  BY <1>2, <1>3, <1>4, <1>5 DEF Publish, TypeOK, connectionVars

\* The link and the client's handlers.
LEMMA LinkTyped ==
  ASSUME TypeOK,
         \/ Break \/ Notice \/ Reconnect \/ fail \/ BecomeHealthy
         \/ \E s \in States : Register(s) \/ CallListener(s)
  PROVE  TypeOK'
<1> USE GatewayAssumption, Typed DEF TypesUnchanged
<1>1. CASE Break
  BY <1>1 DEF Break, NatsTyped, StatesTyped
<1>2. CASE Notice \/ Reconnect
  BY <1>2 DEF Notice, Reconnect, Relink, NatsTyped
<1>3. CASE fail
  <2>1. callbacks \in Nat /\ callbacks > 0 /\ callbacks' = callbacks - 1
    BY <1>3 DEF fail, NatsTyped
  <2>2. callbacks' \in Nat
    BY <2>1
  <2>3. epoch \in Nat /\ epoch' = epoch + 1
    BY <1>3 DEF fail, NatsTyped
  <2>4. epoch' \in Nat
    BY <2>3
  <2>5. NatsTyped'
    BY <1>3, <2>2, <2>4 DEF fail, NatsTyped
  <2> QED
    BY <1>3, <2>5 DEF fail
<1>4. CASE BecomeHealthy
  BY <1>4 DEF BecomeHealthy, NatsTyped
<1>5. ASSUME NEW s \in States, Register(s)
      PROVE  TypeOK'
  BY <1>5 DEF Register, StatesTyped
<1>6. ASSUME NEW s \in States, CallListener(s)
      PROVE  TypeOK'
  BY <1>6 DEF CallListener, failUser, Clients, OpenConnections, NatsTyped, StatesTyped, OthersTyped
<1> QED
  BY <1>1, <1>2, <1>3, <1>4, <1>5, <1>6

\* The preparation of a state.
LEMMA PrepareTyped ==
  ASSUME TypeOK, NEW s \in States, Prepare(s)
  PROVE  TypeOK'
<1> USE Typed DEF TypesUnchanged, PrepareStep
<1>1. CASE LoadEpoch(s)
  BY <1>1 DEF LoadEpoch, Goto, Stages, NatsTyped, StatesTyped, OthersTyped
<1>2. CASE Subscribe(s)
  BY <1>2 DEF Subscribe, Goto, Stages, NatsTyped, StatesTyped, OthersTyped
<1>3. CASE Complete(s)
  BY <1>3 DEF Complete, Goto, Stages, NatsTyped, StatesTyped, OthersTyped
<1>4. CASE Verify(s) \/ FlushFails(s) \/ Drop(s)
  <2>1. CASE CloseSubscription(s)
    <3>1. <<>> \in Seq(1..MaxEvents) /\ Len(<<>>) <= MaxPending
      BY GatewayAssumption
    <3>2. /\ inbox' \in [States -> Seq(1..MaxEvents)]
          /\ \A t \in States : Len(inbox'[t]) <= MaxPending
      BY <2>1, <3>1 DEF CloseSubscription, StatesTyped
    <3>3. sub' \in [States -> {"none", "sent", "registered"}] /\ listeners' \subseteq States
      BY <2>1 DEF CloseSubscription, StatesTyped, NatsTyped
    <3>4. stage' \in [States -> Stages]
      BY <1>4 DEF Verify, FlushFails, Drop, Goto, Stages, StatesTyped
    <3>5. UNCHANGED <<link, breaks, callbacks, epoch, healthy, failing, current, pushing,
                      connectionVars, draining, published, ended, seen, failed, closing>>
      BY <1>4 DEF Verify, FlushFails, Drop
    <3> QED
      BY <3>2, <3>3, <3>4, <3>5 DEF NatsTyped, StatesTyped, OthersTyped
  <2>2. CASE UNCHANGED <<sub, inbox, listeners>>
    BY <1>4, <2>2 DEF Verify, FlushFails, Drop, Goto, Stages, NatsTyped, StatesTyped, OthersTyped
  <2> QED
    BY <1>4, <2>1, <2>2 DEF Verify, FlushFails, Drop
<1> QED
  BY <1>1, <1>2, <1>3, <1>4 DEF Prepare

\* broadcast.
LEMMA BroadcastTyped ==
  ASSUME TypeOK, NEW s \in States, Broadcast(s) \/ Reject(s)
  PROVE  TypeOK'
<1> USE Typed DEF TypesUnchanged
<1>1. ASSUME inbox[s] # <<>>, inbox' = [inbox EXCEPT ![s] = Tail(@)]
      PROVE  /\ inbox' \in [States -> Seq(1..MaxEvents)]
             /\ \A t \in States : Len(inbox'[t]) <= MaxPending
             /\ Head(inbox[s]) \in 0..MaxEvents
  <2>1. /\ Tail(inbox[s]) \in Seq(1..MaxEvents) /\ Head(inbox[s]) \in 1..MaxEvents
        /\ Len(Tail(inbox[s])) = Len(inbox[s]) - 1 /\ Len(inbox[s]) \in Nat
        /\ Len(inbox[s]) <= MaxPending
    BY <1>1, HeadTailProperties, LenProperties DEF StatesTyped
  <2>2. Len(Tail(inbox[s])) <= MaxPending /\ Head(inbox[s]) \in 0..MaxEvents
    BY <2>1, GatewayAssumption
  <2> QED
    BY <1>1, <2>1, <2>2 DEF StatesTyped
<1>2. CASE Deliver(s)
  <2>1. pushing' \in [States -> [event : 0..MaxEvents, to : SUBSET Connections]]
    <3>1. 0 \in 0..MaxEvents
      BY GatewayAssumption
    <3> QED
      BY <1>1, <1>2, <3>1 DEF Deliver, StatesTyped, Clients, OpenConnections
  <2> QED
    BY <1>1, <1>2, <2>1 DEF Deliver, StatesTyped
<1>3. CASE Reject(s)
  BY <1>1, <1>3 DEF Reject, failUser, Clients, OpenConnections, StatesTyped, OthersTyped
<1>4. CASE Push(s)
  <2>1. pushing' \in [States -> [event : 0..MaxEvents, to : SUBSET Connections]]
    BY <1>4, GatewayAssumption DEF Push, StatesTyped
  <2>2. pushing[s].event \in 0..MaxEvents
    BY DEF StatesTyped
  <2>3. ASSUME NEW c \in Connections
        PROVE  queue'[c] \in Seq(0..MaxEvents) /\ Len(queue'[c]) <= QueueMessages
    <3>1. queue[c] \in Seq(0..MaxEvents) /\ Len(queue[c]) <= QueueMessages /\ Len(queue[c]) \in Nat
      BY LenProperties DEF ConnectionsTyped
    <3>2. \/ queue'[c] = queue[c]
          \/ queue'[c] = Append(queue[c], pushing[s].event) /\ ~(Len(queue[c]) >= QueueMessages)
      BY <1>4 DEF Push, enqueue, Accepting, Full
    <3>3. Append(queue[c], pushing[s].event) \in Seq(0..MaxEvents)
          /\ Len(Append(queue[c], pushing[s].event)) = Len(queue[c]) + 1
      BY <2>2, <3>1, AppendProperties
    <3>4. QueueMessages \in Nat
      BY GatewayAssumption
    <3>5. CASE queue'[c] = queue[c]
      BY <3>1, <3>5
    <3>6. CASE queue'[c] = Append(queue[c], pushing[s].event) /\ ~(Len(queue[c]) >= QueueMessages)
      <4>1. Len(queue'[c]) = Len(queue[c]) + 1
        BY <3>3, <3>6
      <4>2. Len(queue'[c]) <= QueueMessages
        BY <3>1, <3>4, <3>6, <4>1
      <4> QED
        BY <3>3, <3>6, <4>2, Zenon
    <3> QED
      BY <3>2, <3>5, <3>6
  <2>4. queue' \in [Connections -> Seq(0..MaxEvents)]
    <3>1. \E f \in {queue'} : f = [c \in Connections |-> f[c]]
      BY <1>4 DEF Push, enqueue
    <3> QED
      BY <2>3, <3>1
  <2>5. stopped' \in [Connections -> BOOLEAN]
    BY <1>4 DEF Push, enqueue
  <2> QED
    BY <1>4, <2>1, <2>3, <2>4, <2>5 DEF Push, StatesTyped, ConnectionsTyped
<1> QED
  BY <1>2, <1>3, <1>4 DEF Broadcast

\* The requests.
LEMMA ConnectionTyped ==
  ASSUME TypeOK, ConnectionsAreSound, NEW c \in Connections,
         \/ \E s \in States : reserve(c, s)
         \/ Run(c) \/ Write(c) \/ CloseItself(c) \/ CheckSession(c) \/ SessionsUnread(c)
         \/ CloseNext(c) \/ EndSession(c)
  PROVE  TypeOK'
<1> USE Typed DEF TypesUnchanged
<1>1. ASSUME NEW s \in States, reserve(c, s)
      PROVE  TypeOK'
  BY <1>1 DEF reserve, StatesTyped, ConnectionsTyped
<1>2. CASE Start(c)
  BY <1>2 DEF Start, Goto, Stages, StatesTyped, ConnectionsTyped
<1>3. CASE CheckReady(c)
  <2>1. CASE requestClose(c) /\ UNCHANGED <<queue, ready, since>>
    BY <1>3, <2>1 DEF CheckReady, requestClose, ConnectionsTyped
  <2>2. CASE ~Full(c) /\ activate(c) /\ UNCHANGED stopped
    <3>1. queue[c] \in Seq(0..MaxEvents) /\ <<0>> \in Seq(0..MaxEvents) /\ Len(<<0>>) = 1
      BY GatewayAssumption DEF ConnectionsTyped
    <3>2. ReadyFirst(queue[c]) \in Seq(0..MaxEvents) /\ Len(ReadyFirst(queue[c])) = 1 + Len(queue[c])
      BY <3>1, ConcatProperties DEF ReadyFirst
    <3>3. Len(queue[c]) \in Nat /\ ~(Len(queue[c]) >= QueueMessages) /\ QueueMessages \in Nat
      BY <2>2, <3>1, LenProperties, GatewayAssumption DEF Full
    <3>4. Len(ReadyFirst(queue[c])) <= QueueMessages
      BY <3>2, <3>3
    <3>5. queue' = [queue EXCEPT ![c] = ReadyFirst(queue[c])]
      BY <2>2 DEF activate
    <3>6. /\ queue' \in [Connections -> Seq(0..MaxEvents)]
          /\ \A d \in Connections : Len(queue'[d]) <= QueueMessages
      <4> HIDE DEF ReadyFirst
      <4> QED
        BY <3>2, <3>4, <3>5 DEF ConnectionsTyped
    <3>7. since' \in [Connections -> 0..MaxEvents] /\ ready' \in [Connections -> BOOLEAN]
      BY <2>2 DEF activate, ConnectionsTyped, OthersTyped
    <3>8. ConnectionsTyped'
      BY <1>3, <2>2, <3>6, <3>7 DEF CheckReady, ConnectionsTyped
    <3> QED
      BY <1>3, <3>8 DEF CheckReady
  <2> QED
    BY <1>3, <2>1, <2>2 DEF CheckReady, activate, requestClose
<1>4. CASE End(c)
  <2>1. owner[c] \in States
    BY <1>4, OwnerIsState DEF End, Open
  <2>2. <<>> \in Seq(0..MaxEvents) /\ Len(<<>>) <= QueueMessages /\ 0 \in 0..MaxEvents
    BY GatewayAssumption
  <2>3. ConnectionsTyped'
    BY <1>4, <2>2 DEF End, release, ConnectionsTyped
  <2>4. StatesTyped' /\ OthersTyped'
    BY <1>4, <2>1 DEF End, release, Goto, AfterLast, Stages, StatesTyped, OthersTyped
  <2> QED
    BY <1>4, <2>3, <2>4 DEF End, release
<1>5. CASE Write(c)
  <2>1. /\ queue[c] \in Seq(0..MaxEvents) /\ written[c] \in Seq(0..MaxEvents)
        /\ queue[c] # <<>> /\ Len(queue[c]) <= QueueMessages
    BY <1>5 DEF Write, ConnectionsTyped
  <2>2. /\ Tail(queue[c]) \in Seq(0..MaxEvents) /\ Head(queue[c]) \in 0..MaxEvents
        /\ Len(Tail(queue[c])) = Len(queue[c]) - 1 /\ Len(queue[c]) \in Nat
    BY <2>1, HeadTailProperties, LenProperties
  <2>3. Len(Tail(queue[c])) <= QueueMessages
    BY <2>1, <2>2, GatewayAssumption
  <2>4. Append(written[c], Head(queue[c])) \in Seq(0..MaxEvents)
    BY <2>1, <2>2, AppendProperties
  <2>5. ConnectionsTyped'
    BY <1>5, <2>2, <2>3, <2>4 DEF Write, ConnectionsTyped
  <2> QED
    BY <1>5, <2>5 DEF Write
<1>6. CASE CloseItself(c) \/ CheckSession(c) \/ SessionsUnread(c)
  <2>1. Stop(c) /\ UNCHANGED closing
    BY <1>6 DEF CloseItself, CheckSession, SessionsUnread
  <2> QED
    BY <2>1 DEF Stop, requestClose, ConnectionsTyped
<1>7. CASE CloseNext(c)
  BY <1>7 DEF CloseNext, requestClose, ConnectionsTyped, OthersTyped
<1>8. CASE EndSession(c)
  BY <1>8 DEF EndSession, OthersTyped
<1> QED
  BY <1>1, <1>2, <1>3, <1>4, <1>5, <1>6, <1>7, <1>8 DEF Run

LEMMA ShutdownTyped ==
  ASSUME TypeOK, Shutdown
  PROVE  TypeOK'
BY Typed DEF TypesUnchanged, Shutdown, OpenConnections, StatesTyped, OthersTyped

\* Every step preserves the types.
LEMMA NextTyped ==
  ASSUME IInv, [Next]_vars
  PROVE  TypeOK'
<1> USE DEF IInv
<1>1. CASE UNCHANGED vars
  BY <1>1, Typed DEF TypesUnchanged, vars
<1>2. CASE Publish
  BY <1>2, PublishTyped
<1>3. CASE Break \/ Notice \/ Reconnect \/ fail \/ BecomeHealthy
  BY <1>3, LinkTyped
<1>4. CASE Shutdown
  BY <1>4, ShutdownTyped
<1>5. ASSUME NEW s \in States, Register(s) \/ CallListener(s)
      PROVE  TypeOK'
  BY <1>5, LinkTyped
<1>6. ASSUME NEW s \in States, Prepare(s)
      PROVE  TypeOK'
  BY <1>6, PrepareTyped
<1>7. ASSUME NEW s \in States, Broadcast(s) \/ Reject(s)
      PROVE  TypeOK'
  BY <1>7, BroadcastTyped
<1>8. ASSUME NEW c \in Connections,
             \/ \E s \in States : reserve(c, s)
             \/ Run(c) \/ Write(c) \/ CloseItself(c) \/ CheckSession(c) \/ SessionsUnread(c)
             \/ CloseNext(c) \/ EndSession(c)
      PROVE  TypeOK'
  BY <1>8, ConnectionTyped
<1> QED
  BY <1>1, <1>2, <1>3, <1>4, <1>5, <1>6, <1>7, <1>8 DEF Next

-----------------------------------------------------------------------------
(* Connections are sound. *)

LEMMA PrepareConnections ==
  ASSUME TypeOK, ConnectionsAreSound, NEW s \in States, Prepare(s)
  PROVE  ConnectionsAreSound'
<1>1. \A t \in States : ReadyClosed(t) => ReadyClosed(t)'
  BY Typed DEF Prepare, LoadEpoch, Subscribe, Verify, FlushFails, Complete, Drop, Goto,
               ReadyClosed, StatesTyped
<1>2. UNCHANGED <<pc, owner, stopped, closing, queue, written, ready, pushing>>
  BY DEF Prepare, LoadEpoch, Subscribe, Verify, FlushFails, Complete, Drop, PrepareStep,
         connectionVars
<1> QED
  BY <1>1, <1>2 DEF ConnectionsAreSound

LEMMA BroadcastConnections ==
  ASSUME TypeOK, ConnectionsAreSound, NEW s \in States,
         Broadcast(s) \/ Reject(s) \/ CallListener(s)
  PROVE  ConnectionsAreSound'
<1> USE DEF ConnectionsAreSound, ReadyClosed, Clients, OpenConnections, Open
<1>1. CASE Reject(s) \/ CallListener(s)
  BY <1>1 DEF Reject, CallListener, failUser, connectionVars
<1>2. CASE Deliver(s)
  <2>1. \A t \in States : t # s => pushing'[t] = pushing[t]
    BY <1>2, Typed DEF Deliver, StatesTyped
  <2>2. pushing'[s].to = IF failed[s] THEN {} ELSE Clients(s)
    BY <1>2, Typed DEF Deliver, StatesTyped
  <2>3. \A t \in States : \A c \in pushing'[t].to : c \in pushing[t].to \/ owner[c] = t
    <3>1. \A c \in pushing'[s].to : owner[c] = s
      BY <2>2
    <3> QED
      BY <2>1, <3>1
  <2> QED
    BY <1>2, <2>3 DEF Deliver, connectionVars
<1>3. CASE Push(s)
  <2>1. \A t \in States : pushing'[t].to \subseteq pushing[t].to
    BY <1>3, Typed DEF Push, StatesTyped
  <2>2. \A c \in Connections :
          pc[c] = "new" => queue'[c] = queue[c] /\ (stopped'[c] => stopped[c])
    BY <1>3 DEF Push, enqueue, Accepting, Overwhelmed
  <2> QED
    BY <1>3, <2>1, <2>2 DEF Push
<1> QED
  BY <1>1, <1>2, <1>3 DEF Broadcast

LEMMA RequestsConnections ==
  ASSUME TypeOK, ConnectionsAreSound, NEW c \in Connections,
         \/ \E s \in States : reserve(c, s)
         \/ Run(c) \/ Write(c) \/ CloseItself(c) \/ CheckSession(c) \/ SessionsUnread(c)
         \/ CloseNext(c) \/ EndSession(c)
  PROVE  ConnectionsAreSound'
<1> USE Typed DEF ConnectionsAreSound, ReadyClosed
<1>1. ASSUME NEW s \in States, reserve(c, s)
      PROVE  ConnectionsAreSound'
  <2>1. \A t \in States : c \notin pushing[t].to
    BY <1>1, GatewayAssumption DEF reserve
  <2> QED
    BY <1>1, <2>1 DEF reserve, ConnectionsTyped
<1>2. CASE Start(c)
  <2>1. owner[c] \in States
    BY <1>2 DEF Start
  <2>2. \A t \in States : ReadyClosed(t) => ReadyClosed(t)'
    BY <1>2, <2>1 DEF Start, Goto, StatesTyped
  <2>3. \A d \in Connections :
          /\ pc'[d] = "new" <=> pc[d] = "new"
          /\ ready[d] => pc'[d] = pc[d]
    BY <1>2 DEF Start, ConnectionsTyped
  <2>4. UNCHANGED <<owner, stopped, closing, queue, written, ready, pushing>>
    BY <1>2 DEF Start
  <2> HIDE DEF ReadyClosed
  <2> QED
    BY <2>2, <2>3, <2>4
<1>3. CASE CheckReady(c)
  BY <1>3 DEF CheckReady, activate, requestClose, ConnectionsTyped, stateVars
<1>4. CASE End(c)
  <2>1. owner[c] \in States
    BY <1>4 DEF End
  <2>2. \A t \in States : ReadyClosed(t) => ReadyClosed(t)'
    BY <1>4, <2>1 DEF End, release, Goto, AfterLast, StatesTyped
  <2>a. pc[c] # "new" /\ pc'[c] = "gone" /\ ~ready'[c]
    BY <1>4 DEF End, release, ConnectionsTyped
  <2>b. ASSUME NEW d \in Connections, d # c
        PROVE  /\ pc'[d] = pc[d] /\ ready'[d] = ready[d] /\ stopped'[d] = stopped[d]
               /\ queue'[d] = queue[d] /\ written'[d] = written[d]
    BY <1>4, <2>b DEF End, release, ConnectionsTyped
  <2>3. \A d \in Connections :
          /\ pc'[d] = "new" <=> pc[d] = "new"
          /\ ready'[d] => ready[d] /\ pc'[d] = pc[d]
          /\ pc[d] = "new" => stopped'[d] = stopped[d] /\ queue'[d] = queue[d]
                              /\ written'[d] = written[d]
    BY <2>a, <2>b
  <2>4. UNCHANGED <<owner, pushing>> /\ closing' \subseteq closing
    BY <1>4 DEF End, release
  <2> HIDE DEF ReadyClosed
  <2> QED
    BY <2>2, <2>3, <2>4
<1>5. CASE Write(c)
  BY <1>5 DEF Write, ConnectionsTyped, Open, stateVars
<1>6. CASE Stop(c) /\ UNCHANGED closing
  BY <1>6 DEF Stop, requestClose, ConnectionsTyped, Open, stateVars
<1>7. CASE CloseNext(c)
  BY <1>7 DEF CloseNext, requestClose, ConnectionsTyped, stateVars
<1>8. CASE EndSession(c)
  BY <1>8 DEF EndSession, stateVars, connectionVars
<1> QED
  BY <1>1, <1>2, <1>3, <1>4, <1>5, <1>6, <1>7, <1>8
     DEF Run, CloseItself, CheckSession, SessionsUnread

LEMMA NextConnections ==
  ASSUME TypeOK, ConnectionsAreSound, [Next]_vars
  PROVE  ConnectionsAreSound'
<1>1. CASE \/ UNCHANGED vars \/ Publish \/ Break \/ Notice \/ Reconnect \/ fail \/ BecomeHealthy
           \/ \E s \in States : Register(s)
  BY <1>1 DEF vars, stateVars, connectionVars, Publish, Break, Notice, Reconnect, Relink, fail,
              BecomeHealthy, Register, ConnectionsAreSound, ReadyClosed
<1>2. CASE Shutdown
  BY <1>2 DEF Shutdown, connectionVars, ConnectionsAreSound, ReadyClosed, OpenConnections, Open
<1>3. ASSUME NEW s \in States, Prepare(s)
      PROVE  ConnectionsAreSound'
  BY <1>3, PrepareConnections
<1>4. ASSUME NEW s \in States, CallListener(s) \/ Broadcast(s) \/ Reject(s)
      PROVE  ConnectionsAreSound'
  BY <1>4, BroadcastConnections
<1>5. ASSUME NEW c \in Connections,
             \/ \E s \in States : reserve(c, s)
             \/ Run(c) \/ Write(c) \/ CloseItself(c) \/ CheckSession(c) \/ SessionsUnread(c)
             \/ CloseNext(c) \/ EndSession(c)
      PROVE  ConnectionsAreSound'
  BY <1>5, RequestsConnections
<1> QED
  BY <1>1, <1>2, <1>3, <1>4, <1>5 DEF Next

-----------------------------------------------------------------------------
(* The connections share their state. *)

\* What StatesAreShared says of one state.
StateIsShared(s) ==
  /\ s \in listeners <=> sub[s] # "none"
  /\ sub[s] # "none" <=> stage[s] \in Subscribed
  /\ stage[s] = "live" => Clients(s) # {}
  /\ stage[s] \in {"dropping", "done"} /\ ~failed[s] => Clients(s) = {}
  /\ stage[s] # "new" => ~Fresh(s)

\* The link breaks, states fail.
LEMMA LinkShared ==
  ASSUME TypeOK, ConnectionsAreSound, StatesAreShared,
         \/ Break \/ Shutdown
         \/ \E s \in States : Register(s) \/ CallListener(s) \/ Reject(s)
  PROVE  StatesAreShared'
<1>1. UNCHANGED <<pc, owner, current, listeners, stage>>
  BY DEF Break, Shutdown, Register, CallListener, Reject, natsVars, connectionVars
<1>2. \A s \in States : (failed[s] => failed'[s]) /\ (sub'[s] # "none" <=> sub[s] # "none")
  BY Typed DEF Break, Shutdown, Register, CallListener, Reject, failUser, StatesTyped
<1>3. \A c \in OpenConnections : owner[c] \in States
  BY OwnerIsState DEF OpenConnections
<1>4. \A c \in OpenConnections : owner[c] = current \/ failed'[owner[c]]
  <2>1. CASE Break \/ \E s \in States : Register(s)
    BY <2>1 DEF Break, Register, StatesAreShared
  <2>2. CASE \E s \in States : CallListener(s) \/ Reject(s)
    BY <2>2, Typed, <1>3 DEF CallListener, Reject, failUser, StatesAreShared, StatesTyped
  <2>3. CASE Shutdown
    BY <2>3, Typed, <1>3 DEF Shutdown, StatesAreShared, StatesTyped
  <2> QED
    BY <2>1, <2>2, <2>3
<1> QED
  BY <1>1, <1>2, <1>4 DEF StatesAreShared, Clients, OpenConnections, Open, Fresh

\* The preparation of a state.
LEMMA PrepareShared ==
  ASSUME TypeOK, ConnectionsAreSound, StatesAreShared, NEW s \in States, Prepare(s)
  PROVE  StatesAreShared'
<1>1. UNCHANGED <<pc, owner, current>>
  BY DEF Prepare, LoadEpoch, Subscribe, Verify, FlushFails, Complete, Drop, PrepareStep,
         connectionVars
<1>2. \A t \in States : Clients(t)' = Clients(t) /\ (Fresh(t)' <=> Fresh(t))
  BY <1>1 DEF Clients, OpenConnections, Open, Fresh
<1>3. \A t \in States : failed[t] => failed'[t]
  BY Typed DEF Prepare, LoadEpoch, Subscribe, Verify, FlushFails, Complete, Drop, StatesTyped
<1>4. \A c \in OpenConnections : owner[c] = current \/ failed'[owner[c]]
  BY <1>3, OwnerIsState DEF StatesAreShared, OpenConnections
<1>5. \A t \in States : t # s =>
        /\ failed'[t] = failed[t] /\ sub'[t] = sub[t] /\ stage'[t] = stage[t]
        /\ t \in listeners' <=> t \in listeners
  BY Typed DEF Prepare, LoadEpoch, Subscribe, Verify, FlushFails, Complete, Drop, Goto,
               CloseSubscription, StatesTyped
<1>6. IsFiniteSet(listeners')
  <2>1. listeners' \subseteq listeners \union {s}
    BY DEF Prepare, LoadEpoch, Subscribe, Verify, FlushFails, Complete, Drop, CloseSubscription
  <2>2. IsFiniteSet(listeners \union {s})
    BY FS_AddElement DEF StatesAreShared
  <2> QED
    BY <2>1, <2>2, FS_Subset
<1>7. StateIsShared(s)'
  <2>1. StateIsShared(s)
    BY DEF StatesAreShared, StateIsShared
  <2> USE Typed, <2>1, <1>2 DEF StateIsShared, Subscribed, StatesTyped, Goto
  <2>2. CASE LoadEpoch(s)
    BY <2>2 DEF LoadEpoch
  <2>3. CASE Subscribe(s)
    BY <2>3 DEF Subscribe
  <2>4. CASE Verify(s)
    BY <2>4 DEF Verify, CloseSubscription
  <2>5. CASE FlushFails(s)
    BY <2>5 DEF FlushFails, CloseSubscription
  <2>6. CASE Complete(s)
    BY <2>6 DEF Complete, Abandoned
  <2>7. CASE Drop(s)
    BY <2>7 DEF Drop, CloseSubscription
  <2> QED
    BY <2>2, <2>3, <2>4, <2>5, <2>6, <2>7 DEF Prepare
<1>8. \A t \in States : StateIsShared(t)'
  <2>1. ASSUME NEW t \in States, t # s
        PROVE  StateIsShared(t)'
    BY <1>2, <1>5, <2>1 DEF StatesAreShared, StateIsShared
  <2> QED
    BY <1>7, <2>1
<1> QED
  BY <1>1, <1>4, <1>6, <1>8 DEF StatesAreShared, StateIsShared, Clients, OpenConnections, Open

\* What the end of a request changes.
LEMMA EndEffect ==
  ASSUME TypeOK, ConnectionsAreSound, NEW c \in Connections, End(c)
  PROVE  /\ Open(c) /\ owner[c] \in States
         /\ UNCHANGED <<link, callbacks, listeners, failing, failed, sub, inbox, pushing, owner,
                        published>>
         /\ OpenConnections' = OpenConnections \ {c}
         /\ \A t \in States : Clients(t)' = Clients(t) \ {c}
         /\ \A d \in Connections : d # c =>
              /\ pc'[d] = pc[d] /\ ready'[d] = ready[d] /\ stopped'[d] = stopped[d]
              /\ queue'[d] = queue[d] /\ written'[d] = written[d] /\ since'[d] = since[d]
         /\ closing' = closing \ {c}
<1>1. Open(c) /\ owner[c] \in States
  BY OwnerIsState DEF End, Open
<1>2. \A d \in Connections : d # c =>
        /\ pc'[d] = pc[d] /\ ready'[d] = ready[d] /\ stopped'[d] = stopped[d]
        /\ queue'[d] = queue[d] /\ written'[d] = written[d] /\ since'[d] = since[d]
  BY Typed DEF End, release, ConnectionsTyped
<1>3. pc'[c] = "gone" /\ UNCHANGED owner
  BY Typed DEF End, release, ConnectionsTyped
<1>4. OpenConnections' = OpenConnections \ {c}
  BY <1>2, <1>3 DEF OpenConnections, Open
<1>5. UNCHANGED <<link, callbacks, listeners, failing, failed, sub, inbox, pushing, published>>
      /\ closing' = closing \ {c}
  BY DEF End, release, natsVars
<1> QED
  BY <1>1, <1>2, <1>3, <1>4, <1>5 DEF Clients

\* A connection joins a state or leaves it.
LEMMA RequestsShared ==
  ASSUME TypeOK, ConnectionsAreSound, StatesAreShared, NEW c \in Connections,
         (\E s \in States : reserve(c, s)) \/ Run(c)
  PROVE  StatesAreShared'
<1> USE DEF StatesAreShared
<1>1. ASSUME NEW s \in States, reserve(c, s)
      PROVE  StatesAreShared'
  <2>1. /\ UNCHANGED <<listeners, failed, sub, stage>> /\ current' = s /\ ~Open(c)
        /\ owner'[c] = s /\ pc'[c] = "reserved"
        /\ \A d \in Connections : d # c => owner'[d] = owner[d] /\ pc'[d] = pc[d]
    BY <1>1, Typed DEF reserve, natsVars, Open, ConnectionsTyped
  <2>2. /\ OpenConnections' = OpenConnections \union {c}
        /\ Clients(s)' = Clients(s) \union {c}
        /\ \A t \in States : t # s => Clients(t)' = Clients(t)
    BY <2>1 DEF OpenConnections, Open, Clients
  <2>3. Joinable(s)
    BY <1>1 DEF reserve
  <2>4. \A d \in OpenConnections : owner[d] \in States /\ d # c
    BY <2>1, OwnerIsState DEF OpenConnections
  <2>5. \A d \in OpenConnections : owner[d] = s \/ failed[owner[d]]
    BY <2>3, <2>4, GatewayAssumption DEF Joinable
  <2>6. stage[s] \in {"dropping", "done"} => failed[s]
    <3>1. CASE Fresh(s)
      BY <3>1
    <3>2. CASE s = current
      BY <3>2, GatewayAssumption
    <3> QED
      BY <2>3, <3>1, <3>2 DEF Joinable
  <2>7. \A t \in States : ~Fresh(t) => ~Fresh(t)'
    BY <1>1, <2>1, GatewayAssumption DEF Fresh, reserve, ConnectionsAreSound
  <2>8. ASSUME NEW t \in States
        PROVE  StateIsShared(t)'
    <3>1. StateIsShared(t)
      BY DEF StateIsShared
    <3> QED
      BY <2>1, <2>2, <2>6, <2>7, <3>1 DEF StateIsShared
  <2>9. \A d \in OpenConnections' : owner'[d] = current' \/ failed'[owner'[d]]
    <3>1. owner'[c] = current'
      BY <2>1
    <3>2. ASSUME NEW d \in OpenConnections
          PROVE  owner'[d] = current' \/ failed'[owner'[d]]
      <4>1. owner'[d] = owner[d] /\ current' = s /\ failed' = failed
        BY <2>1, <2>4 DEF OpenConnections
      <4> QED
        BY <2>5, <4>1
    <3> QED
      BY <2>2, <3>1, <3>2
  <2>10. Clients(current)' # {} /\ IsFiniteSet(listeners')
    BY <2>1, <2>2 DEF Clients
  <2> QED
    BY <2>8, <2>9, <2>10 DEF StateIsShared
<1>2. CASE Start(c)
  <2>1. /\ UNCHANGED <<listeners, failed, sub, current, owner>> /\ owner[c] \in States
        /\ OpenConnections' = OpenConnections
        /\ stage' = stage \/ (stage[owner[c]] = "new"
                              /\ stage' = [stage EXCEPT ![owner[c]] = "started"])
    BY <1>2, Typed, OwnerIsState DEF Start, Goto, natsVars, OpenConnections, Open, ConnectionsTyped
  <2>2. \A t \in States : Clients(t)' = Clients(t) /\ (Fresh(t)' <=> Fresh(t))
    BY <2>1 DEF Clients, Fresh
  <2>3. ASSUME NEW t \in States
        PROVE  StateIsShared(t)'
    <3>1. StateIsShared(t)
      BY DEF StateIsShared
    <3>2. CASE stage'[t] = stage[t]
      BY <2>1, <2>2, <3>1, <3>2 DEF StateIsShared
    <3>3. CASE stage'[t] # stage[t]
      <4>1. t = owner[c] /\ stage[t] = "new" /\ stage'[t] = "started" /\ ~Fresh(t)
        BY <2>1, <3>3, Typed DEF StatesTyped, Fresh
      <4> QED
        BY <2>1, <2>2, <3>1, <4>1 DEF StateIsShared, Subscribed
    <3> QED
      BY <3>2, <3>3
  <2> QED
    BY <2>1, <2>2, <2>3 DEF StateIsShared, Clients
<1>3. CASE CheckReady(c)
  <2>1. /\ UNCHANGED <<listeners, failed, sub, current, owner, stage>>
        /\ OpenConnections' = OpenConnections
    BY <1>3, Typed DEF CheckReady, natsVars, stateVars, OpenConnections, Open, ConnectionsTyped
  <2> QED
    BY <2>1 DEF Clients, Fresh
<1>4. CASE End(c)
  <2> DEFINE s == owner[c]
  <2>1. /\ Open(c) /\ s \in States
        /\ UNCHANGED <<listeners, failed, sub, owner>>
        /\ OpenConnections' = OpenConnections \ {c}
        /\ \A t \in States : Clients(t)' = Clients(t) \ {c}
    BY <1>4, EndEffect
  <2>2. /\ current' = IF Clients(s) = {c} /\ current = s THEN NoState ELSE current
        /\ stage' = [stage EXCEPT ![s] = IF Clients(s) = {c} THEN AfterLast(s) ELSE stage[s]]
    BY <1>4 DEF End, release, Goto
  <2>3. c \in Clients(s) /\ \A t \in States : t # s => c \notin Clients(t)
    BY <2>1 DEF Clients, OpenConnections
  <2>4. \A d \in OpenConnections' : owner'[d] = current' \/ failed'[owner'[d]]
    <3> SUFFICES ASSUME NEW d \in OpenConnections, d # c
                 PROVE  owner[d] = current' \/ failed[owner[d]]
      BY <2>1
    <3>1. owner[d] \in States /\ (owner[d] = current \/ failed[owner[d]])
      BY OwnerIsState DEF OpenConnections
    <3>2. owner[d] = s => Clients(s) # {c}
      BY DEF Clients
    <3> QED
      BY <2>2, <3>1, <3>2
  <2>5. (current # NoState => Clients(current) # {})'
    <3> SUFFICES ASSUME current' # NoState
                 PROVE  Clients(current)' # {}
      OBVIOUS
    <3>1. current' = current /\ current \in States /\ (current = s => Clients(s) # {c})
      BY <2>2, Typed DEF StatesTyped
    <3>2. Clients(current) # {} /\ Clients(current) # {c}
      BY <2>3, <3>1
    <3>3. Clients(current)' = Clients(current) \ {c}
      BY <2>1, <3>1 DEF Clients
    <3> QED
      BY <3>2, <3>3
  <2>6. ASSUME NEW t \in States
        PROVE  StateIsShared(t)'
    <3>1. StateIsShared(t) /\ (Fresh(t)' <=> Fresh(t))
      BY <2>1 DEF StateIsShared, Fresh
    <3>2. CASE t # s
      BY <2>1, <2>2, <2>3, <3>1, <3>2, Typed DEF StateIsShared, StatesTyped
    <3>3. CASE t = s
      <4>1. stage'[s] = IF Clients(s) = {c} THEN AfterLast(s) ELSE stage[s]
        BY <2>1, <2>2, Typed DEF StatesTyped
      <4> QED
        BY <2>1, <2>3, <3>1, <3>3, <4>1 DEF StateIsShared, AfterLast, Subscribed
    <3> QED
      BY <3>2, <3>3
  <2>7. IsFiniteSet(listeners')
    BY <2>1
  <2> QED
    BY <2>4, <2>5, <2>6, <2>7 DEF StateIsShared
<1> QED
  BY <1>1, <1>2, <1>3, <1>4 DEF Run

LEMMA NextShared ==
  ASSUME TypeOK, ConnectionsAreSound, StatesAreShared, [Next]_vars
  PROVE  StatesAreShared'
<1>1. CASE \/ UNCHANGED vars \/ Publish \/ Notice \/ Reconnect \/ fail \/ BecomeHealthy
           \/ \E s \in States : Broadcast(s)
           \/ \E c \in Connections : \/ Write(c) \/ CloseItself(c) \/ CheckSession(c)
                                     \/ SessionsUnread(c) \/ CloseNext(c) \/ EndSession(c)
  <2>1. UNCHANGED <<pc, owner, current, failed, listeners, sub, stage>>
    BY <1>1 DEF vars, natsVars, stateVars, connectionVars, Publish, Notice, Reconnect, Relink,
                fail, BecomeHealthy, Broadcast, Deliver, Push, Write, CloseItself, CheckSession,
                SessionsUnread, Stop, CloseNext, EndSession
  <2> QED
    BY <2>1 DEF StatesAreShared, Clients, OpenConnections, Open, Fresh
<1>2. CASE \/ Break \/ Shutdown
           \/ \E s \in States : Register(s) \/ CallListener(s) \/ Reject(s)
  BY <1>2, LinkShared
<1>3. ASSUME NEW s \in States, Prepare(s)
      PROVE  StatesAreShared'
  BY <1>3, PrepareShared
<1>4. ASSUME NEW c \in Connections, (\E s \in States : reserve(c, s)) \/ Run(c)
      PROVE  StatesAreShared'
  BY <1>4, RequestsShared
<1> QED
  BY <1>1, <1>2, <1>3, <1>4 DEF Next

-----------------------------------------------------------------------------
(* The connections of a failed state are about to be closed. *)

LEMMA NextFailed ==
  ASSUME TypeOK, ConnectionsAreSound, FailedAreClosing, [Next]_vars
  PROVE  FailedAreClosing'
<1> USE DEF FailedAreClosing, OpenConnections, Open
<1>1. CASE \/ UNCHANGED vars \/ Publish \/ Break \/ Notice \/ Reconnect \/ fail \/ BecomeHealthy
           \/ \E s \in States : Register(s) \/ Deliver(s)
           \/ \E c \in Connections : EndSession(c)
  BY <1>1 DEF vars, stateVars, connectionVars, Publish, Break, Notice, Reconnect, Relink, fail,
              BecomeHealthy, Register, Deliver, EndSession
<1>2. CASE Shutdown
  BY <1>2 DEF Shutdown, connectionVars
<1>3. ASSUME NEW s \in States, CallListener(s) \/ Reject(s)
      PROVE  FailedAreClosing'
  BY <1>3, Typed, OwnerIsState
     DEF CallListener, Reject, failUser, Clients, connectionVars, StatesTyped
<1>4. ASSUME NEW s \in States, Prepare(s)
      PROVE  FailedAreClosing'
  <2>1. UNCHANGED <<pc, owner, ready, stopped, closing>>
    BY <1>4 DEF Prepare, LoadEpoch, Subscribe, Verify, FlushFails, Complete, Drop, PrepareStep,
                connectionVars
  <2>2. \A t \in States : ReadyClosed(t) => (failed'[t] => failed[t])
    BY <1>4, Typed DEF Prepare, LoadEpoch, Subscribe, Verify, FlushFails, Complete, Drop,
                       ReadyClosed, StatesTyped
  <2>3. \A c \in Connections : ready[c] => ReadyClosed(owner[c])
    BY DEF ConnectionsAreSound
  <2>4. \A c \in OpenConnections : owner[c] \in States
    BY OwnerIsState
  <2> QED
    BY <2>1, <2>2, <2>3, <2>4
<1>5. ASSUME NEW s \in States, Push(s)
      PROVE  FailedAreClosing'
  BY <1>5 DEF Push, enqueue
<1>6. ASSUME NEW c \in Connections, NEW s \in States, reserve(c, s)
      PROVE  FailedAreClosing'
  <2>1. ~ready[c]
    BY <1>6 DEF reserve, ConnectionsAreSound
  <2> QED
    BY <1>6, <2>1, Typed DEF reserve, ConnectionsTyped
<1>7. ASSUME NEW c \in Connections, Start(c)
      PROVE  FailedAreClosing'
  BY <1>7, Typed DEF Start, ConnectionsTyped
<1>8. ASSUME NEW c \in Connections, CheckReady(c)
      PROVE  FailedAreClosing'
  BY <1>8, Typed DEF CheckReady, activate, requestClose, stateVars, ConnectionsTyped
<1>9. ASSUME NEW c \in Connections, End(c)
      PROVE  FailedAreClosing'
  <2>1. c \notin OpenConnections'
    BY <1>9, EndEffect
  <2>2. ASSUME NEW d \in OpenConnections', ready'[d], failed'[owner'[d]]
        PROVE  stopped'[d] \/ d \in closing'
    <3>1. d \in OpenConnections /\ d # c
      BY <1>9, <2>1, EndEffect
    <3> QED
      BY <1>9, <2>2, <3>1, EndEffect
  <2> QED
    BY <2>2
<1>10. ASSUME NEW c \in Connections, Write(c) \/ CloseItself(c) \/ CheckSession(c)
                                     \/ SessionsUnread(c) \/ CloseNext(c)
       PROVE  FailedAreClosing'
  BY <1>10, Typed DEF Write, CloseItself, CheckSession, SessionsUnread, Stop, CloseNext,
                      requestClose, stateVars, ConnectionsTyped
<1> QED
  BY <1>1, <1>2, <1>3, <1>4, <1>5, <1>6, <1>7, <1>8, <1>9, <1>10 DEF Next, Broadcast, Run

-----------------------------------------------------------------------------
(* Subscriptions. *)

\* Only Subscribe makes a state one that no failure strikes.
LEMMA StaysGood ==
  ASSUME TypeOK, ConnectionsAreSound, StatesAreShared, [Next]_vars, NEW s \in States, Good(s)'
  PROVE  Good(s) \/ Subscribe(s)
<1> USE DEF Good
<1>1. CASE Publish
  <2>1. PICK slow \in SUBSET {t \in States : sub[t] = "registered"} :
               callbacks' = callbacks + Reported(slow)
    BY <1>1 DEF Publish
  <2>2. Reported(slow) \in Nat /\ callbacks \in Nat
    BY ReportedIsNumber, Typed DEF NatsTyped
  <2>3. callbacks = 0
    BY <2>1, <2>2
  <2> QED
    BY <1>1, <2>3 DEF Publish
<1>2. CASE Break \/ Notice \/ Reconnect
  <2>1. callbacks \in Nat
    BY Typed DEF NatsTyped
  <2> QED
    BY <1>2, <2>1 DEF Break, Notice, Reconnect, Relink
<1>3. CASE fail
  BY <1>3 DEF fail
<1>4. CASE Shutdown
  BY <1>4, Typed DEF Shutdown, natsVars, StatesTyped
<1>5. ASSUME NEW t \in States, CallListener(t) \/ Reject(t)
      PROVE  Good(s)
  BY <1>5, Typed DEF CallListener, Reject, failUser, natsVars, StatesTyped
<1>6. ASSUME NEW t \in States, Prepare(t)
      PROVE  Good(s) \/ Subscribe(s)
  BY <1>6, Typed DEF Prepare, LoadEpoch, Subscribe, Verify, FlushFails, Complete, Drop,
                     CloseSubscription, PrepareStep, StatesTyped
<1>7. CASE \/ UNCHANGED vars \/ BecomeHealthy
           \/ \E t \in States : Register(t) \/ Broadcast(t)
           \/ \E c \in Connections, t \in States : reserve(c, t)
           \/ \E c \in Connections : \/ Run(c) \/ Write(c) \/ CloseItself(c) \/ CheckSession(c)
                                     \/ SessionsUnread(c) \/ CloseNext(c) \/ EndSession(c)
  <2>1. UNCHANGED <<link, callbacks, listeners, failing, failed>>
    BY <1>7 DEF vars, natsVars, stateVars, BecomeHealthy, Register, Broadcast, Deliver, Push,
                reserve, Run, Start, CheckReady, End, release, Write, CloseItself, CheckSession,
                SessionsUnread, Stop, CloseNext, EndSession
  <2> QED
    BY <2>1
<1> QED
  BY <1>1, <1>2, <1>3, <1>4, <1>5, <1>6, <1>7 DEF Next

\* Nothing comes to a state that the server does not know, and whose connections wait.
LEMMA QuietStays ==
  ASSUME TypeOK, ConnectionsAreSound, [Next]_vars, NEW s \in States, Quiet(s),
         sub[s] # "registered", ReadyClosed(s) => Clients(s) = {}
  PROVE  Quiet(s)'
<1> USE Typed
<1>1. ASSUME NEW t \in States, Deliver(t) \/ Reject(t) \/ Push(t)
      PROVE  t # s
  BY <1>1 DEF Deliver, Reject, Push, Quiet
<1>2. inbox'[s] = <<>>
  <2>1. CASE Publish
    BY <2>1 DEF Publish, Quiet
  <2>2. ASSUME NEW t \in States, Deliver(t) \/ Reject(t)
        PROVE  inbox'[s] = <<>>
    BY <1>1, <2>2 DEF Deliver, Reject, Quiet, StatesTyped
  <2>3. ASSUME NEW t \in States, Prepare(t)
        PROVE  inbox'[s] = <<>>
    BY <2>3 DEF Prepare, LoadEpoch, Subscribe, Verify, FlushFails, Complete, Drop,
                CloseSubscription, Quiet, StatesTyped
  <2>4. CASE \/ UNCHANGED vars \/ Break \/ Notice \/ Reconnect \/ fail \/ BecomeHealthy \/ Shutdown
             \/ \E t \in States : Register(t) \/ CallListener(t) \/ Push(t)
             \/ \E c \in Connections, t \in States : reserve(c, t)
             \/ \E c \in Connections : \/ Run(c) \/ Write(c) \/ CloseItself(c) \/ CheckSession(c)
                                       \/ SessionsUnread(c) \/ CloseNext(c) \/ EndSession(c)
    BY <2>4 DEF vars, stateVars, Break, Notice, Reconnect, Relink, fail, BecomeHealthy, Shutdown,
                Register, CallListener, Push, reserve, Run, Start, CheckReady, End, release, Write,
                CloseItself, CheckSession, SessionsUnread, Stop, CloseNext, EndSession, Quiet
  <2> QED
    BY <2>1, <2>2, <2>3, <2>4 DEF Next, Broadcast
<1>3. pushing'[s].to = {}
  <2>1. ASSUME NEW t \in States, Deliver(t) \/ Push(t)
        PROVE  pushing'[s].to = {}
    BY <1>1, <2>1 DEF Deliver, Push, Quiet, StatesTyped
  <2>2. CASE \/ UNCHANGED vars \/ Publish \/ Break \/ Notice \/ Reconnect \/ fail \/ BecomeHealthy
             \/ Shutdown
             \/ \E t \in States : Register(t) \/ CallListener(t) \/ Reject(t) \/ Prepare(t)
             \/ \E c \in Connections, t \in States : reserve(c, t)
             \/ \E c \in Connections : \/ Run(c) \/ Write(c) \/ CloseItself(c) \/ CheckSession(c)
                                       \/ SessionsUnread(c) \/ CloseNext(c) \/ EndSession(c)
    BY <2>2 DEF vars, stateVars, Publish, Break, Notice, Reconnect, Relink, fail, BecomeHealthy,
                Shutdown, Register, CallListener, Reject, Prepare, LoadEpoch, Subscribe, Verify,
                FlushFails, Complete, Drop, PrepareStep, reserve, Run, Start, CheckReady, End,
                release, Write, CloseItself, CheckSession, SessionsUnread, Stop, CloseNext,
                EndSession, Quiet
  <2> QED
    BY <2>1, <2>2 DEF Next, Broadcast
<1>4. ASSUME NEW c \in Clients(s)'
      PROVE  queue'[c] = <<>>
  <2> c \in Connections
    BY DEF Clients, OpenConnections
  <2>1. ASSUME NEW t \in States, Push(t)
        PROVE  queue'[c] = <<>>
    <3>1. c \in Clients(s) /\ c \notin pushing[t].to
      BY <1>1, <2>1 DEF Push, Clients, OpenConnections, Open, ConnectionsAreSound
    <3> QED
      BY <2>1, <3>1 DEF Push, enqueue, Quiet
  <2>2. ASSUME NEW t \in States, NEW d \in Connections, reserve(d, t)
        PROVE  queue'[c] = <<>>
    <3>1. c = d \/ c \in Clients(s)
      BY <2>2 DEF reserve, Clients, OpenConnections, Open, ConnectionsTyped
    <3> QED
      BY <2>2, <3>1 DEF reserve, Quiet, ConnectionsAreSound
  <2>3. ASSUME NEW d \in Connections, CheckReady(d)
        PROVE  queue'[c] = <<>>
    <3>1. c \in Clients(s) /\ d # c
      BY <2>3 DEF CheckReady, Clients, OpenConnections, Open, ConnectionsTyped
    <3>2. queue'[c] = queue[c]
      BY <2>3, <3>1 DEF CheckReady, activate, ConnectionsTyped
    <3> QED
      BY <3>1, <3>2 DEF Quiet
  <2>4. ASSUME NEW d \in Connections, Write(d)
        PROVE  queue'[c] = <<>>
    <3>1. c \in Clients(s)
      BY <2>4 DEF Write, Clients, OpenConnections, Open
    <3>2. d # c
      BY <2>4, <3>1 DEF Write, Quiet
    <3> QED
      BY <2>4, <3>1, <3>2 DEF Write, Quiet, ConnectionsTyped
  <2>5. ASSUME NEW d \in Connections, End(d)
        PROVE  queue'[c] = <<>>
    <3>1. c \in Clients(s) /\ d # c
      BY <2>5, EndEffect
    <3> QED
      BY <2>5, <3>1, EndEffect DEF Quiet
  <2>6. ASSUME NEW d \in Connections, Start(d)
        PROVE  queue'[c] = <<>>
    <3>1. c \in Clients(s) /\ queue' = queue
      BY <2>6 DEF Start, Clients, OpenConnections, Open, ConnectionsTyped
    <3> QED
      BY <3>1 DEF Quiet
  <2>7. CASE \/ UNCHANGED vars \/ Publish \/ Break \/ Notice \/ Reconnect \/ fail \/ BecomeHealthy
             \/ Shutdown
             \/ \E t \in States : \/ Register(t) \/ CallListener(t) \/ Reject(t) \/ Deliver(t)
                                  \/ Prepare(t)
             \/ \E d \in Connections : \/ CloseItself(d) \/ CheckSession(d) \/ SessionsUnread(d)
                                       \/ CloseNext(d) \/ EndSession(d)
    <3>1. UNCHANGED <<pc, owner, queue>>
      BY <2>7 DEF vars, connectionVars, Publish, Break, Notice, Reconnect, Relink, fail,
                  BecomeHealthy, Shutdown, Register, CallListener, Reject, Deliver, Prepare,
                  LoadEpoch, Subscribe, Verify, FlushFails, Complete, Drop, PrepareStep,
                  CloseItself, CheckSession, SessionsUnread, Stop, CloseNext, EndSession
    <3> QED
      BY <3>1 DEF Clients, OpenConnections, Open, Quiet
  <2> QED
    BY <2>1, <2>2, <2>3, <2>4, <2>5, <2>6, <2>7 DEF Next, Broadcast, Run
<1> QED
  BY <1>2, <1>3, <1>4 DEF Quiet

LEMMA NextSubscriptions ==
  ASSUME TypeOK, ConnectionsAreSound, StatesAreShared, SubscriptionsAreSound, TypeOK',
         [Next]_vars
  PROVE  SubscriptionsAreSound'
<1> SUFFICES ASSUME NEW s \in States
             PROVE  /\ sub'[s] = "registered" => link' = "up"
                    /\ sub'[s] = "none" => inbox'[s] = <<>>
                    /\ stage'[s] \in Early => Quiet(s)'
                    /\ Good(s)' /\ stage'[s] \in {"verified", "live"} => sub'[s] = "registered"
                    /\ Good(s)' /\ sub'[s] = "sent" => Quiet(s)'
  BY DEF SubscriptionsAreSound
<1> USE Typed
<1>1. /\ sub[s] = "registered" => link = "up"
      /\ sub[s] = "none" => inbox[s] = <<>>
      /\ stage[s] \in Early => Quiet(s)
      /\ Good(s) /\ stage[s] \in {"verified", "live"} => sub[s] = "registered"
      /\ Good(s) /\ sub[s] = "sent" => Quiet(s)
  BY DEF SubscriptionsAreSound
<1>2. StateIsShared(s)
  BY DEF StatesAreShared, StateIsShared
\* What the steps do to the subscription and to the stage.
<1>3. /\ sub'[s] = "registered" => link' = "up"
      /\ sub'[s] = "none" => inbox'[s] = <<>>
      /\ stage'[s] \in Early => stage[s] \in Early
      /\ stage'[s] = "live" => stage[s] \in {"verified", "live"}
      /\ stage'[s] = "verified" /\ stage[s] # "verified" => sub'[s] = "registered"
      /\ sub[s] = "registered" /\ sub'[s] = "sent" => link' # "up"
      /\ sub[s] = "registered" /\ sub'[s] = "none" => stage'[s] \notin {"verified", "live"}
  <2>1. CASE Publish
    <3>1. sub[s] = "none" => inbox'[s] = inbox[s]
      BY <2>1 DEF Publish, StatesTyped
    <3>2. UNCHANGED <<link, sub, stage>>
      BY <2>1 DEF Publish
    <3> QED
      BY <1>1, <3>1, <3>2
  <2>2. CASE Break
    BY <1>1, <2>2 DEF Break, StatesTyped
  <2>3. CASE Notice \/ Reconnect
    BY <1>1, <2>3 DEF Notice, Reconnect, Relink, stateVars
  <2>4. ASSUME NEW t \in States, Register(t)
        PROVE  <1>3!:
    BY <1>1, <2>4 DEF Register, natsVars, StatesTyped
  <2>5. ASSUME NEW t \in States, Deliver(t) \/ Reject(t)
        PROVE  <1>3!:
    <3>1. t = s => sub[s] # "none"
      BY <1>1, <2>5 DEF Deliver, Reject
    <3> QED
      BY <1>1, <2>5, <3>1 DEF Deliver, Reject, natsVars, StatesTyped
  <2>6. ASSUME NEW t \in States, Prepare(t)
        PROVE  <1>3!:
    <3>1. CASE t = s
      <4> USE <1>1, <1>2, <3>1 DEF PrepareStep, Goto, CloseSubscription, StatesTyped, Early,
                                   StateIsShared, Subscribed
      <4>1. CASE LoadEpoch(t)
        BY <4>1 DEF LoadEpoch
      <4>2. CASE Subscribe(t)
        BY <4>2 DEF Subscribe
      <4>3. CASE Verify(t)
        BY <4>3 DEF Verify
      <4>4. CASE FlushFails(t)
        BY <4>4 DEF FlushFails
      <4>5. CASE Complete(t)
        BY <4>5 DEF Complete
      <4>6. CASE Drop(t)
        BY <4>6 DEF Drop
      <4> QED
        BY <2>6, <4>1, <4>2, <4>3, <4>4, <4>5, <4>6 DEF Prepare
    <3>2. CASE t # s
      <4>1. /\ link' = link /\ sub'[s] = sub[s] /\ inbox'[s] = inbox[s] /\ stage'[s] = stage[s]
        BY <2>6, <3>2 DEF Prepare, LoadEpoch, Subscribe, Verify, FlushFails, Complete, Drop,
                          PrepareStep, Goto, CloseSubscription, StatesTyped
      <4> QED
        BY <1>1, <4>1
    <3> QED
      BY <3>1, <3>2
  <2>7. ASSUME NEW c \in Connections, Start(c) \/ End(c)
        PROVE  <1>3!:
    <3>1. UNCHANGED <<link, sub, inbox>>
      BY <2>7, EndEffect DEF Start, natsVars
    <3>2. stage'[s] = stage[s] \/ (stage[s] = "new" /\ stage'[s] = "started")
          \/ (stage[s] = "live" /\ stage'[s] = "dropping")
      BY <2>7 DEF Start, End, release, Goto, AfterLast, StatesTyped
    <3> QED
      BY <1>1, <3>1, <3>2 DEF Early
  <2>8. CASE \/ UNCHANGED vars \/ fail \/ BecomeHealthy \/ Shutdown
             \/ \E t \in States : CallListener(t) \/ Push(t)
             \/ \E c \in Connections, t \in States : reserve(c, t)
             \/ \E c \in Connections : \/ CheckReady(c) \/ Write(c) \/ CloseItself(c)
                                       \/ CheckSession(c) \/ SessionsUnread(c) \/ CloseNext(c)
                                       \/ EndSession(c)
    <3>1. UNCHANGED <<link, sub, inbox, stage>>
      BY <2>8 DEF vars, natsVars, stateVars, fail, BecomeHealthy, Shutdown, CallListener, Push,
                  reserve, CheckReady, Write, CloseItself, CheckSession, SessionsUnread, Stop,
                  CloseNext, EndSession
    <3> QED
      BY <1>1, <3>1
  <2> QED
    BY <2>1, <2>2, <2>3, <2>4, <2>5, <2>6, <2>7, <2>8 DEF Next, Broadcast, Run
<1>4. stage[s] \in Early => Quiet(s)'
  <2>1. stage[s] \in Early => sub[s] = "none" /\ ~ReadyClosed(s)
    BY <1>2 DEF StateIsShared, Subscribed, Early, ReadyClosed, StatesTyped
  <2> QED
    BY <1>1, <2>1, QuietStays
<1>5. Good(s) /\ sub[s] = "sent" => Quiet(s)'
  <2>1. Good(s) /\ sub[s] = "sent" => (ReadyClosed(s) => Clients(s) = {})
    BY <1>1, <1>2 DEF StateIsShared, ReadyClosed, Good
  <2> QED
    BY <1>1, <2>1, QuietStays
<1>6. Good(s)' => Good(s) \/ (Subscribe(s) /\ stage[s] \in Early /\ stage'[s] = "listening")
  <2>1. Subscribe(s) => stage[s] \in Early /\ stage'[s] = "listening"
    BY DEF Subscribe, Early, Goto, StatesTyped
  <2> QED
    BY <2>1, StaysGood
<1>7. Good(s)' => link' = "up" /\ s \in listeners'
  BY DEF Good
<1>8. Good(s)' /\ stage'[s] \in {"verified", "live"} => sub'[s] = "registered"
  <2> SUFFICES ASSUME Good(s)', stage'[s] \in {"verified", "live"}
               PROVE  sub'[s] = "registered"
    OBVIOUS
  <2>1. Good(s)
    BY <1>6
  <2>2. CASE stage[s] \in {"verified", "live"}
    <3>1. sub[s] = "registered"
      BY <1>1, <2>1, <2>2
    <3>2. sub'[s] \in {"none", "sent", "registered"}
      BY DEF StatesTyped
    <3> QED
      BY <1>3, <1>7, <3>1, <3>2
  <2>3. CASE stage[s] \notin {"verified", "live"}
    BY <1>3, <2>3
  <2> QED
    BY <2>2, <2>3
<1>9. Good(s)' /\ sub'[s] = "sent" => Quiet(s)'
  <2> SUFFICES ASSUME Good(s)', sub'[s] = "sent"
               PROVE  Quiet(s)'
    OBVIOUS
  <2>1. CASE Good(s)
    <3>1. sub[s] # "registered"
      BY <1>3, <1>7
    <3>2. sub[s] # "none"
      BY <1>2, <2>1 DEF StateIsShared, Good
    <3> QED
      BY <1>5, <2>1, <3>1, <3>2 DEF StatesTyped
  <2> QED
    BY <1>4, <1>6, <2>1
<1> QED
  BY <1>3, <1>4, <1>8, <1>9

-----------------------------------------------------------------------------
(* Events in order. *)

\* What EventsInOrder says of one state.
InboxInOrder(s) ==
  /\ Rising(inbox[s]) /\ Range(inbox[s]) \subseteq 1..published
  /\ pushing[s].to # {} => /\ pushing[s].event \in 1..published
                           /\ Before({pushing[s].event}, Range(inbox[s]))

\* What a subscription without events comes to.
LEMMA EmptyInOrder == Rising(<<>>) /\ Range(<<>>) = {} /\ \A A : Before(A, {}) /\ Before({}, A)
BY DEF Rising, Range, Before

\* The sequences are sequences of numbers.
LEMMA Numbers ==
  ASSUME TypeOK
  PROVE  /\ \A s \in States : inbox[s] \in Seq(Nat)
         /\ \A c \in Connections : queue[c] \in Seq(Nat) /\ written[c] \in Seq(Nat)
         /\ published \in Nat
<1>1. 1..MaxEvents \subseteq Nat /\ 0..MaxEvents \subseteq Nat
  OBVIOUS
<1>2. ASSUME NEW s \in States PROVE inbox[s] \in Seq(Nat)
  <2>1. inbox[s] \in Seq(1..MaxEvents)
    BY Typed DEF StatesTyped
  <2> QED
    BY <1>1, <2>1, SeqMonotonic
<1>3. ASSUME NEW c \in Connections PROVE queue[c] \in Seq(Nat) /\ written[c] \in Seq(Nat)
  <2>1. queue[c] \in Seq(0..MaxEvents) /\ written[c] \in Seq(0..MaxEvents)
    BY Typed DEF ConnectionsTyped
  <2> QED
    BY <1>1, <2>1, SeqMonotonic
<1> QED
  BY <1>1, <1>2, <1>3, Typed DEF OthersTyped

\* An event is added at the end of an inbox, if the subscription can take it.
LEMMA PublishEffect ==
  ASSUME TypeOK, StatesAreShared, Publish, NEW s \in States
  PROVE  /\ published' = published + 1 /\ published \in Nat
         /\ sub' = sub /\ pushing' = pushing
         /\ sub[s] # "registered" => inbox'[s] = inbox[s]
         /\ inbox'[s] = inbox[s]
            \/ (inbox'[s] = Append(inbox[s], published + 1)
                /\ Range(inbox'[s]) = Range(inbox[s]) \union {published + 1})
         /\ callbacks' = 0 /\ sub[s] = "registered" =>
              inbox'[s] = Append(inbox[s], published + 1)
<1> USE Typed
<1> DEFINE served == {t \in States : sub[t] = "registered"}
           slow == {t \in served : Overflowing(t)}
<1>1. published' = published + 1 /\ published \in Nat /\ sub' = sub /\ pushing' = pushing
  BY GatewayAssumption DEF Publish, OthersTyped
<1>2. inbox'[s] = IF s \in served \ slow THEN Append(inbox[s], published + 1) ELSE inbox[s]
  BY DEF Publish
<1>3. callbacks' = 0 => slow = {}
  <2> SUFFICES ASSUME slow # {} PROVE callbacks' # 0
    OBVIOUS
  <2>1. callbacks' = callbacks + Reported(slow) /\ callbacks \in Nat
    BY DEF Publish, NatsTyped
  <2>2. Reported(slow) \in Nat /\ Reported(slow) > 0
    BY ReportedIsNumber
  <2> DEFINE n == Reported(slow)
  <2>3. callbacks' = callbacks + n /\ n \in Nat /\ n > 0
    BY <2>1, <2>2
  <2> HIDE DEF n
  <2> QED
    BY <2>1, <2>3
<1>4. Range(Append(inbox[s], published + 1)) = Range(inbox[s]) \union {published + 1}
  <2>1. inbox[s] \in Seq(Nat)
    BY Numbers
  <2>2. published + 1 \in Nat
    BY <1>1
  <2> QED
    BY <2>1, <2>2, RangeOfAppend
<1>5. sub[s] # "registered" => s \notin served
  OBVIOUS
<1> QED
  <2> HIDE DEF slow
  <2> QED
    BY <1>1, <1>2, <1>3, <1>4, <1>5

LEMMA PublishInOrder ==
  ASSUME TypeOK, StatesAreShared, Publish, NEW s \in States, InboxInOrder(s)
  PROVE  InboxInOrder(s)'
<1>1. /\ published' = published + 1 /\ published \in Nat /\ pushing' = pushing
      /\ inbox'[s] = inbox[s]
         \/ (inbox'[s] = Append(inbox[s], published + 1)
             /\ Range(inbox'[s]) = Range(inbox[s]) \union {published + 1})
  BY PublishEffect
<1>2. 1..published \subseteq 1..published' /\ published + 1 \in 1..published'
  BY <1>1
<1>3. pushing'[s].to # {} => pushing'[s].event \in 1..published /\ pushing'[s] = pushing[s]
  BY <1>1 DEF InboxInOrder
<1>4. CASE inbox'[s] = inbox[s]
  BY <1>1, <1>2, <1>3, <1>4 DEF InboxInOrder
<1>5. CASE /\ inbox'[s] = Append(inbox[s], published + 1)
           /\ Range(inbox'[s]) = Range(inbox[s]) \union {published + 1}
  <2>1. \A x \in 1..published : x < published + 1
    BY <1>1
  <2>2. Before(Range(inbox[s]), {published + 1})
    BY <2>1 DEF InboxInOrder, Before
  <2>3. inbox[s] \in Seq(Nat) /\ published + 1 \in Nat
    BY <1>1, Numbers
  <2>4. Rising(inbox'[s])
    BY <1>5, <2>2, <2>3, RisingAppend DEF InboxInOrder
  <2>5. pushing'[s].to # {} => Before({pushing'[s].event}, Range(inbox'[s]))
    BY <1>3, <1>5, <2>1 DEF InboxInOrder, Before
  <2>6. Range(inbox'[s]) \subseteq 1..published'
    BY <1>2, <1>5 DEF InboxInOrder
  <2> QED
    BY <1>2, <1>3, <2>4, <2>5, <2>6 DEF InboxInOrder
<1> QED
  BY <1>1, <1>4, <1>5

\* broadcast takes the first event, for the connections that are there.
LEMMA DeliverEffect ==
  ASSUME TypeOK, NEW s \in States, Deliver(s)
  PROVE  /\ UNCHANGED <<link, callbacks, listeners, failing, failed, pc, owner, stopped, ready,
                        queue, written, since, published, sub>>
         /\ inbox[s] # <<>> /\ pushing[s].to = {}
         /\ inbox'[s] = Tail(inbox[s]) /\ inbox[s] \in Seq(Nat)
         /\ Range(inbox[s]) = {Head(inbox[s])} \union Range(inbox'[s])
         /\ pushing'[s].to = IF failed[s] THEN {} ELSE Clients(s)
         /\ pushing'[s].to # {} => pushing'[s].event = Head(inbox[s])
         /\ \A t \in States : t # s => inbox'[t] = inbox[t] /\ pushing'[t] = pushing[t]
<1> USE Typed DEF StatesTyped
<1>1. inbox[s] # <<>> /\ pushing[s].to = {} /\ inbox'[s] = Tail(inbox[s])
  BY DEF Deliver
<1>2. inbox[s] \in Seq(Nat)
  BY Numbers
<1>3. Range(inbox[s]) = {Head(inbox[s])} \union Range(inbox'[s])
  BY <1>1, <1>2, RangeOfTail
<1>4. pushing'[s] = [event |-> IF failed[s] \/ Clients(s) = {} THEN 0 ELSE Head(inbox[s]),
                     to |-> IF failed[s] THEN {} ELSE Clients(s)]
  BY DEF Deliver
<1>5. /\ pushing'[s].to = IF failed[s] THEN {} ELSE Clients(s)
      /\ pushing'[s].to # {} => pushing'[s].event = Head(inbox[s])
  BY <1>4
<1>6. \A t \in States : t # s => inbox'[t] = inbox[t] /\ pushing'[t] = pushing[t]
  BY DEF Deliver
<1> QED
  BY <1>1, <1>2, <1>3, <1>5, <1>6 DEF Deliver, natsVars, connectionVars

LEMMA NextEvents ==
  ASSUME TypeOK, StatesAreShared, EventsInOrder, [Next]_vars
  PROVE  EventsInOrder'
<1> SUFFICES ASSUME NEW s \in States PROVE InboxInOrder(s)'
  BY DEF EventsInOrder, InboxInOrder
<1>1. InboxInOrder(s)
  BY DEF EventsInOrder, InboxInOrder
<1> USE Typed DEF StatesTyped
<1>2. CASE Publish
  BY <1>1, <1>2, PublishInOrder
<1>3. ASSUME NEW t \in States, Prepare(t)
      PROVE  InboxInOrder(s)'
  <2>1. pushing' = pushing /\ published' = published /\ inbox'[s] \in {inbox[s], <<>>}
    BY <1>3 DEF Prepare, LoadEpoch, Subscribe, Verify, FlushFails, Complete, Drop, PrepareStep,
                CloseSubscription
  <2> QED
    BY <1>1, <2>1, EmptyInOrder DEF InboxInOrder
<1>4. ASSUME NEW t \in States, Deliver(t)
      PROVE  InboxInOrder(s)'
  <2>1. CASE t # s
    BY <1>1, <1>4, <2>1, DeliverEffect DEF InboxInOrder
  <2>2. CASE t = s
    <3>1. /\ inbox[s] # <<>> /\ inbox'[s] = Tail(inbox[s]) /\ inbox[s] \in Seq(Nat)
          /\ Range(inbox[s]) = {Head(inbox[s])} \union Range(inbox'[s])
          /\ pushing'[s].to # {} => pushing'[s].event = Head(inbox[s])
          /\ published' = published
      BY <1>4, <2>2, DeliverEffect
    <3>2. Rising(inbox'[s]) /\ Before({Head(inbox[s])}, Range(inbox'[s]))
      BY <1>1, <3>1, RisingTail DEF InboxInOrder
    <3> QED
      BY <1>1, <3>1, <3>2 DEF InboxInOrder
  <2> QED
    BY <2>1, <2>2
<1>5. ASSUME NEW t \in States, Reject(t)
      PROVE  InboxInOrder(s)'
  <2>1. pushing' = pushing /\ published' = published
    BY <1>5 DEF Reject
  <2>2. CASE t # s
    <3>1. inbox'[s] = inbox[s]
      BY <1>5, <2>2 DEF Reject
    <3> QED
      BY <1>1, <2>1, <3>1 DEF InboxInOrder
  <2>3. CASE t = s
    <3>1. inbox[s] # <<>> /\ inbox'[s] = Tail(inbox[s]) /\ pushing[s].to = {}
      BY <1>5, <2>3 DEF Reject
    <3>2. inbox[s] \in Seq(Nat)
      BY Numbers
    <3>3. Range(inbox'[s]) \subseteq Range(inbox[s])
      BY <3>1, <3>2, RangeOfTail
    <3>4. Rising(inbox[s])
      BY <1>1 DEF InboxInOrder
    <3>5. Rising(Tail(inbox[s]))
      BY <3>1, <3>2, <3>4, RisingTail
    <3> QED
      BY <1>1, <2>1, <3>1, <3>3, <3>5 DEF InboxInOrder
  <2> QED
    BY <2>2, <2>3
<1>6. ASSUME NEW t \in States, Push(t)
      PROVE  InboxInOrder(s)'
  <2>1. /\ inbox' = inbox /\ published' = published
        /\ pushing'[s].to # {} => pushing'[s] = pushing[s]
    BY <1>6 DEF Push
  <2> QED
    BY <1>1, <2>1 DEF InboxInOrder
<1>7. CASE \/ UNCHANGED vars \/ Break \/ Notice \/ Reconnect \/ fail \/ BecomeHealthy \/ Shutdown
           \/ \E t \in States : Register(t) \/ CallListener(t)
           \/ \E c \in Connections, t \in States : reserve(c, t)
           \/ \E c \in Connections : \/ Run(c) \/ Write(c) \/ CloseItself(c) \/ CheckSession(c)
                                     \/ SessionsUnread(c) \/ CloseNext(c) \/ EndSession(c)
  <2>1. UNCHANGED <<inbox, pushing, published>>
    BY <1>7 DEF vars, stateVars, Break, Notice, Reconnect, Relink, fail, BecomeHealthy, Shutdown,
                Register, CallListener, reserve, Run, Start, CheckReady, End, release, Write,
                CloseItself, CheckSession, SessionsUnread, Stop, CloseNext, EndSession
  <2> QED
    BY <1>1, <2>1 DEF InboxInOrder
<1> QED
  BY <1>2, <1>3, <1>4, <1>5, <1>6, <1>7 DEF Next, Broadcast

-----------------------------------------------------------------------------
(* Feeds in order. *)

\* A step that adds nothing to a feed, nor to what comes after it.
LEMMA FeedKeeps ==
  ASSUME NEW c \in Connections, FeedIsInOrder(c), published \in Nat, published' \in Nat,
         published <= published',
         written'[c] = written[c], queue'[c] = queue[c], ready'[c] = ready[c],
         Coming(c)' \subseteq Coming(c)
  PROVE  FeedIsInOrder(c)'
<1>1. Sent(c)' = Sent(c)
  BY DEF Sent
<1>2. 0..published \subseteq 0..published'
  OBVIOUS
<1>3. Before(Sent(c), Coming(c)')
  BY DEF FeedIsInOrder, Before
<1> QED
  BY <1>1, <1>2, <1>3 DEF FeedIsInOrder

\* What comes to an open connection are events.
LEMMA ComingAreEvents ==
  ASSUME ConnectionsAreSound, EventsInOrder, NEW c \in Connections, Open(c)
  PROVE  Coming(c) \subseteq 1..published
<1>1. InboxInOrder(owner[c])
  BY OwnerIsState DEF EventsInOrder, InboxInOrder
<1> QED
  BY <1>1 DEF InboxInOrder, Coming, Pushed

LEMMA PublishFeeds ==
  ASSUME TypeOK, ConnectionsAreSound, StatesAreShared, Publish,
         NEW c \in Connections, Open(c), FeedIsInOrder(c)
  PROVE  FeedIsInOrder(c)'
<1> DEFINE s == owner[c]
<1>1. /\ s \in States /\ published \in Nat /\ published' = published + 1
      /\ pushing' = pushing
      /\ Range(inbox'[s]) \subseteq Range(inbox[s]) \union {published + 1}
  BY OwnerIsState, PublishEffect
<1>2. UNCHANGED <<written, queue, ready, owner>>
  BY DEF Publish, connectionVars
<1>3. Sent(c)' = Sent(c) /\ Sent(c) \subseteq 0..published
  BY <1>2 DEF Sent, FeedIsInOrder
<1>4. Coming(c)' \subseteq Coming(c) \union {published + 1}
  BY <1>1, <1>2 DEF Coming, Pushed
<1>5. \A x \in 0..published : x < published + 1 /\ x \in 0..(published + 1)
  BY <1>1
<1>6. Before(Sent(c), Coming(c)')
  BY <1>3, <1>4, <1>5 DEF Before, FeedIsInOrder
<1>7. Sent(c) \subseteq 0..published'
  BY <1>1, <1>3, <1>5
<1> QED
  BY <1>2, <1>3, <1>6, <1>7 DEF FeedIsInOrder

\* An event is handed to a connection: it comes at the end of the queue, or is lost.
LEMMA PushEffect ==
  ASSUME TypeOK, ConnectionsAreSound, NEW s \in States, Push(s), NEW c \in Connections
  PROVE  /\ UNCHANGED <<link, callbacks, listeners, failing, failed, pc, owner, ready, written,
                        since, inbox, published, sub>>
         /\ \A t \in States : pushing'[t].to = IF t = s THEN {} ELSE pushing[t].to
         /\ \A t \in States : t # s => pushing'[t] = pushing[t]
         /\ \/ /\ c \in pushing[s].to /\ Accepting(c) /\ owner[c] = s
               /\ pushing[s].event \in Nat
               /\ queue'[c] = Append(queue[c], pushing[s].event)
               /\ Range(queue'[c]) = Range(queue[c]) \union {pushing[s].event}
               /\ (stopped'[c] => stopped[c])
            \/ /\ queue'[c] = queue[c]
               /\ c \in pushing[s].to /\ Open(c) => stopped'[c]
<1> USE Typed DEF StatesTyped
<1>1. \A t \in States : pushing'[t] = IF t = s THEN [event |-> 0, to |-> {}] ELSE pushing[t]
  BY DEF Push
<1>2. pushing[s].event \in Nat
  <2>1. pushing[s].event \in 0..MaxEvents
    OBVIOUS
  <2> QED
    BY <2>1
<1>3. Range(Append(queue[c], pushing[s].event)) = Range(queue[c]) \union {pushing[s].event}
  <2> DEFINE e == pushing[s].event
  <2>1. queue[c] \in Seq(Nat) /\ e \in Nat
    BY <1>2, Numbers
  <2> HIDE DEF e
  <2>2. Range(Append(queue[c], e)) = Range(queue[c]) \union {e}
    BY <2>1, RangeOfAppend
  <2> QED
    BY <2>2 DEF e
<1>4. c \in pushing[s].to => owner[c] = s
  BY DEF ConnectionsAreSound
<1>5. /\ queue'[c] = IF c \in pushing[s].to /\ Accepting(c)
                       THEN Append(queue[c], pushing[s].event) ELSE queue[c]
      /\ stopped'[c] <=> stopped[c] \/ (c \in pushing[s].to /\ Overwhelmed(c))
  BY DEF Push, enqueue
<1>6. Accepting(c) => ~Overwhelmed(c)
  BY DEF Accepting, Overwhelmed
<1>7. Open(c) /\ ~Accepting(c) => stopped[c] \/ Overwhelmed(c)
  BY DEF Accepting, Overwhelmed
<1>9. UNCHANGED <<link, callbacks, listeners, failing, failed, pc, owner, ready, written, since,
                  inbox, published, sub>>
  BY DEF Push, natsVars
<1>8. /\ \A t \in States : pushing'[t].to = IF t = s THEN {} ELSE pushing[t].to
      /\ \A t \in States : t # s => pushing'[t] = pushing[t]
  <2>1. pushing'[s].to = {}
    BY <1>1
  <2> QED
    BY <1>1, <2>1
<1> HIDE DEF StatesTyped
<1>10. CASE c \in pushing[s].to /\ Accepting(c)
  <2>1. queue'[c] = Append(queue[c], pushing[s].event) /\ (stopped'[c] => stopped[c])
    BY <1>5, <1>6, <1>10
  <2> QED
    BY <1>2, <1>3, <1>4, <1>8, <1>9, <1>10, <2>1
<1>11. CASE ~(c \in pushing[s].to /\ Accepting(c))
  <2>1. queue'[c] = queue[c] /\ (c \in pushing[s].to /\ Open(c) => stopped'[c])
    BY <1>5, <1>7, <1>11
  <2> QED
    BY <1>8, <1>9, <2>1
<1> QED
  BY <1>10, <1>11

LEMMA PushFeeds ==
  ASSUME TypeOK, ConnectionsAreSound, EventsInOrder, NEW s \in States, Push(s),
         NEW c \in Connections, Open(c), FeedIsInOrder(c)
  PROVE  FeedIsInOrder(c)'
<1>1. /\ owner[c] \in States /\ published' = published /\ published \in Nat
      /\ ready'[c] = ready[c] /\ written'[c] = written[c] /\ inbox' = inbox /\ owner' = owner
      /\ \A t \in States : pushing'[t].to = IF t = s THEN {} ELSE pushing[t].to
      /\ \A t \in States : t # s => pushing'[t] = pushing[t]
  BY OwnerIsState, PushEffect, Numbers
<1>2. Coming(c)' \subseteq Coming(c)
  BY <1>1 DEF Coming, Pushed
<1>3. CASE queue'[c] = queue[c]
  BY <1>1, <1>2, <1>3, FeedKeeps
<1>4. CASE queue'[c] # queue[c]
  <2> DEFINE e == pushing[s].event
  <2>1. /\ c \in pushing[s].to /\ owner[c] = s /\ e \in Nat
        /\ queue'[c] = Append(queue[c], e)
        /\ Range(queue'[c]) = Range(queue[c]) \union {e}
    BY <1>4, PushEffect
  <2>2. e \in 1..published /\ Before({e}, Range(inbox[s]))
    BY <2>1 DEF EventsInOrder
  <2>3. e \in Coming(c) /\ Coming(c)' = Range(inbox[s])
    BY <1>1, <2>1 DEF Coming, Pushed
  <2> HIDE DEF e
  <2>4. Before(Sent(c), {e}) /\ Before(Range(queue[c]), {e}) /\ Before(Range(written[c]), {e})
    BY <2>3 DEF FeedIsInOrder, Before, Sent
  <2>5. Rising(queue'[c])
    <3>1. queue[c] \in Seq(Nat) /\ Rising(queue[c])
      BY Numbers DEF FeedIsInOrder
    <3> QED
      BY <2>1, <2>4, <3>1, RisingAppend
  <2>6. Sent(c)' = Sent(c) \union {e}
    BY <1>1, <2>1 DEF Sent
  <2>7. Before(Range(written'[c]), Range(queue'[c]))
    BY <1>1, <2>1, <2>4 DEF FeedIsInOrder, Before
  <2>8. Before(Sent(c)', Coming(c)')
    <3>1. Before(Sent(c), Range(inbox[s]))
      BY <1>2, <2>3 DEF FeedIsInOrder, Before
    <3> QED
      BY <2>2, <2>3, <2>6, <3>1 DEF Before
  <2>9. e \in 0..published /\ e # 0
    BY <1>1, <2>2
  <2> QED
    BY <1>1, <2>1, <2>5, <2>6, <2>7, <2>8, <2>9 DEF FeedIsInOrder
<1> QED
  BY <1>3, <1>4

\* What a write changes.
LEMMA WriteEffect ==
  ASSUME TypeOK, NEW c \in Connections, Write(c)
  PROVE  /\ UNCHANGED <<link, callbacks, listeners, failing, failed, pc, owner, stopped, ready,
                        since, inbox, pushing, published, sub>>
         /\ queue[c] # <<>> /\ Open(c) /\ ready[c]
         /\ written'[c] = Append(written[c], Head(queue[c])) /\ queue'[c] = Tail(queue[c])
         /\ Head(queue[c]) \in Nat
         /\ Range(queue[c]) = {Head(queue[c])} \union Range(queue'[c])
         /\ Range(written'[c]) = Range(written[c]) \union {Head(queue[c])}
         /\ Sent(c)' = Sent(c)
         /\ \A d \in Connections : d # c => written'[d] = written[d] /\ queue'[d] = queue[d]
<1>1. /\ queue[c] # <<>> /\ Open(c) /\ ready[c]
      /\ written'[c] = Append(written[c], Head(queue[c])) /\ queue'[c] = Tail(queue[c])
      /\ \A d \in Connections : d # c => written'[d] = written[d] /\ queue'[d] = queue[d]
  BY Typed DEF Write, ConnectionsTyped
<1>2. queue[c] \in Seq(Nat) /\ written[c] \in Seq(Nat)
  BY Numbers
<1>3. Head(queue[c]) \in Nat /\ Range(queue[c]) = {Head(queue[c])} \union Range(queue'[c])
  BY <1>1, <1>2, RangeOfTail
<1>4. Range(written'[c]) = Range(written[c]) \union {Head(queue[c])}
  <2> DEFINE e == Head(queue[c])
             q == written[c]
  <2>1. e \in Nat /\ q \in Seq(Nat)
    BY <1>2, <1>3
  <2>2. written'[c] = Append(q, e)
    BY <1>1
  <2> HIDE DEF e, q
  <2>3. Range(Append(q, e)) = Range(q) \union {e}
    BY <2>1, RangeOfAppend
  <2>4. Range(written'[c]) = Range(Append(q, e))
    BY <2>2, Zenon
  <2>5. Range(written'[c]) = Range(q) \union {e}
    BY <2>3, <2>4, Zenon
  <2> QED
    BY <2>5, Zenon DEF e, q
<1>5. Sent(c)' = Sent(c)
  <2> SUFFICES Range(written'[c]) \union Range(queue'[c]) = Range(written[c]) \union Range(queue[c])
    BY DEF Sent
  <2> DEFINE W == Range(written[c])
             e == Head(queue[c])
             V == Range(queue'[c])
  <2>1. (W \union {e}) \union V = W \union ({e} \union V)
    <3> HIDE DEF W, e, V
    <3> QED
      OBVIOUS
  <2> QED
    BY <1>3, <1>4, <2>1, Zenon
<1> QED
  BY <1>1, <1>3, <1>4, <1>5 DEF Write, natsVars, stateVars

LEMMA WriteFeeds ==
  ASSUME TypeOK, NEW c \in Connections, Write(c), FeedIsInOrder(c)
  PROVE  FeedIsInOrder(c)'
<1> DEFINE e == Head(queue[c])
<1>1. /\ UNCHANGED <<owner, ready, inbox, pushing, published>>
      /\ queue[c] # <<>> /\ ready[c]
      /\ written'[c] = Append(written[c], e) /\ queue'[c] = Tail(queue[c]) /\ e \in Nat
      /\ Range(queue[c]) = {e} \union Range(queue'[c])
      /\ Range(written'[c]) = Range(written[c]) \union {e}
      /\ Sent(c)' = Sent(c)
  BY WriteEffect
<1>2. queue[c] \in Seq(Nat) /\ written[c] \in Seq(Nat)
  BY Numbers
<1>3. Rising(Tail(queue[c])) /\ Before({e}, Range(Tail(queue[c])))
  BY <1>1, <1>2, RisingTail DEF FeedIsInOrder
<1> HIDE DEF e
<1>4. Rising(written'[c])
  <2>1. Before(Range(written[c]), {e}) /\ Rising(written[c])
    BY <1>1 DEF FeedIsInOrder, Before
  <2> QED
    BY <1>1, <1>2, <2>1, RisingAppend
<1>5. Before(Range(written'[c]), Range(queue'[c]))
  <2>1. Before(Range(written[c]), Range(queue'[c]))
    BY <1>1 DEF FeedIsInOrder, Before
  <2> QED
    BY <1>1, <1>3, <2>1 DEF Before
<1>6. Coming(c)' = Coming(c)
  BY <1>1 DEF Coming, Pushed
<1> QED
  BY <1>1, <1>3, <1>4, <1>5, <1>6 DEF FeedIsInOrder

\* The end of the wait, for the other connections and for this one.
LEMMA CheckReadyEffect ==
  ASSUME TypeOK, ConnectionsAreSound, NEW c \in Connections, CheckReady(c)
  PROVE  /\ UNCHANGED <<link, callbacks, listeners, failing, failed, owner, inbox, pushing, sub,
                        published, written>>
         /\ pc[c] = "waiting" /\ OpenConnections' = OpenConnections
         /\ ~ready[c] /\ ReadyClosed(owner[c])
         /\ \A d \in Connections : d # c =>
              /\ ready'[d] = ready[d] /\ stopped'[d] = stopped[d]
              /\ queue'[d] = queue[d] /\ since'[d] = since[d]
         /\ \/ /\ stopped'[c] /\ queue'[c] = queue[c] /\ ready'[c] = ready[c]
               /\ since'[c] = since[c]
            \/ /\ queue'[c] = <<0>> \o queue[c] /\ ready'[c] /\ since'[c] = published
               /\ stopped'[c] = stopped[c] /\ ~failed[owner[c]]
               /\ Range(queue'[c]) = {0} \union Range(queue[c])
<1> USE Typed DEF ConnectionsTyped
<1>1. pc[c] = "waiting" /\ OpenConnections' = OpenConnections /\ ReadyClosed(owner[c])
  BY DEF CheckReady, OpenConnections, Open
<1>2. ~ready[c]
  BY <1>1 DEF ConnectionsAreSound
<1>3. UNCHANGED <<link, callbacks, listeners, failing, failed, owner, inbox, pushing, sub,
                  published, written>>
  BY DEF CheckReady, natsVars, stateVars
<1>4. \/ requestClose(c) /\ UNCHANGED <<queue, ready, since>>
      \/ /\ queue' = [queue EXCEPT ![c] = <<0>> \o queue[c]]
         /\ ready' = [ready EXCEPT ![c] = TRUE]
         /\ since' = [since EXCEPT ![c] = published]
         /\ stopped' = stopped /\ ~failed[owner[c]]
  BY DEF CheckReady, activate, ReadyFirst
<1>5. CASE requestClose(c) /\ UNCHANGED <<queue, ready, since>>
  BY <1>1, <1>2, <1>3, <1>5 DEF requestClose
<1>6. CASE /\ queue' = [queue EXCEPT ![c] = <<0>> \o queue[c]]
           /\ ready' = [ready EXCEPT ![c] = TRUE]
           /\ since' = [since EXCEPT ![c] = published]
           /\ stopped' = stopped /\ ~failed[owner[c]]
  <2>1. queue[c] \in Seq(Nat) /\ <<0>> \in Seq(Nat)
    BY Numbers
  <2>2. Range(<<0>> \o queue[c]) = Range(<<0>>) \union Range(queue[c])
    <3> DEFINE p == <<0>>
               q == queue[c]
    <3>1. p \in Seq(Nat) /\ q \in Seq(Nat)
      BY <2>1
    <3> HIDE DEF p, q
    <3>2. Range(p \o q) = Range(p) \union Range(q)
      BY <3>1, RangeConcatenation
    <3> QED
      BY <3>2 DEF p, q
  <2>3. Range(<<0>>) = {0}
    BY DEF Range
  <2>4. /\ queue'[c] = <<0>> \o queue[c] /\ ready'[c] /\ since'[c] = published
        /\ \A d \in Connections : d # c =>
             ready'[d] = ready[d] /\ queue'[d] = queue[d] /\ since'[d] = since[d]
    BY <1>6
  <2>5. Range(queue'[c]) = {0} \union Range(queue[c])
    BY <2>2, <2>3, <2>4, Zenon
  <2> QED
    BY <1>1, <1>2, <1>3, <1>6, <2>4, <2>5
<1> QED
  BY <1>4, <1>5, <1>6

LEMMA CheckReadyFeeds ==
  ASSUME TypeOK, ConnectionsAreSound, EventsInOrder, NEW c \in Connections, CheckReady(c),
         FeedIsInOrder(c)
  PROVE  FeedIsInOrder(c)'
<1>1. /\ UNCHANGED <<owner, inbox, pushing, published, written>> /\ Open(c) /\ ~ready[c]
      /\ published \in Nat
  BY CheckReadyEffect, Numbers DEF Open
<1>2. Coming(c)' = Coming(c)
  BY <1>1 DEF Coming, Pushed
<1>3. CASE queue'[c] = queue[c] /\ ready'[c] = ready[c]
  BY <1>1, <1>2, <1>3, FeedKeeps
<1>4. CASE /\ queue'[c] = <<0>> \o queue[c] /\ ready'[c]
           /\ Range(queue'[c]) = {0} \union Range(queue[c])
  <2>1. written[c] = <<>> /\ 0 \notin Range(queue[c]) /\ Rising(queue[c])
        /\ Range(queue[c]) \subseteq 0..published
    BY <1>1 DEF FeedIsInOrder, Sent
  <2>2. Range(written'[c]) = {} /\ Rising(written'[c]) /\ written'[c] = <<>>
    BY <1>1, <2>1, EmptyInOrder
  <2>3. Rising(queue'[c])
    <3>1. queue[c] \in Seq(Nat) /\ <<0>> \in Seq(Nat) /\ Range(<<0>>) = {0} /\ Rising(<<0>>)
      BY Numbers DEF Range, Rising
    <3>2. \A x \in 0..published : x # 0 => 0 < x
      BY <1>1
    <3>3. Before({0}, Range(queue[c]))
      BY <2>1, <3>2 DEF Before
    <3>4. Rising(<<0>> \o queue[c])
      BY <2>1, <3>1, <3>3, RisingConcat
    <3> QED
      BY <1>4, <3>4
  <2>4. Sent(c)' = {0} \union Sent(c)
    BY <1>1, <1>4, <2>2 DEF Sent
  <2>5. Before(Sent(c)', Coming(c)')
    <3>1. \A x \in 1..published : 0 < x
      OBVIOUS
    <3> QED
      BY <1>1, <1>2, <2>4, <3>1, ComingAreEvents DEF FeedIsInOrder, Before
  <2>6. 0 \in 0..published' /\ 0 \in Sent(c)' /\ Sent(c)' \subseteq 0..published'
    BY <1>1, <2>4 DEF FeedIsInOrder
  <2> QED
    BY <1>4, <2>2, <2>3, <2>5, <2>6 DEF FeedIsInOrder, Before
<1> QED
  BY <1>3, <1>4, CheckReadyEffect

\* What a request begins with.
LEMMA ReserveEffect ==
  ASSUME TypeOK, ConnectionsAreSound, NEW c \in Connections, NEW s \in States, reserve(c, s)
  PROVE  /\ UNCHANGED <<link, callbacks, listeners, failing, failed, stopped, ready, queue,
                        written, since, inbox, pushing, published, sub>>
         /\ ~Open(c) /\ ~ready[c] /\ ~stopped[c] /\ queue[c] = <<>> /\ written[c] = <<>>
         /\ \A t \in States : c \notin pushing[t].to
         /\ owner'[c] = s /\ Open(c)' /\ Joinable(s)
         /\ \A d \in Connections : d # c => owner'[d] = owner[d] /\ (Open(d)' <=> Open(d))
<1>1. pc[c] = "new" /\ owner'[c] = s /\ pc'[c] = "reserved" /\ Joinable(s)
      /\ \A d \in Connections : d # c => owner'[d] = owner[d] /\ pc'[d] = pc[d]
  BY Typed DEF reserve, ConnectionsTyped
<1>2. /\ ~ready[c] /\ ~stopped[c] /\ queue[c] = <<>> /\ written[c] = <<>>
      /\ owner[c] = NoState
  BY <1>1 DEF ConnectionsAreSound
<1>3. \A t \in States : c \notin pushing[t].to
  BY <1>2, GatewayAssumption DEF ConnectionsAreSound
<1> QED
  BY <1>1, <1>2, <1>3 DEF reserve, natsVars, Open

LEMMA NextFeeds ==
  ASSUME TypeOK, ConnectionsAreSound, StatesAreShared, EventsInOrder, FeedsInOrder, TypeOK',
         [Next]_vars
  PROVE  FeedsInOrder'
<1> USE Typed
<1>1. published \in Nat /\ published' \in Nat /\ published <= published'
  <2>1. published' = published \/ published' = published + 1
    BY DEF Next, vars, Publish, Break, Notice, Reconnect, Relink, fail, BecomeHealthy, Shutdown,
           Register, CallListener, Prepare, LoadEpoch, Subscribe, Verify, FlushFails, Complete,
           Drop, PrepareStep, Broadcast, Deliver, Push, Reject, reserve, Run, Start, CheckReady,
           End, release, Write, CloseItself, CheckSession, SessionsUnread, Stop, CloseNext,
           EndSession
  <2>2. published \in Nat
    BY Numbers
  <2> QED
    BY <2>1, <2>2
<1>2. \A c \in Connections : since'[c] <= published'
  <2> SUFFICES ASSUME NEW c \in Connections
               PROVE  since'[c] <= published'
    OBVIOUS
  <2>1. ASSUME NEW d \in Connections, CheckReady(d) \/ End(d)
        PROVE  since'[c] \in {since[c], published, 0}
    BY <2>1 DEF CheckReady, activate, End, release, ConnectionsTyped
  <2>2. since' = since \/ \E d \in Connections : CheckReady(d) \/ End(d)
    BY DEF Next, vars, connectionVars, Publish, Break, Notice, Reconnect, Relink, fail,
           BecomeHealthy, Shutdown, Register, CallListener, Prepare, LoadEpoch, Subscribe, Verify,
           FlushFails, Complete, Drop, PrepareStep, Broadcast, Deliver, Push, Reject, reserve, Run,
           Start, Write, CloseItself, CheckSession, SessionsUnread, Stop, CloseNext, EndSession
  <2>3. since'[c] \in {since[c], published, 0}
    BY <2>1, <2>2
  <2>4. since[c] <= published
    BY DEF FeedsInOrder
  <2>5. since[c] \in Nat
    <3>1. since[c] \in 0..MaxEvents
      BY DEF ConnectionsTyped
    <3> QED
      BY <3>1
  <2> QED
    BY <1>1, <2>3, <2>4, <2>5
<1>3. ASSUME NEW c \in Connections, Open(c)'
      PROVE  FeedIsInOrder(c)'
  <2>1. Open(c) => FeedIsInOrder(c)
    BY DEF FeedsInOrder, OpenConnections
  <2>2. CASE Publish
    <3>1. Open(c)
      BY <1>3, <2>2 DEF Publish, connectionVars, Open
    <3> QED
      BY <2>1, <2>2, <3>1, PublishFeeds
  <2>3. ASSUME NEW s \in States, Prepare(s) \/ Deliver(s) \/ Reject(s)
        PROVE  FeedIsInOrder(c)'
    <3>1. UNCHANGED <<pc, owner, written, queue, ready>>
      BY <2>3 DEF Prepare, LoadEpoch, Subscribe, Verify, FlushFails, Complete, Drop, PrepareStep,
                  Deliver, Reject, connectionVars
    <3>2. Open(c) /\ owner[c] \in States
      BY <1>3, <3>1, OwnerIsState DEF Open
    <3>3. Coming(c)' \subseteq Coming(c)
      <4>1. CASE Prepare(s)
        <5>1. pushing' = pushing /\ inbox'[owner[c]] \in {inbox[owner[c]], <<>>}
          BY <3>2, <4>1 DEF Prepare, LoadEpoch, Subscribe, Verify, FlushFails, Complete, Drop,
                            PrepareStep, CloseSubscription, StatesTyped
        <5> QED
          BY <3>1, <5>1, EmptyInOrder DEF Coming, Pushed
      <4>2. CASE Deliver(s)
        <5>1. CASE owner[c] = s
          <6>1. /\ pushing'[s].to # {} => pushing'[s].event = Head(inbox[s])
                /\ Range(inbox[s]) = {Head(inbox[s])} \union Range(inbox'[s])
            BY <4>2, DeliverEffect
          <6> QED
            BY <3>1, <5>1, <6>1 DEF Coming, Pushed
        <5>2. CASE owner[c] # s
          BY <3>1, <3>2, <4>2, <5>2, DeliverEffect DEF Coming, Pushed
        <5> QED
          BY <5>1, <5>2
      <4>3. CASE Reject(s)
        <5>1. Range(inbox'[owner[c]]) \subseteq Range(inbox[owner[c]])
          <6>1. CASE owner[c] = s
            <7>1. inbox[s] # <<>> /\ inbox'[s] = Tail(inbox[s]) /\ inbox[s] \in Seq(Nat)
              BY <4>3, Numbers DEF Reject, StatesTyped
            <7> QED
              BY <6>1, <7>1, RangeOfTail
          <6>2. CASE owner[c] # s
            BY <3>2, <4>3, <6>2 DEF Reject, StatesTyped
          <6> QED
            BY <6>1, <6>2
        <5> QED
          BY <3>1, <4>3, <5>1 DEF Reject, Coming, Pushed
      <4> QED
        BY <2>3, <4>1, <4>2, <4>3
    <3> QED
      BY <1>1, <2>1, <3>1, <3>2, <3>3, FeedKeeps
  <2>4. ASSUME NEW s \in States, Push(s)
        PROVE  FeedIsInOrder(c)'
    <3>1. Open(c)
      BY <1>3, <2>4 DEF Push, Open
    <3> QED
      BY <2>1, <2>4, <3>1, PushFeeds
  <2>5. ASSUME NEW d \in Connections, NEW s \in States, reserve(d, s)
        PROVE  FeedIsInOrder(c)'
    <3>1. CASE c = d
      <4>1. /\ queue'[c] = <<>> /\ written'[c] = <<>> /\ ready'[c] = ready[c] /\ ~ready[c]
        BY <2>5, <3>1, ReserveEffect
      <4>2. Sent(c)' = {} /\ Range(written'[c]) = {} /\ Range(queue'[c]) = {}
        BY <4>1, EmptyInOrder DEF Sent
      <4> QED
        BY <4>1, <4>2, EmptyInOrder DEF FeedIsInOrder
    <3>2. CASE c # d
      <4>1. /\ Open(c) /\ owner'[c] = owner[c] /\ published' = published
            /\ UNCHANGED <<written, queue, ready, inbox, pushing>>
        BY <1>3, <2>5, <3>2, ReserveEffect
      <4>2. Coming(c)' = Coming(c)
        BY <4>1 DEF Coming, Pushed
      <4> QED
        BY <1>1, <2>1, <4>1, <4>2, FeedKeeps
    <3> QED
      BY <3>1, <3>2
  <2>6. ASSUME NEW d \in Connections, CheckReady(d) \/ End(d) \/ Write(d) \/ Start(d)
        PROVE  FeedIsInOrder(c)'
    <3>1. Open(c) /\ UNCHANGED <<owner, inbox, pushing>>
      <4>1. CASE CheckReady(d)
        BY <1>3, <4>1, CheckReadyEffect DEF OpenConnections
      <4>2. CASE End(d)
        BY <1>3, <4>2, EndEffect DEF OpenConnections
      <4>3. CASE Write(d)
        BY <1>3, <4>3, WriteEffect DEF Open
      <4>4. CASE Start(d)
        BY <1>3, <4>4 DEF Start, Open, ConnectionsTyped
      <4> QED
        BY <2>6, <4>1, <4>2, <4>3, <4>4
    <3>2. CASE c = d /\ CheckReady(d)
      BY <2>1, <3>1, <3>2, CheckReadyFeeds
    <3>3. CASE c = d /\ Write(d)
      BY <2>1, <3>1, <3>3, WriteFeeds
    <3>4. CASE c = d /\ End(d)
      BY <1>3, <3>4, EndEffect DEF OpenConnections
    <3>5. CASE c # d \/ Start(d)
      <4>1. written'[c] = written[c] /\ queue'[c] = queue[c] /\ ready'[c] = ready[c]
        <5>1. CASE CheckReady(d) /\ c # d
          BY <5>1, CheckReadyEffect
        <5>2. CASE End(d) /\ c # d
          BY <5>2, EndEffect
        <5>3. CASE Write(d) /\ c # d
          BY <5>3, WriteEffect
        <5>4. CASE Start(d)
          BY <5>4 DEF Start
        <5> QED
          BY <2>6, <3>5, <5>1, <5>2, <5>3, <5>4
      <4>2. Coming(c)' = Coming(c)
        BY <3>1 DEF Coming, Pushed
      <4> QED
        BY <1>1, <2>1, <3>1, <4>1, <4>2, FeedKeeps
    <3> QED
      BY <2>6, <3>2, <3>3, <3>4, <3>5
  <2>7. CASE \/ UNCHANGED vars \/ Break \/ Notice \/ Reconnect \/ fail \/ BecomeHealthy \/ Shutdown
             \/ \E s \in States : Register(s) \/ CallListener(s)
             \/ \E d \in Connections : \/ CloseItself(d) \/ CheckSession(d) \/ SessionsUnread(d)
                                       \/ CloseNext(d) \/ EndSession(d)
    <3>1. UNCHANGED <<pc, owner, written, queue, ready, inbox, pushing, published>>
      BY <2>7 DEF vars, stateVars, connectionVars, Break, Notice, Reconnect, Relink, fail,
                  BecomeHealthy, Shutdown, Register, CallListener, CloseItself, CheckSession,
                  SessionsUnread, Stop, CloseNext, EndSession
    <3>2. Open(c) /\ Coming(c)' = Coming(c)
      BY <1>3, <3>1 DEF Open, Coming, Pushed
    <3> QED
      BY <1>1, <2>1, <3>1, <3>2, FeedKeeps
  <2> QED
    BY <2>2, <2>3, <2>4, <2>5, <2>6, <2>7 DEF Next, Broadcast, Run
<1> QED
  BY <1>2, <1>3 DEF FeedsInOrder, OpenConnections

-----------------------------------------------------------------------------
(* Nothing is missed. *)

\* No event is missing when nothing has come since the last one.
LEMMA CoversNothing ==
  ASSUME NEW n \in Nat
  PROVE  Covers({}, n, n)
<1>1. n + 1 \in 1..(n + 1) /\ {} = (n + 1)..n
  OBVIOUS
<1> QED
  BY <1>1 DEF Covers

\* The next event comes at the end.
LEMMA CoversNext ==
  ASSUME NEW n \in Nat, NEW e \in Nat, e <= n, NEW E, Covers(E, e, n)
  PROVE  Covers(E \union {n + 1}, e, n + 1) /\ Covers(E \union {n + 1}, n + 1, n + 1)
<1>1. PICK a \in 1..(e + 1) : E = a..n
  BY DEF Covers
<1>2. a \in Nat /\ a <= n + 1 /\ a \in 1..((n + 1) + 1)
  OBVIOUS
<1>3. (a..n) \union {n + 1} = a..(n + 1)
  BY <1>2
<1> QED
  BY <1>1, <1>2, <1>3 DEF Covers

\* The first event goes.
LEMMA CoversRest ==
  ASSUME NEW n \in Nat, NEW R, NEW h \in Nat, Covers({h} \union R, n, n), Before({h}, R)
  PROVE  Covers(R, n, n)
<1>1. PICK a \in 1..(n + 1) : {h} \union R = a..n
  BY DEF Covers
<1>2. h \in a..n /\ a \in Nat /\ a <= h /\ h <= n
  BY <1>1
<1>3. a = h
  <2>1. a \in a..n
    BY <1>2
  <2>2. a = h \/ a \in R
    BY <1>1, <2>1
  <2>3. a \in R => h < a
    BY DEF Before
  <2> QED
    BY <1>2, <2>2, <2>3
<1>4. R = (a + 1)..n
  <2>1. ASSUME NEW x \in R PROVE x \in (a + 1)..n
    <3>1. x \in a..n /\ h < x
      BY <1>1 DEF Before
    <3> QED
      BY <1>2, <1>3, <3>1
  <2>2. ASSUME NEW x \in (a + 1)..n PROVE x \in R
    <3>1. x \in a..n /\ x # h
      BY <1>2, <1>3, <2>2
    <3> QED
      BY <1>1, <3>1
  <2> QED
    BY <2>1, <2>2
<1>5. a + 1 \in 1..(n + 1)
  BY <1>2, <1>3
<1> QED
  BY <1>4, <1>5 DEF Covers

\* A feed to which nothing happens.
LEMMA FeedStays ==
  ASSUME NEW c \in Connections, FeedIsComplete(c), Events(c)' = Events(c),
         ready'[c] = ready[c], since'[c] = since[c], published' = published
  PROVE  FeedIsComplete(c)'
BY DEF FeedIsComplete

\* A state to which nothing comes before the server knows it.
LEMMA QuietMissesNothing ==
  ASSUME TypeOK', ConnectionsAreSound', FeedsInOrder', NEW s \in States, Quiet(s)',
         \A c \in Clients(s)' : ~ready'[c]
  PROVE  /\ Covers(Range(inbox'[s]), published', published')
         /\ \A c \in Clients(s)' : FeedIsComplete(c)'
<1>1. published' \in Nat
  <2>1. published' \in 0..MaxEvents
    BY Typed DEF OthersTyped
  <2> QED
    BY <2>1
<1>2. Covers({}, published', published')
  BY <1>1, CoversNothing
<1>3. Range(inbox'[s]) = {}
  BY EmptyInOrder DEF Quiet
<1>4. ASSUME NEW c \in Clients(s)' PROVE FeedIsComplete(c)'
  <2>1. c \in OpenConnections' /\ owner'[c] = s /\ ~ready'[c]
    BY DEF Clients
  <2>2. written'[c] = <<>> /\ queue'[c] = <<>>
    BY <2>1 DEF FeedsInOrder, FeedIsInOrder, Quiet
  <2>3. Sent(c)' = {}
    BY <2>2, EmptyInOrder DEF Sent
  <2>4. Coming(c)' = {}
    BY <1>3, <2>1 DEF Coming, Pushed, Quiet
  <2>5. Events(c)' = {}
    BY <2>3, <2>4 DEF Events
  <2> QED
    BY <1>2, <2>1, <2>5 DEF FeedIsComplete
<1> QED
  BY <1>2, <1>3, <1>4

LEMMA PublishMissesNothing ==
  ASSUME IInv, TypeOK', ConnectionsAreSound', FeedsInOrder', Publish,
         NEW s \in States, Good(s), Good(s)'
  PROVE  /\ Covers(Range(inbox'[s]), published', published')
         /\ \A c \in Clients(s)' : ~stopped'[c] => FeedIsComplete(c)'
<1> USE DEF IInv
<1>1. /\ published' = published + 1 /\ published \in Nat
      /\ sub' = sub /\ pushing' = pushing
      /\ sub[s] = "registered" => inbox'[s] = Append(inbox[s], published + 1)
  BY PublishEffect DEF Good
<1>2. UNCHANGED <<pc, owner, written, queue, ready, stopped, since, stage>> /\ Clients(s)' = Clients(s)
  BY DEF Publish, connectionVars, Clients, OpenConnections, Open
<1>3. CASE sub[s] = "registered"
  <2>1. Range(inbox'[s]) = Range(inbox[s]) \union {published + 1}
    <3>1. inbox'[s] # inbox[s]
      <4>1. inbox[s] \in Seq(Nat) /\ published + 1 \in Nat
        BY <1>1, Numbers
      <4>2. Len(Append(inbox[s], published + 1)) = Len(inbox[s]) + 1 /\ Len(inbox[s]) \in Nat
        BY <4>1, AppendProperties, LenProperties
      <4> QED
        BY <1>1, <1>3, <4>2
    <3> QED
      BY <3>1, PublishEffect
  <2>2. Covers(Range(inbox'[s]), published', published')
    <3>1. Covers(Range(inbox[s]), published, published)
      BY DEF NothingMissed
    <3> QED
      BY <1>1, <2>1, <3>1, CoversNext
  <2>3. ASSUME NEW c \in Clients(s), ~stopped[c]
        PROVE  FeedIsComplete(c)'
    <3> DEFINE e == IF ready[c] THEN since[c] ELSE published
    <3>1. c \in Connections /\ owner[c] = s /\ Covers(Events(c), e, published)
      BY <2>3 DEF NothingMissed, FeedIsComplete, Clients, OpenConnections
    <3>2. e \in Nat /\ e <= published
      <4>1. since[c] \in 0..MaxEvents /\ since[c] <= published
        BY <3>1, Typed DEF ConnectionsTyped, FeedsInOrder
      <4>2. since[c] \in Nat
        BY <4>1
      <4> QED
        BY <1>1, <4>1, <4>2
    <3>3. Events(c)' = Events(c) \union {published + 1}
      <4>1. Sent(c)' = Sent(c)
        BY <1>2 DEF Sent
      <4>2. Coming(c)' = Coming(c) \union {published + 1}
        BY <1>1, <1>2, <2>1, <3>1 DEF Coming, Pushed
      <4>3. published + 1 # 0
        BY <1>1
      <4> QED
        BY <4>1, <4>2, <4>3 DEF Events
    <3>4. Covers(Events(c)', e, published + 1) /\ Covers(Events(c)', published + 1, published + 1)
      <4> HIDE DEF e
      <4> QED
        BY <1>1, <3>1, <3>2, <3>3, CoversNext
    <3> QED
      BY <1>1, <1>2, <3>4 DEF FeedIsComplete
  <2> QED
    BY <1>2, <2>2, <2>3
<1>4. CASE sub[s] # "registered"
  <2>1. StateIsShared(s) /\ Quiet(s)
    <3>1. sub[s] = "sent"
      <4>1. sub[s] \in {"none", "sent", "registered"}
        BY Typed DEF StatesTyped
      <4> QED
        BY <1>4, <4>1 DEF StatesAreShared, Good
    <3> QED
      BY <3>1 DEF StatesAreShared, StateIsShared, SubscriptionsAreSound
  <2>2. ReadyClosed(s) => Clients(s) = {}
    <3>1. stage[s] # "live"
      BY <1>4 DEF SubscriptionsAreSound
    <3> QED
      BY <2>1, <3>1 DEF StateIsShared, ReadyClosed, Good
  <2>3. Quiet(s)'
    BY <1>4, <2>1, <2>2, QuietStays DEF Next
  <2>4. \A c \in Clients(s)' : ~ready'[c]
    BY <1>2, <2>2 DEF Clients, OpenConnections, ConnectionsAreSound
  <2> QED
    BY <2>3, <2>4, QuietMissesNothing
<1> QED
  BY <1>3, <1>4

LEMMA DeliverMissesNothing ==
  ASSUME IInv, NEW t \in States, Deliver(t), NEW s \in States, Good(s)
  PROVE  /\ Covers(Range(inbox'[s]), published', published')
         /\ \A c \in Clients(s)' : ~stopped'[c] => FeedIsComplete(c)'
<1> USE DEF IInv
<1>1. /\ UNCHANGED <<failed, pc, owner, stopped, ready, queue, written, since, published>>
      /\ Clients(s)' = Clients(s)
  BY DeliverEffect DEF Clients, OpenConnections, Open
<1>2. /\ Covers(Range(inbox[s]), published, published)
      /\ \A c \in Clients(s) : ~stopped[c] => FeedIsComplete(c)
  BY DEF NothingMissed
<1>3. CASE t # s
  <2>1. inbox'[s] = inbox[s] /\ pushing'[s] = pushing[s]
    BY <1>3, DeliverEffect
  <2>2. \A c \in Clients(s) : c \in Connections /\ Events(c)' = Events(c)
    BY <1>1, <2>1 DEF Events, Sent, Coming, Pushed, Clients, OpenConnections
  <2> QED
    BY <1>1, <1>2, <2>1, <2>2, FeedStays
<1>4. CASE t = s
  <2> DEFINE h == Head(inbox[s])
  <2>1. /\ inbox[s] # <<>> /\ pushing[s].to = {} /\ inbox'[s] = Tail(inbox[s])
        /\ inbox[s] \in Seq(Nat)
        /\ Range(inbox[s]) = {h} \union Range(inbox'[s])
        /\ pushing'[s].to = Clients(s)
        /\ pushing'[s].to # {} => pushing'[s].event = h
    BY <1>4, DeliverEffect DEF Good
  <2>2. h \in Nat /\ Before({h}, Range(inbox'[s])) /\ published \in Nat
    BY <2>1, RisingTail, RangeOfTail, Numbers DEF EventsInOrder
  <2> HIDE DEF h
  <2>3. Covers(Range(inbox'[s]), published, published)
    BY <1>2, <2>1, <2>2, CoversRest
  <2>4. ASSUME NEW c \in Clients(s)
        PROVE  c \in Connections /\ Events(c)' = Events(c)
    <3>1. c \in Connections /\ owner[c] = s
      BY DEF Clients, OpenConnections
    <3>2. Coming(c) = Range(inbox[s]) /\ Coming(c)' = {h} \union Range(inbox'[s])
      BY <1>1, <2>1, <2>4, <3>1 DEF Coming, Pushed
    <3> QED
      BY <1>1, <2>1, <3>1, <3>2 DEF Events, Sent
  <2> QED
    BY <1>1, <1>2, <2>3, <2>4, FeedStays
<1> QED
  BY <1>3, <1>4

LEMMA PushMissesNothing ==
  ASSUME IInv, NEW t \in States, Push(t), NEW s \in States, Good(s)
  PROVE  /\ Covers(Range(inbox'[s]), published', published')
         /\ \A c \in Clients(s)' : ~stopped'[c] => FeedIsComplete(c)'
<1> USE DEF IInv
<1>1. inbox' = inbox /\ published' = published /\ Clients(s)' = Clients(s)
  BY DEF Push, Clients, OpenConnections, Open
<1>2. Covers(Range(inbox[s]), published, published)
  BY DEF NothingMissed
<1>3. ASSUME NEW c \in Clients(s), ~stopped'[c]
      PROVE  FeedIsComplete(c)'
  <2>1. c \in Connections /\ owner[c] = s /\ Open(c)
    BY DEF Clients, OpenConnections
  <2>2. /\ UNCHANGED <<owner, ready, written, since, inbox, published>>
        /\ \A r \in States : pushing'[r].to = IF r = t THEN {} ELSE pushing[r].to
        /\ \A r \in States : r # t => pushing'[r] = pushing[r]
        /\ \/ /\ c \in pushing[t].to /\ owner[c] = t
              /\ Range(queue'[c]) = Range(queue[c]) \union {pushing[t].event}
           \/ queue'[c] = queue[c] /\ c \notin pushing[t].to
    BY <1>3, <2>1, PushEffect
  <2>3. ~stopped[c]
    BY <1>3, <2>1 DEF Push, enqueue
  <2>4. FeedIsComplete(c)
    BY <2>3 DEF NothingMissed
  <2>5. CASE /\ c \in pushing[t].to /\ owner[c] = t
             /\ Range(queue'[c]) = Range(queue[c]) \union {pushing[t].event}
    <3> DEFINE e == pushing[t].event
    <3>1. Sent(c)' = Sent(c) \union {e}
      BY <2>2, <2>5 DEF Sent
    <3>2. Coming(c) = {e} \union Range(inbox[s]) /\ Coming(c)' = Range(inbox[s])
      BY <2>1, <2>2, <2>5 DEF Coming, Pushed
    <3> HIDE DEF e
    <3>3. Events(c)' = Events(c)
      BY <3>1, <3>2 DEF Events
    <3> QED
      BY <2>1, <2>2, <2>4, <3>3, FeedStays
  <2>6. CASE queue'[c] = queue[c] /\ c \notin pushing[t].to
    <3>1. Sent(c)' = Sent(c) /\ Coming(c)' = Coming(c)
      BY <2>1, <2>2, <2>6 DEF Sent, Coming, Pushed
    <3>2. Events(c)' = Events(c)
      BY <3>1 DEF Events
    <3> QED
      BY <2>1, <2>2, <2>4, <3>2, FeedStays
  <2> QED
    BY <2>2, <2>5, <2>6
<1> QED
  BY <1>1, <1>2, <1>3

\* Requests.
LEMMA RequestsMissNothing ==
  ASSUME IInv, NEW d \in Connections, NEW s \in States, Good(s),
         \/ \E t \in States : reserve(d, t)
         \/ CheckReady(d) \/ Write(d) \/ End(d)
  PROVE  /\ Covers(Range(inbox'[s]), published', published')
         /\ \A c \in Clients(s)' : ~stopped'[c] => FeedIsComplete(c)'
<1> USE DEF IInv
<1>1. /\ Covers(Range(inbox[s]), published, published) /\ published \in Nat
      /\ \A c \in Clients(s) : ~stopped[c] => FeedIsComplete(c)
  BY Numbers DEF NothingMissed
<1>2. UNCHANGED <<inbox, pushing, published>>
  BY ReserveEffect, CheckReadyEffect, WriteEffect, EndEffect
<1>3. ASSUME NEW c \in Clients(s)', ~stopped'[c], c # d
      PROVE  FeedIsComplete(c)'
  <2>1. /\ c \in Clients(s) /\ c \in Connections /\ owner'[c] = owner[c]
        /\ queue'[c] = queue[c] /\ written'[c] = written[c] /\ ready'[c] = ready[c]
        /\ since'[c] = since[c] /\ stopped'[c] = stopped[c]
    <3>1. c \in Connections /\ Open(c)' /\ owner'[c] = s
      BY <1>3 DEF Clients, OpenConnections
    <3>2. CASE \E t \in States : reserve(d, t)
      BY <1>3, <3>1, <3>2, ReserveEffect DEF Clients, OpenConnections
    <3>3. CASE CheckReady(d)
      BY <1>3, <3>1, <3>3, CheckReadyEffect DEF Clients, OpenConnections
    <3>4. CASE Write(d)
      BY <1>3, <3>1, <3>4, WriteEffect DEF Clients, OpenConnections, Open
    <3>5. CASE End(d)
      BY <1>3, <3>1, <3>5, EndEffect DEF Clients, OpenConnections
    <3> QED
      BY <3>2, <3>3, <3>4, <3>5
  <2>2. Events(c)' = Events(c)
    BY <1>2, <2>1 DEF Events, Sent, Coming, Pushed
  <2> QED
    BY <1>1, <1>2, <1>3, <2>1, <2>2, FeedStays
<1>4. ASSUME d \in Clients(s)', ~stopped'[d]
      PROVE  FeedIsComplete(d)'
  <2>1. CASE \E t \in States : reserve(d, t)
    <3>1. /\ owner'[d] = s /\ queue'[d] = <<>> /\ written'[d] = <<>> /\ ~ready'[d]
          /\ d \notin pushing'[s].to
      BY <1>4, <2>1, ReserveEffect DEF Clients
    <3>2. Sent(d)' = {} /\ Coming(d)' = Range(inbox[s])
      BY <1>2, <3>1, EmptyInOrder DEF Sent, Coming, Pushed
    <3>3. 0 \notin Range(inbox[s])
      <4>1. 0 \notin 1..published
        BY <1>1
      <4> QED
        BY <4>1 DEF EventsInOrder
    <3>4. Events(d)' = Range(inbox[s])
      BY <3>2, <3>3 DEF Events
    <3> QED
      BY <1>1, <1>2, <3>1, <3>4 DEF FeedIsComplete
  <2>2. CASE CheckReady(d)
    <3>1. d \in Clients(s) /\ owner' = owner /\ written' = written
      BY <1>4, <2>2, CheckReadyEffect DEF Clients
    <3>2. /\ queue'[d] = <<0>> \o queue[d] /\ ready'[d] /\ since'[d] = published
          /\ stopped'[d] = stopped[d] /\ ~ready[d]
          /\ Range(queue'[d]) = {0} \union Range(queue[d])
      BY <1>4, <2>2, CheckReadyEffect
    <3>3. Events(d)' = Events(d)
      <4>1. Sent(d)' = Sent(d) \union {0}
        BY <3>1, <3>2 DEF Sent
      <4>2. Coming(d)' = Coming(d)
        BY <1>2, <3>1 DEF Coming, Pushed
      <4> QED
        BY <4>1, <4>2 DEF Events
    <3>4. FeedIsComplete(d)
      BY <1>1, <1>4, <3>1, <3>2
    <3> QED
      BY <1>2, <3>2, <3>3, <3>4 DEF FeedIsComplete
  <2>3. CASE Write(d)
    <3>1. d \in Clients(s) /\ UNCHANGED <<owner, stopped, ready, since>> /\ Sent(d)' = Sent(d)
      BY <1>4, <2>3, WriteEffect DEF Clients, OpenConnections, Open
    <3>2. Events(d)' = Events(d)
      BY <1>2, <3>1 DEF Events, Coming, Pushed
    <3> QED
      BY <1>1, <1>2, <1>4, <3>1, <3>2, FeedStays
  <2>4. CASE End(d)
    BY <1>4, <2>4, EndEffect
  <2> QED
    BY <2>1, <2>2, <2>3, <2>4
<1> QED
  BY <1>1, <1>2, <1>3, <1>4

LEMMA NextMissesNothing ==
  ASSUME IInv, TypeOK', ConnectionsAreSound', FeedsInOrder', [Next]_vars
  PROVE  NothingMissed'
<1> SUFFICES ASSUME NEW s \in States, Good(s)'
             PROVE  /\ Covers(Range(inbox'[s]), published', published')
                    /\ \A c \in Clients(s)' : ~stopped'[c] => FeedIsComplete(c)'
  BY DEF NothingMissed
<1> USE DEF IInv
<1>1. Good(s) \/ Subscribe(s)
  BY StaysGood
<1>2. CASE Subscribe(s)
  <2>1. stage[s] = "loaded" /\ UNCHANGED <<pc, owner, ready>>
    BY <1>2 DEF Subscribe, PrepareStep, connectionVars
  <2>2. Quiet(s) /\ sub[s] # "registered" /\ ~ReadyClosed(s)
    BY <2>1 DEF SubscriptionsAreSound, Early, StatesAreShared, Subscribed, ReadyClosed
  <2>3. Quiet(s)'
    BY <2>2, QuietStays
  <2>4. \A c \in Clients(s)' : ~ready'[c]
    BY <2>1, <2>2 DEF Clients, OpenConnections, Open, ConnectionsAreSound
  <2> QED
    BY <2>3, <2>4, QuietMissesNothing
<1>3. CASE Good(s)
  <2>1. CASE Publish
    BY <1>3, <2>1, PublishMissesNothing
  <2>2. CASE \E t \in States : Deliver(t)
    BY <1>3, <2>2, DeliverMissesNothing
  <2>3. CASE \E t \in States : Push(t)
    BY <1>3, <2>3, PushMissesNothing
  <2>4. CASE \E c \in Connections : \/ \E t \in States : reserve(c, t)
                                    \/ CheckReady(c) \/ Write(c) \/ End(c)
    BY <1>3, <2>4, RequestsMissNothing
  <2>5. CASE \/ UNCHANGED vars \/ Break \/ Notice \/ Reconnect \/ fail \/ BecomeHealthy \/ Shutdown
             \/ \E t \in States : Register(t) \/ CallListener(t) \/ Prepare(t) \/ Reject(t)
             \/ \E c \in Connections : \/ Start(c) \/ CloseItself(c) \/ CheckSession(c)
                                       \/ SessionsUnread(c) \/ CloseNext(c) \/ EndSession(c)
    <3>1. /\ UNCHANGED <<owner, written, queue, ready, since, published, pushing>>
          /\ OpenConnections' = OpenConnections
          /\ \A c \in Connections : stopped[c] => stopped'[c]
      BY <2>5, Typed
         DEF vars, stateVars, connectionVars, Break, Notice, Reconnect, Relink, fail,
             BecomeHealthy, Shutdown, Register, CallListener, Prepare, LoadEpoch, Subscribe, Verify,
             FlushFails, Complete, Drop, PrepareStep, Reject, Start, CloseItself, CheckSession,
             SessionsUnread, Stop, CloseNext, EndSession, requestClose, ConnectionsTyped,
             OpenConnections, Open
    <3>2. inbox'[s] = inbox[s]
      <4>1. ASSUME NEW t \in States, Prepare(t)
            PROVE  inbox'[s] = inbox[s]
        BY <4>1, Typed DEF Prepare, LoadEpoch, Subscribe, Verify, FlushFails, Complete, Drop,
                           CloseSubscription, Good, StatesTyped
      <4>2. ASSUME NEW t \in States, Reject(t)
            PROVE  inbox'[s] = inbox[s]
        BY <4>2, Typed DEF Reject, failUser, Good, StatesTyped
      <4>3. CASE ~\E t \in States : Prepare(t) \/ Reject(t)
        BY <2>5, <4>3
           DEF vars, stateVars, Break, Notice, Reconnect, Relink, fail, BecomeHealthy, Shutdown,
               Register, CallListener, Start, CloseItself, CheckSession, SessionsUnread, Stop,
               CloseNext, EndSession
      <4> QED
        BY <4>1, <4>2, <4>3
    <3>3. Clients(s)' = Clients(s)
      BY <3>1 DEF Clients
    <3>4. ASSUME NEW c \in Clients(s), ~stopped'[c]
          PROVE  FeedIsComplete(c)'
      <4>1. c \in Connections /\ owner[c] = s /\ ~stopped[c]
        BY <3>1, <3>4 DEF Clients, OpenConnections
      <4>2. FeedIsComplete(c)
        BY <1>3, <4>1 DEF NothingMissed
      <4>3. Events(c)' = Events(c)
        BY <3>1, <3>2, <4>1 DEF Events, Sent, Coming, Pushed
      <4> QED
        BY <3>1, <4>1, <4>2, <4>3, FeedStays
    <3> QED
      BY <1>3, <3>1, <3>2, <3>3, <3>4 DEF NothingMissed
  <2> QED
    BY <2>1, <2>2, <2>3, <2>4, <2>5 DEF Next, Broadcast, Run
<1> QED
  BY <1>1, <1>2, <1>3

-----------------------------------------------------------------------------
(* The theorems. *)

\* No connection, no state, nothing published: the invariant holds at the start.
THEOREM Initially == Init => IInv
<1> SUFFICES ASSUME Init PROVE IInv
  OBVIOUS
<1> USE DEF Init
<1>1. TypeOK
  <2>1. 0 \in 0..MaxEvents /\ 0 \in 0..MaxBreaks /\ 0 <= MaxPending /\ 0 <= QueueMessages
    BY GatewayAssumption
  <2>2. <<>> \in Seq(1..MaxEvents) /\ <<>> \in Seq(0..MaxEvents) /\ Len(<<>>) = 0
    OBVIOUS
  <2>3. NatsTyped /\ OthersTyped
    BY <2>1 DEF NatsTyped, OthersTyped
  <2>4. StatesTyped
    BY <2>1, <2>2 DEF StatesTyped, Stages
  <2>5. ConnectionsTyped
    BY <2>1, <2>2 DEF ConnectionsTyped
  <2> QED
    BY <2>3, <2>4, <2>5, Typed
<1>2. OpenConnections = {} /\ \A s \in States : Clients(s) = {}
  BY DEF OpenConnections, Open, Clients
<1>3. ConnectionsAreSound
  BY DEF ConnectionsAreSound
<1>4. StatesAreShared
  BY <1>2, FS_EmptySet DEF StatesAreShared, Subscribed
<1>5. FailedAreClosing
  BY <1>2 DEF FailedAreClosing
<1>6. SubscriptionsAreSound
  BY <1>2 DEF SubscriptionsAreSound, Quiet, Good
<1>7. EventsInOrder
  BY EmptyInOrder DEF EventsInOrder
<1>8. FeedsInOrder
  BY <1>2 DEF FeedsInOrder
<1>9. NothingMissed
  BY DEF NothingMissed, Good
<1> QED
  BY <1>1, <1>3, <1>4, <1>5, <1>6, <1>7, <1>8, <1>9 DEF IInv

\* Every step of the gateway, of its subscriber and of the link preserves the invariant.
THEOREM Inductive == IInv /\ [Next]_vars => IInv'
<1> SUFFICES ASSUME IInv, [Next]_vars PROVE IInv'
  OBVIOUS
<1>1. TypeOK'
  BY NextTyped
<1>2. /\ TypeOK /\ ConnectionsAreSound /\ StatesAreShared /\ FailedAreClosing
      /\ SubscriptionsAreSound /\ EventsInOrder /\ FeedsInOrder
  BY DEF IInv
<1>3. ConnectionsAreSound' /\ StatesAreShared' /\ FailedAreClosing'
  BY <1>2, NextConnections, NextShared, NextFailed
<1>4. SubscriptionsAreSound' /\ EventsInOrder'
  BY <1>1, <1>2, NextSubscriptions, NextEvents
<1>5. FeedsInOrder'
  BY <1>1, <1>2, NextFeeds
<1>6. NothingMissed'
  BY <1>1, <1>3, <1>5, NextMissesNothing
<1> QED
  BY <1>1, <1>3, <1>4, <1>5, <1>6 DEF IInv

\* Everything that the gateway relies on holds in every state of every behaviour.
THEOREM InductiveInvariant == Spec => []IInv
BY Initially, Inductive, PTL DEF Spec

\* What the gateway and the subscriber keep in memory has its types: among them the bounds
\* of a connection's queue and of the events that a subscription holds.
THEOREM TypesAreKept == Spec => []TypeOK
<1>1. IInv => TypeOK
  BY DEF IInv
<1> QED
  BY <1>1, InductiveInvariant, PTL

\* The connections of a user share one subscription, however joins, ends, failures and the
\* preparation of the state meet.
THEOREM OneSubscription == Spec => []SharedSubscription
<1>1. IInv => SharedSubscription
  BY DEF IInv, StatesAreShared, SharedSubscription, Subscribed
<1> QED
  BY <1>1, InductiveInvariant, PTL

\* A sequence that goes up and has a zero begins with it.
LEMMA ZeroIsFirst ==
  ASSUME NEW q \in Seq(Nat), Rising(q), 0 \in Range(q)
  PROVE  q # <<>> /\ q[1] = 0
<1>1. PICK i \in 1..Len(q) : q[i] = 0
  BY RangeEquality
<1>2. Len(q) \in Nat /\ 1 \in 1..Len(q)
  BY LenProperties
<1>3. q[1] \in Nat
  BY <1>2, ElementOfSeq
<1>4. i = 1 \/ 1 < i
  OBVIOUS
<1>5. 1 < i => q[1] < q[i]
  BY <1>2 DEF Rising
<1>6. q # <<>>
  BY <1>2
<1> QED
  BY <1>1, <1>3, <1>4, <1>5, <1>6

\* What was written and what waits in the queue go up together.
LEMMA SentGoesUp ==
  ASSUME TypeOK, NEW c \in Connections, FeedIsInOrder(c)
  PROVE  /\ written[c] \o queue[c] \in Seq(Nat)
         /\ Rising(written[c] \o queue[c])
         /\ Range(written[c] \o queue[c]) = Sent(c)
<1>1. written[c] \in Seq(Nat) /\ queue[c] \in Seq(Nat)
  BY Numbers
<1> QED
  BY <1>1, ConcatProperties, RisingConcat, RangeConcatenation DEF FeedIsInOrder, Sent

\* A client is sent the ready message first, and then events that go up.
THEOREM FeedsGoUp == Spec => []FeedInOrder
<1>1. IInv => FeedInOrder
  <2> SUFFICES ASSUME IInv, NEW c \in OpenConnections
               PROVE  LET feed == written[c] \o queue[c]
                      IN IF ready[c]
                         THEN feed[1] = 0 /\ \A i, j \in 1..Len(feed) : i < j => feed[i] < feed[j]
                         ELSE written[c] = <<>>
    BY DEF FeedInOrder
  <2>1. c \in Connections /\ FeedIsInOrder(c)
    BY DEF IInv, FeedsInOrder, OpenConnections
  <2> DEFINE feed == written[c] \o queue[c]
  <2>2. feed \in Seq(Nat) /\ Rising(feed) /\ Range(feed) = Sent(c)
    BY <2>1, SentGoesUp DEF IInv
  <2> HIDE DEF feed
  <2>3. ready[c] => feed[1] = 0
    BY <2>1, <2>2, ZeroIsFirst DEF FeedIsInOrder
  <2>4. \A i, j \in 1..Len(feed) : i < j => feed[i] < feed[j]
    BY <2>2 DEF Rising
  <2> QED
    BY <2>1, <2>3, <2>4 DEF feed, FeedIsInOrder
<1> QED
  BY <1>1, InductiveInvariant, PTL

\* What the client of c was sent and what comes go up together.
LEMMA StreamGoesUp ==
  ASSUME IInv, NEW c \in OpenConnections
  PROVE  /\ Stream(c) \in Seq(Nat) /\ Rising(Stream(c))
         /\ Range(Stream(c)) = Sent(c) \union Coming(c)
<1> DEFINE s == owner[c]
           e == pushing[s].event
           feed == written[c] \o queue[c]
           p == IF c \in pushing[s].to THEN <<e>> ELSE <<>>
           i == inbox[s]
<1>1. c \in Connections /\ s \in States /\ FeedIsInOrder(c) /\ InboxInOrder(s) /\ TypeOK
  BY OwnerIsState DEF IInv, FeedsInOrder, EventsInOrder, InboxInOrder, OpenConnections
<1>2. feed \in Seq(Nat) /\ Rising(feed) /\ Range(feed) = Sent(c)
  BY <1>1, SentGoesUp
<1>3. i \in Seq(Nat) /\ Rising(i)
  BY <1>1, Numbers DEF InboxInOrder
<1>4. p \in Seq(Nat) /\ Rising(p) /\ Range(p) = Pushed(c)
  <2>1. CASE c \in pushing[s].to
    <3>1. e \in 0..MaxEvents
      BY <1>1, Typed DEF StatesTyped
    <3>2. e \in Nat /\ p = <<e>> /\ Pushed(c) = {e}
      BY <2>1, <3>1 DEF Pushed
    <3> HIDE DEF e, p
    <3>3. <<e>> \in Seq(Nat) /\ Rising(<<e>>) /\ Range(<<e>>) = {e}
      BY <3>2 DEF Rising, Range
    <3> QED
      BY <3>2, <3>3, Zenon
  <2>2. CASE c \notin pushing[s].to
    <3>1. p = <<>> /\ Pushed(c) = {}
      BY <2>2 DEF Pushed
    <3>2. <<>> \in Seq(Nat)
      OBVIOUS
    <3> QED
      BY <3>1, <3>2, EmptyInOrder, Zenon
  <2> QED
    BY <2>1, <2>2
<1>5. Before(Sent(c), Pushed(c)) /\ Before(Sent(c), Range(i)) /\ Before(Pushed(c), Range(i))
  BY <1>1 DEF FeedIsInOrder, InboxInOrder, Coming, Pushed, Before
<1>6. Stream(c) = (feed \o p) \o i
  BY DEF Stream
<1> HIDE DEF s, e, feed, p, i
<1>7. /\ feed \o p \in Seq(Nat) /\ Rising(feed \o p)
      /\ Range(feed \o p) = Sent(c) \union Pushed(c)
  BY <1>2, <1>4, <1>5, ConcatProperties, RisingConcat, RangeConcatenation
<1> DEFINE g == feed \o p
<1> HIDE DEF g
<1>8. g \in Seq(Nat) /\ Rising(g) /\ Range(g) = Sent(c) \union Pushed(c)
  BY <1>7 DEF g
<1>9. Before(Range(g), Range(i))
  BY <1>5, <1>8 DEF Before
<1>10. /\ g \o i \in Seq(Nat) /\ Rising(g \o i)
       /\ Range(g \o i) = Range(g) \union Range(i)
  BY <1>3, <1>8, <1>9, ConcatProperties, RisingConcat, RangeConcatenation
<1>11. Coming(c) = Pushed(c) \union Range(i)
  BY DEF Coming, i, s
<1> QED
  BY <1>6, <1>8, <1>10, <1>11 DEF g

\* A feed that nothing is going to close belongs to a state that no failure strikes.
LEMMA OpenFeedIsGood ==
  ASSUME IInv, NEW c \in OpenConnections, ready[c], ~Doomed(c)
  PROVE  Good(owner[c]) /\ owner[c] \in States /\ c \in Clients(owner[c]) /\ ~stopped[c]
<1> DEFINE s == owner[c]
<1>1. c \in Connections /\ s \in States /\ ReadyClosed(s) /\ c \in Clients(s)
  BY OwnerIsState DEF IInv, OpenConnections, ConnectionsAreSound, Clients
<1>2. ~stopped[c] /\ c \notin closing /\ s \notin failing
      /\ (s \in listeners => link = "up" /\ ~(callbacks > 0))
  BY DEF Doomed
<1>3. ~failed[s]
  BY <1>2 DEF IInv, FailedAreClosing
<1>4. stage[s] = "live"
  BY <1>1, <1>3 DEF IInv, StatesAreShared, ReadyClosed
<1>5. s \in listeners
  BY <1>1, <1>4 DEF IInv, StatesAreShared, Subscribed
<1>6. callbacks \in Nat
  BY Typed DEF IInv, NatsTyped
<1>7. callbacks = 0
  BY <1>2, <1>5, <1>6
<1> QED
  BY <1>1, <1>2, <1>3, <1>5, <1>7 DEF Good

\* A client that stays connected misses no event, gets none twice and none out of order.
THEOREM NoGaps == Spec => []NoSilentGap
<1>1. IInv => NoSilentGap
  <2> SUFFICES ASSUME IInv, NEW c \in OpenConnections, ready[c], ~Doomed(c)
               PROVE  LET events == Tail(Stream(c))
                      IN /\ Head(Stream(c)) = 0
                         /\ Consecutive(events)
                         /\ IF events = <<>> THEN published = since[c]
                            ELSE events[1] <= since[c] + 1 /\ events[Len(events)] = published
    BY DEF NoSilentGap
  <2> DEFINE q == Stream(c)
             events == Tail(q)
  <2>1. q \in Seq(Nat) /\ Rising(q) /\ Range(q) = Sent(c) \union Coming(c)
    BY StreamGoesUp
  <2>2. c \in Connections /\ 0 \in Sent(c) /\ since[c] <= published /\ published \in Nat
        /\ since[c] \in Nat
    <3>1. c \in Connections /\ 0 \in Sent(c) /\ since[c] <= published
      BY DEF OpenConnections, IInv, FeedsInOrder, FeedIsInOrder
    <3>2. published \in Nat /\ since[c] \in 0..MaxEvents
      BY <3>1, Numbers, Typed DEF IInv, ConnectionsTyped
    <3> QED
      BY <3>1, <3>2
  <2>3. FeedIsComplete(c)
    BY OpenFeedIsGood DEF IInv, NothingMissed
  <2>4. PICK a \in 1..(since[c] + 1) : Events(c) = a..published
    BY <2>3 DEF FeedIsComplete, Covers
  <2> HIDE DEF q
  <2>5. q # <<>> /\ q[1] = 0 /\ Head(q) = 0
    BY <2>1, <2>2, ZeroIsFirst
  <2>6. /\ events \in Seq(Nat) /\ Rising(events) /\ Before({0}, Range(events))
        /\ Range(q) = {0} \union Range(events)
    BY <2>1, <2>5, RisingTail, RangeOfTail
  <2> HIDE DEF events
  <2>7. Range(events) = a..published
    <3>1. 0 \notin Range(events)
      BY <2>6 DEF Before
    <3>2. Range(events) = (Sent(c) \union Coming(c)) \ {0}
      BY <2>1, <2>6, <3>1
    <3> QED
      BY <2>4, <3>2 DEF Events
  <2>8. a \in Nat /\ a <= since[c] + 1
    BY <2>2
  <2>9. CASE events = <<>>
    <3>1. Consecutive(events)
      BY <2>9 DEF Consecutive
    <3>2. a \notin a..published
      BY <2>7, <2>9, EmptyInOrder
    <3>3. published = since[c]
      BY <2>2, <2>8, <3>2
    <3> QED
      BY <2>5, <2>9, <3>1, <3>3 DEF events, q
  <2>10. CASE events # <<>>
    <3>1. Consecutive(events) /\ events[1] = a /\ events[Len(events)] = published
      BY <2>2, <2>6, <2>7, <2>8, <2>10, RisingInterval
    <3> QED
      BY <2>5, <2>8, <2>10, <3>1 DEF events, q
  <2> QED
    BY <2>9, <2>10
<1> QED
  BY <1>1, InductiveInvariant, PTL
=============================================================================
