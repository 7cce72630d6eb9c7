------------------------------ MODULE Delivery ------------------------------
(***************************************************************************)
(* The delivery dispatchers: every cmd/delivery-dispatcher process takes   *)
(* events from the durable consumer MESSAGE_DELIVERY, publishes each to    *)
(* the recipient and then to the sender over Core NATS, and acknowledges,  *)
(* retries or gives up.                                                    *)
(*                                                                         *)
(*   - internal/drivers/worker/delivery_runner: one message at a time per  *)
(*     process; what is done with it after Dispatch;                       *)
(*   - internal/application/delivery: Dispatch, in the order of its calls; *)
(*   - internal/resources/nats: the two publishers;                        *)
(*   - cmd/delivery-dispatcher/bootstrap.go: explicit acks, a bound on the *)
(*     events delivered but not settled, no bound on deliveries.           *)
(*                                                                         *)
(* JetStream is external: it delivers an event again when AckWait or the   *)
(* delay of a nak is over, and takes an acknowledgement from any delivery  *)
(* of the event, late ones included.  The periods are abstract.            *)
(***************************************************************************)
EXTENDS Naturals, FiniteSets

CONSTANTS
  Events,        \* the events of the stream CHAT_EVENTS
  Valid,         \* well formed, of a chat that exists and its participant
  Stuck,         \* whose dispatch always fails, as with an unreadable chat
  Dispatchers,
  MaxAckPending,
  NoEvent

ASSUME DeliveryAssumption ==
  /\ Stuck \subseteq Valid /\ Valid \subseteq Events
  /\ NoEvent \notin Events
  /\ MaxAckPending \in Nat \ {0}

VARIABLES
  consumer,  \* consumer[e]: what the consumer knows of event e
  answers,   \* acknowledgements and terminations under way to the consumer
  told,      \* told[e]: who was sent event e over Core NATS
  recorded,  \* the events with a record on chat.message.delivery_failed
  pc,        \* pc[d]: where processMessage of dispatcher d is
  holding    \* holding[d]: the event it processes

natsVars == <<consumer, answers, told, recorded>>
vars == <<natsVars, pc, holding>>

Parties == {"recipient", "sender"}
Settlements == {"acked", "terminated"}

TypeOK ==
  /\ consumer \in [Events -> {"absent", "new", "pending", "delayed", "due"} \union Settlements]
  /\ answers \subseteq Events \X Settlements
  /\ told \in [Events -> SUBSET Parties]
  /\ recorded \subseteq Events
  /\ pc \in [Dispatchers -> {"idle", "dispatching", "halfway", "dispatched",
                             "invalid", "recorded", "failed"}]
  /\ holding \in [Dispatchers -> Events \union {NoEvent}]

Init ==
  /\ consumer = [e \in Events |-> "absent"]
  /\ answers = {}
  /\ told = [e \in Events |-> {}]
  /\ recorded = {}
  /\ pc = [d \in Dispatchers |-> "idle"]
  /\ holding = [d \in Dispatchers |-> NoEvent]

-----------------------------------------------------------------------------
(* JetStream. *)

Unsettled == {e \in Events : consumer[e] \in {"pending", "delayed", "due"}}

\* The outbox publisher stores an event in the stream.
Publish(e) ==
  /\ consumer[e] = "absent"
  /\ consumer' = [consumer EXCEPT ![e] = "new"]
  /\ UNCHANGED <<answers, told, recorded, pc, holding>>

\* AckWait is over, the dispatcher dead or alive; or the delay of a nak is.
Redeliver(e) ==
  /\ consumer[e] \in {"pending", "delayed"}
  /\ consumer' = [consumer EXCEPT ![e] = "due"]
  /\ UNCHANGED <<answers, told, recorded, pc, holding>>

\* The consumer learns that an event is settled; the first answer counts.
Settle(e, s) ==
  /\ <<e, s>> \in answers
  /\ answers' = answers \ {<<e, s>>}
  /\ consumer' = [consumer EXCEPT ![e] = IF @ \in Settlements THEN @ ELSE s]
  /\ UNCHANGED <<told, recorded, pc, holding>>

-----------------------------------------------------------------------------
(* A dispatcher: Run and processMessage. *)

\* Mutant: MaxDeliver is 1.
DeliverableOnce(e) == consumer[e] = "new" /\ Cardinality(Unsettled) < MaxAckPending

\* The consumer gives out an event that is due again, without end (MaxDeliver
\* is -1), or a new one while the number of unsettled ones allows.
Deliverable(e) ==
  consumer[e] = "due" \/ (consumer[e] = "new" /\ Cardinality(Unsettled) < MaxAckPending)

\* Next fetches one message.
Fetch(d, e) ==
  /\ pc[d] = "idle" /\ Deliverable(e)
  /\ consumer' = [consumer EXCEPT ![e] = "pending"]
  /\ pc' = [pc EXCEPT ![d] = "dispatching"]
  /\ holding' = [holding EXCEPT ![d] = e]
  /\ UNCHANGED <<answers, told, recorded>>

Goto(d, place) ==
  /\ pc' = [pc EXCEPT ![d] = place]
  /\ UNCHANGED holding

Return(d) ==
  /\ pc' = [pc EXCEPT ![d] = "idle"]
  /\ holding' = [holding EXCEPT ![d] = NoEvent]

\* The envelope cannot be read, or Dispatch returns ErrInvalidMessageCreatedEvent
\* before it publishes anything.
RejectEvent(d) ==
  /\ pc[d] = "dispatching" /\ holding[d] \notin Valid
  /\ Goto(d, "invalid")
  /\ UNCHANGED natsVars

\* Mutant: only the sender is told, and the event is done.
NotifyRecipientSkipped(d) ==
  /\ pc[d] = "dispatching" /\ holding[d] \in Valid \ Stuck
  /\ Goto(d, "halfway")
  /\ UNCHANGED natsVars

\* The recipient's copy is published and flushed; the sender's comes after it.
NotifyRecipient(d) ==
  /\ pc[d] = "dispatching" /\ holding[d] \in Valid \ Stuck
  /\ told' = [told EXCEPT ![holding[d]] = @ \union {"recipient"}]
  /\ Goto(d, "halfway")
  /\ UNCHANGED <<consumer, answers, recorded>>

NotifySender(d) ==
  /\ pc[d] = "halfway"
  /\ told' = [told EXCEPT ![holding[d]] = @ \union {"sender"}]
  /\ Goto(d, "dispatched")
  /\ UNCHANGED <<consumer, answers, recorded>>

\* Mutant: every error of Dispatch is taken for a permanent one.
EveryErrorPermanent(d) ==
  /\ pc[d] \in {"dispatching", "halfway"} /\ holding[d] \in Valid
  /\ Goto(d, "invalid")
  /\ UNCHANGED natsVars

\* FindByID or a publish fails or runs out of time; the copy that could not be
\* flushed may have left all the same.
DispatchFails(d) ==
  /\ pc[d] \in {"dispatching", "halfway"} /\ holding[d] \in Valid
  /\ LET copy == IF pc[d] = "halfway" THEN {"sender"} ELSE {"recipient"} IN
       told' \in {told, [told EXCEPT ![holding[d]] = @ \union copy]}
  /\ Goto(d, "failed")
  /\ UNCHANGED <<consumer, answers, recorded>>

\* DoubleAck, which waits for the consumer; its error is only logged.
Ack(d) ==
  /\ pc[d] = "dispatched"
  /\ answers' \in {answers, answers \union {<<holding[d], "acked">>}}
  /\ Return(d)
  /\ UNCHANGED <<consumer, told, recorded>>

\* PublishFailure stores the record, under a message ID of its own.
RecordFailure(d) ==
  /\ pc[d] = "invalid"
  /\ recorded' = recorded \union {holding[d]}
  /\ Goto(d, "recorded")
  /\ UNCHANGED <<consumer, answers, told>>

\* PublishFailure fails, with or without effect.
RecordFails(d) ==
  /\ pc[d] = "invalid"
  /\ recorded' \in {recorded, recorded \union {holding[d]}}
  /\ Goto(d, "failed")
  /\ UNCHANGED <<consumer, answers, told>>

\* TermWithReason does not wait for the consumer.
Terminate(d) ==
  /\ pc[d] = "recorded"
  /\ answers' \in {answers, answers \union {<<holding[d], "terminated">>}}
  /\ Return(d)
  /\ UNCHANGED <<consumer, told, recorded>>

\* NakWithDelay, which may be lost: then AckWait does the same.
Nak(d) ==
  /\ pc[d] = "failed"
  /\ consumer' \in {consumer, [consumer EXCEPT ![holding[d]] = IF @ = "pending" THEN "delayed" ELSE @]}
  /\ Return(d)
  /\ UNCHANGED <<answers, told, recorded>>

\* The process dies.
Crash(d) ==
  /\ pc[d] # "idle"
  /\ Return(d)
  /\ UNCHANGED natsVars

-----------------------------------------------------------------------------
BrokerStep ==
  \E e \in Events : Publish(e) \/ Redeliver(e) \/ \E s \in Settlements : Settle(e, s)

DispatcherStep(d) ==
  \/ \E e \in Events : Fetch(d, e)
  \/ RejectEvent(d) \/ NotifyRecipient(d) \/ NotifySender(d) \/ DispatchFails(d)
  \/ Ack(d) \/ RecordFailure(d) \/ RecordFails(d) \/ Terminate(d) \/ Nak(d) \/ Crash(d)

Next == BrokerStep \/ \E d \in Dispatchers : DispatcherStep(d)

Spec == Init /\ [][Next]_vars

-----------------------------------------------------------------------------
(* Safety. *)

\* The consumer forgets an event as acknowledged only after both participants
\* were sent it, whichever of several overlapping deliveries acknowledged it.
AckedIsTold == \A e \in Events : consumer[e] = "acked" => told[e] = Parties

\* An event that was given up has its record, was sent to nobody, and is one
\* that no retry could have delivered: no transient failure loses a message.
TerminatedIsRecorded ==
  \A e \in Events : consumer[e] = "terminated" => e \in recorded \ Valid /\ told[e] = {}

-----------------------------------------------------------------------------
(* Liveness. *)

\* The consumer serves redeliveries and new events in turn; processMessage ends
\* under its timeouts; and no failure but that of Stuck events lasts for ever.
DeliveryFairness ==
  /\ \A e \in Events \ Stuck :
       /\ WF_vars(Redeliver(e))
       /\ WF_vars(\E s \in Settlements : Settle(e, s))
       /\ SF_vars(\E d \in Dispatchers : Fetch(d, e))
       /\ SF_vars(\E d \in Dispatchers : holding[d] = e /\ (NotifyRecipient(d) \/ RejectEvent(d)))
       /\ SF_vars(\E d \in Dispatchers : holding[d] = e /\ (NotifySender(d) \/ RecordFailure(d)))
       /\ SF_vars(\E d \in Dispatchers : holding[d] = e /\ (Ack(d) \/ Terminate(d)) /\ answers' # answers)
  /\ \A d \in Dispatchers : WF_vars(pc[d] # "idle" /\ DispatcherStep(d))

FairSpec == Spec /\ DeliveryFairness

\* Every event is acknowledged if it is valid and given up if it is not, as
\* long as fewer than MaxAckPending events are stuck, however often dispatchers
\* die, publishes fail and acknowledgements are lost.
EveryEventIsDelivered ==
  \A e \in Events \ Stuck :
    consumer[e] = "new" ~> consumer[e] = (IF e \in Valid THEN "acked" ELSE "terminated")

=============================================================================
