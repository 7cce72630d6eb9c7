--------------------------- MODULE DeliveryProofs ---------------------------
(***************************************************************************)
(* For any events, dispatchers and bound on unsettled events: what the     *)
(* consumer holds for settled really is.  What a dispatcher has done shows *)
(* in its place (Progress), an answer under way carries it to the consumer *)
(* (Earned), and nobody is ever told of an event that is not valid.        *)
(***************************************************************************)
EXTENDS Delivery, TLAPS

\* What stands behind the place a dispatcher has reached.
Progress(d) ==
  /\ pc[d] # "idle" => holding[d] \in Events
  /\ pc[d] = "halfway" => holding[d] \in Valid /\ "recipient" \in told[holding[d]]
  /\ pc[d] = "dispatched" => told[holding[d]] = Parties
  /\ pc[d] = "invalid" => holding[d] \notin Valid
  /\ pc[d] = "recorded" => holding[d] \in recorded \ Valid

\* What entitles an event to a settlement.
Earned(e, s) == IF s = "acked" THEN told[e] = Parties ELSE e \in recorded \ Valid

AnswersEarned ==
  /\ \A a \in answers : Earned(a[1], a[2])
  /\ \A e \in Events : consumer[e] \in Settlements => Earned(e, consumer[e])

InvalidUntold == \A e \in Events \ Valid : told[e] = {}

IInv ==
  /\ TypeOK
  /\ \A d \in Dispatchers : Progress(d)
  /\ AnswersEarned
  /\ InvalidUntold

\* Nothing takes back what was told or recorded, so what was earned stays.
LEMMA EarnedStays ==
  ASSUME TypeOK, NEW e \in Events, NEW s \in Settlements, Earned(e, s),
         told[e] \subseteq told'[e], told'[e] \subseteq Parties, recorded \subseteq recorded'
  PROVE  Earned(e, s)'
<1>1. told[e] = Parties => told'[e] = Parties
  OBVIOUS
<1> QED
  BY <1>1 DEF Earned

\* IInv holds at the start.
LEMMA InitIInv == Init => IInv
<1> SUFFICES ASSUME Init PROVE IInv
  OBVIOUS
<1>1. TypeOK
  BY DeliveryAssumption DEF Init, TypeOK
<1>2. \A d \in Dispatchers : Progress(d)
  BY DEF Init, Progress
<1>3. AnswersEarned
  BY DEF Init, AnswersEarned, Settlements
<1>4. InvalidUntold
  BY DeliveryAssumption DEF Init, InvalidUntold
<1> QED
  BY <1>1, <1>2, <1>3, <1>4 DEF IInv

\* A step of JetStream keeps IInv: it moves an event towards a settlement only
\* when an answer for it is under way.
LEMMA BrokerKeepsIInv ==
  ASSUME IInv, NEW e \in Events,
         Publish(e) \/ Redeliver(e) \/ \E s \in Settlements : Settle(e, s)
  PROVE  IInv'
<1> USE DEF IInv
<1>1. TypeOK'
  BY DEF TypeOK, Publish, Redeliver, Settle, Settlements
<1>2. (\A d \in Dispatchers : Progress(d))'
  BY DEF Progress, Publish, Redeliver, Settle
<1>3. AnswersEarned'
  <2>1. UNCHANGED <<told, recorded>> /\ answers' \subseteq answers
    BY DEF Publish, Redeliver, Settle
  <2>2. (\A a \in answers : Earned(a[1], a[2]))'
    BY <2>1 DEF AnswersEarned, Earned
  <2>3. ASSUME NEW f \in Events, consumer'[f] \in Settlements
        PROVE  Earned(f, consumer[f])'
    <3>1. CASE consumer[f] = consumer'[f]
      BY <2>1, <2>3, <3>1 DEF AnswersEarned, Earned
    <3>2. CASE consumer[f] # consumer'[f]
      <4>1. <<f, consumer'[f]>> \in answers
        BY <2>3, <3>2 DEF TypeOK, Publish, Redeliver, Settle, Settlements
      <4> QED
        BY <2>1, <4>1 DEF AnswersEarned, Earned
    <3> QED
      BY <3>1, <3>2
  <2> QED
    BY <2>2, <2>3 DEF AnswersEarned
<1>4. InvalidUntold'
  BY DEF InvalidUntold, Publish, Redeliver, Settle
<1> QED
  BY <1>1, <1>2, <1>3, <1>4

\* A step of a dispatcher keeps IInv.
LEMMA DispatcherKeepsIInv ==
  ASSUME IInv, NEW d \in Dispatchers, DispatcherStep(d)
  PROVE  IInv'
<1> USE DEF IInv
<1> DEFINE e == holding[d]
<1>0. pc \in [Dispatchers -> {"idle", "dispatching", "halfway", "dispatched", "invalid", "recorded", "failed"}]
      /\ holding \in [Dispatchers -> Events \union {NoEvent}] /\ Progress(d)
  BY DEF TypeOK
<1>1. CASE \E f \in Events : Fetch(d, f)
  <2> PICK f \in Events : Fetch(d, f)
    BY <1>1
  <2>1. TypeOK'
    BY DEF TypeOK, Fetch
  <2>2. (\A c \in Dispatchers : Progress(c))'
    BY <1>0 DEF Progress, Fetch
  <2>3. AnswersEarned'
    BY DEF TypeOK, AnswersEarned, Earned, Fetch, Settlements
  <2>4. InvalidUntold'
    BY DEF InvalidUntold, Fetch
  <2> QED
    BY <2>1, <2>2, <2>3, <2>4
<1>2. CASE RejectEvent(d) \/ Crash(d)
  <2>1. TypeOK'
    BY <1>2 DEF TypeOK, RejectEvent, Crash, Goto, Return, natsVars
  <2>2. (\A c \in Dispatchers : Progress(c))'
    BY <1>0, <1>2 DEF Progress, RejectEvent, Crash, Goto, Return, natsVars
  <2>3. AnswersEarned' /\ InvalidUntold'
    BY <1>2 DEF AnswersEarned, Earned, InvalidUntold, RejectEvent, Crash, natsVars
  <2> QED
    BY <2>1, <2>2, <2>3
<1>3. CASE NotifyRecipient(d) \/ NotifySender(d) \/ DispatchFails(d)
  <2>1. /\ e \in Valid /\ e \in Events
        /\ UNCHANGED <<consumer, answers, recorded, holding>>
        /\ pc' \in [Dispatchers -> {"idle", "dispatching", "halfway", "dispatched", "invalid", "recorded", "failed"}]
        /\ \A c \in Dispatchers \ {d} : pc'[c] = pc[c]
    BY <1>0, <1>3, DeliveryAssumption DEF Progress, NotifyRecipient, NotifySender, DispatchFails, Goto
  <2>2. /\ told' \in [Events -> SUBSET Parties]
        /\ \A f \in Events : told[f] \subseteq told'[f]
        /\ \A f \in Events \ {e} : told'[f] = told[f]
    BY <1>3, <2>1 DEF TypeOK, NotifyRecipient, NotifySender, DispatchFails, Parties
  <2>3. TypeOK'
    BY <2>1, <2>2 DEF TypeOK
  <2>4. Progress(d)'
    <3>1. CASE NotifyRecipient(d)
      BY <1>0, <2>1, <3>1 DEF TypeOK, Progress, NotifyRecipient, Goto
    <3>2. CASE NotifySender(d)
      BY <1>0, <2>1, <3>2 DEF TypeOK, Progress, NotifySender, Goto, Parties
    <3>3. CASE DispatchFails(d)
      BY <1>0, <2>1, <3>3 DEF Progress, DispatchFails, Goto
    <3> QED
      BY <1>3, <3>1, <3>2, <3>3
  <2>5. ASSUME NEW c \in Dispatchers \ {d} PROVE Progress(c)'
    <3>1. Progress(c) /\ pc'[c] = pc[c] /\ holding'[c] = holding[c] /\ recorded' = recorded
      BY <2>1
    <3>2. pc[c] # "idle" => told[holding[c]] \subseteq told'[holding[c]] /\ told'[holding[c]] \subseteq Parties
      BY <2>2, <3>1 DEF Progress
    <3>3. pc[c] # "idle" /\ told[holding[c]] = Parties => told'[holding[c]] = Parties
      BY <3>2
    <3> QED
      BY <3>1, <3>2, <3>3 DEF Progress
  <2>6. AnswersEarned'
    <3>1. \A f \in Events, s \in Settlements : Earned(f, s) => Earned(f, s)'
      BY <2>1, <2>2, EarnedStays
    <3> QED
      BY <2>1, <3>1 DEF TypeOK, AnswersEarned
  <2>7. InvalidUntold'
    BY <2>1, <2>2 DEF InvalidUntold
  <2> QED
    BY <2>3, <2>4, <2>5, <2>6, <2>7
<1>4. CASE Ack(d) \/ Terminate(d)
  <2>1. e \in Events /\ UNCHANGED <<consumer, told, recorded>>
        /\ \E s \in Settlements : Earned(e, s) /\ answers' \subseteq answers \union {<<e, s>>}
    BY <1>0, <1>4 DEF Progress, Ack, Terminate, Earned, Settlements
  <2>2. TypeOK'
    BY <1>4, <2>1 DEF TypeOK, Ack, Terminate, Return
  <2>3. (\A c \in Dispatchers : Progress(c))'
    BY <1>0, <1>4, <2>1 DEF Progress, Ack, Terminate, Return
  <2>4. AnswersEarned' /\ InvalidUntold'
    BY <2>1 DEF AnswersEarned, Earned, InvalidUntold
  <2> QED
    BY <2>2, <2>3, <2>4
<1>5. CASE RecordFailure(d) \/ RecordFails(d)
  <2>1. /\ e \in Events \ Valid
        /\ UNCHANGED <<consumer, answers, told, holding>>
        /\ recorded \subseteq recorded' /\ recorded' \subseteq recorded \union {e}
    BY <1>0, <1>5 DEF Progress, RecordFailure, RecordFails, Goto
  <2>2. TypeOK'
    BY <1>5, <2>1 DEF TypeOK, RecordFailure, RecordFails, Goto
  <2>3. (\A c \in Dispatchers : Progress(c))'
    BY <1>0, <1>5, <2>1 DEF Progress, RecordFailure, RecordFails, Goto
  <2>4. AnswersEarned'
    BY <2>1 DEF AnswersEarned, Earned
  <2>5. InvalidUntold'
    BY <2>1 DEF InvalidUntold
  <2> QED
    BY <2>2, <2>3, <2>4, <2>5
<1>6. CASE Nak(d)
  <2>1. e \in Events /\ UNCHANGED <<answers, told, recorded>>
    BY <1>0, <1>6 DEF Progress, Nak
  <2>2. TypeOK'
    BY <1>6, <2>1 DEF TypeOK, Nak, Return
  <2>3. (\A c \in Dispatchers : Progress(c))'
    BY <1>0, <1>6, <2>1 DEF Progress, Nak, Return
  <2>4. \A f \in Events : consumer'[f] \in Settlements => consumer'[f] = consumer[f]
    BY <1>6, <2>1 DEF TypeOK, Nak, Settlements
  <2>5. AnswersEarned' /\ InvalidUntold'
    BY <2>1, <2>4 DEF AnswersEarned, Earned, InvalidUntold
  <2> QED
    BY <2>2, <2>3, <2>5
<1> QED
  BY <1>1, <1>2, <1>3, <1>4, <1>5, <1>6 DEF DispatcherStep

\* The strengthened invariant holds of every reachable state.
THEOREM InductiveInvariant == Spec => []IInv
<1>1. IInv /\ [Next]_vars => IInv'
  <2> SUFFICES ASSUME IInv, [Next]_vars PROVE IInv'
    OBVIOUS
  <2>1. CASE BrokerStep
    BY <2>1, BrokerKeepsIInv DEF BrokerStep
  <2>2. CASE \E d \in Dispatchers : DispatcherStep(d)
    BY <2>2, DispatcherKeepsIInv
  <2>3. CASE UNCHANGED vars
    <3>1. UNCHANGED <<consumer, answers, told, recorded, pc, holding>>
      BY <2>3 DEF vars, natsVars
    <3> QED
      BY <3>1 DEF IInv, TypeOK, Progress, AnswersEarned, Earned, InvalidUntold
  <2> QED
    BY <2>1, <2>2, <2>3 DEF Next
<1> QED
  BY InitIInv, <1>1, PTL DEF Spec

\* Every variable keeps its type.
THEOREM TypeCorrect == Spec => []TypeOK
<1>1. IInv => TypeOK
  BY DEF IInv
<1> QED
  BY <1>1, InductiveInvariant, PTL

\* What the consumer holds for acknowledged was sent to both participants.
THEOREM AckAfterDispatch == Spec => []AckedIsTold
<1>1. IInv => AckedIsTold
  BY DEF IInv, AckedIsTold, AnswersEarned, Earned, Settlements
<1> QED
  BY <1>1, InductiveInvariant, PTL

\* Only an undeliverable event is given up, after its failure was recorded.
THEOREM TermAfterRecord == Spec => []TerminatedIsRecorded
<1>1. IInv => TerminatedIsRecorded
  BY DEF IInv, TerminatedIsRecorded, AnswersEarned, Earned, InvalidUntold, Settlements
<1> QED
  BY <1>1, InductiveInvariant, PTL

=============================================================================
