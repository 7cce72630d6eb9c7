---------------------------- MODULE OutboxProofs ----------------------------
(***************************************************************************)
(* Proofs about Outbox, for any sets of events, workers, recoverers and    *)
(* lease IDs: type correctness, the safety invariants, the two action      *)
(* properties and the refinement of Publication.                           *)
(***************************************************************************)
EXTENDS Outbox, TLAPS

-----------------------------------------------------------------------------
(* The inductive invariant. *)

\* A worker holds an event and a lease exactly while RunOnce runs, and the
\* event had been inserted.
WorkerHolds ==
  \A w \in Workers :
    /\ pc[w] = "idle" => claimed[w] = NoEvent /\ held[w] = NoLease
    /\ pc[w] # "idle" =>
         claimed[w] \in Events /\ held[w] \in LeaseIDs /\ status[claimed[w]] # "ABSENT"

\* What a worker has learnt from Publish is true of its event.
WorkerKnows ==
  \A w \in Workers :
    /\ pc[w] = "acked" => claimed[w] \in stream
    /\ pc[w] = "rejected" => claimed[w] \notin Valid

\* No lease is held twice, neither by two workers nor by two documents, and
\* the worker that holds the lease of a document claimed that document.
LeasesAreUnique ==
  /\ \A w1, w2 \in Workers : held[w1] # NoLease /\ held[w1] = held[w2] => w1 = w2
  /\ \A e \in Events, w \in Workers :
       held[w] # NoLease /\ leaseId[e] = held[w] => claimed[w] = e

\* Only valid events that were inserted are sent.
OnlyValidSent ==
  \A e \in stream \union inflight : e \in Valid /\ status[e] # "ABSENT"

\* FAILED is reserved to events that validateEvent refuses.
FailedIsInvalid == \A e \in Events : status[e] = "FAILED" => e \notin Valid

\* Types, and a lease exactly as long as its claim: RecoverFind's batches are
\* well-typed only because of the second.
Typed == TypeOK /\ LockedExactlyWhileClaimed

IInv ==
  /\ Typed
  /\ WorkerHolds
  /\ WorkerKnows
  /\ LeasesAreUnique
  /\ OnlyValidSent
  /\ PublishedIsStored
  /\ FailedIsInvalid

-----------------------------------------------------------------------------
(* Type correctness. *)

\* The lease that a claim takes is one that nobody remembers.
LEMMA FreshLeaseIsFresh ==
  ASSUME LeaseIDs \ LeasesInUse # {}
  PROVE  /\ FreshLease \in LeaseIDs
         /\ \A e \in Events : leaseId[e] # FreshLease
         /\ \A w \in Workers : held[w] # FreshLease
<1>1. \E l \in LeaseIDs : l \notin LeasesInUse
  OBVIOUS
<1>2. FreshLease \in LeaseIDs /\ FreshLease \notin LeasesInUse
  BY <1>1 DEF FreshLease
<1>3. QED
  BY <1>2 DEF LeasesInUse

\* Every step preserves types and locks.
LEMMA NextTyped ==
  ASSUME Typed, [Next]_vars
  PROVE  Typed'
<1> USE OutboxAssumption DEF Typed, LockedExactlyWhileClaimed
<1>1. ASSUME NEW e \in Events, InsertEvent(e) \/ BecomesDue(e) \/ LeaseExpires(e) \/ LatePublish(e)
      PROVE  Typed'
  BY <1>1 DEF TypeOK, Statuses, InsertEvent, BecomesDue, LeaseExpires, LatePublish,
              docVars, workerVars, brokerVars
<1>2. ASSUME NEW w \in Workers, NEW e \in Events, ClaimNext(w, e)
      PROVE  Typed'
  BY <1>2, FreshLeaseIsFresh DEF TypeOK, Statuses, Places, ClaimNext, brokerVars
<1>3. ASSUME NEW w \in Workers,
             PublishRejects(w) \/ PublishAcked(w) \/ PublishFails(w)
      PROVE  Typed'
  BY <1>3 DEF TypeOK, Places, PublishRejects, PublishAcked, PublishFails, docVars, brokerVars
<1>4. ASSUME NEW w \in Workers,
             MarkPublished(w) \/ MarkFailed(w) \/ ScheduleRetry(w) \/ LeaseLost(w) \/ Abandon(w)
      PROVE  Typed'
  <2>1. CASE LeaseLost(w) \/ Abandon(w)
    BY <2>1 DEF TypeOK, Places, LeaseLost, Abandon, Return, docVars, brokerVars
  <2>2. ASSUME NEW s \in {"PUBLISHED", "FAILED", "PENDING"}, EndClaim(claimed[w], s)
        PROVE  /\ status' \in [Events -> Statuses]
               /\ leaseId' \in [Events -> LeaseIDs \union {NoLease}]
               /\ expired' \in [Events -> BOOLEAN]
               /\ LockedExactlyWhileClaimed'
    BY <2>2 DEF TypeOK, Statuses, EndClaim
  <2>3. CASE MarkPublished(w) \/ MarkFailed(w) \/ ScheduleRetry(w)
    BY <2>2, <2>3 DEF TypeOK, Places, MarkPublished, MarkFailed, ScheduleRetry, Return, brokerVars
  <2> QED
    BY <1>4, <2>1, <2>3
<1>5. ASSUME NEW r \in Recoverers, NEW batch \in SUBSET ExpiredLeases, RecoverFind(r, batch)
      PROVE  Typed'
  <2>1. \A e \in Events : status[e] = "PROCESSING" => leaseId[e] \in LeaseIDs
    BY DEF TypeOK
  <2>2. ExpiredLeases \subseteq Events \X LeaseIDs
    BY <2>1 DEF ExpiredLeases
  <2> QED
    BY <1>5, <2>2 DEF TypeOK, RecoverFind, docVars, workerVars, brokerVars
<1>6. ASSUME NEW r \in Recoverers, NEW e \in Events, NEW l \in LeaseIDs, RecoverWrite(r, e, l)
      PROVE  Typed'
  BY <1>6 DEF TypeOK, Statuses, RecoverWrite, EndClaim, docVars, workerVars, brokerVars
<1>7. ASSUME NEW r \in Recoverers, RecoverAbandon(r)
      PROVE  Typed'
  BY <1>7 DEF TypeOK, RecoverAbandon, docVars, workerVars, brokerVars
<1>8. CASE UNCHANGED vars
  BY <1>8 DEF TypeOK, vars, docVars, workerVars, brokerVars
<1>9. QED
  <2> HIDE DEF Typed, LockedExactlyWhileClaimed
  <2>1. ASSUME StoreStep PROVE Typed'
    BY <1>1, <2>1 DEF StoreStep
  <2>2. ASSUME NEW w \in Workers, WorkerStep(w) PROVE Typed'
    BY <1>2, <1>3, <1>4, <2>2 DEF WorkerStep
  <2>3. ASSUME NEW r \in Recoverers, RecoverStep(r) PROVE Typed'
    BY <1>5, <1>6, <1>7, <2>3 DEF RecoverStep
  <2> QED
    BY <1>8, <2>1, <2>2, <2>3 DEF Next

-----------------------------------------------------------------------------
(* The inductive step. *)

\* Inserts and the passing of time.
LEMMA StoreStepIInv ==
  ASSUME IInv, Typed', StoreStep
  PROVE  IInv'
<1> PICK e \in Events : InsertEvent(e) \/ BecomesDue(e) \/ LeaseExpires(e) \/ LatePublish(e)
  BY DEF StoreStep
<1> USE DEF IInv, Typed, TypeOK
<1>1. WorkerHolds' /\ WorkerKnows' /\ LeasesAreUnique'
  BY DEF WorkerHolds, WorkerKnows, LeasesAreUnique, InsertEvent, BecomesDue, LeaseExpires,
         LatePublish, docVars, workerVars, brokerVars
<1>2. OnlyValidSent' /\ PublishedIsStored' /\ FailedIsInvalid'
  BY DEF OnlyValidSent, PublishedIsStored, FailedIsInvalid, InsertEvent, BecomesDue,
         LeaseExpires, LatePublish, docVars, workerVars, brokerVars
<1> QED
  BY <1>1, <1>2

\* A claim takes a lease that no worker and no document holds.
LEMMA ClaimIInv ==
  ASSUME IInv, Typed', NEW w \in Workers, NEW e \in Events, ClaimNext(w, e)
  PROVE  IInv'
<1> USE OutboxAssumption, FreshLeaseIsFresh DEF IInv, Typed, TypeOK, ClaimNext, brokerVars
<1>1. WorkerHolds' /\ WorkerKnows'
  BY DEF WorkerHolds, WorkerKnows
<1>2. LeasesAreUnique'
  BY DEF LeasesAreUnique, WorkerHolds
<1>3. OnlyValidSent' /\ PublishedIsStored' /\ FailedIsInvalid'
  BY DEF OnlyValidSent, PublishedIsStored, FailedIsInvalid
<1> QED
  BY <1>1, <1>2, <1>3

\* What Publish answers is what WorkerKnows records.
LEMMA PublishIInv ==
  ASSUME IInv, Typed', NEW w \in Workers,
         PublishRejects(w) \/ PublishAcked(w) \/ PublishFails(w)
  PROVE  IInv'
<1> USE DEF IInv, Typed, TypeOK, PublishRejects, PublishAcked, PublishFails, docVars, brokerVars
<1>1. WorkerHolds' /\ WorkerKnows' /\ LeasesAreUnique'
  BY DEF WorkerHolds, WorkerKnows, LeasesAreUnique
<1>2. OnlyValidSent' /\ PublishedIsStored' /\ FailedIsInvalid'
  BY DEF OnlyValidSent, PublishedIsStored, FailedIsInvalid, WorkerHolds
<1> QED
  BY <1>1, <1>2

\* The end of a claim, by whoever ends it, under a lease l that no worker but
\* the owner of e holds.
LEMMA FinishIInv ==
  ASSUME IInv, Typed', NEW w \in Workers,
         MarkPublished(w) \/ MarkFailed(w) \/ ScheduleRetry(w) \/ LeaseLost(w) \/ Abandon(w)
  PROVE  IInv'
<1> USE OutboxAssumption
        DEF IInv, Typed, TypeOK, MarkPublished, MarkFailed, ScheduleRetry, LeaseLost, Abandon,
            EndClaim, Return, docVars, brokerVars
<1>1. claimed[w] \in Events /\ held[w] \in LeaseIDs /\ status[claimed[w]] # "ABSENT"
  BY DEF WorkerHolds
<1>2. WorkerHolds' /\ WorkerKnows'
  BY <1>1 DEF WorkerHolds, WorkerKnows
<1>3. LeasesAreUnique'
  BY <1>1 DEF LeasesAreUnique
<1>4. OnlyValidSent' /\ PublishedIsStored' /\ FailedIsInvalid'
  BY <1>1 DEF OnlyValidSent, PublishedIsStored, FailedIsInvalid, WorkerKnows
<1> QED
  BY <1>2, <1>3, <1>4

\* Recovery changes no more than the document it recovers.
LEMMA RecoverIInv ==
  ASSUME IInv, Typed', NEW r \in Recoverers, RecoverStep(r)
  PROVE  IInv'
<1> USE DEF IInv, Typed, TypeOK, docVars, workerVars, brokerVars
<1>1. CASE UNCHANGED <<docVars, workerVars, brokerVars>>
  BY <1>1 DEF WorkerHolds, WorkerKnows, LeasesAreUnique, OnlyValidSent, PublishedIsStored,
              FailedIsInvalid
<1>2. ASSUME NEW e \in Events, NEW l \in LeaseIDs, RecoverWrite(r, e, l),
             OwnedProcessing(e, l), EndClaim(e, "PENDING")
      PROVE  IInv'
  <2> USE <1>2, OutboxAssumption DEF RecoverWrite, EndClaim
  <2>1. WorkerHolds' /\ WorkerKnows' /\ LeasesAreUnique'
    BY DEF WorkerHolds, WorkerKnows, LeasesAreUnique
  <2>2. OnlyValidSent' /\ PublishedIsStored' /\ FailedIsInvalid'
    BY DEF OnlyValidSent, PublishedIsStored, FailedIsInvalid
  <2> QED
    BY <2>1, <2>2
<1> QED
  BY <1>1, <1>2 DEF RecoverStep, RecoverFind, RecoverWrite, RecoverAbandon

\* Every step preserves the inductive invariant.
LEMMA NextIInv ==
  ASSUME IInv, [Next]_vars
  PROVE  IInv'
<1>1. Typed'
  BY NextTyped DEF IInv
<1>2. CASE UNCHANGED vars
  BY <1>1, <1>2 DEF IInv, WorkerHolds, WorkerKnows, LeasesAreUnique, OnlyValidSent, PublishedIsStored,
              FailedIsInvalid, vars, docVars, workerVars, brokerVars
<1>3. ASSUME NEW w \in Workers, WorkerStep(w) PROVE IInv'
  BY <1>1, <1>3, ClaimIInv, PublishIInv, FinishIInv DEF WorkerStep
<1> QED
  BY <1>1, <1>2, <1>3, StoreStepIInv, RecoverIInv DEF Next

-----------------------------------------------------------------------------
(* The theorems. *)

\* In the initial states there is no event and nobody holds a lease.
LEMMA InitIInv == Init => IInv
BY OutboxAssumption
   DEF Init, IInv, Typed, TypeOK, LockedExactlyWhileClaimed, WorkerHolds, WorkerKnows,
       LeasesAreUnique, OnlyValidSent, PublishedIsStored, FailedIsInvalid, Statuses, Places

\* The inductive invariant holds in every reachable state, for any number of
\* events, workers and recovery loops.
THEOREM InductiveInvariant == Spec => []IInv
BY InitIInv, NextIInv, PTL DEF Spec

\* Every variable of the outbox always has its type.
THEOREM TypeCorrect == Spec => []TypeOK
<1>1. IInv => TypeOK
  BY DEF IInv, Typed
<1> QED BY <1>1, InductiveInvariant, PTL

\* An event is locked exactly while it is claimed, whichever of the finishing
\* updates or recovery ended its last claim.
THEOREM LockDiscipline == Spec => []LockedExactlyWhileClaimed
<1>1. IInv => LockedExactlyWhileClaimed
  BY DEF IInv, Typed
<1> QED BY <1>1, InductiveInvariant, PTL

\* At most one of the workers that hold an event can still finish it.
THEOREM SingleOwner == Spec => []SoleOwner
<1>1. IInv => SoleOwner
  BY OutboxAssumption DEF IInv, Typed, WorkerHolds, LeasesAreUnique, SoleOwner, OwnedProcessing
<1> QED BY <1>1, InductiveInvariant, PTL

\* No event is marked PUBLISHED that JetStream has not stored.
THEOREM NoLostPublication == Spec => []PublishedIsStored
<1>1. IInv => PublishedIsStored
  BY DEF IInv
<1> QED BY <1>1, InductiveInvariant, PTL

\* No event is marked FAILED that was sent, or that a worker could still
\* report as sent.
THEOREM NoFalseFailure == Spec => []FailedIsNeverSent
<1>1. IInv => FailedIsNeverSent
  BY DEF IInv, FailedIsInvalid, OnlyValidSent, WorkerKnows, FailedIsNeverSent
<1> QED BY <1>1, InductiveInvariant, PTL

\* PUBLISHED and FAILED are final.
THEOREM Finality == Spec => SettledIsFinal
<1> DEFINE Final == \A e \in Events : status[e] \in {"PUBLISHED", "FAILED"} => status'[e] = status[e]
<1>1. IInv /\ [Next]_vars => [Final]_vars
  <2> SUFFICES ASSUME IInv, Next PROVE Final
    OBVIOUS
  <2> USE DEF IInv, Typed, TypeOK, docVars
  <2>1. ASSUME StoreStep PROVE Final
    BY <2>1 DEF StoreStep, InsertEvent, BecomesDue, LeaseExpires, LatePublish
  <2>2. ASSUME NEW w \in Workers, WorkerStep(w) PROVE Final
    BY <2>2 DEF WorkerStep, ClaimNext, PublishRejects, PublishAcked, PublishFails, MarkPublished,
                MarkFailed, ScheduleRetry, LeaseLost, Abandon, EndClaim, OwnedProcessing
  <2>3. ASSUME NEW r \in Recoverers, RecoverStep(r) PROVE Final
    BY <2>3 DEF RecoverStep, RecoverFind, RecoverWrite, RecoverAbandon, EndClaim, OwnedProcessing
  <2> QED
    BY <2>1, <2>2, <2>3 DEF Next
<1> QED
  BY <1>1, InductiveInvariant, PTL DEF Spec, SettledIsFinal

\* A claim ends only through its owner or after its lease has expired.
THEOREM Fencing == Spec => ClaimEndsByOwnerOrExpiry
<1> DEFINE Fenced ==
      \A e \in Events :
        status[e] = "PROCESSING" /\ leaseId'[e] # leaseId[e]
          => \/ expired[e]
             \/ \E w \in Workers : claimed[w] = e /\ held[w] = leaseId[e] /\ claimed'[w] = NoEvent
<1>1. IInv /\ [Next]_vars => [Fenced]_vars
  <2> SUFFICES ASSUME IInv, Next PROVE Fenced
    OBVIOUS
  <2> USE DEF IInv, Typed, TypeOK, docVars
  <2>1. ASSUME StoreStep PROVE Fenced
    BY <2>1 DEF StoreStep, InsertEvent, BecomesDue, LeaseExpires, LatePublish
  <2>2. ASSUME NEW w \in Workers, WorkerStep(w) PROVE Fenced
    BY <2>2 DEF WorkerStep, ClaimNext, PublishRejects, PublishAcked, PublishFails, MarkPublished,
                MarkFailed, ScheduleRetry, LeaseLost, Abandon, EndClaim, Return, OwnedProcessing
  <2>3. ASSUME NEW r \in Recoverers, RecoverStep(r) PROVE Fenced
    BY <2>3 DEF RecoverStep, RecoverFind, RecoverWrite, RecoverAbandon, EndClaim, OwnedProcessing
  <2> QED
    BY <2>1, <2>2, <2>3 DEF Next
<1> QED
  BY <1>1, InductiveInvariant, PTL DEF Spec, ClaimEndsByOwnerOrExpiry

-----------------------------------------------------------------------------
(* The refinement. *)

\* How the state of an event looks from outside.
Seen(s) ==
  CASE s = "ABSENT" -> "absent"
    [] s = "PUBLISHED" -> "confirmed"
    [] s = "FAILED" -> "rejected"
    [] OTHER -> "accepted"

SeenState == [e \in Events |-> Seen(status[e])]

\* The five statuses under the refinement mapping.
LEMMA SeenValues ==
  /\ Seen("ABSENT") = "absent"
  /\ Seen("PENDING") = "accepted"
  /\ Seen("PROCESSING") = "accepted"
  /\ Seen("PUBLISHED") = "confirmed"
  /\ Seen("FAILED") = "rejected"
BY DEF Seen

\* An update of one document is seen as an update of one state, if at all.
LEMMA SeenUpdate ==
  ASSUME TypeOK, NEW e \in Events, NEW s \in Statuses, status' = [status EXCEPT ![e] = s]
  PROVE  SeenState' = [SeenState EXCEPT ![e] = Seen(s)]
BY DEF TypeOK, SeenState

\* Every step of the outbox is a step of Publication or invisible there.
LEMMA StepRefines ==
  ASSUME IInv, Next
  PROVE  \/ \E e \in Events :
              \/ /\ SeenState[e] = "absent"
                 /\ SeenState' = [SeenState EXCEPT ![e] = "accepted"]
                 /\ UNCHANGED stream
              \/ /\ e \in Valid /\ SeenState[e] # "absent"
                 /\ stream' = stream \union {e}
                 /\ UNCHANGED SeenState
              \/ /\ SeenState[e] = "accepted" /\ e \in stream
                 /\ SeenState' = [SeenState EXCEPT ![e] = "confirmed"]
                 /\ UNCHANGED stream
              \/ /\ SeenState[e] = "accepted" /\ e \notin Valid
                 /\ SeenState' = [SeenState EXCEPT ![e] = "rejected"]
                 /\ UNCHANGED stream
         \/ UNCHANGED <<SeenState, stream>>
<1> DEFINE Accepts(e) == /\ SeenState[e] = "absent"
                         /\ SeenState' = [SeenState EXCEPT ![e] = "accepted"]
                         /\ UNCHANGED stream
           Appends(e) == /\ e \in Valid /\ SeenState[e] # "absent"
                         /\ stream' = stream \union {e}
                         /\ UNCHANGED SeenState
           Confirms(e) == /\ SeenState[e] = "accepted" /\ e \in stream
                          /\ SeenState' = [SeenState EXCEPT ![e] = "confirmed"]
                          /\ UNCHANGED stream
           Rejects(e) == /\ SeenState[e] = "accepted" /\ e \notin Valid
                         /\ SeenState' = [SeenState EXCEPT ![e] = "rejected"]
                         /\ UNCHANGED stream
           Goal == \/ \E e \in Events : Accepts(e) \/ Appends(e) \/ Confirms(e) \/ Rejects(e)
                   \/ UNCHANGED <<SeenState, stream>>
<1> USE SeenValues, SeenUpdate DEF IInv, Typed
<1>0. \A e \in Events : SeenState[e] = Seen(status[e]) /\ status[e] \in Statuses
  BY DEF SeenState, TypeOK
<1>1. UNCHANGED status => UNCHANGED SeenState
  BY DEF SeenState
<1>2. ASSUME NEW e \in Events, InsertEvent(e) PROVE Accepts(e)
  BY <1>0, <1>2 DEF InsertEvent, brokerVars, Statuses
<1>3. ASSUME NEW e \in Events, LatePublish(e) PROVE Appends(e)
  BY <1>0, <1>1, <1>3 DEF LatePublish, OnlyValidSent, docVars, Statuses
<1>4. ASSUME NEW w \in Workers, PublishAcked(w) \/ PublishFails(w)
      PROVE  Appends(claimed[w]) \/ UNCHANGED <<SeenState, stream>>
  <2>1. claimed[w] \in Events /\ status[claimed[w]] # "ABSENT" /\ claimed[w] \in Valid
    BY <1>4 DEF WorkerHolds, PublishAcked, PublishFails
  <2>2. SeenState[claimed[w]] # "absent"
    BY <1>0, <2>1 DEF Statuses
  <2> QED
    BY <1>1, <1>4, <2>1, <2>2 DEF PublishAcked, PublishFails, docVars, brokerVars
<1>5. ASSUME NEW w \in Workers, MarkPublished(w) PROVE Confirms(claimed[w])
  <2>1. claimed[w] \in Events /\ claimed[w] \in stream
    BY <1>5 DEF MarkPublished, WorkerHolds, WorkerKnows
  <2> QED
    BY <1>0, <1>5, <2>1 DEF MarkPublished, OwnedProcessing, EndClaim, brokerVars, Statuses
<1>6. ASSUME NEW w \in Workers, MarkFailed(w) PROVE Rejects(claimed[w])
  <2>1. claimed[w] \in Events /\ claimed[w] \notin Valid
    BY <1>6 DEF MarkFailed, WorkerHolds, WorkerKnows
  <2> QED
    BY <1>0, <1>6, <2>1 DEF MarkFailed, OwnedProcessing, EndClaim, brokerVars, Statuses
<1>7. ASSUME NEW e \in Events, status[e] \in {"PENDING", "PROCESSING"},
             NEW s \in {"PENDING", "PROCESSING"}, status' = [status EXCEPT ![e] = s]
      PROVE  UNCHANGED SeenState
  <2>1. SeenState' = [SeenState EXCEPT ![e] = "accepted"]
    BY <1>7 DEF Statuses
  <2>2. SeenState[e] = "accepted"
    BY <1>0, <1>7
  <2> QED
    BY <2>1, <2>2 DEF SeenState
<1>8. ASSUME NEW w \in Workers, NEW e \in Events, ClaimNext(w, e)
      PROVE  UNCHANGED <<SeenState, stream>>
  BY <1>7, <1>8 DEF ClaimNext, brokerVars
<1>9. ASSUME NEW w \in Workers, ScheduleRetry(w)
      PROVE  UNCHANGED <<SeenState, stream>>
  <2>1. claimed[w] \in Events
    BY <1>9 DEF ScheduleRetry, WorkerHolds
  <2> QED
    BY <1>7, <1>9, <2>1 DEF ScheduleRetry, OwnedProcessing, EndClaim, brokerVars
<1>10. ASSUME NEW r \in Recoverers, NEW e \in Events, NEW l \in LeaseIDs, RecoverWrite(r, e, l)
       PROVE  UNCHANGED <<SeenState, stream>>
  BY <1>1, <1>7, <1>10 DEF RecoverWrite, OwnedProcessing, EndClaim, brokerVars
<1>11. ASSUME NEW e \in Events, BecomesDue(e) \/ LeaseExpires(e)
       PROVE  UNCHANGED <<SeenState, stream>>
  BY <1>1, <1>11 DEF BecomesDue, LeaseExpires, brokerVars
<1>12. ASSUME NEW w \in Workers, PublishRejects(w) \/ LeaseLost(w) \/ Abandon(w)
       PROVE  UNCHANGED <<SeenState, stream>>
  BY <1>1, <1>12 DEF PublishRejects, LeaseLost, Abandon, Return, docVars, brokerVars
<1>13. ASSUME NEW r \in Recoverers,
              RecoverAbandon(r) \/ \E batch \in SUBSET ExpiredLeases : RecoverFind(r, batch)
       PROVE  UNCHANGED <<SeenState, stream>>
  BY <1>1, <1>13 DEF RecoverAbandon, RecoverFind, docVars, brokerVars
<1>14. \A w \in Workers : MarkPublished(w) \/ MarkFailed(w) \/ PublishAcked(w) \/ PublishFails(w)
                           => claimed[w] \in Events
  BY DEF WorkerHolds, MarkPublished, MarkFailed, PublishAcked, PublishFails
<1> HIDE DEF Accepts, Appends, Confirms, Rejects
<1>15. ASSUME StoreStep PROVE Goal
  BY <1>2, <1>3, <1>11, <1>15 DEF StoreStep
<1>16. ASSUME NEW w \in Workers, WorkerStep(w) PROVE Goal
  BY <1>4, <1>5, <1>6, <1>8, <1>9, <1>12, <1>14, <1>16 DEF WorkerStep
<1>17. ASSUME NEW r \in Recoverers, RecoverStep(r) PROVE Goal
  BY <1>10, <1>13, <1>17 DEF RecoverStep
<1>18. Goal
  BY <1>15, <1>16, <1>17 DEF Next
<1> QED
  BY <1>18 DEF Accepts, Appends, Confirms, Rejects

\* The outbox keeps the promise of Publication: what it confirms is in the log,
\* what it rejects never will be, and an accepted event is never forgotten.
THEOREM Refinement == Spec => ImplementsPublication
<1>1. Init => Promise!Init
  BY DEF Init, Promise!Init
<1>2. IInv /\ [Next]_vars => [Promise!Next]_Promise!vars
  <2>1. CASE UNCHANGED vars
    BY <2>1 DEF vars, docVars, brokerVars, Promise!vars
  <2>2. ASSUME IInv, Next PROVE [Promise!Next]_Promise!vars
    BY <2>2, StepRefines
       DEF Promise!Next, Promise!Accept, Promise!AppendToLog, Promise!Confirm, Promise!Reject,
           Promise!vars, SeenState, Seen
  <2> QED
    BY <2>1, <2>2
<1> QED
  BY <1>1, <1>2, InductiveInvariant, PTL DEF Spec, ImplementsPublication, Promise!Spec

=============================================================================
