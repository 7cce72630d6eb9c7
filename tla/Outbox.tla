------------------------------- MODULE Outbox -------------------------------
(***************************************************************************)
(* The transactional outbox: the documents of the outbox collection, the   *)
(* publishing goroutines of every cmd/outbox-publisher process, and the    *)
(* lease-recovery loop of each process.                                    *)
(*                                                                         *)
(*   - internal/resources/mongodb/outbox_repository: every operation is    *)
(*     one atomic document update whose filter is the guard here;          *)
(*   - internal/application/outbox/publish_one.go: claim, publish, finish  *)
(*     are three separate steps of a worker, with anything in between;     *)
(*   - internal/drivers/worker/outbox_runner: the workers and the          *)
(*     recoverer run concurrently, in any number of processes.             *)
(*                                                                         *)
(* Time is abstract.  The two comparisons the filters make with the        *)
(* caller's clock are the flags due (next_attempt_at <= now) and expired   *)
(* (locked_until <= now), which flip at any moment: every relative speed   *)
(* of the processes, and every skew between their clocks, is covered.      *)
(* attempts only selects a delay and is left out with it.                  *)
(***************************************************************************)
EXTENDS Naturals, FiniteSets

CONSTANTS
  Events,      \* the events that may ever be inserted
  Valid,       \* those validateEvent accepts
  Workers,     \* publishing goroutines, of all processes
  Recoverers,  \* recovery loops, one per process
  LeaseIDs,    \* values of IDGenerator.New
  NoLease, NoEvent

ASSUME OutboxAssumption ==
  /\ Valid \subseteq Events
  /\ NoLease \notin LeaseIDs
  /\ NoEvent \notin Events

VARIABLES
  status,    \* status[e]: the document's status, "ABSENT" before the insert
  leaseId,   \* leaseId[e]: the document's lease_id
  due,       \* due[e]: next_attempt_at has passed
  expired,   \* expired[e]: locked_until has passed
  pc,        \* pc[w]: where RunOnce of worker w is
  claimed,   \* claimed[w]: the event RunOnce holds
  held,      \* held[w]: the lease ID RunOnce generated
  observed,  \* observed[r]: <<_id, lease_id>> pairs RecoverExpired still has to write
  stream,    \* events stored in the JetStream stream CHAT_EVENTS
  inflight   \* events whose publish request is still in the network

docVars == <<status, leaseId, due, expired>>
workerVars == <<pc, claimed, held>>
brokerVars == <<stream, inflight>>
vars == <<docVars, workerVars, observed, brokerVars>>

Statuses == {"ABSENT", "PENDING", "PROCESSING", "PUBLISHED", "FAILED"}
Places == {"idle", "publishing", "acked", "rejected", "unpublished"}

TypeOK ==
  /\ status \in [Events -> Statuses]
  /\ leaseId \in [Events -> LeaseIDs \union {NoLease}]
  /\ due \in [Events -> BOOLEAN]
  /\ expired \in [Events -> BOOLEAN]
  /\ pc \in [Workers -> Places]
  /\ claimed \in [Workers -> Events \union {NoEvent}]
  /\ held \in [Workers -> LeaseIDs \union {NoLease}]
  /\ observed \in [Recoverers -> SUBSET (Events \X LeaseIDs)]
  /\ stream \subseteq Events
  /\ inflight \subseteq Events

Init ==
  /\ status = [e \in Events |-> "ABSENT"]
  /\ leaseId = [e \in Events |-> NoLease]
  /\ due = [e \in Events |-> FALSE]
  /\ expired = [e \in Events |-> FALSE]
  /\ pc = [w \in Workers |-> "idle"]
  /\ claimed = [w \in Workers |-> NoEvent]
  /\ held = [w \in Workers |-> NoLease]
  /\ observed = [r \in Recoverers |-> {}]
  /\ stream = {}
  /\ inflight = {}

-----------------------------------------------------------------------------
(* The store. *)

\* The message transaction inserts the event: PENDING, unlocked, due from
\* createdAt on.
InsertEvent(e) ==
  /\ status[e] = "ABSENT"
  /\ status' = [status EXCEPT ![e] = "PENDING"]
  /\ UNCHANGED <<leaseId, due, expired, workerVars, observed, brokerVars>>

\* The clock passes next_attempt_at of a pending event.
BecomesDue(e) ==
  /\ status[e] = "PENDING" /\ ~due[e]
  /\ due' = [due EXCEPT ![e] = TRUE]
  /\ UNCHANGED <<status, leaseId, expired, workerVars, observed, brokerVars>>

\* The clock passes locked_until of a claimed event, its worker dead or alive.
LeaseExpires(e) ==
  /\ status[e] = "PROCESSING" /\ ~expired[e]
  /\ expired' = [expired EXCEPT ![e] = TRUE]
  /\ UNCHANGED <<status, leaseId, due, workerVars, observed, brokerVars>>

\* Mutant: a filter without the lease.
OwnedByStatus(e, l) == status[e] = "PROCESSING"

\* The filter of every update that ends a claim.  published_at is null in
\* every document that is PROCESSING, so that conjunct adds nothing here.
OwnedProcessing(e, l) == status[e] = "PROCESSING" /\ leaseId[e] = l

LeasesInUse ==
  {leaseId[e] : e \in Events} \union {held[w] : w \in Workers}
    \union {obs[2] : obs \in UNION {observed[r] : r \in Recoverers}}

\* Mutant: the lease ID is fixed, as a worker's name would be.
FixedLease == CHOOSE l \in LeaseIDs : TRUE

\* IDGenerator.New never repeats an ID that anybody still remembers.  IDs are
\* only ever compared for equality, so which one it returns does not matter.
FreshLease == CHOOSE l \in LeaseIDs : l \notin LeasesInUse

-----------------------------------------------------------------------------
(* A worker: PublishOne.RunOnce. *)

\* ClaimNext takes a due pending event under a new lease.  The order of the
\* claims (next_attempt_at, created_at, _id) is left to fairness.
ClaimNext(w, e) ==
  /\ pc[w] = "idle"
  /\ status[e] = "PENDING" /\ due[e]
  /\ LeaseIDs \ LeasesInUse # {}
  /\ leaseId' = [leaseId EXCEPT ![e] = FreshLease]
  /\ held' = [held EXCEPT ![w] = FreshLease]
  /\ status' = [status EXCEPT ![e] = "PROCESSING"]
  /\ expired' = [expired EXCEPT ![e] = FALSE]
  /\ pc' = [pc EXCEPT ![w] = "publishing"]
  /\ claimed' = [claimed EXCEPT ![w] = e]
  /\ UNCHANGED <<due, observed, brokerVars>>

\* Publish returns ErrInvalidOutboxEvent before anything is sent.
PublishRejects(w) ==
  /\ pc[w] = "publishing" /\ claimed[w] \notin Valid
  /\ pc' = [pc EXCEPT ![w] = "rejected"]
  /\ UNCHANGED <<docVars, claimed, held, observed, brokerVars>>

\* JetStream acknowledges the event: it is stored, or it was stored before
\* and recognised by its message ID.
PublishAcked(w) ==
  /\ pc[w] = "publishing" /\ claimed[w] \in Valid
  /\ stream' = stream \union {claimed[w]}
  /\ pc' = [pc EXCEPT ![w] = "acked"]
  /\ UNCHANGED <<docVars, claimed, held, observed, inflight>>

\* Mutants: a timeout is taken for success; any failure is taken for permanent.
TimeoutTakenForSuccess(w) ==
  /\ pc[w] = "publishing" /\ claimed[w] \in Valid
  /\ inflight' = inflight \union {claimed[w]}
  /\ pc' = [pc EXCEPT ![w] = "acked"]
  /\ UNCHANGED <<docVars, claimed, held, observed, stream>>

FailureTakenForPermanent(w) ==
  /\ pc[w] = "publishing" /\ claimed[w] \in Valid
  /\ inflight' = inflight \union {claimed[w]}
  /\ pc' = [pc EXCEPT ![w] = "rejected"]
  /\ UNCHANGED <<docVars, claimed, held, observed, stream>>

\* Publish fails or runs out of time: the request was lost, is still on its
\* way, or was stored and only the acknowledgement was lost.
PublishFails(w) ==
  /\ pc[w] = "publishing" /\ claimed[w] \in Valid
  /\ \/ UNCHANGED brokerVars
     \/ inflight' = inflight \union {claimed[w]} /\ UNCHANGED stream
     \/ stream' = stream \union {claimed[w]} /\ UNCHANGED inflight
  /\ pc' = [pc EXCEPT ![w] = "unpublished"]
  /\ UNCHANGED <<docVars, claimed, held, observed>>

\* A request that outlived its publisher's timeout reaches the stream.
LatePublish(e) ==
  /\ e \in inflight
  /\ stream' = stream \union {e}
  /\ inflight' = inflight \ {e}
  /\ UNCHANGED <<docVars, workerVars, observed>>

\* RunOnce returns; the next one starts from nothing.
Return(w) ==
  /\ pc' = [pc EXCEPT ![w] = "idle"]
  /\ claimed' = [claimed EXCEPT ![w] = NoEvent]
  /\ held' = [held EXCEPT ![w] = NoLease]

\* A matching update ends the claim in status s and unsets the lease.
EndClaim(e, s) ==
  /\ status' = [status EXCEPT ![e] = s]
  /\ leaseId' = [leaseId EXCEPT ![e] = NoLease]
  /\ expired' = [expired EXCEPT ![e] = FALSE]

MarkPublished(w) ==
  /\ pc[w] = "acked" /\ OwnedProcessing(claimed[w], held[w])
  /\ EndClaim(claimed[w], "PUBLISHED")
  /\ Return(w)
  /\ UNCHANGED <<due, observed, brokerVars>>

MarkFailed(w) ==
  /\ pc[w] = "rejected" /\ OwnedProcessing(claimed[w], held[w])
  /\ EndClaim(claimed[w], "FAILED")
  /\ Return(w)
  /\ UNCHANGED <<due, observed, brokerVars>>

\* The event waits again, until a next_attempt_at in the future.
ScheduleRetry(w) ==
  /\ pc[w] = "unpublished" /\ OwnedProcessing(claimed[w], held[w])
  /\ EndClaim(claimed[w], "PENDING")
  /\ due' = [due EXCEPT ![claimed[w]] = FALSE]
  /\ Return(w)
  /\ UNCHANGED <<observed, brokerVars>>

\* The finishing update matches no document: "lease lost".
LeaseLost(w) ==
  /\ pc[w] \in {"acked", "rejected", "unpublished"}
  /\ ~OwnedProcessing(claimed[w], held[w])
  /\ Return(w)
  /\ UNCHANGED <<docVars, observed, brokerVars>>

\* The process dies, or an error keeps RunOnce from its next step: a claim
\* whose reply is lost, a finishing update that fails.  A publish request it
\* had sent may still arrive.
Abandon(w) ==
  /\ pc[w] # "idle"
  /\ \/ UNCHANGED inflight
     \/ /\ pc[w] = "publishing" /\ claimed[w] \in Valid
        /\ inflight' = inflight \union {claimed[w]}
  /\ Return(w)
  /\ UNCHANGED <<docVars, observed, stream>>

-----------------------------------------------------------------------------
(* A recovery loop: RecoverExpired reads, then writes document by document. *)

\* Mutant: recovery looks for the wrong status.
ExpiredPending ==
  {<<e, leaseId[e]>> : e \in {f \in Events : status[f] = "PENDING" /\ expired[f]}}

ExpiredLeases ==
  {<<e, leaseId[e]>> : e \in {f \in Events : status[f] = "PROCESSING" /\ expired[f]}}

\* Find reads the IDs and leases of a batch of expired claims.
RecoverFind(r, batch) ==
  /\ observed[r] = {}
  /\ batch # {} /\ batch \subseteq ExpiredLeases
  /\ observed' = [observed EXCEPT ![r] = batch]
  /\ UNCHANGED <<docVars, workerVars, brokerVars>>

\* The update of one document: only a claim still under the observed lease
\* goes back to PENDING, with its next_attempt_at as it was.
RecoverWrite(r, e, l) ==
  /\ <<e, l>> \in observed[r]
  /\ IF OwnedProcessing(e, l) /\ expired[e]
     THEN EndClaim(e, "PENDING")
     ELSE UNCHANGED <<status, leaseId, expired>>
  /\ observed' = [observed EXCEPT ![r] = @ \ {<<e, l>>}]
  /\ UNCHANGED <<due, workerVars, brokerVars>>

\* The recoverer dies or BulkWrite fails; what is left of the batch is dropped.
RecoverAbandon(r) ==
  /\ observed[r] # {}
  /\ observed' = [observed EXCEPT ![r] = {}]
  /\ UNCHANGED <<docVars, workerVars, brokerVars>>

-----------------------------------------------------------------------------
StoreStep == \E e \in Events : InsertEvent(e) \/ BecomesDue(e) \/ LeaseExpires(e) \/ LatePublish(e)

WorkerStep(w) ==
  \/ \E e \in Events : ClaimNext(w, e)
  \/ PublishRejects(w) \/ PublishAcked(w) \/ PublishFails(w)
  \/ MarkPublished(w) \/ MarkFailed(w) \/ ScheduleRetry(w)
  \/ LeaseLost(w) \/ Abandon(w)

RecoverStep(r) ==
  \/ \E batch \in SUBSET ExpiredLeases : RecoverFind(r, batch)
  \/ \E e \in Events, l \in LeaseIDs : RecoverWrite(r, e, l)
  \/ RecoverAbandon(r)

Next ==
  \/ StoreStep
  \/ \E w \in Workers : WorkerStep(w)
  \/ \E r \in Recoverers : RecoverStep(r)

Spec == Init /\ [][Next]_vars

-----------------------------------------------------------------------------
(* Safety. *)

\* An event is locked exactly while it is claimed: a PENDING event can be
\* claimed by anybody and a settled one by nobody, and no path out of
\* PROCESSING (three finishing updates, recovery) leaves a lease behind.
LockedExactlyWhileClaimed ==
  \A e \in Events :
    /\ status[e] = "PROCESSING" <=> leaseId[e] # NoLease
    /\ expired[e] => status[e] = "PROCESSING"

\* Of all workers that believe they hold an event, old owners included, at
\* most one could still finish it (ownedProcessingFilter on the lease).
SoleOwner ==
  \A w1, w2 \in Workers :
    /\ pc[w1] # "idle" /\ OwnedProcessing(claimed[w1], held[w1])
    /\ pc[w2] # "idle" /\ OwnedProcessing(claimed[w2], held[w2])
    /\ claimed[w1] = claimed[w2]
    => w1 = w2

\* An event is marked PUBLISHED only when JetStream has stored it: whatever
\* crashes, expires or is retried, a message is not lost between the two.
PublishedIsStored == \A e \in Events : status[e] = "PUBLISHED" => e \in stream

\* An event that was marked FAILED for good was never sent and never will be,
\* not even by a worker that lost its lease on it.
FailedIsNeverSent ==
  \A e \in Events : status[e] = "FAILED" =>
    /\ e \notin stream \union inflight
    /\ \A w \in Workers : claimed[w] = e => pc[w] # "acked"

\* PUBLISHED and FAILED are final: neither a late worker nor a recovery that
\* read the document before brings the event back.
SettledIsFinal ==
  [][\A e \in Events : status[e] \in {"PUBLISHED", "FAILED"} => status'[e] = status[e]]_vars

\* A claim ends only through the worker that made it or, once its own lease
\* has expired, through recovery: a recovery that read an older lease of the
\* same event never takes the event from its new owner.
ClaimEndsByOwnerOrExpiry ==
  [][\A e \in Events :
       status[e] = "PROCESSING" /\ leaseId'[e] # leaseId[e]
         => \/ expired[e]
            \/ \E w \in Workers : claimed[w] = e /\ held[w] = leaseId[e] /\ claimed'[w] = NoEvent]_vars

\* What readers of the log and of the outbox are promised.
Promise == INSTANCE Publication WITH
  state <- [e \in Events |->
    CASE status[e] = "ABSENT" -> "absent"
      [] status[e] = "PUBLISHED" -> "confirmed"
      [] status[e] = "FAILED" -> "rejected"
      [] OTHER -> "accepted"],
  log <- stream

\* The outbox implements Publication: claims, leases, retries, lost replies and
\* recovery are all invisible to who inserts events and to who reads the log.
ImplementsPublication == Promise!Spec

-----------------------------------------------------------------------------
(* Liveness. *)

\* The recovery loop of some process keeps running: it runs on a timer,
\* whatever the workers do.  An expired claim is in some batch because Find
\* sorts by locked_until.
RecoveryFairness ==
  /\ \A e \in Events : WF_vars(LeaseExpires(e))
  /\ \A r \in Recoverers : WF_vars(observed[r] # {} /\ RecoverStep(r))
  /\ \A e \in Events :
       /\ SF_vars(\E r \in Recoverers, batch \in SUBSET ExpiredLeases :
                    <<e, leaseId[e]>> \in batch /\ RecoverFind(r, batch))
       /\ SF_vars(\E r \in Recoverers : expired[e] /\ RecoverWrite(r, e, leaseId[e]))

\* RunOnce always returns, its calls being under timeouts.  A due event is
\* claimed in its turn (an event rescheduled later sorts after it), and a
\* worker that claims an event often enough sometimes gets its answer from
\* JetStream and from the store within the lease, as the constructor's
\* LeaseDuration > PublishTimeout + FinishTimeout intends.
WorkerFairness ==
  /\ \A e \in Events : WF_vars(BecomesDue(e))
  /\ \A w \in Workers : WF_vars(pc[w] # "idle" /\ WorkerStep(w))
  /\ \A e \in Events :
       /\ SF_vars(\E w \in Workers : ClaimNext(w, e))
       /\ SF_vars(\E w \in Workers : claimed[w] = e /\ OwnedProcessing(e, held[w])
                                    /\ (PublishAcked(w) \/ PublishRejects(w)))
       /\ SF_vars(\E w \in Workers : claimed[w] = e /\ (MarkPublished(w) \/ MarkFailed(w)))

FairSpec == Spec /\ RecoveryFairness /\ WorkerFairness

\* Every inserted event settles in the end: PUBLISHED when it is valid, FAILED
\* when it is not, however often workers crash or lose their leases.
EveryEventSettles ==
  \A e \in Events :
    status[e] = "PENDING" ~> status[e] = (IF e \in Valid THEN "PUBLISHED" ELSE "FAILED")

=============================================================================
