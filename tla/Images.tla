------------------------------- MODULE Images -------------------------------
(***************************************************************************)
(* One image: its document in MongoDB, its object in Garage, the requests  *)
(* that upload it and the cleanup loops that collect it when no message    *)
(* takes it.  The two stores share no transaction.                         *)
(*                                                                         *)
(*   - internal/application/images/service.go: Upload reserves, stores,    *)
(*     confirms and releases; CleanupOnce claims, deletes, completes;      *)
(*   - internal/resources/mongodb/image_repository: the filter of every    *)
(*     update, which is the guard here;                                    *)
(*   - internal/resources/garage: PUT and DELETE, whose replies may be     *)
(*     lost and whose effect may come late.                                *)
(*                                                                         *)
(* An image is named by (uploaded_by, client_upload_id), which is unique;  *)
(* images are independent, so there is one.  An upload stands for its      *)
(* token, and so does a cleaner, which holds its latest token only.        *)
(*                                                                         *)
(* Times are kept as what is left of them, down to -Skew: an instance      *)
(* whose clock is lag behind, or that has read it lag ago, sees left + lag.*)
(***************************************************************************)
EXTENDS Integers

CONSTANTS
  Uploads,      \* POST /v1/images requests for this image
  Cleaners,     \* cleanup loops, one per API instance
  Contents,     \* chat and bytes of an upload
  Lease, AbandonAfter, Grace,  \* UploadLease, AbandonAfter, DeletionGrace
  Skew,         \* the most a clock that an update uses is behind
  PutTime,      \* a PUT takes effect within this time or never
  Suspension,   \* the longest a process is suspended where it matters
  NoToken, NoContent

ASSUME ImagesAssumption ==
  /\ Uploads \intersect Cleaners = {}
  /\ NoToken \notin Uploads \union Cleaners
  /\ NoContent \notin Contents
  /\ {Lease, AbandonAfter, Grace, Skew, Suspension} \subseteq Nat
  /\ PutTime \in Nat \ {0}

\* docs/images.md leaves suspensions "beyond every deadline" to operators.
\* This is how long they may be: for an upload whose lease lapsed, and for one
\* that released it with its PUT still under way.
ASSUME DeadlinesAssumption ==
  /\ Suspension + PutTime + Suspension + Skew + Skew < Lease + Grace
  /\ PutTime + Suspension + Skew < Grace

VARIABLES
  image,   \* the document
  object,  \* the object is in the bucket
  pc,      \* pc[p]: where Upload of p, or CleanupOnce of p, is
  delay,   \* delay[p]: how much longer p may be suspended there
  put,     \* put[u]: how much longer u's PUT may take effect, 0 for no more
  input,   \* input[u]: chat and bytes of upload u
  answer   \* answer[u]: the outcome of upload u

processVars == <<pc, delay, put, input, answer>>
vars == <<image, object, processVars>>

Processes == Uploads \union Cleaners

Documents ==
  [status: {"ABSENT", "PENDING", "READY", "ATTACHED", "DELETING", "DELETED"},
   content: Contents \union {NoContent},
   uploadToken: Uploads \union {NoToken}, deleteToken: Cleaners \union {NoToken},
   expires: -Skew..AbandonAfter, locked: -Skew..Lease, grace: -Skew..Grace,
   waits: BOOLEAN]  \* cleanup_after is the end of the grace, not the claim

\* 200, 409 image_upload_in_progress, 409 image_upload_conflict, 410; 503 or 504.
Answers == {"none", "ok", "busy", "conflict", "expired", "error"}

TypeOK ==
  /\ image \in Documents
  /\ object \in BOOLEAN
  /\ pc \in [Processes -> {"new", "taking", "reserved", "storing", "stored", "releasing",
                           "done", "idle", "claimed", "deleted"}]
  /\ delay \in [Processes -> 0..Suspension]
  /\ put \in [Uploads -> 0..PutTime]
  /\ input \in [Uploads -> Contents]
  /\ answer \in [Uploads -> Answers]

NoImage ==
  [status |-> "ABSENT", content |-> NoContent, uploadToken |-> NoToken, deleteToken |-> NoToken,
   expires |-> -Skew, locked |-> -Skew, grace |-> -Skew, waits |-> FALSE]

Init ==
  /\ image = NoImage
  /\ object = FALSE
  /\ pc = [p \in Processes |-> IF p \in Uploads THEN "new" ELSE "idle"]
  /\ delay = [p \in Processes |-> 0]
  /\ put = [u \in Uploads |-> 0]
  /\ input \in [Uploads -> Contents]
  /\ answer = [u \in Uploads |-> "none"]

-----------------------------------------------------------------------------
(* Time. *)

Lags == 0..Skew

\* What is left of a period that begins at the instance's own reading.
From(period, lag) == period - lag

Passed(left, lag) == left + lag <= 0

Down(left) == IF left > -Skew THEN left - 1 ELSE left

\* The places where a long suspension could outlive every deadline: before a
\* PUT is sent, and between a deletion and the clock reading that judges it.
Hurried(p) == pc[p] \in {"reserved", "deleted"}

Tick ==
  /\ \A p \in Processes : Hurried(p) => delay[p] > 0
  /\ image' = [image EXCEPT !.expires = Down(@), !.locked = Down(@), !.grace = Down(@)]
  /\ delay' = [p \in Processes |-> IF delay[p] > 0 THEN delay[p] - 1 ELSE 0]
  /\ put' = [u \in Uploads |-> IF put[u] > 0 THEN put[u] - 1 ELSE 0]
  /\ UNCHANGED <<object, pc, input, answer>>

Goto(p, place) ==
  /\ pc' = [pc EXCEPT ![p] = place]
  /\ delay' = [delay EXCEPT ![p] = IF place \in {"reserved", "deleted"} THEN Suspension ELSE 0]

Finish(u, place, outcome) ==
  /\ Goto(u, place)
  /\ answer' = [answer EXCEPT ![u] = outcome]

-----------------------------------------------------------------------------
(* An upload. *)

\* The insert of ReserveUpload succeeds: there is no document of this name.
Insert(u, lag) ==
  /\ pc[u] = "new" /\ image.status = "ABSENT"
  /\ image' = [NoImage EXCEPT !.status = "PENDING", !.content = input[u], !.uploadToken = u,
                              !.expires = From(AbandonAfter, lag), !.locked = From(Lease, lag)]
  /\ Goto(u, "reserved")
  /\ UNCHANGED <<object, put, input, answer>>

\* What a read document of the same content means to an upload.
Usable(lag) == image.status = "ATTACHED" \/ (image.status = "READY" /\ ~Passed(image.expires, lag))
Unfinished(lag) == image.status = "PENDING" /\ ~Passed(image.expires, lag)

\* It meets a duplicate key, and the document is read and judged.
FindDuplicate(u, lag) ==
  /\ pc[u] = "new" /\ image.status # "ABSENT"
  /\ \/ image.content # input[u] /\ Finish(u, "done", "conflict")
     \/ image.content = input[u] /\ Usable(lag) /\ Finish(u, "done", "ok")
     \/ image.content = input[u] /\ Unfinished(lag) /\ Goto(u, "taking") /\ UNCHANGED answer
     \/ image.content = input[u] /\ ~Usable(lag) /\ ~Unfinished(lag) /\ Finish(u, "done", "expired")
  /\ UNCHANGED <<image, object, put, input>>

\* Mutant: the filter has no locked_until.
TakeableLocked(lag) == image.status = "PENDING" /\ ~Passed(image.expires, lag)

\* The filter of the update that takes over a lapsed or released upload.
Takeable(lag) ==
  image.status = "PENDING" /\ ~Passed(image.expires, lag) /\ Passed(image.locked, lag)

TakeOver(u, lag) ==
  /\ pc[u] = "taking"
  /\ \/ /\ Takeable(lag)
        /\ image' = [image EXCEPT !.uploadToken = u, !.locked = From(Lease, lag)]
        /\ Goto(u, "reserved")
        /\ UNCHANGED answer
     \/ ~Takeable(lag) /\ Finish(u, "done", "busy") /\ UNCHANGED image
  /\ UNCHANGED <<object, put, input>>

SendPut(u) ==
  /\ pc[u] = "reserved"
  /\ put' = [put EXCEPT ![u] = PutTime]
  /\ Goto(u, "storing")
  /\ UNCHANGED <<image, object, input, answer>>

\* Garage stores the object, whether or not the upload still waits for it.
Store(u) ==
  /\ put[u] > 0
  /\ object' = TRUE
  /\ put' = [put EXCEPT ![u] = 0]
  /\ IF pc[u] = "storing" THEN Goto(u, "stored") ELSE UNCHANGED <<pc, delay>>
  /\ UNCHANGED <<image, input, answer>>

\* Mutant: a PUT without an answer is taken for a stored one.
PutTimeoutIgnored(u) ==
  /\ pc[u] = "storing"
  /\ Goto(u, "stored")
  /\ UNCHANGED <<image, object, put, input, answer>>

\* Put fails or runs out of time, or its reply is lost, or MarkReady fails; the
\* request may still be under way.  The deferred release follows.
PutFails(u) ==
  /\ pc[u] \in {"storing", "stored"}
  /\ Finish(u, "releasing", "error")
  /\ UNCHANGED <<image, object, input>>
  /\ put' \in {put, [put EXCEPT ![u] = 0]}

\* The filter of MarkReady.
Confirmable(u, lag) ==
  /\ image.status = "PENDING" /\ image.uploadToken = u
  /\ ~Passed(image.expires, lag) /\ ~Passed(image.locked, lag)

Confirmed(lag) == [image EXCEPT !.status = "READY", !.uploadToken = NoToken, !.locked = From(0, lag)]

\* Mutant: the number of documents that matched is not looked at.
MarkReadyUnchecked(u, lag) ==
  /\ pc[u] = "stored"
  /\ image' = IF Confirmable(u, lag) THEN Confirmed(lag) ELSE image
  /\ Finish(u, "releasing", "ok")
  /\ UNCHANGED <<object, put, input>>

MarkReady(u, lag) ==
  /\ pc[u] = "stored"
  /\ \/ /\ Confirmable(u, lag)
        /\ image' = Confirmed(lag)
        /\ Finish(u, "releasing", "ok") \/ Finish(u, "releasing", "error")
     \/ ~Confirmable(u, lag) /\ Finish(u, "releasing", "expired") /\ UNCHANGED image
  /\ UNCHANGED <<object, put, input>>

\* ReleaseUpload, whose failure is ignored.
ReleaseUpload(u) ==
  /\ pc[u] = "releasing"
  /\ Goto(u, "done")
  /\ \/ UNCHANGED image
     \/ /\ image.status = "PENDING" /\ image.uploadToken = u
        /\ image' = [image EXCEPT !.uploadToken = NoToken, !.locked = -Skew]
  /\ UNCHANGED <<object, put, input, answer>>

\* A read of the store fails, the client goes away before the PUT (and the
\* lease is released), or the instance dies.
Fail(u) ==
  /\ pc[u] \notin {"done", "releasing"}
  /\ Finish(u, "done", "error") \/ (pc[u] = "reserved" /\ Finish(u, "releasing", "error"))
  /\ UNCHANGED <<image, object, put, input>>

\* CreateWithOutbox takes a READY image for a message before it expires.
Attach(lag) ==
  /\ image.status = "READY" /\ ~Passed(image.expires, lag)
  /\ image' = [image EXCEPT !.status = "ATTACHED"]
  /\ UNCHANGED <<object, processVars>>

-----------------------------------------------------------------------------
(* A cleanup loop: CleanupOnce. *)

\* The first filter of ClaimAbandoned.
Abandoned(lag) ==
  /\ image.status \in {"PENDING", "READY"}
  /\ Passed(image.expires, lag) /\ Passed(image.locked, lag)

ClaimAbandoned(c, lag) ==
  /\ pc[c] = "idle" /\ Abandoned(lag)
  /\ image' = [image EXCEPT !.status = "DELETING", !.uploadToken = NoToken, !.deleteToken = c,
                            !.grace = From(Grace, lag), !.locked = From(Lease, lag), !.waits = FALSE]
  /\ Goto(c, "claimed")
  /\ UNCHANGED <<object, put, input, answer>>

\* Mutant: only documents whose first deletion completed are claimed again.
RetryableOnceWaiting(lag) ==
  /\ image.status = "DELETING" /\ image.waits
  /\ Passed(image.grace, lag) /\ Passed(image.locked, lag)

\* Its second filter: a deletion that failed, or whose grace is over.
Retryable(lag) ==
  /\ image.status = "DELETING"
  /\ image.waits => Passed(image.grace, lag)
  /\ Passed(image.locked, lag)

ClaimRetry(c, lag) ==
  /\ pc[c] = "idle" /\ Retryable(lag)
  /\ image' = [image EXCEPT !.deleteToken = c, !.locked = From(Lease, lag)]
  /\ Goto(c, "claimed")
  /\ UNCHANGED <<object, put, input, answer>>

Delete(c) ==
  /\ pc[c] = "claimed"
  /\ object' = FALSE
  /\ Goto(c, "deleted")
  /\ UNCHANGED <<image, put, input, answer>>

\* The deletion fails, or only its reply is lost.
DeleteFails(c) ==
  /\ pc[c] = "claimed"
  /\ object' \in {object, FALSE}
  /\ Goto(c, "idle")
  /\ UNCHANGED <<image, put, input, answer>>

\* Mutant: the first deletion is taken for the last.
GraceIgnored(lag) == TRUE

GraceOver(lag) == Passed(image.grace, lag)

\* CompleteDeletion: the image is DELETED if its grace is over by now, and
\* otherwise it waits for a second deletion then.
CompleteDeletion(c, lag) ==
  /\ pc[c] = "deleted"
  /\ image' =
       IF image.status = "DELETING" /\ image.deleteToken = c
       THEN [image EXCEPT !.status = IF GraceOver(lag) THEN "DELETED" ELSE @,
                          !.deleteToken = NoToken, !.locked = From(0, lag), !.waits = TRUE]
       ELSE image
  /\ Goto(c, "idle")
  /\ UNCHANGED <<object, put, input, answer>>

\* The instance dies, or CompleteDeletion fails.
Abort(c) ==
  /\ pc[c] \in {"claimed", "deleted"}
  /\ Goto(c, "idle")
  /\ UNCHANGED <<image, object, put, input, answer>>

-----------------------------------------------------------------------------
UploadStep(u) ==
  \/ \E lag \in Lags : Insert(u, lag) \/ FindDuplicate(u, lag) \/ TakeOver(u, lag) \/ MarkReady(u, lag)
  \/ SendPut(u) \/ Store(u) \/ PutFails(u) \/ ReleaseUpload(u) \/ Fail(u)

CleanupStep(c) ==
  \/ \E lag \in Lags : ClaimAbandoned(c, lag) \/ ClaimRetry(c, lag) \/ CompleteDeletion(c, lag)
  \/ Delete(c) \/ DeleteFails(c) \/ Abort(c)

Next ==
  \/ Tick
  \/ \E u \in Uploads : UploadStep(u)
  \/ \E c \in Cleaners : CleanupStep(c)
  \/ \E lag \in Lags : Attach(lag)

Spec == Init /\ [][Next]_vars

-----------------------------------------------------------------------------
(* Safety. *)

\* An image that a message may take, or has taken, is in the bucket: no late
\* confirmation and no deletion in flight can leave a message without it.
ReadyIsStored == image.status \in {"READY", "ATTACHED"} => object

\* A DELETED document leaves no object behind, and no PUT under way or still
\* to be sent can bring one back: nothing would ever collect that one.
DeletedIsGone ==
  image.status = "DELETED" =>
    /\ ~object
    /\ \A u \in Uploads : put[u] = 0 /\ pc[u] # "reserved"

\* An upload that is answered 200 has its bytes, for its chat, in an image that
\* a message can take, whoever stored them.
OkMeansStored ==
  [][\A u \in Uploads : answer'[u] = "ok" /\ answer[u] # "ok" =>
       /\ image'.status \in {"READY", "ATTACHED"} /\ object'
       /\ image'.content = input[u]]_vars

\* Until its lease lapses an upload is ended by nobody but itself: another
\* attempt, or a cleaner, never cuts in on a PUT that is under way.
LeaseIsExclusive ==
  [][image.status = "PENDING" /\ image.uploadToken # NoToken /\ image.locked > 0
       /\ <<image'.status, image'.uploadToken>> # <<image.status, image.uploadToken>>
     => pc'[image.uploadToken] # pc[image.uploadToken]]_vars

-----------------------------------------------------------------------------
(* Liveness. *)

\* Time passes, no process stops for ever where it is hurried, and the loop of
\* some instance, which runs every minute, deletes what it keeps claiming.
CleanupFairness ==
  /\ WF_vars(Tick)
  /\ \A u \in Uploads : WF_vars(pc[u] = "reserved" /\ UploadStep(u))
  /\ \A c \in Cleaners : WF_vars(pc[c] # "idle" /\ CleanupStep(c))
  /\ SF_vars(\E c \in Cleaners, lag \in Lags : ClaimAbandoned(c, lag) \/ ClaimRetry(c, lag))
  /\ SF_vars(\E c \in Cleaners : image.deleteToken = c /\ Delete(c))
  /\ SF_vars(\E c \in Cleaners, lag \in Lags : image.deleteToken = c /\ CompleteDeletion(c, lag))

FairSpec == Spec /\ CleanupFairness

\* An image that no message takes is deleted in the end, whatever fails on the
\* way: a lost PUT, an upload that died with its lease, a failing deletion.
UnattachedIsDeleted ==
  image.status \in {"PENDING", "READY"} ~> image.status \in {"ATTACHED", "DELETED"}

=============================================================================
