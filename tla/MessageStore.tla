---------------------------- MODULE MessageStore ----------------------------
(***************************************************************************)
(* Creating a message: concurrent POST requests, on any number of API      *)
(* instances, against the collections chats, timeline_items, outbox_events *)
(* and images.                                                             *)
(*                                                                         *)
(*   - internal/application/messages/create.go: authorisation, and the     *)
(*     creation time read from the instance's clock before the store call; *)
(*   - internal/resources/mongodb/message_store: look the idempotency key  *)
(*     up, run the transaction, look it up again when that collided;       *)
(*   - internal/resources/mongodb/transaction.go: a snapshot transaction   *)
(*     with majority commit, so one atomic step here, whose outcome the    *)
(*     caller may not learn.                                               *)
(*                                                                         *)
(* An idempotency key is the pair (sender_id, client_message_id); a client *)
(* that retries is one more request with the same key, with the same or a  *)
(* different body.  A request doubles as the message ID and the event ID   *)
(* that it generates.                                                      *)
(***************************************************************************)
EXTENDS Naturals, FiniteSets

CONSTANTS
  Requests, Keys, Users, Chats, Contents, Images,
  SenderOf,      \* SenderOf[k]: the user whose key k is
  Participants,  \* Participants[c]: the two users of chat c
  ImageOf,       \* ImageOf[b]: the image of content b, or NoImage for a text
  UploadedBy, UploadedTo, ExpiresAt,  \* of an image: uploaded_by, chat_id, expires_at
  ChatCreatedAt, \* ChatCreatedAt[c]: created_at of the chat document
  Times,         \* what the instances' clocks may show
  MaxSequence,   \* timeline.MaxSequence
  NoImage, NoRequest

ASSUME MessageStoreAssumption ==
  /\ SenderOf \in [Keys -> Users]
  /\ Participants \in [Chats -> SUBSET Users]
  /\ ImageOf \in [Contents -> Images \union {NoImage}]
  /\ UploadedBy \in [Images -> Users]
  /\ UploadedTo \in [Images -> Chats]
  /\ ExpiresAt \in [Images -> Times]
  /\ ChatCreatedAt \in [Chats -> Times]
  /\ Times \subseteq Nat
  /\ MaxSequence \in Nat
  /\ NoImage \notin Images
  /\ NoRequest \notin Requests

Inputs == [key: Keys, chat: Chats, content: Contents]

VARIABLES
  lastSequence,  \* lastSequence[c]: last_sequence of the chat document
  summarySortAt, \* summarySortAt[c]: summary_sort_at of the chat document
  timeline,      \* the timeline items
  outbox,        \* the outbox events, as inserted
  imageStatus,   \* imageStatus[i]: status of the image document
  attachedTo,    \* attachedTo[i]: message_id of the image document
  pc,            \* pc[r]: where CreateWithOutbox is in request r
  input,         \* input[r]: key, chat and content of request r
  createdAt,     \* createdAt[r]: the clock read before the store call
  answer         \* answer[r]: status and message of the HTTP response

chatVars == <<lastSequence, summarySortAt>>
imageVars == <<imageStatus, attachedTo>>
storeVars == <<chatVars, timeline, outbox, imageVars>>
requestVars == <<pc, input, createdAt, answer>>
vars == <<storeVars, requestVars>>

Items == [id: Requests, chat: Chats, sequence: Nat, key: Keys, content: Contents, createdAt: Times]
Events == [message: Requests, chat: Chats, sequence: Nat]

\* 201 created, 200 existing, 409 conflict, 409 image_unavailable, 404, 500.
Codes == {"created", "existing", "conflict", "image_unavailable", "chat_not_found", "error"}
NoAnswer == [code |-> "none", message |-> NoRequest]
Answers == [code: Codes \union {"none"}, message: Requests \union {NoRequest}]

TypeOK ==
  /\ lastSequence \in [Chats -> 0..MaxSequence]
  /\ summarySortAt \in [Chats -> Times]
  /\ timeline \subseteq Items
  /\ outbox \subseteq Events
  /\ imageStatus \in [Images -> {"PENDING", "READY", "ATTACHED", "DELETING"}]
  /\ attachedTo \in [Images -> Requests \union {NoRequest}]
  /\ pc \in [Requests -> {"new", "lookup", "transaction", "duplicate", "unavailable", "done"}]
  /\ input \in [Requests -> Inputs]
  /\ createdAt \in [Requests -> Times]
  /\ answer \in [Requests -> Answers]

\* Before it starts, a request's input and clock reading are what they will be.
Init ==
  /\ lastSequence = [c \in Chats |-> 0]
  /\ summarySortAt = ChatCreatedAt
  /\ timeline = {}
  /\ outbox = {}
  /\ imageStatus = [i \in Images |-> "PENDING"]
  /\ attachedTo = [i \in Images |-> NoRequest]
  /\ pc = [r \in Requests |-> "new"]
  /\ input \in [Requests -> Inputs]
  /\ createdAt \in [Requests -> Times]
  /\ answer = [r \in Requests |-> NoAnswer]

-----------------------------------------------------------------------------
(* Lookups and answers. *)

\* The items with r's idempotency key: findExistingMessage returns the one.
Existing(r) == {item \in timeline : item.key = input[r].key}

\* Mutant: the chat is not compared.
SameContentAnywhere(item, r) == item.content = input[r].content

SameLogicalMessage(item, r) ==
  item.chat = input[r].chat /\ item.content = input[r].content

Reply(r, code, message) ==
  /\ pc' = [pc EXCEPT ![r] = "done"]
  /\ answer' = [answer EXCEPT ![r] = [code |-> code, message |-> message]]
  /\ UNCHANGED <<input, createdAt>>

ResolveExisting(r, item) ==
  IF SameLogicalMessage(item, r)
  THEN Reply(r, "existing", item.id)
  ELSE Reply(r, "conflict", NoRequest)

Goto(r, place) ==
  /\ pc' = [pc EXCEPT ![r] = place]
  /\ UNCHANGED <<input, createdAt, answer>>

-----------------------------------------------------------------------------
(* One request. *)

\* Execute finds the chat and checks that the sender takes part in it.
Start(r) ==
  /\ pc[r] = "new"
  /\ IF SenderOf[input[r].key] \in Participants[input[r].chat]
     THEN Goto(r, "lookup")
     ELSE Reply(r, "chat_not_found", NoRequest)
  /\ UNCHANGED storeVars

Lookup(r) ==
  /\ pc[r] = "lookup"
  /\ \/ Existing(r) = {} /\ Goto(r, "transaction")
     \/ \E item \in Existing(r) : ResolveExisting(r, item)
  /\ UNCHANGED storeVars

\* Mutant: the filter has no status.
ImageOfSender(r) ==
  LET i == ImageOf[input[r].content] IN
    i # NoImage => UploadedBy[i] = SenderOf[input[r].key] /\ UploadedTo[i] = input[r].chat

\* The filter of the image update: READY, the sender's, for this chat, and not
\* expired when the request read its clock.
ImageAvailable(r) ==
  LET i == ImageOf[input[r].content] IN
    i # NoImage =>
      /\ imageStatus[i] = "READY"
      /\ UploadedBy[i] = SenderOf[input[r].key]
      /\ UploadedTo[i] = input[r].chat
      /\ ExpiresAt[i] > createdAt[r]

AttachImage(r) ==
  LET i == ImageOf[input[r].content] IN
    IF i = NoImage THEN UNCHANGED imageVars
    ELSE /\ imageStatus' = [imageStatus EXCEPT ![i] = "ATTACHED"]
         /\ attachedTo' = [attachedTo EXCEPT ![i] = r]

\* Mutant: $set in place of $max.
AllocateSetsSummary(r) ==
  LET c == input[r].chat IN
    /\ lastSequence' = [lastSequence EXCEPT ![c] = @ + 1]
    /\ summarySortAt' = [summarySortAt EXCEPT ![c] = createdAt[r]]

\* $inc last_sequence, $max summary_sort_at.  The filter names the sender as a
\* participant, which Start found and which never changes.
AllocateSequence(r) ==
  LET c == input[r].chat IN
    /\ lastSequence' = [lastSequence EXCEPT ![c] = @ + 1]
    /\ summarySortAt' = [summarySortAt EXCEPT ![c] = IF createdAt[r] > @ THEN createdAt[r] ELSE @]

InsertItem(r) ==
  timeline' = timeline \union
    {[id |-> r, chat |-> input[r].chat, sequence |-> lastSequence[input[r].chat] + 1,
      key |-> input[r].key, content |-> input[r].content, createdAt |-> createdAt[r]]}

\* Mutant: the sequence before the increment (ReturnDocument left at Before).
InsertEventBefore(r) ==
  outbox' = outbox \union
    {[message |-> r, chat |-> input[r].chat, sequence |-> lastSequence[input[r].chat]]}

InsertOutboxEvent(r) ==
  outbox' = outbox \union
    {[message |-> r, chat |-> input[r].chat, sequence |-> lastSequence[input[r].chat] + 1]}

\* Mutant: off by one.
SequenceLeftOrLast(r) == lastSequence[input[r].chat] <= MaxSequence

\* ParseSequence accepts the incremented value.
SequenceLeft(r) == lastSequence[input[r].chat] < MaxSequence

\* The unique index on (sender_id, client_message_id) accepts the insert.
KeyUnused(r) == Existing(r) = {}

\* The transaction commits.  The request answers 201, or 500 when the result
\* of the commit never reaches it.
Commit(r) ==
  /\ pc[r] = "transaction"
  /\ ImageAvailable(r) /\ SequenceLeft(r) /\ KeyUnused(r)
  /\ AttachImage(r)
  /\ AllocateSequence(r)
  /\ InsertItem(r)
  /\ InsertOutboxEvent(r)
  /\ Reply(r, "created", r) \/ Reply(r, "error", NoRequest)

\* The transaction aborts on ErrImageUnavailable, which it checks first, ...
AbortImage(r) ==
  /\ pc[r] = "transaction" /\ ~ImageAvailable(r)
  /\ Goto(r, "unavailable")
  /\ UNCHANGED storeVars

\* ... on a sequence that ParseSequence refuses, ...
AbortSequence(r) ==
  /\ pc[r] = "transaction" /\ ImageAvailable(r) /\ ~SequenceLeft(r)
  /\ Reply(r, "error", NoRequest)
  /\ UNCHANGED storeVars

\* ... or on a duplicate key, when another request committed in the meantime.
AbortDuplicate(r) ==
  /\ pc[r] = "transaction" /\ ImageAvailable(r) /\ SequenceLeft(r) /\ ~KeyUnused(r)
  /\ Goto(r, "duplicate")
  /\ UNCHANGED storeVars

\* Mutant: only the duplicate key is looked up again.
RelookupOnlyDuplicate(r) ==
  /\ pc[r] \in {"duplicate", "unavailable"}
  /\ \/ pc[r] = "duplicate" /\ \E item \in Existing(r) : ResolveExisting(r, item)
     \/ pc[r] = "duplicate" /\ Existing(r) = {} /\ Reply(r, "error", NoRequest)
     \/ pc[r] = "unavailable" /\ Reply(r, "image_unavailable", NoRequest)
  /\ UNCHANGED storeVars

\* After either collision the key is looked up once more: the image may be
\* gone because this very message was stored.
Relookup(r) ==
  /\ pc[r] \in {"duplicate", "unavailable"}
  /\ \/ \E item \in Existing(r) : ResolveExisting(r, item)
     \/ /\ Existing(r) = {}
        /\ Reply(r, IF pc[r] = "unavailable" THEN "image_unavailable" ELSE "error", NoRequest)
  /\ UNCHANGED storeVars

\* A lookup or the transaction fails, the request is cancelled, or the instance
\* dies: no answer but an error.
Fail(r) ==
  /\ pc[r] # "done"
  /\ Reply(r, "error", NoRequest)
  /\ UNCHANGED storeVars

-----------------------------------------------------------------------------
(* The images collection, as far as a message depends on it. *)

\* MarkReady ends an upload.
ImageUploaded(i) ==
  /\ imageStatus[i] = "PENDING"
  /\ imageStatus' = [imageStatus EXCEPT ![i] = "READY"]
  /\ UNCHANGED <<chatVars, timeline, outbox, attachedTo, requestVars>>

\* ClaimAbandoned takes an image that nobody attached before it expired on the
\* clock of the instance that cleans up, which need not be the sender's.
ImageAbandoned(i) ==
  /\ imageStatus[i] \in {"PENDING", "READY"}
  /\ imageStatus' = [imageStatus EXCEPT ![i] = "DELETING"]
  /\ UNCHANGED <<chatVars, timeline, outbox, attachedTo, requestVars>>

-----------------------------------------------------------------------------
RequestStep(r) ==
  \/ Start(r) \/ Lookup(r) \/ Commit(r)
  \/ AbortImage(r) \/ AbortSequence(r) \/ AbortDuplicate(r)
  \/ Relookup(r) \/ Fail(r)

Next ==
  \/ \E r \in Requests : RequestStep(r)
  \/ \E i \in Images : ImageUploaded(i) \/ ImageAbandoned(i)

Spec == Init /\ [][Next]_vars

-----------------------------------------------------------------------------
(* Safety. *)

\* The sequences of a chat are 1, 2, ..., last_sequence, each of one item, and
\* end at MaxSequence: no aborted or concurrent transaction leaves a gap, takes a
\* number twice or passes the largest, so a reader that pages by sequence misses
\* nothing.
SequencesContiguous ==
  \A c \in Chats :
    /\ lastSequence[c] <= MaxSequence
    /\ \A n \in 1..lastSequence[c] : \E item \in timeline : item.chat = c /\ item.sequence = n
    /\ \A item \in timeline : item.chat = c => item.sequence \in 1..lastSequence[c]
    /\ \A a, b \in timeline : a.chat = c /\ b.chat = c /\ a.sequence = b.sequence => a = b

\* However many requests race or retry with a key, in whichever chats, one
\* message is stored under it.
OneMessagePerKey == \A a, b \in timeline : a.key = b.key => a = b

\* A stored message has its outbox event, with its chat and sequence, and
\* there is no event without a message: one transaction writes both.
OneEventPerItem ==
  outbox = {[message |-> item.id, chat |-> item.chat, sequence |-> item.sequence] : item \in timeline}

\* 201 names the request's own message, 200 an identical one under its key,
\* and 409 is answered only when a different message is stored under its key:
\* what a client is told is still true after every later step.
AnswersAreTrue ==
  \A r \in Requests :
    /\ answer[r].code \in {"created", "existing"} =>
         \E item \in timeline :
           /\ item.id = answer[r].message
           /\ item.key = input[r].key /\ item.chat = input[r].chat /\ item.content = input[r].content
           /\ answer[r].code = "created" <=> item.id = r
    /\ answer[r].code = "conflict" =>
         \E item \in timeline :
           item.key = input[r].key /\ <<item.chat, item.content>> # <<input[r].chat, input[r].content>>

\* An image is ATTACHED exactly when a message shows it, to that message alone
\* and in the chat it was uploaded to: the cleanup never takes an image from a
\* stored message, and no image is kept for a message that was rolled back.
AttachedIffShown ==
  \A i \in Images :
    LET shown == {item \in timeline : ImageOf[item.content] = i} IN
      /\ imageStatus[i] = "ATTACHED" <=> shown # {}
      /\ \A item \in shown :
           attachedTo[i] = item.id /\ UploadedTo[i] = item.chat /\ UploadedBy[i] = SenderOf[item.key]

\* The chat list is sorted by the latest time in the chat, its creation
\* included, even when the instances' clocks disagree and an earlier reading
\* commits last.
SummaryIsLatest ==
  \A c \in Chats :
    LET times == {ChatCreatedAt[c]} \union {item.createdAt : item \in {x \in timeline : x.chat = c}} IN
      summarySortAt[c] \in times /\ \A t \in times : t <= summarySortAt[c]

ItemAt(c, n) == CHOOSE item \in timeline : item.chat = c /\ item.sequence = n

EntryAt(c, n) == [id |-> ItemAt(c, n).id, key |-> ItemAt(c, n).key, content |-> ItemAt(c, n).content]

\* What a client of POST /messages is promised.
Promise == INSTANCE IdempotentLog WITH
  log <- [c \in Chats |-> [n \in 1..lastSequence[c] |-> EntryAt(c, n)]]

\* The lookups, the transaction and its collisions together act as one atomic
\* append per key: every answer is one the atomic log could give at that very
\* moment, and a message, once at its place in the chat, stays there.
ImplementsIdempotentLog == Promise!Spec

=============================================================================
