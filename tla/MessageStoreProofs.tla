------------------------- MODULE MessageStoreProofs -------------------------
(***************************************************************************)
(* Proofs about MessageStore, for any sets of requests, keys, chats and    *)
(* images: its invariants, and that it implements IdempotentLog.           *)
(***************************************************************************)
EXTENDS MessageStore, Sequences, TLAPS

-----------------------------------------------------------------------------
(* The inductive invariant. *)

\* A request has no answer before it is done, and stores nothing before.
AnsweredWhenDone ==
  /\ \A r \in Requests : pc[r] # "done" => answer[r] = NoAnswer
  /\ \A item \in timeline : pc[item.id] = "done"

IInv ==
  /\ TypeOK
  /\ AnsweredWhenDone
  /\ SequencesContiguous
  /\ OneMessagePerKey
  /\ OneEventPerItem
  /\ AnswersAreTrue
  /\ AttachedIffShown
  /\ SummaryIsLatest

\* The part of the invariant that only speaks of the collections.
StoreInv ==
  SequencesContiguous /\ OneMessagePerKey /\ OneEventPerItem /\ AttachedIffShown /\ SummaryIsLatest

-----------------------------------------------------------------------------
(* The steps that store nothing. *)

\* A request moves on without an answer.
MoveOn(r) == \E place \in {"lookup", "transaction", "duplicate", "unavailable"} : Goto(r, place)

\* An answer that what is stored at this moment justifies.
TruthfulReply(r) ==
  \E code \in Codes \ {"created"}, message \in Requests \union {NoRequest} :
    /\ Reply(r, code, message)
    /\ code = "existing" =>
         \E item \in Existing(r) : SameLogicalMessage(item, r) /\ message = item.id
    /\ code = "conflict" =>
         message = NoRequest /\ \E item \in Existing(r) : ~SameLogicalMessage(item, r)
    /\ code = "image_unavailable" => message = NoRequest /\ Existing(r) = {}
    /\ code \in {"chat_not_found", "error"} => message = NoRequest

\* Answering from an item that has the request's key is truthful.
LEMMA ResolveIsTruthful ==
  ASSUME TypeOK, NEW r \in Requests, NEW item \in Existing(r), ResolveExisting(r, item)
  PROVE  TruthfulReply(r)
<1>1. item.id \in Requests
  BY DEF TypeOK, Items, Existing
<1>2. CASE SameLogicalMessage(item, r)
  <2>1. Reply(r, "existing", item.id)
    BY <1>2 DEF ResolveExisting
  <2> QED
    BY <1>1, <1>2, <2>1 DEF TruthfulReply, Codes
<1>3. CASE ~SameLogicalMessage(item, r)
  <2>1. Reply(r, "conflict", NoRequest)
    BY <1>3 DEF ResolveExisting
  <2> QED
    BY <1>3, <2>1 DEF TruthfulReply, Codes
<1> QED
  BY <1>2, <1>3

\* Every step of a request but the commit leaves the collections alone and
\* either moves on or answers truthfully.
LEMMA SilentStep ==
  ASSUME TypeOK, NEW r \in Requests, RequestStep(r), ~Commit(r)
  PROVE  pc[r] # "done" /\ UNCHANGED storeVars /\ (MoveOn(r) \/ TruthfulReply(r))
<1>1. ASSUME Reply(r, "error", NoRequest) PROVE TruthfulReply(r)
  BY <1>1 DEF TruthfulReply, Codes
<1>2. ASSUME Reply(r, "chat_not_found", NoRequest) PROVE TruthfulReply(r)
  BY <1>2 DEF TruthfulReply, Codes
<1>3. ASSUME Reply(r, "image_unavailable", NoRequest), Existing(r) = {} PROVE TruthfulReply(r)
  BY <1>3 DEF TruthfulReply, Codes
<1>4. CASE Start(r)
  BY <1>2, <1>4 DEF Start, MoveOn
<1>5. CASE Lookup(r)
  BY <1>5, ResolveIsTruthful DEF Lookup, MoveOn
<1>6. CASE AbortImage(r) \/ AbortDuplicate(r)
  BY <1>6 DEF AbortImage, AbortDuplicate, MoveOn
<1>7. CASE AbortSequence(r) \/ Fail(r)
  BY <1>1, <1>7 DEF AbortSequence, Fail
<1>8. CASE Relookup(r)
  BY <1>1, <1>3, <1>8, ResolveIsTruthful DEF Relookup
<1> QED
  BY <1>4, <1>5, <1>6, <1>7, <1>8 DEF RequestStep

\* Such a step preserves the invariant.
LEMMA SilentIInv ==
  ASSUME IInv, NEW r \in Requests, pc[r] # "done", UNCHANGED storeVars,
         MoveOn(r) \/ TruthfulReply(r)
  PROVE  IInv'
<1> USE DEF IInv
<1>1. UNCHANGED <<lastSequence, summarySortAt, timeline, outbox, imageStatus, attachedTo, input>>
  BY DEF storeVars, chatVars, imageVars, MoveOn, Goto, TruthfulReply, Reply
<1>2. SequencesContiguous' /\ OneMessagePerKey' /\ OneEventPerItem' /\ AttachedIffShown' /\ SummaryIsLatest'
  BY <1>1 DEF SequencesContiguous, OneMessagePerKey, OneEventPerItem, AttachedIffShown, SummaryIsLatest
<1>3. CASE MoveOn(r)
  <2>1. TypeOK'
    BY <1>1, <1>3 DEF TypeOK, MoveOn, Goto
  <2>2. AnsweredWhenDone'
    BY <1>1, <1>3 DEF AnsweredWhenDone, TypeOK, Items, MoveOn, Goto
  <2>3. AnswersAreTrue'
    BY <1>1, <1>3 DEF AnswersAreTrue, MoveOn, Goto
  <2> QED
    BY <1>2, <2>1, <2>2, <2>3
<1>4. CASE TruthfulReply(r)
  <2> PICK code \in Codes \ {"created"}, message \in Requests \union {NoRequest} :
        /\ Reply(r, code, message)
        /\ code = "existing" =>
             \E item \in Existing(r) : SameLogicalMessage(item, r) /\ message = item.id
        /\ code = "conflict" => \E item \in Existing(r) : ~SameLogicalMessage(item, r)
    BY <1>4 DEF TruthfulReply
  <2>1. TypeOK'
    BY <1>1 DEF TypeOK, Reply, Answers, Codes
  <2>2. AnsweredWhenDone'
    BY <1>1 DEF AnsweredWhenDone, TypeOK, Items, Reply
  <2>3. answer' = [answer EXCEPT ![r] = [code |-> code, message |-> message]]
    BY DEF Reply
  <2>4. code = "existing" =>
          \E item \in timeline :
            /\ item.id = message /\ item.id # r
            /\ item.key = input[r].key /\ item.chat = input[r].chat /\ item.content = input[r].content
    BY DEF Existing, SameLogicalMessage, AnsweredWhenDone
  <2>5. code = "conflict" =>
          \E item \in timeline :
            item.key = input[r].key /\ <<item.chat, item.content>> # <<input[r].chat, input[r].content>>
    BY DEF Existing, SameLogicalMessage
  <2>6. AnswersAreTrue'
    BY <1>1, <2>3, <2>4, <2>5 DEF AnswersAreTrue, TypeOK
  <2> QED
    BY <1>2, <2>1, <2>2, <2>6
<1> QED
  BY <1>3, <1>4

-----------------------------------------------------------------------------
(* The commit. *)

\* The item that the transaction of r inserts.
NewItem(r) ==
  [id |-> r, chat |-> input[r].chat, sequence |-> lastSequence[input[r].chat] + 1,
   key |-> input[r].key, content |-> input[r].content, createdAt |-> createdAt[r]]

\* What a commit does, and what its guards and the invariant say of its item.
LEMMA CommitFacts ==
  ASSUME TypeOK, AnsweredWhenDone, NEW r \in Requests, Commit(r)
  PROVE  /\ input[r] \in Inputs /\ createdAt[r] \in Times /\ NewItem(r) \in Items
         /\ lastSequence[input[r].chat] \in 0..(MaxSequence - 1)
         /\ lastSequence' = [lastSequence EXCEPT ![input[r].chat] = @ + 1]
         /\ timeline' = timeline \union {NewItem(r)}
         /\ \A item \in timeline : item.id # r /\ item.key # input[r].key
         /\ UNCHANGED <<input, createdAt>>
<1> USE MessageStoreAssumption
<1>1. input[r] \in Inputs /\ createdAt[r] \in Times
  BY DEF TypeOK
<1>2. lastSequence[input[r].chat] \in 0..(MaxSequence - 1)
  BY <1>1 DEF TypeOK, Inputs, Commit, SequenceLeft
<1>3. NewItem(r) \in Items
  BY <1>1, <1>2 DEF NewItem, Items, Inputs
<1>4. \A item \in timeline : item.id # r /\ item.key # input[r].key
  BY DEF Commit, AnsweredWhenDone, KeyUnused, Existing
<1> QED
  BY <1>1, <1>2, <1>3, <1>4 DEF Commit, AllocateSequence, InsertItem, NewItem, Reply

\* A commit preserves types and the request part of the invariant.
LEMMA CommitRequests ==
  ASSUME IInv, NEW r \in Requests, Commit(r)
  PROVE  TypeOK' /\ AnsweredWhenDone' /\ AnswersAreTrue'
<1> USE MessageStoreAssumption DEF IInv
<1>1. TypeOK'
  <2>1. /\ lastSequence' \in [Chats -> 0..MaxSequence]
        /\ timeline' \subseteq Items
    BY CommitFacts DEF TypeOK, Inputs
  <2>2. summarySortAt' \in [Chats -> Times]
    BY CommitFacts DEF TypeOK, Inputs, Commit, AllocateSequence
  <2>3. outbox' \subseteq Events
    BY CommitFacts DEF TypeOK, Inputs, Events, Commit, InsertOutboxEvent
  <2>4. /\ imageStatus' \in [Images -> {"PENDING", "READY", "ATTACHED", "DELETING"}]
        /\ attachedTo' \in [Images -> Requests \union {NoRequest}]
    BY DEF TypeOK, Commit, AttachImage, imageVars
  <2>5. /\ pc' \in [Requests -> {"new", "lookup", "transaction", "duplicate", "unavailable", "done"}]
        /\ input' \in [Requests -> Inputs]
        /\ createdAt' \in [Requests -> Times]
        /\ answer' \in [Requests -> Answers]
    BY DEF TypeOK, Answers, Codes, Commit, Reply
  <2> QED
    BY <2>1, <2>2, <2>3, <2>4, <2>5 DEF TypeOK
<1>2. AnsweredWhenDone'
  BY CommitFacts DEF TypeOK, Items, AnsweredWhenDone, NewItem, Commit, Reply
<1>3. AnswersAreTrue'
  <2>1. \/ answer' = [answer EXCEPT ![r] = [code |-> "created", message |-> r]]
        \/ answer' = [answer EXCEPT ![r] = [code |-> "error", message |-> NoRequest]]
    BY DEF Commit, Reply
  <2>2. NewItem(r) \in timeline' /\ NewItem(r).id = r /\ NewItem(r).key = input[r].key
        /\ NewItem(r).chat = input[r].chat /\ NewItem(r).content = input[r].content
    BY CommitFacts DEF NewItem
  <2>3. timeline \subseteq timeline' /\ input' = input
    BY CommitFacts
  <2>4. ASSUME NEW q \in Requests, q # r PROVE answer'[q] = answer[q]
    BY <2>1, <2>4 DEF TypeOK
  <2>5. answer'[r] \in {[code |-> "created", message |-> r], [code |-> "error", message |-> NoRequest]}
    BY <2>1 DEF TypeOK
  <2>6. ASSUME NEW q \in Requests, answer'[q].code \in {"created", "existing"}
        PROVE  \E item \in timeline' :
                 /\ item.id = answer'[q].message
                 /\ item.key = input[q].key /\ item.chat = input[q].chat /\ item.content = input[q].content
                 /\ answer'[q].code = "created" <=> item.id = q
    <3>1. CASE q = r
      BY <2>2, <2>5, <2>6, <3>1
    <3>2. CASE q # r
      BY <2>3, <2>4, <2>6, <3>2 DEF AnswersAreTrue
    <3> QED
      BY <3>1, <3>2
  <2>7. ASSUME NEW q \in Requests, answer'[q].code = "conflict"
        PROVE  \E item \in timeline' :
                 item.key = input[q].key /\ <<item.chat, item.content>> # <<input[q].chat, input[q].content>>
    <3>1. q # r
      BY <2>5, <2>7
    <3> QED
      BY <2>3, <2>4, <2>7, <3>1 DEF AnswersAreTrue
  <2> QED
    BY <2>3, <2>6, <2>7 DEF AnswersAreTrue
<1> QED
  BY <1>1, <1>2, <1>3

\* A commit preserves what the collections say of each other.
LEMMA CommitStore ==
  ASSUME IInv, NEW r \in Requests, Commit(r)
  PROVE  StoreInv'
<1> USE MessageStoreAssumption DEF IInv
<1>1. SequencesContiguous'
  <2> DEFINE chat == input[r].chat
  <2>1. chat \in Chats /\ lastSequence[chat] \in Nat
    BY CommitFacts DEF TypeOK, Inputs
  <2>2. \A item \in timeline : item.chat \in Chats /\ item.sequence \in Nat
    BY DEF TypeOK, Items
  <2>3. NewItem(r).chat = chat /\ NewItem(r).sequence = lastSequence[chat] + 1
    BY DEF NewItem
  <2>4. timeline' = timeline \union {NewItem(r)}
    BY CommitFacts
  <2>5. /\ \A c \in Chats : lastSequence[c] \in Nat
        /\ \A c \in Chats : lastSequence'[c] = IF c = chat THEN lastSequence[c] + 1 ELSE lastSequence[c]
    BY CommitFacts DEF TypeOK
  <2> HIDE DEF chat
  <2>6. ASSUME NEW c \in Chats, NEW n \in 1..lastSequence'[c]
        PROVE  \E item \in timeline' : item.chat = c /\ item.sequence = n
    <3>1. CASE c = chat /\ n = lastSequence[chat] + 1
      BY <2>3, <2>4, <3>1
    <3>2. CASE ~(c = chat /\ n = lastSequence[chat] + 1)
      <4>1. n \in 1..lastSequence[c]
        BY <2>5, <2>6, <3>2
      <4> QED
        BY <2>4, <4>1 DEF SequencesContiguous
    <3> QED
      BY <3>1, <3>2
  <2>7. ASSUME NEW c \in Chats, NEW item \in timeline', item.chat = c
        PROVE  item.sequence \in 1..lastSequence'[c]
    BY <2>2, <2>3, <2>4, <2>5, <2>7 DEF SequencesContiguous
  <2>8. ASSUME NEW c \in Chats, NEW a \in timeline', NEW b \in timeline',
               a.chat = c /\ b.chat = c /\ a.sequence = b.sequence
        PROVE  a = b
    BY <2>1, <2>2, <2>3, <2>4, <2>8 DEF SequencesContiguous
  <2>9. \A c \in Chats : lastSequence'[c] <= MaxSequence
    BY CommitFacts, <2>1, <2>5 DEF TypeOK, SequenceLeft, chat
  <2> QED
    BY <2>6, <2>7, <2>8, <2>9 DEF SequencesContiguous
<1>2. OneMessagePerKey'
  <2>1. \A item \in timeline : item.key # NewItem(r).key
    BY CommitFacts DEF NewItem
  <2>2. timeline' = timeline \union {NewItem(r)}
    BY CommitFacts
  <2> QED
    BY <2>1, <2>2 DEF OneMessagePerKey
<1>3. OneEventPerItem'
  <2>1. outbox' = outbox \union
          {[message |-> NewItem(r).id, chat |-> NewItem(r).chat, sequence |-> NewItem(r).sequence]}
    BY DEF Commit, InsertOutboxEvent, NewItem
  <2> QED
    BY <2>1, CommitFacts DEF OneEventPerItem
<1>4. AttachedIffShown'
  <2> DEFINE image == ImageOf[input[r].content]
  <2>1. /\ timeline' = timeline \union {NewItem(r)}
        /\ input[r].content \in Contents
        /\ NewItem(r).content = input[r].content /\ NewItem(r).id = r
        /\ NewItem(r).chat = input[r].chat /\ NewItem(r).key = input[r].key
    BY CommitFacts DEF NewItem, Inputs
  <2>2. CASE image = NoImage
    <3>1. UNCHANGED <<imageStatus, attachedTo>>
      BY <2>2 DEF Commit, AttachImage, imageVars
    <3>2. \A i \in Images : ImageOf[NewItem(r).content] # i
      BY <2>1, <2>2
    <3> QED
      BY <2>1, <3>1, <3>2 DEF AttachedIffShown
  <2>3. CASE image # NoImage
    <3>1. /\ image \in Images /\ imageStatus[image] = "READY"
          /\ UploadedBy[image] = SenderOf[input[r].key] /\ UploadedTo[image] = input[r].chat
          /\ imageStatus' = [imageStatus EXCEPT ![image] = "ATTACHED"]
          /\ attachedTo' = [attachedTo EXCEPT ![image] = r]
      BY <2>1, <2>3 DEF Commit, ImageAvailable, AttachImage
    <3>2. \A item \in timeline : ImageOf[item.content] # image
      BY <3>1 DEF AttachedIffShown
    <3>3. ASSUME NEW i \in Images
          PROVE  LET shown == {item \in timeline' : ImageOf[item.content] = i} IN
                   /\ imageStatus'[i] = "ATTACHED" <=> shown # {}
                   /\ \A item \in shown : /\ attachedTo'[i] = item.id
                                          /\ UploadedTo[i] = item.chat
                                          /\ UploadedBy[i] = SenderOf[item.key]
      <4> DEFINE before == {item \in timeline : ImageOf[item.content] = i}
                 after == {item \in timeline' : ImageOf[item.content] = i}
      <4>1. CASE i = image
        <5>1. after = {NewItem(r)}
          BY <2>1, <3>2, <4>1
        <5>2. imageStatus'[i] = "ATTACHED" /\ attachedTo'[i] = r
          BY <3>1, <4>1 DEF TypeOK
        <5> QED
          BY <2>1, <3>1, <4>1, <5>1, <5>2
      <4>2. CASE i # image
        <5>1. after = before
          BY <2>1, <4>2
        <5>2. imageStatus'[i] = imageStatus[i] /\ attachedTo'[i] = attachedTo[i]
          BY <3>1, <4>2 DEF TypeOK
        <5> QED
          BY <5>1, <5>2 DEF AttachedIffShown
      <4> QED
        BY <4>1, <4>2
    <3> QED
      BY <3>3 DEF AttachedIffShown
  <2> QED
    BY <2>2, <2>3
<1>5. SummaryIsLatest'
  <2> DEFINE chat == input[r].chat
             before(c) == {ChatCreatedAt[c]} \union {item.createdAt : item \in {x \in timeline : x.chat = c}}
             after(c) == {ChatCreatedAt[c]} \union {item.createdAt : item \in {x \in timeline' : x.chat = c}}
  <2>1. /\ timeline' = timeline \union {NewItem(r)}
        /\ NewItem(r).chat = chat /\ NewItem(r).createdAt = createdAt[r]
        /\ chat \in Chats /\ createdAt[r] \in Nat
    BY CommitFacts DEF NewItem, Inputs
  <2>2. \A c \in Chats : after(c) = IF c = chat THEN before(c) \union {createdAt[r]} ELSE before(c)
    BY <2>1
  <2>3. \A c \in Chats :
          /\ summarySortAt[c] \in Nat
          /\ summarySortAt'[c] =
               IF c = chat /\ createdAt[r] > summarySortAt[c] THEN createdAt[r] ELSE summarySortAt[c]
    <3>1. \A c \in Chats : summarySortAt[c] \in Nat
      BY DEF TypeOK
    <3>2. summarySortAt' = [summarySortAt EXCEPT ![chat] = IF createdAt[r] > @ THEN createdAt[r] ELSE @]
      BY DEF Commit, AllocateSequence
    <3> QED
      BY <2>1, <3>1, <3>2 DEF TypeOK
  <2>4. \A c \in Chats : before(c) \subseteq Nat
    <3>1. \A c \in Chats : ChatCreatedAt[c] \in Nat
      OBVIOUS
    <3>2. \A item \in timeline : item.createdAt \in Nat
      BY DEF TypeOK, Items
    <3> QED
      BY <3>1, <3>2
  <2>5. \A c \in Chats : summarySortAt[c] \in before(c) /\ \A t \in before(c) : t <= summarySortAt[c]
    BY DEF SummaryIsLatest
  <2> HIDE DEF before, after, chat
  <2>6. \A c \in Chats : summarySortAt'[c] \in after(c) /\ \A t \in after(c) : t <= summarySortAt'[c]
    BY <2>1, <2>2, <2>3, <2>4, <2>5
  <2> QED
    BY <2>6 DEF SummaryIsLatest, after
<1> QED
  BY <1>1, <1>2, <1>3, <1>4, <1>5 DEF StoreInv

-----------------------------------------------------------------------------
(* The invariant. *)

\* The images' own steps: an image that is not attached changes its status.
LEMMA ImageIInv ==
  ASSUME IInv, NEW i \in Images, ImageUploaded(i) \/ ImageAbandoned(i)
  PROVE  IInv'
<1> USE DEF IInv
<1>1. /\ UNCHANGED <<lastSequence, summarySortAt, timeline, outbox, attachedTo, pc, input, createdAt, answer>>
      /\ imageStatus[i] # "ATTACHED"
      /\ \E s \in {"READY", "DELETING"} : imageStatus' = [imageStatus EXCEPT ![i] = s]
  BY DEF ImageUploaded, ImageAbandoned, chatVars, requestVars
<1>2. TypeOK'
  BY <1>1 DEF TypeOK
<1>3. AttachedIffShown'
  BY <1>1 DEF AttachedIffShown, TypeOK
<1>4. SequencesContiguous' /\ OneMessagePerKey' /\ OneEventPerItem' /\ SummaryIsLatest'
  BY <1>1 DEF SequencesContiguous, OneMessagePerKey, OneEventPerItem, SummaryIsLatest
<1>5. AnsweredWhenDone' /\ AnswersAreTrue'
  BY <1>1 DEF AnsweredWhenDone, AnswersAreTrue
<1> QED
  BY <1>2, <1>3, <1>4, <1>5

\* The initial states satisfy the invariant.
LEMMA InitIInv == Init => IInv
<1> SUFFICES ASSUME Init PROVE IInv
  OBVIOUS
<1> USE MessageStoreAssumption DEF Init
<1>1. TypeOK
  BY DEF TypeOK, Answers, NoAnswer
<1>2. SequencesContiguous /\ OneMessagePerKey /\ OneEventPerItem /\ AttachedIffShown
  BY DEF SequencesContiguous, OneMessagePerKey, OneEventPerItem, AttachedIffShown
<1>3. AnsweredWhenDone /\ AnswersAreTrue
  BY DEF AnsweredWhenDone, AnswersAreTrue, NoAnswer
<1>4. SummaryIsLatest
  <2>1. \A c \in Chats : {item.createdAt : item \in {x \in timeline : x.chat = c}} = {}
    OBVIOUS
  <2> QED
    BY <2>1 DEF SummaryIsLatest
<1> QED
  BY <1>1, <1>2, <1>3, <1>4 DEF IInv

\* Every step preserves it.
LEMMA NextIInv ==
  ASSUME IInv, [Next]_vars
  PROVE  IInv'
<1>1. ASSUME NEW r \in Requests, Commit(r) PROVE IInv'
  BY <1>1, CommitRequests, CommitStore DEF IInv, StoreInv
<1>2. ASSUME NEW r \in Requests, RequestStep(r), ~Commit(r) PROVE IInv'
  <2>1. TypeOK
    BY DEF IInv
  <2> QED
    BY <1>2, <2>1, SilentStep, SilentIInv
<1>3. ASSUME NEW i \in Images, ImageUploaded(i) \/ ImageAbandoned(i) PROVE IInv'
  BY <1>3, ImageIInv
<1>4. CASE UNCHANGED vars
  BY <1>4 DEF vars, storeVars, chatVars, imageVars, requestVars, IInv, TypeOK, AnsweredWhenDone,
              SequencesContiguous, OneMessagePerKey, OneEventPerItem, AnswersAreTrue,
              AttachedIffShown, SummaryIsLatest
<1> QED
  BY <1>1, <1>2, <1>3, <1>4 DEF Next

\* The invariant holds of every behaviour.
THEOREM InductiveInvariant == Spec => []IInv
BY InitIInv, NextIInv, PTL DEF Spec

\* Every variable has its type in every state.
THEOREM TypeCorrect == Spec => []TypeOK
BY InductiveInvariant, PTL DEF IInv

\* The sequences of a chat have no gap and no duplicate.
THEOREM ContiguousSequences == Spec => []SequencesContiguous
BY InductiveInvariant, PTL DEF IInv

\* A key is stored at most once, whatever the number of concurrent requests.
THEOREM Idempotence == Spec => []OneMessagePerKey
BY InductiveInvariant, PTL DEF IInv

\* Messages and outbox events are written together or not at all.
THEOREM EventWithMessage == Spec => []OneEventPerItem
BY InductiveInvariant, PTL DEF IInv

\* No client is told something that is not so.
THEOREM TruthfulAnswers == Spec => []AnswersAreTrue
BY InductiveInvariant, PTL DEF IInv

\* Attached images and image messages correspond one to one.
THEOREM ImagesOfMessages == Spec => []AttachedIffShown
BY InductiveInvariant, PTL DEF IInv

\* The chat list's sort key is the latest time in the chat.
THEOREM LatestSummary == Spec => []SummaryIsLatest
BY InductiveInvariant, PTL DEF IInv

-----------------------------------------------------------------------------
(* The refinement. *)

Log == [c \in Chats |-> [n \in 1..lastSequence[c] |-> EntryAt(c, n)]]

\* The place of an item in the log is the item.
LEMMA ItemAtPlace ==
  ASSUME TypeOK, SequencesContiguous
  PROVE  /\ \A c \in Chats : \A n \in 1..lastSequence[c] :
              ItemAt(c, n) \in timeline /\ ItemAt(c, n).chat = c /\ ItemAt(c, n).sequence = n
         /\ \A item \in timeline :
              /\ item.chat \in Chats /\ item.sequence \in 1..lastSequence[item.chat]
              /\ ItemAt(item.chat, item.sequence) = item
<1>1. ASSUME NEW c \in Chats, NEW n \in 1..lastSequence[c]
      PROVE  ItemAt(c, n) \in timeline /\ ItemAt(c, n).chat = c /\ ItemAt(c, n).sequence = n
  <2>1. \E item \in timeline : item.chat = c /\ item.sequence = n
    BY DEF SequencesContiguous
  <2> QED
    BY <2>1 DEF ItemAt
<1>2. ASSUME NEW item \in timeline
      PROVE  /\ item.chat \in Chats /\ item.sequence \in 1..lastSequence[item.chat]
             /\ ItemAt(item.chat, item.sequence) = item
  <2>1. item.chat \in Chats
    BY DEF TypeOK, Items
  <2>2. item.sequence \in 1..lastSequence[item.chat]
    BY <2>1 DEF SequencesContiguous
  <2> QED
    BY <1>1, <2>1, <2>2 DEF SequencesContiguous
<1> QED
  BY <1>1, <1>2

\* The log holds r's key exactly where the timeline has the item.
LEMMA PlacesOfKey ==
  ASSUME TypeOK, SequencesContiguous, NEW r \in Requests
  PROVE  /\ \A item \in Existing(r) :
              /\ <<item.chat, item.sequence>> \in Promise!Places(r)
              /\ Log[item.chat][item.sequence] = [id |-> item.id, key |-> item.key, content |-> item.content]
         /\ Existing(r) = {} => Promise!Places(r) = {}
<1>1. \A c \in Chats : /\ lastSequence[c] \in Nat
                       /\ Len(Log[c]) = lastSequence[c]
                       /\ \A n \in 1..lastSequence[c] : Log[c][n] = EntryAt(c, n)
  <2> TAKE c \in Chats
  <2>1. lastSequence[c] \in Nat
    BY MessageStoreAssumption DEF TypeOK
  <2>2. Log[c] = [n \in 1..lastSequence[c] |-> EntryAt(c, n)]
    BY DEF Log
  <2> QED
    BY <2>1, <2>2
<1>2. Promise!Places(r) =
        {p \in UNION {{c} \X (1..Len(Log[c])) : c \in Chats} : Log[p[1]][p[2]].key = input[r].key}
  BY DEF Promise!Places, Log
<1>3. \A c \in Chats : \A n \in 1..Len(Log[c]) :
        Log[c][n].key = input[r].key => <<c, n>> \in Promise!Places(r)
  BY <1>2
<1>4. \A p \in Promise!Places(r) : \E c \in Chats : \E n \in 1..Len(Log[c]) :
        p = <<c, n>> /\ Log[c][n].key = input[r].key
  BY <1>2
<1>5. ASSUME NEW item \in Existing(r)
      PROVE  /\ <<item.chat, item.sequence>> \in Promise!Places(r)
             /\ Log[item.chat][item.sequence] = [id |-> item.id, key |-> item.key, content |-> item.content]
  <2>1. /\ item \in timeline /\ item.key = input[r].key
        /\ item.chat \in Chats /\ item.sequence \in 1..lastSequence[item.chat]
        /\ ItemAt(item.chat, item.sequence) = item
    BY ItemAtPlace DEF Existing
  <2>2. Log[item.chat][item.sequence] = [id |-> item.id, key |-> item.key, content |-> item.content]
    BY <1>1, <2>1 DEF EntryAt
  <2> QED
    BY <1>1, <1>3, <2>1, <2>2
<1>6. ASSUME NEW p \in Promise!Places(r) PROVE Existing(r) # {}
  <2> PICK c \in Chats : \E n \in 1..Len(Log[c]) : p = <<c, n>> /\ Log[c][n].key = input[r].key
    BY <1>4
  <2> PICK n \in 1..Len(Log[c]) : p = <<c, n>> /\ Log[c][n].key = input[r].key
    OBVIOUS
  <2>1. n \in 1..lastSequence[c] /\ EntryAt(c, n).key = input[r].key
    BY <1>1
  <2>2. ItemAt(c, n) \in timeline /\ ItemAt(c, n).key = input[r].key
    BY <2>1, ItemAtPlace DEF EntryAt
  <2> QED
    BY <2>2 DEF Existing
<1> QED
  BY <1>5, <1>6

\* A truthful answer is an answer of the abstract log.
LEMMA TruthfulRefines ==
  ASSUME IInv, NEW r \in Requests, pc[r] # "done", UNCHANGED storeVars, TruthfulReply(r)
  PROVE  Promise!Recall(r) \/ Promise!RefuseImage(r) \/ Promise!Refuse(r)
<1> USE DEF IInv
<1> PICK code \in Codes \ {"created"}, message \in Requests \union {NoRequest} :
      /\ Reply(r, code, message)
      /\ code = "existing" =>
           \E item \in Existing(r) : SameLogicalMessage(item, r) /\ message = item.id
      /\ code = "conflict" =>
           message = NoRequest /\ \E item \in Existing(r) : ~SameLogicalMessage(item, r)
      /\ code = "image_unavailable" => message = NoRequest /\ Existing(r) = {}
      /\ code \in {"chat_not_found", "error"} => message = NoRequest
  BY DEF TruthfulReply
<1>1. Log' = Log
  BY DEF Log, EntryAt, ItemAt, storeVars, chatVars
<1>2. Promise!Tell(r, code, message)
  BY DEF Promise!Tell, Reply, AnsweredWhenDone, NoAnswer
<1>3. CASE code = "existing"
  <2> PICK item \in Existing(r) : SameLogicalMessage(item, r) /\ message = item.id
    BY <1>3
  <2> DEFINE p == <<item.chat, item.sequence>>
  <2>1. p \in Promise!Places(r) /\ Log[p[1]][p[2]] = [id |-> item.id, key |-> item.key, content |-> item.content]
    BY PlacesOfKey
  <2>2. p[1] = input[r].chat /\ Log[p[1]][p[2]].content = input[r].content /\ Log[p[1]][p[2]].id = message
    BY <2>1 DEF SameLogicalMessage
  <2> QED
    BY <1>1, <1>2, <1>3, <2>1, <2>2 DEF Promise!Recall, Log
<1>4. CASE code = "conflict"
  <2> PICK item \in Existing(r) : ~SameLogicalMessage(item, r)
    BY <1>4
  <2> DEFINE p == <<item.chat, item.sequence>>
  <2>1. p \in Promise!Places(r) /\ Log[p[1]][p[2]] = [id |-> item.id, key |-> item.key, content |-> item.content]
    BY PlacesOfKey
  <2>2. ~(p[1] = input[r].chat /\ Log[p[1]][p[2]].content = input[r].content)
    BY <2>1 DEF SameLogicalMessage
  <2> QED
    BY <1>1, <1>2, <1>4, <2>1, <2>2 DEF Promise!Recall, Log
<1>5. CASE code = "image_unavailable"
  BY <1>1, <1>2, <1>5, PlacesOfKey DEF Promise!RefuseImage, Log
<1>6. CASE code \in {"chat_not_found", "error"}
  BY <1>1, <1>2, <1>6 DEF Promise!Refuse, Log
<1> QED
  BY <1>3, <1>4, <1>5, <1>6 DEF Codes

\* A commit appends to the log of its chat.
LEMMA CommitRefines ==
  ASSUME IInv, SequencesContiguous', TypeOK', NEW r \in Requests, Commit(r)
  PROVE  Promise!AppendMessage(r)
<1> USE DEF IInv
<1> PICK chat \in Chats : chat = input[r].chat
  BY CommitFacts DEF Inputs
<1> PICK last \in Nat : last = lastSequence[chat]
  BY CommitFacts, MessageStoreAssumption DEF TypeOK
<1>1. /\ \A c \in Chats : lastSequence[c] \in Nat
      /\ \A c \in Chats : lastSequence'[c] = IF c = chat THEN last + 1 ELSE lastSequence[c]
      /\ timeline' = timeline \union {NewItem(r)}
      /\ NewItem(r).chat = chat /\ NewItem(r).sequence = last + 1
  <2>1. \A c \in Chats : lastSequence[c] \in Nat
    BY MessageStoreAssumption DEF TypeOK
  <2>2. lastSequence' = [lastSequence EXCEPT ![chat] = last + 1] /\ timeline' = timeline \union {NewItem(r)}
    BY CommitFacts
  <2>3. NewItem(r).chat = chat /\ NewItem(r).sequence = last + 1
    BY DEF NewItem
  <2> QED
    BY <2>1, <2>2, <2>3 DEF TypeOK
<1>2. ASSUME NEW c \in Chats, NEW n \in 1..lastSequence[c] PROVE EntryAt(c, n)' = EntryAt(c, n)
  <2>1. ItemAt(c, n) \in timeline' /\ ItemAt(c, n).chat = c /\ ItemAt(c, n).sequence = n
    BY <1>1, ItemAtPlace
  <2>2. \A item \in timeline' : item.chat = c /\ item.sequence = n => item = ItemAt(c, n)
    BY <2>1 DEF SequencesContiguous
  <2>3. ItemAt(c, n)' = ItemAt(c, n)
    BY <2>1, <2>2 DEF ItemAt
  <2> QED
    BY <2>3 DEF EntryAt
<1>3. EntryAt(chat, last + 1)' = Promise!Entry(r)
  <2>1. NewItem(r) \in timeline' /\ NewItem(r).chat = chat /\ NewItem(r).sequence = last + 1
    BY <1>1
  <2>2. \A item \in timeline' : item.chat = chat /\ item.sequence = last + 1 => item = NewItem(r)
    BY <1>1, <2>1 DEF SequencesContiguous
  <2>3. (CHOOSE item \in timeline' : item.chat = chat /\ item.sequence = last + 1) = NewItem(r)
    BY <2>1, <2>2
  <2>4. ItemAt(chat, last + 1)' = NewItem(r)
    BY <2>3 DEF ItemAt
  <2>5. NewItem(r).id = r /\ NewItem(r).key = input[r].key /\ NewItem(r).content = input[r].content
    BY DEF NewItem
  <2> HIDE DEF NewItem
  <2> QED
    BY <2>4, <2>5 DEF EntryAt, Promise!Entry
<1>4. Log' = [Log EXCEPT ![chat] = Append(@, Promise!Entry(r))]
  <2>1. ASSUME NEW c \in Chats, c # chat PROVE Log'[c] = Log[c]
    BY <1>1, <1>2, <2>1 DEF Log
  <2>2. Log'[chat] = Append(Log[chat], Promise!Entry(r))
    <3>1. Log'[chat] = [n \in 1..(last + 1) |-> EntryAt(chat, n)']
      BY <1>1 DEF Log
    <3>2. Log[chat] = [n \in 1..last |-> EntryAt(chat, n)]
      BY <1>1 DEF Log
    <3>3. \A n \in 1..last : EntryAt(chat, n)' = EntryAt(chat, n)
      BY <1>1, <1>2
    <3> QED
      BY <1>1, <1>3, <3>1, <3>2, <3>3
  <2> QED
    BY <1>1, <2>1, <2>2 DEF Log
<1>5. Promise!Places(r) = {}
  <2>1. Existing(r) = {}
    BY DEF Commit, KeyUnused
  <2> QED
    BY <2>1, PlacesOfKey
<1>6. Promise!Tell(r, "created", r) \/ Promise!Tell(r, "error", NoRequest)
  BY DEF Promise!Tell, Commit, Reply, AnsweredWhenDone, NoAnswer
<1> QED
  BY <1>4, <1>5, <1>6 DEF Promise!AppendMessage, Log

\* Concurrent, retried and failing requests act as one atomic append per key.
THEOREM Refinement == Spec => ImplementsIdempotentLog
<1>1. Init => Promise!Init
  <2> SUFFICES ASSUME Init PROVE Promise!Init
    OBVIOUS
  <2>1. \A c \in Chats : [n \in 1..lastSequence[c] |-> EntryAt(c, n)] = <<>>
    BY DEF Init
  <2> QED
    BY <2>1 DEF Init, NoAnswer, Promise!Init
<1>2. IInv /\ IInv' /\ [Next]_vars => [Promise!Next]_Promise!vars
  <2> SUFFICES ASSUME IInv, IInv', [Next]_vars PROVE [Promise!Next]_Promise!vars
    OBVIOUS
  <2>1. ASSUME UNCHANGED <<lastSequence, timeline, input, answer>> PROVE UNCHANGED Promise!vars
    BY <2>1 DEF Promise!vars, EntryAt, ItemAt
  <2>2. ASSUME NEW r \in Requests, Commit(r) PROVE Promise!Next
    BY <2>2, CommitRefines DEF Promise!Next, IInv
  <2>3. ASSUME NEW r \in Requests, RequestStep(r), ~Commit(r) PROVE Promise!Next \/ UNCHANGED Promise!vars
    <3>1. pc[r] # "done" /\ UNCHANGED storeVars /\ (MoveOn(r) \/ TruthfulReply(r))
      BY <2>3, SilentStep DEF IInv
    <3>2. CASE MoveOn(r)
      BY <2>1, <3>1, <3>2 DEF MoveOn, Goto, storeVars, chatVars
    <3>3. CASE TruthfulReply(r)
      BY <3>1, <3>3, TruthfulRefines DEF Promise!Next
    <3> QED
      BY <3>1, <3>2, <3>3
  <2>4. ASSUME NEW i \in Images, ImageUploaded(i) \/ ImageAbandoned(i) PROVE UNCHANGED Promise!vars
    BY <2>1, <2>4 DEF ImageUploaded, ImageAbandoned, chatVars, requestVars
  <2>5. CASE UNCHANGED vars
    BY <2>1, <2>5 DEF vars, storeVars, chatVars, requestVars
  <2> QED
    BY <2>2, <2>3, <2>4, <2>5 DEF Next
<1> QED
  BY <1>1, <1>2, InductiveInvariant, PTL DEF Spec, ImplementsIdempotentLog, Promise!Spec

=============================================================================
