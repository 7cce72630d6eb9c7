------------------------------ MODULE Timeline ------------------------------
(***************************************************************************)
(* Reading the timeline of a chat: GET /v1/chats/{id}/timeline             *)
(* (handler/chats/timeline.go, application/timeline/list.go,               *)
(* mongodb/timeline_repository), while messages are appended, and the      *)
(* audit of the stored data before the API serves.                         *)
(*                                                                         *)
(* A reader asks for page after page with what the last answer told it,    *)
(* and chooses the size of each.  A page is read in one snapshot.  Items   *)
(* are appended with the next sequence of the chat, as MessageStore shows, *)
(* but their created_at comes from the clock of some instance.             *)
(***************************************************************************)
EXTENDS Paging, FiniteSetsExt

CONSTANTS
  MaxItems,       \* bound: items of the chat
  MaxSequence     \* the largest sequence that a request may name

ASSUME TimelineAssumption ==
  {MaxItems, MaxSequence} \subseteq Nat /\ MaxItems <= MaxSequence

VARIABLES
  phase,    \* of the API: "starting", "serving", "refused"
  items,    \* the timeline_items of the chat: [id, sequence, at, client]
  counter,  \* last_sequence of the chat
  walk      \* walk[r]: what reader r has asked and got

vars == <<phase, items, counter, walk>>

(* An item of old data may have no sequence (0) and no clientMessageId; the indexes    *)
(* make sequences and ids unique.                                                      *)
Ids == 1..MaxItems

Item == [id : Nat, sequence : Nat, at : Times, client : BOOLEAN]

Unique(S) ==
  \A x, y \in S : x # y => x.id # y.id /\ (x.sequence # y.sequence \/ x.sequence = 0)

\* The query of a request; None is a parameter left out.
Request == [cursor : Item \union {None}, order : BOOLEAN, before : Nat \union {None},
            after : Nat \union {None}, through : Nat \union {None}]

\* A parameter that is left out is told from every one that is given.
ASSUME NoneAssumption == None \notin Item \union Request

Idle == [first |-> None, upper |-> 0, existing |-> {}, pages |-> <<>>, next |-> None,
         refused |-> FALSE]

NothingStored ==
  phase = "starting" /\ items = {} /\ counter = 0 /\ walk = [r \in Readers |-> Idle]

\* Old data has at most two items.
Init ==
  /\ phase = "starting"
  /\ items \in {S \in UNION {kSubset(k, [id : 1..2, sequence : 0..3, at : {Min(Times)},
                                        client : BOOLEAN]) : k \in 0..2} : Unique(S)}
  /\ counter \in 0..3
  /\ walk = [r \in Readers |-> Idle]

-----------------------------------------------------------------------------
(* The audit: bootstrap does not serve data that it refuses.               *)

SequencesUsed == {x.sequence : x \in items}

Sound(x) == x.sequence \in 1..MaxSequence /\ x.client

\* Mutant: the smallest and the largest sequence, without the count.
ContiguousEnds ==
  items # {} => Min(SequencesUsed) = 1 /\ Max(SequencesUsed) = counter

Contiguous ==
  items # {} =>
    /\ Min(SequencesUsed) = 1 /\ Max(SequencesUsed) = Cardinality(items)
    /\ \A x \in items : Sound(x)
    /\ counter = Max(SequencesUsed)

\* The counter of a chat without items is 0.
CounterMatchesTail == counter = IF items = {} THEN 0 ELSE Max(SequencesUsed)

CheckRealtimeData ==
  /\ phase = "starting"
  /\ phase' = IF Contiguous /\ CounterMatchesTail THEN "serving" ELSE "refused"
  /\ UNCHANGED <<items, counter, walk>>

\* A message is committed, with its item.
AppendItem(id, at) ==
  /\ phase = "serving" /\ Cardinality(items) < MaxItems
  /\ id \notin {x.id : x \in items}
  /\ counter' = counter + 1
  /\ items' = items \union {[id |-> id, sequence |-> counter', at |-> at, client |-> TRUE]}
  /\ UNCHANGED <<phase, walk>>

-----------------------------------------------------------------------------
(* A page.                                                                 *)

SequenceMode(q) == q.order \/ Given(q.after)

\* parseTimelineInput and validateSequenceInput.
Valid(q) ==
  /\ Given(q.cursor) => ~q.order /\ ~Given(q.before) /\ ~Given(q.after) /\ ~Given(q.through)
  /\ Given(q.before) => q.order /\ q.before # 0
  /\ Given(q.after) => ~q.order /\ ~Given(q.before)
  /\ Given(q.through) => Given(q.after) /\ q.after <= q.through
  /\ \A v \in {q.before, q.after, q.through} : Given(v) => v <= MaxSequence

LastSequence == IF items = {} THEN 0 ELSE Max(SequencesUsed)

Upper(q) == IF Given(q.through) THEN q.through ELSE LastSequence

\* The positions that a request names must exist.
InRange(q) ==
  SequenceMode(q) =>
    /\ Given(q.through) => q.through <= LastSequence
    /\ Given(q.after) => q.after <= Upper(q)

BySequence(x, y) == x.sequence < y.sequence
ByLatestSequence(x, y) == x.sequence > y.sequence

\* Mutant: the time alone, as a cursor.
BehindByTime(x, cursor) == x.at < cursor.at

Behind(x, cursor) == NewestFirst(cursor, x)

\* The items that a request asks for, those of S up to upper.
Wanted(q, S, upper) ==
  IF SequenceMode(q)
  THEN {x \in S : /\ x.sequence <= upper
                  /\ Given(q.after) => x.sequence > q.after
                  /\ Given(q.before) => x.sequence < q.before}
  ELSE {x \in S : Given(q.cursor) => Behind(x, q.cursor)}

PageOf(q, S, limit) ==
  CASE Given(q.after) -> Page(S, limit, BySequence)
    [] q.order -> Page(S, limit, ByLatestSequence)
    [] OTHER -> Page(S, limit, NewestFirst)

\* Mutant: the client is told to go on with what is new by then.
NextAfterOpen(q, page, upper) == [q EXCEPT !.after = Max({x.sequence : x \in page})]

\* Mutant: the snapshot as an exclusive bound.
NextAfterExclusive(q, page, upper) ==
  [q EXCEPT !.after = Max({x.sequence : x \in page}), !.through = upper + 1]

NextAfter(q, page, upper) ==
  [q EXCEPT !.after = Max({x.sequence : x \in page}), !.through = upper]

NextBefore(q, page) == [q EXCEPT !.before = Min({x.sequence : x \in page})]

\* The request that follows, from nextAfterSequence with snapshotThroughSequence, from
\* nextBeforeSequence or from nextCursor.
NextRequest(q, page, upper) ==
  CASE Given(q.after) -> NextAfter(q, page, upper)
    [] q.order -> NextBefore(q, page)
    [] OTHER -> [q EXCEPT !.cursor = LastOf(page, NewestFirst)]

\* toDomain, which every item that was found for a page goes through.
Restored(x) == x.sequence \in 1..MaxSequence /\ x.client

\* The walk of a reader after the answer to q.
PageRead(w, q, limit) ==
  LET upper == Upper(q)
      wanted == Wanted(q, items, upper)
      page == PageOf(q, wanted, limit)
  IN IF Valid(q) /\ InRange(q) /\ \A x \in PageOf(q, wanted, limit + 1) : Restored(x)
     THEN [w EXCEPT !.pages = Append(@, page),
                    !.next = IF HasNext(wanted, limit) THEN NextRequest(q, page, upper) ELSE None]
     ELSE [w EXCEPT !.refused = TRUE, !.next = None]

FirstRequests ==
  [cursor : {None}, order : BOOLEAN, before : 0..2 \union {None},
   after : 0..MaxItems \union {None}, through : {2, None}]

Begin(r, q, limit) ==
  /\ phase = "serving" /\ walk[r] = Idle
  /\ walk' = [walk EXCEPT ![r] =
       PageRead([Idle EXCEPT !.first = q, !.upper = Upper(q), !.existing = items], q, limit)]
  /\ UNCHANGED <<phase, items, counter>>

Continue(r, limit) ==
  /\ Given(walk[r].next)
  /\ walk' = [walk EXCEPT ![r] = PageRead(walk[r], walk[r].next, limit)]
  /\ UNCHANGED <<phase, items, counter>>

Next ==
  \/ CheckRealtimeData
  \/ \E id \in Ids, at \in Times : AppendItem(id, at)
  \/ \E r \in Readers, limit \in 1..MaxPageSize :
       \/ \E q \in FirstRequests : Begin(r, q, limit)
       \/ Continue(r, limit)

Spec == Init /\ [][Next]_vars

-----------------------------------------------------------------------------
(* Properties.                                                             *)

\* A recovery that has finished has every sequence after its start up to the snapshot of
\* its first page, each once and in order, whatever was appended meanwhile
\* (timeline_repository/sequence.go:19, docs/frontend-timeline-contract.md:132).
RecoveryComplete ==
  \A r \in Readers :
    LET w == walk[r]
    IN Finished(w) /\ Given(w.first.after) =>
         /\ {x.sequence : x \in Got(w)} = (w.first.after + 1)..w.upper
         /\ NoItemTwice(w)
         /\ \A i \in 2..Len(w.pages) : \A x \in w.pages[i - 1], y \in w.pages[i] :
              x.sequence < y.sequence

\* History read back to its beginning has every sequence before its start, each once.
HistoryComplete ==
  \A r \in Readers :
    LET w == walk[r]
        last == IF Given(w.first.before) /\ w.first.before <= w.upper
                THEN w.first.before - 1 ELSE w.upper
    IN Finished(w) /\ w.first.order =>
         {x.sequence : x \in Got(w)} = 1..last /\ NoItemTwice(w)

\* The walk by time, with created_at from clocks that disagree, shows every item of the
\* first page's time exactly once (timeline_repository/list.go:61).
LegacyWalkComplete ==
  \A r \in Readers :
    LET w == walk[r]
    IN Finished(w) /\ ~SequenceMode(w.first) =>
         w.existing \subseteq Got(w) /\ NoItemTwice(w)

\* A reader that was answered once and follows the answers is never refused.
NeverRefusedLate == \A r \in Readers : walk[r].refused => walk[r].pages = <<>>
=============================================================================
