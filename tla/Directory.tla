------------------------------ MODULE Directory ------------------------------
(***************************************************************************)
(* Users and their direct chats: POST /v1/auth/signup (auth/signup.go),    *)
(* GET /v1/users (application/users/list.go), POST /v1/chats/direct        *)
(* (application/chats/create_direct.go, chat_repository/get_or_create.go)  *)
(* and GET /v1/chats (application/chats/list.go, chat_repository/list.go). *)
(*                                                                         *)
(* Calls that create a chat run at once, in the steps that MongoDB's       *)
(* upsert has: it looks for the pair, then inserts, and the unique index   *)
(* refuses the second of two inserts.  Readers page the lists meanwhile; a *)
(* message that is committed moves its chat.                               *)
(***************************************************************************)
EXTENDS Paging, FiniteSetsExt

CONSTANTS
  MaxUsers,       \* bound: accounts
  Calls           \* bound: calls that create a chat

ASSUME DirectoryAssumption ==
  MaxUsers \in Nat /\ IsFiniteSet(Calls) /\ None \notin [id : Nat, at : Times]

VARIABLES
  users,    \* the users: [id, at], at is created_at
  chats,    \* the chats: [id, one, two, created, at], at is summary_sort_at
  calls,    \* calls[c]: where a call that creates a direct chat is
  listing   \* listing[r]: what reader r has asked and got

directoryVars == <<users, chats, calls, listing>>

\* Ids are compared as strings are; a generated id has any place among the others.
UserIds == 1..MaxUsers
ChatIds == 1..Cardinality(Calls)

NoCall == [phase |-> "idle", current |-> 0, related |-> 0, id |-> 0, at |-> 0, created |-> FALSE]

NoListing == [who |-> None, sound |-> TRUE, existing |-> {}, pages |-> <<>>, next |-> None,
              refused |-> FALSE]

DirectoryInit ==
  /\ users = {} /\ chats = {}
  /\ calls = [c \in Calls |-> NoCall]
  /\ listing = [r \in Readers |-> NoListing]

HasAccount(id) == id \in {u.id : u \in users}

\* An email that is taken is refused by its index, which changes nothing.
InsertAccount(id, at) == ~HasAccount(id) /\ users' = users \union {[id |-> id, at |-> at]}

\* Signup, with a time read before the account is inserted.
SignUp(id, at) == InsertAccount(id, at) /\ UNCHANGED <<chats, calls, listing>>

-----------------------------------------------------------------------------
(* CreateDirectUseCase and GetOrCreateDirect.                              *)

\* Mutant: the participants as the caller gave them.
PairAsGiven(first, second) == [one |-> first, two |-> second]

orderParticipants(first, second) ==
  [one |-> Min({first, second}), two |-> Max({first, second})]

Candidate(c) ==
  LET pair == orderParticipants(calls[c].current, calls[c].related)
  IN [id |-> calls[c].id, one |-> pair.one, two |-> pair.two,
      created |-> calls[c].at, at |-> calls[c].at]

\* What toDomain makes a chat of; it refuses any other document.
Restorable(chat) == chat.one < chat.two /\ chat.created <= chat.at

Stored(c) ==
  {chat \in chats : chat.one = Candidate(c).one /\ chat.two = Candidate(c).two}

Fail(c) ==
  calls' = [calls EXCEPT ![c] = [NoCall EXCEPT !.phase = "failed"]] /\ UNCHANGED <<users, listing>>

Goto(c, phase) ==
  /\ calls' = [calls EXCEPT ![c].phase = phase]
  /\ UNCHANGED <<users, chats, listing>>

\* The answer names a chat that was stored before, if it can be read.
AnswerStored(c) ==
  \E chat \in Stored(c) :
    IF Restorable(chat)
    THEN /\ calls' = [calls EXCEPT ![c].phase = "answered", ![c].id = chat.id, ![c].at = 0]
         /\ UNCHANGED <<users, chats, listing>>
    ELSE Fail(c) /\ UNCHANGED chats

\* The candidate, for two accounts that are not one.
Ask(c, current, related, id, at) ==
  /\ calls[c] = NoCall
  /\ HasAccount(current) /\ HasAccount(related) /\ current # related
  /\ id \notin {chat.id : chat \in chats} \union {calls[d].id : d \in Calls}
  /\ calls' = [calls EXCEPT ![c] = [NoCall EXCEPT !.phase = "searching", !.current = current,
                                    !.related = related, !.id = id, !.at = at]]
  /\ UNCHANGED <<users, chats, listing>>

\* FindOneAndUpdate finds the pair, or goes on to insert.
Search(c) ==
  /\ calls[c].phase = "searching"
  /\ IF Stored(c) # {} THEN AnswerStored(c) ELSE Goto(c, "inserting")

\* The insert, or the duplicate key that the index answers.
Insert(c) ==
  /\ calls[c].phase = "inserting"
  /\ IF Stored(c) # {}
     THEN Goto(c, "duplicate")
     ELSE /\ chats' = chats \union {Candidate(c)}
          /\ calls' = [calls EXCEPT ![c].phase = "answered", ![c].at = 0, ![c].created = TRUE]
          /\ UNCHANGED <<users, listing>>

\* findDirectByParticipants, after the duplicate key.
Recover(c) == calls[c].phase = "duplicate" /\ AnswerStored(c)

\* The request ends, or MongoDB fails, before the call has its answer; the chat may have
\* been inserted.
GiveUp(c) ==
  /\ calls[c].phase \in {"searching", "inserting", "duplicate"}
  /\ Fail(c)
  /\ \/ UNCHANGED chats
     \/ /\ calls[c].phase = "inserting" /\ Stored(c) = {}
        /\ chats' = chats \union {Candidate(c)}

\* Mutant: the time of the message, whatever the chat has.
SortAtOfMessage(chat, at) == at

SummarySortAt(chat, at) == Max({chat.at, at})

\* A message of the chat is committed: $max of summary_sort_at (MessageStore).
Touch(chat, at) ==
  /\ chats' = (chats \ {chat}) \union {[chat EXCEPT !.at = SummarySortAt(chat, at)]}
  /\ UNCHANGED <<users, calls, listing>>

-----------------------------------------------------------------------------
(* The lists: of the chats of who, or of all users when there is no who.   *)

ChatsOf(who) == {chat \in chats : who \in {chat.one, chat.two}}

\* An entry of a list is an id and the time that the list is sorted by.
ChatEntries(who) == {[id |-> chat.id, at |-> chat.at] : chat \in ChatsOf(who)}

UserEntries == users

Entries(who) == IF Given(who) THEN ChatEntries(who) ELSE UserEntries

\* Chats newest first, users oldest first.
Precedes(who, x, y) == IF Given(who) THEN NewestFirst(x, y) ELSE OldestFirst(x, y)

AfterCursor(who, cursor, x) == Precedes(who, cursor, x)

\* A parameter left out has its default.
normalizeListPagination(page, limit) == page >= 1 /\ limit \in 1..MaxPageSize

validateCursorForPage(page, cursor) == page = 1 <=> ~Given(cursor)

Acceptable(page, cursor, limit) ==
  normalizeListPagination(page, limit) /\ validateCursorForPage(page, cursor)

\* Every chat that was found for a page is restored.
Readable(who, found) ==
  Given(who) =>
    \A chat \in ChatsOf(who) : chat.id \in {x.id : x \in found} => Restorable(chat)

\* The listing w after the answer to its request for a page; the cursor after the page
\* is its last entry, when one more was found than it holds.
Listed(w, page, cursor, limit) ==
  LET Before(x, y) == Precedes(w.who, x, y)
      wanted == {x \in Entries(w.who) : Given(cursor) => AfterCursor(w.who, cursor, x)}
      found == Page(wanted, limit + 1, Before)
      entries == Page(wanted, limit, Before)
  IN IF Acceptable(page, cursor, limit) /\ Readable(w.who, found)
     THEN [w EXCEPT !.pages = Append(@, entries),
                    !.next = IF HasNext(wanted, limit) THEN LastOf(entries, Before) ELSE None]
     ELSE [w EXCEPT !.refused = TRUE, !.next = None]

FirstPage(r, who, page, limit) ==
  /\ listing[r] = NoListing
  /\ listing' = [listing EXCEPT ![r] =
       Listed([NoListing EXCEPT !.who = who, !.sound = Acceptable(page, None, limit),
                                !.existing = Entries(who)], page, None, limit)]
  /\ UNCHANGED <<users, chats, calls>>

ListChats(r, who, page, limit) == HasAccount(who) /\ FirstPage(r, who, page, limit)

\* Who asks has an account.
ListUsers(r, page, limit) == users # {} /\ FirstPage(r, None, page, limit)

NextPage(r, limit) ==
  LET w == listing[r]
  IN /\ Given(w.next)
     /\ listing' = [listing EXCEPT ![r] = Listed(w, Len(w.pages) + 1, w.next, limit)]
     /\ UNCHANGED <<users, chats, calls>>

\* The client sends the nextCursor of the last answer, as cursorId and cursorSortAt.
ListMoreChats(r, limit) == Given(listing[r].who) /\ NextPage(r, limit)

\* As cursorId and cursorCreatedAt.
ListMoreUsers(r, limit) == ~Given(listing[r].who) /\ NextPage(r, limit)

DirectoryNext ==
  \/ \E id \in UserIds, at \in Times : SignUp(id, at)
  \/ \E c \in Calls :
       \/ \E current, related \in UserIds, id \in ChatIds, at \in Times :
            Ask(c, current, related, id, at)
       \/ Search(c) \/ Insert(c) \/ Recover(c) \/ GiveUp(c)
  \/ \E chat \in chats, at \in Times : Touch(chat, at)
  \/ \E r \in Readers, limit \in 1..MaxPageSize :
       \/ ListMoreChats(r, limit) \/ ListMoreUsers(r, limit)
  \/ \E r \in Readers, page \in {1, 2}, limit \in 1..(MaxPageSize + 1) :
       \/ \E who \in UserIds : ListChats(r, who, page, limit)
       \/ ListUsers(r, page, limit)

DirectorySpec == DirectoryInit /\ [][DirectoryNext]_directoryVars

-----------------------------------------------------------------------------
(* Properties.                                                             *)

Answered(c) == calls[c].phase = "answered"

SameTwo(c, d) == {calls[c].current, calls[c].related} = {calls[d].current, calls[d].related}

\* However the calls for two users meet, from either side, all that are answered name one
\* chat, the one stored between the two, and at most one of them is told that it created it
\* (chat_repository/get_or_create.go:54).
OneChatPerPair ==
  /\ \A x, y \in chats : {x.one, x.two} = {y.one, y.two} => x = y
  /\ \A c \in Calls : Answered(c) => \E x \in chats :
       x.id = calls[c].id /\ {x.one, x.two} = {calls[c].current, calls[c].related}
  /\ \A c, d \in Calls : c # d /\ SameTwo(c, d) => ~(calls[c].created /\ calls[d].created)

\* A chat that moves between two pages is not shown on both.
NoEntryTwice(w) ==
  \A i, j \in 1..Len(w.pages) : i # j =>
    {x.id : x \in w.pages[i]} \intersect {x.id : x \in w.pages[j]} = {}

NothingMissed(w) == Finished(w) => w.existing \intersect Entries(w.who) \subseteq Got(w)

RefusedWithCause(w) == w.refused => ~w.sound

\* A list that was walked to its end, while accounts and chats were made and chats moved,
\* shows no entry twice and each that was there at its first page and did not move
\* (chat_repository/list.go:85, user_repository/repository.go:205); and no page fails, for
\* a reader who asked well, over times that came from different clocks (domain/chat/chat.go:72).
ListWalkComplete ==
  \A r \in Readers :
    NoEntryTwice(listing[r]) /\ NothingMissed(listing[r]) /\ RefusedWithCause(listing[r])
==============================================================================
