------------------------------- MODULE Paging -------------------------------
(***************************************************************************)
(* How the repositories of timelines, chats and users page a collection:   *)
(* find with a sort and a limit of one more than the page, and the last    *)
(* item of the page as the cursor of the next one.  A page is the set of   *)
(* its items; the order inside it is that of the sort.  A walk is what a   *)
(* client got that asked for page after page.                              *)
(***************************************************************************)
EXTENDS Naturals, Sequences, FiniteSets

CONSTANTS
  Readers,
  Times,          \* values of the times that are sorted by
  MaxPageSize,
  None

ASSUME PagingAssumption ==
  MaxPageSize \in Nat \ {0} /\ Times \subseteq Nat /\ Times # {} /\ None \notin Nat

Given(x) == x # None

\* The first limit elements of S in the order Precedes.
Page(S, limit, Precedes(_, _)) ==
  {x \in S : Cardinality({y \in S : Precedes(y, x)}) < limit}

HasNext(S, limit) == Cardinality(S) > limit

\* The last element of a page.
LastOf(page, Precedes(_, _)) ==
  CHOOSE x \in page : \A y \in page : y = x \/ Precedes(y, x)

\* Newest first, the greater id first among those of one time.
NewestFirst(x, y) == x.at > y.at \/ (x.at = y.at /\ x.id > y.id)

OldestFirst(x, y) == NewestFirst(y, x)

(* A walk w has its pages, the request that its last answer leads to, and whether it   *)
(* was refused.                                                                        *)
Got(w) == UNION {w.pages[i] : i \in 1..Len(w.pages)}

Finished(w) == w.pages # <<>> /\ ~Given(w.next) /\ ~w.refused

NoItemTwice(w) ==
  \A i, j \in 1..Len(w.pages) : i # j => w.pages[i] \intersect w.pages[j] = {}
=============================================================================
