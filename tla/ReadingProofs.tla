---------------------------- MODULE ReadingProofs ----------------------------
(***************************************************************************)
(* For any items, requests, page sizes, accounts, calls, readers and       *)
(* times: what a client reads page after page is all that it asked for,    *)
(* once, and is not refused on the way; and two users have one chat.       *)
(*                                                                         *)
(* Pages.  A page holds what comes first in an order, all that comes       *)
(* before any of it, and it has a last element when more was found         *)
(* (PageIsPrefix).  The lemmas take an order as a set of pairs: those of   *)
(* an order that is an operator could not be instantiated.                 *)
(*                                                                         *)
(* The timeline.  What the audit lets pass has every sequence of           *)
(* 1..counter once, and appending keeps it (DataIsSound).  A walk has      *)
(* everything between its start and where it is: a recovery all sequences  *)
(* that it has passed (Recovery), history all from its cursor up           *)
(* (History), and a walk by time every item it found at first that is not  *)
(* behind its cursor (Legacy).                                             *)
(*                                                                         *)
(* The directory.  The pair of a chat is ordered, so that it can be        *)
(* compared field by field (PairsAreOrdered); a call that says it created  *)
(* a chat found none stored (CallsAreSound); and no write leaves a chat    *)
(* that its readers could not restore (ChatsAreSound).  An entry that was  *)
(* shown may have moved only to where its reader has already been          *)
(* (OnlyMovesAhead): it is not found again behind the cursor, and one that *)
(* is where it was has not been passed over (UpToCursor).                  *)
(***************************************************************************)
EXTENDS Reading, FiniteSetTheorems, WellFoundedInduction, TLAPS

-----------------------------------------------------------------------------
(* Pages.                                                                  *)

StrictOrder(R, S) ==
  /\ \A x \in S : <<x, x>> \notin R
  /\ \A x, y, z \in S : <<x, y>> \in R /\ <<y, z>> \in R => <<x, z>> \in R
  /\ \A x, y \in S : x = y \/ <<x, y>> \in R \/ <<y, x>> \in R

\* The elements of S that come before x.
Below(S, R, x) == {y \in S : <<y, x>> \in R}

\* Page, with the order as a set.
FirstOf(S, R, n) == {x \in S : Cardinality(Below(S, R, x)) < n}

IsLast(x, P, R) == x \in P /\ \A y \in P : y = x \/ <<y, x>> \in R

\* Every set of numbers that is not empty has a least one.
LEMMA LeastNumber ==
  ASSUME NEW N \in SUBSET Nat, N # {}
  PROVE  \E n \in N : \A m \in N : n <= m
<1>1. PICK n \in N : \A m \in N : ~(<<m, n>> \in OpToRel(<, Nat))
  BY NatLessThanWellFounded, WFMin
<1>2. \A m \in N : ~(m < n)
  BY <1>1 DEF OpToRel
<1> QED
  BY <1>2

\* Fewer come before what comes first.
LEMMA BelowGrows ==
  ASSUME NEW S, IsFiniteSet(S), NEW R, StrictOrder(R, S),
         NEW x \in S, NEW y \in S, <<y, x>> \in R
  PROVE  /\ Cardinality(Below(S, R, y)) \in Nat /\ Cardinality(Below(S, R, x)) \in Nat
         /\ Cardinality(Below(S, R, y)) < Cardinality(Below(S, R, x))
<1>1. Below(S, R, y) \subseteq Below(S, R, x) /\ y \in Below(S, R, x) /\ y \notin Below(S, R, y)
  BY DEF Below, StrictOrder
<1>2. IsFiniteSet(Below(S, R, x))
  BY FS_Subset DEF Below
<1>3. /\ IsFiniteSet(Below(S, R, y))
      /\ Cardinality(Below(S, R, y)) <= Cardinality(Below(S, R, x))
      /\ Cardinality(Below(S, R, y)) # Cardinality(Below(S, R, x))
  BY <1>1, <1>2, FS_Subset
<1>4. Cardinality(Below(S, R, y)) \in Nat /\ Cardinality(Below(S, R, x)) \in Nat
  BY <1>2, <1>3, FS_CardinalityType
<1> QED
  BY <1>3, <1>4

\* A finite set that is ordered has a first element.
LEMMA FirstExists ==
  ASSUME NEW S, IsFiniteSet(S), S # {}, NEW R, StrictOrder(R, S)
  PROVE  \E x \in S : \A y \in S : y = x \/ <<x, y>> \in R
<1> DEFINE N == {Cardinality(Below(S, R, x)) : x \in S}
<1>1. \A x \in S : Cardinality(Below(S, R, x)) \in Nat
  BY FS_Subset, FS_CardinalityType DEF Below
<1>2. N \in SUBSET Nat /\ N # {}
  BY <1>1
<1>3. PICK n \in N : \A m \in N : n <= m
  BY <1>2, LeastNumber
<1>4. PICK x \in S : n = Cardinality(Below(S, R, x))
  BY <1>3
<1>5. ASSUME NEW y \in S, y # x PROVE <<x, y>> \in R
  <2>1. CASE <<y, x>> \in R
    <3>1. Cardinality(Below(S, R, y)) < n /\ n \in Nat /\ Cardinality(Below(S, R, y)) \in Nat
      BY <1>4, <2>1, BelowGrows
    <3>2. n <= Cardinality(Below(S, R, y))
      BY <1>3
    <3> QED
      BY <3>1, <3>2
  <2> QED
    BY <1>5, <2>1 DEF StrictOrder
<1> QED
  BY <1>5

\* And a last one.
LEMMA LastExists ==
  ASSUME NEW S, IsFiniteSet(S), S # {}, NEW R, StrictOrder(R, S)
  PROVE  \E x \in S : IsLast(x, S, R)
<1> DEFINE Q == {p \in S \X S : <<p[2], p[1]>> \in R}
<1>1. \A x, y \in S : <<x, y>> \in Q <=> <<y, x>> \in R
  OBVIOUS
<1> HIDE DEF Q
<1>2. StrictOrder(Q, S)
  BY <1>1 DEF StrictOrder
<1>3. PICK x \in S : \A y \in S : y = x \/ <<x, y>> \in Q
  BY <1>2, FirstExists
<1> QED
  BY <1>1, <1>3 DEF IsLast

\* A page begins where the order does, has all that comes before any of its elements,
\* is everything if nothing more was found, and has a last element otherwise.
LEMMA PageIsPrefix ==
  ASSUME NEW S, IsFiniteSet(S), NEW R, StrictOrder(R, S), NEW n \in Nat \ {0}
  PROVE  /\ \A x \in FirstOf(S, R, n), y \in S : <<y, x>> \in R => y \in FirstOf(S, R, n)
         /\ ~HasNext(S, n) => FirstOf(S, R, n) = S
         /\ HasNext(S, n) => \E x \in FirstOf(S, R, n) : IsLast(x, FirstOf(S, R, n), R)
<1> DEFINE P == FirstOf(S, R, n)
<1>0. Cardinality(S) \in Nat
  BY FS_CardinalityType
<1>1. \A x \in P, y \in S : <<y, x>> \in R => y \in P
  <2> SUFFICES ASSUME NEW x \in P, NEW y \in S, <<y, x>> \in R PROVE y \in P
    OBVIOUS
  <2>1. x \in S /\ Cardinality(Below(S, R, x)) < n
    BY DEF FirstOf
  <2>2. /\ Cardinality(Below(S, R, y)) \in Nat /\ Cardinality(Below(S, R, x)) \in Nat
        /\ Cardinality(Below(S, R, y)) < Cardinality(Below(S, R, x))
    BY <2>1, BelowGrows
  <2>3. Cardinality(Below(S, R, y)) < n
    BY <2>1, <2>2
  <2> QED
    BY <2>3 DEF FirstOf
<1>2. ASSUME ~HasNext(S, n) PROVE P = S
  <2>1. Cardinality(S) <= n
    BY <1>0, <1>2 DEF HasNext
  <2>2. ASSUME NEW x \in S PROVE Cardinality(Below(S, R, x)) < n
    <3>1. Below(S, R, x) \subseteq S /\ x \notin Below(S, R, x)
      BY DEF Below, StrictOrder
    <3>2. /\ Cardinality(Below(S, R, x)) <= Cardinality(S)
          /\ Cardinality(Below(S, R, x)) # Cardinality(S)
          /\ IsFiniteSet(Below(S, R, x))
      BY <3>1, FS_Subset
    <3>3. Cardinality(Below(S, R, x)) \in Nat
      BY <3>2, FS_CardinalityType
    <3> QED
      BY <1>0, <2>1, <3>2, <3>3
  <2> QED
    BY <2>2 DEF FirstOf
<1>3. ASSUME HasNext(S, n) PROVE \E x \in P : IsLast(x, P, R)
  <2>1. S # {}
    BY <1>3, FS_EmptySet DEF HasNext
  <2>2. PICK x \in S : \A y \in S : y = x \/ <<x, y>> \in R
    BY <2>1, FirstExists
  <2>3. Below(S, R, x) = {}
    BY <2>2 DEF Below, StrictOrder
  <2>4. x \in P
    BY <2>3, FS_EmptySet DEF FirstOf
  <2>5. P \subseteq S
    BY DEF FirstOf
  <2>6. IsFiniteSet(P) /\ StrictOrder(R, P)
    BY <2>5, FS_Subset DEF StrictOrder
  <2>7. \E z \in P : IsLast(z, P, R)
    BY <2>4, <2>6, LastExists
  <2> QED
    BY <2>7
<1> QED
  BY <1>1, <1>2, <1>3

-----------------------------------------------------------------------------
(* The three orders of the timeline.                                       *)

\* Items whose sequences are unique, by sequence.
LEMMA PageBySequence ==
  ASSUME NEW S, IsFiniteSet(S), \A x \in S : x.sequence \in Nat,
         \A x, y \in S : x.sequence = y.sequence => x = y, NEW n \in Nat \ {0}
  PROVE  LET P == Page(S, n, BySequence)
         IN /\ P \subseteq S
            /\ \A x \in P, y \in S : y.sequence < x.sequence => y \in P
            /\ ~HasNext(S, n) => P = S
            /\ HasNext(S, n) => \E x \in P : \A y \in P : y.sequence <= x.sequence
<1> DEFINE R == {p \in S \X S : p[1].sequence < p[2].sequence}
<1>1. \A x, y \in S : <<x, y>> \in R <=> x.sequence < y.sequence
  OBVIOUS
<1>2. Page(S, n, BySequence) = {x \in S : Cardinality({y \in S : y.sequence < x.sequence}) < n}
  BY DEF Page, BySequence
<1>3. \A x \in S : Below(S, R, x) = {y \in S : y.sequence < x.sequence}
  BY <1>1 DEF Below
<1> HIDE DEF R
<1>4. Page(S, n, BySequence) = FirstOf(S, R, n)
  BY <1>2, <1>3 DEF FirstOf
<1>5. StrictOrder(R, S)
  BY <1>1 DEF StrictOrder
<1>6. FirstOf(S, R, n) \subseteq S
  BY DEF FirstOf
<1> DEFINE P == FirstOf(S, R, n)
<1>7. ASSUME HasNext(S, n)
      PROVE  \E x \in P : \A y \in P : y.sequence <= x.sequence
  <2>1. PICK x \in P : IsLast(x, P, R)
    BY <1>5, <1>7, PageIsPrefix
  <2>2. ASSUME NEW y \in P PROVE y.sequence <= x.sequence
    <3>1. x \in S /\ y \in S /\ (y = x \/ <<y, x>> \in R)
      BY <1>6, <2>1 DEF IsLast
    <3>2. x.sequence \in Nat /\ y.sequence \in Nat /\ (y = x \/ y.sequence < x.sequence)
      BY <1>1, <3>1
    <3> QED
      BY <3>2
  <2> QED
    BY <2>2
<1>8. \A x \in P, y \in S : y.sequence < x.sequence => y \in P
  <2>1. \A x \in P, y \in S : <<y, x>> \in R => y \in P
    BY <1>5, PageIsPrefix
  <2> QED
    BY <1>1, <1>6, <2>1
<1>9. ~HasNext(S, n) => P = S
  BY <1>5, PageIsPrefix
<1> HIDE DEF P
<1> QED
  BY <1>4, <1>6, <1>7, <1>8, <1>9 DEF P

\* The same from the latest sequence down.
LEMMA PageByLatestSequence ==
  ASSUME NEW S, IsFiniteSet(S), \A x \in S : x.sequence \in Nat,
         \A x, y \in S : x.sequence = y.sequence => x = y, NEW n \in Nat \ {0}
  PROVE  LET P == Page(S, n, ByLatestSequence)
         IN /\ P \subseteq S
            /\ \A x \in P, y \in S : y.sequence > x.sequence => y \in P
            /\ ~HasNext(S, n) => P = S
            /\ HasNext(S, n) => \E x \in P : \A y \in P : x.sequence <= y.sequence
<1> DEFINE R == {p \in S \X S : p[1].sequence > p[2].sequence}
<1>1. \A x, y \in S : <<x, y>> \in R <=> x.sequence > y.sequence
  OBVIOUS
<1>2. Page(S, n, ByLatestSequence) = {x \in S : Cardinality({y \in S : y.sequence > x.sequence}) < n}
  BY DEF Page, ByLatestSequence
<1>3. \A x \in S : Below(S, R, x) = {y \in S : y.sequence > x.sequence}
  BY <1>1 DEF Below
<1> HIDE DEF R
<1>4. Page(S, n, ByLatestSequence) = FirstOf(S, R, n)
  BY <1>2, <1>3 DEF FirstOf
<1>5. StrictOrder(R, S)
  BY <1>1 DEF StrictOrder
<1>6. FirstOf(S, R, n) \subseteq S
  BY DEF FirstOf
<1> DEFINE P == FirstOf(S, R, n)
<1>7. ASSUME HasNext(S, n)
      PROVE  \E x \in P : \A y \in P : x.sequence <= y.sequence
  <2>1. PICK x \in P : IsLast(x, P, R)
    BY <1>5, <1>7, PageIsPrefix
  <2>2. ASSUME NEW y \in P PROVE x.sequence <= y.sequence
    <3>1. x \in S /\ y \in S /\ (y = x \/ <<y, x>> \in R)
      BY <1>6, <2>1 DEF IsLast
    <3>2. x.sequence \in Nat /\ y.sequence \in Nat /\ (y = x \/ y.sequence > x.sequence)
      BY <1>1, <3>1
    <3> QED
      BY <3>2
  <2> QED
    BY <2>2
<1>8. \A x \in P, y \in S : y.sequence > x.sequence => y \in P
  <2>1. \A x \in P, y \in S : <<y, x>> \in R => y \in P
    BY <1>5, PageIsPrefix
  <2> QED
    BY <1>1, <1>6, <2>1
<1>9. ~HasNext(S, n) => P = S
  BY <1>5, PageIsPrefix
<1> HIDE DEF P
<1> QED
  BY <1>4, <1>6, <1>7, <1>8, <1>9 DEF P

\* Things with a time and an id, newest first, when no two have both in common.
LEMMA PageNewestFirst ==
  ASSUME NEW S, IsFiniteSet(S), \A x \in S : x.at \in Nat /\ x.id \in Nat,
         \A x, y \in S : x.at = y.at /\ x.id = y.id => x = y, NEW n \in Nat \ {0}
  PROVE  LET P == Page(S, n, NewestFirst)
             last == LastOf(P, NewestFirst)
         IN /\ P \subseteq S
            /\ \A x \in P, y \in S : NewestFirst(y, x) => y \in P
            /\ ~HasNext(S, n) => P = S
            /\ HasNext(S, n) => last \in P /\ \A y \in P : y = last \/ NewestFirst(y, last)
<1> DEFINE R == {p \in S \X S : NewestFirst(p[1], p[2])}
<1>1. \A x, y \in S : <<x, y>> \in R <=> NewestFirst(x, y)
  OBVIOUS
<1>2. Page(S, n, NewestFirst) = {x \in S : Cardinality({y \in S : NewestFirst(y, x)}) < n}
  BY DEF Page
<1>3. \A x \in S : Below(S, R, x) = {y \in S : NewestFirst(y, x)}
  BY <1>1 DEF Below
<1> HIDE DEF R
<1>4. Page(S, n, NewestFirst) = FirstOf(S, R, n)
  BY <1>2, <1>3 DEF FirstOf
<1>5. StrictOrder(R, S)
  BY <1>1 DEF StrictOrder, NewestFirst
<1>6. FirstOf(S, R, n) \subseteq S
  BY DEF FirstOf
<1> DEFINE P == FirstOf(S, R, n)
<1>7. ASSUME HasNext(S, n)
      PROVE  /\ LastOf(P, NewestFirst) \in P
             /\ \A y \in P : y = LastOf(P, NewestFirst) \/ NewestFirst(y, LastOf(P, NewestFirst))
  <2>1. PICK x \in P : IsLast(x, P, R)
    BY <1>5, <1>7, PageIsPrefix
  <2>2. x \in P /\ \A y \in P : y = x \/ NewestFirst(y, x)
    BY <1>1, <1>6, <2>1 DEF IsLast
  <2>3. LastOf(P, NewestFirst) = CHOOSE z \in P : \A y \in P : y = z \/ NewestFirst(y, z)
    BY DEF LastOf
  <2> HIDE DEF P
  <2> QED
    BY <2>2, <2>3
<1>8. \A x \in P, y \in S : NewestFirst(y, x) => y \in P
  <2>1. \A x \in P, y \in S : <<y, x>> \in R => y \in P
    BY <1>5, PageIsPrefix
  <2> QED
    BY <1>1, <1>6, <2>1
<1>9. ~HasNext(S, n) => P = S
  BY <1>5, PageIsPrefix
<1> HIDE DEF P
<1> QED
  BY <1>4, <1>6, <1>7, <1>8, <1>9 DEF P

\* Time, and the id where it does not decide, order whatever has both.
LEMMA NewestFirstIsOrder ==
  ASSUME NEW S, \A x \in S : x.at \in Nat /\ x.id \in Nat
  PROVE  /\ \A x \in S : ~NewestFirst(x, x)
         /\ \A x, y, z \in S : NewestFirst(x, y) /\ NewestFirst(y, z) => NewestFirst(x, z)
         /\ \A x, y \in S : NewestFirst(x, y) \/ NewestFirst(y, x) \/ (x.at = y.at /\ x.id = y.id)
BY DEF NewestFirst

-----------------------------------------------------------------------------
(* The timeline: what is stored, and what each walk has got so far.        *)

\* The operators on a walk take the items S and the counter n as parameters, so that
\* they can be compared before and after a step.

\* What bootstrap has found before the API serves, and appending keeps.
DataIsSound ==
  /\ Cardinality(items) = counter
  /\ SequencesUsed = 1..counter
  /\ \A x \in items : Sound(x)

TimelineTypes ==
  /\ phase \in {"starting", "serving", "refused"}
  /\ items \subseteq Item /\ IsFiniteSet(items) /\ Unique(items)
  /\ counter \in Nat
  /\ walk = [r \in Readers |-> walk[r]]

WalkTypes(w, S) ==
  w \in [first : Request, upper : Nat, existing : SUBSET S, pages : Seq(SUBSET S),
         next : Request \union {None}, refused : BOOLEAN]

SequencesGot(w) == {x.sequence : x \in Got(w)}

\* The items of a page come, in the order Before, before those of every later page.
RisingPages(w) ==
  \A i, j \in 1..Len(w.pages) : i < j =>
    \A x \in w.pages[i], y \in w.pages[j] : x.sequence < y.sequence

FallingPages(w) ==
  \A i, j \in 1..Len(w.pages) : i < j =>
    \A x \in w.pages[i], y \in w.pages[j] : x.sequence > y.sequence

AgeingPages(w) ==
  \A i, j \in 1..Len(w.pages) : i < j =>
    \A x \in w.pages[i], y \in w.pages[j] : NewestFirst(x, y)

\* A recovery has every sequence from its start to where it is, and goes on from there,
\* up to the snapshot of its first page.
Recovery(w) ==
  LET reached == IF Given(w.next) THEN w.next.after ELSE w.upper
  IN /\ w.first.after <= w.upper
     /\ Given(w.next) => /\ w.next = [w.first EXCEPT !.after = reached, !.through = w.upper]
                         /\ reached \in w.first.after..w.upper
     /\ SequencesGot(w) = (w.first.after + 1)..reached
     /\ RisingPages(w)

\* Where a walk of history begins.
Newest(w) ==
  IF Given(w.first.before) /\ w.first.before <= w.upper THEN w.first.before - 1 ELSE w.upper

\* History has every sequence from where it is to its start.
History(w) ==
  LET reached == IF Given(w.next) THEN w.next.before ELSE 1
  IN /\ Given(w.next) => /\ w.next = [w.first EXCEPT !.before = reached]
                         /\ reached \in 1..Newest(w)
     /\ SequencesGot(w) = reached..Newest(w)
     /\ FallingPages(w)

\* A walk by time has got nothing that is behind its cursor, and everything before it
\* that was there at the beginning.
Legacy(w, S) ==
  /\ Given(w.next) =>
       /\ w.next.cursor \in S
       /\ w.next = [w.first EXCEPT !.cursor = w.next.cursor]
       /\ \A x \in Got(w) : x = w.next.cursor \/ NewestFirst(x, w.next.cursor)
       /\ \A x \in w.existing : x \in Got(w) \/ NewestFirst(w.next.cursor, x)
  /\ ~Given(w.next) => w.existing \subseteq Got(w)
  /\ AgeingPages(w)

\* A walk that was answered at least once.
Followed(w, S, n) ==
  /\ ~w.refused /\ Valid(w.first) /\ ~Given(w.first.cursor) /\ w.upper <= n
  /\ Given(w.first.after) => Recovery(w)
  /\ w.first.order => History(w)
  /\ ~SequenceMode(w.first) => Legacy(w, S)

WalkIsSound(w, S, n) ==
  /\ WalkTypes(w, S)
  /\ w.pages # <<>> => Followed(w, S, n)
  /\ w.pages = <<>> => ~Given(w.next)

TimelineInv ==
  /\ TimelineTypes
  /\ phase = "serving" => DataIsSound
  /\ phase # "serving" => \A r \in Readers : walk[r] = Idle
  /\ \A r \in Readers : walk[r] = Idle \/ WalkIsSound(walk[r], items, counter)

-----------------------------------------------------------------------------
(* What is stored.                                                         *)

\* The greatest number of an interval, and the least of a set that has one.
LEMMA MaxIs ==
  ASSUME NEW S \in SUBSET Nat, NEW n \in S, \A m \in S : m <= n
  PROVE  Max(S) = n
<1>1. \A m \in S : n >= m
  OBVIOUS
<1>2. Max(S) \in S /\ \A m \in S : Max(S) >= m
  BY <1>1 DEF Max
<1>3. Max(S) >= n /\ Max(S) <= n /\ Max(S) \in Nat /\ n \in Nat
  BY <1>2
<1> QED
  BY <1>3

\* And the least.
LEMMA MinIs ==
  ASSUME NEW S \in SUBSET Nat, NEW n \in S, \A m \in S : n <= m
  PROVE  Min(S) = n
<1>1. Min(S) \in S /\ \A m \in S : Min(S) <= m
  BY DEF Min
<1>2. Min(S) >= n /\ Min(S) <= n /\ Min(S) \in Nat /\ n \in Nat
  BY <1>1
<1> QED
  BY <1>2

\* The parameters of the model are numbers.
LEMMA Numbers ==
  /\ MaxItems \in Nat /\ MaxSequence \in Nat /\ MaxItems <= MaxSequence
  /\ MaxPageSize \in Nat \ {0} /\ Times \subseteq Nat
BY TimelineAssumption, PagingAssumption

\* Once served, the items are those of 1..counter, and all can be restored.
LEMMA Served ==
  ASSUME TimelineTypes, DataIsSound
  PROVE  /\ LastSequence = counter /\ counter \in Nat /\ counter <= MaxSequence
         /\ \A x \in items : /\ x.sequence \in 1..counter /\ x.sequence \in Nat
                             /\ x.at \in Nat /\ x.id \in Nat /\ Restored(x)
         /\ \A n \in 1..counter : \E x \in items : x.sequence = n
         /\ \A x, y \in items : x.sequence = y.sequence \/ x.id = y.id => x = y
<1> USE Numbers
<1>1. counter \in Nat
  BY DEF TimelineTypes
<1>2. \A x \in items : /\ x.sequence \in 1..counter /\ x.sequence \in Nat
                       /\ x.at \in Nat /\ x.id \in Nat /\ Restored(x)
  <2> SUFFICES ASSUME NEW x \in items
               PROVE  /\ x.sequence \in 1..counter /\ x.sequence \in Nat
                      /\ x.at \in Nat /\ x.id \in Nat /\ Restored(x)
    OBVIOUS
  <2>1. x.sequence \in SequencesUsed
    BY DEF SequencesUsed
  <2>2. x \in Item
    BY DEF TimelineTypes
  <2>3. x.sequence \in Nat /\ x.at \in Nat /\ x.id \in Nat
    BY <2>2 DEF Item
  <2> QED
    BY <2>1, <2>3 DEF DataIsSound, Sound, Restored
<1>3. \A n \in 1..counter : \E x \in items : x.sequence = n
  <2>1. 1..counter = {x.sequence : x \in items}
    BY DEF DataIsSound, SequencesUsed
  <2> QED
    BY <2>1
<1>4. \A x, y \in items : x.sequence = y.sequence \/ x.id = y.id => x = y
  <2>1. \A x \in items : x.sequence # 0
    BY <1>2
  <2> QED
    BY <2>1 DEF TimelineTypes, Unique
<1>5. CASE items = {}
  <2>1. counter = 0
    BY <1>5, FS_EmptySet DEF DataIsSound
  <2>2. LastSequence = 0
    BY <1>5 DEF LastSequence
  <2> QED
    BY <1>1, <1>2, <1>3, <1>4, <2>1, <2>2
<1>6. CASE items # {}
  <2>1. counter \in 1..counter
    BY <1>1, <1>2, <1>6
  <2>2. 1..counter \in SUBSET Nat /\ \A m \in 1..counter : m <= counter
    BY <1>1
  <2>3. Max(1..counter) = counter
    BY <2>1, <2>2, MaxIs
  <2>4. LastSequence = counter
    BY <1>6, <2>3 DEF LastSequence, DataIsSound
  <2>5. counter <= MaxSequence
    <3>1. PICK x \in items : x.sequence = counter
      BY <1>3, <2>1
    <3> QED
      BY <3>1 DEF DataIsSound, Sound
  <2> QED
    BY <1>1, <1>2, <1>3, <1>4, <2>4, <2>5
<1> QED
  BY <1>5, <1>6

\* As many numbers in 1..n as there are numbers are all of them.
LEMMA AllOfInterval ==
  ASSUME NEW n \in Nat, NEW S \in SUBSET (1..n), Cardinality(S) = n
  PROVE  S = 1..n
<1>1. IsFiniteSet(1..n) /\ Cardinality(1..n) = n
  <2>1. 1 \in Int /\ n \in Int
    OBVIOUS
  <2>2. Cardinality(1..n) = IF 1 > n THEN 0 ELSE n - 1 + 1
    BY <2>1, FS_Interval
  <2> QED
    BY <2>1, <2>2, FS_Interval
<1> QED
  BY <1>1, FS_Subset

\* The audit lets no other data be served.
LEMMA AuditIsEnough ==
  ASSUME TimelineTypes, Contiguous, CounterMatchesTail
  PROVE  DataIsSound
<1>1. CASE items = {}
  <2>1. counter = 0 /\ Cardinality(items) = 0
    BY <1>1, FS_EmptySet DEF CounterMatchesTail
  <2> QED
    BY <1>1, <2>1 DEF DataIsSound, SequencesUsed
<1>2. CASE items # {}
  <2>1. /\ Max(SequencesUsed) = Cardinality(items) /\ \A x \in items : Sound(x)
        /\ counter = Cardinality(items)
    BY <1>2 DEF Contiguous
  <2>2. \A x \in items : x.sequence \in Nat \ {0}
    BY <2>1 DEF Sound
  <2>3. SequencesUsed \in SUBSET Nat /\ SequencesUsed # {} /\ IsFiniteSet(SequencesUsed)
        /\ Cardinality(SequencesUsed) = Cardinality(items)
    <3> DEFINE f == [x \in items |-> x.sequence]
    <3>1. f \in [items -> SequencesUsed] /\ \A x, y \in items : f[x] = f[y] => x = y
      BY <2>2 DEF SequencesUsed, TimelineTypes, Unique
    <3>2. \A n \in SequencesUsed : \E x \in items : f[x] = n
      BY DEF SequencesUsed
    <3> HIDE DEF f
    <3>3. f \in Bijection(items, SequencesUsed)
      <4>1. f \in Injection(items, SequencesUsed)
        BY <3>1 DEF Injection, IsInjective
      <4>2. f \in Surjection(items, SequencesUsed)
        BY <3>1, <3>2 DEF Surjection
      <4> QED
        BY <4>1, <4>2 DEF Bijection
    <3>4. ExistsBijection(items, SequencesUsed)
      BY <3>3 DEF ExistsBijection
    <3>5. IsFiniteSet(SequencesUsed) /\ Cardinality(SequencesUsed) = Cardinality(items)
      BY <3>4, FS_Bijection DEF TimelineTypes
    <3> QED
      BY <1>2, <2>2, <3>5 DEF SequencesUsed
  <2>4. \A n \in SequencesUsed : n <= counter
    <3> DEFINE R == {p \in SequencesUsed \X SequencesUsed : p[1] < p[2]}
    <3>1. \A m, n \in SequencesUsed : <<m, n>> \in R <=> m < n
      OBVIOUS
    <3> HIDE DEF R
    <3>2. StrictOrder(R, SequencesUsed)
      BY <2>3, <3>1 DEF StrictOrder
    <3>3. PICK n \in SequencesUsed : \A m \in SequencesUsed : m = n \/ <<m, n>> \in R
      BY <2>3, <3>2, LastExists DEF IsLast
    <3>4. \A m \in SequencesUsed : m <= n
      <4>1. \A m \in SequencesUsed : m = n \/ m < n
        BY <3>1, <3>3
      <4>2. \A m \in SequencesUsed : m \in Nat
        BY <2>3
      <4> QED
        BY <4>1, <4>2
    <3>5. Max(SequencesUsed) = n
      BY <2>3, <3>4, MaxIs
    <3> QED
      BY <2>1, <3>4, <3>5
  <2>5. SequencesUsed \in SUBSET (1..counter) /\ counter \in Nat
    <3>1. \A n \in SequencesUsed : n \in Nat \ {0}
      BY <2>2 DEF SequencesUsed
    <3> QED
      BY <2>4, <3>1 DEF TimelineTypes
  <2>6. SequencesUsed = 1..counter
    BY <2>1, <2>3, <2>5, AllOfInterval
  <2> QED
    BY <2>1, <2>6 DEF DataIsSound
<1> QED
  BY <1>1, <1>2

-----------------------------------------------------------------------------
(* A page of each kind.                                                    *)

Asked(q) == Wanted(q, items, Upper(q))

PageFor(q, limit) == PageOf(q, Asked(q), limit)

MoreThan(q, limit) == HasNext(Asked(q), limit)

\* A page of a recovery has every sequence from where it begins to where it leads.
LEMMA RecoveryPage ==
  ASSUME TimelineTypes, DataIsSound, NEW q \in Request, NEW upper \in Nat, NEW limit \in Nat \ {0},
         ~q.order, Given(q.after), ~Given(q.before), q.after <= upper, upper <= counter,
         Upper(q) = upper,
         NEW reached, reached = IF MoreThan(q, limit)
                                THEN Max({x.sequence : x \in PageFor(q, limit)}) ELSE upper
  PROVE  /\ PageFor(q, limit) \subseteq items
         /\ reached \in q.after..upper
         /\ {x.sequence : x \in PageFor(q, limit)} = (q.after + 1)..reached
<1> DEFINE wanted == Asked(q)
           page == Page(wanted, limit, BySequence)
           used == {x.sequence : x \in page}
<1>1. wanted = {x \in items : x.sequence <= upper /\ x.sequence > q.after}
  BY DEF Asked, Wanted, SequenceMode
<1>2. PageFor(q, limit) = page
  BY DEF PageFor, PageOf
<1>3. q.after \in Nat /\ counter \in Nat
  BY Served DEF Request, Given
<1>4. /\ \A x \in items : x.sequence \in Nat /\ x.sequence \in 1..counter
      /\ \A n \in 1..counter : \E x \in items : x.sequence = n
      /\ \A x, y \in items : x.sequence = y.sequence => x = y
  BY Served
<1>5. IsFiniteSet(wanted)
  BY <1>1, FS_Subset DEF TimelineTypes
<1>6. /\ wanted \subseteq items
      /\ \A n \in (q.after + 1)..upper : \E x \in wanted : x.sequence = n
      /\ \A x \in wanted : x.sequence \in (q.after + 1)..upper
  <2>1. ASSUME NEW n \in (q.after + 1)..upper PROVE \E x \in wanted : x.sequence = n
    <3>1. n \in 1..counter /\ n <= upper /\ n > q.after
      BY <1>3
    <3>2. PICK x \in items : x.sequence = n
      BY <1>4, <3>1
    <3> QED
      BY <1>1, <3>1, <3>2
  <2>2. ASSUME NEW x \in wanted PROVE x.sequence \in (q.after + 1)..upper
    <3>1. x.sequence \in Nat /\ x.sequence <= upper /\ x.sequence > q.after
      BY <1>1, <1>4
    <3> QED
      BY <1>3, <3>1
  <2> QED
    BY <1>1, <2>1, <2>2
<1> HIDE DEF wanted
<1>7. /\ page \subseteq wanted
      /\ \A x \in page, y \in wanted : y.sequence < x.sequence => y \in page
      /\ ~HasNext(wanted, limit) => page = wanted
      /\ HasNext(wanted, limit) => \E x \in page : \A y \in page : y.sequence <= x.sequence
  BY <1>4, <1>5, <1>6, PageBySequence
<1> HIDE DEF page
<1>8. CASE HasNext(wanted, limit)
  <2>1. PICK z \in page : \A y \in page : y.sequence <= z.sequence
    BY <1>7, <1>8
  <2>2. z \in wanted /\ z.sequence \in (q.after + 1)..upper /\ z.sequence \in Nat
    BY <1>3, <1>6, <1>7
  <2>3. used = (q.after + 1)..z.sequence
    <3>1. ASSUME NEW x \in page PROVE x.sequence \in (q.after + 1)..z.sequence
      <4>1. x.sequence \in (q.after + 1)..upper /\ x.sequence <= z.sequence
        BY <1>6, <1>7, <2>1
      <4> QED
        BY <1>3, <2>2, <4>1
    <3>2. ASSUME NEW n \in (q.after + 1)..z.sequence PROVE n \in used
      <4>1. n \in (q.after + 1)..upper /\ (n = z.sequence \/ n < z.sequence)
        BY <1>3, <2>2
      <4>2. PICK x \in wanted : x.sequence = n
        BY <1>6, <4>1
      <4>3. x \in page
        BY <1>4, <1>6, <1>7, <2>1, <2>2, <4>1, <4>2
      <4> QED
        BY <4>2, <4>3
    <3> QED
      BY <3>1, <3>2
  <2>4. used \in SUBSET Nat /\ z.sequence \in used /\ \A m \in used : m <= z.sequence
    <3>1. \A m \in (q.after + 1)..z.sequence : m \in Nat /\ m <= z.sequence
      BY <1>3, <2>2
    <3> QED
      BY <2>1, <2>3, <3>1
  <2>5. Max(used) = z.sequence
    BY <2>4, MaxIs
  <2>6. z.sequence \in q.after..upper
    BY <1>3, <2>2
  <2> HIDE DEF used
  <2> QED
    BY <1>2, <1>6, <1>7, <1>8, <2>3, <2>5, <2>6 DEF MoreThan, wanted, used
<1>9. CASE ~HasNext(wanted, limit)
  <2>1. used = (q.after + 1)..upper
    BY <1>6, <1>7, <1>9
  <2>2. upper \in q.after..upper
    BY <1>3
  <2> HIDE DEF used
  <2> QED
    BY <1>2, <1>6, <1>7, <1>9, <2>1, <2>2 DEF MoreThan, wanted, used
<1> QED
  BY <1>8, <1>9

\* The last sequence that a request for history may get.
Bound(q) == IF Given(q.before) /\ q.before <= counter THEN q.before - 1 ELSE counter

\* Where it gets.
ReachedBack(q, limit) ==
  IF MoreThan(q, limit) THEN Min({x.sequence : x \in PageFor(q, limit)}) ELSE 1

\* A page of history has every sequence from where it leads to where it begins.
LEMMA HistoryPage ==
  ASSUME TimelineTypes, DataIsSound, NEW q \in Request, NEW limit \in Nat \ {0},
         q.order, ~Given(q.after), Given(q.before) => q.before # 0, Upper(q) = counter
  PROVE  /\ PageFor(q, limit) \subseteq items /\ Bound(q) \in 0..counter
         /\ MoreThan(q, limit) => ReachedBack(q, limit) \in 1..Bound(q)
         /\ {x.sequence : x \in PageFor(q, limit)} = ReachedBack(q, limit)..Bound(q)
<1> DEFINE wanted == Asked(q)
           page == Page(wanted, limit, ByLatestSequence)
           used == {x.sequence : x \in page}
           bound == Bound(q)
<1>1. wanted = {x \in items : x.sequence <= counter /\ (Given(q.before) => x.sequence < q.before)}
  BY DEF Asked, Wanted, SequenceMode
<1>2. PageFor(q, limit) = page
  BY DEF PageFor, PageOf
<1>3. counter \in Nat /\ (Given(q.before) => q.before \in Nat \ {0})
  BY Served DEF Request, Given
<1>4. /\ \A x \in items : x.sequence \in Nat /\ x.sequence \in 1..counter
      /\ \A n \in 1..counter : \E x \in items : x.sequence = n
      /\ \A x, y \in items : x.sequence = y.sequence => x = y
  BY Served
<1>5. IsFiniteSet(wanted)
  BY <1>1, FS_Subset DEF TimelineTypes
<1>7. bound \in 0..counter /\ \A n \in 1..counter : n <= bound <=> (Given(q.before) => n < q.before)
  BY <1>3 DEF Bound
<1>8. /\ wanted \subseteq items
      /\ \A n \in 1..bound : \E x \in wanted : x.sequence = n
      /\ \A x \in wanted : x.sequence \in 1..bound
  <2>1. ASSUME NEW n \in 1..bound PROVE \E x \in wanted : x.sequence = n
    <3>1. n \in 1..counter /\ n <= bound /\ n <= counter
      BY <1>3, <1>7
    <3>2. PICK x \in items : x.sequence = n
      BY <1>4, <3>1
    <3> QED
      BY <1>1, <1>7, <3>1, <3>2
  <2>2. ASSUME NEW x \in wanted PROVE x.sequence \in 1..bound
    <3>1. x.sequence \in 1..counter /\ (Given(q.before) => x.sequence < q.before)
      BY <1>1, <1>4
    <3>2. x.sequence <= bound
      BY <1>7, <3>1
    <3> QED
      BY <1>3, <1>7, <3>1, <3>2
  <2> QED
    BY <1>1, <2>1, <2>2
<1> HIDE DEF wanted, bound
<1>9. /\ page \subseteq wanted
      /\ \A x \in page, y \in wanted : y.sequence > x.sequence => y \in page
      /\ ~HasNext(wanted, limit) => page = wanted
      /\ HasNext(wanted, limit) => \E x \in page : \A y \in page : x.sequence <= y.sequence
  BY <1>4, <1>5, <1>8, PageByLatestSequence
<1> HIDE DEF page
<1>10. CASE HasNext(wanted, limit)
  <2>1. PICK z \in page : \A y \in page : z.sequence <= y.sequence
    BY <1>9, <1>10
  <2>2. z \in wanted /\ z.sequence \in 1..bound /\ z.sequence \in Nat
    BY <1>3, <1>7, <1>8, <1>9
  <2>3. used = z.sequence..bound
    <3>1. ASSUME NEW x \in page PROVE x.sequence \in z.sequence..bound
      <4>1. x.sequence \in 1..bound /\ z.sequence <= x.sequence
        BY <1>8, <1>9, <2>1
      <4> QED
        BY <1>7, <2>2, <4>1
    <3>2. ASSUME NEW n \in z.sequence..bound PROVE n \in used
      <4>1. n \in 1..bound /\ (n = z.sequence \/ n > z.sequence)
        BY <1>7, <2>2
      <4>2. PICK x \in wanted : x.sequence = n
        BY <1>8, <4>1
      <4>3. x \in page
        BY <1>4, <1>8, <1>9, <2>1, <2>2, <4>1, <4>2
      <4> QED
        BY <4>2, <4>3
    <3> QED
      BY <3>1, <3>2
  <2>4. used \in SUBSET Nat /\ z.sequence \in used /\ \A m \in used : z.sequence <= m
    <3>1. \A m \in z.sequence..bound : m \in Nat /\ z.sequence <= m
      BY <1>7, <2>2
    <3> QED
      BY <2>1, <2>3, <3>1
  <2>5. Min(used) = z.sequence
    BY <2>4, MinIs
  <2> HIDE DEF used
  <2> QED
    BY <1>2, <1>7, <1>8, <1>9, <1>10, <2>2, <2>3, <2>5 DEF ReachedBack, MoreThan, wanted, used, bound
<1>11. CASE ~HasNext(wanted, limit)
  <2>1. used = 1..bound
    BY <1>8, <1>9, <1>11
  <2> HIDE DEF used
  <2> QED
    BY <1>2, <1>7, <1>8, <1>9, <1>11, <2>1 DEF ReachedBack, MoreThan, wanted, used, bound
<1> QED
  BY <1>10, <1>11

\* A page by time has whatever is behind the cursor and before the next one.
LEMMA LegacyPage ==
  ASSUME TimelineTypes, DataIsSound, NEW q \in Request, NEW limit \in Nat \ {0}, ~SequenceMode(q),
         NEW last, last = LastOf(PageFor(q, limit), NewestFirst)
  PROVE  /\ PageFor(q, limit) \subseteq items
         /\ \A x \in PageFor(q, limit) : Given(q.cursor) => NewestFirst(q.cursor, x)
         /\ ~MoreThan(q, limit) =>
              \A x \in items : (Given(q.cursor) => NewestFirst(q.cursor, x)) =>
                x \in PageFor(q, limit)
         /\ MoreThan(q, limit) =>
              /\ last \in PageFor(q, limit)
              /\ \A x \in PageFor(q, limit) : x = last \/ NewestFirst(x, last)
              /\ \A x \in items : (Given(q.cursor) => NewestFirst(q.cursor, x)) =>
                   x \in PageFor(q, limit) \/ NewestFirst(last, x)
<1> DEFINE wanted == Asked(q)
           page == Page(wanted, limit, NewestFirst)
<1>1. wanted = {x \in items : Given(q.cursor) => NewestFirst(q.cursor, x)}
  BY DEF Asked, Wanted, Behind
<1>2. PageFor(q, limit) = page
  BY DEF PageFor, PageOf, SequenceMode
<1>3. /\ \A x \in items : x.at \in Nat /\ x.id \in Nat
      /\ \A x, y \in items : x.id = y.id => x = y
  BY Served
<1>4. IsFiniteSet(wanted) /\ wanted \subseteq items
  BY <1>1, FS_Subset DEF TimelineTypes
<1> HIDE DEF wanted
<1>5. /\ page \subseteq wanted
      /\ \A x \in page, y \in wanted : NewestFirst(y, x) => y \in page
      /\ ~HasNext(wanted, limit) => page = wanted
      /\ HasNext(wanted, limit) => last \in page /\ \A y \in page : y = last \/ NewestFirst(y, last)
  BY <1>2, <1>3, <1>4, PageNewestFirst
<1> HIDE DEF page
<1>6. ASSUME HasNext(wanted, limit), NEW x \in wanted PROVE x \in page \/ NewestFirst(last, x)
  <2>1. last \in page /\ last \in wanted
    BY <1>5, <1>6
  <2>2. NewestFirst(x, last) \/ NewestFirst(last, x) \/ x.id = last.id
    BY <1>3, <1>4, <2>1, NewestFirstIsOrder
  <2> QED
    BY <1>3, <1>4, <1>5, <2>1, <2>2
<1> QED
  BY <1>1, <1>2, <1>4, <1>5, <1>6 DEF MoreThan, wanted

-----------------------------------------------------------------------------
(* The answer to a request, and what it makes of a walk.                   *)

\* The parameters of a request that is valid go together.
LEMMA Parameters ==
  ASSUME NEW q \in Request, Valid(q)
  PROVE  /\ Given(q.after) => /\ q.after \in Nat /\ q.after <= MaxSequence
                              /\ ~q.order /\ ~Given(q.before) /\ ~Given(q.cursor)
         /\ Given(q.before) => q.before \in Nat \ {0} /\ q.before <= MaxSequence /\ q.order
         /\ Given(q.through) => q.through \in Nat /\ Given(q.after) /\ q.after <= q.through
         /\ Given(q.cursor) => ~SequenceMode(q)
BY DEF Valid, Request, Given, SequenceMode

NextFor(q, limit) ==
  IF MoreThan(q, limit) THEN NextRequest(q, PageFor(q, limit), Upper(q)) ELSE None

Extended(w, page, next) == [w EXCEPT !.pages = Append(@, page), !.next = next]

\* Where data is sound a request is refused only for what it says.
LEMMA AnswerIsPage ==
  ASSUME TimelineTypes, DataIsSound, NEW w, NEW q, NEW limit, Valid(q), InRange(q)
  PROVE  PageRead(w, q, limit) = Extended(w, PageFor(q, limit), NextFor(q, limit))
<1> DEFINE found == PageOf(q, Asked(q), limit + 1)
<1>1. Asked(q) \subseteq items
  BY DEF Asked, Wanted
<1>2. found \subseteq Asked(q)
  BY DEF PageOf, Page
<1>3. \A x \in found : Restored(x)
  BY <1>1, <1>2, Served
<1> QED
  BY <1>3 DEF PageRead, Asked, PageFor, MoreThan, NextFor, Extended

\* v is the walk w with one more page.
Longer(v, w, page, next) ==
  /\ v.first = w.first /\ v.upper = w.upper /\ v.existing = w.existing
  /\ v.refused = w.refused /\ v.next = next /\ v.pages = Append(w.pages, page)
  /\ v.pages # <<>> /\ Got(v) = Got(w) \union page

\* What an answer adds to a walk.
LEMMA OneMorePage ==
  ASSUME NEW w, WalkTypes(w, items), NEW page \in SUBSET items, NEW next \in Request \union {None},
         NEW v, v = Extended(w, page, next)
  PROVE  WalkTypes(v, items) /\ Longer(v, w, page, next)
<1>1. /\ w.pages \in Seq(SUBSET items) /\ Append(w.pages, page) \in Seq(SUBSET items)
      /\ Append(w.pages, page) # <<>>
  BY DEF WalkTypes
<1>2. /\ v \in [first : Request, upper : Nat, existing : SUBSET items, pages : Seq(SUBSET items),
                next : Request \union {None}, refused : BOOLEAN]
      /\ v.first = w.first /\ v.upper = w.upper /\ v.existing = w.existing
      /\ v.refused = w.refused /\ v.next = next /\ v.pages = Append(w.pages, page)
  BY <1>1 DEF WalkTypes, Extended
<1>3. Got(v) = Got(w) \union page
  <2>1. /\ Len(w.pages) \in Nat /\ Len(v.pages) = Len(w.pages) + 1
        /\ v.pages[Len(w.pages) + 1] = page
        /\ \A i \in 1..Len(w.pages) : v.pages[i] = w.pages[i]
    BY <1>1, <1>2
  <2>2. 1..(Len(w.pages) + 1) = (1..Len(w.pages)) \union {Len(w.pages) + 1}
    BY <2>1
  <2> QED
    BY <2>1, <2>2 DEF Got
<1> QED
  BY <1>1, <1>2, <1>3 DEF WalkTypes, Longer

\* The pages of a walk and a new one after them.
LEMMA PagesAppended ==
  ASSUME NEW T, NEW pages \in Seq(SUBSET T), NEW page \in SUBSET T,
         NEW i \in 1..Len(Append(pages, page)), NEW j \in 1..Len(Append(pages, page)), i < j
  PROVE  /\ i \in 1..Len(pages) /\ Append(pages, page)[i] = pages[i]
         /\ \/ j \in 1..Len(pages) /\ Append(pages, page)[j] = pages[j]
            \/ Append(pages, page)[j] = page
OBVIOUS

\* Whatever a page shows was got.
LEMMA ShownIsGot ==
  ASSUME NEW w, NEW i \in 1..Len(w.pages), NEW x \in w.pages[i]
  PROVE  x \in Got(w)
BY DEF Got

\* What was reached and what a page adds to it meet.
LEMMA TwoIntervals ==
  ASSUME NEW a \in Nat, NEW b \in Nat, NEW c \in Nat, a <= b, b <= c
  PROVE  ((a + 1)..b) \union ((b + 1)..c) = (a + 1)..c
OBVIOUS

\* None is no request and no item.
LEMMA NoneIsNothing ==
  ~Given(None) /\ (\A x \in Request : Given(x)) /\ (\A x \in Item : Given(x))
BY NoneAssumption DEF Given

\* The requests of a recovery differ in their interval only.
SameRecovery(q, first) == q = [first EXCEPT !.after = q.after, !.through = q.through]

\* A recovery goes on where it was.
LEMMA RecoveryGoesOn ==
  ASSUME TimelineTypes, DataIsSound, NEW w, WalkTypes(w, items), NEW q \in Request, NEW limit \in Nat \ {0},
         ~w.refused, Valid(w.first), ~Given(w.first.cursor), Given(w.first.after),
         Valid(q), InRange(q), Given(q.after), w.upper = Upper(q), w.upper <= counter,
         SameRecovery(q, w.first),
         w.first.after <= q.after,
         SequencesGot(w) = (w.first.after + 1)..q.after, RisingPages(w)
  PROVE  WalkIsSound(PageRead(w, q, limit), items, counter)
<1> DEFINE upper == w.upper
           page == PageFor(q, limit)
           reached == IF MoreThan(q, limit) THEN Max({x.sequence : x \in page}) ELSE upper
           next == NextFor(q, limit)
           v == PageRead(w, q, limit)
<1>1. v = Extended(w, page, next)
  BY AnswerIsPage
<1>2. /\ q.after \in Nat /\ ~q.order /\ ~Given(q.before) /\ upper \in Nat /\ counter \in Nat
      /\ w.first \in Request /\ w.first.after \in Nat /\ ~w.first.order
      /\ q.after <= upper
  <2>1. w.first \in Request /\ upper \in Nat
    BY DEF WalkTypes
  <2>2. q.after <= upper
    BY DEF InRange, SequenceMode
  <2> QED
    BY <2>1, <2>2, Parameters, Served
<1>0. reached = IF MoreThan(q, limit) THEN Max({x.sequence : x \in PageFor(q, limit)}) ELSE upper
  OBVIOUS
<1> HIDE DEF reached
<1>3. /\ page \subseteq items
      /\ reached \in q.after..upper
      /\ {x.sequence : x \in page} = (q.after + 1)..reached
  BY <1>2, <1>0, RecoveryPage
<1>4. MoreThan(q, limit) =>
        /\ next = [w.first EXCEPT !.after = reached, !.through = upper]
        /\ next \in Request /\ Given(next) /\ next.after = reached
  <2>1. ASSUME MoreThan(q, limit) PROVE next = [q EXCEPT !.after = reached, !.through = upper]
    BY <1>2, <1>0, <2>1 DEF NextFor, NextRequest, NextAfter
  <2> HIDE DEF next, upper
  <2>2. [q EXCEPT !.after = reached, !.through = upper]
          = [w.first EXCEPT !.after = reached, !.through = upper]
    BY <1>2 DEF Request, SameRecovery
  <2>3. reached \in Nat
    BY <1>2, <1>3
  <2>4. [q EXCEPT !.after = reached, !.through = upper] \in Request
        /\ [q EXCEPT !.after = reached, !.through = upper].after = reached
    BY <1>2, <2>3 DEF Request
  <2> QED
    BY <2>1, <2>2, <2>4, NoneIsNothing
<1>5. ~MoreThan(q, limit) => next = None
  BY DEF NextFor
<1> HIDE DEF page, next, v
<1>6. next \in Request \union {None} /\ page \in SUBSET items
  BY <1>3, <1>4, <1>5
<1>7. /\ WalkTypes(v, items)
      /\ v.first = w.first /\ v.upper = w.upper /\ v.existing = w.existing
      /\ v.refused = w.refused /\ v.next = next /\ v.pages = Append(w.pages, page)
      /\ v.pages # <<>> /\ Got(v) = Got(w) \union page
  <2>1. WalkTypes(v, items) /\ Longer(v, w, page, next)
    BY <1>1, <1>6, OneMorePage
  <2> QED
    BY <2>1 DEF Longer
<1>8. SequencesGot(v) = (w.first.after + 1)..reached
  <2>1. q.after \in Nat /\ reached \in Nat /\ q.after <= reached
    BY <1>2, <1>3
  <2>2. w.first.after \in Nat /\ w.first.after <= q.after
    BY <1>2
  <2>3. SequencesGot(v) = ((w.first.after + 1)..q.after) \union ((q.after + 1)..reached)
    BY <1>3, <1>7 DEF SequencesGot
  <2> QED
    BY <2>1, <2>2, <2>3, TwoIntervals
<1>9. RisingPages(v)
  <2> SUFFICES ASSUME NEW i \in 1..Len(v.pages), NEW j \in 1..Len(v.pages), i < j,
                      NEW x \in v.pages[i], NEW y \in v.pages[j]
               PROVE  x.sequence < y.sequence
    BY DEF RisingPages
  <2>1. w.pages \in Seq(SUBSET items) /\ page \in SUBSET items
    BY <1>3 DEF WalkTypes
  <2>2. i \in 1..Len(w.pages) /\ x \in w.pages[i]
        /\ ((j \in 1..Len(w.pages) /\ y \in w.pages[j]) \/ y \in page)
    BY <1>7, <2>1, PagesAppended
  <2>3. CASE j \in 1..Len(w.pages) /\ y \in w.pages[j]
    BY <2>2, <2>3 DEF RisingPages
  <2>4. CASE y \in page
    <3>1. x.sequence \in (w.first.after + 1)..q.after
      BY <2>2, ShownIsGot DEF SequencesGot
    <3>2. y.sequence \in (q.after + 1)..reached
      BY <1>3, <2>4
    <3> QED
      BY <1>2, <1>3, <3>1, <3>2
  <2> QED
    BY <2>2, <2>3, <2>4
<1>10. Recovery(v)
  <2>1. Given(v.next) <=> MoreThan(q, limit)
    BY <1>4, <1>5, <1>7, NoneIsNothing
  <2>2. reached = IF Given(v.next) THEN v.next.after ELSE v.upper
    BY <1>4, <1>7, <1>0, <2>1
  <2>3. w.first.after <= upper /\ reached \in w.first.after..upper
    BY <1>2, <1>3
  <2>4. Given(v.next) => v.next = [v.first EXCEPT !.after = reached, !.through = v.upper]
    BY <1>4, <1>7, <2>1
  <2> QED
    BY <1>7, <1>8, <1>9, <2>2, <2>3, <2>4 DEF Recovery
<1>11. Followed(v, items, counter)
  BY <1>2, <1>7, <1>10 DEF Followed, SequenceMode
<1> QED
  BY <1>7, <1>11 DEF WalkIsSound, v

SameHistory(q, first) == q = [first EXCEPT !.before = q.before]

\* History goes on where it was.
LEMMA HistoryGoesOn ==
  ASSUME TimelineTypes, DataIsSound, NEW w, WalkTypes(w, items), NEW q \in Request, NEW limit \in Nat \ {0},
         ~w.refused, Valid(w.first), ~Given(w.first.cursor), w.first.order,
         Valid(q), q.order, w.upper <= counter, SameHistory(q, w.first), Bound(q) <= Newest(w),
         SequencesGot(w) = (Bound(q) + 1)..Newest(w), FallingPages(w)
  PROVE  WalkIsSound(PageRead(w, q, limit), items, counter)
<1> DEFINE page == PageFor(q, limit)
           bound == Bound(q)
           reached == ReachedBack(q, limit)
           next == NextFor(q, limit)
           v == PageRead(w, q, limit)
<1>1. /\ w.first \in Request /\ ~Given(w.first.after) /\ counter \in Nat
      /\ ~Given(q.after) /\ ~Given(q.through) /\ Upper(q) = counter
      /\ Given(q.before) => q.before \in Nat \ {0}
      /\ Newest(w) \in Nat
  <2>1. w.first \in Request /\ w.upper \in Nat
    BY DEF WalkTypes
  <2>2. Given(w.first.before) => w.first.before \in Nat \ {0}
    BY <2>1, Parameters
  <2>3. Newest(w) \in Nat
    BY <2>1, <2>2 DEF Newest
  <2>4. ~Given(w.first.after) /\ ~Given(q.after) /\ ~Given(q.through)
        /\ (Given(q.before) => q.before \in Nat \ {0})
    BY <2>1, Parameters
  <2>5. LastSequence = counter /\ counter \in Nat
    BY Served
  <2>6. Upper(q) = counter
    BY <2>4, <2>5 DEF Upper
  <2> QED
    BY <2>1, <2>3, <2>4, <2>5, <2>6
<1>2. InRange(q)
  BY <1>1 DEF InRange
<1>3. v = Extended(w, page, next)
  BY <1>2, AnswerIsPage
<1>0. /\ reached = ReachedBack(q, limit)
      /\ reached = IF MoreThan(q, limit) THEN Min({x.sequence : x \in PageFor(q, limit)}) ELSE 1
  BY DEF ReachedBack
<1> HIDE DEF reached
<1>4. bound = Bound(q) /\ q.order /\ ~Given(q.after) /\ Upper(q) = counter
      /\ (Given(q.before) => q.before # 0)
  BY <1>1
<1> HIDE DEF bound
<1>5. /\ page \subseteq items /\ bound \in 0..counter
      /\ MoreThan(q, limit) => reached \in 1..bound
      /\ {x.sequence : x \in page} = reached..bound
  <2>1. /\ PageFor(q, limit) \subseteq items /\ Bound(q) \in 0..counter
        /\ MoreThan(q, limit) => ReachedBack(q, limit) \in 1..Bound(q)
        /\ {x.sequence : x \in PageFor(q, limit)} = ReachedBack(q, limit)..Bound(q)
    BY <1>4, HistoryPage
  <2> QED
    BY <1>4, <1>0, <2>1
<1>6. bound \in Nat /\ bound <= Newest(w) /\ SequencesGot(w) = (bound + 1)..Newest(w)
  BY <1>1, <1>5 DEF bound
<1>7. MoreThan(q, limit) =>
        /\ next = [w.first EXCEPT !.before = reached]
        /\ next \in Request /\ Given(next) /\ next.before = reached
  <2>1. ASSUME MoreThan(q, limit) PROVE next = [q EXCEPT !.before = reached]
    BY <1>1, <1>0, <2>1 DEF NextFor, NextRequest, NextBefore
  <2> HIDE DEF next
  <2>2. [q EXCEPT !.before = reached] = [w.first EXCEPT !.before = reached]
    BY <1>1 DEF Request, SameHistory
  <2>3. ASSUME MoreThan(q, limit)
        PROVE  [q EXCEPT !.before = reached] \in Request /\ [q EXCEPT !.before = reached].before = reached
    <3>1. reached \in Nat
      BY <1>5, <1>6, <2>3
    <3> QED
      BY <3>1 DEF Request
  <2> QED
    BY <2>1, <2>2, <2>3, NoneIsNothing
<1>8. ~MoreThan(q, limit) => next = None
  BY DEF NextFor
<1> HIDE DEF page, next, v
<1>9. next \in Request \union {None} /\ page \in SUBSET items
  BY <1>5, <1>7, <1>8
<1>10. WalkTypes(v, items) /\ Longer(v, w, page, next)
  BY <1>3, <1>9, OneMorePage
<1>11. /\ v.first = w.first /\ v.upper = w.upper /\ v.refused = w.refused /\ v.next = next
       /\ v.pages = Append(w.pages, page) /\ v.pages # <<>> /\ Got(v) = Got(w) \union page
       /\ Newest(v) = Newest(w)
  BY <1>10 DEF Longer, Newest
<1>12. reached \in Nat \ {0} /\ reached <= bound + 1
  BY <1>5, <1>6, <1>0
<1>13. SequencesGot(v) = reached..Newest(w)
  <2>1. SequencesGot(v) = (reached..bound) \union ((bound + 1)..Newest(w))
    BY <1>5, <1>6, <1>11 DEF SequencesGot
  <2> QED
    BY <1>1, <1>6, <1>12, <2>1
<1>14. FallingPages(v)
  <2> SUFFICES ASSUME NEW i \in 1..Len(v.pages), NEW j \in 1..Len(v.pages), i < j,
                      NEW x \in v.pages[i], NEW y \in v.pages[j]
               PROVE  x.sequence > y.sequence
    BY DEF FallingPages
  <2>1. w.pages \in Seq(SUBSET items) /\ page \in SUBSET items
    BY <1>5 DEF WalkTypes
  <2>2. i \in 1..Len(w.pages) /\ x \in w.pages[i]
        /\ ((j \in 1..Len(w.pages) /\ y \in w.pages[j]) \/ y \in page)
    BY <1>11, <2>1, PagesAppended
  <2>3. CASE j \in 1..Len(w.pages) /\ y \in w.pages[j]
    BY <2>2, <2>3 DEF FallingPages
  <2>4. CASE y \in page
    <3>1. x.sequence \in (bound + 1)..Newest(w)
      BY <1>6, <2>2, ShownIsGot DEF SequencesGot
    <3>2. y.sequence \in reached..bound
      BY <1>5, <2>4
    <3> QED
      BY <1>1, <1>6, <1>12, <3>1, <3>2
  <2> QED
    BY <2>2, <2>3, <2>4
<1>15. History(v)
  <2>1. Given(v.next) <=> MoreThan(q, limit)
    BY <1>7, <1>8, <1>11, NoneIsNothing
  <2>2. reached = IF Given(v.next) THEN v.next.before ELSE 1
    BY <1>7, <1>11, <1>0, <2>1
  <2>3. Given(v.next) => /\ v.next = [v.first EXCEPT !.before = reached]
                         /\ reached \in 1..Newest(v)
    BY <1>1, <1>5, <1>6, <1>7, <1>11, <2>1
  <2> QED
    BY <1>11, <1>13, <1>14, <2>2, <2>3 DEF History
<1>16. Followed(v, items, counter)
  BY <1>1, <1>11, <1>15 DEF Followed, SequenceMode
<1> QED
  BY <1>10, <1>11, <1>16 DEF WalkIsSound, v

SameLegacy(q, first) == q = [first EXCEPT !.cursor = q.cursor]

\* A walk by time goes on behind what it has got.
LEMMA LegacyGoesOn ==
  ASSUME TimelineTypes, DataIsSound, NEW w, WalkTypes(w, items), NEW q \in Request, NEW limit \in Nat \ {0},
         ~w.refused, Valid(w.first), ~Given(w.first.cursor), ~SequenceMode(w.first),
         Valid(q), ~SequenceMode(q), w.upper <= counter, SameLegacy(q, w.first),
         Given(q.cursor) => q.cursor \in items,
         \A x \in Got(w) : Given(q.cursor) /\ (x = q.cursor \/ NewestFirst(x, q.cursor)),
         \A x \in w.existing : x \in Got(w) \/ (Given(q.cursor) => NewestFirst(q.cursor, x)),
         AgeingPages(w)
  PROVE  WalkIsSound(PageRead(w, q, limit), items, counter)
<1> DEFINE page == PageFor(q, limit)
           last == LastOf(page, NewestFirst)
           next == NextFor(q, limit)
           v == PageRead(w, q, limit)
<1>1. InRange(q) /\ ~Given(q.after) /\ ~q.order /\ w.first \in Request
  BY DEF InRange, SequenceMode, WalkTypes
<1>2. v = Extended(w, page, next)
  BY <1>1, AnswerIsPage
<1>0. last = LastOf(PageFor(q, limit), NewestFirst)
  OBVIOUS
<1> HIDE DEF last
<1>3. /\ page \subseteq items
      /\ \A x \in page : Given(q.cursor) => NewestFirst(q.cursor, x)
      /\ ~MoreThan(q, limit) =>
           \A x \in items : (Given(q.cursor) => NewestFirst(q.cursor, x)) => x \in page
      /\ MoreThan(q, limit) =>
           /\ last \in page
           /\ \A x \in page : x = last \/ NewestFirst(x, last)
           /\ \A x \in items : (Given(q.cursor) => NewestFirst(q.cursor, x)) =>
                x \in page \/ NewestFirst(last, x)
  BY <1>0, LegacyPage
<1>4. items \subseteq Item /\ \A x \in items : x.at \in Nat /\ x.id \in Nat
  BY Served DEF TimelineTypes
<1>5. MoreThan(q, limit) =>
        /\ next = [w.first EXCEPT !.cursor = last]
        /\ next \in Request /\ Given(next) /\ next.cursor = last
  <2>1. ASSUME MoreThan(q, limit) PROVE next = [q EXCEPT !.cursor = last]
    BY <1>1, <1>0, <2>1 DEF NextFor, NextRequest
  <2> HIDE DEF next
  <2>2. [q EXCEPT !.cursor = last] = [w.first EXCEPT !.cursor = last]
    BY <1>1 DEF Request, SameLegacy
  <2>3. ASSUME MoreThan(q, limit)
        PROVE  [q EXCEPT !.cursor = last] \in Request /\ [q EXCEPT !.cursor = last].cursor = last
    <3>1. last \in Item
      BY <1>3, <1>4, <2>3
    <3> QED
      BY <3>1 DEF Request
  <2> QED
    BY <2>1, <2>2, <2>3, NoneIsNothing
<1>6. ~MoreThan(q, limit) => next = None
  BY DEF NextFor
<1> HIDE DEF page, next, v
<1>7. next \in Request \union {None} /\ page \in SUBSET items
  BY <1>3, <1>5, <1>6
<1>8. WalkTypes(v, items) /\ Longer(v, w, page, next)
  BY <1>2, <1>7, OneMorePage
<1>9. /\ v.first = w.first /\ v.upper = w.upper /\ v.refused = w.refused /\ v.next = next
      /\ v.existing = w.existing /\ v.existing \subseteq items
      /\ v.pages = Append(w.pages, page) /\ v.pages # <<>> /\ Got(v) = Got(w) \union page
  BY <1>8 DEF Longer, WalkTypes
<1>10. Got(w) \subseteq items
  <2>1. w.pages \in Seq(SUBSET items)
    BY DEF WalkTypes
  <2> QED
    BY <2>1 DEF Got
<1>11. \A x \in Got(w), y \in page : NewestFirst(x, y)
  <2> SUFFICES ASSUME NEW x \in Got(w), NEW y \in page PROVE NewestFirst(x, y)
    OBVIOUS
  <2>1. Given(q.cursor) /\ q.cursor \in items /\ x \in items /\ y \in items
        /\ NewestFirst(q.cursor, y) /\ (x = q.cursor \/ NewestFirst(x, q.cursor))
    BY <1>3, <1>10
  <2> QED
    BY <1>4, <2>1, NewestFirstIsOrder
<1>12. AgeingPages(v)
  <2> SUFFICES ASSUME NEW i \in 1..Len(v.pages), NEW j \in 1..Len(v.pages), i < j,
                      NEW x \in v.pages[i], NEW y \in v.pages[j]
               PROVE  NewestFirst(x, y)
    BY DEF AgeingPages
  <2>1. w.pages \in Seq(SUBSET items) /\ page \in SUBSET items
    BY <1>3 DEF WalkTypes
  <2>2. i \in 1..Len(w.pages) /\ x \in w.pages[i]
        /\ ((j \in 1..Len(w.pages) /\ y \in w.pages[j]) \/ y \in page)
    BY <1>9, <2>1, PagesAppended
  <2>3. CASE j \in 1..Len(w.pages) /\ y \in w.pages[j]
    BY <2>2, <2>3 DEF AgeingPages
  <2>4. CASE y \in page
    BY <1>11, <2>2, <2>4, ShownIsGot
  <2> QED
    BY <2>2, <2>3, <2>4
<1>13. Legacy(v, items)
  <2>1. Given(v.next) <=> MoreThan(q, limit)
    BY <1>5, <1>6, <1>9, NoneIsNothing
  <2>2. ASSUME MoreThan(q, limit)
        PROVE  /\ v.next.cursor \in items
               /\ v.next = [v.first EXCEPT !.cursor = v.next.cursor]
               /\ \A x \in Got(v) : x = v.next.cursor \/ NewestFirst(x, v.next.cursor)
               /\ \A x \in v.existing : x \in Got(v) \/ NewestFirst(v.next.cursor, x)
    <3>1. v.next.cursor = last /\ last \in page /\ last \in items
          /\ v.next = [v.first EXCEPT !.cursor = last]
      BY <1>3, <1>5, <1>9, <2>2
    <3>2. \A x \in Got(v) : x = last \/ NewestFirst(x, last)
      BY <1>3, <1>9, <1>11, <2>2, <3>1
    <3>3. \A x \in v.existing : x \in Got(v) \/ NewestFirst(last, x)
      BY <1>3, <1>9, <2>2
    <3> QED
      BY <3>1, <3>2, <3>3
  <2>3. ~MoreThan(q, limit) => v.existing \subseteq Got(v)
    BY <1>3, <1>9
  <2> QED
    BY <1>12, <2>1, <2>2, <2>3 DEF Legacy
<1>14. Followed(v, items, counter)
  BY <1>9, <1>13 DEF Followed, SequenceMode
<1> QED
  BY <1>8, <1>9, <1>14 DEF WalkIsSound, v

-----------------------------------------------------------------------------
(* The steps.                                                              *)

\* A walk stays sound when items are added.
LEMMA WalksLast ==
  ASSUME NEW w, NEW S, NEW n \in Nat, NEW T, NEW m \in Nat, S \subseteq T, n <= m,
         WalkIsSound(w, S, n)
  PROVE  WalkIsSound(w, T, m)
<1>1. WalkTypes(w, S)
  BY DEF WalkIsSound
<1>2. WalkTypes(w, T)
  <2>1. w.pages \in Seq(SUBSET T)
    <3>1. w.pages \in Seq(SUBSET S) /\ SUBSET S \subseteq SUBSET T
      BY <1>1 DEF WalkTypes
    <3>2. /\ Len(w.pages) \in Nat /\ DOMAIN w.pages = 1..Len(w.pages)
          /\ w.pages = [i \in 1..Len(w.pages) |-> w.pages[i]]
          /\ \A i \in 1..Len(w.pages) : w.pages[i] \in SUBSET T
      BY <3>1
    <3>3. w.pages \in [1..Len(w.pages) -> SUBSET T]
      BY <3>2
    <3> QED
      BY <3>2, <3>3
  <2> QED
    BY <1>1, <2>1 DEF WalkTypes
<1>3. w.upper <= n => w.upper <= m
  BY <1>1 DEF WalkTypes
<1>4. Legacy(w, S) => Legacy(w, T)
  BY DEF Legacy
<1> QED
  BY <1>2, <1>3, <1>4 DEF WalkIsSound, Followed

\* One reader's answer.
LEMMA ReaderStep ==
  ASSUME TimelineInv, phase = "serving", NEW r \in Readers, NEW v,
         walk' = [walk EXCEPT ![r] = v], UNCHANGED <<phase, items, counter>>,
         WalkIsSound(v, items, counter)
  PROVE  TimelineInv'
<1>1. /\ walk' = [q \in Readers |-> walk'[q]]
      /\ walk'[r] = v /\ \A q \in Readers \ {r} : walk'[q] = walk[q]
  BY DEF TimelineInv, TimelineTypes
<1>2. TimelineTypes'
  BY <1>1 DEF TimelineInv, TimelineTypes, Unique
<1>3. DataIsSound'
  BY DEF TimelineInv, DataIsSound, SequencesUsed, Sound
<1>4. \A q \in Readers : walk'[q] = Idle \/ WalkIsSound(walk'[q], items', counter')
  <2> SUFFICES ASSUME NEW q \in Readers
               PROVE  walk'[q] = Idle \/ WalkIsSound(walk'[q], items', counter')
    OBVIOUS
  <2>1. CASE q = r
    BY <1>1, <2>1
  <2>2. CASE q # r
    BY <1>1, <2>2 DEF TimelineInv
  <2> QED
    BY <2>1, <2>2
<1>5. phase' = "serving"
  OBVIOUS
<1>6. (\A q \in Readers : walk[q] = Idle \/ WalkIsSound(walk[q], items, counter))'
  BY <1>4
<1> QED
  BY <1>2, <1>3, <1>5, <1>6 DEF TimelineInv

\* A reader begins.
LEMMA BeginKeeps ==
  ASSUME TimelineInv, NEW r \in Readers, NEW q \in FirstRequests, NEW limit \in 1..MaxPageSize,
         Begin(r, q, limit)
  PROVE  TimelineInv'
<1> DEFINE upper == Upper(q)
           S == items
           b == [Idle EXCEPT !.first = q, !.upper = upper, !.existing = S]
           v == PageRead(b, q, limit)
<1>1. /\ phase = "serving" /\ TimelineTypes /\ DataIsSound
      /\ walk' = [walk EXCEPT ![r] = v] /\ UNCHANGED <<phase, items, counter>>
  BY DEF Begin, TimelineInv
<1>2. q \in Request /\ limit \in Nat \ {0} /\ ~Given(q.cursor) /\ (Given(q.through) => q.through = 2)
  BY Numbers DEF FirstRequests, Request, Given
<1>3. LastSequence = counter /\ counter \in Nat /\ counter <= MaxSequence
  BY <1>1, Served
<1>4. upper \in Nat
  BY <1>2, <1>3 DEF Upper
<1> HIDE DEF upper, S
<1>5. /\ WalkTypes(b, S)
      /\ b.first = q /\ b.upper = upper /\ b.existing = S /\ b.pages = <<>>
      /\ ~b.refused
  <2>1. <<>> \in Seq(SUBSET S)
    OBVIOUS
  <2> QED
    BY <1>2, <1>4, <2>1 DEF Idle, WalkTypes
<1> HIDE DEF b
<1>6. Got(b) = {} /\ SequencesGot(b) = {} /\ RisingPages(b) /\ FallingPages(b) /\ AgeingPages(b)
  <2>1. 1..Len(b.pages) = {}
    BY <1>5
  <2>2. Got(b) = {}
    BY <2>1 DEF Got
  <2> QED
    BY <2>1, <2>2 DEF SequencesGot, RisingPages, FallingPages, AgeingPages
<1> HIDE DEF v
<1>7. CASE Valid(q) /\ InRange(q)
  <2>1. upper <= counter
    <3>1. CASE Given(q.through)
      <4>1. SequenceMode(q)
        BY <1>2, <1>7, <3>1, Parameters DEF SequenceMode
      <4> QED
        BY <1>3, <1>7, <3>1, <4>1 DEF InRange, Upper, upper
    <3>2. CASE ~Given(q.through)
      BY <1>3, <3>2 DEF Upper, upper
    <3> QED
      BY <3>1, <3>2
  <2>2. CASE Given(q.after)
    <3>1. q.after \in Nat
      BY <1>2, <1>7, <2>2, Parameters
    <3>2. SameRecovery(q, b.first)
      BY <1>2, <1>5 DEF SameRecovery, Request
    <3>3. (q.after + 1)..q.after = {} /\ q.after <= q.after
      BY <3>1
    <3>4. WalkIsSound(PageRead(b, q, limit), items, counter)
      BY <1>1, <1>2, <1>5, <1>6, <1>7, <2>1, <2>2, <3>2, <3>3, RecoveryGoesOn DEF upper, S
    <3> QED
      BY <1>1, <3>4, ReaderStep DEF v
  <2>3. CASE q.order
    <3>1. ~Given(q.after) /\ ~Given(q.through) /\ (Given(q.before) => q.before \in Nat \ {0})
      BY <1>2, <1>7, <2>3, Parameters
    <3>2. upper = counter
      BY <1>3, <3>1 DEF Upper, upper
    <3>3. Newest(b) = Bound(q)
      BY <1>5, <3>2 DEF Newest, Bound
    <3>4. Bound(q) \in Nat
      BY <1>3, <3>1 DEF Bound
    <3>5. SameHistory(q, b.first)
      BY <1>2, <1>5 DEF SameHistory, Request
    <3>6. (Bound(q) + 1)..Newest(b) = {} /\ Bound(q) <= Newest(b)
      BY <3>3, <3>4
    <3>7. WalkIsSound(PageRead(b, q, limit), items, counter)
      BY <1>1, <1>2, <1>5, <1>6, <1>7, <2>1, <2>3, <3>5, <3>6, HistoryGoesOn DEF S
    <3> QED
      BY <1>1, <3>7, ReaderStep DEF v
  <2>4. CASE ~SequenceMode(q)
    <3>1. SameLegacy(q, b.first)
      BY <1>2, <1>5 DEF SameLegacy, Request
    <3>2. WalkIsSound(PageRead(b, q, limit), items, counter)
      BY <1>1, <1>2, <1>5, <1>6, <1>7, <2>1, <2>4, <3>1, LegacyGoesOn DEF S
    <3> QED
      BY <1>1, <3>2, ReaderStep DEF v
  <2> QED
    BY <2>2, <2>3, <2>4 DEF SequenceMode
<1>8. CASE ~(Valid(q) /\ InRange(q))
  <2>1. v = [b EXCEPT !.refused = TRUE, !.next = None]
    BY <1>8 DEF PageRead, v
  <2>2. WalkTypes(v, S) /\ v.pages = <<>> /\ v.next = None
    BY <1>5, <2>1 DEF WalkTypes
  <2>3. WalkIsSound(v, items, counter)
    BY <2>2, NoneIsNothing DEF WalkIsSound, S
  <2> QED
    BY <1>1, <2>3, ReaderStep
<1> QED
  BY <1>7, <1>8

\* A reader goes on.
LEMMA ContinueKeeps ==
  ASSUME TimelineInv, NEW r \in Readers, NEW limit \in 1..MaxPageSize, Continue(r, limit)
  PROVE  TimelineInv'
<1> DEFINE w == walk[r]
           q == w.next
           f == w.first
           v == PageRead(w, q, limit)
<1>1. TimelineTypes /\ Given(q) /\ walk' = [walk EXCEPT ![r] = v] /\ UNCHANGED <<phase, items, counter>>
  BY DEF Continue, TimelineInv
<1>2. w # Idle
  BY <1>1, NoneIsNothing DEF Idle
<1>3. phase = "serving" /\ DataIsSound /\ WalkIsSound(w, items, counter)
  BY <1>2 DEF TimelineInv
<1> HIDE DEF w, v
<1>4. WalkTypes(w, items) /\ w.pages # <<>>
      /\ Followed(w, items, counter) /\ limit \in Nat \ {0}
  BY <1>1, <1>3, Numbers DEF WalkIsSound
<1>5. f \in Request /\ q \in Request /\ w.upper \in Nat /\ w.existing \subseteq items
  BY <1>1, <1>4 DEF WalkTypes, Given
<1>6. ~w.refused /\ Valid(f) /\ ~Given(f.cursor) /\ w.upper <= counter
  BY <1>4 DEF Followed
<1>7. LastSequence = counter /\ counter \in Nat /\ counter <= MaxSequence
  BY <1>1, <1>3, Served
<1>8. CASE Given(f.after)
  <2> DEFINE reached == q.after
  <2>1. Recovery(w) /\ f.after \in Nat /\ ~f.order /\ ~Given(f.before)
    BY <1>4, <1>5, <1>6, <1>8, Parameters DEF Followed
  <2>2. /\ q = [f EXCEPT !.after = reached, !.through = w.upper]
        /\ reached \in f.after..w.upper
        /\ SequencesGot(w) = (f.after + 1)..reached /\ RisingPages(w)
    BY <1>1, <2>1 DEF Recovery
  <2> HIDE DEF q, f
  <2>3. reached \in Nat /\ f.after <= reached /\ reached <= w.upper
    BY <1>5, <2>1, <2>2
  <2> HIDE DEF reached
  <2>4. /\ q.after = reached /\ q.through = w.upper /\ q.order = f.order /\ q.before = f.before
        /\ q.cursor = f.cursor
    BY <1>5, <2>2 DEF Request
  <2>5. Given(q.after) /\ Given(q.through) /\ Upper(q) = w.upper
    BY <1>5, <2>3, <2>4, PagingAssumption DEF Given, Upper
  <2>6. Valid(q)
    BY <1>6, <1>7, <2>1, <2>3, <2>4, <2>5, Numbers, <1>5 DEF Valid
  <2>7. InRange(q)
    BY <1>6, <1>7, <2>3, <2>4, <2>5 DEF InRange
  <2>8. SameRecovery(q, f)
    BY <2>2, <2>4 DEF SameRecovery
  <2>9. WalkIsSound(PageRead(w, q, limit), items, counter)
    BY <1>1, <1>3, <1>4, <1>5, <1>6, <1>8, <2>2, <2>3, <2>4, <2>5, <2>6, <2>7, <2>8, RecoveryGoesOn DEF f
  <2> QED
    BY <1>1, <1>3, <2>9, ReaderStep DEF v
<1>9. CASE f.order
  <2> DEFINE reached == q.before
  <2>1. History(w) /\ ~Given(f.after) /\ ~Given(f.through)
        /\ (Given(f.before) => f.before \in Nat \ {0})
    BY <1>4, <1>5, <1>6, <1>9, Parameters DEF Followed
  <2>2. /\ q = [f EXCEPT !.before = reached]
        /\ reached \in 1..Newest(w)
        /\ SequencesGot(w) = reached..Newest(w) /\ FallingPages(w)
    BY <1>1, <2>1 DEF History
  <2> HIDE DEF q, f
  <2>3. Newest(w) \in Nat /\ Newest(w) <= w.upper
    BY <1>5, <2>1 DEF Newest, f
  <2>4. reached \in Nat \ {0} /\ reached <= Newest(w) /\ reached <= counter
    BY <1>5, <1>6, <1>7, <2>2, <2>3
  <2> HIDE DEF reached
  <2>5. /\ q.before = reached /\ q.after = f.after /\ q.through = f.through /\ q.order = f.order
        /\ q.cursor = f.cursor
    BY <1>5, <2>2 DEF Request
  <2>6. Given(q.before)
    BY <2>4, <2>5, PagingAssumption DEF Given
  <2>7. Valid(q)
    BY <1>6, <1>7, <1>9, <2>1, <2>4, <2>5, <2>6, Numbers DEF Valid
  <2>8. Bound(q) = reached - 1
    BY <2>4, <2>5, <2>6 DEF Bound
  <2>9. Bound(q) <= Newest(w) /\ SequencesGot(w) = (Bound(q) + 1)..Newest(w)
    BY <2>2, <2>3, <2>4, <2>8
  <2>10. SameHistory(q, f)
    BY <2>2, <2>5 DEF SameHistory
  <2>11. WalkIsSound(PageRead(w, q, limit), items, counter)
    BY <1>1, <1>3, <1>4, <1>5, <1>6, <1>9, <2>2, <2>5, <2>7, <2>9, <2>10, HistoryGoesOn DEF f
  <2> QED
    BY <1>1, <1>3, <2>11, ReaderStep DEF v
<1>10. CASE ~SequenceMode(f)
  <2> DEFINE cursor == q.cursor
  <2>1. Legacy(w, items) /\ ~f.order /\ ~Given(f.after) /\ ~Given(f.before) /\ ~Given(f.through)
    BY <1>4, <1>5, <1>6, <1>10, Parameters DEF Followed, SequenceMode
  <2>2. /\ cursor \in items /\ q = [f EXCEPT !.cursor = cursor]
        /\ \A x \in Got(w) : x = cursor \/ NewestFirst(x, cursor)
        /\ \A x \in w.existing : x \in Got(w) \/ NewestFirst(cursor, x)
        /\ AgeingPages(w)
    BY <1>1, <2>1 DEF Legacy
  <2> HIDE DEF q, f, cursor
  <2>3. /\ q.cursor = cursor /\ q.after = f.after /\ q.through = f.through /\ q.order = f.order
        /\ q.before = f.before
    BY <1>5, <2>2 DEF Request
  <2>4. Given(q.cursor)
    <3>1. cursor \in Item
      BY <1>1, <2>2 DEF TimelineTypes
    <3> QED
      BY <2>3, <3>1, NoneIsNothing
  <2>5. Valid(q) /\ ~SequenceMode(q)
    BY <1>6, <2>1, <2>3, <2>4 DEF Valid, SequenceMode
  <2>6. SameLegacy(q, f)
    BY <2>2, <2>3 DEF SameLegacy
  <2>7. WalkIsSound(PageRead(w, q, limit), items, counter)
    BY <1>1, <1>3, <1>4, <1>5, <1>6, <1>10, <2>2, <2>3, <2>4, <2>5, <2>6, LegacyGoesOn DEF f
  <2> QED
    BY <1>1, <1>3, <2>7, ReaderStep DEF v
<1> QED
  BY <1>8, <1>9, <1>10 DEF SequenceMode


\* The audit lets the API serve what is sound, or nothing.
LEMMA AuditKeeps ==
  ASSUME TimelineInv, CheckRealtimeData
  PROVE  TimelineInv'
<1>1. /\ TimelineTypes /\ phase = "starting" /\ UNCHANGED <<items, counter, walk>>
      /\ phase' \in {"serving", "refused"}
      /\ phase' = "serving" => Contiguous /\ CounterMatchesTail
      /\ \A r \in Readers : walk[r] = Idle
  BY DEF CheckRealtimeData, TimelineInv
<1>2. TimelineTypes'
  BY <1>1 DEF TimelineTypes, Unique
<1>3. phase' = "serving" => DataIsSound'
  <2>1. phase' = "serving" => DataIsSound
    BY <1>1, AuditIsEnough
  <2> QED
    BY <1>1, <2>1 DEF DataIsSound, SequencesUsed, Sound
<1>4. \A r \in Readers : walk'[r] = Idle
  BY <1>1
<1> QED
  BY <1>2, <1>3, <1>4 DEF TimelineInv

\* An item takes the next sequence, and no walk has been there yet.
LEMMA AppendKeeps ==
  ASSUME TimelineInv, NEW id \in Ids, NEW at \in Times, AppendItem(id, at)
  PROVE  TimelineInv'
<1> DEFINE item == [id |-> id, sequence |-> counter + 1, at |-> at, client |-> TRUE]
<1>1. /\ phase = "serving" /\ TimelineTypes /\ DataIsSound
      /\ Cardinality(items) < MaxItems /\ id \notin {x.id : x \in items}
      /\ counter' = counter + 1 /\ items' = items \union {item} /\ UNCHANGED <<phase, walk>>
  BY DEF AppendItem, TimelineInv
<1>2. /\ counter \in Nat
      /\ \A x \in items : x.sequence \in 1..counter /\ x.sequence \in Nat
  BY <1>1, Served
<1>3. id \in Nat /\ counter + 1 \in 1..MaxSequence
  BY <1>1, <1>2, Numbers DEF Ids, DataIsSound
<1>4. /\ item \in Item /\ item.id = id /\ item.sequence = counter + 1 /\ item.client = TRUE
  BY <1>2, <1>3 DEF Item
<1> HIDE DEF item
<1>5. \A x \in items : x.id # id /\ x.sequence # counter + 1
  <2> SUFFICES ASSUME NEW x \in items PROVE x.id # id /\ x.sequence # counter + 1
    OBVIOUS
  <2>1. x.sequence \in Nat /\ x.sequence <= counter
    BY <1>2
  <2> QED
    BY <1>1, <1>2, <2>1
<1>6. item \notin items
  BY <1>4, <1>5
<1>7. IsFiniteSet(items') /\ Cardinality(items') = counter + 1
  BY <1>1, <1>6, FS_AddElement DEF TimelineTypes, DataIsSound
<1>8. Unique(items')
  BY <1>1, <1>4, <1>5 DEF TimelineTypes, Unique
<1>9. TimelineTypes'
  BY <1>1, <1>2, <1>4, <1>7, <1>8 DEF TimelineTypes
<1>10. SequencesUsed' = 1..(counter + 1)
  <2>1. SequencesUsed' = SequencesUsed \union {counter + 1}
    BY <1>1, <1>4 DEF SequencesUsed
  <2>2. 1..(counter + 1) = (1..counter) \union {counter + 1}
    BY <1>2
  <2> QED
    BY <1>1, <2>1, <2>2 DEF DataIsSound
<1>11. \A x \in items' : Sound(x)
  BY <1>1, <1>3, <1>4 DEF DataIsSound, Sound
<1>12. DataIsSound'
  BY <1>1, <1>7, <1>10, <1>11 DEF DataIsSound
<1>13. \A r \in Readers : walk[r] = Idle \/ WalkIsSound(walk[r], items', counter')
  <2>1. items \subseteq items' /\ counter <= counter' /\ counter' \in Nat
    BY <1>1, <1>2
  <2> QED
    BY <1>2, <2>1, WalksLast DEF TimelineInv
<1>14. (\A r \in Readers : walk[r] = Idle \/ WalkIsSound(walk[r], items, counter))'
  BY <1>1, <1>13
<1> QED
  BY <1>1, <1>9, <1>12, <1>14 DEF TimelineInv

-----------------------------------------------------------------------------
\* No more items than ids, as ids are unique.
LEMMA FewItems ==
  ASSUME NEW S, \A x \in S : x.id \in 1..2, Unique(S)
  PROVE  IsFiniteSet(S)
<1> DEFINE f == [x \in S |-> x.id]
<1>1. f \in [S -> 1..2] /\ \A x, y \in S : f[x] = f[y] => x = y
  BY DEF Unique
<1> HIDE DEF f
<1>2. f \in Injection(S, 1..2)
  BY <1>1 DEF Injection, IsInjective
<1>3. IsFiniteSet(1..2)
  <2>1. 1 \in Int /\ 2 \in Int
    OBVIOUS
  <2> QED
    BY <2>1, FS_Interval
<1> QED
  BY <1>2, <1>3, FS_Injection

\* Old data, before the audit.
LEMMA OldDataIsTyped ==
  ASSUME Init \/ NothingStored
  PROVE  TimelineInv
<1>1. phase = "starting" /\ \A r \in Readers : walk[r] = Idle
  BY DEF Init, NothingStored
<1>2. items \subseteq Item /\ IsFiniteSet(items) /\ Unique(items) /\ counter \in Nat
  <2>1. CASE NothingStored
    BY <2>1, FS_EmptySet DEF NothingStored, Unique
  <2>2. CASE Init
    <3> DEFINE Old == [id : 1..2, sequence : 0..3, at : {Min(Times)}, client : BOOLEAN]
    <3>1. Min(Times) \in Times
      <4>1. Times \in SUBSET Nat /\ Times # {}
        BY PagingAssumption
      <4>2. PICK n \in Times : \A m \in Times : n <= m
        BY <4>1, LeastNumber
      <4>3. Min(Times) = n
        BY <4>1, <4>2, MinIs
      <4> QED
        BY <4>3
    <3>2. items \subseteq Old /\ Unique(items) /\ counter \in 0..3
      <4>1. PICK k \in 0..2 : items \in kSubset(k, Old)
        BY <2>2 DEF Init
      <4>2. items \in SUBSET Old
        BY <4>1 DEF kSubset
      <4> QED
        BY <2>2, <4>2 DEF Init
    <3>3. Old \subseteq Item
      BY <3>1 DEF Item
    <3>4. \A x \in items : x.id \in 1..2
      BY <3>2
    <3> QED
      BY <3>2, <3>3, <3>4, FewItems
  <2> QED
    BY <2>1, <2>2
<1>3. walk = [r \in Readers |-> walk[r]]
  BY DEF Init, NothingStored
<1> QED
  BY <1>1, <1>2, <1>3 DEF TimelineInv, TimelineTypes

\* Every step of the timeline.
LEMMA TimelineSteps ==
  ASSUME TimelineInv, [Next]_vars
  PROVE  TimelineInv'
<1>1. CASE CheckRealtimeData
  BY <1>1, AuditKeeps
<1>2. ASSUME NEW id \in Ids, NEW at \in Times, AppendItem(id, at) PROVE TimelineInv'
  BY <1>2, AppendKeeps
<1>3. ASSUME NEW r \in Readers, NEW limit \in 1..MaxPageSize, NEW q \in FirstRequests,
             Begin(r, q, limit)
      PROVE  TimelineInv'
  BY <1>3, BeginKeeps
<1>4. ASSUME NEW r \in Readers, NEW limit \in 1..MaxPageSize, Continue(r, limit)
      PROVE  TimelineInv'
  BY <1>4, ContinueKeeps
<1>5. CASE UNCHANGED vars
  <2>1. UNCHANGED <<phase, items, counter, walk>>
    BY <1>5 DEF vars
  <2>2. TimelineTypes' /\ (DataIsSound => DataIsSound')
    BY <2>1 DEF TimelineInv, TimelineTypes, Unique, DataIsSound, SequencesUsed, Sound
  <2>3. (\A r \in Readers : walk[r] = Idle \/ WalkIsSound(walk[r], items, counter))'
    BY <2>1 DEF TimelineInv
  <2> QED
    BY <2>1, <2>2, <2>3 DEF TimelineInv
<1> QED
  BY <1>1, <1>2, <1>3, <1>4, <1>5 DEF Next

-----------------------------------------------------------------------------
(* What follows from it.                                                   *)

\* A walk that was followed to its end.
LEMMA WalkAtEnd ==
  ASSUME TimelineInv, NEW r \in Readers, Finished(walk[r])
  PROVE  Followed(walk[r], items, counter) /\ WalkTypes(walk[r], items) /\ ~Given(walk[r].next)
<1>1. walk[r].pages # <<>> /\ ~Given(walk[r].next)
  BY DEF Finished
<1>2. walk[r] # Idle
  BY <1>1 DEF Idle
<1> QED
  BY <1>1, <1>2 DEF TimelineInv, WalkIsSound

\* Pages in order have no item in common, whatever the order.
LEMMA OrderedPagesDiffer ==
  ASSUME NEW w, NEW S, WalkTypes(w, S),
         \A x \in S : x.sequence \in Nat /\ x.at \in Nat /\ x.id \in Nat,
         RisingPages(w) \/ FallingPages(w) \/ AgeingPages(w)
  PROVE  NoItemTwice(w)
<1>1. w.pages \in Seq(SUBSET S)
  BY DEF WalkTypes
<1>2. ASSUME NEW i \in 1..Len(w.pages), NEW j \in 1..Len(w.pages), i < j,
             NEW x \in w.pages[i], x \in w.pages[j]
      PROVE  FALSE
  <2>1. x.sequence \in Nat /\ x.at \in Nat /\ x.id \in Nat
    BY <1>1
  <2>2. x.sequence < x.sequence \/ x.sequence > x.sequence \/ NewestFirst(x, x)
    BY <1>2 DEF RisingPages, FallingPages, AgeingPages
  <2> QED
    BY <2>1, <2>2 DEF NewestFirst
<1>3. ASSUME NEW i \in 1..Len(w.pages), NEW j \in 1..Len(w.pages), i # j
      PROVE  w.pages[i] \intersect w.pages[j] = {}
  <2>1. Len(w.pages) \in Nat
    BY <1>1
  <2>2. i < j \/ j < i
    BY <1>3, <2>1
  <2> QED
    BY <1>2, <2>2
<1> QED
  BY <1>3 DEF NoItemTwice

\* The items that a walk may have got.
LEMMA WalkedItems ==
  ASSUME TimelineInv, NEW r \in Readers, Finished(walk[r])
  PROVE  \A x \in items : x.sequence \in Nat /\ x.at \in Nat /\ x.id \in Nat
<1>1. items \subseteq Item /\ Times \subseteq Nat
  BY Numbers DEF TimelineInv, TimelineTypes
<1> QED
  BY <1>1 DEF Item

\* A recovery that has reached its snapshot has all of it.
LEMMA RecoveryEnds ==
  ASSUME TimelineInv PROVE RecoveryComplete
<1> SUFFICES ASSUME NEW r \in Readers, Finished(walk[r]), Given(walk[r].first.after)
             PROVE  /\ {x.sequence : x \in Got(walk[r])} = (walk[r].first.after + 1)..walk[r].upper
                    /\ NoItemTwice(walk[r])
                    /\ \A i \in 2..Len(walk[r].pages) :
                         \A x \in walk[r].pages[i - 1], y \in walk[r].pages[i] :
                           x.sequence < y.sequence
  BY DEF RecoveryComplete
<1>1. Recovery(walk[r]) /\ WalkTypes(walk[r], items) /\ ~Given(walk[r].next)
  BY WalkAtEnd DEF Followed
<1>2. RisingPages(walk[r])
  BY <1>1 DEF Recovery
<1>3. {x.sequence : x \in Got(walk[r])} = (walk[r].first.after + 1)..walk[r].upper
  BY <1>1 DEF Recovery, SequencesGot
<1>4. NoItemTwice(walk[r])
  BY <1>1, <1>2, WalkedItems, OrderedPagesDiffer
<1>5. ASSUME NEW i \in 2..Len(walk[r].pages), NEW x \in walk[r].pages[i - 1], NEW y \in walk[r].pages[i]
      PROVE  x.sequence < y.sequence
  <2>1. Len(walk[r].pages) \in Nat
    BY <1>1 DEF WalkTypes
  <2>2. i - 1 \in 1..Len(walk[r].pages) /\ i \in 1..Len(walk[r].pages) /\ i - 1 < i
    BY <2>1
  <2> QED
    BY <1>2, <1>5, <2>2 DEF RisingPages
<1> QED
  BY <1>3, <1>4, <1>5

\* History that has reached 1 has all of it.
LEMMA HistoryEnds ==
  ASSUME TimelineInv PROVE HistoryComplete
<1> SUFFICES ASSUME NEW r \in Readers, Finished(walk[r]), walk[r].first.order
             PROVE  /\ {x.sequence : x \in Got(walk[r])} = 1..Newest(walk[r])
                    /\ NoItemTwice(walk[r])
  BY DEF HistoryComplete, Newest
<1>1. History(walk[r]) /\ WalkTypes(walk[r], items) /\ ~Given(walk[r].next)
  BY WalkAtEnd DEF Followed
<1>2. {x.sequence : x \in Got(walk[r])} = 1..Newest(walk[r])
  BY <1>1 DEF History, SequencesGot
<1>3. NoItemTwice(walk[r])
  BY <1>1, WalkedItems, OrderedPagesDiffer DEF History
<1> QED
  BY <1>2, <1>3

\* A walk by time without a cursor has passed everything.
LEMMA LegacyWalkEnds ==
  ASSUME TimelineInv PROVE LegacyWalkComplete
<1> SUFFICES ASSUME NEW r \in Readers, Finished(walk[r]), ~SequenceMode(walk[r].first)
             PROVE  walk[r].existing \subseteq Got(walk[r]) /\ NoItemTwice(walk[r])
  BY DEF LegacyWalkComplete
<1>1. Legacy(walk[r], items) /\ WalkTypes(walk[r], items) /\ ~Given(walk[r].next)
  BY WalkAtEnd DEF Followed
<1>2. NoItemTwice(walk[r])
  BY <1>1, WalkedItems, OrderedPagesDiffer DEF Legacy
<1> QED
  BY <1>1, <1>2 DEF Legacy

\* A walk that has a page was answered, and stays so.
LEMMA AnsweredIsNotRefused ==
  ASSUME TimelineInv PROVE NeverRefusedLate
<1> SUFFICES ASSUME NEW r \in Readers, walk[r].refused PROVE walk[r].pages = <<>>
  BY DEF NeverRefusedLate
<1>1. walk[r] # Idle
  BY DEF Idle
<1> QED
  BY <1>1 DEF TimelineInv, WalkIsSound, Followed

\* What is stored and what every walk has got so far hold in every state of every
\* behaviour.
THEOREM TimelineInvariant == Spec => []TimelineInv
<1>1. Init => TimelineInv
  BY OldDataIsTyped
<1>2. TimelineInv /\ [Next]_vars => TimelineInv'
  BY TimelineSteps
<1> QED
  BY <1>1, <1>2, PTL DEF Spec

\* A recovery that has finished has every sequence after its start up to the snapshot of
\* its first page, each once and in order, whatever was appended meanwhile and however
\* many items, readers and pages there are (timeline_repository/sequence.go:19).
THEOREM RecoveriesAreComplete == Spec => []RecoveryComplete
BY RecoveryEnds, TimelineInvariant, PTL

\* History that was read back to its beginning has every sequence before its start, each
\* once (timeline_repository/sequence.go:19).
THEOREM HistoriesAreComplete == Spec => []HistoryComplete
BY HistoryEnds, TimelineInvariant, PTL

\* The walk by time shows every item that was there at its first page exactly once, from
\* whichever clocks the times came (timeline_repository/list.go:61).
THEOREM LegacyWalksAreComplete == Spec => []LegacyWalkComplete
BY LegacyWalkEnds, TimelineInvariant, PTL

\* No request that an answer leads to is refused: the bounds it names exist, and every
\* item it finds can be restored (timeline_repository/sequence.go:54).
THEOREM NoneIsRefusedLate == Spec => []NeverRefusedLate
BY AnsweredIsNotRefused, TimelineInvariant, PTL

-----------------------------------------------------------------------------
(* The directory: accounts, chats and the calls that make them.            *)

Entry == [id : Nat, at : Times]

ChatDocument == [id : Nat, one : UserIds, two : UserIds, created : Times, at : Times]

Call == [phase : {"idle", "searching", "inserting", "duplicate", "answered", "failed"},
         current : Nat, related : Nat, id : Nat, at : Nat, created : BOOLEAN]

\* The fields of a walk; what who, existing and next may be is of no importance here.
ListWalk(w) ==
  w \in [who : {w.who}, sound : {w.sound}, existing : {w.existing},
         pages : Seq(SUBSET Entry), next : {w.next}, refused : {w.refused}]

DirectoryTypes ==
  /\ users \subseteq [id : UserIds, at : Times]
  /\ chats \subseteq ChatDocument
  /\ calls \in [Calls -> Call]
  /\ listing = [r \in Readers |-> listing[r]]
  /\ \A r \in Readers : ListWalk(listing[r])

UnderWay(c) == calls[c].phase \in {"searching", "inserting", "duplicate", "answered"}

\* A call that was accepted is about two users, and only an answer reports a creation.
CallsAreSound ==
  \A c \in Calls :
    /\ UnderWay(c) => /\ calls[c].current \in UserIds /\ calls[c].related \in UserIds
                      /\ calls[c].current # calls[c].related
    /\ calls[c].phase \in {"searching", "inserting", "duplicate"} =>
         calls[c].at \in Times /\ ~calls[c].created
    /\ calls[c].created => Answered(c)

ChatsAreSound == \A x \in chats : Restorable(x)

\* A walk that goes on has a page behind it, and was not refused.
WalksAreSound ==
  \A r \in Readers :
    /\ Given(listing[r].next) => listing[r].pages # <<>> /\ ~listing[r].refused
    /\ RefusedWithCause(listing[r])

DirectoryInv == DirectoryTypes /\ CallsAreSound /\ ChatsAreSound /\ OneChatPerPair /\ WalksAreSound

-----------------------------------------------------------------------------
\* Two different numbers are put in order, and nothing else has the same two.
LEMMA Ordering ==
  ASSUME NEW a \in UserIds, NEW b \in UserIds, a # b
  PROVE  LET pair == orderParticipants(a, b)
         IN /\ pair.one \in UserIds /\ pair.two \in UserIds /\ pair.one < pair.two
            /\ {pair.one, pair.two} = {a, b}
            /\ \A one, two \in UserIds :
                 one < two /\ {one, two} = {a, b} => one = pair.one /\ two = pair.two
<1> UserIds \subseteq Nat
  BY DirectoryAssumption DEF UserIds
<1>1. CASE a < b
  <2>1. Min({a, b}) = a /\ Max({a, b}) = b
    BY <1>1 DEF Min, Max
  <2> QED
    BY <1>1, <2>1 DEF orderParticipants
<1>2. CASE b < a
  <2>1. Min({a, b}) = b /\ Max({a, b}) = a
    BY <1>2 DEF Min, Max
  <2> QED
    BY <1>2, <2>1 DEF orderParticipants
<1> QED
  BY <1>1, <1>2

\* What the unique index compares is what a call asks for.
LEMMA PairsAreOrdered ==
  ASSUME DirectoryInv, NEW c \in Calls, UnderWay(c)
  PROVE  /\ Candidate(c).one \in UserIds /\ Candidate(c).two \in UserIds
         /\ Candidate(c).one < Candidate(c).two
         /\ {Candidate(c).one, Candidate(c).two} = {calls[c].current, calls[c].related}
         /\ Candidate(c).id = calls[c].id /\ Candidate(c).created = calls[c].at
         /\ Candidate(c).at = calls[c].at
         /\ \A x \in chats : x \in Stored(c) <=>
              {x.one, x.two} = {calls[c].current, calls[c].related}
<1>1. calls[c].current \in UserIds /\ calls[c].related \in UserIds
      /\ calls[c].current # calls[c].related
  BY DEF DirectoryInv, CallsAreSound
<1>2. /\ Candidate(c).one = orderParticipants(calls[c].current, calls[c].related).one
      /\ Candidate(c).two = orderParticipants(calls[c].current, calls[c].related).two
      /\ Candidate(c).id = calls[c].id /\ Candidate(c).created = calls[c].at
      /\ Candidate(c).at = calls[c].at
  BY DEF Candidate
<1>3. \A x \in chats : x.one \in UserIds /\ x.two \in UserIds /\ x.one < x.two
  BY DEF DirectoryInv, DirectoryTypes, ChatDocument, ChatsAreSound, Restorable
<1> DEFINE pair == orderParticipants(calls[c].current, calls[c].related)
<1>4. /\ pair.one \in UserIds /\ pair.two \in UserIds /\ pair.one < pair.two
      /\ {pair.one, pair.two} = {calls[c].current, calls[c].related}
      /\ \A one, two \in UserIds :
           one < two /\ {one, two} = {calls[c].current, calls[c].related}
             => one = pair.one /\ two = pair.two
  BY <1>1, Ordering
<1> HIDE DEF pair
<1>5. ASSUME NEW x \in chats
      PROVE  x \in Stored(c) <=> {x.one, x.two} = {calls[c].current, calls[c].related}
  BY <1>2, <1>3, <1>4 DEF Stored, pair
<1> QED
  BY <1>2, <1>4, <1>5 DEF pair

\* No account, no chat, no call: the invariant holds at the start.
THEOREM DirectoryInitially ==
  ASSUME DirectoryInit PROVE DirectoryInv
<1>1. calls \in [Calls -> Call]
  BY DEF DirectoryInit, NoCall, Call
<1>2. \A r \in Readers : listing[r] = NoListing
  BY DEF DirectoryInit
<1>3. ListWalk(NoListing) /\ ~NoListing.refused /\ ~Given(NoListing.next)
  BY DEF NoListing, ListWalk, Given
<1>4. DirectoryTypes
  BY <1>1, <1>2, <1>3 DEF DirectoryInit, DirectoryTypes
<1>5. CallsAreSound /\ ChatsAreSound /\ OneChatPerPair
  BY DEF DirectoryInit, CallsAreSound, UnderWay, Answered, NoCall, ChatsAreSound, OneChatPerPair
<1>6. WalksAreSound
  BY <1>2, <1>3 DEF WalksAreSound, RefusedWithCause
<1> QED
  BY <1>4, <1>5, <1>6 DEF DirectoryInv
-----------------------------------------------------------------------------
\* What a call may become, and with it the chats: everything that calls do.
LEMMA CallSteps ==
  ASSUME DirectoryInv, NEW c \in Calls, NEW v \in Call,
         calls' = [calls EXCEPT ![c] = v], UNCHANGED <<users, listing>>,
         \/ chats' = chats
         \/ /\ chats' = chats \union {Candidate(c)}
            /\ calls[c].phase = "inserting" /\ Stored(c) = {},
         v.phase \in {"searching", "inserting", "duplicate", "answered"} =>
           /\ v.current \in UserIds /\ v.related \in UserIds /\ v.current # v.related,
         v.phase \in {"searching", "inserting", "duplicate"} => v.at \in Times /\ ~v.created,
         v.phase = "answered" =>
           \E x \in chats' : x.id = v.id /\ {x.one, x.two} = {v.current, v.related},
         v.created => /\ v.phase = "answered"
                      /\ calls[c].phase = "inserting" /\ Stored(c) = {}
                      /\ v.current = calls[c].current /\ v.related = calls[c].related
  PROVE  DirectoryInv'
<1>1. calls'[c] = v /\ \A d \in Calls \ {c} : calls'[d] = calls[d]
  BY DEF DirectoryInv, DirectoryTypes
<1>2. calls' \in [Calls -> Call]
  BY DEF DirectoryInv, DirectoryTypes
<1>3. chats \subseteq chats'
  OBVIOUS
<1>4. ASSUME chats' # chats
      PROVE  /\ Candidate(c) \in ChatDocument /\ Restorable(Candidate(c))
             /\ {Candidate(c).one, Candidate(c).two} = {calls[c].current, calls[c].related}
             /\ \A x \in chats :
                  {x.one, x.two} # {Candidate(c).one, Candidate(c).two}
  <2>1. UnderWay(c) /\ calls[c].at \in Times /\ calls[c].id \in Nat
    BY <1>4 DEF UnderWay, DirectoryInv, CallsAreSound, DirectoryTypes, Call
  <2>2. Candidate(c) \in ChatDocument /\ Restorable(Candidate(c))
    <3>1. Candidate(c) = [id |-> Candidate(c).id, one |-> Candidate(c).one, two |-> Candidate(c).two,
                          created |-> Candidate(c).created, at |-> Candidate(c).at]
      BY DEF Candidate
    <3>2. \A t \in Times : t <= t
      BY PagingAssumption
    <3> QED
      BY <2>1, <3>1, <3>2, PairsAreOrdered DEF ChatDocument, Restorable
  <2> QED
    BY <1>4, <2>1, <2>2, PairsAreOrdered
<1>5. DirectoryTypes'
  BY <1>2, <1>4 DEF DirectoryInv, DirectoryTypes, ListWalk
<1>6. CallsAreSound'
  BY <1>1 DEF DirectoryInv, CallsAreSound, UnderWay, Answered
<1>7. ChatsAreSound'
  BY <1>4 DEF DirectoryInv, ChatsAreSound, Restorable
<1>8. OneChatPerPair'
  <2>1. \A x, y \in chats' : {x.one, x.two} = {y.one, y.two} => x = y
    <3>1. \A x, y \in chats : {x.one, x.two} = {y.one, y.two} => x = y
      BY DEF DirectoryInv, OneChatPerPair
    <3>2. CASE chats' = chats
      BY <3>1, <3>2
    <3>3. CASE chats' # chats
      <4>1. chats' = chats \union {Candidate(c)}
        BY <3>3
      <4> QED
        BY <1>4, <3>1, <3>3, <4>1
    <3> QED
      BY <3>2, <3>3
  <2>2. \A d \in Calls : Answered(d)' => \E x \in chats' :
          x.id = calls'[d].id /\ {x.one, x.two} = {calls'[d].current, calls'[d].related}
    BY <1>1, <1>3 DEF DirectoryInv, OneChatPerPair, Answered
  <2>3. ASSUME NEW d \in Calls \ {c}, calls'[c].created, SameTwo(c, d)'
        PROVE  ~calls'[d].created
    <3>1. UnderWay(c) /\ Stored(c) = {}
      BY <1>1, <2>3 DEF UnderWay
    <3>2. {calls[d].current, calls[d].related} = {calls[c].current, calls[c].related}
      BY <1>1, <2>3 DEF SameTwo
    <3>3. ~Answered(d)
      <4>1. \A x \in chats : {x.one, x.two} # {calls[c].current, calls[c].related}
        BY <3>1, PairsAreOrdered
      <4>2. Answered(d) => \E x \in chats : {x.one, x.two} = {calls[d].current, calls[d].related}
        BY DEF DirectoryInv, OneChatPerPair
      <4> QED
        BY <3>2, <4>1, <4>2
    <3> QED
      BY <1>1, <3>3 DEF DirectoryInv, CallsAreSound
  <2>4. \A a, b \in Calls : a # b /\ SameTwo(a, b)' => ~(calls'[a].created /\ calls'[b].created)
    <3> SUFFICES ASSUME NEW a \in Calls, NEW b \in Calls, a # b, SameTwo(a, b)'
                 PROVE  ~(calls'[a].created /\ calls'[b].created)
      OBVIOUS
    <3>1. CASE a # c /\ b # c
      BY <1>1, <3>1 DEF DirectoryInv, OneChatPerPair, SameTwo
    <3>2. CASE a = c
      BY <2>3, <3>2
    <3>3. CASE b = c
      <4>1. SameTwo(c, a)'
        BY <3>3 DEF SameTwo
      <4> QED
        BY <2>3, <3>3, <4>1
    <3> QED
      BY <3>1, <3>2, <3>3
  <2> QED
    BY <2>1, <2>2, <2>4 DEF OneChatPerPair
<1>9. WalksAreSound'
  BY DEF DirectoryInv, WalksAreSound, RefusedWithCause
<1> QED
  BY <1>5, <1>6, <1>7, <1>8, <1>9 DEF DirectoryInv

\* A call goes on, as what it was.
LEMMA GotoKeeps ==
  ASSUME DirectoryInv, NEW c \in Calls, NEW to \in {"inserting", "duplicate"}, Goto(c, to),
         calls[c].phase \in {"searching", "inserting", "duplicate"}
  PROVE  DirectoryInv'
<1> DEFINE v == [calls[c] EXCEPT !.phase = to]
<1>1. calls[c] \in Call
  BY DEF DirectoryInv, DirectoryTypes
<1>2. v \in Call /\ v.phase = to /\ v.current = calls[c].current
      /\ v.related = calls[c].related /\ v.at = calls[c].at /\ v.created = calls[c].created
  BY <1>1 DEF Call
<1>3. calls' = [calls EXCEPT ![c] = v] /\ UNCHANGED <<users, chats, listing>>
  BY DEF Goto
<1> HIDE DEF v
<1>4. /\ v.current \in UserIds /\ v.related \in UserIds /\ v.current # v.related
      /\ v.at \in Times /\ ~v.created
  BY <1>2 DEF DirectoryInv, CallsAreSound, UnderWay
<1> QED
  BY <1>2, <1>3, <1>4, CallSteps

\* A call that has failed asks nothing of what is stored.
LEMMA FailKeeps ==
  ASSUME DirectoryInv, NEW c \in Calls, Fail(c),
         \/ UNCHANGED chats
         \/ /\ calls[c].phase = "inserting" /\ Stored(c) = {}
            /\ chats' = chats \union {Candidate(c)}
  PROVE  DirectoryInv'
<1> DEFINE v == [NoCall EXCEPT !.phase = "failed"]
<1>1. v \in Call /\ v.phase = "failed" /\ ~v.created
  BY DEF NoCall, Call
<1>2. calls' = [calls EXCEPT ![c] = v] /\ UNCHANGED <<users, listing>>
  BY DEF Fail
<1> HIDE DEF v
<1> QED
  BY <1>1, <1>2, CallSteps

\* An answer names the chat of the two users that ask.
LEMMA AnswerStoredKeeps ==
  ASSUME DirectoryInv, NEW c \in Calls, AnswerStored(c),
         calls[c].phase \in {"searching", "duplicate"}
  PROVE  DirectoryInv'
<1>1. PICK chat \in Stored(c) :
        IF Restorable(chat)
        THEN /\ calls' = [calls EXCEPT ![c].phase = "answered", ![c].id = chat.id, ![c].at = 0]
             /\ UNCHANGED <<users, chats, listing>>
        ELSE Fail(c) /\ UNCHANGED chats
  BY DEF AnswerStored
<1>2. CASE Restorable(chat)
  <2> DEFINE v == [calls[c] EXCEPT !.phase = "answered", !.id = chat.id, !.at = 0]
  <2>1. calls[c] \in Call /\ chat \in chats /\ chat.id \in Nat
    BY DEF DirectoryInv, DirectoryTypes, Stored, ChatDocument
  <2>2. /\ v \in Call /\ v.phase = "answered" /\ v.id = chat.id
        /\ v.current = calls[c].current /\ v.related = calls[c].related
        /\ v.created = calls[c].created
    BY <2>1 DEF Call
  <2>3. calls' = [calls EXCEPT ![c] = v] /\ UNCHANGED <<users, chats, listing>>
    BY <1>1, <1>2
  <2> HIDE DEF v
  <2>4. UnderWay(c) /\ ~v.created
        /\ v.current \in UserIds /\ v.related \in UserIds /\ v.current # v.related
    BY <2>2 DEF DirectoryInv, CallsAreSound, UnderWay
  <2>5. {chat.one, chat.two} = {v.current, v.related}
    BY <2>1, <2>2, <2>4, PairsAreOrdered
  <2> QED
    BY <2>1, <2>2, <2>3, <2>4, <2>5, CallSteps
<1>3. CASE ~Restorable(chat)
  BY <1>1, <1>3, FailKeeps
<1> QED
  BY <1>2, <1>3

\* A call is about two users.
LEMMA AskKeeps ==
  ASSUME DirectoryInv, NEW c \in Calls, NEW current \in UserIds, NEW related \in UserIds,
         NEW id \in ChatIds, NEW at \in Times, Ask(c, current, related, id, at)
  PROVE  DirectoryInv'
<1> DEFINE v == [NoCall EXCEPT !.phase = "searching", !.current = current,
                               !.related = related, !.id = id, !.at = at]
<1>1. current \in Nat /\ related \in Nat /\ id \in Nat /\ at \in Nat
  BY DirectoryAssumption, PagingAssumption, FS_CardinalityType DEF UserIds, ChatIds
<1>2. /\ v \in Call /\ v.phase = "searching" /\ v.current = current /\ v.related = related
      /\ v.at = at /\ ~v.created
  BY <1>1 DEF NoCall, Call
<1>3. calls' = [calls EXCEPT ![c] = v] /\ UNCHANGED <<users, chats, listing>>
  BY DEF Ask
<1>4. current # related
  BY DEF Ask
<1> HIDE DEF v
<1> QED
  BY <1>2, <1>3, <1>4, CallSteps

\* Who inserts finds nothing stored for the two users, so that nobody was answered.
LEMMA InsertKeeps ==
  ASSUME DirectoryInv, NEW c \in Calls, Insert(c)
  PROVE  DirectoryInv'
<1>1. calls[c].phase = "inserting" /\ UnderWay(c) /\ calls[c] \in Call
  BY DEF Insert, UnderWay, DirectoryInv, DirectoryTypes
<1>2. CASE Stored(c) # {}
  BY <1>1, <1>2, GotoKeeps DEF Insert
<1>3. CASE Stored(c) = {}
  <2> DEFINE v == [calls[c] EXCEPT !.phase = "answered", !.at = 0, !.created = TRUE]
  <2>1. /\ v \in Call /\ v.phase = "answered" /\ v.id = calls[c].id
        /\ v.current = calls[c].current /\ v.related = calls[c].related
    BY <1>1 DEF Call
  <2>2. /\ calls' = [calls EXCEPT ![c] = v] /\ UNCHANGED <<users, listing>>
        /\ chats' = chats \union {Candidate(c)}
    BY <1>3 DEF Insert
  <2> HIDE DEF v
  <2>3. v.current \in UserIds /\ v.related \in UserIds /\ v.current # v.related
    BY <1>1, <2>1 DEF DirectoryInv, CallsAreSound
  <2>4. /\ Candidate(c) \in chats' /\ Candidate(c).id = v.id
        /\ {Candidate(c).one, Candidate(c).two} = {v.current, v.related}
    BY <1>1, <2>1, <2>2, PairsAreOrdered
  <2> QED
    BY <1>1, <1>3, <2>1, <2>2, <2>3, <2>4, CallSteps
<1> QED
  BY <1>2, <1>3

\* Accounts have no part in chats.
LEMMA SignUpKeeps ==
  ASSUME DirectoryInv, NEW id \in UserIds, NEW at \in Times, SignUp(id, at)
  PROVE  DirectoryInv'
<1>1. users' = users \union {[id |-> id, at |-> at]} /\ UNCHANGED <<chats, calls, listing>>
  BY DEF SignUp, InsertAccount
<1>2. DirectoryTypes'
  BY <1>1 DEF DirectoryInv, DirectoryTypes, ListWalk
<1> QED
  BY <1>1, <1>2 DEF DirectoryInv, CallsAreSound, UnderWay, Answered, ChatsAreSound, Restorable,
                    OneChatPerPair, SameTwo, WalksAreSound, RefusedWithCause

\* A message moves its chat forward, and leaves it the chat of its pair.
LEMMA TouchKeeps ==
  ASSUME DirectoryInv, NEW chat \in chats, NEW at \in Times, Touch(chat, at)
  PROVE  DirectoryInv'
<1> DEFINE moved == [chat EXCEPT !.at = SummarySortAt(chat, at)]
<1>1. chat \in ChatDocument /\ Times \subseteq Nat /\ UserIds \subseteq Nat
  BY PagingAssumption, DirectoryAssumption DEF DirectoryInv, DirectoryTypes, UserIds
<1>2. SummarySortAt(chat, at) \in Times /\ chat.at <= SummarySortAt(chat, at)
  <2>1. \A a, b \in Nat : Max({a, b}) \in {a, b} /\ a <= Max({a, b})
    <3> SUFFICES ASSUME NEW a \in Nat, NEW b \in Nat
                 PROVE  Max({a, b}) \in {a, b} /\ a <= Max({a, b})
      OBVIOUS
    <3>1. a <= b \/ b <= a
      OBVIOUS
    <3>2. \E x \in {a, b} : \A y \in {a, b} : x >= y
      BY <3>1
    <3>3. Max({a, b}) \in {a, b} /\ \A y \in {a, b} : Max({a, b}) >= y
      BY <3>2 DEF Max
    <3> QED
      BY <3>3
  <2>2. chat.at \in Times
    BY <1>1 DEF ChatDocument
  <2> QED
    BY <1>1, <2>1, <2>2 DEF SummarySortAt
<1>3. /\ moved \in ChatDocument /\ moved.id = chat.id /\ moved.one = chat.one
      /\ moved.two = chat.two /\ moved.created = chat.created
      /\ moved.at = SummarySortAt(chat, at)
  BY <1>1, <1>2 DEF ChatDocument
<1>4. chats' = (chats \ {chat}) \union {moved} /\ UNCHANGED <<users, calls, listing>>
  BY DEF Touch
<1>5. Restorable(moved)
  <2>1. chat.one < chat.two /\ chat.created <= chat.at
    BY DEF DirectoryInv, ChatsAreSound, Restorable
  <2>2. chat.created \in Nat /\ chat.at \in Nat /\ SummarySortAt(chat, at) \in Nat
    BY <1>1, <1>2 DEF ChatDocument
  <2>3. \A x, y, z \in Nat : x <= y /\ y <= z => x <= z
    OBVIOUS
  <2>4. chat.created <= SummarySortAt(chat, at)
    BY <1>2, <2>1, <2>2, <2>3
  <2> QED
    BY <1>3, <2>1, <2>4 DEF Restorable
<1> HIDE DEF moved
<1>6. DirectoryTypes'
  BY <1>3, <1>4 DEF DirectoryInv, DirectoryTypes, ListWalk
<1>7. CallsAreSound' /\ WalksAreSound'
  BY <1>4 DEF DirectoryInv, CallsAreSound, UnderWay, Answered, WalksAreSound, RefusedWithCause
<1>8. ChatsAreSound'
  BY <1>4, <1>5 DEF DirectoryInv, ChatsAreSound, Restorable
<1>9. OneChatPerPair'
  <2>1. \A x, y \in chats' : {x.one, x.two} = {y.one, y.two} => x = y
    BY <1>3, <1>4 DEF DirectoryInv, OneChatPerPair
  <2>2. \A x \in chats : \E y \in chats' : y.id = x.id /\ y.one = x.one /\ y.two = x.two
    BY <1>3, <1>4
  <2>3. \A c \in Calls : Answered(c)' => \E x \in chats' :
          x.id = calls'[c].id /\ {x.one, x.two} = {calls'[c].current, calls'[c].related}
    <3> SUFFICES ASSUME NEW c \in Calls, Answered(c)'
                 PROVE  \E x \in chats' :
                   x.id = calls'[c].id /\ {x.one, x.two} = {calls'[c].current, calls'[c].related}
      OBVIOUS
    <3>1. PICK x \in chats : x.id = calls[c].id
                              /\ {x.one, x.two} = {calls[c].current, calls[c].related}
      BY <1>4 DEF DirectoryInv, OneChatPerPair, Answered
    <3>2. PICK y \in chats' : y.id = x.id /\ y.one = x.one /\ y.two = x.two
      BY <2>2
    <3> QED
      BY <1>4, <3>1, <3>2
  <2> QED
    BY <1>4, <2>1, <2>3 DEF DirectoryInv, OneChatPerPair, SameTwo
<1> QED
  BY <1>6, <1>7, <1>8, <1>9 DEF DirectoryInv

-----------------------------------------------------------------------------
\* The answer to a page is a page of entries, or a refusal with a cause: every chat
\* that is found can be restored.
LEMMA AnswerIsSound ==
  ASSUME DirectoryInv, NEW w, ListWalk(w), ~w.refused, NEW page, NEW cursor, NEW limit,
         ~Acceptable(page, cursor, limit) => ~w.sound
  PROVE  LET answer == Listed(w, page, cursor, limit)
         IN /\ ListWalk(answer) /\ RefusedWithCause(answer)
            /\ Given(answer.next) => answer.pages # <<>> /\ ~answer.refused
<1> DEFINE Before(x, y) == Precedes(w.who, x, y)
           wanted == {x \in Entries(w.who) : Given(cursor) => AfterCursor(w.who, cursor, x)}
           found == Page(wanted, limit + 1, Before)
           entries == Page(wanted, limit, Before)
           next == IF HasNext(wanted, limit) THEN LastOf(entries, Before) ELSE None
<1>1. Entries(w.who) \subseteq Entry
  <2>1. UserIds \subseteq Nat
    BY DirectoryAssumption DEF UserIds
  <2> QED
    BY <2>1 DEF Entries, ChatEntries, ChatsOf, UserEntries, Entry, ChatDocument,
                DirectoryInv, DirectoryTypes
<1>2. entries \subseteq Entry
  BY <1>1 DEF Page
<1>3. Readable(w.who, found)
  BY DEF Readable, ChatsOf, DirectoryInv, ChatsAreSound
<1>4. Listed(w, page, cursor, limit) =
        IF Acceptable(page, cursor, limit) /\ Readable(w.who, found)
        THEN [w EXCEPT !.pages = Append(@, entries), !.next = next]
        ELSE [w EXCEPT !.refused = TRUE, !.next = None]
  BY DEF Listed
<1> HIDE DEF Before, wanted, found, entries, next
<1>5. CASE Acceptable(page, cursor, limit)
  <2> DEFINE answer == [w EXCEPT !.pages = Append(@, entries), !.next = next]
  <2>1. Append(w.pages, entries) \in Seq(SUBSET Entry) /\ Append(w.pages, entries) # <<>>
    BY <1>2 DEF ListWalk
  <2>2. /\ answer \in [who : {w.who}, sound : {w.sound}, existing : {w.existing},
                       pages : Seq(SUBSET Entry), next : {next}, refused : {w.refused}]
        /\ answer.pages = Append(w.pages, entries)
    BY <2>1 DEF ListWalk
  <2> HIDE DEF answer
  <2>3. ListWalk(answer) /\ RefusedWithCause(answer) /\ answer.pages # <<>>
        /\ ~answer.refused
    BY <2>1, <2>2 DEF ListWalk, RefusedWithCause
  <2> QED
    BY <1>3, <1>4, <1>5, <2>3 DEF answer
<1>6. CASE ~Acceptable(page, cursor, limit)
  <2> DEFINE answer == [w EXCEPT !.refused = TRUE, !.next = None]
  <2>1. answer \in [who : {w.who}, sound : {w.sound}, existing : {w.existing},
                    pages : Seq(SUBSET Entry), next : {None}, refused : {TRUE}]
    BY DEF ListWalk
  <2> HIDE DEF answer
  <2>2. ListWalk(answer) /\ RefusedWithCause(answer) /\ ~Given(answer.next)
    BY <1>6, <2>1 DEF ListWalk, RefusedWithCause, Given
  <2> QED
    BY <1>4, <1>6, <2>2 DEF answer
<1> QED
  BY <1>5, <1>6

\* A reader's step is a walk that is sound put in the place of one.
LEMMA ListStep ==
  ASSUME DirectoryInv, NEW r \in Readers, NEW w, listing' = [listing EXCEPT ![r] = w],
         UNCHANGED <<users, chats, calls>>,
         ListWalk(w), RefusedWithCause(w), Given(w.next) => w.pages # <<>> /\ ~w.refused
  PROVE  DirectoryInv'
<1>1. listing' = [q \in Readers |-> listing'[q]]
      /\ listing'[r] = w /\ \A q \in Readers \ {r} : listing'[q] = listing[q]
  BY DEF DirectoryInv, DirectoryTypes
<1>2. DirectoryTypes'
  <2>1. \A q \in Readers : ListWalk(listing'[q])
    BY <1>1 DEF DirectoryInv, DirectoryTypes
  <2> QED
    BY <1>1, <2>1 DEF DirectoryInv, DirectoryTypes
<1>3. WalksAreSound'
  BY <1>1 DEF DirectoryInv, WalksAreSound
<1> QED
  BY <1>2, <1>3 DEF DirectoryInv, CallsAreSound, UnderWay, Answered, ChatsAreSound, Restorable,
                    OneChatPerPair, SameTwo

\* A reader begins a list.
LEMMA FirstPageKeeps ==
  ASSUME DirectoryInv, NEW r \in Readers, NEW who, NEW page, NEW limit, FirstPage(r, who, page, limit)
  PROVE  DirectoryInv'
<1> DEFINE asked == [NoListing EXCEPT !.who = who, !.sound = Acceptable(page, None, limit),
                                      !.existing = Entries(who)]
           answer == Listed(asked, page, None, limit)
<1>1. ListWalk(asked) /\ ~asked.refused /\ asked.sound = Acceptable(page, None, limit)
  <2> DEFINE sound == Acceptable(page, None, limit)
             existing == Entries(who)
  <2>1. asked = [NoListing EXCEPT !.who = who, !.sound = sound, !.existing = existing]
    OBVIOUS
  <2> HIDE DEF asked, sound, existing
  <2>2. asked \in [who : {who}, sound : {sound}, existing : {existing}, pages : {<<>>},
                   next : {None}, refused : {FALSE}]
    BY <2>1 DEF NoListing
  <2>3. <<>> \in Seq(SUBSET Entry)
    OBVIOUS
  <2> QED
    BY <2>2, <2>3 DEF ListWalk, sound
<1>2. listing' = [listing EXCEPT ![r] = answer] /\ UNCHANGED <<users, chats, calls>>
  BY DEF FirstPage
<1> HIDE DEF asked
<1>3. ListWalk(answer) /\ RefusedWithCause(answer)
      /\ (Given(answer.next) => answer.pages # <<>> /\ ~answer.refused)
  BY <1>1, AnswerIsSound
<1> HIDE DEF answer
<1> QED
  BY <1>2, <1>3, ListStep

\* What a reader is told to ask is acceptable.
LEMMA NextPageKeeps ==
  ASSUME DirectoryInv, NEW r \in Readers, NEW limit \in 1..MaxPageSize, NextPage(r, limit)
  PROVE  DirectoryInv'
<1> DEFINE w == listing[r]
           page == Len(w.pages) + 1
           answer == Listed(w, page, w.next, limit)
<1>1. ListWalk(w) /\ Given(w.next) /\ w.pages # <<>> /\ w.pages \in Seq(SUBSET Entry)
  BY DEF NextPage, DirectoryInv, DirectoryTypes, WalksAreSound, ListWalk
<1>2. page \in Nat /\ page >= 2
  BY <1>1
<1>3. Acceptable(page, w.next, limit)
  BY <1>1, <1>2 DEF Acceptable, normalizeListPagination, validateCursorForPage
<1>4. listing' = [listing EXCEPT ![r] = answer] /\ UNCHANGED <<users, chats, calls>>
  BY DEF NextPage
<1>5. ~w.refused
  BY <1>1 DEF DirectoryInv, WalksAreSound
<1> HIDE DEF w, page
<1>6. ListWalk(answer) /\ RefusedWithCause(answer)
      /\ (Given(answer.next) => answer.pages # <<>> /\ ~answer.refused)
  BY <1>1, <1>3, <1>5, AnswerIsSound
<1> HIDE DEF answer
<1> QED
  BY <1>4, <1>6, ListStep

-----------------------------------------------------------------------------
\* Every step of the directory preserves the invariant.
THEOREM DirectoryInductive ==
  ASSUME DirectoryInv, [DirectoryNext]_directoryVars PROVE DirectoryInv'
<1>1. ASSUME NEW id \in UserIds, NEW at \in Times, SignUp(id, at) PROVE DirectoryInv'
  BY <1>1, SignUpKeeps
<1>2. ASSUME NEW c \in Calls, NEW current \in UserIds, NEW related \in UserIds,
             NEW id \in ChatIds, NEW at \in Times, Ask(c, current, related, id, at)
      PROVE  DirectoryInv'
  BY <1>2, AskKeeps
<1>3. ASSUME NEW c \in Calls, Search(c) PROVE DirectoryInv'
  BY <1>3, AnswerStoredKeeps, GotoKeeps DEF Search
<1>4. ASSUME NEW c \in Calls, Insert(c) PROVE DirectoryInv'
  BY <1>4, InsertKeeps
<1>5. ASSUME NEW c \in Calls, Recover(c) PROVE DirectoryInv'
  BY <1>5, AnswerStoredKeeps DEF Recover
<1>6. ASSUME NEW c \in Calls, GiveUp(c) PROVE DirectoryInv'
  BY <1>6, FailKeeps DEF GiveUp
<1>7. ASSUME NEW chat \in chats, NEW at \in Times, Touch(chat, at) PROVE DirectoryInv'
  BY <1>7, TouchKeeps
<1>8. ASSUME NEW r \in Readers, NEW limit \in 1..MaxPageSize,
             ListMoreChats(r, limit) \/ ListMoreUsers(r, limit)
      PROVE  DirectoryInv'
  BY <1>8, NextPageKeeps DEF ListMoreChats, ListMoreUsers
<1>9. ASSUME NEW r \in Readers, NEW page \in {1, 2}, NEW limit \in 1..(MaxPageSize + 1),
             (\E who \in UserIds : ListChats(r, who, page, limit)) \/ ListUsers(r, page, limit)
      PROVE  DirectoryInv'
  BY <1>9, FirstPageKeeps DEF ListChats, ListUsers
<1>10. CASE UNCHANGED directoryVars
  BY <1>10 DEF directoryVars, DirectoryInv, DirectoryTypes, CallsAreSound, UnderWay, Answered, ChatsAreSound,
               Restorable, OneChatPerPair, SameTwo, WalksAreSound
<1> QED
  BY <1>1, <1>2, <1>3, <1>4, <1>5, <1>6, <1>7, <1>8, <1>9, <1>10 DEF DirectoryNext

\* Everything the directory relies on holds in every state of every behaviour.
THEOREM DirectoryInvariant == DirectorySpec => []DirectoryInv
<1>1. DirectoryInit => DirectoryInv
  BY DirectoryInitially
<1>2. DirectoryInv /\ [DirectoryNext]_directoryVars => DirectoryInv'
  BY DirectoryInductive
<1> QED
  BY <1>1, <1>2, PTL DEF DirectorySpec

\* However many calls for two users meet, in whatever order of their steps, one chat is
\* stored for the two and named by every answer, and one call at most created it
\* (get_or_create.go:54).
THEOREM OneChat == DirectorySpec => []OneChatPerPair
<1>1. DirectoryInv => OneChatPerPair
  BY DEF DirectoryInv
<1> QED
  BY <1>1, DirectoryInvariant, PTL

\* No list is refused that was asked for well and followed as it was answered: every
\* chat that is stored can be restored, from whichever clocks its times came
\* (chat_repository/list.go:41, domain/chat/chat.go:72).
THEOREM NoListFails ==
  DirectorySpec => [](\A r \in Readers : RefusedWithCause(listing[r]))
<1>1. DirectoryInv => \A r \in Readers : RefusedWithCause(listing[r])
  BY DEF DirectoryInv, WalksAreSound
<1> QED
  BY <1>1, DirectoryInvariant, PTL

-----------------------------------------------------------------------------
(* The lists: what every reader of one has got so far.                     *)

(* They take the entries E as a parameter, so that they can be compared    *)
(* before and after a step.                                                *)

\* The entries of a list, of the users U and the chats C.
EntriesIn(U, C, who) ==
  IF Given(who) THEN {[id |-> x.id, at |-> x.at] : x \in {y \in C : who \in {y.one, y.two}}} ELSE U

IdsDiffer(E) == \A x, y \in E : x.id = y.id => x = y

Listable(E) == E \subseteq Entry /\ IsFiniteSet(E) /\ IdsDiffer(E)

\* An entry that was shown, or that was there when the reader began, is in its list, and
\* may have moved only to where the reader has already been.
OnlyMovesAhead(w, E) ==
  \A x \in Got(w) \union w.existing :
    /\ \E y \in E : y.id = x.id
    /\ \A y \in E : y.id = x.id => y = x \/ Precedes(w.who, y, x)

\* Everything up to the cursor was shown, unless it came or moved there since.
UpToCursor(w, E) ==
  Given(w.next) =>
    /\ w.next \in Got(w)
    /\ \A x \in Got(w) : x = w.next \/ Precedes(w.who, x, w.next)
    /\ \A x \in w.existing \intersect E : x \in Got(w) \/ Precedes(w.who, w.next, x)

ShowsAll(w, E) == Finished(w) => w.existing \intersect E \subseteq Got(w)

ListIsSound(w, E) ==
  /\ w.existing \subseteq Entry
  /\ OnlyMovesAhead(w, E) /\ UpToCursor(w, E) /\ NoEntryTwice(w) /\ ShowsAll(w, E)

InFlight(c) == calls[c].phase \in {"searching", "inserting", "duplicate"}

\* An id names one account, one chat, or a chat that one call may still insert.
StoredOnce(U, C) == IsFiniteSet(U) /\ IsFiniteSet(C) /\ IdsDiffer(U) /\ IdsDiffer(C)

IdsAreFresh ==
  \A c \in Calls : InFlight(c) =>
    /\ \A x \in chats : x.id # calls[c].id
    /\ \A d \in Calls : InFlight(d) /\ calls[d].id = calls[c].id => d = c

ListsAreSound ==
  \A r \in Readers : ListIsSound(listing[r], EntriesIn(users, chats, listing[r].who))

ListsInv == StoredOnce(users, chats) /\ IdsAreFresh /\ ListsAreSound

-----------------------------------------------------------------------------
\* Chats newest first and users oldest first are both orders, of whatever has a time
\* and an id.
LEMMA ListsHaveAnOrder ==
  ASSUME NEW who
  PROVE  /\ \A x \in Entry : ~Precedes(who, x, x)
         /\ \A x, y, z \in Entry :
              Precedes(who, x, y) /\ Precedes(who, y, z) => Precedes(who, x, z)
         /\ \A x, y \in Entry : Precedes(who, x, y) \/ Precedes(who, y, x) \/ x = y
<1>1. \A x \in Entry : x.at \in Nat /\ x.id \in Nat
  BY PagingAssumption DEF Entry
<1>2. \A x, y \in Entry : x.at = y.at /\ x.id = y.id => x = y
  BY DEF Entry
<1>3. /\ \A x \in Entry : ~NewestFirst(x, x)
      /\ \A x, y, z \in Entry : NewestFirst(x, y) /\ NewestFirst(y, z) => NewestFirst(x, z)
      /\ \A x, y \in Entry : NewestFirst(x, y) \/ NewestFirst(y, x) \/ (x.at = y.at /\ x.id = y.id)
  BY <1>1, NewestFirstIsOrder
<1>4. CASE Given(who)
  <2>1. \A x, y : Precedes(who, x, y) <=> NewestFirst(x, y)
    BY <1>4 DEF Precedes
  <2> QED
    BY <1>2, <1>3, <2>1
<1>5. CASE ~Given(who)
  <2>1. \A x, y : Precedes(who, x, y) <=> NewestFirst(y, x)
    BY <1>5 DEF Precedes, OldestFirst
  <2> QED
    BY <1>2, <1>3, <2>1
<1> QED
  BY <1>4, <1>5

\* Page and LastOf, in the order of a list.
ListPage(who, S, n) == {x \in S : Cardinality({y \in S : Precedes(who, y, x)}) < n}

LastListed(who, P) == CHOOSE x \in P : \A y \in P : y = x \/ Precedes(who, y, x)

\* The page of a list.
LEMMA PageOfList ==
  ASSUME NEW S, IsFiniteSet(S), S \subseteq Entry, NEW who, NEW n \in Nat \ {0}
  PROVE  /\ ListPage(who, S, n) \subseteq S
         /\ \A x \in ListPage(who, S, n), y \in S : Precedes(who, y, x) => y \in ListPage(who, S, n)
         /\ ~HasNext(S, n) => ListPage(who, S, n) = S
         /\ HasNext(S, n) =>
              /\ LastListed(who, ListPage(who, S, n)) \in ListPage(who, S, n)
              /\ \A y \in ListPage(who, S, n) :
                   \/ y = LastListed(who, ListPage(who, S, n))
                   \/ Precedes(who, y, LastListed(who, ListPage(who, S, n)))
<1> DEFINE R == {p \in S \X S : Precedes(who, p[1], p[2])}
<1>1. \A x, y \in S : <<x, y>> \in R <=> Precedes(who, x, y)
  OBVIOUS
<1>2. \A x \in S : Below(S, R, x) = {y \in S : Precedes(who, y, x)}
  BY <1>1 DEF Below
<1> HIDE DEF R
<1>3. ListPage(who, S, n) = FirstOf(S, R, n)
  BY <1>2 DEF FirstOf, ListPage
<1>4. StrictOrder(R, S)
  BY <1>1, ListsHaveAnOrder DEF StrictOrder
<1> DEFINE P == FirstOf(S, R, n)
<1>5. P \subseteq S
  BY DEF FirstOf
<1>6. /\ \A x \in P, y \in S : <<y, x>> \in R => y \in P
      /\ ~HasNext(S, n) => P = S
      /\ HasNext(S, n) => \E x \in P : IsLast(x, P, R)
  BY <1>4, PageIsPrefix
<1> HIDE DEF P
<1>7. \A x \in P, y \in S : Precedes(who, y, x) => y \in P
  BY <1>1, <1>5, <1>6
<1>8. ASSUME HasNext(S, n)
      PROVE  /\ LastListed(who, P) \in P
             /\ \A y \in P : y = LastListed(who, P) \/ Precedes(who, y, LastListed(who, P))
  <2>1. \E x \in P : \A y \in P : y = x \/ Precedes(who, y, x)
    BY <1>1, <1>5, <1>6, <1>8 DEF IsLast
  <2> QED
    BY <2>1 DEF LastListed
<1> QED
  BY <1>3, <1>5, <1>6, <1>7, <1>8 DEF P

\* What is stored once is listed once.
LEMMA EntriesAreListable ==
  ASSUME NEW U, NEW C, U \subseteq [id : UserIds, at : Times], C \subseteq ChatDocument,
         StoredOnce(U, C), NEW who
  PROVE  Listable(EntriesIn(U, C, who))
<1>1. UserIds \subseteq Nat
  BY DirectoryAssumption DEF UserIds
<1>2. CASE Given(who)
  <2> DEFINE D == {y \in C : who \in {y.one, y.two}}
             E == {[id |-> x.id, at |-> x.at] : x \in D}
             f == [x \in D |-> [id |-> x.id, at |-> x.at]]
  <2>1. EntriesIn(U, C, who) = E
    BY <1>2 DEF EntriesIn
  <2>2. IsFiniteSet(D)
    BY FS_Subset DEF StoredOnce
  <2>3. f \in Surjection(D, E)
    BY DEF Surjection
  <2>4. IsFiniteSet(E)
    BY <2>2, <2>3, FS_Surjection
  <2>5. E \subseteq Entry
    BY DEF ChatDocument, Entry
  <2>6. IdsDiffer(E)
    BY DEF StoredOnce, IdsDiffer
  <2> QED
    BY <2>1, <2>4, <2>5, <2>6 DEF Listable
<1>3. CASE ~Given(who)
  BY <1>1, <1>3 DEF EntriesIn, StoredOnce, Listable, Entry
<1> QED
  BY <1>2, <1>3

\* F is the list E after a step, as a reader that pages it may find it.
MovedAhead(who, E, F) ==
  \A x \in E : \E y \in F : y.id = x.id /\ (y = x \/ Precedes(who, y, x))

\* A list stays sound when entries come anywhere and move ahead.
LEMMA ListsLast ==
  ASSUME NEW w, NEW E, NEW F, Listable(E), Listable(F), ListWalk(w), ListIsSound(w, E),
         MovedAhead(w.who, E, F)
  PROVE  ListIsSound(w, F)
<1> DEFINE Known == Got(w) \union w.existing
           who == w.who
<1>1. E \subseteq Entry /\ F \subseteq Entry /\ IdsDiffer(E) /\ IdsDiffer(F)
  BY DEF Listable
<1>2. Known \subseteq Entry
  <2>1. w.pages \in Seq(SUBSET Entry)
    BY DEF ListWalk
  <2> QED
    BY <2>1 DEF Got, ListIsSound
<1>3. \A x \in Known : /\ \E y \in E : y.id = x.id
                       /\ \A y \in E : y.id = x.id => y = x \/ Precedes(who, y, x)
  BY DEF ListIsSound, OnlyMovesAhead
<1>4. \A x \in E : \E y \in F : y.id = x.id /\ (y = x \/ Precedes(who, y, x))
  BY DEF MovedAhead
<1> HIDE DEF Known, who
<1>5. ASSUME NEW x \in Known
      PROVE  \E z \in F, y \in E : /\ y.id = x.id /\ z.id = x.id
                                   /\ y = x \/ Precedes(who, y, x)
                                   /\ z = y \/ Precedes(who, z, y)
                                   /\ z = x \/ Precedes(who, z, x)
  <2>1. PICK y \in E : y.id = x.id /\ (y = x \/ Precedes(who, y, x))
    BY <1>3
  <2>2. PICK z \in F : z.id = y.id /\ (z = y \/ Precedes(who, z, y))
    BY <1>4
  <2>3. x \in Entry /\ y \in Entry /\ z \in Entry
    BY <1>1, <1>2
  <2>4. z = x \/ Precedes(who, z, x)
    BY <2>1, <2>2, <2>3, ListsHaveAnOrder
  <2> QED
    BY <2>1, <2>2, <2>4
<1>6. \A x \in Known : /\ \E z \in F : z.id = x.id
                       /\ \A z \in F : z.id = x.id => z = x \/ Precedes(who, z, x)
  <2> SUFFICES ASSUME NEW x \in Known
               PROVE  /\ \E z \in F : z.id = x.id
                      /\ \A z \in F : z.id = x.id => z = x \/ Precedes(who, z, x)
    OBVIOUS
  <2>1. PICK z \in F : z.id = x.id /\ (z = x \/ Precedes(who, z, x))
    BY <1>5
  <2> QED
    BY <1>1, <2>1 DEF IdsDiffer
<1>7. ASSUME NEW x \in Known, x \in F PROVE x \in E
  <2>1. PICK z \in F, y \in E : /\ y.id = x.id /\ z.id = x.id
                                /\ y = x \/ Precedes(who, y, x)
                                /\ z = y \/ Precedes(who, z, y)
    BY <1>5
  <2>2. z = x
    BY <1>1, <1>7, <2>1 DEF IdsDiffer
  <2>3. x \in Entry /\ y \in Entry
    BY <1>1, <1>2
  <2>4. ~(Precedes(who, y, x) /\ Precedes(who, x, y))
    BY <2>3, ListsHaveAnOrder
  <2> QED
    BY <2>1, <2>2, <2>4
<1>8. w.existing \intersect F \subseteq w.existing \intersect E
  BY <1>7 DEF Known
<1>9. OnlyMovesAhead(w, F)
  BY <1>6 DEF OnlyMovesAhead, Known, who
<1>10. UpToCursor(w, F) /\ ShowsAll(w, F)
  BY <1>8 DEF ListIsSound, UpToCursor, ShowsAll
<1> QED
  BY <1>9, <1>10 DEF ListIsSound

-----------------------------------------------------------------------------
(* The answers.                                                            *)

\* The entries that are still to be shown.
After(E, who, cursor) == {x \in E : Given(cursor) => Precedes(who, cursor, x)}

NextCursor(who, S, limit) ==
  IF HasNext(S, limit) THEN LastListed(who, ListPage(who, S, limit)) ELSE None

\* v is the listing w with one more page, or refused.
MoreListed(v, w, page, next) ==
  /\ v.who = w.who /\ v.existing = w.existing /\ v.refused = w.refused
  /\ v.pages = Append(w.pages, page) /\ v.next = next

NothingListed(v, w) ==
  /\ v.who = w.who /\ v.existing = w.existing /\ v.refused = TRUE
  /\ v.pages = w.pages /\ v.next = None

\* The answer to a page, in the operators above.
LEMMA ListingAnswered ==
  ASSUME NEW w, ListWalk(w), NEW page, NEW cursor, NEW limit
  PROVE  LET v == Listed(w, page, cursor, limit)
             S == After(EntriesIn(users, chats, w.who), w.who, cursor)
         IN \/ NothingListed(v, w)
            \/ /\ Acceptable(page, cursor, limit)
               /\ MoreListed(v, w, ListPage(w.who, S, limit), NextCursor(w.who, S, limit))
<1> DEFINE S == After(EntriesIn(users, chats, w.who), w.who, cursor)
           shown == ListPage(w.who, S, limit)
           next == NextCursor(w.who, S, limit)
           readable == Readable(w.who, ListPage(w.who, S, limit + 1))
           v == Listed(w, page, cursor, limit)
<1>1. Entries(w.who) = EntriesIn(users, chats, w.who)
  BY DEF Entries, ChatEntries, ChatsOf, UserEntries, EntriesIn
<1>2. v = IF Acceptable(page, cursor, limit) /\ readable
          THEN [w EXCEPT !.pages = Append(@, shown), !.next = next]
          ELSE [w EXCEPT !.refused = TRUE, !.next = None]
  BY <1>1 DEF Listed, Page, ListPage, LastOf, LastListed, NextCursor, AfterCursor, After
<1> HIDE DEF shown, next, readable, v
<1>3. CASE Acceptable(page, cursor, limit) /\ readable
  <2>1. v = [w EXCEPT !.pages = Append(w.pages, shown), !.next = next]
    BY <1>2, <1>3
  <2>2. MoreListed(v, w, shown, next)
    BY <2>1 DEF ListWalk, MoreListed
  <2> QED
    BY <1>3, <2>2 DEF shown, next, v
<1>4. CASE ~(Acceptable(page, cursor, limit) /\ readable)
  <2>1. v = [w EXCEPT !.refused = TRUE, !.next = None]
    BY <1>2, <1>4
  <2>2. NothingListed(v, w)
    BY <2>1 DEF ListWalk, NothingListed
  <2> QED
    BY <2>2 DEF v
<1> QED
  BY <1>3, <1>4

\* One more page of a list: what it shows was not shown before, and it goes on from the
\* last of it.
LEMMA ListGoesOn ==
  ASSUME NEW w, NEW E, Listable(E), ListWalk(w), ListIsSound(w, E), NEW limit \in Nat \ {0},
         NEW cursor, Given(cursor) => cursor = w.next,
         ~Given(cursor) => w.pages = <<>> /\ w.existing = E,
         NEW v, MoreListed(v, w, ListPage(w.who, After(E, w.who, cursor), limit),
                              NextCursor(w.who, After(E, w.who, cursor), limit))
  PROVE  ListIsSound(v, E)
<1> DEFINE who == w.who
           S == After(E, who, cursor)
           shown == ListPage(who, S, limit)
           last == LastListed(who, shown)
<1>1. /\ v.who = who /\ v.existing = w.existing /\ v.refused = w.refused
      /\ v.pages = Append(w.pages, shown)
      /\ v.next = IF HasNext(S, limit) THEN last ELSE None
  BY DEF MoreListed, NextCursor
<1>2. /\ E \subseteq Entry /\ IdsDiffer(E) /\ S \subseteq E /\ IsFiniteSet(S)
      /\ \A x \in E : x \in S <=> (Given(cursor) => Precedes(who, cursor, x))
  BY FS_Subset DEF Listable, After
<1> HIDE DEF S
<1>3. /\ shown \subseteq S
      /\ \A x \in shown, y \in S : Precedes(who, y, x) => y \in shown
      /\ ~HasNext(S, limit) => shown = S
      /\ HasNext(S, limit) => /\ last \in shown
                              /\ \A y \in shown : y = last \/ Precedes(who, y, last)
  <2>1. S \subseteq Entry
    BY <1>2
  <2> HIDE DEF who
  <2> QED
    BY <1>2, <2>1, PageOfList
<1> HIDE DEF shown, last
<1>4. w.pages \in Seq(SUBSET Entry) /\ w.existing \subseteq Entry
  BY DEF ListWalk, ListIsSound
<1>5. shown \in SUBSET Entry /\ Got(w) \subseteq Entry
  BY <1>2, <1>3, <1>4 DEF Got
<1>6. /\ Len(w.pages) \in Nat /\ Len(v.pages) = Len(w.pages) + 1
      /\ v.pages[Len(w.pages) + 1] = shown
      /\ \A i \in 1..Len(w.pages) : v.pages[i] = w.pages[i]
  BY <1>1, <1>4, <1>5
<1>7. Got(v) = Got(w) \union shown
  <2>1. 1..(Len(w.pages) + 1) = (1..Len(w.pages)) \union {Len(w.pages) + 1}
    BY <1>6
  <2> QED
    BY <1>6, <2>1 DEF Got
<1>8. ~Given(cursor) => Got(w) = {}
  <2>1. ASSUME w.pages = <<>> PROVE Got(w) = {}
    BY <2>1 DEF Got
  <2> QED
    BY <2>1
<1>9. Given(cursor) =>
        /\ cursor \in Got(w)
        /\ \A x \in Got(w) : x = cursor \/ Precedes(who, x, cursor)
        /\ \A x \in w.existing \intersect E : x \in Got(w) \/ Precedes(who, cursor, x)
  BY DEF ListIsSound, UpToCursor
<1>10. \A x \in Got(w) \union w.existing :
         /\ \E y \in E : y.id = x.id
         /\ \A y \in E : y.id = x.id => y = x \/ Precedes(who, y, x)
  BY DEF ListIsSound, OnlyMovesAhead
<1> HIDE DEF who
<1>11. \A x \in Got(w), y \in shown : x.id # y.id
  <2> SUFFICES ASSUME NEW x \in Got(w), NEW y \in shown, y.id = x.id PROVE FALSE
    BY <1>3
  <2>1. Given(cursor) /\ cursor \in Entry /\ x \in Entry /\ y \in Entry /\ y \in E
    BY <1>2, <1>3, <1>5, <1>8, <1>9
  <2>2. Precedes(who, cursor, y)
    BY <1>2, <1>3, <2>1
  <2>3. y = x \/ Precedes(who, y, x)
    BY <1>10, <2>1
  <2>4. x = cursor \/ Precedes(who, x, cursor)
    BY <1>9, <2>1
  <2>5. y = cursor \/ Precedes(who, y, cursor)
    BY <2>1, <2>3, <2>4, ListsHaveAnOrder
  <2> QED
    BY <2>1, <2>2, <2>5, ListsHaveAnOrder
<1>12. NoEntryTwice(v)
  <2> SUFFICES ASSUME NEW i \in 1..Len(v.pages), NEW j \in 1..Len(v.pages), i # j,
                      NEW x \in v.pages[i], NEW y \in v.pages[j], x.id = y.id
               PROVE  FALSE
    BY DEF NoEntryTwice
  <2>1. \A k \in 1..Len(v.pages) : k \in 1..Len(w.pages) \/ k = Len(w.pages) + 1
    BY <1>6
  <2>2. \A k \in 1..Len(w.pages) : \A z \in w.pages[k] : z \in Got(w)
    BY DEF Got
  <2>3. CASE i \in 1..Len(w.pages) /\ j \in 1..Len(w.pages)
    <3>1. x \in w.pages[i] /\ y \in w.pages[j]
      BY <1>6, <2>3
    <3>2. {z.id : z \in w.pages[i]} \intersect {z.id : z \in w.pages[j]} = {}
      BY <2>3 DEF ListIsSound, NoEntryTwice
    <3>3. x.id \in {z.id : z \in w.pages[i]} /\ y.id \in {z.id : z \in w.pages[j]}
      BY <3>1
    <3> QED
      BY <3>2, <3>3
  <2>4. CASE i \in 1..Len(w.pages) /\ j = Len(w.pages) + 1
    BY <1>6, <1>11, <2>2, <2>4
  <2>5. CASE i = Len(w.pages) + 1 /\ j \in 1..Len(w.pages)
    BY <1>6, <1>11, <2>2, <2>5
  <2> QED
    BY <2>1, <2>3, <2>4, <2>5
<1>13. OnlyMovesAhead(v, E)
  <2> SUFFICES ASSUME NEW x \in Got(v) \union v.existing
               PROVE  /\ \E y \in E : y.id = x.id
                      /\ \A y \in E : y.id = x.id => y = x \/ Precedes(who, y, x)
    BY <1>1 DEF OnlyMovesAhead
  <2>1. CASE x \in Got(w) \union w.existing
    BY <1>10, <2>1
  <2>2. CASE x \in shown
    BY <1>2, <1>3, <2>2 DEF IdsDiffer
  <2> QED
    BY <1>1, <1>7, <2>1, <2>2
<1>14. \A x \in v.existing \intersect E : x \in Got(w) \/ x \in S
  BY <1>1, <1>2, <1>9
<1>15. UpToCursor(v, E)
  <2> SUFFICES ASSUME HasNext(S, limit)
               PROVE  /\ last \in Got(v)
                      /\ \A x \in Got(v) : x = last \/ Precedes(who, x, last)
                      /\ \A x \in v.existing \intersect E : x \in Got(v) \/ Precedes(who, last, x)
    BY <1>1 DEF UpToCursor, Given
  <2>1. last \in shown /\ last \in S /\ last \in E /\ last \in Entry
    BY <1>2, <1>3
  <2>2. ASSUME NEW x \in Got(v) PROVE x = last \/ Precedes(who, x, last)
    <3>1. CASE x \in shown
      BY <1>3, <3>1
    <3>2. CASE x \in Got(w)
      <4>1. Given(cursor) /\ cursor \in Entry /\ x \in Entry /\ Precedes(who, cursor, last)
            /\ (x = cursor \/ Precedes(who, x, cursor))
        BY <1>2, <1>5, <1>8, <1>9, <2>1, <3>2
      <4> QED
        BY <2>1, <4>1, ListsHaveAnOrder
    <3> QED
      BY <1>7, <3>1, <3>2
  <2>3. ASSUME NEW x \in v.existing \intersect E PROVE x \in Got(v) \/ Precedes(who, last, x)
    <3>1. CASE x \in S
      <4>1. x = last \/ Precedes(who, x, last) \/ Precedes(who, last, x)
        BY <1>2, <2>1, <3>1, ListsHaveAnOrder
      <4> QED
        BY <1>3, <1>7, <2>1, <3>1, <4>1
    <3> QED
      BY <1>7, <1>14, <3>1
  <2> QED
    BY <1>7, <2>1, <2>2, <2>3
<1>16. ShowsAll(v, E)
  <2>1. HasNext(S, limit) => Given(v.next)
    <3>1. HasNext(S, limit) => v.next \in Entry
      BY <1>1, <1>3, <1>5
    <3> QED
      BY <3>1, DirectoryAssumption DEF Given, Entry
  <2>2. ~HasNext(S, limit) => v.existing \intersect E \subseteq Got(v)
    BY <1>3, <1>7, <1>14
  <2> QED
    BY <2>1, <2>2 DEF ShowsAll, Finished
<1> QED
  BY <1>1, <1>4, <1>12, <1>13, <1>15, <1>16 DEF ListIsSound

\* A refusal shows nothing.
LEMMA RefusalIsSound ==
  ASSUME NEW w, NEW E, ListIsSound(w, E), NEW v, NothingListed(v, w)
  PROVE  ListIsSound(v, E)
<1>1. /\ v.who = w.who /\ v.existing = w.existing /\ v.refused /\ v.pages = w.pages
      /\ ~Given(v.next)
  BY DEF NothingListed, Given
<1>2. Got(v) = Got(w) /\ NoEntryTwice(v)
  BY <1>1 DEF Got, ListIsSound, NoEntryTwice
<1>3. OnlyMovesAhead(v, E)
  BY <1>1, <1>2 DEF ListIsSound, OnlyMovesAhead
<1> QED
  BY <1>1, <1>2, <1>3 DEF ListIsSound, UpToCursor, ShowsAll, Finished

-----------------------------------------------------------------------------
(* The steps.                                                              *)

\* Whatever is written, the lists last if every one has only moved ahead.
LEMMA WritesKeepLists ==
  ASSUME DirectoryInv, ListsInv, DirectoryInv', StoredOnce(users', chats'), IdsAreFresh',
         UNCHANGED listing,
         \A r \in Readers :
           LET who == listing[r].who
           IN MovedAhead(who, EntriesIn(users, chats, who), EntriesIn(users', chats', who))
  PROVE  ListsInv'
<1>1. /\ users \subseteq [id : UserIds, at : Times] /\ chats \subseteq ChatDocument
      /\ users' \subseteq [id : UserIds, at : Times] /\ chats' \subseteq ChatDocument
      /\ \A r \in Readers : ListWalk(listing[r])
  BY DEF DirectoryInv, DirectoryTypes
<1>2. ASSUME NEW r \in Readers
      PROVE  ListIsSound(listing[r], EntriesIn(users', chats', listing[r].who))
  <2> DEFINE who == listing[r].who
             E == EntriesIn(users, chats, who)
             F == EntriesIn(users', chats', who)
  <2>1. Listable(E) /\ Listable(F)
    BY <1>1, EntriesAreListable DEF ListsInv
  <2>2. ListIsSound(listing[r], E) /\ ListWalk(listing[r]) /\ MovedAhead(who, E, F)
    BY <1>1 DEF ListsInv, ListsAreSound
  <2> HIDE DEF E, F
  <2>3. ListIsSound(listing[r], F)
    BY <2>1, <2>2, ListsLast
  <2> QED
    BY <2>3 DEF F
<1>3. ListsAreSound'
  BY <1>2 DEF ListsAreSound
<1> QED
  BY <1>3 DEF ListsInv

\* What is only added to moves nothing.
LEMMA AddedIsAhead ==
  ASSUME NEW U, NEW C, NEW V, NEW D, U \subseteq V, C \subseteq D, NEW who
  PROVE  MovedAhead(who, EntriesIn(U, C, who), EntriesIn(V, D, who))
BY DEF MovedAhead, EntriesIn

\* A user who comes later is in no page yet.
LEMMA SignUpKeepsLists ==
  ASSUME DirectoryInv, ListsInv, DirectoryInv', NEW id \in UserIds, NEW at \in Times, SignUp(id, at)
  PROVE  ListsInv'
<1> DEFINE account == [id |-> id, at |-> at]
<1>1. /\ \A u \in users : u.id # id
      /\ users' = users \union {account} /\ UNCHANGED <<chats, calls, listing>>
  BY DEF SignUp, InsertAccount, HasAccount
<1>2. account.id = id
  OBVIOUS
<1> HIDE DEF account
<1>3. IsFiniteSet(users')
  BY <1>1, FS_AddElement DEF ListsInv, StoredOnce
<1>4. IdsDiffer(users')
  BY <1>1, <1>2 DEF ListsInv, StoredOnce, IdsDiffer
<1>5. StoredOnce(users', chats')
  BY <1>1, <1>3, <1>4 DEF ListsInv, StoredOnce
<1>6. IdsAreFresh'
  BY <1>1 DEF ListsInv, IdsAreFresh, InFlight
<1>7. ASSUME NEW r \in Readers
      PROVE  LET who == listing[r].who
             IN MovedAhead(who, EntriesIn(users, chats, who), EntriesIn(users', chats', who))
  BY <1>1, AddedIsAhead
<1> QED
  BY <1>1, <1>5, <1>6, <1>7, WritesKeepLists

\* What a call does: it inserts its chat, and is over, or goes on with its id.
LEMMA CallStepsKeepLists ==
  ASSUME DirectoryInv, ListsInv, DirectoryInv', NEW c \in Calls, NEW v,
         calls' = [calls EXCEPT ![c] = v], UNCHANGED <<users, listing>>,
         \/ chats' = chats
         \/ /\ chats' = chats \union {Candidate(c)} /\ InFlight(c)
            /\ v.phase \notin {"searching", "inserting", "duplicate"},
         v.phase \in {"searching", "inserting", "duplicate"} =>
           \/ InFlight(c) /\ v.id = calls[c].id
           \/ /\ \A x \in chats : x.id # v.id
              /\ \A d \in Calls : calls[d].id # v.id
  PROVE  ListsInv'
<1>1. calls'[c] = v /\ \A d \in Calls \ {c} : calls'[d] = calls[d]
  BY DEF DirectoryInv, DirectoryTypes
<1>2. Candidate(c).id = calls[c].id
  BY DEF Candidate
<1>3. InFlight(c) => \A x \in chats : x.id # calls[c].id
  BY DEF ListsInv, IdsAreFresh
<1>4. StoredOnce(users', chats')
  <2>1. CASE chats' = chats
    BY <2>1 DEF ListsInv
  <2>2. CASE chats' = chats \union {Candidate(c)} /\ InFlight(c)
    <3>1. IsFiniteSet(chats')
      BY <2>2, FS_AddElement DEF ListsInv, StoredOnce
    <3>2. IdsDiffer(chats')
      BY <1>2, <1>3, <2>2 DEF ListsInv, StoredOnce, IdsDiffer
    <3> QED
      BY <3>1, <3>2 DEF ListsInv, StoredOnce
  <2> QED
    BY <2>1, <2>2
<1>5. ASSUME NEW d \in Calls, InFlight(d)' PROVE \A x \in chats' : x.id # calls'[d].id
  <2>1. CASE d = c
    <3>1. v.phase \in {"searching", "inserting", "duplicate"} /\ chats' = chats
      BY <1>1, <1>5, <2>1 DEF InFlight
    <3> QED
      BY <1>1, <1>3, <2>1, <3>1
  <2>2. CASE d # c
    <3>1. InFlight(d) /\ calls'[d] = calls[d]
      BY <1>1, <1>5, <2>2 DEF InFlight
    <3>2. \A x \in chats : x.id # calls[d].id
      BY <3>1 DEF ListsInv, IdsAreFresh
    <3>3. InFlight(c) => calls[c].id # calls[d].id
      BY <2>2, <3>1 DEF ListsInv, IdsAreFresh
    <3> QED
      BY <1>2, <3>1, <3>2, <3>3
  <2> QED
    BY <2>1, <2>2
<1>6. ASSUME NEW d \in Calls, NEW e \in Calls, InFlight(d)', InFlight(e)', calls'[e].id = calls'[d].id
      PROVE  e = d
  <2>1. \A b \in Calls \ {c} : InFlight(b)' => InFlight(b) /\ calls'[b].id = calls[b].id
    BY <1>1 DEF InFlight
  <2>2. \A b \in Calls \ {c} : InFlight(b) => ~(InFlight(c) /\ calls[c].id = calls[b].id)
    BY DEF ListsInv, IdsAreFresh
  <2>3. ASSUME NEW b \in Calls \ {c}, InFlight(c)', InFlight(b)' PROVE calls'[b].id # calls'[c].id
    BY <1>1, <2>1, <2>2, <2>3 DEF InFlight
  <2>4. CASE d = c \/ e = c
    BY <1>6, <2>3, <2>4
  <2>5. CASE d # c /\ e # c
    BY <1>6, <2>1, <2>5 DEF ListsInv, IdsAreFresh
  <2> QED
    BY <2>4, <2>5
<1>7. IdsAreFresh'
  BY <1>5, <1>6 DEF IdsAreFresh
<1>8. ASSUME NEW r \in Readers
      PROVE  LET who == listing[r].who
             IN MovedAhead(who, EntriesIn(users, chats, who), EntriesIn(users', chats', who))
  BY AddedIsAhead
<1> QED
  BY <1>4, <1>7, <1>8, WritesKeepLists

\* A call goes on with its id.
LEMMA GotoKeepsLists ==
  ASSUME DirectoryInv, ListsInv, DirectoryInv', NEW c \in Calls, InFlight(c), NEW to, Goto(c, to)
  PROVE  ListsInv'
<1> DEFINE v == [calls[c] EXCEPT !.phase = to]
<1>1. calls[c] \in Call
  BY DEF DirectoryInv, DirectoryTypes
<1>2. v.id = calls[c].id
  BY <1>1 DEF Call
<1>3. calls' = [calls EXCEPT ![c] = v] /\ UNCHANGED <<users, chats, listing>>
  BY DEF Goto
<1> HIDE DEF v
<1> QED
  BY <1>2, <1>3, CallStepsKeepLists

\* A call that fails may leave its chat.
LEMMA FailKeepsLists ==
  ASSUME DirectoryInv, ListsInv, DirectoryInv', NEW c \in Calls, InFlight(c), Fail(c),
         chats' = chats \/ chats' = chats \union {Candidate(c)}
  PROVE  ListsInv'
<1> DEFINE v == [NoCall EXCEPT !.phase = "failed"]
<1>1. v.phase = "failed"
  BY DEF NoCall
<1>2. calls' = [calls EXCEPT ![c] = v] /\ UNCHANGED <<users, listing>>
  BY DEF Fail
<1> HIDE DEF v
<1> QED
  BY <1>1, <1>2, CallStepsKeepLists

\* A call that is answered from what is stored is over.
LEMMA AnswerStoredKeepsLists ==
  ASSUME DirectoryInv, ListsInv, DirectoryInv', NEW c \in Calls, InFlight(c), AnswerStored(c)
  PROVE  ListsInv'
<1>1. PICK chat \in Stored(c) :
        IF Restorable(chat)
        THEN /\ calls' = [calls EXCEPT ![c].phase = "answered", ![c].id = chat.id, ![c].at = 0]
             /\ UNCHANGED <<users, chats, listing>>
        ELSE Fail(c) /\ UNCHANGED chats
  BY DEF AnswerStored
<1>2. CASE Restorable(chat)
  <2> DEFINE v == [calls[c] EXCEPT !.phase = "answered", !.id = chat.id, !.at = 0]
  <2>1. calls[c] \in Call
    BY DEF DirectoryInv, DirectoryTypes
  <2>2. v.phase = "answered"
    BY <2>1 DEF Call
  <2>3. calls' = [calls EXCEPT ![c] = v] /\ UNCHANGED <<users, chats, listing>>
    BY <1>1, <1>2
  <2> HIDE DEF v
  <2> QED
    BY <2>2, <2>3, CallStepsKeepLists
<1>3. CASE ~Restorable(chat)
  BY <1>1, <1>3, FailKeepsLists
<1> QED
  BY <1>2, <1>3

\* A call gets an id that nothing has.
LEMMA AskKeepsLists ==
  ASSUME DirectoryInv, ListsInv, DirectoryInv', NEW c \in Calls, NEW current, NEW related,
         NEW id, NEW at, Ask(c, current, related, id, at)
  PROVE  ListsInv'
<1> DEFINE v == [NoCall EXCEPT !.phase = "searching", !.current = current,
                               !.related = related, !.id = id, !.at = at]
<1>1. v.id = id
  BY DEF NoCall
<1>2. calls' = [calls EXCEPT ![c] = v] /\ UNCHANGED <<users, chats, listing>>
  BY DEF Ask
<1>3. (\A x \in chats : x.id # id) /\ \A d \in Calls : calls[d].id # id
  BY DEF Ask
<1> HIDE DEF v
<1> QED
  BY <1>1, <1>2, <1>3, CallStepsKeepLists

\* A call that inserts its chat is over.
LEMMA InsertKeepsLists ==
  ASSUME DirectoryInv, ListsInv, DirectoryInv', NEW c \in Calls, Insert(c)
  PROVE  ListsInv'
<1>1. InFlight(c)
  BY DEF Insert, InFlight
<1>2. CASE Stored(c) # {}
  BY <1>1, <1>2, GotoKeepsLists DEF Insert
<1>3. CASE Stored(c) = {}
  <2> DEFINE v == [calls[c] EXCEPT !.phase = "answered", !.at = 0, !.created = TRUE]
  <2>1. calls[c] \in Call
    BY DEF DirectoryInv, DirectoryTypes
  <2>2. v.phase = "answered"
    BY <2>1 DEF Call
  <2>3. /\ calls' = [calls EXCEPT ![c] = v] /\ UNCHANGED <<users, listing>>
        /\ chats' = chats \union {Candidate(c)}
    BY <1>3 DEF Insert
  <2> HIDE DEF v
  <2> QED
    BY <1>1, <2>2, <2>3, CallStepsKeepLists
<1> QED
  BY <1>2, <1>3

\* A message moves its chat ahead in the lists of its two users, and in no other.
LEMMA TouchKeepsLists ==
  ASSUME DirectoryInv, ListsInv, DirectoryInv', NEW chat \in chats, NEW at \in Times, Touch(chat, at)
  PROVE  ListsInv'
<1> DEFINE moved == [chat EXCEPT !.at = SummarySortAt(chat, at)]
<1>1. chat \in ChatDocument /\ Times \subseteq Nat
  BY PagingAssumption DEF DirectoryInv, DirectoryTypes
<1>2. chat.at \in Nat /\ SummarySortAt(chat, at) \in Nat /\ chat.at <= SummarySortAt(chat, at)
  <2>1. chat.at \in Nat /\ at \in Nat
    BY <1>1 DEF ChatDocument
  <2>2. \E m \in {chat.at, at} : \A n \in {chat.at, at} : n <= m
    BY <2>1
  <2>3. PICK m \in {chat.at, at} : \A n \in {chat.at, at} : n <= m
    BY <2>2
  <2>4. Max({chat.at, at}) = m
    BY <2>1, <2>3, MaxIs
  <2> QED
    BY <2>1, <2>3, <2>4 DEF SummarySortAt
<1>3. /\ moved.id = chat.id /\ moved.one = chat.one /\ moved.two = chat.two
      /\ moved.at = SummarySortAt(chat, at)
  BY <1>1 DEF ChatDocument
<1>4. chats' = (chats \ {chat}) \union {moved} /\ UNCHANGED <<users, calls, listing>>
  BY DEF Touch
<1> HIDE DEF moved
<1>5. StoredOnce(users', chats')
  <2>1. IsFiniteSet(chats')
    BY <1>4, FS_RemoveElement, FS_AddElement DEF ListsInv, StoredOnce
  <2>2. IdsDiffer(chats')
    BY <1>3, <1>4 DEF ListsInv, StoredOnce, IdsDiffer
  <2> QED
    BY <1>4, <2>1, <2>2 DEF ListsInv, StoredOnce
<1>6. IdsAreFresh'
  <2>1. \A x \in chats' : \E y \in chats : y.id = x.id
    BY <1>3, <1>4
  <2> QED
    BY <1>4, <2>1 DEF ListsInv, IdsAreFresh, InFlight
<1>7. ASSUME NEW r \in Readers
      PROVE  LET who == listing[r].who
             IN MovedAhead(who, EntriesIn(users, chats, who), EntriesIn(users', chats', who))
  <2> DEFINE who == listing[r].who
  <2> HIDE DEF who
  <2>1. CASE Given(who)
    <3> SUFFICES ASSUME NEW y \in chats, who \in {y.one, y.two}
                 PROVE  \E z \in chats' :
                          /\ who \in {z.one, z.two} /\ z.id = y.id
                          /\ z.at = y.at \/ z.at > y.at
      <4>1. ASSUME NEW y \in chats, who \in {y.one, y.two},
                   NEW z \in chats', who \in {z.one, z.two}, z.id = y.id,
                   z.at = y.at \/ z.at > y.at
            PROVE  \E e \in EntriesIn(users', chats', who) :
                     /\ e.id = y.id
                     /\ e = [id |-> y.id, at |-> y.at] \/ Precedes(who, e, [id |-> y.id, at |-> y.at])
        <5>1. [id |-> z.id, at |-> z.at] \in EntriesIn(users', chats', who)
          BY <2>1, <4>1 DEF EntriesIn
        <5> QED
          BY <2>1, <4>1, <5>1 DEF Precedes, NewestFirst
      <4> QED
        BY <2>1, <4>1 DEF MovedAhead, EntriesIn, who
    <3>1. CASE y = chat
      <4>1. moved.at = y.at \/ moved.at > y.at
        BY <1>2, <1>3, <3>1
      <4> QED
        BY <1>3, <1>4, <3>1, <4>1
    <3>2. CASE y # chat
      BY <1>4, <3>2
    <3> QED
      BY <3>1, <3>2
  <2>2. CASE ~Given(who)
    BY <1>4, <2>2 DEF MovedAhead, EntriesIn, who
  <2> QED
    BY <2>1, <2>2
<1> QED
  BY <1>4, <1>5, <1>6, <1>7, WritesKeepLists

\* A reader's step puts a listing that is sound in the place of one.
LEMMA ListStepKeepsLists ==
  ASSUME DirectoryInv, ListsInv, NEW r \in Readers, NEW v, listing' = [listing EXCEPT ![r] = v],
         UNCHANGED <<users, chats, calls>>, ListIsSound(v, EntriesIn(users, chats, v.who))
  PROVE  ListsInv'
<1>1. listing'[r] = v /\ \A q \in Readers \ {r} : listing'[q] = listing[q]
  BY DEF DirectoryInv, DirectoryTypes
<1>2. ASSUME NEW q \in Readers
      PROVE  ListIsSound(listing'[q], EntriesIn(users', chats', listing'[q].who))
  <2>1. CASE q = r
    BY <1>1, <2>1
  <2>2. CASE q # r
    BY <1>1, <2>2 DEF ListsInv, ListsAreSound
  <2> QED
    BY <2>1, <2>2
<1>3. ListsAreSound'
  BY <1>2 DEF ListsAreSound
<1>4. IdsAreFresh'
  BY DEF ListsInv, IdsAreFresh, InFlight
<1> QED
  BY <1>3, <1>4 DEF ListsInv

\* The entries of the lists can be listed as they are stored.
LEMMA StoredIsListable ==
  ASSUME DirectoryInv, ListsInv, NEW who
  PROVE  Listable(EntriesIn(users, chats, who))
<1>1. users \subseteq [id : UserIds, at : Times] /\ chats \subseteq ChatDocument
  BY DEF DirectoryInv, DirectoryTypes
<1> QED
  BY <1>1, EntriesAreListable DEF ListsInv

\* A first page shows the beginning of the list.
LEMMA FirstPageKeepsLists ==
  ASSUME DirectoryInv, ListsInv, NEW r \in Readers, NEW who, NEW page, NEW limit \in Nat \ {0},
         FirstPage(r, who, page, limit)
  PROVE  ListsInv'
<1> DEFINE E == EntriesIn(users, chats, who)
           sound == Acceptable(page, None, limit)
           asked == [NoListing EXCEPT !.who = who, !.sound = sound, !.existing = E]
           v == Listed(asked, page, None, limit)
<1>1. E = Entries(who)
  BY DEF Entries, ChatEntries, ChatsOf, UserEntries, EntriesIn
<1>2. listing' = [listing EXCEPT ![r] = v] /\ UNCHANGED <<users, chats, calls>>
  BY <1>1 DEF FirstPage
<1>3. Listable(E)
  BY StoredIsListable
<1> HIDE DEF E, sound
<1>4. asked = [NoListing EXCEPT !.who = who, !.sound = sound, !.existing = E]
  OBVIOUS
<1> HIDE DEF asked
<1>5. asked \in [who : {who}, sound : {sound}, existing : {E}, pages : {<<>>},
                 next : {None}, refused : {FALSE}]
  BY <1>4 DEF NoListing
<1>6. <<>> \in Seq(SUBSET Entry)
  OBVIOUS
<1>7. /\ ListWalk(asked) /\ asked.who = who /\ asked.existing = E /\ asked.pages = <<>>
      /\ asked.next = None
  BY <1>5, <1>6 DEF ListWalk
<1>8. Got(asked) = {} /\ NoEntryTwice(asked)
  <2>1. 1..Len(asked.pages) = {}
    BY <1>7
  <2> QED
    BY <2>1 DEF Got, NoEntryTwice
<1>9. ListIsSound(asked, E)
  BY <1>3, <1>7, <1>8
     DEF ListIsSound, OnlyMovesAhead, UpToCursor, ShowsAll, Finished, Given, Listable, IdsDiffer
<1>10. LET S == After(E, who, None)
      IN \/ NothingListed(v, asked)
         \/ MoreListed(v, asked, ListPage(who, S, limit), NextCursor(who, S, limit))
  BY <1>7, ListingAnswered DEF E
<1>11. ~Given(None)
  BY DEF Given
<1> HIDE DEF v
<1>12. ListIsSound(v, E) /\ v.who = who
  <2>1. CASE NothingListed(v, asked)
    BY <1>7, <1>9, <2>1, RefusalIsSound DEF NothingListed
  <2>2. CASE MoreListed(v, asked, ListPage(who, After(E, who, None), limit),
                        NextCursor(who, After(E, who, None), limit))
    <3>1. MoreListed(v, asked, ListPage(asked.who, After(E, asked.who, None), limit),
                     NextCursor(asked.who, After(E, asked.who, None), limit))
      BY <1>7, <2>2
    <3>2. ListIsSound(v, E)
      BY <1>3, <1>7, <1>9, <1>11, <3>1, ListGoesOn
    <3> QED
      BY <1>7, <2>2, <3>2 DEF MoreListed
  <2> QED
    BY <1>10, <2>1, <2>2
<1> QED
  BY <1>2, <1>12, ListStepKeepsLists DEF E

\* A page that follows goes on after the last.
LEMMA NextPageKeepsLists ==
  ASSUME DirectoryInv, ListsInv, NEW r \in Readers, NEW limit \in Nat \ {0}, NextPage(r, limit)
  PROVE  ListsInv'
<1> DEFINE w == listing[r]
           cursor == w.next
           E == EntriesIn(users, chats, w.who)
           page == Len(w.pages) + 1
           v == Listed(w, page, cursor, limit)
<1>1. /\ listing' = [listing EXCEPT ![r] = v] /\ UNCHANGED <<users, chats, calls>>
      /\ Given(cursor)
  BY DEF NextPage
<1>2. ListWalk(w) /\ ListIsSound(w, E)
  BY DEF DirectoryInv, DirectoryTypes, ListsInv, ListsAreSound
<1>3. Listable(E)
  BY StoredIsListable
<1> HIDE DEF w, page, cursor
<1>4. LET S == After(E, w.who, cursor)
      IN \/ NothingListed(v, w)
         \/ MoreListed(v, w, ListPage(w.who, S, limit), NextCursor(w.who, S, limit))
  BY <1>2, ListingAnswered
<1> HIDE DEF v, E
<1>5. ListIsSound(v, E) /\ v.who = w.who
  <2>1. CASE NothingListed(v, w)
    BY <1>2, <2>1, RefusalIsSound DEF NothingListed
  <2>2. CASE MoreListed(v, w, ListPage(w.who, After(E, w.who, cursor), limit),
                        NextCursor(w.who, After(E, w.who, cursor), limit))
    <3>1. cursor = w.next
      BY DEF cursor
    <3>2. ListIsSound(v, E)
      BY <1>1, <1>2, <1>3, <2>2, <3>1, ListGoesOn
    <3> QED
      BY <2>2, <3>2 DEF MoreListed
  <2> QED
    BY <1>4, <2>1, <2>2
<1> QED
  BY <1>1, <1>5, ListStepKeepsLists DEF E

\* Nobody has read anything.
LEMMA ListsAtFirst ==
  ASSUME DirectoryInit PROVE ListsInv
<1>1. ASSUME NEW r \in Readers PROVE ListIsSound(listing[r], EntriesIn(users, chats, listing[r].who))
  <2>1. listing[r] = NoListing
    BY DEF DirectoryInit
  <2>2. Got(NoListing) = {} /\ NoEntryTwice(NoListing) /\ NoListing.existing = {}
        /\ ~Given(NoListing.next) /\ NoListing.pages = <<>>
    BY DEF NoListing, Got, NoEntryTwice, Given
  <2> QED
    BY <2>1, <2>2 DEF ListIsSound, OnlyMovesAhead, UpToCursor, ShowsAll, Finished
<1>2. IdsAreFresh
  BY DEF DirectoryInit, NoCall, IdsAreFresh, InFlight
<1>3. StoredOnce(users, chats)
  BY FS_EmptySet DEF DirectoryInit, StoredOnce, IdsDiffer
<1> QED
  BY <1>1, <1>2, <1>3 DEF ListsInv, ListsAreSound

\* Every step of the directory, for its readers.
LEMMA ListsInductive ==
  ASSUME DirectoryInv, ListsInv, [DirectoryNext]_directoryVars, DirectoryInv'
  PROVE  ListsInv'
<1>1. ASSUME NEW id \in UserIds, NEW at \in Times, SignUp(id, at) PROVE ListsInv'
  BY <1>1, SignUpKeepsLists
<1>2. ASSUME NEW c \in Calls, NEW current \in UserIds, NEW related \in UserIds,
             NEW id \in ChatIds, NEW at \in Times, Ask(c, current, related, id, at)
      PROVE  ListsInv'
  BY <1>2, AskKeepsLists
<1>3. ASSUME NEW c \in Calls, Search(c) PROVE ListsInv'
  BY <1>3, AnswerStoredKeepsLists, GotoKeepsLists DEF Search, InFlight
<1>4. ASSUME NEW c \in Calls, Insert(c) PROVE ListsInv'
  BY <1>4, InsertKeepsLists
<1>5. ASSUME NEW c \in Calls, Recover(c) PROVE ListsInv'
  BY <1>5, AnswerStoredKeepsLists DEF Recover, InFlight
<1>6. ASSUME NEW c \in Calls, GiveUp(c) PROVE ListsInv'
  BY <1>6, FailKeepsLists DEF GiveUp, InFlight
<1>7. ASSUME NEW chat \in chats, NEW at \in Times, Touch(chat, at) PROVE ListsInv'
  BY <1>7, TouchKeepsLists
<1>8. ASSUME NEW r \in Readers, NEW limit \in 1..MaxPageSize,
             ListMoreChats(r, limit) \/ ListMoreUsers(r, limit)
      PROVE  ListsInv'
  <2>1. limit \in Nat \ {0}
    BY PagingAssumption
  <2> QED
    BY <1>8, <2>1, NextPageKeepsLists DEF ListMoreChats, ListMoreUsers
<1>9. ASSUME NEW r \in Readers, NEW page \in {1, 2}, NEW limit \in 1..(MaxPageSize + 1),
             (\E who \in UserIds : ListChats(r, who, page, limit)) \/ ListUsers(r, page, limit)
      PROVE  ListsInv'
  <2>1. limit \in Nat \ {0}
    BY PagingAssumption
  <2> QED
    BY <1>9, <2>1, FirstPageKeepsLists DEF ListChats, ListUsers
<1>10. CASE UNCHANGED directoryVars
  BY <1>10 DEF directoryVars, ListsInv, StoredOnce, IdsAreFresh, InFlight, ListsAreSound
<1> QED
  BY <1>1, <1>2, <1>3, <1>4, <1>5, <1>6, <1>7, <1>8, <1>9, <1>10 DEF DirectoryNext

\* Every list that was walked to its end is complete.
LEMMA ListsEnd ==
  ASSUME DirectoryInv, ListsInv PROVE ListWalkComplete
<1> SUFFICES ASSUME NEW r \in Readers
             PROVE  /\ NoEntryTwice(listing[r]) /\ NothingMissed(listing[r])
                    /\ RefusedWithCause(listing[r])
  BY DEF ListWalkComplete
<1>1. Entries(listing[r].who) = EntriesIn(users, chats, listing[r].who)
  BY DEF Entries, ChatEntries, ChatsOf, UserEntries, EntriesIn
<1>2. ListIsSound(listing[r], Entries(listing[r].who))
  BY <1>1 DEF ListsInv, ListsAreSound
<1>3. RefusedWithCause(listing[r])
  BY DEF DirectoryInv, WalksAreSound
<1> QED
  BY <1>2, <1>3 DEF ListIsSound, ShowsAll, NothingMissed

\* What every reader of a list was shown, beside what is stored and moves meanwhile, holds
\* in every state of every behaviour.
THEOREM ListsInvariant == DirectorySpec => [](DirectoryInv /\ ListsInv)
<1>1. DirectoryInit => DirectoryInv /\ ListsInv
  BY DirectoryInitially, ListsAtFirst
<1>2. DirectoryInv /\ ListsInv /\ [DirectoryNext]_directoryVars => DirectoryInv' /\ ListsInv'
  BY DirectoryInductive, ListsInductive
<1> QED
  BY <1>1, <1>2, PTL DEF DirectorySpec

\* A list that was walked to its end, while accounts and chats were made and chats moved,
\* shows no entry twice, and each that was there at its first page and did not move; and no
\* page of it fails for a reader who asked well (chat_repository/list.go:85,
\* user_repository/repository.go:205, domain/chat/chat.go:72).
THEOREM ListsAreComplete == DirectorySpec => []ListWalkComplete
BY ListsEnd, ListsInvariant, PTL

-----------------------------------------------------------------------------
(* Both, as a client reads either.                                         *)

ReadingInv == TimelineInv /\ DirectoryInv /\ ListsInv

\* The composition runs one and leaves the other as it was, so that it has what both have.
THEOREM ReadingInvariant == ReadingSpec => []ReadingInv
<1>1. ReadingInit => ReadingInv
  BY OldDataIsTyped, DirectoryInitially, ListsAtFirst DEF ReadingInit, ReadingInv
<1>2. [ReadingNext]_readingVars => [Next]_vars /\ [DirectoryNext]_directoryVars
  BY DEF ReadingNext, readingVars
<1>3. ReadingInv /\ [ReadingNext]_readingVars => ReadingInv'
  BY <1>2, TimelineSteps, DirectoryInductive, ListsInductive DEF ReadingInv
<1> QED
  BY <1>1, <1>3, PTL DEF ReadingSpec

\* What a client was shown, of a timeline or of a list, is all of it, once.
THEOREM ReadingIsComplete ==
  ReadingSpec => [](/\ RecoveryComplete /\ HistoryComplete /\ LegacyWalkComplete
                    /\ NeverRefusedLate /\ OneChatPerPair /\ ListWalkComplete)
<1>1. ReadingInv => /\ RecoveryComplete /\ HistoryComplete /\ LegacyWalkComplete
                    /\ NeverRefusedLate /\ OneChatPerPair /\ ListWalkComplete
  BY RecoveryEnds, HistoryEnds, LegacyWalkEnds, AnsweredIsNotRefused, ListsEnd
     DEF ReadingInv, DirectoryInv
<1> QED
  BY <1>1, ReadingInvariant, PTL
=============================================================================
