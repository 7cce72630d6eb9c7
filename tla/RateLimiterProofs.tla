-------------------------- MODULE RateLimiterProofs --------------------------
(***************************************************************************)
(* For any requests, limits, windows and difference of the clocks: the     *)
(* limits hold, an attempt is refused only when one is reached, and what a *)
(* refusal promises is kept.                                               *)
(*                                                                         *)
(* The stamps of the document are those of the latest attempts admitted,   *)
(* each at most Skew later than the attempt, and every attempt that has no *)
(* stamp any more is out of the longer window (StampsAreLatest).  Among    *)
(* the stamps no BurstLimit + 1 lie in a burst window and no MinuteLimit + *)
(* 1 in a minute (StampsAreFew).  Stamps go up, so that a filter by age    *)
(* keeps a suffix (FilterIsSuffix); which it is, is the only thing to be   *)
(* said of the filters below.                                              *)
(***************************************************************************)
EXTENDS RateLimiter, FiniteSetTheorems, WellFoundedInduction, TLAPS

checked == Fields(document).checked

stamps == Fields(document).stamps

Ascending(s) == \A i, j \in 1..Len(s) : i <= j => s[i] <= s[j]

\* The attempts admitted that have no stamp any more.
dropped == Len(admitted) - Len(stamps)

TypeOK ==
  /\ now \in Nat /\ offset \in 0..Skew
  /\ document = None \/ document \in [checked : Nat, stamps : Seq(Nat) \ {<<>>}]
  /\ pc \in [Requests -> {"idle", "retrying"}]
  /\ admitted \in Seq(Nat)
  /\ promised \in Nat \union {None}

StampsAreTimes ==
  /\ checked <= now + Skew
  /\ Ascending(stamps) /\ \A j \in 1..Len(stamps) : stamps[j] <= checked
  /\ Ascending(admitted) /\ \A i \in 1..Len(admitted) : admitted[i] <= now

StampsAreLatest ==
  /\ dropped \in Nat
  /\ \A i \in 1..dropped : admitted[i] + MinuteWindow <= now + Skew
  /\ \A j \in 1..Len(stamps) :
       admitted[dropped + j] <= stamps[j] /\ stamps[j] <= admitted[dropped + j] + Skew

\* As many as the limits allow, in every burst window and in all.
Few(s) ==
  /\ Len(s) <= MinuteLimit
  /\ \A j \in 1..Len(s) : j + BurstLimit <= Len(s) => s[j] + BurstWindow <= s[j + BurstLimit]

StampsAreFew == Few(stamps)

\* At time t the stamps that fill a window have begun to leave it.
RoomAt(s, t) ==
  /\ Len(s) = MinuteLimit => s[1] + MinuteWindow <= t
  /\ Len(s) >= BurstLimit => s[Len(s) - BurstLimit + 1] + BurstWindow <= t

PromiseHolds == promised # None => RoomAt(stamps, promised + Skew)

IInv == TypeOK /\ StampsAreTimes /\ StampsAreLatest /\ StampsAreFew /\ PromiseHolds

-----------------------------------------------------------------------------
(* Filters of ascending sequences.                                         *)

LEMMA LeastNumber ==
  ASSUME NEW S \in SUBSET Nat, S # {}
  PROVE  \E n \in S : \A m \in S : n <= m
<1>1. PICK n \in S : \A m \in S : ~(<<m, n>> \in OpToRel(<, Nat))
  BY NatLessThanWellFounded, WFMin
<1>2. \A m \in S : ~(m < n)
  BY <1>1 DEF OpToRel
<1> QED
  BY <1>2

LEMMA ElementIsNumber ==
  ASSUME NEW s \in Seq(Nat), NEW i \in 1..Len(s)
  PROVE  s[i] \in Nat
<1> QED
  OBVIOUS

LEMMA SizeOfInterval ==
  ASSUME NEW m \in Nat, NEW n \in Nat, m <= n
  PROVE  Cardinality((m + 1)..n) = n - m
<1>1. m + 1 \in Int /\ n \in Int
  OBVIOUS
<1>2. Cardinality((m + 1)..n) = IF m + 1 > n THEN 0 ELSE n - (m + 1) + 1
  BY <1>1, FS_Interval
<1> QED
  BY <1>2

Suffix(s, m) == [k \in 1..(Len(s) - m) |-> s[m + k]]

LEMMA SuffixProperties ==
  ASSUME NEW s \in Seq(Nat), NEW m \in 0..Len(s)
  PROVE  /\ Suffix(s, m) \in Seq(Nat)
         /\ Len(Suffix(s, m)) = Len(s) - m
         /\ \A k \in 1..(Len(s) - m) : Suffix(s, m)[k] = s[m + k]
<1>1. \A k \in 1..(Len(s) - m) : s[m + k] \in Nat
  OBVIOUS
<1>2. Len(s) - m \in Nat /\ DOMAIN Suffix(s, m) = 1..(Len(s) - m)
  BY DEF Suffix
<1> QED
  BY <1>1, <1>2 DEF Suffix

\* The places of an ascending sequence at which what exceeds at are the last ones.
LEMMA YoungAreLast ==
  ASSUME NEW s \in Seq(Nat), Ascending(s), NEW window \in Int, NEW at \in Int
  PROVE  \E m \in 0..Len(s) :
           {i \in DOMAIN s : s[i] + window > at} = (m + 1)..Len(s)
<1> DEFINE K == {i \in DOMAIN s : s[i] + window > at}
<1>1. CASE K = {}
  <2>1. K = (Len(s) + 1)..Len(s)
    BY <1>1
  <2> QED
    BY <2>1
<1>2. CASE K # {}
  <2>1. PICK n \in K : \A k \in K : n <= k
    <3>1. K \subseteq Nat
      OBVIOUS
    <3> QED
      BY <1>2, <3>1, LeastNumber
  <2>2. ASSUME NEW i \in n..Len(s) PROVE i \in K
    <3>1. n \in 1..Len(s) /\ i \in 1..Len(s) /\ n <= i /\ s[n] + window > at
      BY <2>1
    <3>2. s[n] \in Nat /\ s[i] \in Nat /\ s[n] <= s[i]
      BY <3>1 DEF Ascending
    <3>3. s[i] + window > at
      BY <3>1, <3>2
    <3> QED
      BY <3>1, <3>3
  <2>3. K = n..Len(s)
    BY <2>1, <2>2
  <2>4. n - 1 \in 0..Len(s) /\ (n - 1) + 1 = n
    BY <2>1
  <2> QED
    BY <2>3, <2>4
<1> QED
  BY <1>1, <1>2

LEMMA FilterIsSuffix ==
  ASSUME NEW s \in Seq(Nat), Ascending(s), NEW window \in Int, NEW at \in Int
  PROVE  \E m \in 0..Len(s) :
           /\ activeTimestamps(s, at, window) = Suffix(s, m)
           /\ \A i \in 1..Len(s) : s[i] + window > at <=> i > m
<1> DEFINE K == {i \in DOMAIN s : s[i] + window > at}
<1>1. PICK m \in 0..Len(s) : K = (m + 1)..Len(s)
  BY YoungAreLast
<1>2. Cardinality(K) = Len(s) - m
  <2>1. m \in Nat /\ Len(s) \in Nat /\ m <= Len(s)
    OBVIOUS
  <2> QED
    BY <1>1, <2>1, SizeOfInterval
<1>3. ASSUME NEW k \in 1..(Len(s) - m)
      PROVE  (CHOOSE i \in K : Cardinality({j \in K : j <= i}) = k) = m + k
  <2>1. ASSUME NEW i \in K
        PROVE  Cardinality({j \in K : j <= i}) = i - m
    <3>1. {j \in K : j <= i} = (m + 1)..i
      BY <1>1
    <3>2. m \in Nat /\ i \in Nat /\ m <= i
      BY <1>1
    <3> QED
      BY <3>1, <3>2, SizeOfInterval
  <2>2. m + k \in K
    BY <1>1
  <2>3. ASSUME NEW i \in K PROVE i - m = k <=> i = m + k
    <3>1. i \in Int /\ m \in Int /\ k \in Int
      OBVIOUS
    <3> HIDE DEF K
    <3> QED
      BY <3>1
  <2> HIDE DEF K
  <2> QED
    BY <2>1, <2>2, <2>3
<1>4. \A i \in 1..Len(s) : s[i] + window > at <=> i > m
  BY <1>1
<1>5. activeTimestamps(s, at, window) =
        [k \in 1..Cardinality(K) |-> s[CHOOSE i \in K : Cardinality({j \in K : j <= i}) = k]]
  BY DEF activeTimestamps, Filtered
<1> HIDE DEF K
<1>6. activeTimestamps(s, at, window) = Suffix(s, m)
  BY <1>2, <1>3, <1>5 DEF Suffix
<1> QED
  BY <1>4, <1>6

\* How many of an ascending sequence are young: limit or more are, when the limit-th from
\* the end is.
LEMMA CountOfYoung ==
  ASSUME NEW s \in Seq(Nat), Ascending(s), NEW window \in Int, NEW at \in Int,
         NEW limit \in Nat \ {0}
  PROVE  LET young == Cardinality({i \in DOMAIN s : s[i] + window > at})
         IN /\ young \in Nat
            /\ young >= limit <=>
                 Len(s) >= limit /\ s[Len(s) - limit + 1] + window > at
<1> DEFINE K == {i \in DOMAIN s : s[i] + window > at}
<1>1. PICK m \in 0..Len(s) : K = (m + 1)..Len(s)
  BY YoungAreLast
<1>2. Cardinality(K) = Len(s) - m
  <2>1. m \in Nat /\ Len(s) \in Nat /\ m <= Len(s)
    OBVIOUS
  <2> QED
    BY <1>1, <2>1, SizeOfInterval
<1>3. \A i \in 1..Len(s) : s[i] + window > at <=> i > m
  BY <1>1
<1> HIDE DEF K
<1>4. CASE Len(s) >= limit
  <2>1. Len(s) - limit + 1 \in 1..Len(s)
    BY <1>4
  <2>2. s[Len(s) - limit + 1] + window > at <=> Len(s) - limit + 1 > m
    BY <1>3, <2>1
  <2> QED
    BY <1>2, <1>4, <2>2 DEF K
<1> QED
  BY <1>2, <1>4 DEF K

-----------------------------------------------------------------------------
(* The pipeline.                                                           *)

LEMMA SuffixKeeps ==
  ASSUME NEW s \in Seq(Nat), Ascending(s), Few(s), NEW m \in 0..Len(s)
  PROVE  /\ Ascending(Suffix(s, m)) /\ Few(Suffix(s, m))
         /\ \A t \in Nat : RoomAt(s, t) => RoomAt(Suffix(s, m), t)
<1> DEFINE e == Suffix(s, m)
           n == Len(s) - m
<1>1. e \in Seq(Nat) /\ Len(e) = n /\ n \in Nat /\ \A k \in 1..n : e[k] = s[m + k]
  BY SuffixProperties
<1>2. MinuteLimit \in Nat \ {0} /\ BurstLimit \in Nat \ {0} /\ BurstWindow \in Nat
  BY RateLimiterAssumption
<1> HIDE DEF e
<1>3. Ascending(e)
  <2>1. \A i, j \in 1..n : i <= j => m + i \in 1..Len(s) /\ m + j \in 1..Len(s) /\ m + i <= m + j
    BY <1>1
  <2>2. \A i, j \in 1..Len(s) : i <= j => s[i] <= s[j]
    BY DEF Ascending
  <2>3. \A i, j \in 1..n : i <= j => e[i] <= e[j]
    BY <1>1, <2>1, <2>2
  <2> QED
    BY <1>1, <2>3 DEF Ascending
<1>4. Few(e)
  <2>1. ASSUME NEW j \in 1..n, j + BurstLimit <= n
        PROVE  e[j] + BurstWindow <= e[j + BurstLimit]
    <3>1. m + j \in 1..Len(s) /\ (m + j) + BurstLimit <= Len(s) /\ j + BurstLimit \in 1..n
      BY <1>1, <1>2, <2>1
    <3>2. s[m + j] + BurstWindow <= s[(m + j) + BurstLimit]
      BY <3>1 DEF Few
    <3>3. (m + j) + BurstLimit = m + (j + BurstLimit)
      BY <1>2
    <3> QED
      BY <1>1, <3>1, <3>2, <3>3
  <2> QED
    BY <1>1, <1>2, <2>1 DEF Few
<1>5. ASSUME NEW t \in Nat, RoomAt(s, t) PROVE RoomAt(e, t)
  <2>1. Len(e) = MinuteLimit => m = 0
    BY <1>1, <1>2 DEF Few
  <2>2. ASSUME Len(e) >= BurstLimit
        PROVE  e[Len(e) - BurstLimit + 1] = s[Len(s) - BurstLimit + 1]
    <3>1. n - BurstLimit + 1 \in 1..n /\ m + (n - BurstLimit + 1) = Len(s) - BurstLimit + 1
      BY <1>1, <1>2, <2>2
    <3>2. e[n - BurstLimit + 1] = s[m + (n - BurstLimit + 1)]
      BY <1>1, <3>1
    <3>3. Len(e) - BurstLimit + 1 = n - BurstLimit + 1
      BY <1>1
    <3> QED
      BY <3>1, <3>2, <3>3
  <2>3. Len(e) = MinuteLimit => Len(s) = MinuteLimit /\ e[1] = s[1]
    <3>1. ASSUME m = 0, Len(e) = MinuteLimit PROVE Len(s) = MinuteLimit /\ e[1] = s[1]
      <4>1. 1 \in 1..n /\ m + 1 = 1
        BY <1>1, <1>2, <3>1
      <4> QED
        BY <1>1, <3>1, <4>1
    <3> QED
      BY <2>1, <3>1
  <2>4. Len(e) >= BurstLimit => Len(s) >= BurstLimit
    BY <1>1, <1>2
  <2> QED
    BY <1>5, <2>2, <2>3, <2>4 DEF RoomAt
<1> QED
  BY <1>3, <1>4, <1>5 DEF e

\* What the pipeline answers to active stamps: the first time there is room.
LEMMA Decision ==
  ASSUME NEW s \in Seq(Nat), Ascending(s), Few(s), NEW at \in Nat,
         \A i \in 1..Len(s) : s[i] <= at /\ s[i] + MinuteWindow > at
  PROVE  /\ RetryAt(s, at) \in Nat /\ RetryAt(s, at) >= at
         /\ RetryAt(s, at) = at <=> RoomAt(s, at)
         /\ RoomAt(s, RetryAt(s, at))
<1>1. /\ MinuteLimit \in Nat \ {0} /\ BurstLimit \in Nat \ {0}
      /\ BurstWindow \in Nat /\ MinuteWindow \in Nat
  BY RateLimiterAssumption
<1> DEFINE n == Len(s)
           minute == windowRetryAt(s, MinuteLimit, MinuteWindow, at)
           young == activeTimestamps(s, at, BurstWindow)
           burst == windowRetryAt(young, BurstLimit, BurstWindow, at)
<1>2. /\ minute \in Nat /\ minute >= at
      /\ minute = at <=> (n = MinuteLimit => s[1] + MinuteWindow <= at)
      /\ n = MinuteLimit => minute = s[1] + MinuteWindow
  <2>1. n <= MinuteLimit
    BY DEF Few
  <2> QED
    BY <1>1, <2>1 DEF windowRetryAt
<1>3. PICK b \in 0..n : /\ young = Suffix(s, b)
                       /\ \A i \in 1..n : s[i] + BurstWindow > at <=> i > b
  BY <1>1, FilterIsSuffix
<1>4. Len(young) = n - b /\ \A k \in 1..(n - b) : young[k] = s[b + k]
  BY <1>3, SuffixProperties
<1> HIDE DEF young
<1>5. ASSUME n - b >= BurstLimit
      PROVE  b + 1 = n - BurstLimit + 1
  <2>1. b + 1 \in 1..n /\ s[b + 1] + BurstWindow > at
    BY <1>1, <1>3, <1>5
  <2>2. CASE (b + 1) + BurstLimit <= n
    <3>1. (b + 1) + BurstLimit \in 1..n
      BY <1>1, <2>2
    <3>2. s[b + 1] + BurstWindow <= s[(b + 1) + BurstLimit]
      BY <2>1, <2>2 DEF Few
    <3>3. s[(b + 1) + BurstLimit] <= at /\ s[b + 1] \in Nat /\ s[(b + 1) + BurstLimit] \in Nat
      BY <2>1, <3>1
    <3> QED
      BY <1>1, <2>1, <3>2, <3>3
  <2> QED
    BY <1>1, <1>5, <2>2
<1>6. /\ burst \in Nat /\ burst >= at
      /\ burst = at <=> (n >= BurstLimit => s[n - BurstLimit + 1] + BurstWindow <= at)
      /\ n >= BurstLimit => s[n - BurstLimit + 1] + BurstWindow <= burst
  <2>1. CASE n - b >= BurstLimit
    <3>1. b + 1 \in 1..n /\ s[b + 1] \in Nat /\ s[b + 1] + BurstWindow > at /\ n >= BurstLimit
      BY <1>1, <1>3, <2>1
    <3>2. burst = s[b + 1] + BurstWindow
      <4>1. 1 \in 1..(n - b) /\ Len(young) >= BurstLimit
        BY <1>1, <1>4, <2>1
      <4> QED
        BY <1>4, <4>1 DEF windowRetryAt
    <3>3. n - BurstLimit + 1 = b + 1
      BY <1>5, <2>1
    <3>4. s[n - BurstLimit + 1] = s[b + 1]
      BY <3>3
    <3> DEFINE oldest == s[b + 1]
    <3>5. oldest \in Nat /\ oldest + BurstWindow > at /\ burst = oldest + BurstWindow
      BY <3>1, <3>2
    <3> HIDE DEF burst, oldest
    <3>6. /\ burst \in Nat /\ burst >= at /\ burst # at
          /\ ~(oldest + BurstWindow <= at) /\ oldest + BurstWindow <= burst
      BY <1>1, <3>5
    <3> QED
      BY <3>1, <3>4, <3>6 DEF oldest
  <2>2. CASE n - b < BurstLimit
    <3>1. burst = at
      <4>1. ~(Len(young) >= BurstLimit)
        BY <1>1, <1>4, <2>2
      <4> QED
        BY <4>1 DEF windowRetryAt
    <3>2. n >= BurstLimit => n - BurstLimit + 1 \in 1..n /\ n - BurstLimit + 1 <= b
      BY <1>1, <2>2
    <3>3. n >= BurstLimit => s[n - BurstLimit + 1] \in Nat
                               /\ ~(s[n - BurstLimit + 1] + BurstWindow > at)
      BY <1>3, <3>2
    <3> HIDE DEF burst
    <3> QED
      BY <1>1, <3>1, <3>3
  <2> QED
    BY <1>1, <2>1, <2>2
<1>7. RetryAt(s, at) = Later(minute, burst)
  BY DEF RetryAt, young
<1> HIDE DEF minute, burst
<1>8. /\ RetryAt(s, at) \in {minute, burst}
      /\ RetryAt(s, at) >= minute /\ RetryAt(s, at) >= burst
  BY <1>2, <1>6, <1>7 DEF Later
<1>9. n >= BurstLimit => s[n - BurstLimit + 1] \in Nat
  BY <1>1
<1>10. RoomAt(s, at) <=> minute = at /\ burst = at
  BY <1>2, <1>6 DEF RoomAt
<1>11. n = MinuteLimit => s[1] \in Nat
  BY <1>1
<1>12. RoomAt(s, RetryAt(s, at))
  <2> DEFINE answer == RetryAt(s, at)
  <2>1. answer \in Nat /\ minute <= answer /\ burst <= answer
    BY <1>2, <1>6, <1>8
  <2> HIDE DEF answer
  <2>2. n = MinuteLimit => s[1] + MinuteWindow <= answer
    BY <1>2, <2>1
  <2>3. n >= BurstLimit => s[n - BurstLimit + 1] + BurstWindow <= answer
    <3> DEFINE oldest == s[n - BurstLimit + 1] + BurstWindow
    <3>1. n >= BurstLimit => oldest \in Nat /\ oldest <= burst
      BY <1>1, <1>6, <1>9
    <3> HIDE DEF oldest
    <3>2. n >= BurstLimit => oldest <= answer
      BY <1>6, <2>1, <3>1
    <3> QED
      BY <3>2 DEF oldest
  <2> QED
    BY <2>2, <2>3 DEF RoomAt, answer
<1> QED
  BY <1>2, <1>6, <1>8, <1>10, <1>12

\* The time that the pipeline takes for a document, between now and the latest clock.
LEMMA TimeOfReservation ==
  ASSUME TypeOK, StampsAreTimes
  PROVE  LET at == CheckedAt(Fields(document))
         IN /\ at \in Nat /\ now <= at /\ at <= now + Skew /\ checked <= at
            /\ stamps \in Seq(Nat) /\ checked \in Nat /\ Len(stamps) \in Nat
            /\ \A j \in 1..Len(stamps) : stamps[j] \in Nat /\ stamps[j] <= at
<1>1. Skew \in Nat
  BY RateLimiterAssumption
<1>2. Fields(document) \in [checked : Nat, stamps : Seq(Nat)]
  BY DEF TypeOK, Fields
<1>3. stamps \in Seq(Nat) /\ checked \in Nat
  BY <1>2 DEF stamps, checked
<1>4. NOW \in Nat /\ now <= NOW /\ NOW <= now + Skew /\ now \in Nat
  BY <1>1 DEF TypeOK, NOW
<1>5. CheckedAt(Fields(document)) = IF NOW > checked THEN NOW ELSE checked
  BY DEF CheckedAt, checked
<1>6. \A j \in 1..Len(stamps) : stamps[j] <= checked /\ stamps[j] \in Nat
  BY <1>3 DEF StampsAreTimes
<1> QED
  BY <1>1, <1>3, <1>4, <1>5, <1>6 DEF StampsAreTimes

LEMMA Outcome ==
  ASSUME IInv
  PROVE  LET at == CheckedAt(Fields(document))
             result == Reservation(Fields(document))
         IN \E m \in 0..Len(stamps) :
              LET active == Suffix(stamps, m)
              IN /\ \A i \in 1..Len(stamps) : stamps[i] + MinuteWindow > at <=> i > m
                 /\ result.checked = at
                 /\ result.wait \in Nat
                 /\ result.wait = 0 <=> RoomAt(active, at)
                 /\ RoomAt(active, at + result.wait)
                 /\ result.stamps = IF result.wait = 0 THEN Append(active, at) ELSE active
<1> DEFINE at == CheckedAt(Fields(document))
           result == Reservation(Fields(document))
<1>1. /\ at \in Nat /\ stamps \in Seq(Nat) /\ MinuteWindow \in Nat
      /\ \A j \in 1..Len(stamps) : stamps[j] \in Nat /\ stamps[j] <= at
  BY TimeOfReservation, RateLimiterAssumption DEF IInv
<1>2. Ascending(stamps) /\ Few(stamps)
  BY DEF IInv, StampsAreTimes, StampsAreFew
<1> HIDE DEF at
<1>3. PICK m \in 0..Len(stamps) :
        /\ activeTimestamps(stamps, at, MinuteWindow) = Suffix(stamps, m)
        /\ \A i \in 1..Len(stamps) : stamps[i] + MinuteWindow > at <=> i > m
  BY <1>1, <1>2, FilterIsSuffix
<1> DEFINE active == Suffix(stamps, m)
           retry == RetryAt(active, at)
<1>4. Ascending(active) /\ Few(active) /\ active \in Seq(Nat)
  BY <1>1, <1>2, SuffixKeeps, SuffixProperties
<1>5. ASSUME NEW i \in 1..Len(active)
      PROVE  active[i] <= at /\ active[i] + MinuteWindow > at
  <2>1. Len(active) = Len(stamps) - m /\ \A k \in 1..(Len(stamps) - m) : active[k] = stamps[m + k]
    BY <1>1, SuffixProperties
  <2> HIDE DEF active
  <2>2. m + i \in 1..Len(stamps) /\ m + i > m /\ active[i] = stamps[m + i]
    BY <1>1, <2>1
  <2> QED
    BY <1>1, <1>3, <2>2
<1>6. result = [checked |-> at, stamps |-> StampsAfter(active, at, retry), wait |-> retry - at]
  BY <1>3 DEF Reservation, at, stamps
<1> HIDE DEF active, result
<1>7. retry \in Nat /\ retry >= at /\ (retry = at <=> RoomAt(active, at)) /\ RoomAt(active, retry)
  BY <1>1, <1>4, <1>5, Decision
<1> HIDE DEF retry
<1>8. /\ result.checked = at /\ result.wait = retry - at
      /\ result.stamps = IF retry <= at THEN Append(active, at) ELSE active
  BY <1>6 DEF StampsAfter
<1>9. retry - at \in Nat /\ at + (retry - at) = retry /\ (retry <= at <=> retry = at)
      /\ (retry - at = 0 <=> retry = at)
  BY <1>1, <1>7
<1> QED
  BY <1>3, <1>7, <1>8, <1>9 DEF active, at, result

-----------------------------------------------------------------------------
(* The steps.                                                              *)

\* The stamps that the pipeline lets go are those of attempts out of the longer window.
LEMMA Filtering ==
  ASSUME IInv, NEW m \in 0..Len(stamps), NEW at \in Nat, at <= now + Skew,
         \A i \in 1..Len(stamps) : stamps[i] + MinuteWindow > at <=> i > m
  PROVE  /\ \A i \in 1..(dropped + m) : admitted[i] + MinuteWindow <= now + Skew
         /\ \A j \in 1..(Len(stamps) - m) :
              /\ admitted[(dropped + m) + j] <= Suffix(stamps, m)[j]
              /\ Suffix(stamps, m)[j] <= admitted[(dropped + m) + j] + Skew
<1>1. /\ stamps \in Seq(Nat) /\ admitted \in Seq(Nat) /\ now \in Nat
      /\ MinuteWindow \in Nat /\ Skew \in Nat
      /\ dropped \in Nat /\ Len(admitted) = dropped + Len(stamps)
  BY TimeOfReservation, RateLimiterAssumption DEF IInv, TypeOK, StampsAreLatest, dropped
<1>2. /\ \A i \in 1..dropped : admitted[i] + MinuteWindow <= now + Skew
      /\ \A j \in 1..Len(stamps) :
           admitted[dropped + j] <= stamps[j] /\ stamps[j] <= admitted[dropped + j] + Skew
  BY DEF IInv, StampsAreLatest
<1> HIDE DEF dropped, stamps
<1>3. ASSUME NEW i \in 1..(dropped + m), i > dropped
      PROVE  admitted[i] + MinuteWindow <= now + Skew
  <2>1. i - dropped \in 1..m /\ i - dropped \in 1..Len(stamps) /\ dropped + (i - dropped) = i
    BY <1>1, <1>3
  <2>2. admitted[i] <= stamps[i - dropped] /\ ~(stamps[i - dropped] + MinuteWindow > at)
    BY <1>2, <2>1
  <2>3. admitted[i] \in Nat /\ stamps[i - dropped] \in Nat
    BY <1>1, <2>1
  <2> QED
    BY <1>1, <2>2, <2>3
<1>4. ASSUME NEW j \in 1..(Len(stamps) - m)
      PROVE  /\ admitted[(dropped + m) + j] <= Suffix(stamps, m)[j]
             /\ Suffix(stamps, m)[j] <= admitted[(dropped + m) + j] + Skew
  <2>1. m + j \in 1..Len(stamps) /\ dropped + (m + j) = (dropped + m) + j
    BY <1>1
  <2>2. Suffix(stamps, m)[j] = stamps[m + j]
    BY <1>1, SuffixProperties
  <2> QED
    BY <1>2, <2>1, <2>2
<1> QED
  BY <1>1, <1>2, <1>3, <1>4

LEMMA RoundedUp ==
  ASSUME NEW wait \in Nat PROVE RetryAfter(wait) \in Nat /\ RetryAfter(wait) >= wait
<1>1. Second \in Nat \ {0}
  BY RateLimiterAssumption
<1> DEFINE q == (wait + Second - 1) \div Second
<1>2. q \in Nat /\ wait + Second - 1 < (q + 1) * Second
  BY <1>1
<1>3. (q + 1) * Second = q * Second + Second /\ q * Second \in Nat
  BY <1>1, <1>2
<1> QED
  BY <1>1, <1>2, <1>3 DEF RetryAfter

LEMMA Appending ==
  ASSUME NEW s \in Seq(Nat), NEW x \in Nat
  PROVE  /\ Append(s, x) \in Seq(Nat) \ {<<>>} /\ Len(Append(s, x)) = Len(s) + 1
         /\ Append(s, x)[Len(s) + 1] = x /\ \A k \in 1..Len(s) : Append(s, x)[k] = s[k]
         /\ Ascending(s) /\ (\A k \in 1..Len(s) : s[k] <= x) =>
              Ascending(Append(s, x)) /\ \A k \in 1..Len(Append(s, x)) : Append(s, x)[k] <= x
<1> DEFINE e == Append(s, x)
<1>1. /\ e \in Seq(Nat) /\ e # <<>> /\ Len(e) = Len(s) + 1
      /\ e[Len(s) + 1] = x /\ \A k \in 1..Len(s) : e[k] = s[k]
  <2>1. e \in Seq(Nat) /\ Len(e) = Len(s) + 1
    OBVIOUS
  <2>2. e[Len(s) + 1] = x /\ \A k \in 1..Len(s) : e[k] = s[k]
    OBVIOUS
  <2>3. e # <<>>
    <3> HIDE DEF e
    <3> QED
      BY <2>1
  <2> QED
    BY <2>1, <2>2, <2>3
<1>2. \A k \in 1..(Len(s) + 1) : k \in 1..Len(s) \/ k = Len(s) + 1
  OBVIOUS
<1> HIDE DEF e
<1>3. ASSUME Ascending(s), \A k \in 1..Len(s) : s[k] <= x
      PROVE  Ascending(e) /\ \A k \in 1..Len(e) : e[k] <= x
  <2>1. \A k \in 1..Len(e) : e[k] <= x
    BY <1>1, <1>2, <1>3
  <2>2. ASSUME NEW i \in 1..Len(e), NEW j \in 1..Len(e), i <= j
        PROVE  e[i] <= e[j]
    <3>1. CASE j = Len(s) + 1
      BY <1>1, <2>1, <3>1
    <3>2. CASE j \in 1..Len(s)
      <4>1. i \in 1..Len(s)
        BY <1>1, <2>2, <3>2
      <4> QED
        BY <1>1, <1>3, <2>2, <3>2, <4>1 DEF Ascending
    <3> QED
      BY <1>1, <1>2, <3>1, <3>2
  <2> QED
    BY <2>1, <2>2 DEF Ascending
<1> QED
  BY <1>1, <1>3 DEF e

LEMMA ReserveKeeps ==
  ASSUME IInv, NEW r \in Requests, Reserve(r)
  PROVE  IInv'
<1> DEFINE at == CheckedAt(Fields(document))
           result == Reservation(Fields(document))
<1>1. PICK m \in 0..Len(stamps) :
        /\ \A i \in 1..Len(stamps) : stamps[i] + MinuteWindow > at <=> i > m
        /\ result.checked = at
        /\ result.wait \in Nat
        /\ result.wait = 0 <=> RoomAt(Suffix(stamps, m), at)
        /\ RoomAt(Suffix(stamps, m), at + result.wait)
        /\ result.stamps = IF result.wait = 0 THEN Append(Suffix(stamps, m), at)
                           ELSE Suffix(stamps, m)
  BY Outcome
<1>2. /\ at \in Nat /\ now <= at /\ at <= now + Skew /\ checked <= at
      /\ stamps \in Seq(Nat) /\ \A j \in 1..Len(stamps) : stamps[j] \in Nat /\ stamps[j] <= at
  BY TimeOfReservation DEF IInv
<1>3. /\ document' = [checked |-> result.checked, stamps |-> result.stamps]
      /\ pc' = [pc EXCEPT ![r] = "idle"] /\ now' = now /\ offset' = offset
      /\ \/ result.wait = 0 /\ admitted' = Append(admitted, now) /\ promised' = None
         \/ /\ result.wait > 0 /\ admitted' = admitted
            /\ promised' = IF promised = None THEN now + RetryAfter(result.wait) ELSE promised
  BY DEF Reserve
<1> HIDE DEF at, result
<1> DEFINE active == Suffix(stamps, m)
           n == Len(stamps) - m
<1>4. /\ active \in Seq(Nat) /\ Len(active) = n /\ n \in Nat
      /\ \A k \in 1..n : active[k] = stamps[m + k]
  BY <1>2, SuffixProperties
<1>5. Ascending(active) /\ Few(active) /\ \A t \in Nat : RoomAt(stamps, t) => RoomAt(active, t)
  BY <1>2, SuffixKeeps DEF IInv, StampsAreTimes, StampsAreFew
<1>6. /\ MinuteLimit \in Nat \ {0} /\ BurstLimit \in Nat \ {0} /\ Skew \in Nat
      /\ BurstWindow \in Nat /\ MinuteWindow \in Nat
      /\ None \notin [checked : Nat, stamps : Seq(Nat)] /\ None \notin Nat
  BY RateLimiterAssumption
<1>7. /\ admitted \in Seq(Nat) /\ now \in Nat /\ offset \in 0..Skew
      /\ promised \in Nat \union {None} /\ pc \in [Requests -> {"idle", "retrying"}]
      /\ Ascending(admitted) /\ \A i \in 1..Len(admitted) : admitted[i] <= now
      /\ dropped \in Nat /\ dropped = Len(admitted) - Len(stamps)
      /\ promised # None => RoomAt(stamps, promised + Skew)
  BY DEF IInv, TypeOK, StampsAreTimes, StampsAreLatest, PromiseHolds, dropped
<1>8. /\ \A i \in 1..(dropped + m) : admitted[i] + MinuteWindow <= now + Skew
      /\ \A j \in 1..n : /\ admitted[(dropped + m) + j] <= active[j]
                        /\ active[j] <= admitted[(dropped + m) + j] + Skew
  BY <1>1, <1>2, Filtering
<1>9. \A k \in 1..n : active[k] \in Nat /\ active[k] <= at /\ active[k] + MinuteWindow > at
  <2>1. \A k \in 1..n : m + k \in 1..Len(stamps) /\ m + k > m
    BY <1>2
  <2> QED
    BY <1>1, <1>2, <1>4, <2>1
<1>10. stamps' = result.stamps /\ checked' = at
  <2>1. result.stamps \in Seq(Nat)
    BY <1>1, <1>2, <1>4
  <2>2. document' \in [checked : Nat, stamps : Seq(Nat)]
    BY <1>1, <1>2, <1>3, <2>1
  <2> QED
    BY <1>1, <1>3, <1>6, <2>2 DEF stamps, checked, Fields
<1> HIDE DEF active
<1>11. CASE result.wait = 0
  <2>1. /\ stamps' = Append(active, at) /\ admitted' = Append(admitted, now) /\ promised' = None
        /\ RoomAt(active, at)
    BY <1>1, <1>3, <1>10, <1>11 DEF active
  <2>2. /\ stamps' \in Seq(Nat) \ {<<>>} /\ Len(stamps') = n + 1 /\ stamps'[n + 1] = at
        /\ \A k \in 1..n : stamps'[k] = active[k]
    <3>1. n + 1 = Len(active) + 1
      BY <1>4
    <3>2. /\ Append(active, at) \in Seq(Nat) \ {<<>>}
          /\ Len(Append(active, at)) = Len(active) + 1
          /\ Append(active, at)[Len(active) + 1] = at
          /\ \A k \in 1..Len(active) : Append(active, at)[k] = active[k]
      BY <1>2, <1>4, Appending
    <3> QED
      BY <1>4, <2>1, <3>1, <3>2
  <2>3. /\ admitted' \in Seq(Nat) /\ Len(admitted') = Len(admitted) + 1
        /\ admitted'[Len(admitted) + 1] = now
        /\ \A k \in 1..Len(admitted) : admitted'[k] = admitted[k]
    BY <1>7, <2>1, Appending
  <2>4. dropped' = dropped + m
    BY <1>4, <1>7, <2>2, <2>3 DEF dropped
  <2>5. TypeOK'
    BY <1>1, <1>2, <1>3, <1>7, <1>10, <2>1, <2>2, <2>3 DEF TypeOK
  <2>6. StampsAreTimes'
    <3>1. Ascending(stamps')
      BY <1>2, <1>4, <1>5, <1>9, <2>1, Appending
    <3>2. Ascending(admitted') /\ \A i \in 1..Len(admitted') : admitted'[i] <= now
      BY <1>7, <2>1, Appending
    <3>3. \A j \in 1..Len(stamps') : stamps'[j] <= at
      BY <1>2, <1>4, <1>5, <1>9, <2>1, Appending
    <3>4. Ascending(stamps)' /\ Ascending(admitted)'
      BY <3>1, <3>2 DEF Ascending
    <3> QED
      BY <1>2, <1>3, <1>10, <3>2, <3>3, <3>4 DEF StampsAreTimes
  <2>7. StampsAreLatest'
    <3>1. \A i \in 1..(dropped + m) : i \in 1..Len(admitted)
      BY <1>7
    <3>2. \A j \in 1..n : (dropped + m) + j \in 1..Len(admitted)
      BY <1>7
    <3>3. (dropped + m) + (n + 1) = Len(admitted) + 1
      BY <1>7
    <3>4. \A i \in 1..(dropped + m) : admitted'[i] + MinuteWindow <= now + Skew
      BY <1>8, <2>3, <3>1
    <3>5. \A j \in 1..n : /\ admitted'[(dropped + m) + j] <= stamps'[j]
                         /\ stamps'[j] <= admitted'[(dropped + m) + j] + Skew
      BY <1>8, <2>2, <2>3, <3>2
    <3>6. /\ admitted'[(dropped + m) + (n + 1)] <= stamps'[n + 1]
          /\ stamps'[n + 1] <= admitted'[(dropped + m) + (n + 1)] + Skew
      BY <1>2, <2>2, <2>3, <3>3
    <3>7. \A j \in 1..(n + 1) : j \in 1..n \/ j = n + 1
      BY <1>4
    <3>8. dropped + m \in Nat
      BY <1>7
    <3> QED
      BY <1>3, <2>2, <2>4, <3>4, <3>5, <3>6, <3>7, <3>8 DEF StampsAreLatest
  <2>8. StampsAreFew'
    <3>1. n + 1 <= MinuteLimit
      <4>1. n = MinuteLimit => 1 \in 1..n /\ active[1] + MinuteWindow <= at
        BY <1>4, <1>6, <2>1 DEF RoomAt
      <4>2. n # MinuteLimit
        BY <1>2, <1>6, <1>9, <4>1
      <4>3. n <= MinuteLimit
        BY <1>4, <1>5 DEF Few
      <4> QED
        BY <1>4, <1>6, <4>2, <4>3
    <3>2. ASSUME NEW j \in 1..(n + 1), j + BurstLimit <= n + 1
          PROVE  stamps'[j] + BurstWindow <= stamps'[j + BurstLimit]
      <4>1. CASE j + BurstLimit <= n
        <5>1. j \in 1..n /\ j + BurstLimit \in 1..n
          BY <1>4, <1>6, <4>1
        <5>2. active[j] + BurstWindow <= active[j + BurstLimit]
          BY <1>4, <1>5, <4>1, <5>1 DEF Few
        <5> QED
          BY <2>2, <5>1, <5>2
      <4>2. CASE j + BurstLimit = n + 1
        <5>1. j \in 1..n /\ n >= BurstLimit /\ j = n - BurstLimit + 1
          BY <1>4, <1>6, <4>2
        <5>2. active[j] + BurstWindow <= at
          BY <1>4, <2>1, <5>1 DEF RoomAt
        <5> QED
          BY <2>2, <4>2, <5>1, <5>2
      <4>3. j + BurstLimit \in Nat
        BY <1>4, <1>6
      <4> HIDE DEF n
      <4>4. j + BurstLimit <= n \/ j + BurstLimit = n + 1
        BY <1>4, <3>2, <4>3
      <4> QED
        BY <4>1, <4>2, <4>4
    <3> QED
      BY <2>2, <3>1, <3>2 DEF StampsAreFew, Few
  <2>9. PromiseHolds'
    BY <2>1 DEF PromiseHolds
  <2> QED
    BY <2>5, <2>6, <2>7, <2>8, <2>9 DEF IInv
<1>12. CASE result.wait > 0
  <2>1. /\ stamps' = active /\ admitted' = admitted
        /\ promised' = IF promised = None THEN now + RetryAfter(result.wait) ELSE promised
        /\ ~RoomAt(active, at) /\ RoomAt(active, at + result.wait)
    BY <1>1, <1>3, <1>10, <1>12 DEF active
  <2>2. active # <<>>
    BY <1>6, <2>1 DEF RoomAt
  <2>3. dropped' = dropped + m
    <3>1. Len(stamps') = n /\ Len(admitted') = Len(admitted)
      BY <1>4, <2>1
    <3>2. dropped' = Len(admitted') - Len(stamps')
      BY DEF dropped
    <3> QED
      BY <1>2, <1>7, <3>1, <3>2
  <2>4. RetryAfter(result.wait) \in Nat /\ RetryAfter(result.wait) >= result.wait
    BY <1>1, RoundedUp
  <2>5. TypeOK'
    <3>1. document' \in [checked : Nat, stamps : Seq(Nat) \ {<<>>}]
      BY <1>1, <1>2, <1>3, <1>4, <1>10, <2>1, <2>2
    <3>2. promised' \in Nat \union {None}
      BY <1>7, <2>1, <2>4
    <3>3. pc' \in [Requests -> {"idle", "retrying"}]
      BY <1>3, <1>7
    <3> QED
      BY <1>3, <1>7, <2>1, <3>1, <3>2, <3>3 DEF TypeOK
  <2>6. StampsAreTimes'
    BY <1>2, <1>3, <1>4, <1>5, <1>7, <1>9, <1>10, <2>1 DEF StampsAreTimes, Ascending
  <2>7. StampsAreLatest'
    <3>1. dropped + m \in Nat
      BY <1>7
    <3> QED
      BY <1>3, <1>4, <1>8, <2>1, <2>3, <3>1 DEF StampsAreLatest
  <2>8. StampsAreFew'
    BY <1>5, <2>1 DEF StampsAreFew, Few
  <2>9. PromiseHolds'
    <3>1. CASE promised = None
      <4>1. promised' = now + RetryAfter(result.wait)
        BY <2>1, <3>1
      <4>2. at + result.wait <= promised' + Skew /\ promised' \in Nat
        BY <1>1, <1>2, <1>6, <1>7, <2>4, <4>1
      <4>3. Len(active) = MinuteLimit => active[1] \in Nat
        BY <1>4, <1>6, <1>9
      <4>4. Len(active) >= BurstLimit => active[Len(active) - BurstLimit + 1] \in Nat
        BY <1>4, <1>6, <1>9
      <4>5. RoomAt(active, promised' + Skew)
        <5> DEFINE early == at + result.wait
                   late == promised' + Skew
        <5>1. early \in Nat /\ late \in Nat /\ early <= late /\ RoomAt(active, early)
          BY <1>1, <1>2, <1>6, <2>1, <4>2
        <5> HIDE DEF early, late
        <5>2. RoomAt(active, late)
          BY <1>6, <4>3, <4>4, <5>1 DEF RoomAt
        <5> QED
          BY <5>2 DEF late
      <4> QED
        BY <2>1, <4>5 DEF PromiseHolds, RoomAt
    <3>2. CASE promised # None
      <4>1. promised' = promised /\ promised + Skew \in Nat
        BY <1>6, <1>7, <2>1, <3>2
      <4>2. RoomAt(active, promised + Skew)
        BY <1>5, <1>7, <3>2, <4>1
      <4> QED
        BY <2>1, <4>1, <4>2 DEF PromiseHolds, RoomAt
    <3> QED
      BY <3>1, <3>2
  <2> QED
    BY <2>5, <2>6, <2>7, <2>8, <2>9 DEF IInv
<1> QED
  BY <1>1, <1>11, <1>12

\* The document expires when the last of its stamps has left the longer window, and with
\* it every other one.
LEMMA ExpireKeeps ==
  ASSUME IInv, Expire
  PROVE  IInv'
<1>1. /\ document # None /\ ExpiresAt(document.stamps) <= NOW /\ document' = None
      /\ now' = now /\ offset' = offset /\ pc' = pc /\ admitted' = admitted
      /\ promised' = promised
  BY DEF Expire
<1>2. /\ stamps = document.stamps /\ stamps \in Seq(Nat) /\ Len(stamps) \in Nat \ {0}
      /\ stamps[Len(stamps)] + MinuteWindow <= now + Skew
  <2>1. stamps = document.stamps /\ document.stamps \in Seq(Nat) \ {<<>>}
    BY <1>1 DEF IInv, TypeOK, stamps, Fields
  <2>2. stamps[Len(stamps)] + MinuteWindow <= now + offset
    BY <1>1, <2>1 DEF ExpiresAt, Last, NOW
  <2>3. Len(stamps) \in Nat \ {0}
    BY <2>1
  <2>4. stamps[Len(stamps)] \in Nat /\ MinuteWindow \in Nat /\ Skew \in Nat /\ now \in Nat
        /\ offset \in 0..Skew
    BY <2>1, <2>3, RateLimiterAssumption DEF IInv, TypeOK
  <2> QED
    BY <2>1, <2>2, <2>3, <2>4
<1>3. stamps' = <<>> /\ checked' = 0
  BY <1>1 DEF stamps, checked, Fields
<1>4. /\ MinuteLimit \in Nat \ {0} /\ BurstLimit \in Nat \ {0} /\ MinuteWindow \in Nat
      /\ Skew \in Nat /\ now \in Nat /\ admitted \in Seq(Nat)
      /\ dropped \in Nat /\ dropped + Len(stamps) = Len(admitted)
  BY <1>2, RateLimiterAssumption DEF IInv, TypeOK, StampsAreLatest, dropped
<1>5. dropped' = Len(admitted)
  BY <1>1, <1>3, <1>4 DEF dropped
<1>6. ASSUME NEW i \in 1..Len(admitted)
      PROVE  admitted[i] + MinuteWindow <= now + Skew
  <2>1. CASE i \in 1..dropped
    BY <2>1 DEF IInv, StampsAreLatest
  <2>2. CASE i > dropped
    <3>1. i - dropped \in 1..Len(stamps) /\ dropped + (i - dropped) = i
      BY <1>4, <2>2
    <3>2. admitted[i] <= stamps[i - dropped]
      BY <3>1 DEF IInv, StampsAreLatest
    <3>3. stamps[i - dropped] <= stamps[Len(stamps)]
      BY <1>2, <3>1 DEF IInv, StampsAreTimes, Ascending
    <3>4. admitted[i] \in Nat /\ stamps[i - dropped] \in Nat /\ stamps[Len(stamps)] \in Nat
      <4>1. Len(stamps) \in 1..Len(stamps) /\ stamps \in Seq(Nat) /\ admitted \in Seq(Nat)
        BY <1>2, <1>4
      <4> QED
        BY <3>1, <4>1, ElementIsNumber
    <3>5. MinuteWindow \in Nat /\ Skew \in Nat /\ now \in Nat
          /\ stamps[Len(stamps)] + MinuteWindow <= now + Skew
      BY <1>2, <1>4
    <3> QED
      BY <3>2, <3>3, <3>4, <3>5
  <2> QED
    BY <1>4, <2>1, <2>2
<1>7. TypeOK' /\ StampsAreTimes'
  BY <1>1, <1>3, <1>4 DEF IInv, TypeOK, StampsAreTimes, Ascending
<1>8. StampsAreLatest'
  BY <1>1, <1>3, <1>4, <1>5, <1>6 DEF StampsAreLatest
<1>9. StampsAreFew' /\ PromiseHolds'
  BY <1>3, <1>4 DEF StampsAreFew, Few, PromiseHolds, RoomAt
<1> QED
  BY <1>7, <1>8, <1>9 DEF IInv

LEMMA LaterOn ==
  \A a, b, c, d \in Nat : a <= b + c /\ b <= d => a <= d + c
<1> QED
  OBVIOUS

\* Time passes, the clock changes, a request waits: the document is what it was.
LEMMA OthersKeep ==
  ASSUME IInv, UNCHANGED <<document, admitted, promised>>,
         now' \in Nat, now <= now', offset' \in 0..Skew, pc' \in [Requests -> {"idle", "retrying"}]
  PROVE  IInv'
<1>1. stamps' = stamps /\ checked' = checked
  BY DEF stamps, checked
<1>2. dropped' = dropped
  BY <1>1 DEF dropped
<1>3. /\ stamps \in Seq(Nat) /\ checked \in Nat /\ admitted \in Seq(Nat) /\ now \in Nat
      /\ Skew \in Nat /\ MinuteWindow \in Nat
  BY TimeOfReservation, RateLimiterAssumption DEF IInv, TypeOK
<1>4. TypeOK'
  BY DEF IInv, TypeOK
<1>5. StampsAreTimes'
  <2>1. \A i \in 1..Len(admitted) : admitted[i] \in Nat /\ admitted[i] <= now
    BY <1>3 DEF IInv, StampsAreTimes
  <2>2. \A i \in 1..Len(admitted) : admitted[i] <= now'
    BY <1>3, <2>1
  <2>3. checked <= now' + Skew
    <3>1. checked <= now + Skew
      BY DEF IInv, StampsAreTimes
    <3>2. checked \in Nat /\ now \in Nat /\ Skew \in Nat
      BY <1>3
    <3> QED
      BY <3>1, <3>2, LaterOn
  <2> QED
    BY <1>1, <2>2, <2>3 DEF IInv, StampsAreTimes, Ascending
<1>6. StampsAreLatest'
  <2>1. dropped \in Nat /\ dropped <= Len(admitted)
    BY <1>3 DEF IInv, StampsAreLatest, dropped
  <2>2. \A i \in 1..dropped : admitted[i] \in Nat /\ admitted[i] + MinuteWindow <= now + Skew
    BY <1>3, <2>1 DEF IInv, StampsAreLatest
  <2>3. \A i \in 1..dropped : admitted[i] + MinuteWindow <= now' + Skew
    BY <1>3, <2>2
  <2> QED
    BY <1>1, <1>2, <2>3 DEF IInv, StampsAreLatest
<1>7. StampsAreFew' /\ PromiseHolds'
  BY <1>1 DEF IInv, StampsAreFew, Few, PromiseHolds, RoomAt
<1> QED
  BY <1>4, <1>5, <1>6, <1>7 DEF IInv

\* No attempt and no document: the invariant holds at the start.
THEOREM Initially ==
  ASSUME Init PROVE IInv
<1>1. Skew \in Nat /\ MinuteLimit \in Nat \ {0} /\ BurstLimit \in Nat \ {0} /\ MinuteWindow \in Nat
  BY RateLimiterAssumption
<1>2. stamps = <<>> /\ checked = 0 /\ admitted = <<>> /\ promised = None
  BY DEF Init, stamps, checked, Fields
<1>3. TypeOK
  BY DEF Init, TypeOK
<1>4. dropped = 0
  BY <1>2 DEF dropped
<1> QED
  BY <1>1, <1>2, <1>3, <1>4 DEF Init, IInv, StampsAreTimes, Ascending, StampsAreLatest,
                                StampsAreFew, Few, PromiseHolds

\* Every attempt, every passage of time and every expiry preserves the invariant.
THEOREM Inductive ==
  ASSUME IInv, [Next]_vars PROVE IInv'
<1>1. CASE Expire
  BY <1>1, ExpireKeeps
<1>2. CASE ChangePrimary
  BY <1>2, OthersKeep DEF ChangePrimary, IInv, TypeOK
<1>3. CASE Tick
  <2>1. now' \in Nat /\ now <= now'
    BY <1>3 DEF Tick, IInv, TypeOK
  <2> QED
    BY <1>3, <2>1, OthersKeep DEF Tick, IInv, TypeOK
<1>4. ASSUME NEW r \in Requests, Attempt(r) \/ Retry(r) PROVE IInv'
  BY <1>4, ReserveKeeps DEF Attempt, Retry
<1>5. ASSUME NEW r \in Requests, DuplicateKey(r) \/ RetryFindsNone(r) PROVE IInv'
  <2>1. pc' \in [Requests -> {"idle", "retrying"}] /\ now' \in Nat /\ now <= now'
        /\ offset' \in 0..Skew /\ UNCHANGED <<document, admitted, promised>>
    <3>1. PICK place \in {"idle", "retrying"} :
            /\ pc' = [pc EXCEPT ![r] = place]
            /\ UNCHANGED <<now, offset, document, admitted, promised>>
      BY <1>5 DEF DuplicateKey, RetryFindsNone
    <3> QED
      BY <3>1 DEF IInv, TypeOK
  <2> QED
    BY <2>1, OthersKeep
<1>6. CASE UNCHANGED vars
  <2>1. now' \in Nat /\ now <= now' /\ UNCHANGED <<document, admitted, promised>>
        /\ offset' \in 0..Skew /\ pc' \in [Requests -> {"idle", "retrying"}]
    BY <1>6 DEF vars, IInv, TypeOK
  <2> QED
    BY <2>1, OthersKeep
<1> QED
  BY <1>1, <1>2, <1>3, <1>4, <1>5, <1>6 DEF Next

\* The stamps of the document stand for the attempts admitted, in every state of every
\* behaviour.
THEOREM InductiveInvariant == Spec => []IInv
<1>1. Init => IInv
  BY Initially
<1>2. IInv /\ [Next]_vars => IInv'
  BY Inductive
<1> QED
  BY <1>1, <1>2, PTL DEF Spec

-----------------------------------------------------------------------------
(* What follows.                                                           *)

\* An attempt admitted in a window of the true time, shorter by Skew, still has a stamp
\* in the window of its clock.
LEMMA LimitsFollow ==
  ASSUME IInv PROVE LimitsHold
<1>1. /\ stamps \in Seq(Nat) /\ admitted \in Seq(Nat) /\ now \in Nat /\ Skew \in Nat
      /\ MinuteWindow \in Nat /\ BurstWindow \in Nat /\ BurstWindow <= MinuteWindow
      /\ MinuteLimit \in Nat \ {0} /\ BurstLimit \in Nat \ {0}
      /\ dropped \in Nat /\ dropped = Len(admitted) - Len(stamps)
  BY TimeOfReservation, RateLimiterAssumption DEF IInv, TypeOK, StampsAreLatest, dropped
<1>2. /\ \A i \in 1..dropped : admitted[i] + MinuteWindow <= now + Skew
      /\ \A j \in 1..Len(stamps) :
           admitted[dropped + j] <= stamps[j] /\ stamps[j] <= admitted[dropped + j] + Skew
      /\ Ascending(admitted) /\ \A i \in 1..Len(admitted) : admitted[i] <= now
      /\ Few(stamps)
  BY DEF IInv, StampsAreLatest, StampsAreTimes, StampsAreFew
<1> HIDE DEF stamps, dropped
<1>3. AdmittedWithin(MinuteWindow - Skew) <= MinuteLimit
  <2> DEFINE place == Len(admitted) - (MinuteLimit + 1) + 1
  <2>1. /\ AdmittedWithin(MinuteWindow - Skew) \in Nat
        /\ AdmittedWithin(MinuteWindow - Skew) >= MinuteLimit + 1 =>
             Len(admitted) >= MinuteLimit + 1 /\ admitted[place] + (MinuteWindow - Skew) > now
    <3>1. MinuteLimit + 1 \in Nat \ {0} /\ MinuteWindow - Skew \in Int /\ now \in Int
      BY <1>1
    <3> QED
      BY <1>1, <1>2, <3>1, CountOfYoung DEF AdmittedWithin
  <2>2. ASSUME Len(admitted) >= MinuteLimit + 1
        PROVE  admitted[place] + (MinuteWindow - Skew) <= now
    <3>1. place \in 1..dropped /\ place \in 1..Len(admitted)
      BY <1>1, <1>2, <2>2 DEF Few
    <3> HIDE DEF place
    <3>2. admitted[place] + MinuteWindow <= now + Skew /\ admitted[place] \in Nat
      BY <1>1, <1>2, <3>1
    <3> QED
      BY <1>1, <3>2
  <2>3. Len(admitted) >= MinuteLimit + 1 => admitted[place] \in Nat
    BY <1>1
  <2> QED
    BY <1>1, <2>1, <2>2, <2>3
<1>4. AdmittedWithin(BurstWindow - Skew) <= BurstLimit
  <2> DEFINE place == Len(admitted) - (BurstLimit + 1) + 1
  <2>1. /\ AdmittedWithin(BurstWindow - Skew) \in Nat
        /\ AdmittedWithin(BurstWindow - Skew) >= BurstLimit + 1 =>
             Len(admitted) >= BurstLimit + 1 /\ admitted[place] + (BurstWindow - Skew) > now
    <3>1. BurstLimit + 1 \in Nat \ {0} /\ BurstWindow - Skew \in Int /\ now \in Int
      BY <1>1
    <3> QED
      BY <1>1, <1>2, <3>1, CountOfYoung DEF AdmittedWithin
  <2>2. ASSUME Len(admitted) >= BurstLimit + 1
        PROVE  admitted[place] + (BurstWindow - Skew) <= now
    <3>1. place \in 1..Len(admitted) /\ place = Len(admitted) - BurstLimit
          /\ admitted[place] \in Nat
      BY <1>1, <2>2
    <3>2. CASE place <= dropped
      <4> DEFINE early == admitted[place]
      <4>1. early + MinuteWindow <= now + Skew /\ early \in Nat
        BY <1>2, <3>1, <3>2
      <4> HIDE DEF early
      <4>2. early + (BurstWindow - Skew) <= now
        BY <1>1, <4>1
      <4> QED
        BY <4>2 DEF early
    <3>3. CASE place > dropped
      <4> DEFINE first == place - dropped
                 last == Len(stamps)
      <4>1. /\ first \in 1..last /\ last \in 1..last /\ first + BurstLimit = last
            /\ dropped + first = place /\ dropped + last = Len(admitted)
            /\ Len(admitted) \in 1..Len(admitted)
        BY <1>1, <2>2, <3>1, <3>3
      <4>2. stamps[first] + BurstWindow <= stamps[last]
        <5>1. \A j \in 1..last : j + BurstLimit <= last =>
                stamps[j] + BurstWindow <= stamps[j + BurstLimit]
          BY <1>2 DEF Few
        <5>2. first + BurstLimit <= last
          BY <1>1, <4>1
        <5> HIDE DEF first, last
        <5> QED
          BY <4>1, <5>1, <5>2
      <4>3. admitted[place] <= stamps[first] /\ stamps[last] <= admitted[Len(admitted)] + Skew
        BY <1>2, <4>1
      <4>4. admitted[Len(admitted)] <= now
        BY <1>2, <4>1
      <4>5. stamps[first] \in Nat /\ stamps[last] \in Nat /\ admitted[Len(admitted)] \in Nat
        <5> HIDE DEF first, last
        <5>1. stamps \in Seq(Nat) /\ admitted \in Seq(Nat)
          BY <1>1
        <5> QED
          BY <4>1, <5>1, ElementIsNumber DEF last
      <4>6. admitted[place] \in Nat /\ BurstWindow \in Nat /\ Skew \in Nat /\ now \in Nat
        BY <1>1, <3>1
      <4> HIDE DEF first, last, place
      <4> QED
        BY <4>2, <4>3, <4>4, <4>5, <4>6
    <3> QED
      BY <1>1, <3>1, <3>2, <3>3
  <2>3. Len(admitted) >= BurstLimit + 1 => admitted[place] \in Nat
    BY <1>1
  <2> QED
    BY <1>1, <2>1, <2>2, <2>3
<1> QED
  BY <1>3, <1>4 DEF LimitsHold

LEMMA RefusalsFollow ==
  ASSUME IInv PROVE RefusedOnlyWhenFull
<1> SUFFICES ASSUME Reservation(Fields(document)).wait > 0
             PROVE  \/ AdmittedWithin(MinuteWindow + Skew) >= MinuteLimit
                    \/ AdmittedWithin(BurstWindow + Skew) >= BurstLimit
  BY DEF RefusedOnlyWhenFull
<1> DEFINE at == CheckedAt(Fields(document))
<1>1. PICK m \in 0..Len(stamps) :
        /\ \A i \in 1..Len(stamps) : stamps[i] + MinuteWindow > at <=> i > m
        /\ ~RoomAt(Suffix(stamps, m), at)
  BY Outcome
<1>2. at \in Nat /\ now <= at
  BY TimeOfReservation DEF IInv
<1> HIDE DEF at
<1>3. /\ stamps \in Seq(Nat) /\ admitted \in Seq(Nat) /\ now \in Nat /\ Skew \in Nat
      /\ MinuteWindow \in Nat /\ BurstWindow \in Nat
      /\ MinuteLimit \in Nat \ {0} /\ BurstLimit \in Nat \ {0}
      /\ dropped \in Nat /\ dropped = Len(admitted) - Len(stamps) /\ Ascending(admitted)
      /\ \A j \in 1..Len(stamps) : stamps[j] <= admitted[dropped + j] + Skew
  BY TimeOfReservation, RateLimiterAssumption
     DEF IInv, TypeOK, StampsAreTimes, StampsAreLatest, dropped
<1> HIDE DEF stamps, dropped
<1> DEFINE n == Len(stamps) - m
           active == Suffix(stamps, m)
<1>4. Len(active) = n /\ n \in Nat /\ \A k \in 1..n : active[k] = stamps[m + k]
  BY <1>3, SuffixProperties
<1> HIDE DEF active
\* The limit-th active stamp from the end is too young: so is its attempt, by Skew more.
<1>5. ASSUME NEW limit \in Nat \ {0}, NEW window \in Nat, n >= limit,
             active[n - limit + 1] + window > at
      PROVE  AdmittedWithin(window + Skew) >= limit
  <2>1. /\ m + (n - limit + 1) \in 1..Len(stamps) /\ n - limit + 1 \in 1..n
        /\ dropped + (m + (n - limit + 1)) = Len(admitted) - limit + 1
        /\ Len(admitted) >= limit /\ Len(admitted) - limit + 1 \in 1..Len(admitted)
    BY <1>3, <1>5
  <2> DEFINE s == stamps[m + (n - limit + 1)]
             a == admitted[Len(admitted) - limit + 1]
  <2>2. s + window > at
    BY <1>4, <1>5, <2>1
  <2>3. s <= a + Skew
    BY <1>3, <2>1
  <2>4. s \in Nat /\ a \in Nat
    <3> DEFINE i == m + (n - limit + 1)
               k == Len(admitted) - limit + 1
    <3>1. i \in 1..Len(stamps) /\ k \in 1..Len(admitted)
      BY <2>1
    <3> HIDE DEF i, k
    <3>2. stamps[i] \in Nat /\ admitted[k] \in Nat
      BY <1>3, <3>1
    <3> QED
      BY <3>2 DEF i, k
  <2> HIDE DEF s, a
  <2>5. a + (window + Skew) > now /\ window + Skew \in Int /\ now \in Int
    BY <1>2, <1>3, <2>2, <2>3, <2>4
  <2> QED
    BY <1>3, <2>1, <2>5, CountOfYoung DEF AdmittedWithin, a
<1>6. CASE n = MinuteLimit
  <2>1. n - MinuteLimit + 1 = 1 /\ m + 1 \in 1..Len(stamps) /\ m + 1 > m /\ 1 \in 1..n
    <3>1. Len(stamps) \in Nat /\ m \in Nat /\ MinuteLimit \in Nat \ {0}
      BY <1>3
    <3> QED
      BY <1>6, <3>1
  <2>2. active[n - MinuteLimit + 1] + MinuteWindow > at
    BY <1>1, <1>4, <2>1
  <2>3. n >= MinuteLimit /\ MinuteLimit \in Nat \ {0} /\ MinuteWindow \in Nat
    BY <1>3, <1>6
  <2> QED
    BY <1>5, <2>2, <2>3
<1>7. CASE n >= BurstLimit /\ ~(active[n - BurstLimit + 1] + BurstWindow <= at)
  <2>1. active[n - BurstLimit + 1] \in Nat
    <3> DEFINE k == n - BurstLimit + 1
    <3>1. k \in 1..n /\ m + k \in 1..Len(stamps)
      BY <1>3, <1>4, <1>7
    <3> HIDE DEF k
    <3>2. active[k] \in Nat
      <4>1. stamps[m + k] \in Nat
        BY <1>3, <3>1, ElementIsNumber
      <4> QED
        BY <1>4, <3>1, <4>1
    <3> QED
      BY <3>2 DEF k
  <2>2. BurstLimit \in Nat \ {0} /\ BurstWindow \in Nat /\ at \in Nat
    BY <1>2, <1>3
  <2>3. active[n - BurstLimit + 1] + BurstWindow > at
    BY <1>7, <2>1, <2>2
  <2> QED
    BY <1>5, <1>7, <2>2, <2>3
<1> QED
  BY <1>1, <1>4, <1>6, <1>7 DEF RoomAt, active

LEMMA PromisesFollow ==
  ASSUME IInv PROVE RoomAsPromised
<1> SUFFICES ASSUME promised # None, now >= promised + Skew
             PROVE  Reservation(Fields(document)).wait = 0
  BY DEF RoomAsPromised
<1> DEFINE at == CheckedAt(Fields(document))
<1>1. PICK m \in 0..Len(stamps) :
        Reservation(Fields(document)).wait = 0 <=> RoomAt(Suffix(stamps, m), at)
  BY Outcome
<1>2. /\ at \in Nat /\ now <= at /\ stamps \in Seq(Nat)
      /\ now \in Nat /\ promised \in Nat /\ Skew \in Nat
  BY TimeOfReservation, RateLimiterAssumption DEF IInv, TypeOK
<1> HIDE DEF at
<1>3. RoomAt(stamps, promised + Skew)
  BY DEF IInv, PromiseHolds
<1>4. RoomAt(stamps, at)
  <2> DEFINE t == promised + Skew
  <2>1. t \in Nat /\ t <= at
    BY <1>2
  <2>2. Len(stamps) = MinuteLimit => stamps[1] \in Nat
    BY <1>2, RateLimiterAssumption
  <2>3. Len(stamps) >= BurstLimit => stamps[Len(stamps) - BurstLimit + 1] \in Nat
    BY <1>2, RateLimiterAssumption
  <2>4. MinuteWindow \in Nat /\ BurstWindow \in Nat
    BY RateLimiterAssumption
  <2> HIDE DEF t
  <2>5. RoomAt(stamps, t)
    BY <1>3 DEF t
  <2> QED
    BY <1>2, <2>1, <2>2, <2>3, <2>4, <2>5 DEF RoomAt
<1>5. RoomAt(Suffix(stamps, m), at)
  BY <1>2, <1>4, SuffixKeeps DEF IInv, StampsAreTimes, StampsAreFew
<1> QED
  BY <1>1, <1>5

\* Both limits hold, for any number of requests and instances, whatever primary serves
\* them and whenever the document expires (limiter.go:47).
THEOREM BothLimits == Spec => []LimitsHold
<1> QED
  BY InductiveInvariant, LimitsFollow, PTL

\* What is refused is refused because of attempts that were admitted: a refused one
\* leaves no stamp.
THEOREM RefusalsAreDue == Spec => []RefusedOnlyWhenFull
<1> QED
  BY InductiveInvariant, RefusalsFollow, PTL

\* Retry-After is long enough, and further refusals do not put it off.
THEOREM PromisesAreKept == Spec => []RoomAsPromised
<1> QED
  BY InductiveInvariant, PromisesFollow, PTL
=============================================================================
