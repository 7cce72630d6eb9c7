---------------------------- MODULE RateLimiter ----------------------------
(***************************************************************************)
(* The limiter of send attempts: internal/resources/mongodb/               *)
(* message_rate_limiter, with the answer that the handlers of messages and *)
(* of image uploads make of it (handler/chats/create_message.go,           *)
(* handler/images/handler.go).                                             *)
(*                                                                         *)
(* One key (a user, or "image:" and a user) has one document, which every  *)
(* API instance changes by one aggregation pipeline at $$NOW, the clock of *)
(* the primary.  The primary may change, to one whose clock differs, and   *)
(* the TTL monitor deletes the document when it has expired.  Both windows *)
(* slide: the document keeps the times of the attempts admitted.           *)
(***************************************************************************)
EXTENDS Integers, Sequences, FiniteSets, SequencesExt

CONSTANTS
  Requests,                   \* requests of the key under way at once
  BurstLimit, BurstWindow,
  MinuteLimit, MinuteWindow,
  Second,                     \* ticks in a second: Retry-After is in seconds
  Skew,                       \* how far the clocks of primaries may differ
  MaxTime,                    \* bound
  None

ASSUME RateLimiterAssumption ==
  /\ {BurstLimit, BurstWindow, MinuteLimit, MinuteWindow, Second} \subseteq Nat \ {0}
  /\ BurstWindow <= MinuteWindow /\ BurstLimit <= MinuteLimit
  /\ {Skew, MaxTime} \subseteq Nat
  /\ None \notin [checked : Nat, stamps : Seq(Nat)] /\ None \notin Nat

VARIABLES
  now,       \* the true time
  offset,    \* how far the clock of the primary is ahead of it
  document,  \* [checked, stamps], or None; expires_at follows from stamps
  pc,        \* pc[r]: "idle", or "retrying" after a duplicate key
  admitted,  \* when attempts were admitted: what the properties look at
  promised   \* when the first refusal since then said there would be room, or None

vars == <<now, offset, document, pc, admitted, promised>>

Init ==
  /\ now = 0 /\ offset \in 0..Skew
  /\ document = None
  /\ pc = [r \in Requests |-> "idle"]
  /\ admitted = <<>> /\ promised = None

-----------------------------------------------------------------------------
(* The pipeline.                                                           *)

NOW == now + offset

\* Time does not go back for a document.
CheckedAt(old) == IF NOW > old.checked THEN NOW ELSE old.checked

\* $filter: the stamps at the places kept, in their order.
Filtered(stamps, kept) ==
  [k \in 1..Cardinality(kept) |->
     stamps[CHOOSE i \in kept : Cardinality({j \in kept : j <= i}) = k]]

\* Mutant: an attempt is still in the window when it is as old as the window.
ActiveStillAtEnd(stamps, at, window) ==
  Filtered(stamps, {i \in DOMAIN stamps : stamps[i] + window >= at})

activeTimestamps(stamps, at, window) ==
  Filtered(stamps, {i \in DOMAIN stamps : stamps[i] + window > at})

windowRetryAt(stamps, limit, window, at) ==
  IF Len(stamps) >= limit THEN stamps[1] + window ELSE at

Later(a, b) == IF a > b THEN a ELSE b

RetryAt(stamps, at) ==
  Later(windowRetryAt(stamps, MinuteLimit, MinuteWindow, at),
        windowRetryAt(activeTimestamps(stamps, at, BurstWindow), BurstLimit, BurstWindow, at))

\* Mutant: a refused attempt counts as well.
StampsWithRefused(stamps, at, retry) == Append(stamps, at)

StampsAfter(stamps, at, retry) == IF retry <= at THEN Append(stamps, at) ELSE stamps

\* The document that the pipeline makes of old, and the wait that it answers.
Reservation(old) ==
  LET at == CheckedAt(old)
      active == activeTimestamps(old.stamps, at, MinuteWindow)
      retry == RetryAt(active, at)
  IN [checked |-> at, stamps |-> StampsAfter(active, at, retry), wait |-> retry - at]

\* An upsert applies the pipeline to a document without fields.
Fields(d) == IF d = None THEN [checked |-> 0, stamps |-> <<>>] ELSE d

-----------------------------------------------------------------------------
(* Requests.                                                               *)

\* Retry-After is the wait in whole seconds, rounded up.
RetryAfter(wait) == ((wait + Second - 1) \div Second) * Second

\* The pipeline runs, and the handler goes on or answers 429.
Reserve(r) ==
  LET result == Reservation(Fields(document))
  IN /\ document' = [checked |-> result.checked, stamps |-> result.stamps]
     /\ pc' = [pc EXCEPT ![r] = "idle"]
     /\ \/ /\ result.wait = 0
           /\ admitted' = Append(admitted, now)
           /\ promised' = None
        \/ /\ result.wait > 0
           /\ promised' = IF promised = None THEN now + RetryAfter(result.wait) ELSE promised
           /\ UNCHANGED admitted
     /\ UNCHANGED <<now, offset>>

Attempt(r) == pc[r] = "idle" /\ Reserve(r)

\* Another request has made the document between the search and the insertion of this one.
DuplicateKey(r) ==
  /\ pc[r] = "idle" /\ document # None
  /\ pc' = [pc EXCEPT ![r] = "retrying"]
  /\ UNCHANGED <<now, offset, document, admitted, promised>>

Retry(r) == pc[r] = "retrying" /\ document # None /\ Reserve(r)

\* The document has expired in the meantime: 503, and nothing is counted.
RetryFindsNone(r) ==
  /\ pc[r] = "retrying" /\ document = None
  /\ pc' = [pc EXCEPT ![r] = "idle"]
  /\ UNCHANGED <<now, offset, document, admitted, promised>>

-----------------------------------------------------------------------------
(* MongoDB.                                                                *)

\* Mutant: the document expires a window after its first attempt.
ExpiresAtFirst(stamps) == stamps[1] + MinuteWindow

ExpiresAt(stamps) == Last(stamps) + MinuteWindow

\* The TTL monitor.
Expire ==
  /\ document # None /\ ExpiresAt(document.stamps) <= NOW
  /\ document' = None
  /\ UNCHANGED <<now, offset, pc, admitted, promised>>

\* The next primary has another clock.
ChangePrimary ==
  /\ offset' \in (0..Skew) \ {offset}
  /\ UNCHANGED <<now, document, pc, admitted, promised>>

Tick ==
  /\ now < MaxTime
  /\ now' = now + 1
  /\ UNCHANGED <<offset, document, pc, admitted, promised>>

Next ==
  \/ Expire \/ ChangePrimary \/ Tick
  \/ \E r \in Requests : Attempt(r) \/ DuplicateKey(r) \/ Retry(r) \/ RetryFindsNone(r)

Spec == Init /\ [][Next]_vars

-----------------------------------------------------------------------------
(* Properties.                                                             *)

\* The attempts admitted less than span ago, or just then.
AdmittedWithin(span) == Cardinality({i \in DOMAIN admitted : admitted[i] + span > now})

\* Both limits hold together, whichever instances and primaries serve the attempts, and
\* across the expiry of the document: a window shorter than theirs by the difference of
\* the clocks never has more (docs/frontend-messages-contract.md:63).
LimitsHold ==
  /\ AdmittedWithin(MinuteWindow - Skew) <= MinuteLimit
  /\ AdmittedWithin(BurstWindow - Skew) <= BurstLimit

\* An attempt is refused only when one of the windows, longer by the difference of the
\* clocks, is full: what was refused does not count.
RefusedOnlyWhenFull ==
  Reservation(Fields(document)).wait > 0 =>
    \/ AdmittedWithin(MinuteWindow + Skew) >= MinuteLimit
    \/ AdmittedWithin(BurstWindow + Skew) >= BurstLimit

\* There is room when a refusal said that there would be, unless another attempt took
\* it; further refusals in between do not put it off (docs/frontend-messages-contract.md:65).
RoomAsPromised ==
  promised # None /\ now >= promised + Skew => Reservation(Fields(document)).wait = 0
=============================================================================
