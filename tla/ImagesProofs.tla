---------------------------- MODULE ImagesProofs ----------------------------
(***************************************************************************)
(* For any uploads, cleaners, contents and periods that satisfy the two    *)
(* assumptions: an image that is READY or ATTACHED is in the bucket, and   *)
(* one that is DELETED never is again.                                     *)
(*                                                                         *)
(* Reach(u) is how much longer upload u can still bring the object about.  *)
(* The argument follows it through the life of the document: the holder's  *)
(* reach is bounded by what is left of its lease, anybody else's by        *)
(* Margin; so a claim leaves every reach shorter than the grace less a     *)
(* suspension; and so the deletion that is judged after the grace ran when *)
(* nobody could reach the object any more.                                 *)
(***************************************************************************)
EXTENDS Images, TLAPS

Reach(u) == IF pc[u] = "reserved" THEN delay[u] + PutTime ELSE put[u]

Margin == Grace - Skew - Suspension
Slack == Skew + Suspension + PutTime - Lease

\* How far upload u reaches, by the state of the document.
Bounded(u) ==
  /\ image.status \in {"ABSENT", "DELETED"} => Reach(u) = 0
  /\ image.status = "PENDING" =>
       Reach(u) < Margin \/ (image.uploadToken = u /\ Reach(u) <= image.locked + Slack)
  /\ image.status = "READY" => Reach(u) < Margin
  /\ image.status = "DELETING" => Reach(u) = 0 \/ Reach(u) < image.grace - Suspension

\* What upload u knows of the document and of the object.
UploadInv(u) ==
  /\ image.status = "ABSENT" => pc[u] \in {"new", "done"}
  /\ image.uploadToken = u => image.status = "PENDING"
  /\ pc[u] \in {"taking", "reserved", "storing", "stored"} => image.content = input[u]
  /\ pc[u] = "stored" => put[u] = 0 /\ (object \/ image.status \in {"DELETING", "DELETED"})

\* What cleaner c knows: a deletion that could be judged the last one left
\* nothing behind and came after every PUT.
CleanerInv(c) ==
  /\ pc[c] \in {"claimed", "deleted"} => image.status \in {"DELETING", "DELETED"}
  /\ pc[c] = "deleted" /\ image.deleteToken = c /\ image.status = "DELETING" =>
       (~object /\ \A u \in Uploads : Reach(u) = 0) \/ image.grace > delay[c]

ObjectInv ==
  /\ image.status \in {"READY", "ATTACHED"} => object
  /\ image.status = "DELETED" => ~object

IInv ==
  /\ TypeOK
  /\ \A u \in Uploads : Bounded(u) /\ UploadInv(u)
  /\ \A c \in Cleaners : CleanerInv(c)
  /\ ObjectInv

\* Arithmetic of the two assumptions.
LEMMA Margins ==
  /\ Margin \in Int /\ Slack \in Int
  /\ PutTime < Margin /\ Slack < Margin /\ 0 < Margin
  /\ Margin = Grace - Skew - Suspension
  /\ Slack = Skew + Suspension + PutTime - Lease
BY ImagesAssumption, DeadlinesAssumption DEF Margin, Slack

\* What the assumptions say of the constants, in the form the steps use.
LEMMA Constants ==
  /\ Lease \in Nat /\ AbandonAfter \in Nat /\ Grace \in Nat /\ Skew \in Nat
  /\ Suspension \in Nat /\ PutTime \in Nat /\ PutTime > 0
  /\ \A c \in Cleaners : c \notin Uploads /\ c \in Processes /\ c # NoToken
  /\ \A u \in Uploads : u \notin Cleaners /\ u \in Processes /\ u # NoToken
BY ImagesAssumption DEF Processes

\* The types of the fields and of what is added and compared.
LEMMA Types ==
  ASSUME TypeOK
  PROVE  /\ image.status \in {"ABSENT", "PENDING", "READY", "ATTACHED", "DELETING", "DELETED"}
         /\ image.locked \in Int /\ -Skew <= image.locked /\ image.locked <= Lease
         /\ image.grace \in Int /\ -Skew <= image.grace /\ image.grace <= Grace
         /\ image.expires \in Int
         /\ \A u \in Uploads : /\ put[u] \in Nat /\ put[u] <= PutTime
                               /\ delay[u] \in Nat /\ delay[u] <= Suspension
                               /\ Reach(u) \in Nat
         /\ \A c \in Cleaners : delay[c] \in Nat /\ delay[c] <= Suspension
BY Constants DEF TypeOK, Documents, Reach

-----------------------------------------------------------------------------
(* Types. *)

\* Time keeps the type of a period.
LEMMA DownStays ==
  ASSUME NEW top \in Nat, NEW left \in -Skew..top
  PROVE  Down(left) \in -Skew..top
BY Constants DEF Down

\* A period that begins at a clock that is behind has the type of a period.
LEMMA FromStays ==
  ASSUME NEW period \in Nat, NEW lag \in Lags
  PROVE  From(period, lag) \in -Skew..period
BY Constants DEF From, Lags

\* Goto keeps the types of pc and delay.
LEMMA GotoTypes ==
  ASSUME TypeOK, NEW p \in Processes,
         NEW place \in {"new", "taking", "reserved", "storing", "stored", "releasing",
                        "done", "idle", "claimed", "deleted"},
         Goto(p, place)
  PROVE  /\ pc' \in [Processes -> {"new", "taking", "reserved", "storing", "stored", "releasing",
                                   "done", "idle", "claimed", "deleted"}]
         /\ delay' \in [Processes -> 0..Suspension]
         /\ pc'[p] = place
         /\ delay'[p] = IF place \in {"reserved", "deleted"} THEN Suspension ELSE 0
         /\ \A q \in Processes \ {p} : pc'[q] = pc[q] /\ delay'[q] = delay[q]
BY Constants DEF TypeOK, Goto

\* A step of an upload keeps the types.
LEMMA UploadTypes ==
  ASSUME TypeOK, NEW u \in Uploads, UploadStep(u)
  PROVE  TypeOK'
<1> USE Constants
<1>0. image \in Documents /\ put \in [Uploads -> 0..PutTime] /\ answer \in [Uploads -> Answers]
      /\ input \in [Uploads -> Contents] /\ object \in BOOLEAN
  BY DEF TypeOK
<1>1. ASSUME NEW lag \in Lags, Insert(u, lag) PROVE TypeOK'
  <2>1. From(Lease, lag) \in -Skew..Lease /\ From(AbandonAfter, lag) \in -Skew..AbandonAfter
        /\ -Skew \in -Skew..Grace
    BY FromStays
  <2>2. image' = [status |-> "PENDING", content |-> input[u], uploadToken |-> u, deleteToken |-> NoToken,
                  expires |-> From(AbandonAfter, lag), locked |-> From(Lease, lag), grace |-> -Skew,
                  waits |-> FALSE]
    BY <1>1 DEF Insert, NoImage
  <2>3. image' \in Documents
    BY <1>0, <2>1, <2>2 DEF Documents
  <2> QED
    BY <1>0, <1>1, <2>3, GotoTypes DEF Insert, TypeOK
<1>2. ASSUME NEW lag \in Lags, FindDuplicate(u, lag) PROVE TypeOK'
  BY <1>0, <1>2, GotoTypes DEF FindDuplicate, Finish, TypeOK, Answers
<1>3. ASSUME NEW lag \in Lags, TakeOver(u, lag) PROVE TypeOK'
  <2>1. From(Lease, lag) \in -Skew..Lease
    BY FromStays
  <2>2. image' \in Documents
    BY <1>0, <1>3, <2>1 DEF TakeOver, Documents
  <2> QED
    BY <1>0, <1>3, <2>2, GotoTypes DEF TakeOver, Finish, TypeOK, Answers
<1>4. ASSUME NEW lag \in Lags, MarkReady(u, lag) PROVE TypeOK'
  <2>1. From(0, lag) \in -Skew..Lease
    BY FromStays
  <2>2. image' \in Documents
    BY <1>0, <1>4, <2>1 DEF MarkReady, Confirmed, Documents
  <2> QED
    BY <1>0, <1>4, <2>2, GotoTypes DEF MarkReady, Finish, TypeOK, Answers
<1>5. CASE SendPut(u)
  BY <1>0, <1>5, GotoTypes DEF SendPut, TypeOK
<1>6. CASE Store(u)
  BY <1>0, <1>6, GotoTypes DEF Store, TypeOK
<1>7. CASE PutFails(u)
  BY <1>0, <1>7, GotoTypes DEF PutFails, Finish, TypeOK, Answers
<1>8. CASE ReleaseUpload(u)
  <2>1. -Skew \in -Skew..Lease
    OBVIOUS
  <2>2. image' \in Documents
    BY <1>0, <1>8, <2>1 DEF ReleaseUpload, Documents
  <2> QED
    BY <1>0, <1>8, <2>2, GotoTypes DEF ReleaseUpload, TypeOK
<1>9. CASE Fail(u)
  BY <1>0, <1>9, GotoTypes DEF Fail, Finish, TypeOK, Answers
<1> QED
  BY <1>1, <1>2, <1>3, <1>4, <1>5, <1>6, <1>7, <1>8, <1>9 DEF UploadStep

\* A step of a cleaner keeps the types.
LEMMA CleanupTypes ==
  ASSUME TypeOK, NEW c \in Cleaners, CleanupStep(c)
  PROVE  TypeOK'
<1> USE Constants
<1>0. image \in Documents /\ put \in [Uploads -> 0..PutTime] /\ answer \in [Uploads -> Answers]
      /\ input \in [Uploads -> Contents] /\ object \in BOOLEAN
  BY DEF TypeOK
<1>1. ASSUME NEW lag \in Lags, ClaimAbandoned(c, lag) PROVE TypeOK'
  <2>1. image' \in Documents
    BY <1>0, <1>1, FromStays DEF ClaimAbandoned, Documents
  <2> QED
    BY <1>0, <1>1, <2>1, GotoTypes DEF ClaimAbandoned, TypeOK
<1>2. ASSUME NEW lag \in Lags, ClaimRetry(c, lag) PROVE TypeOK'
  <2>1. image' \in Documents
    BY <1>0, <1>2, FromStays DEF ClaimRetry, Documents
  <2> QED
    BY <1>0, <1>2, <2>1, GotoTypes DEF ClaimRetry, TypeOK
<1>3. ASSUME NEW lag \in Lags, CompleteDeletion(c, lag) PROVE TypeOK'
  <2>1. From(0, lag) \in -Skew..Lease
    BY FromStays
  <2>2. image' \in Documents
    BY <1>0, <1>3, <2>1 DEF CompleteDeletion, Documents
  <2> QED
    BY <1>0, <1>3, <2>2, GotoTypes DEF CompleteDeletion, TypeOK
<1>4. CASE Delete(c) \/ DeleteFails(c) \/ Abort(c)
  BY <1>0, <1>4, GotoTypes DEF Delete, DeleteFails, Abort, TypeOK
<1> QED
  BY <1>1, <1>2, <1>3, <1>4 DEF CleanupStep

\* Time and a message keep the types.
LEMMA OtherTypes ==
  ASSUME TypeOK, Tick \/ (\E lag \in Lags : Attach(lag)) \/ UNCHANGED vars
  PROVE  TypeOK'
<1> USE Constants
<1>1. CASE Tick
  <2>1. image' \in Documents
    BY <1>1, DownStays DEF Tick, TypeOK, Documents
  <2>2. delay' \in [Processes -> 0..Suspension] /\ put' \in [Uploads -> 0..PutTime]
    BY <1>1 DEF Tick, TypeOK
  <2> QED
    BY <1>1, <2>1, <2>2 DEF Tick, TypeOK
<1>2. CASE \E lag \in Lags : Attach(lag)
  BY <1>2 DEF Attach, TypeOK, Documents, processVars
<1>3. CASE UNCHANGED vars
  BY <1>3 DEF TypeOK, vars, processVars
<1> QED
  BY <1>1, <1>2, <1>3

-----------------------------------------------------------------------------
(* The inductive step. *)

\* IInv holds at the start.
LEMMA InitIInv == Init => IInv
<1> SUFFICES ASSUME Init PROVE IInv
  OBVIOUS
<1> USE Constants
<1>1. TypeOK
  <2>1. -Skew \in -Skew..AbandonAfter /\ -Skew \in -Skew..Lease /\ -Skew \in -Skew..Grace
    OBVIOUS
  <2>2. NoImage \in Documents
    BY <2>1 DEF NoImage, Documents
  <2>3. 0 \in 0..Suspension /\ 0 \in 0..PutTime
    OBVIOUS
  <2> QED
    BY <2>2, <2>3 DEF Init, TypeOK, Answers
<1>2. \A u \in Uploads : Bounded(u) /\ UploadInv(u)
  BY DEF Init, NoImage, Bounded, UploadInv, Reach
<1>3. (\A c \in Cleaners : CleanerInv(c)) /\ ObjectInv
  BY DEF Init, NoImage, CleanerInv, ObjectInv
<1> QED
  BY <1>1, <1>2, <1>3 DEF IInv

\* While the document stays as it is, a reach that shrinks stays bounded.
LEMMA ShrinkingReach ==
  ASSUME TypeOK, NEW u \in Uploads, Bounded(u), image' = image,
         Reach(u)' \in Nat, Reach(u)' <= Reach(u)
  PROVE  Bounded(u)'
<1>1. Reach(u) \in Nat /\ image.locked \in Int /\ image.grace \in Int
  BY Types
<1>2. \A x, y \in Nat : x <= y /\ (y = 0 \/ y < image.grace - Suspension)
                          => x = 0 \/ x < image.grace - Suspension
  BY <1>1, Constants
<1>3. \A x, y \in Nat : x <= y /\ y < Margin => x < Margin
  BY Margins
<1>4. \A x, y \in Nat : x <= y /\ y <= image.locked + Slack => x <= image.locked + Slack
  BY <1>1, Margins
<1> QED
  BY <1>1, <1>2, <1>3, <1>4 DEF Bounded

\* Nobody cleans up before the document is DELETING.
LEMMA NoCleanerYet ==
  ASSUME IInv, image.status \notin {"DELETING", "DELETED"}, NEW c \in Cleaners,
         pc'[c] = pc[c]
  PROVE  CleanerInv(c)'
BY DEF IInv, CleanerInv

\* The steps of an upload that leave the document alone.
LEMMA QuietUploadStep ==
  ASSUME IInv, TypeOK', NEW u \in Uploads, image' = image, input' = input,
         Reach(u)' <= Reach(u),
         \A q \in Processes \ {u} : pc'[q] = pc[q] /\ delay'[q] = delay[q],
         \A v \in Uploads \ {u} : put'[v] = put[v],
         UploadInv(u)',
         object' = object \/ (object' /\ Reach(u) > 0)
  PROVE  IInv'
<1> USE Constants
<1>1. \A v \in Uploads : Reach(v)' \in Nat /\ Reach(v)' <= Reach(v)
  <2>1. \A v \in Uploads \ {u} : Reach(v)' = Reach(v)
    BY DEF Reach
  <2>2. \A v \in Uploads : Reach(v) \in Nat
    BY Types DEF IInv
  <2>3. \A v \in Uploads : Reach(v)' \in Nat
    BY DEF TypeOK, Reach
  <2> QED
    BY <2>1, <2>2, <2>3
<1>2. \A v \in Uploads : Bounded(v)'
  BY <1>1, ShrinkingReach DEF IInv
<1>3. ASSUME NEW v \in Uploads PROVE UploadInv(v)'
  <2>1. CASE v = u
    BY <2>1
  <2>2. CASE v # u
    BY <2>2 DEF IInv, UploadInv, TypeOK
  <2> QED
    BY <2>1, <2>2
<1>4. ASSUME NEW c \in Cleaners PROVE CleanerInv(c)'
  <2>1. CleanerInv(c) /\ pc'[c] = pc[c] /\ delay'[c] = delay[c]
    BY DEF IInv
  <2>2. ~object /\ (\A v \in Uploads : Reach(v) = 0) => ~object' /\ (\A v \in Uploads : Reach(v)' = 0)
    BY <1>1
  <2> QED
    BY <2>1, <2>2 DEF CleanerInv
<1>5. ObjectInv'
  <2>1. image.status = "DELETED" => Reach(u) = 0
    BY DEF IInv, Bounded
  <2> QED
    BY <2>1 DEF IInv, ObjectInv
<1> QED
  BY <1>2, <1>3, <1>4, <1>5 DEF IInv

\* What Goto(u, place) of an upload leaves alone, and where it leads.
LEMMA UploadGoto ==
  ASSUME TypeOK, NEW u \in Uploads,
         NEW place \in {"taking", "reserved", "storing", "stored", "releasing", "done"},
         Goto(u, place)
  PROVE  /\ pc'[u] = place
         /\ delay'[u] = IF place = "reserved" THEN Suspension ELSE 0
         /\ \A q \in Processes \ {u} : pc'[q] = pc[q] /\ delay'[q] = delay[q]
         /\ \A c \in Cleaners : pc'[c] = pc[c] /\ delay'[c] = delay[c]
BY Constants, GotoTypes

\* A step of an upload keeps IInv.
LEMMA UploadKeepsIInv ==
  ASSUME IInv, NEW u \in Uploads, UploadStep(u)
  PROVE  IInv'
<1> USE Constants
<1>0. TypeOK /\ TypeOK' /\ Bounded(u) /\ UploadInv(u) /\ ObjectInv
      /\ put[u] \in Nat /\ put[u] <= PutTime /\ delay[u] \in Nat /\ Reach(u) \in Nat
  BY UploadTypes, Types DEF IInv
<1>p. put \in [Uploads -> 0..PutTime]
  BY <1>0 DEF TypeOK
<1>1. ASSUME NEW lag \in Lags, Insert(u, lag) PROVE IInv'
  <2>1. /\ pc'[u] = "reserved" /\ delay'[u] = Suspension
        /\ \A q \in Processes \ {u} : pc'[q] = pc[q] /\ delay'[q] = delay[q]
        /\ \A c \in Cleaners : pc'[c] = pc[c]
    BY <1>0, <1>1, UploadGoto DEF Insert
  <2>2. /\ image.status = "ABSENT" /\ image'.status = "PENDING" /\ image'.uploadToken = u
        /\ image'.content = input[u] /\ image'.locked = From(Lease, lag)
        /\ UNCHANGED <<object, put, input>>
    BY <1>1 DEF Insert, NoImage
  <2>3. Reach(u)' <= image'.locked + Slack
    BY <2>1, <2>2, Margins DEF Reach, From, Lags
  <2>4. ASSUME NEW v \in Uploads, v # u PROVE Reach(v)' < Margin
    <3>1. Reach(v) = 0
      BY <2>2 DEF IInv, Bounded
    <3>2. Reach(v)' = Reach(v)
      BY <2>1, <2>2, <2>4 DEF Reach
    <3> QED
      BY <3>1, <3>2, Margins
  <2>5. \A v \in Uploads : Bounded(v)'
    BY <2>2, <2>3, <2>4 DEF Bounded
  <2>6. \A v \in Uploads : UploadInv(v)'
    BY <2>1, <2>2 DEF IInv, UploadInv
  <2>7. (\A c \in Cleaners : CleanerInv(c)') /\ ObjectInv'
    BY <2>1, <2>2, NoCleanerYet DEF IInv, ObjectInv
  <2> QED
    BY <1>0, <2>5, <2>6, <2>7 DEF IInv
<1>2. ASSUME NEW lag \in Lags, FindDuplicate(u, lag) PROVE IInv'
  <2>1. UNCHANGED <<image, object, put, input>> /\ pc[u] = "new" /\ image.status # "ABSENT"
        /\ ((Goto(u, "taking") /\ image.content = input[u]) \/ Goto(u, "done"))
    BY <1>2 DEF FindDuplicate, Finish
  <2>2. /\ (pc'[u] = "taking" /\ image.content = input[u]) \/ pc'[u] = "done"
        /\ \A q \in Processes \ {u} : pc'[q] = pc[q] /\ delay'[q] = delay[q]
    BY <1>0, <2>1, UploadGoto
  <2>3. Reach(u)' <= Reach(u)
    BY <1>0, <2>1, <2>2 DEF Reach
  <2>4. UploadInv(u)'
    BY <1>0, <2>1, <2>2 DEF UploadInv
  <2> QED
    BY <1>0, <2>1, <2>2, <2>3, <2>4, QuietUploadStep
<1>3. ASSUME NEW lag \in Lags, TakeOver(u, lag) PROVE IInv'
  <2>0. UNCHANGED <<object, put, input>> /\ pc[u] = "taking"
        /\ image.content = input[u] /\ image.status # "ABSENT"
    BY <1>0, <1>3 DEF TakeOver, UploadInv
  <2>1. CASE Takeable(lag) /\ Goto(u, "reserved")
             /\ image' = [image EXCEPT !.uploadToken = u, !.locked = From(Lease, lag)]
    <3>1. /\ pc'[u] = "reserved" /\ delay'[u] = Suspension
          /\ \A q \in Processes \ {u} : pc'[q] = pc[q] /\ delay'[q] = delay[q]
          /\ \A c \in Cleaners : pc'[c] = pc[c]
      BY <1>0, <2>1, UploadGoto
    <3>2. /\ image.status = "PENDING" /\ image'.status = "PENDING" /\ image'.uploadToken = u
          /\ image'.content = image.content /\ image'.locked = From(Lease, lag)
      BY <1>0, <2>1 DEF Takeable, TypeOK, Documents
    <3>3. image.locked \in Int /\ image.locked <= 0
      BY <1>0, <2>1, Types DEF Takeable, Passed, Lags
    <3>4. Reach(u)' <= image'.locked + Slack
      BY <2>0, <3>1, <3>2, Margins DEF Reach, From, Lags
    <3>5. ASSUME NEW v \in Uploads, v # u PROVE Reach(v)' < Margin
      <4>1. Reach(v)' = Reach(v) /\ Reach(v) \in Nat
        BY <1>0, <2>0, <3>1, <3>5, Types DEF Reach
      <4>2. Reach(v) < Margin \/ Reach(v) <= image.locked + Slack
        BY <3>2 DEF IInv, Bounded
      <4> QED
        BY <3>3, <4>1, <4>2, Margins
    <3>6. \A v \in Uploads : Bounded(v)'
      BY <3>2, <3>4, <3>5 DEF Bounded
    <3>7. \A v \in Uploads : UploadInv(v)'
      BY <2>0, <3>1, <3>2 DEF IInv, UploadInv
    <3>8. (\A c \in Cleaners : CleanerInv(c)') /\ ObjectInv'
      BY <3>1, <3>2, NoCleanerYet DEF ObjectInv
    <3> QED
      BY <1>0, <3>6, <3>7, <3>8 DEF IInv
  <2>2. CASE Goto(u, "done") /\ UNCHANGED image
    <3>1. /\ pc'[u] = "done"
          /\ \A q \in Processes \ {u} : pc'[q] = pc[q] /\ delay'[q] = delay[q]
      BY <1>0, <2>2, UploadGoto
    <3>2. Reach(u)' <= Reach(u) /\ UploadInv(u)'
      BY <1>0, <2>0, <2>2, <3>1 DEF Reach, UploadInv
    <3> QED
      BY <1>0, <2>0, <2>2, <3>1, <3>2, QuietUploadStep
  <2> QED
    BY <1>3, <2>1, <2>2 DEF TakeOver, Finish
<1>4. ASSUME NEW lag \in Lags, MarkReady(u, lag) PROVE IInv'
  <2>0. UNCHANGED <<object, put, input>> /\ pc[u] = "stored" /\ put[u] = 0 /\ Goto(u, "releasing")
        /\ image.status # "ABSENT" /\ Reach(u) = 0
    BY <1>0, <1>4 DEF MarkReady, Finish, UploadInv, Reach
  <2>1. /\ pc'[u] = "releasing"
        /\ \A q \in Processes \ {u} : pc'[q] = pc[q] /\ delay'[q] = delay[q]
        /\ \A c \in Cleaners : pc'[c] = pc[c]
    BY <1>0, <2>0, UploadGoto
  <2>2. \A v \in Uploads : Reach(v)' = Reach(v) /\ Reach(v) \in Nat
    BY <1>0, <2>0, <2>1, Types DEF Reach
  <2>3. CASE Confirmable(u, lag) /\ image' = Confirmed(lag)
    <3>1. /\ image.status = "PENDING" /\ image.uploadToken = u
          /\ image'.status = "READY" /\ image'.uploadToken = NoToken /\ image'.content = image.content
      BY <1>0, <2>3 DEF Confirmable, Confirmed, TypeOK, Documents
    <3>2. \A v \in Uploads : Reach(v) < Margin
      BY <2>0, <3>1, Margins DEF IInv, Bounded
    <3>3. \A v \in Uploads : Bounded(v)'
      BY <2>2, <3>1, <3>2 DEF Bounded
    <3>4. \A v \in Uploads : UploadInv(v)'
      BY <2>0, <2>1, <3>1 DEF IInv, UploadInv
    <3>5. \A c \in Cleaners : CleanerInv(c)'
      BY <2>1, <3>1, NoCleanerYet
    <3>6. ObjectInv'
      BY <1>0, <2>0, <3>1 DEF UploadInv, ObjectInv
    <3> QED
      BY <1>0, <3>3, <3>4, <3>5, <3>6 DEF IInv
  <2>4. CASE image' = image
    <3>1. UploadInv(u)' /\ Reach(u)' <= Reach(u)
      BY <1>0, <2>0, <2>1, <2>2, <2>4 DEF UploadInv
    <3> QED
      BY <1>0, <2>0, <2>1, <2>4, <3>1, QuietUploadStep
  <2> QED
    BY <1>4, <2>3, <2>4 DEF MarkReady
<1>5. CASE SendPut(u)
  <2>1. UNCHANGED <<image, object, input>> /\ pc[u] = "reserved" /\ put'[u] = PutTime
        /\ Goto(u, "storing") /\ (\A v \in Uploads \ {u} : put'[v] = put[v])
    BY <1>p, <1>5 DEF SendPut
  <2>2. pc'[u] = "storing" /\ \A q \in Processes \ {u} : pc'[q] = pc[q] /\ delay'[q] = delay[q]
    BY <1>0, <2>1, UploadGoto
  <2>3. Reach(u)' <= Reach(u) /\ UploadInv(u)'
    BY <1>0, <2>1, <2>2 DEF Reach, UploadInv
  <2> QED
    BY <1>0, <2>1, <2>2, <2>3, QuietUploadStep
<1>6. CASE Store(u)
  <2>1. UNCHANGED <<image, input>> /\ object' /\ put[u] > 0 /\ put'[u] = 0
        /\ (\A v \in Uploads \ {u} : put'[v] = put[v])
    BY <1>p, <1>6 DEF Store
  <2>2. /\ pc'[u] = pc[u] \/ (pc[u] = "storing" /\ pc'[u] = "stored")
        /\ pc'[u] = pc[u] => delay'[u] = delay[u]
        /\ \A q \in Processes \ {u} : pc'[q] = pc[q] /\ delay'[q] = delay[q]
    BY <1>0, <1>6, UploadGoto DEF Store
  <2>3. Reach(u)' <= Reach(u) /\ UploadInv(u)' /\ Reach(u) > 0
    BY <1>0, <2>1, <2>2 DEF Reach, UploadInv
  <2> QED
    BY <1>0, <2>1, <2>2, <2>3, QuietUploadStep
<1>7. CASE PutFails(u)
  <2>1. UNCHANGED <<image, object, input>> /\ pc[u] \in {"storing", "stored"} /\ put'[u] \in {put[u], 0}
        /\ Goto(u, "releasing") /\ (\A v \in Uploads \ {u} : put'[v] = put[v])
    BY <1>p, <1>7 DEF PutFails, Finish
  <2>2. pc'[u] = "releasing" /\ \A q \in Processes \ {u} : pc'[q] = pc[q] /\ delay'[q] = delay[q]
    BY <1>0, <2>1, UploadGoto
  <2>3. Reach(u)' <= Reach(u) /\ UploadInv(u)'
    BY <1>0, <2>1, <2>2 DEF Reach, UploadInv
  <2> QED
    BY <1>0, <2>1, <2>2, <2>3, QuietUploadStep
<1>8. CASE ReleaseUpload(u)
  <2>0. UNCHANGED <<object, put, input>> /\ pc[u] = "releasing" /\ Goto(u, "done")
    BY <1>8 DEF ReleaseUpload
  <2>1. /\ pc'[u] = "done"
        /\ \A q \in Processes \ {u} : pc'[q] = pc[q] /\ delay'[q] = delay[q]
        /\ \A c \in Cleaners : pc'[c] = pc[c]
    BY <1>0, <2>0, UploadGoto
  <2>2. \A v \in Uploads : Reach(v)' = Reach(v) /\ Reach(v) \in Nat
    BY <1>0, <2>0, <2>1, Types DEF Reach
  <2>3. CASE image.status = "PENDING" /\ image.uploadToken = u
             /\ image' = [image EXCEPT !.uploadToken = NoToken, !.locked = -Skew]
    <3>1. image'.status = "PENDING" /\ image'.uploadToken = NoToken /\ image'.content = image.content
      BY <1>0, <2>3 DEF TypeOK, Documents
    <3>2. \A v \in Uploads : Reach(v) < Margin
      <4>1. Reach(u) < Margin
        BY <1>0, <2>0, Margins DEF Reach
      <4> QED
        BY <2>3, <4>1 DEF IInv, Bounded
    <3>3. \A v \in Uploads : Bounded(v)'
      BY <2>2, <3>1, <3>2 DEF Bounded
    <3>4. \A v \in Uploads : UploadInv(v)'
      BY <2>0, <2>1, <2>3, <3>1 DEF IInv, UploadInv
    <3>5. (\A c \in Cleaners : CleanerInv(c)') /\ ObjectInv'
      BY <2>1, <2>3, <3>1, NoCleanerYet DEF ObjectInv
    <3> QED
      BY <1>0, <3>3, <3>4, <3>5 DEF IInv
  <2>4. CASE image' = image
    <3>1. UploadInv(u)' /\ Reach(u)' <= Reach(u)
      BY <1>0, <2>0, <2>1, <2>2, <2>4 DEF UploadInv
    <3> QED
      BY <1>0, <2>0, <2>1, <2>4, <3>1, QuietUploadStep
  <2> QED
    BY <1>8, <2>3, <2>4 DEF ReleaseUpload
<1>9. CASE Fail(u)
  <2>1. UNCHANGED <<image, object, put, input>>
        /\ (Goto(u, "done") \/ (pc[u] = "reserved" /\ Goto(u, "releasing")))
    BY <1>9 DEF Fail, Finish
  <2>2. /\ pc'[u] = "done" \/ (pc[u] = "reserved" /\ pc'[u] = "releasing")
        /\ \A q \in Processes \ {u} : pc'[q] = pc[q] /\ delay'[q] = delay[q]
    BY <1>0, <2>1, UploadGoto
  <2>3. Reach(u)' <= Reach(u) /\ UploadInv(u)'
    BY <1>0, <2>1, <2>2 DEF Reach, UploadInv
  <2> QED
    BY <1>0, <2>1, <2>2, <2>3, QuietUploadStep
<1> QED
  BY <1>1, <1>2, <1>3, <1>4, <1>5, <1>6, <1>7, <1>8, <1>9 DEF UploadStep

\* The steps of a cleaner that leave every upload alone keep its invariant, as
\* long as the document keeps its content and is past its beginning.
LEMMA UploadsUntouched ==
  ASSUME TypeOK, NEW c \in Cleaners, put' = put, input' = input,
         \A q \in Processes \ {c} : pc'[q] = pc[q] /\ delay'[q] = delay[q]
  PROVE  \A u \in Uploads : Reach(u)' = Reach(u) /\ pc'[u] = pc[u] /\ Reach(u) \in Nat
BY Types, Constants DEF Reach

\* A step of a cleaner keeps IInv.
LEMMA CleanupKeepsIInv ==
  ASSUME IInv, NEW c \in Cleaners, CleanupStep(c)
  PROVE  IInv'
<1> USE Constants
<1>0. TypeOK /\ TypeOK' /\ CleanerInv(c) /\ ObjectInv /\ image.grace \in Int /\ image.locked \in Int
      /\ delay[c] \in Nat
  BY CleanupTypes, Types DEF IInv
<1>1. ASSUME NEW lag \in Lags, ClaimAbandoned(c, lag) PROVE IInv'
  <2>0. UNCHANGED <<object, put, input>> /\ Goto(c, "claimed") /\ Abandoned(lag)
    BY <1>1 DEF ClaimAbandoned
  <2>1. pc'[c] = "claimed" /\ \A q \in Processes \ {c} : pc'[q] = pc[q] /\ delay'[q] = delay[q]
    BY <1>0, <2>0, GotoTypes
  <2>2. \A u \in Uploads : Reach(u)' = Reach(u) /\ pc'[u] = pc[u] /\ Reach(u) \in Nat
    BY <1>0, <2>0, <2>1, UploadsUntouched
  <2>3. /\ image.status \in {"PENDING", "READY"} /\ image.locked <= 0
    BY <1>0, <2>0 DEF Abandoned, Passed, Lags
  <2>4. /\ image'.status = "DELETING" /\ image'.uploadToken = NoToken
        /\ image'.content = image.content /\ image'.grace = From(Grace, lag)
    BY <1>0, <1>1 DEF ClaimAbandoned, TypeOK, Documents
  <2>5. \A u \in Uploads : Reach(u) < Margin
    BY <1>0, <2>2, <2>3, Margins DEF IInv, Bounded
  <2>6. image'.grace \in Int /\ Margin <= image'.grace - Suspension
    BY <2>4, Margins DEF From, Lags
  <2>7. \A u \in Uploads : Bounded(u)'
    BY <2>2, <2>4, <2>5, <2>6, Margins DEF Bounded
  <2>8. \A u \in Uploads : UploadInv(u)'
    BY <2>0, <2>2, <2>3, <2>4 DEF IInv, UploadInv
  <2>9. ASSUME NEW d \in Cleaners PROVE CleanerInv(d)'
    <3>1. pc'[d] # "deleted"
      BY <2>1, <2>3 DEF IInv, CleanerInv
    <3> QED
      BY <2>4, <3>1 DEF CleanerInv
  <2>10. ObjectInv'
    BY <2>4 DEF ObjectInv
  <2> QED
    BY <1>0, <2>7, <2>8, <2>9, <2>10 DEF IInv
<1>2. ASSUME NEW lag \in Lags, ClaimRetry(c, lag) PROVE IInv'
  <2>0. UNCHANGED <<object, put, input>> /\ Goto(c, "claimed") /\ image.status = "DELETING"
    BY <1>2 DEF ClaimRetry, Retryable
  <2>1. pc'[c] = "claimed" /\ \A q \in Processes \ {c} : pc'[q] = pc[q] /\ delay'[q] = delay[q]
    BY <1>0, <2>0, GotoTypes
  <2>2. \A u \in Uploads : Reach(u)' = Reach(u) /\ pc'[u] = pc[u] /\ Reach(u) \in Nat
    BY <1>0, <2>0, <2>1, UploadsUntouched
  <2>3. /\ image'.status = "DELETING" /\ image'.uploadToken = image.uploadToken
        /\ image'.content = image.content /\ image'.grace = image.grace /\ image'.deleteToken = c
    BY <1>0, <1>2, <2>0 DEF ClaimRetry, TypeOK, Documents
  <2>4. \A u \in Uploads : Bounded(u)' /\ UploadInv(u)'
    BY <2>0, <2>2, <2>3 DEF IInv, Bounded, UploadInv
  <2>5. ASSUME NEW d \in Cleaners PROVE CleanerInv(d)'
    BY <2>1, <2>3 DEF CleanerInv
  <2>6. ObjectInv'
    BY <2>3 DEF ObjectInv
  <2> QED
    BY <1>0, <2>4, <2>5, <2>6 DEF IInv
<1>3. CASE Delete(c) \/ DeleteFails(c) \/ Abort(c)
  <2>0. /\ UNCHANGED <<image, put, input>> /\ pc[c] \in {"claimed", "deleted"}
        /\ object' = object \/ (pc[c] = "claimed" /\ ~object')
        /\ (Goto(c, "deleted") /\ ~object') \/ Goto(c, "idle")
    BY <1>0, <1>3 DEF Delete, DeleteFails, Abort, TypeOK
  <2>1. /\ (pc'[c] = "deleted" /\ delay'[c] = Suspension /\ ~object') \/ pc'[c] = "idle"
        /\ \A q \in Processes \ {c} : pc'[q] = pc[q] /\ delay'[q] = delay[q]
    BY <1>0, <2>0, GotoTypes
  <2>2. \A u \in Uploads : Reach(u)' = Reach(u) /\ pc'[u] = pc[u] /\ Reach(u) \in Nat
    BY <1>0, <2>0, <2>1, UploadsUntouched
  <2>3. image.status \in {"DELETING", "DELETED"}
    BY <1>0, <2>0 DEF CleanerInv
  <2>4. \A u \in Uploads : Bounded(u)' /\ UploadInv(u)'
    BY <2>0, <2>2, <2>3 DEF IInv, Bounded, UploadInv
  <2>5. ASSUME NEW d \in Cleaners PROVE CleanerInv(d)'
    <3>1. CASE d = c /\ image.status = "DELETING"
      <4>1. (\A u \in Uploads : Reach(u) = 0) \/ image.grace > Suspension
        BY <1>0, <2>2, <3>1 DEF IInv, Bounded
      <4> QED
        BY <2>0, <2>1, <2>2, <2>3, <3>1, <4>1 DEF CleanerInv
    <3>2. CASE d = c /\ image.status # "DELETING"
      BY <2>0, <2>3, <3>2 DEF CleanerInv
    <3>3. CASE d # c
      <4>1. CleanerInv(d) /\ pc'[d] = pc[d] /\ delay'[d] = delay[d] /\ (~object => ~object')
        BY <2>0, <2>1, <3>3 DEF IInv
      <4> QED
        BY <2>0, <2>2, <4>1 DEF CleanerInv
    <3> QED
      BY <3>1, <3>2, <3>3
  <2>6. ObjectInv'
    BY <1>0, <2>0, <2>3 DEF ObjectInv
  <2> QED
    BY <1>0, <2>4, <2>5, <2>6 DEF IInv
<1>4. ASSUME NEW lag \in Lags, CompleteDeletion(c, lag) PROVE IInv'
  <2>0. UNCHANGED <<object, put, input>> /\ pc[c] = "deleted" /\ Goto(c, "idle")
    BY <1>4 DEF CompleteDeletion
  <2>1. pc'[c] = "idle" /\ \A q \in Processes \ {c} : pc'[q] = pc[q] /\ delay'[q] = delay[q]
    BY <1>0, <2>0, GotoTypes
  <2>2. \A u \in Uploads : Reach(u)' = Reach(u) /\ pc'[u] = pc[u] /\ Reach(u) \in Nat
    BY <1>0, <2>0, <2>1, UploadsUntouched
  <2>3. image.status \in {"DELETING", "DELETED"}
    BY <1>0, <2>0 DEF CleanerInv
  <2>4. /\ image'.content = image.content /\ image'.uploadToken = image.uploadToken
        /\ image'.grace = image.grace
        /\ \/ image'.status = image.status /\ image'.deleteToken \in {image.deleteToken, NoToken}
           \/ /\ image.status = "DELETING" /\ image.deleteToken = c /\ GraceOver(lag)
              /\ image'.status = "DELETED"
    BY <1>0, <1>4 DEF CompleteDeletion, TypeOK, Documents
  <2>5. CASE image'.status = image.status /\ image'.deleteToken \in {image.deleteToken, NoToken}
    <3>1. \A u \in Uploads : Bounded(u)' /\ UploadInv(u)'
      BY <2>0, <2>2, <2>3, <2>4, <2>5 DEF IInv, Bounded, UploadInv
    <3>2. ASSUME NEW d \in Cleaners PROVE CleanerInv(d)'
      <4>1. CASE d = c
        BY <2>1, <4>1 DEF CleanerInv
      <4>2. CASE d # c
        <5>1. CleanerInv(d) /\ pc'[d] = pc[d] /\ delay'[d] = delay[d] /\ d # NoToken
          BY <2>1, <4>2 DEF IInv
        <5> QED
          BY <2>0, <2>2, <2>4, <2>5, <5>1 DEF CleanerInv
      <4> QED
        BY <4>1, <4>2
    <3>3. ObjectInv'
      BY <1>0, <2>0, <2>5 DEF ObjectInv
    <3> QED
      BY <1>0, <3>1, <3>2, <3>3 DEF IInv
  <2>6. CASE /\ image.status = "DELETING" /\ image.deleteToken = c /\ GraceOver(lag)
             /\ image'.status = "DELETED"
    <3>1. image.grace <= delay[c]
      BY <1>0, <2>6 DEF GraceOver, Passed, Lags
    <3>2. ~object /\ \A u \in Uploads : Reach(u) = 0
      BY <1>0, <2>0, <2>6, <3>1 DEF CleanerInv
    <3>3. \A u \in Uploads : Bounded(u)' /\ UploadInv(u)'
      BY <2>0, <2>2, <2>4, <2>6, <3>2 DEF IInv, Bounded, UploadInv
    <3>4. \A d \in Cleaners : CleanerInv(d)'
      BY <2>6 DEF CleanerInv
    <3>5. ObjectInv'
      BY <2>0, <2>6, <3>2 DEF ObjectInv
    <3> QED
      BY <1>0, <3>3, <3>4, <3>5 DEF IInv
  <2> QED
    BY <2>4, <2>5, <2>6
<1> QED
  BY <1>1, <1>2, <1>3, <1>4 DEF CleanupStep

\* Time keeps IInv: every reach and every bound on it shrink together.
LEMMA TickKeepsIInv == IInv /\ Tick => IInv'
<1> SUFFICES ASSUME IInv, Tick PROVE IInv'
  OBVIOUS
<1> USE Constants
<1>0. TypeOK /\ TypeOK'
  BY OtherTypes DEF IInv
<1>1. /\ UNCHANGED <<object, pc, input>>
      /\ image'.status = image.status /\ image'.content = image.content
      /\ image'.uploadToken = image.uploadToken /\ image'.deleteToken = image.deleteToken
      /\ image'.locked = Down(image.locked) /\ image'.grace = Down(image.grace)
  BY <1>0 DEF Tick, TypeOK, Documents
<1>2. /\ image.locked \in Int /\ image.grace \in Int /\ image.locked >= -Skew /\ image.grace >= -Skew
      /\ \A u \in Uploads : Reach(u) \in Nat
  BY <1>0, Types
<1>3. \A u \in Uploads : Reach(u)' = IF Reach(u) > 0 THEN Reach(u) - 1 ELSE 0
  <2> SUFFICES ASSUME NEW u \in Uploads PROVE Reach(u)' = IF Reach(u) > 0 THEN Reach(u) - 1 ELSE 0
    OBVIOUS
  <2>1. /\ put'[u] = (IF put[u] > 0 THEN put[u] - 1 ELSE 0)
        /\ delay'[u] = (IF delay[u] > 0 THEN delay[u] - 1 ELSE 0)
        /\ pc[u] = "reserved" => delay[u] > 0
    BY DEF Tick, Hurried
  <2>2. delay[u] \in Nat /\ put[u] \in Nat
    BY <1>0, Types
  <2> QED
    BY <1>1, <2>1, <2>2 DEF Reach
<1>4. ASSUME NEW u \in Uploads PROVE Bounded(u)' /\ UploadInv(u)'
  <2>1. Bounded(u) /\ UploadInv(u) /\ Reach(u) \in Nat
    BY <1>2 DEF IInv
  <2>2. UploadInv(u)'
    <3>1. put[u] = 0 => put'[u] = 0
      BY DEF Tick
    <3> QED
      BY <1>1, <2>1, <3>1 DEF UploadInv
  <2>3. image.status \in {"ABSENT", "DELETED", "READY"} => Bounded(u)'
    BY <1>1, <1>3, <2>1, Margins DEF Bounded
  <2>4. image.status = "PENDING" => Bounded(u)'
    <3>1. Reach(u) < Margin => Reach(u)' < Margin
      BY <1>3, <2>1, Margins
    <3>2. Reach(u) <= image.locked + Slack => Reach(u)' < Margin \/ Reach(u)' <= image'.locked + Slack
      BY <1>1, <1>2, <1>3, <2>1, Margins DEF Down
    <3> QED
      BY <1>1, <2>1, <3>1, <3>2 DEF Bounded
  <2>5. image.status = "DELETING" => Bounded(u)'
    <3>1. Reach(u) = 0 => Reach(u)' = 0
      BY <1>3
    <3>2. Reach(u) < image.grace - Suspension => Reach(u)' = 0 \/ Reach(u)' < image'.grace - Suspension
      BY <1>1, <1>2, <1>3, <2>1 DEF Down
    <3> QED
      BY <1>1, <2>1, <3>1, <3>2 DEF Bounded
  <2>6. image.status = "ATTACHED" => Bounded(u)'
    BY <1>1 DEF Bounded
  <2> QED
    BY <1>0, <2>2, <2>3, <2>4, <2>5, <2>6 DEF TypeOK, Documents
<1>5. ASSUME NEW c \in Cleaners PROVE CleanerInv(c)'
  <2>1. CleanerInv(c) /\ delay[c] \in Nat
    BY <1>0, Types DEF IInv
  <2>2. delay'[c] = (IF delay[c] > 0 THEN delay[c] - 1 ELSE 0) /\ (pc[c] = "deleted" => delay[c] > 0)
    BY DEF Tick, Hurried
  <2>3. pc[c] = "deleted" /\ image.grace > delay[c] => image'.grace > delay'[c]
    BY <1>1, <1>2, <2>1, <2>2 DEF Down
  <2>4. (\A u \in Uploads : Reach(u) = 0) => \A u \in Uploads : Reach(u)' = 0
    BY <1>3
  <2> QED
    BY <1>1, <2>1, <2>3, <2>4 DEF CleanerInv
<1>6. ObjectInv'
  BY <1>1 DEF IInv, ObjectInv
<1> QED
  BY <1>0, <1>4, <1>5, <1>6 DEF IInv

\* A message that takes the image keeps IInv.
LEMMA AttachKeepsIInv ==
  ASSUME IInv, NEW lag \in Lags, Attach(lag)
  PROVE  IInv'
<1>0. TypeOK /\ TypeOK'
  BY OtherTypes DEF IInv
<1>1. /\ UNCHANGED <<object, pc, delay, put, input>> /\ image.status = "READY"
      /\ image'.status = "ATTACHED" /\ image'.content = image.content
      /\ image'.uploadToken = image.uploadToken
  BY <1>0 DEF Attach, processVars, TypeOK, Documents
<1>2. \A u \in Uploads : Bounded(u)' /\ UploadInv(u)'
  BY <1>1 DEF IInv, Bounded, UploadInv
<1>3. (\A c \in Cleaners : CleanerInv(c)') /\ ObjectInv'
  BY <1>1, NoCleanerYet DEF IInv, ObjectInv
<1> QED
  BY <1>0, <1>2, <1>3 DEF IInv

\* Every step keeps IInv.
LEMMA NextKeepsIInv == IInv /\ [Next]_vars => IInv'
<1> SUFFICES ASSUME IInv, [Next]_vars PROVE IInv'
  OBVIOUS
<1>1. CASE Tick
  BY <1>1, TickKeepsIInv
<1>2. CASE \E u \in Uploads : UploadStep(u)
  BY <1>2, UploadKeepsIInv
<1>3. CASE \E c \in Cleaners : CleanupStep(c)
  BY <1>3, CleanupKeepsIInv
<1>4. CASE \E lag \in Lags : Attach(lag)
  BY <1>4, AttachKeepsIInv
<1>5. CASE UNCHANGED vars
  <2>1. UNCHANGED <<image, object, pc, delay, put, input, answer>>
    BY <1>5 DEF vars, processVars
  <2> QED
    BY <2>1 DEF IInv, TypeOK, Bounded, UploadInv, CleanerInv, ObjectInv, Reach
<1> QED
  BY <1>1, <1>2, <1>3, <1>4, <1>5 DEF Next

-----------------------------------------------------------------------------
(* The theorems. *)

\* The strengthened invariant holds of every reachable state.
THEOREM InductiveInvariant == Spec => []IInv
  BY InitIInv, NextKeepsIInv, PTL DEF Spec

\* Every variable keeps its type.
THEOREM TypeCorrect == Spec => []TypeOK
<1>1. IInv => TypeOK
  BY DEF IInv
<1> QED
  BY <1>1, InductiveInvariant, PTL

\* An image that a message may take, or has taken, is in the bucket.
THEOREM ObjectBehindImage == Spec => []ReadyIsStored
<1>1. IInv => ReadyIsStored
  BY DEF IInv, ObjectInv, ReadyIsStored
<1> QED
  BY <1>1, InductiveInvariant, PTL

\* A DELETED document leaves no object, now or later.
THEOREM NoOrphanObject == Spec => []DeletedIsGone
<1>1. IInv => DeletedIsGone
  <2> SUFFICES ASSUME IInv, image.status = "DELETED" PROVE DeletedIsGone
    BY DEF DeletedIsGone
  <2>1. ~object
    BY DEF IInv, ObjectInv
  <2>2. ASSUME NEW u \in Uploads PROVE put[u] = 0 /\ pc[u] # "reserved"
    <3>1. Reach(u) = 0 /\ delay[u] \in Nat /\ PutTime \in Nat /\ PutTime > 0
      BY Types, Constants DEF IInv, Bounded
    <3> QED
      BY <3>1 DEF Reach
  <2> QED
    BY <2>1, <2>2 DEF DeletedIsGone
<1> QED
  BY <1>1, InductiveInvariant, PTL

\* An upload that is answered 200 left an image that a message can take.
THEOREM OkIsTrue == Spec => OkMeansStored
<1> USE Constants
<1>1. ASSUME IInv, IInv', [Next]_vars, NEW u \in Uploads, answer'[u] = "ok", answer[u] # "ok"
      PROVE  image'.status \in {"READY", "ATTACHED"} /\ object' /\ image'.content = input[u]
  <2>0. answer \in [Uploads -> Answers] /\ image \in Documents
    BY <1>1 DEF IInv, TypeOK
  <2>1. \/ \E lag \in Lags : FindDuplicate(u, lag) \/ MarkReady(u, lag)
    BY <1>1, <2>0
       DEF Next, Tick, UploadStep, CleanupStep, Insert, FindDuplicate, TakeOver, MarkReady, SendPut,
           Store, PutFails, ReleaseUpload, Fail, Finish, Attach, ClaimAbandoned, ClaimRetry, Delete,
           DeleteFails, CompleteDeletion, Abort, vars, processVars
  <2>2. image'.status \in {"READY", "ATTACHED"} /\ image'.content = input[u]
    <3>1. PICK lag \in Lags : FindDuplicate(u, lag) \/ MarkReady(u, lag)
      BY <2>1
    <3>2. CASE FindDuplicate(u, lag)
      BY <1>1, <2>0, <3>2 DEF FindDuplicate, Finish, Usable
    <3>3. CASE MarkReady(u, lag)
      <4>1. image.content = input[u]
        BY <1>1, <3>3 DEF MarkReady, IInv, UploadInv
      <4> QED
        BY <1>1, <2>0, <3>3, <4>1 DEF MarkReady, Finish, Confirmed, Documents
    <3> QED
      BY <3>1, <3>2, <3>3
  <2>3. object'
    BY <1>1, <2>2 DEF IInv, ObjectInv
  <2> QED
    BY <2>2, <2>3
<1>2. IInv /\ IInv' /\ [Next]_vars
        => [\A u \in Uploads : answer'[u] = "ok" /\ answer[u] # "ok" =>
              /\ image'.status \in {"READY", "ATTACHED"} /\ object'
              /\ image'.content = input[u]]_vars
  BY <1>1
<1> QED
  BY <1>2, InductiveInvariant, PTL DEF Spec, OkMeansStored

\* While its lease is running nobody takes an upload's place: a takeover and a
\* claim wait for locked_until, by a clock that is behind and never ahead, and
\* a confirmation or a release asks for the token of the upload itself.
THEOREM LeaseHolds == Spec => LeaseIsExclusive
<1> USE Constants
<1>1. ASSUME TypeOK, [Next]_vars, image.status = "PENDING", image.uploadToken # NoToken,
             image.locked > 0,
             <<image'.status, image'.uploadToken>> # <<image.status, image.uploadToken>>
      PROVE  pc'[image.uploadToken] # pc[image.uploadToken]
  <2>0. /\ image \in Documents /\ image.uploadToken \in Uploads /\ image.locked \in Int
        /\ image'.status # image.status \/ image'.uploadToken # image.uploadToken
    BY <1>1, Types DEF TypeOK, Documents
  <2>1. \A lag \in Lags : ~Passed(image.locked, lag)
    BY <1>1, <2>0 DEF Passed, Lags
  <2>2. ASSUME NEW u \in Uploads, UploadStep(u) PROVE pc'[image.uploadToken] # pc[image.uploadToken]
    <3>1. \/ \E lag \in Lags : MarkReady(u, lag) /\ Confirmable(u, lag)
          \/ ReleaseUpload(u) /\ image.uploadToken = u
      <4>1. ~ \E lag \in Lags : Insert(u, lag) \/ FindDuplicate(u, lag) \/ TakeOver(u, lag)
        BY <1>1, <2>0, <2>1 DEF Insert, FindDuplicate, TakeOver, Takeable
      <4>2. ~ (SendPut(u) \/ Store(u) \/ PutFails(u) \/ Fail(u))
        BY <2>0 DEF SendPut, Store, PutFails, Fail
      <4> QED
        BY <2>0, <2>2, <4>1, <4>2 DEF UploadStep, MarkReady, ReleaseUpload
    <3>2. CASE \E lag \in Lags : MarkReady(u, lag) /\ Confirmable(u, lag)
      <4>1. image.uploadToken = u /\ pc[u] = "stored" /\ Goto(u, "releasing")
        BY <3>2 DEF MarkReady, Confirmable, Finish
      <4> QED
        BY <1>1, <4>1, UploadGoto
    <3>3. CASE ReleaseUpload(u) /\ image.uploadToken = u
      <4>1. pc[u] = "releasing" /\ Goto(u, "done")
        BY <3>3 DEF ReleaseUpload
      <4> QED
        BY <1>1, <3>3, <4>1, UploadGoto
    <3> QED
      BY <3>1, <3>2, <3>3
  <2>3. ASSUME NEW c \in Cleaners PROVE ~CleanupStep(c)
    <3>1. ~ \E lag \in Lags : ClaimAbandoned(c, lag) \/ ClaimRetry(c, lag)
      BY <1>1, <2>1 DEF ClaimAbandoned, Abandoned, ClaimRetry, Retryable
    <3>2. ~ \E lag \in Lags : CompleteDeletion(c, lag)
      BY <1>1, <2>0 DEF CompleteDeletion
    <3>3. ~ (Delete(c) \/ DeleteFails(c) \/ Abort(c))
      BY <2>0 DEF Delete, DeleteFails, Abort
    <3> QED
      BY <3>1, <3>2, <3>3 DEF CleanupStep
  <2>4. ~ (Tick \/ (\E lag \in Lags : Attach(lag)) \/ UNCHANGED vars)
    BY <1>1, <2>0 DEF Tick, Attach, Documents, vars
  <2> QED
    BY <1>1, <2>2, <2>3, <2>4 DEF Next
<1>2. TypeOK /\ [Next]_vars
        => [image.status = "PENDING" /\ image.uploadToken # NoToken /\ image.locked > 0
              /\ <<image'.status, image'.uploadToken>> # <<image.status, image.uploadToken>>
            => pc'[image.uploadToken] # pc[image.uploadToken]]_vars
  BY <1>1
<1> QED
  BY <1>2, TypeCorrect, PTL DEF Spec, LeaseIsExclusive

=============================================================================
