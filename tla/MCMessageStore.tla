--------------------------- MODULE MCMessageStore ---------------------------
(* An instance of MessageStore for TLC: u1 has chats with u2 and with u3,   *)
(* and an image uploaded to the first; u1's two keys may be used in either, *)
(* u2 takes part in one of them only.                                       *)
EXTENDS MessageStore, TLC

CONSTANTS u1, u2, u3, k1, k2, k3, c1, c2, text, photo, i1

MCSenderOf == k1 :> u1 @@ k2 :> u1 @@ k3 :> u2
MCParticipants == c1 :> {u1, u2} @@ c2 :> {u1, u3}
MCImageOf == text :> NoImage @@ photo :> i1
MCUploadedBy == i1 :> u1
MCUploadedTo == i1 :> c1
MCChatCreatedAt == c1 :> 1 @@ c2 :> 2
MCExpiresAt == i1 :> 2

\* Requests are interchangeable: Init is symmetric in them, and no property
\* tells them apart.
Symmetry == Permutations(Requests)
=============================================================================
