\* Three requests: enough for a winner, a loser that collides with it and a
\* retry, in every combination of bodies and clock readings.
CONSTANTS
  u1 = u1  u2 = u2  u3 = u3
  k1 = k1  k2 = k2  k3 = k3
  c1 = c1  c2 = c2
  text = text  photo = photo
  i1 = i1
  Requests = {r1, r2, r3}
  Keys = {k1, k2, k3}
  Users = {u1, u2, u3}
  Chats = {c1, c2}
  Contents = {text, photo}
  Images = {i1}
  SenderOf <- MCSenderOf
  Participants <- MCParticipants
  ImageOf <- MCImageOf
  UploadedBy <- MCUploadedBy
  UploadedTo <- MCUploadedTo
  ChatCreatedAt <- MCChatCreatedAt
  ExpiresAt <- MCExpiresAt
  Times = {1, 2}
  MaxSequence = 2
  NoImage = NoImage
  NoRequest = NoRequest
SPECIFICATION Spec
SYMMETRY Symmetry
INVARIANTS
  SequencesContiguous
  OneEventPerItem
  AnswersAreTrue
  AttachedIffShown
  SummaryIsLatest
PROPERTIES
  ImplementsIdempotentLog
CHECK_DEADLOCK FALSE
