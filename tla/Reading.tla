------------------------------- MODULE Reading -------------------------------
(***************************************************************************)
(* What a client reads page by page: the timeline of a chat (Timeline) and *)
(* the lists of chats and users (Directory).  The two have no state in     *)
(* common, so that a behaviour of both is one of each, shuffled; the       *)
(* composition runs either, and leaves the other where it starts.          *)
(***************************************************************************)
EXTENDS Timeline, Directory

VARIABLE subject    \* what is read: "timeline" or "directory"

readingVars == <<vars, directoryVars, subject>>

ReadingInit ==
  /\ DirectoryInit
  /\ \/ subject = "timeline" /\ Init
     \/ subject = "directory" /\ NothingStored

ReadingNext ==
  \/ subject = "timeline" /\ Next /\ UNCHANGED <<directoryVars, subject>>
  \/ subject = "directory" /\ DirectoryNext /\ UNCHANGED <<vars, subject>>

ReadingSpec == ReadingInit /\ [][ReadingNext]_readingVars
==============================================================================
