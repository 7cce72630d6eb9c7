--------------------------- MODULE IdempotentLog ---------------------------
(***************************************************************************)
(* What creating a message promises: one log per chat, in which a request  *)
(* takes effect at once or not at all.  A key is appended once; any other  *)
(* request with that key is told of the message that is already there, or  *)
(* that it differs.  A request may always end in an error, and then its    *)
(* message may or may not have been appended.                              *)
(***************************************************************************)
EXTENDS Naturals, Sequences

CONSTANTS Requests, Chats, NoRequest

VARIABLES
  log,    \* log[c]: the messages of chat c, in order
  input,  \* input[r]: key, chat and content of request r
  answer  \* answer[r]: what the client of r is told

vars == <<log, input, answer>>

Init ==
  /\ log = [c \in Chats |-> <<>>]
  /\ answer = [r \in Requests |-> [code |-> "none", message |-> NoRequest]]

Entry(r) == [id |-> r, key |-> input[r].key, content |-> input[r].content]

\* The places in the logs where r's key is.
Places(r) == {p \in UNION {{c} \X (1..Len(log[c])) : c \in Chats} : log[p[1]][p[2]].key = input[r].key}

Tell(r, code, message) ==
  /\ answer[r].code = "none"
  /\ answer' = [answer EXCEPT ![r] = [code |-> code, message |-> message]]
  /\ UNCHANGED input

AppendMessage(r) ==
  /\ Places(r) = {}
  /\ log' = [log EXCEPT ![input[r].chat] = Append(@, Entry(r))]
  /\ Tell(r, "created", r) \/ Tell(r, "error", NoRequest)

Recall(r) ==
  /\ \E p \in Places(r) :
       LET entry == log[p[1]][p[2]] IN
         IF p[1] = input[r].chat /\ entry.content = input[r].content
         THEN Tell(r, "existing", entry.id)
         ELSE Tell(r, "conflict", NoRequest)
  /\ UNCHANGED log

\* An image message is refused only while no message has its key.
RefuseImage(r) ==
  /\ Places(r) = {}
  /\ Tell(r, "image_unavailable", NoRequest)
  /\ UNCHANGED log

Refuse(r) ==
  /\ Tell(r, "chat_not_found", NoRequest) \/ Tell(r, "error", NoRequest)
  /\ UNCHANGED log

Next == \E r \in Requests : AppendMessage(r) \/ Recall(r) \/ RefuseImage(r) \/ Refuse(r)

Spec == Init /\ [][Next]_vars

=============================================================================
