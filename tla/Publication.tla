---------------------------- MODULE Publication ----------------------------
(***************************************************************************)
(* What the outbox promises: a durably accepted event stays accepted until *)
(* it is settled.  It is confirmed only once the event log holds it, and   *)
(* rejected only when it can never be published; only accepted, valid      *)
(* events ever reach the log, at any moment, any number of times.          *)
(***************************************************************************)
EXTENDS Naturals

CONSTANTS Events, Valid

VARIABLES
  state,  \* state[e]: "absent", "accepted", "confirmed" or "rejected"
  log     \* the events that consumers of the log can read

vars == <<state, log>>

Init ==
  /\ state = [e \in Events |-> "absent"]
  /\ log = {}

Accept(e) ==
  /\ state[e] = "absent"
  /\ state' = [state EXCEPT ![e] = "accepted"]
  /\ UNCHANGED log

AppendToLog(e) ==
  /\ e \in Valid /\ state[e] # "absent"
  /\ log' = log \union {e}
  /\ UNCHANGED state

Confirm(e) ==
  /\ state[e] = "accepted" /\ e \in log
  /\ state' = [state EXCEPT ![e] = "confirmed"]
  /\ UNCHANGED log

Reject(e) ==
  /\ state[e] = "accepted" /\ e \notin Valid
  /\ state' = [state EXCEPT ![e] = "rejected"]
  /\ UNCHANGED log

Next == \E e \in Events : Accept(e) \/ AppendToLog(e) \/ Confirm(e) \/ Reject(e)

Spec == Init /\ [][Next]_vars

=============================================================================
