------------------------------- MODULE Squeeze -------------------------------
(* What the engine promises its callers (README, "Cache-safe": identical     *)
(* bytes always produce identical output): each request is answered with a   *)
(* function of its own family and conversation, or, fail-open, with what it  *)
(* came with.  No history, no other request and no cache shows in an answer. *)

CONSTANTS
  Requests,       \* calls of Apply
  Families,       \* model families
  Conversations,  \* request bodies the clients send
  None,           \* not received, or not answered, yet
  Outcome,        \* [Families \X Conversations -> what goes upstream]
  Original        \* [Conversations -> the same, with nothing changed]

VARIABLES
  request,        \* [Requests -> None or [family, conv]]
  reply           \* [Requests -> None or an outcome]

Init ==
  /\ request = [r \in Requests |-> None]
  /\ reply = [r \in Requests |-> None]

Receive(r) ==
  /\ request[r] = None
  /\ \E f \in Families, conv \in Conversations :
       request' = [request EXCEPT ![r] = [family |-> f, conv |-> conv]]
  /\ UNCHANGED reply

Respond(r) ==
  /\ request[r] # None /\ reply[r] = None
  /\ reply' = [reply EXCEPT ![r] = Outcome[<<request[r].family, request[r].conv>>]]
  /\ UNCHANGED request

(* The engine gave up. *)
PassThrough(r) ==
  /\ request[r] # None /\ reply[r] = None
  /\ reply' = [reply EXCEPT ![r] = Original[request[r].conv]]
  /\ UNCHANGED request

Next == \E r \in Requests : Receive(r) \/ Respond(r) \/ PassThrough(r)

Spec == Init /\ [][Next]_<<request, reply>>
=============================================================================
