------------------------------- MODULE Forwarding -------------------------------
(***************************************************************************)
(* What host and tunnel client promise together about a visitor's request,  *)
(* without saying how: it is sent at most once, served at most once and only *)
(* after it was sent, answered at most once and only by whoever serves it;   *)
(* the visitor receives that answer, or the request has ended without one,   *)
(* for good. Nothing is ever sent, served or answered again.                *)
(*                                                                          *)
(* TunnelHost and TunnelClient, which have each other for an environment, and *)
(* Tunnel, which composes the two, are all shown to implement this module. So *)
(* each environment keeps the contract that the program it stands for keeps;  *)
(* that it can do all that the program does is not shown by this.             *)
(***************************************************************************)
CONSTANT Requests
VARIABLE stage  \* [Requests -> Stages]

Stages == {"unsent", "sent", "serving", "answered", "received", "ended"}

Init == stage = [r \in Requests |-> "unsent"]

Move(r, from, to) == stage[r] = from /\ stage' = [stage EXCEPT ![r] = to]

\* The host writes the request to the tunnel's connection.
Send(r) == Move(r, "unsent", "sent")

\* The tunnel client takes it, to call the local service.
Serve(r) == Move(r, "sent", "serving")

\* The tunnel client writes the answer to the connection.
Answer(r) == Move(r, "serving", "answered")

\* The visitor's goroutine gets the answer.
Receive(r) == Move(r, "answered", "received")

\* Requests end otherwise: refused, failed, dropped, or lost with their connection,
\* which takes all that were on it.
End ==
    /\ stage' \in [Requests -> Stages]
    /\ \A r \in Requests :
          stage'[r] # stage[r] => stage[r] # "received" /\ stage'[r] = "ended"

Next ==
    \/ \E r \in Requests : Send(r) \/ Serve(r) \/ Answer(r) \/ Receive(r)
    \/ End

Spec == Init /\ [][Next]_stage
=================================================================================
