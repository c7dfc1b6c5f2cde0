-------------------------- MODULE SubdomainRegistry --------------------------
(***************************************************************************)
(* What the tunnel host promises about subdomains, without saying how: a    *)
(* connection first holds a name that nobody else holds, may then publish   *)
(* it so that visitors are routed to it, and gives both up together.        *)
(*                                                                          *)
(* The code realises it with one map (TunnelHost.clients) whose entries are *)
(* absent, a nil placeholder or a client, shared by the handlers of all     *)
(* connections; TunnelHost.tla is shown to implement this module.           *)
(***************************************************************************)
CONSTANTS Conns,    \* tunnel connections
          Keys      \* lower-cased subdomains

VARIABLES held,       \* pairs <<connection, key>>: who has reserved which name
          published   \* pairs <<connection, key>>: who is visible to visitors

regVars == <<held, published>>

-----------------------------------------------------------------------------
Init == held = {} /\ published = {}

\* c reserves k, which nobody holds; a connection reserves at most one name.
Claim(c, k) ==
    /\ \A p \in held : p[1] # c /\ p[2] # k
    /\ held' = held \cup {<<c, k>>}
    /\ UNCHANGED published

\* c goes live under the name it holds.
Publish(c, k) ==
    /\ <<c, k>> \in held \ published
    /\ published' = published \cup {<<c, k>>}
    /\ UNCHANGED held

\* c gives its reservation up without ever having been live.
Abandon(c, k) ==
    /\ <<c, k>> \in held \ published
    /\ held' = held \ {<<c, k>>}
    /\ UNCHANGED published

\* c goes away: from one moment to the next the name is neither live nor held.
Withdraw(c, k) ==
    /\ <<c, k>> \in published
    /\ held' = held \ {<<c, k>>}
    /\ published' = published \ {<<c, k>>}

Next == \E c \in Conns, k \in Keys :
            Claim(c, k) \/ Publish(c, k) \/ Abandon(c, k) \/ Withdraw(c, k)

Spec == Init /\ [][Next]_regVars

-----------------------------------------------------------------------------
TypeOK == held \subseteq Conns \X Keys /\ published \subseteq held

\* A name belongs to one connection at a time, and a connection to one name:
\* what the placeholder in assignSubdomain is there for.
Exclusive == \A p, q \in held : (p[1] = q[1]) <=> (p[2] = q[2])
=============================================================================
