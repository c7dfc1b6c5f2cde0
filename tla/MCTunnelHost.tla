----------------------------- MODULE MCTunnelHost -----------------------------
(* Small instances of TunnelHost for TLC: spellings of subdomains, pools and *)
(* the owners of the connections.                                            *)
EXTENDS TunnelHost, TLC

CONSTANTS c1, c2, alice

\* Two spellings of one name and a second name.
MCLabels == {"a", "A", "b"}
AB == {"a", "b"}
ABLower == "a" :> "a" @@ "b" :> "b"
MCLower == "a" :> "a" @@ "A" :> "a" @@ "b" :> "b"
OneLabel == {"a"}
OneLower == "a" :> "a"

\* A pool written in mixed case: visitors and handlers see "a" and "b".
MixedPool == <<"A", "b">>
OnePool == <<"a">>
NoPool == <<>>

\* Everybody uses the same account.
OneOwner == [c \in Conns |-> alice]

\* Connections differ by identity only.
ConnSymmetry == Permutations(Conns)
===============================================================================
