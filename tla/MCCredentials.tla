----------------------------- MODULE MCCredentials -----------------------------
(***************************************************************************)
(* An instance of Credentials for TLC: two hosts, the first under the name  *)
(* its portal has too.                                                      *)
(***************************************************************************)
EXTENDS Credentials, TLC

CONSTANTS k1, k2, k3

MCAddresses == {"H1:8001", "http://h1:8002", "h2:8001"}
MCHostKey == "H1:8001" :> "h1" @@ "http://h1:8002" :> "h1" @@ "h2:8001" :> "h2"
MCConfigs == {{"H1:8001"}, {"h2:8001"}, {"H1:8001", "h2:8001"}, {}, {"h2:8001", NoAddress}}
Symmetric == Permutations(Commands)
===============================================================================
