------------------------------ MODULE Credentials ------------------------------
(***************************************************************************)
(* The client's credentials file and the commands that share it: login,     *)
(* logout and run (cmd/client/main.go, internal/client/login.go,            *)
(* credentials.go and client.New).                                          *)
(*                                                                          *)
(* Each command is a process of its own and may be killed at any moment. It  *)
(* reads the whole file once; login and logout change what they read and    *)
(* write the whole file back, truncating it first. Nothing locks the file.  *)
(***************************************************************************)
EXTENDS Naturals

CONSTANTS Commands,   \* invocations of the client program
          Addresses,  \* of hosts, as a config, a flag or a portal URL spells them
          PortalUrl,  \* the address of the portal
          Keys,       \* normalized host names
          HostKey,    \* [Addresses -> Keys]
          Configs,    \* sets of ntunlAddress, of the tunnels of a config
          NoAddress,  \* an ntunlAddress left empty
          None,       \* no token
          Missing,    \* no file
          Torn        \* truncated, or not JSON any more

\* A token is named by the login that fetched it.
Stored == [Keys -> Commands \cup {None}]

ASSUME CredentialsAssumption ==
    /\ HostKey \in [Addresses -> Keys] /\ PortalUrl \in Addresses
    /\ Configs \subseteq SUBSET (Addresses \cup {NoAddress}) /\ NoAddress \notin Addresses
    /\ None \notin Commands
    /\ {Missing, Torn} \cap Stored = {} /\ Missing # Torn

VARIABLES
    file,       \* credentials.json
    pc,         \* where a command stands
    kind, cfg,  \* what it is, and the addresses in its config
    creds,      \* what it has read and changed
    \* for the properties
    last,       \* what the last login or logout of each key said
    disturbed   \* a save was cut short, or two overlapped

cmdVars == <<pc, kind, cfg, creds>>
vars == <<file, cmdVars, last, disturbed>>

Over == {"done", "failed", "killed"}
Saving == {"save", "writing"}
Places == Over \cup Saving \cup {"idle", "ask", "load"}

Empty == [k \in Keys |-> None]

Init ==
    /\ file \in {Missing, Empty}
    /\ pc = [c \in Commands |-> "idle"] /\ kind = [c \in Commands |-> "run"]
    /\ cfg = [c \in Commands |-> {}] /\ creds = [c \in Commands |-> Empty]
    /\ last = Empty /\ disturbed = FALSE

To(c, step) == pc' = [pc EXCEPT ![c] = step]

\* tunnelHosts: addresses left empty are passed over.
tunnelHosts(as) == as \ {NoAddress}

\* Mutant: a login is stored for every host that is known.
LoginKeysAll(c) == Keys

\* The keys login writes: those of the tunnels, or of the portal without any.
LoginKeys(c) ==
    {HostKey[a] : a \in IF tunnelHosts(cfg[c]) = {} THEN {PortalUrl} ELSE tunnelHosts(cfg[c])}

LogoutKeys(c) == {HostKey[a] : a \in tunnelHosts(cfg[c])}

\* The keys a command changes, and what it says of them.
Changed(c) == IF kind[c] = "login" THEN LoginKeys(c) ELSE LogoutKeys(c)
Says(c)    == IF kind[c] = "login" THEN c ELSE None

-----------------------------------------------------------------------------
(* main: the command and its config. login and logout go on with one they   *)
(* cannot read, as with no tunnels; run does not; logout needs a host.      *)

Begin(c, what, as) ==
    /\ pc[c] = "idle"
    /\ kind' = [kind EXCEPT ![c] = what] /\ cfg' = [cfg EXCEPT ![c] = as]
    /\ \/ /\ what = "logout" => tunnelHosts(as) # {}
          /\ To(c, IF what = "login" THEN "ask" ELSE "load")
       \/ To(c, "failed")
    /\ UNCHANGED <<file, creds, last, disturbed>>

\* Login at the portal: a fresh token, or an error before the file is touched.
Authenticate(c) ==
    /\ pc[c] = "ask"
    /\ To(c, "load") \/ To(c, "failed")
    /\ UNCHANGED <<file, kind, cfg, creds, last, disturbed>>

-----------------------------------------------------------------------------
(* LoadCredentials, Set and Delete, Save.                                   *)

\* The store that LoadCredentials finds.
Read == IF file = Missing THEN Empty ELSE file

\* Mutant: what was read is not kept.
UpdateFresh(c, m) == [k \in Keys |-> IF k \in Changed(c) THEN Says(c) ELSE None]

\* Every address of a changed key is set, or deleted.
Update(c, m) == [k \in Keys |-> IF k \in Changed(c) THEN Says(c) ELSE m[k]]

Load(c) ==
    /\ pc[c] = "load" /\ kind[c] # "run"
    /\ IF file = Torn THEN To(c, "failed") /\ UNCHANGED <<creds, disturbed>>
       ELSE /\ creds' = [creds EXCEPT ![c] = Update(c, Read)]
            /\ To(c, "save")
            /\ disturbed' = (disturbed \/ \E d \in Commands : pc[d] \in Saving)
    /\ UNCHANGED <<file, kind, cfg, last>>

\* Save: the file is opened and truncated; or cannot be.
Truncate(c) ==
    /\ pc[c] = "save"
    /\ \/ file' = Torn /\ To(c, "writing")
       \/ UNCHANGED file /\ To(c, "failed")
    /\ UNCHANGED <<kind, cfg, creds, last, disturbed>>

\* What it holds after a write: over bytes that another command has written
\* since, the end of a longer text stays.
Written(c) == IF file = Torn THEN {creds[c]} ELSE {creds[c], Torn}

Write(c) ==
    /\ pc[c] = "writing"
    /\ To(c, "done")
    /\ file' \in Written(c)
    /\ last' = [k \in Keys |-> IF k \in Changed(c) THEN Says(c) ELSE last[k]]
    /\ UNCHANGED <<kind, cfg, creds, disturbed>>

\* The disk is full.
WriteFails(c) ==
    /\ pc[c] = "writing"
    /\ To(c, "failed")
    /\ disturbed' = TRUE
    /\ UNCHANGED <<file, kind, cfg, creds, last>>

\* Ctrl-C, or the machine.
Kill(c) ==
    /\ pc[c] \notin Over \cup {"idle"}
    /\ To(c, "killed")
    /\ disturbed' = (disturbed \/ pc[c] = "writing")
    /\ UNCHANGED <<file, kind, cfg, creds, last>>

-----------------------------------------------------------------------------
(* client.New, for run.                                                     *)

Get(m, a) == IF a = NoAddress THEN None ELSE m[HostKey[a]]

\* Mutant: one tunnel with a token is enough.
SomeReady(as, m) == \E a \in as : Get(m, a) # None

\* Every tunnel of the config has a token.
Ready(as, m) == \A a \in as : Get(m, a) # None

New(c) ==
    /\ pc[c] = "load" /\ kind[c] = "run"
    /\ IF file # Torn /\ Ready(cfg[c], Read)
       THEN To(c, "done") /\ creds' = [creds EXCEPT ![c] = Read]
       ELSE To(c, "failed") /\ UNCHANGED creds
    /\ UNCHANGED <<file, kind, cfg, last, disturbed>>

Finished == (\A c \in Commands : pc[c] \in Over) /\ UNCHANGED vars

Step(c) ==
    \/ \E what \in {"login", "logout", "run"}, as \in Configs : Begin(c, what, as)
    \/ Authenticate(c) \/ Load(c) \/ Truncate(c) \/ Write(c) \/ WriteFails(c)
    \/ Kill(c) \/ New(c)

Next == (\E c \in Commands : Step(c)) \/ Finished

Spec == Init /\ [][Next]_vars

-----------------------------------------------------------------------------
(* Properties.                                                              *)

\* Every variable has its type: a file that is not torn is a whole store.
TypeOK ==
    /\ file \in Stored \cup {Missing, Torn}
    /\ pc \in [Commands -> Places]
    /\ kind \in [Commands -> {"login", "logout", "run"}]
    /\ cfg \in [Commands -> SUBSET (Addresses \cup {NoAddress})]
    /\ creds \in [Commands -> Stored]
    /\ last \in Stored /\ disturbed \in BOOLEAN

\* As long as no save is cut short and no two overlap, every command sees, for
\* every host, what the last login or logout of that host left, however many of
\* other hosts came after it; and the file always loads.
FileIsLastWord ==
    ~disturbed /\ (\A c \in Commands : pc[c] # "writing") => file # Torn /\ Read = last

\* A token is only ever presented to a host that its login was for: also when
\* saves overlap and spoil the file.
TokensStayHome ==
    \A c \in Commands : pc[c] = "done" /\ kind[c] = "run" =>
        \A a \in cfg[c] : LET d == Get(creds[c], a) IN
            /\ d \in Commands /\ kind[d] = "login"
            /\ HostKey[a] \in {HostKey[b] : b \in cfg[d] \ {NoAddress}} \cup {HostKey[PortalUrl]}

\* run is refused for a reason: a tunnel whose host has no login, or one after
\* which somebody logged out, or a save under way. And with such a tunnel it is.
Refusable(c) == \E a \in cfg[c] : a = NoAddress \/ last[HostKey[a]] = None
RunFindsLogins ==
    [][ \A c \in Commands :
          New(c) /\ ~disturbed /\ (\A d \in Commands : pc[d] # "writing")
            => (pc'[c] = "done" <=> ~Refusable(c)) ]_vars

\* The inductive form: what a command that is saving will write, and whose the
\* tokens are.
SaveInv ==
    /\ ~disturbed =>
          /\ \A c, d \in Commands : pc[c] \in Saving /\ pc[d] \in Saving => c = d
          /\ \A c \in Commands : pc[c] \in Saving => creds[c] = Update(c, last)
          /\ \A c \in Commands : pc[c] = "writing" => file = Torn
    /\ FileIsLastWord

Owned(m) ==
    \A k \in Keys : m[k] # None =>
        /\ kind[m[k]] = "login" /\ pc[m[k]] # "idle"
        /\ k \in LoginKeys(m[k])
TokenInv ==
    /\ file \in Stored => Owned(file)
    /\ \A c \in Commands : Owned(creds[c])
    /\ \A c \in Commands : pc[c] \in Saving => kind[c] # "run"
    /\ \A c \in Commands : pc[c] = "done" /\ kind[c] = "run" =>
          \A a \in cfg[c] : Get(creds[c], a) # None
=================================================================================
