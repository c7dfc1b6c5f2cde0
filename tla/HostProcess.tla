----------------------------- MODULE HostProcess -----------------------------
(***************************************************************************)
(* The life of the host program: cmd/host/main.go, the bootstrap of the     *)
(* first administrator (internal/host/bootstrap.go), the certificate files  *)
(* (internal/certs) and the Run functions of the three servers.             *)
(*                                                                          *)
(* The process may be killed at any moment and started again on the files it *)
(* left: the database, cert.pem and key.pem. A file is written by truncating *)
(* it first. Meanwhile host create-admin, a process of its own, may work on  *)
(* the same database. What the servers do for a visitor, a tunnel or a page  *)
(* is a job here: accepted, then finished at some time or never.             *)
(***************************************************************************)
EXTENDS Naturals, FiniteSets

CONSTANTS Jobs,       \* requests and tunnel connections the servers accept
          Names,      \* account names
          AdminUser,  \* NTUNL_ADMIN_USER, or its default
          SslEnabled, \* tunnelHost.ssl.enabled
          MaxStarts,  \* bound: how often the program is started
          Missing,    \* no such file
          Torn        \* a file that was truncated and not written, or in part

ASSUME ProcessAssumption ==
    /\ AdminUser \in Names
    /\ SslEnabled \in BOOLEAN
    /\ MaxStarts \in Nat \ {0}
    /\ {Missing, Torn} \cap Nat = {} /\ Missing # Torn

VARIABLES
    \* on disk
    users,      \* names in the users table
    cert, key,  \* cert.pem, key.pem: the pair they are a half of
    \* the process
    main,       \* where main stands
    server,     \* where each server's Run stands
    ctxDone,    \* the context of the errgroup is cancelled
    pair,       \* the pair the tunnel server presents, Missing before
    job,        \* [Jobs -> "none", "running", "done", "cut"]
    \* around it
    creating,   \* the create-admin command: "none", "insert", "done", "failed"
    starts,     \* starts so far; start n generates pair n, 0 is an older pair
    damaged     \* a crash or an error left a pair half written (bookkeeping)

diskVars == <<users, cert, key>>
procVars == <<main, server, ctxDone, pair, job>>
vars == <<diskVars, procVars, creating, starts, damaged>>

Servers == {"tunnel", "http", "portal"}
Starting == {"open", "count", "insert"}
\* GetOrCreate, from the first truncation to the last byte written.
Generating == {"certOpen", "keyWait", "keyOpen"}
Over == {"closed", "failed"}
ServerStates == Generating \cup Over \cup {"off", "load", "certWait", "listen", "up"}
Files == (0..MaxStarts) \cup {Missing, Torn}

\* Whatever an installation may look like: either file may be missing.
Init ==
    /\ users = {} /\ cert \in {0, Missing} /\ key \in {0, Missing}
    /\ main = "down" /\ server = [s \in Servers |-> "off"]
    /\ ctxDone = FALSE /\ pair = Missing
    /\ job = [j \in Jobs |-> "none"]
    /\ creating = "none" /\ starts = 0 /\ damaged = FALSE

-----------------------------------------------------------------------------
(* main, up to the errgroup.                                                *)

Start ==
    /\ main = "down" /\ starts < MaxStarts
    /\ main' = "open" /\ starts' = starts + 1
    /\ UNCHANGED <<diskVars, server, ctxDone, pair, job, creating, damaged>>

To(step) == main' = step /\ UNCHANGED <<server, ctxDone, pair, job>>

\* store.Open and its migrations (CREATE ... IF NOT EXISTS); an error exits.
OpenStore ==
    /\ main = "open"
    /\ To("count") \/ To("down")
    /\ UNCHANGED <<diskVars, creating, starts, damaged>>

\* The servers start together.
RunServers ==
    /\ main' = "serve"
    /\ server' = [s \in Servers |-> IF s = "tunnel" /\ SslEnabled THEN "load" ELSE "listen"]
    /\ UNCHANGED <<ctxDone, pair, job>>

\* Mutant: the administrator is created by the first start only.
NeedsAdminOnce == starts = 1

\* CountUsers: the database has no users.
NeedsAdmin == users = {}

\* Mutant: the servers run while the first administrator is being created.
CountUsersServing ==
    /\ main = "count"
    /\ server' = [s \in Servers |-> "listen"]
    /\ main' = IF NeedsAdmin THEN "insert" ELSE "serve"
    /\ UNCHANGED <<diskVars, ctxDone, pair, job, creating, starts, damaged>>

CountUsers ==
    /\ main = "count"
    /\ \/ NeedsAdmin /\ To("insert")
       \/ ~NeedsAdmin /\ RunServers
       \/ To("down")
    /\ UNCHANGED <<diskVars, creating, starts, damaged>>

\* HashPassword and CreateUser. Names are unique: if create-admin has inserted
\* this one since CountUsers, the start fails, as it does on any other error.
BootstrapAdmin ==
    /\ main = "insert"
    /\ \/ AdminUser \notin users /\ users' = users \cup {AdminUser} /\ RunServers
       \/ To("down") /\ UNCHANGED users
    /\ UNCHANGED <<cert, key, creating, starts, damaged>>

-----------------------------------------------------------------------------
(* The certificate.                                                         *)

Go(s, step) == server' = [server EXCEPT ![s] = step]

\* Mutant: the error is logged, and Run returns nil.
FailsQuietly(s) == Go(s, "failed") /\ UNCHANGED ctxDone

\* Run returns an error: the errgroup cancels the context of the others.
Fails(s) == Go(s, "failed") /\ ctxDone' = TRUE

BothExist == cert # Missing /\ key # Missing

\* LoadX509KeyPair needs two whole files that are halves of one pair.
Loads == cert = key /\ cert \notin {Missing, Torn}

GetOrCreate ==
    /\ server["tunnel"] = "load"
    /\ IF ~BothExist THEN Go("tunnel", "certWait") /\ UNCHANGED <<ctxDone, pair>>
       ELSE IF Loads THEN Go("tunnel", "listen") /\ pair' = cert /\ UNCHANGED ctxDone
       ELSE Fails("tunnel") /\ UNCHANGED pair
    /\ UNCHANGED <<diskVars, main, job, creating, starts, damaged>>

\* os.WriteFile of cert.pem: open and truncate, then write.
TruncateCert ==
    /\ server["tunnel"] = "certWait"
    /\ cert' = Torn
    /\ Go("tunnel", "certOpen")
    /\ UNCHANGED <<users, key, main, ctxDone, pair, job, creating, starts, damaged>>

WriteCert ==
    /\ server["tunnel"] = "certOpen"
    /\ cert' = starts
    /\ Go("tunnel", "keyWait")
    /\ UNCHANGED <<users, key, main, ctxDone, pair, job, creating, starts, damaged>>

\* Mutant: a key that is there already is kept.
WriteMissingKey ==
    /\ server["tunnel"] = "keyWait"
    /\ key' = IF key = Missing THEN starts ELSE key
    /\ pair' = starts
    /\ Go("tunnel", "listen")
    /\ UNCHANGED <<users, cert, main, ctxDone, job, creating, starts, damaged>>

\* The same of key.pem.
TruncateKey ==
    /\ server["tunnel"] = "keyWait"
    /\ key' = Torn
    /\ Go("tunnel", "keyOpen")
    /\ UNCHANGED <<users, cert, main, ctxDone, pair, job, creating, starts, damaged>>

WriteKey ==
    /\ server["tunnel"] = "keyOpen"
    /\ key' = starts
    /\ pair' = starts
    /\ damaged' = FALSE
    /\ Go("tunnel", "listen")
    /\ UNCHANGED <<users, cert, main, ctxDone, job, creating, starts>>

\* A WriteFile returns an error, with the file opened or not.
WriteFileFails ==
    /\ server["tunnel"] \in Generating \cup {"certWait"}
    /\ Fails("tunnel")
    /\ damaged' = (damaged \/ server["tunnel"] # "certWait")
    /\ UNCHANGED <<diskVars, main, pair, job, creating, starts>>

-----------------------------------------------------------------------------
(* Run of a server, and the end of main.                                    *)

\* ListenAndServe: the port may be taken; a server already told to shut down
\* returns at once.
Listen(s) ==
    /\ server[s] = "listen"
    /\ \/ Go(s, "up") /\ UNCHANGED ctxDone
       \/ ctxDone /\ Go(s, "closed") /\ UNCHANGED ctxDone
       \/ Fails(s)
    /\ UNCHANGED <<diskVars, main, pair, job, creating, starts, damaged>>

\* Mutant: Run returns once Shutdown has: when no job is left.
ShutdownWhenIdle(s) ==
    /\ server[s] = "up" /\ ctxDone
    /\ \A j \in Jobs : job[j] # "running"
    /\ Go(s, "closed")
    /\ UNCHANGED <<diskVars, main, ctxDone, pair, job, creating, starts, damaged>>

\* Shutdown closes the listener, on which ListenAndServe, and Run, return while
\* Shutdown still waits for the jobs.
Shutdown(s) ==
    /\ server[s] = "up" /\ ctxDone
    /\ Go(s, "closed")
    /\ UNCHANGED <<diskVars, main, ctxDone, pair, job, creating, starts, damaged>>

\* Mutant: the first server to end ends the program.
AnyOver == \E s \in Servers : server[s] \in Over

AllOver == \A s \in Servers : server[s] \in Over

\* The process is gone, and with it whatever it was doing.
Gone ==
    /\ main' = "down" /\ server' = [s \in Servers |-> "off"]
    /\ ctxDone' = FALSE /\ pair' = Missing
    /\ job' = [j \in Jobs |-> IF job[j] = "running" THEN "cut" ELSE job[j]]
    /\ UNCHANGED <<diskVars, creating, starts>>

\* g.Wait returns, and main does.
Exit == main = "serve" /\ AllOver /\ Gone /\ UNCHANGED damaged

ServerStep(s) == Listen(s) \/ Shutdown(s)
CertStep ==
    \/ GetOrCreate \/ TruncateCert \/ WriteCert \/ TruncateKey \/ WriteKey
    \/ WriteFileFails
MainStep == OpenStore \/ CountUsers \/ BootstrapAdmin \/ Exit

-----------------------------------------------------------------------------
(* The users of the host, its supervisor and the machine.                   *)

\* SIGINT or SIGTERM, which NotifyContext takes once the servers are to start;
\* before that it kills.
Signal ==
    /\ main = "serve" /\ ~ctxDone
    /\ ctxDone' = TRUE
    /\ UNCHANGED <<diskVars, main, server, pair, job, creating, starts, damaged>>

\* SIGKILL, a panic or the machine: at any moment.
Crash ==
    /\ main # "down" /\ Gone
    /\ damaged' = (damaged \/ server["tunnel"] \in Generating)

Accept(j) ==
    /\ job[j] = "none" /\ \E s \in Servers : server[s] = "up"
    /\ job' = [job EXCEPT ![j] = "running"]
    /\ UNCHANGED <<diskVars, main, server, ctxDone, pair, creating, starts, damaged>>

FinishJob(j) ==
    /\ job[j] = "running"
    /\ job' = [job EXCEPT ![j] = "done"]
    /\ UNCHANGED <<diskVars, main, server, ctxDone, pair, creating, starts, damaged>>

\* A listener that is up fails in Accept: Serve, and Run, return its error.
LosesListener(s) ==
    /\ server[s] = "up"
    /\ Fails(s)
    /\ UNCHANGED <<diskVars, main, pair, job, creating, starts, damaged>>

\* host create-admin: opens the same database, hashes, inserts.
BeginCreateAdmin ==
    /\ creating = "none"
    /\ creating' = "insert"
    /\ UNCHANGED <<diskVars, procVars, starts, damaged>>

CreateAdmin ==
    /\ creating = "insert"
    /\ \/ \E n \in Names \ users : users' = users \cup {n} /\ creating' = "done"
       \/ creating' = "failed" /\ UNCHANGED users
    /\ UNCHANGED <<cert, key, procVars, starts, damaged>>

Environment ==
    \/ Start \/ Signal \/ Crash
    \/ \E j \in Jobs : Accept(j) \/ FinishJob(j)
    \/ \E s \in Servers : LosesListener(s)
    \/ BeginCreateAdmin \/ CreateAdmin

\* No start is left.
Finished == main = "down" /\ starts = MaxStarts /\ UNCHANGED vars

Next ==
    \/ MainStep \/ CertStep
    \/ \E s \in Servers : ServerStep(s)
    \/ Environment \/ Finished

Spec == Init /\ [][Next]_vars

\* The process runs: its goroutines are scheduled and its files and sockets
\* answer. Nothing is asked of the jobs, the supervisor or the machine.
FairSpec ==
    /\ Spec
    /\ WF_vars(MainStep) /\ WF_vars(CertStep)
    /\ \A s \in Servers : WF_vars(ServerStep(s))

-----------------------------------------------------------------------------
(* Properties.                                                              *)

\* Every variable has its type, and a server is somewhere in Run only while main
\* waits for it.
TypeOK ==
    /\ users \subseteq Names /\ cert \in Files /\ key \in Files
    /\ main \in Starting \cup {"down", "serve"}
    /\ server \in [Servers -> ServerStates]
    /\ \A s \in Servers : server[s] = "off" <=> main # "serve"
    /\ ctxDone \in BOOLEAN /\ pair \in (0..MaxStarts) \cup {Missing}
    /\ job \in [Jobs -> {"none", "running", "done", "cut"}]
    /\ creating \in {"none", "insert", "done", "failed"}
    /\ starts \in 0..MaxStarts /\ damaged \in BOOLEAN

\* Whatever interrupted the starts before, a host that serves has an account:
\* nobody could create the first one from the portal. Disabled accounts count,
\* since no handler keeps the only administrator from disabling himself.
SomebodyCanSignIn == main = "serve" => users # {}

\* The pair the tunnel server presents is the one on disk, whole: the next start
\* presents it again, and clients that trusted it still do.
PairOutlivesProcess == pair # Missing => cert = pair /\ key = pair

\* A start is stopped by its certificate files only if a write of them was
\* interrupted before: not by a file that is missing, and not by a signal or a
\* failing server while they were written, which the process waits out.
FilesLoadUnlessDamaged ==
    server["tunnel"] = "load" /\ BothExist /\ ~damaged => Loads

\* The inductive form of the two: what the files hold at each step of Run.
FilesInv ==
    /\ ~damaged =>
          CASE server["tunnel"] = "certOpen" -> cert = Torn
            [] server["tunnel"] = "keyWait" -> cert = starts
            [] server["tunnel"] = "keyOpen" -> cert = starts /\ key = Torn
            [] OTHER -> BothExist => Loads
    /\ server["tunnel"] \in {"keyWait", "keyOpen"} => cert = starts
    /\ PairOutlivesProcess
    /\ pair # Missing => server["tunnel"] \in Over \cup {"listen", "up"}

-----------------------------------------------------------------------------
(* Liveness.                                                                *)

\* A host told to stop ends, though requests hang and tunnels stay connected; and
\* one that lost a server, at its start or later, does not live on without it, so a
\* supervisor sees it end.
StopEnds ==
    (main = "serve" /\ (ctxDone \/ \E s \in Servers : server[s] = "failed")) ~> (main = "down")
===============================================================================
