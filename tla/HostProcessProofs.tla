-------------------------- MODULE HostProcessProofs --------------------------
(***************************************************************************)
(* Theorems about HostProcess, for any number of starts, crashes, accounts  *)
(* and jobs, with and without a certificate.                                *)
(***************************************************************************)
EXTENDS HostProcess, TLAPS

-----------------------------------------------------------------------------
(* Types.                                                                   *)

LEMMA TypeInit == Init => TypeOK
<1> SUFFICES ASSUME Init PROVE TypeOK
  OBVIOUS
<1>1. cert \in Files /\ key \in Files /\ pair \in (0..MaxStarts) \cup {Missing}
  BY ProcessAssumption DEF Init, Files
<1>2. server \in [Servers -> ServerStates] /\ \A s \in Servers : server[s] = "off" <=> main # "serve"
  BY DEF Init, ServerStates
<1>3. starts \in 0..MaxStarts
  BY ProcessAssumption DEF Init
<1> QED
  BY <1>1, <1>2, <1>3 DEF Init, TypeOK, Starting

LEMMA TypeStep == TypeOK /\ [Next]_vars => TypeOK'
<1> SUFFICES ASSUME TypeOK, [Next]_vars PROVE TypeOK'
  OBVIOUS
<1> USE ProcessAssumption
    DEF TypeOK, Files, ServerStates, Servers, Starting, Generating, Over, diskVars, procVars
<1>1. CASE Start
  BY <1>1 DEF Start
<1>2. CASE OpenStore
  BY <1>2 DEF OpenStore, To
<1>3. CASE CountUsers
  BY <1>3 DEF CountUsers, To, RunServers
<1>4. CASE BootstrapAdmin
  BY <1>4 DEF BootstrapAdmin, To, RunServers
<1>5. CASE GetOrCreate
  BY <1>5 DEF GetOrCreate, Go, Fails, Loads, BothExist
<1>6. CASE TruncateCert \/ WriteCert \/ TruncateKey \/ WriteKey
  <2>1. starts \in Files /\ Torn \in Files /\ starts \in (0..MaxStarts) \cup {Missing}
    OBVIOUS
  <2>2. CASE TruncateCert \/ WriteCert
    BY <2>1, <2>2 DEF TruncateCert, WriteCert, Go
  <2>3. CASE TruncateKey
    BY <2>1, <2>3 DEF TruncateKey, Go
  <2>4. CASE WriteKey
    BY <2>1, <2>4 DEF WriteKey, Go
  <2> QED
    BY <1>6, <2>2, <2>3, <2>4
<1>7. CASE WriteFileFails
  BY <1>7 DEF WriteFileFails, Fails, Go
<1>8. ASSUME NEW s \in Servers, Listen(s) \/ Shutdown(s) \/ LosesListener(s) PROVE TypeOK'
  <2>1. PICK to \in Over \cup {"up"} : server' = [server EXCEPT ![s] = to] /\ server[s] # "off"
    BY <1>8 DEF Listen, Shutdown, LosesListener, Fails, Go
  <2>2. ctxDone' \in BOOLEAN /\ UNCHANGED <<diskVars, main, pair, job, creating, starts, damaged>>
    BY <1>8 DEF Listen, Shutdown, LosesListener, Fails
  <2>3. server' \in [Servers -> ServerStates]
    BY <2>1
  <2>4. \A t \in Servers : server'[t] = "off" <=> main # "serve"
    BY <2>1
  <2> QED
    BY <2>2, <2>3, <2>4
<1>9. CASE Exit \/ Crash
  <2>1. Gone /\ damaged' \in BOOLEAN
    BY <1>9 DEF Exit, Crash
  <2>2. job' \in [Jobs -> {"none", "running", "done", "cut"}]
    BY <2>1 DEF Gone
  <2>3. server' \in [Servers -> ServerStates] /\ \A s \in Servers : server'[s] = "off"
    BY <2>1 DEF Gone
  <2> QED
    BY <2>1, <2>2, <2>3 DEF Gone
<1>10. CASE Signal
  BY <1>10 DEF Signal
<1>11. ASSUME NEW j \in Jobs, Accept(j) \/ FinishJob(j) PROVE TypeOK'
  BY <1>11 DEF Accept, FinishJob
<1>12. CASE BeginCreateAdmin \/ CreateAdmin
  BY <1>12 DEF BeginCreateAdmin, CreateAdmin
<1>13. CASE UNCHANGED vars
  BY <1>13 DEF vars
<1> QED
  BY <1>1, <1>2, <1>3, <1>4, <1>5, <1>6, <1>7, <1>8, <1>9, <1>10, <1>11, <1>12, <1>13
     DEF Next, MainStep, CertStep, ServerStep, Environment, Finished

\* However often the host is killed, stopped and started, its variables keep to
\* their types, and no server runs without main.
THEOREM ProcessTypeCorrect == Spec => []TypeOK
BY TypeInit, TypeStep, PTL DEF Spec

-----------------------------------------------------------------------------
(* The first account.                                                       *)

\* Accounts are never deleted, and the servers start only where there is one.
THEOREM AccountBeforeService == Spec => []SomebodyCanSignIn
<1>1. Init => SomebodyCanSignIn
  BY DEF Init, SomebodyCanSignIn
<1>2. SomebodyCanSignIn /\ [Next]_vars => SomebodyCanSignIn'
  <2> SUFFICES ASSUME SomebodyCanSignIn, [Next]_vars PROVE SomebodyCanSignIn'
    OBVIOUS
  <2> USE DEF SomebodyCanSignIn, diskVars, procVars
  <2>1. CASE CountUsers
    BY <2>1 DEF CountUsers, NeedsAdmin, To
  <2>2. CASE BootstrapAdmin
    BY <2>2 DEF BootstrapAdmin, To
  <2>3. CASE CreateAdmin
    BY <2>3 DEF CreateAdmin
  <2>4. CASE Start \/ OpenStore
    BY <2>4 DEF Start, OpenStore, To
  <2>5. CASE Exit \/ Crash
    BY <2>5 DEF Exit, Crash, Gone
  <2>6. CASE UNCHANGED <<users, main>>
    BY <2>6
  <2> QED
    BY <2>1, <2>2, <2>3, <2>4, <2>5, <2>6
       DEF Next, MainStep, CertStep, ServerStep, Environment, Finished, vars,
           GetOrCreate, TruncateCert, WriteCert, TruncateKey, WriteKey, WriteFileFails,
           Listen, Shutdown, LosesListener, Fails, Signal, Accept, FinishJob, BeginCreateAdmin
<1> QED
  BY <1>1, <1>2, PTL DEF Spec

-----------------------------------------------------------------------------
(* The certificate files.                                                   *)

LEMMA FilesInit == Init => FilesInv
BY ProcessAssumption DEF Init, FilesInv, PairOutlivesProcess, BothExist, Loads, Servers

\* A step that leaves the files alone, and moves the tunnel server between two
\* points where nothing is being written.
LEMMA IdleFiles ==
  ASSUME FilesInv, UNCHANGED <<cert, key, pair, damaged>>,
         server["tunnel"] \notin Generating, server'["tunnel"] \notin Generating,
         pair # Missing => server'["tunnel"] \in Over \cup {"listen", "up"}
  PROVE  FilesInv'
BY DEF FilesInv, PairOutlivesProcess, BothExist, Loads, Generating

LEMMA FilesStep == TypeOK /\ FilesInv /\ [Next]_vars => FilesInv'
<1> SUFFICES ASSUME TypeOK, FilesInv, [Next]_vars PROVE FilesInv'
  OBVIOUS
<1> USE DEF diskVars, procVars, Go
<1>0. starts \in Nat /\ starts # Missing /\ starts # Torn /\ Missing # Torn
  BY ProcessAssumption DEF TypeOK
<1>1. CASE UNCHANGED <<cert, key, pair, damaged, server>> /\ (server["tunnel"] \in Generating => starts' = starts)
  BY <1>1 DEF FilesInv, PairOutlivesProcess, BothExist, Loads, Generating
<1>2. CASE Start
  <2>1. server["tunnel"] = "off"
    BY <1>2 DEF Start, TypeOK, Servers
  <2> QED
    BY <1>1, <1>2, <2>1 DEF Start, Generating
<1>3. CASE OpenStore
  BY <1>1, <1>3 DEF OpenStore, To
<1>4. CASE CountUsers \/ BootstrapAdmin
  <2>1. CASE RunServers /\ UNCHANGED <<cert, key, damaged>> /\ main # "serve"
    <3>1. server["tunnel"] = "off" /\ server'["tunnel"] \in {"load", "listen"} /\ pair = Missing
      BY <2>1 DEF RunServers, TypeOK, Servers, FilesInv, Over
    <3> QED
      BY <2>1, <3>1, IdleFiles DEF RunServers, Generating, Over
  <2>2. CASE UNCHANGED <<server, pair, cert, key, starts, damaged>>
    BY <1>1, <2>2
  <2> QED
    BY <1>4, <2>1, <2>2 DEF CountUsers, BootstrapAdmin, To
<1>5. CASE GetOrCreate
  <2>1. server["tunnel"] = "load" /\ pair = Missing /\ UNCHANGED <<cert, key, damaged>>
    BY <1>5 DEF GetOrCreate, FilesInv, Over
  <2>2. CASE pair' = pair /\ server'["tunnel"] \in {"certWait", "failed"}
    BY <2>1, <2>2, IdleFiles DEF Generating, Over
  <2>3. CASE pair' = cert /\ Loads /\ server'["tunnel"] = "listen"
    BY <2>1, <2>3 DEF FilesInv, PairOutlivesProcess, BothExist, Loads, Generating, Over
  <2> QED
    BY <1>5, <2>2, <2>3 DEF GetOrCreate, Fails, TypeOK, Servers
<1>6. CASE TruncateCert
  <2>1. /\ server'["tunnel"] = "certOpen" /\ pair = Missing /\ cert' = Torn
        /\ UNCHANGED <<key, pair, damaged, starts>>
    BY <1>6 DEF TruncateCert, FilesInv, Over, TypeOK, Servers
  <2> QED
    BY <2>1 DEF FilesInv, PairOutlivesProcess
<1>7. CASE WriteCert
  <2>1. /\ server'["tunnel"] = "keyWait" /\ pair = Missing /\ cert' = starts
        /\ UNCHANGED <<key, pair, damaged, starts>>
    BY <1>7 DEF WriteCert, FilesInv, Over, TypeOK, Servers
  <2> QED
    BY <2>1 DEF FilesInv, PairOutlivesProcess
<1>8. CASE TruncateKey
  <2>1. /\ server["tunnel"] = "keyWait" /\ server'["tunnel"] = "keyOpen"
        /\ pair = Missing /\ key' = Torn
        /\ UNCHANGED <<cert, pair, damaged, starts>>
    BY <1>8 DEF TruncateKey, FilesInv, Over, TypeOK, Servers
  <2> QED
    BY <2>1 DEF FilesInv, PairOutlivesProcess
<1>9. CASE WriteKey
  <2>1. /\ server["tunnel"] = "keyOpen" /\ server'["tunnel"] = "listen"
        /\ key' = starts /\ pair' = starts /\ UNCHANGED <<cert, starts>>
    BY <1>9 DEF WriteKey, TypeOK, Servers
  <2>2. cert = starts
    BY <2>1 DEF FilesInv
  <2> QED
    BY <1>0, <2>1, <2>2 DEF FilesInv, PairOutlivesProcess, BothExist, Loads
<1>10. CASE WriteFileFails
  <2>1. /\ server["tunnel"] \in Generating \cup {"certWait"} /\ server'["tunnel"] = "failed"
        /\ pair = Missing /\ UNCHANGED <<cert, key, pair>>
        /\ damaged' = (damaged \/ server["tunnel"] # "certWait")
    BY <1>10 DEF WriteFileFails, Fails, FilesInv, Over, Generating, TypeOK, Servers
  <2>2. CASE damaged'
    BY <2>1, <2>2 DEF FilesInv, PairOutlivesProcess
  <2>3. CASE ~damaged'
    <3>1. ~damaged /\ server["tunnel"] = "certWait"
      BY <2>1, <2>3
    <3>2. BothExist => Loads
      BY <3>1 DEF FilesInv
    <3> QED
      BY <2>1, <3>2 DEF FilesInv, PairOutlivesProcess, BothExist, Loads
  <2> QED
    BY <2>2, <2>3
<1>11. ASSUME NEW s \in Servers, Listen(s) \/ Shutdown(s) \/ LosesListener(s) PROVE FilesInv'
  <2>1. UNCHANGED <<cert, key, pair, damaged, starts>>
    BY <1>11 DEF Listen, Shutdown, LosesListener
  <2>2. CASE s = "tunnel"
    <3>1. server["tunnel"] \in {"listen", "up"} /\ server'["tunnel"] \in Over \cup {"up"}
      BY <1>11, <2>2 DEF Listen, Shutdown, LosesListener, Fails, Over, TypeOK, Servers
    <3> QED
      BY <2>1, <3>1, IdleFiles DEF Generating, Over
  <2>3. CASE s # "tunnel"
    <3>1. server'["tunnel"] = server["tunnel"]
      BY <1>11, <2>3 DEF Listen, Shutdown, LosesListener, Fails, TypeOK, Servers
    <3> QED
      BY <2>1, <3>1 DEF FilesInv, PairOutlivesProcess, BothExist, Loads
  <2> QED
    BY <2>2, <2>3
<1>12. CASE Exit \/ Crash
  <2>1. /\ server'["tunnel"] = "off" /\ pair' = Missing /\ UNCHANGED <<cert, key>>
        /\ ~damaged' => ~damaged /\ server["tunnel"] \notin Generating
    <3>1. server'["tunnel"] = "off" /\ pair' = Missing /\ UNCHANGED <<cert, key>>
      BY <1>12 DEF Exit, Crash, Gone, Servers
    <3>2. CASE Crash
      BY <3>1, <3>2 DEF Crash
    <3>3. CASE Exit
      <4>1. server["tunnel"] \in Over
        BY <3>3 DEF Exit, AllOver, Servers
      <4> QED
        BY <3>1, <3>3, <4>1 DEF Exit, Over, Generating
    <3> QED
      BY <1>12, <3>2, <3>3
  <2> QED
    BY <2>1 DEF FilesInv, PairOutlivesProcess, BothExist, Loads, Generating
<1>13. CASE Signal
  BY <1>1, <1>13 DEF Signal
<1>14. ASSUME NEW j \in Jobs, Accept(j) \/ FinishJob(j) PROVE FilesInv'
  BY <1>1, <1>14 DEF Accept, FinishJob
<1>15. CASE BeginCreateAdmin \/ CreateAdmin
  BY <1>1, <1>15 DEF BeginCreateAdmin, CreateAdmin
<1>16. CASE UNCHANGED vars
  BY <1>1, <1>16 DEF vars
<1> QED
  BY <1>2, <1>3, <1>4, <1>5, <1>6, <1>7, <1>8, <1>9, <1>10, <1>11, <1>12, <1>13, <1>14, <1>15, <1>16
     DEF Next, MainStep, CertStep, ServerStep, Environment, Finished

LEMMA FilesInvariant == Spec => []FilesInv
<1>1. Init => TypeOK /\ FilesInv
  BY TypeInit, FilesInit
<1>2. TypeOK /\ FilesInv /\ [Next]_vars => (TypeOK /\ FilesInv)'
  BY TypeStep, FilesStep
<1> QED
  BY <1>1, <1>2, PTL DEF Spec

\* The certificate clients see is the one a restart will present.
THEOREM PairIsKept == Spec => []PairOutlivesProcess
<1>1. FilesInv => PairOutlivesProcess
  BY DEF FilesInv
<1> QED
  BY <1>1, FilesInvariant, PTL

\* Files that no crash and no error damaged load.
THEOREM UndamagedFilesLoad == Spec => []FilesLoadUnlessDamaged
<1>1. FilesInv => FilesLoadUnlessDamaged
  BY DEF FilesInv, FilesLoadUnlessDamaged
<1> QED
  BY <1>1, FilesInvariant, PTL

===============================================================================
