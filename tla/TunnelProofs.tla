------------------------------ MODULE TunnelProofs ------------------------------
(***************************************************************************)
(* Proofs about Tunnel, for any number of requests, slots and messages in   *)
(* the pipes.                                                               *)
(***************************************************************************)
EXTENDS Tunnel, PipeLemmas, FiniteSetTheorems

\* A message joins a pipe that is not full, or leaves one that is not empty.
LEMMA PipeAppends ==
    ASSUME NEW S, NEW pipe \in Seq(S), NEW m \in S, Len(pipe) < SocketCap
    PROVE  Append(pipe, m) \in Seq(S) /\ Len(Append(pipe, m)) <= SocketCap
  BY TunnelAssumption

LEMMA PipeReads ==
    ASSUME NEW S, NEW pipe \in Seq(S), Len(pipe) <= SocketCap, pipe # <<>>
    PROVE  /\ Head(pipe) \in S
           /\ Tail(pipe) \in Seq(S) /\ Len(Tail(pipe)) <= SocketCap
<1>1. Head(pipe) \in S /\ Tail(pipe) \in Seq(S) /\ Len(Tail(pipe)) = Len(pipe) - 1
  BY HeadTailProperties
<1> QED
  BY <1>1, LenProperties, TunnelAssumption

\* A connection that is closed has types too.
LEMMA ShutType ==
    ASSUME Shut
    PROVE  /\ conn' \in {"open", "closed"}
           /\ toClient' \in Seq(Requests \cup {Info}) /\ Len(toClient') <= SocketCap
           /\ toHost' \in Seq(Requests) /\ Len(toHost') <= SocketCap
  BY TunnelAssumption DEF Shut

LEMMA InitType == Init => TypeOK
  BY TunnelAssumption DEF Init, TypeOK, Running, Unsent

\* The steps of SendHttpRequest.
LEMMA SendType ==
    ASSUME TypeOK, NEW r \in Requests,
           StartConversation(r) \/ SendStep(r) \/ GiveUp(r)
    PROVE  TypeOK'
<1> USE DEF TypeOK, RequestTo, Unsent, linkVars, hostVars, clientVars
<1>1. CASE StartConversation(r)
  BY <1>1 DEF StartConversation
<1>2. CASE LockWrite(r)
  BY <1>2 DEF LockWrite
<1>3. CASE WriteRequest(r)
  <2>1. toClient' \in Seq(Requests \cup {Info}) /\ Len(toClient') <= SocketCap
    BY <1>3, PipeAppends DEF WriteRequest
  <2> QED
    BY <1>3, <2>1 DEF WriteRequest
<1>4. CASE WriteFails(r)
  BY <1>4 DEF WriteFails
<1>5. CASE GiveUp(r)
  BY <1>5, ShutType DEF GiveUp
<1> QED
  BY <1>1, <1>2, <1>3, <1>4, <1>5 DEF SendStep

\* The steps of handleConn and readPump.
LEMMA PumpType ==
    ASSUME TypeOK, PumpStep
    PROVE  TypeOK'
<1> USE DEF TypeOK, linkVars, hostVars, clientVars
<1>1. CASE LockInfo
  BY <1>1 DEF LockInfo
<1>2. CASE WriteInfo
  <2>1. toClient' \in Seq(Requests \cup {Info}) /\ Len(toClient') <= SocketCap
    <3>1. CASE conn = "open"
      <4>1. toClient' = Append(toClient, Info) /\ Len(toClient) < SocketCap
        BY <1>2, <3>1 DEF WriteInfo
      <4>2. toClient \in Seq(Requests \cup {Info}) /\ Info \in Requests \cup {Info}
        OBVIOUS
      <4> HIDE DEF TypeOK
      <4> QED
        BY <4>1, <4>2, PipeAppends
    <3>2. CASE conn = "closed"
      BY <1>2, <3>2 DEF WriteInfo
    <3> QED
      BY <3>1, <3>2
  <2> QED
    BY <1>2, <2>1 DEF WriteInfo
<1>3. CASE PumpRead
  <2>1. toHost' \in Seq(Requests) /\ Len(toHost') <= SocketCap
    BY <1>3, PipeReads DEF PumpRead
  <2>2. rpc' \in [Requests -> Unsent \cup {"wait", "over", "served"}]
    BY <1>3 DEF PumpRead
  <2> QED
    BY <1>3, <2>1, <2>2 DEF PumpRead
<1>4. CASE PumpError
  BY <1>4 DEF PumpError
<1> QED
  BY <1>1, <1>2, <1>3, <1>4 DEF PumpStep

\* The steps of serve's read loop.
LEMMA LoopType ==
    ASSUME TypeOK, LoopStep
    PROVE  TypeOK'
<1> USE DEF TypeOK, HandlerTo, Running, linkVars, hostVars, clientVars
<1>1. CASE ReadMessage
  <2>1. /\ Head(toClient) \in Requests \cup {Info}
        /\ toClient' \in Seq(Requests \cup {Info}) /\ Len(toClient') <= SocketCap
    BY <1>1, PipeReads DEF ReadMessage
  <2> QED
    BY <1>1, <2>1 DEF ReadMessage
<1>2. CASE Acquire
  BY <1>2 DEF Acquire
<1>3. CASE ReadFails
  BY <1>3 DEF ReadFails
<1>4. CASE Drain
  BY <1>4 DEF Drain
<1> QED
  BY <1>1, <1>2, <1>3, <1>4 DEF LoopStep

\* The steps of handleRequest.
LEMMA HandlerType ==
    ASSUME TypeOK, NEW r \in Requests, HandlerStep(r) \/ WriteTimeout(r)
    PROVE  TypeOK'
<1> USE DEF TypeOK, HandlerTo, Running, linkVars, hostVars, clientVars
<1>1. CASE LocalAnswers(r)
  BY <1>1 DEF LocalAnswers
<1>2. CASE LockAnswer(r)
  BY <1>2 DEF LockAnswer
<1>3. CASE WriteAnswer(r)
  <2>1. toHost' \in Seq(Requests) /\ Len(toHost') <= SocketCap
    BY <1>3, PipeAppends DEF WriteAnswer
  <2> QED
    BY <1>3, <2>1 DEF WriteAnswer
<1>4. CASE WriteTimeout(r)
  BY <1>4, ShutType DEF WriteTimeout
<1> QED
  BY <1>1, <1>2, <1>3, <1>4 DEF HandlerStep

LEMMA TypeStep == TypeOK /\ [Next]_vars => TypeOK'
<1> SUFFICES ASSUME TypeOK, [Next]_vars PROVE TypeOK'
  OBVIOUS
<1>1. CASE \E r \in Requests : StartConversation(r) \/ SendStep(r) \/ GiveUp(r)
  BY <1>1, SendType
<1>2. CASE \E r \in Requests : HandlerStep(r) \/ WriteTimeout(r)
  BY <1>2, HandlerType
<1>3. CASE PumpStep
  BY <1>3, PumpType
<1>4. CASE LoopStep
  BY <1>4, LoopType
<1>5. CASE LoseConnection
  BY <1>5, ShutType DEF LoseConnection, TypeOK, hostVars, clientVars
<1>6. CASE UNCHANGED vars
  BY <1>6 DEF TypeOK, vars, linkVars, hostVars, clientVars
<1> QED
  BY <1>1, <1>2, <1>3, <1>4, <1>5, <1>6 DEF Next, Finished

\* A closed connection has nothing on its way.
LEMMA PipeEmpty == Range(<<>>) = {} /\ Once(<<>>)
  BY EmptyPipe DEF Once, Distinct

LEMMA OnceIsDistinct == \A pipe : Once(pipe) <=> Distinct(pipe, Info)
  BY DEF Once, Distinct

-----------------------------------------------------------------------------
(* One lemma per part of TunnelInv: every step keeps it.                    *)

\* A lock changes hands with the state of who writes.
LEMMA LockStep ==
    ASSUME TypeOK, LockInv, PlaceInv, Next
    PROVE  LockInv'
<1> USE TunnelAssumption DEF TypeOK, LockInv, RequestTo, HandlerTo, Shut, Running, Unsent,
                             linkVars, hostVars, clientVars
<1>1. ASSUME NEW r \in Requests, StartConversation(r) PROVE LockInv'
  BY <1>1 DEF StartConversation
<1>2. ASSUME NEW r \in Requests, LockWrite(r) PROVE LockInv'
  BY <1>2 DEF LockWrite
<1>3. ASSUME NEW r \in Requests, WriteRequest(r) PROVE LockInv'
  BY <1>3 DEF WriteRequest
<1>4. ASSUME NEW r \in Requests, WriteFails(r) PROVE LockInv'
  BY <1>4 DEF WriteFails
<1>5. ASSUME NEW r \in Requests, GiveUp(r) PROVE LockInv'
  BY <1>5 DEF GiveUp
<1>6. ASSUME NEW r \in Requests, LocalAnswers(r) PROVE LockInv'
  BY <1>6 DEF LocalAnswers
<1>7. ASSUME NEW r \in Requests, LockAnswer(r) PROVE LockInv'
  BY <1>7 DEF LockAnswer
<1>8. ASSUME NEW r \in Requests, WriteAnswer(r) PROVE LockInv'
  BY <1>8 DEF WriteAnswer
<1>9. ASSUME NEW r \in Requests, WriteTimeout(r) PROVE LockInv'
  BY <1>9 DEF WriteTimeout
<1>10. CASE LockInfo
  BY <1>10 DEF LockInfo
<1>11. CASE WriteInfo
  BY <1>11 DEF WriteInfo
<1>12. CASE PumpRead
  <2>1. UNCHANGED <<conn, hpc, hostMu, loop, handler, clientMu>>
    BY <1>12 DEF PumpRead
  <2>2. \A r \in Requests : rpc'[r] = rpc[r] \/ {rpc[r], rpc'[r]} = {"wait", "served"}
    BY <1>12 DEF PumpRead
  <2>3. \A r \in Requests : rpc'[r] = "write" <=> rpc[r] = "write"
    BY <2>2
  <2> QED
    BY <2>1, <2>3
<1>13. CASE PumpError
  BY <1>13 DEF PumpError
<1>14. CASE ReadMessage
  BY <1>14 DEF ReadMessage
<1>15. CASE Acquire
  <2>1. cmd \in Requests /\ handler[cmd] # "write"
    BY <1>15 DEF Acquire, PlaceInv
  <2> QED
    BY <1>15, <2>1 DEF Acquire
<1>16. CASE ReadFails
  BY <1>16 DEF ReadFails
<1>17. CASE Drain
  BY <1>17 DEF Drain
<1>18. CASE LoseConnection
  BY <1>18 DEF LoseConnection
<1>19. CASE Finished
  BY <1>19 DEF Finished, vars
<1> QED
  BY <1>1, <1>2, <1>3, <1>4, <1>5, <1>6, <1>7, <1>8, <1>9, <1>10, <1>11, <1>12, <1>13,
     <1>14, <1>15, <1>16, <1>17, <1>18, <1>19
  DEF Next, SendStep, HandlerStep, PumpStep, LoopStep

\* A step that puts nothing into a pipe or a hand leaves every request where it is, or
\* takes it away.
LEMMA NothingNewPlaced ==
    ASSUME TypeOK, PlaceInv, UNCHANGED cmd,
           toClient' \in {toClient, <<>>}, Range(toHost') \subseteq Range(toHost),
           \A r \in Requests : /\ rpc'[r] \in Unsent => rpc[r] \in Unsent
                               /\ handler'[r] = "none" <=> handler[r] = "none"
                               /\ rpc'[r] = "served" => rpc[r] = "served" \/ handler[r] = "over"
                               /\ handler[r] = "over" => handler'[r] = "over"
    PROVE  PlaceInv'
<1>1. toClient' = toClient \/ (toClient' = <<>> /\ Range(toClient') = {})
  BY PipeEmpty
<1>2. Once(toClient') /\ cmd' \notin Range(toClient')
  BY <1>1, PipeEmpty DEF PlaceInv
<1>3. Range(toClient') \subseteq Range(toClient)
  BY <1>1
<1>4. Range(toHost) \subseteq Requests
  BY DEF TypeOK, Range
<1> QED
  BY <1>2, <1>3, <1>4 DEF PlaceInv

LEMMA PlaceStep ==
    ASSUME TypeOK, PlaceInv, Next
    PROVE  PlaceInv'
<1> USE TunnelAssumption DEF TypeOK, RequestTo, HandlerTo, Running, Unsent,
                             linkVars, hostVars, clientVars
<1>1. ASSUME NEW r \in Requests, StartConversation(r) \/ LockWrite(r) \/ WriteFails(r)
      PROVE  PlaceInv'
  BY <1>1, NothingNewPlaced DEF StartConversation, LockWrite, WriteFails
<1>2. ASSUME NEW r \in Requests, WriteRequest(r) PROVE PlaceInv'
  <2>1. /\ toClient \in Seq(Requests \cup {Info}) /\ r \in Requests \cup {Info}
        /\ toClient' = Append(toClient, r) /\ rpc[r] = "write"
        /\ UNCHANGED <<toHost, loop, cmd, handler>>
        /\ \A q \in Requests : rpc'[q] = IF q = r THEN "wait" ELSE rpc[q]
    BY <1>2 DEF WriteRequest
  <2>2. handler[r] = "none" /\ r \notin Range(toClient) /\ cmd # r
    BY <2>1 DEF PlaceInv
  <2>3. Range(toClient') = Range(toClient) \cup {r}
    BY ONLY <2>1, RangeAppended
  <2>4. Once(toClient')
    BY ONLY <2>1, <2>2, DistinctAppended, OnceIsDistinct, PlaceInv DEF PlaceInv
  <2> QED
    BY <2>1, <2>2, <2>3, <2>4 DEF PlaceInv
<1>3. ASSUME NEW r \in Requests, GiveUp(r) PROVE PlaceInv'
  BY <1>3, NothingNewPlaced, PipeEmpty DEF GiveUp, Shut
<1>4. ASSUME NEW r \in Requests, LocalAnswers(r) \/ LockAnswer(r) PROVE PlaceInv'
  BY <1>4, NothingNewPlaced DEF LocalAnswers, LockAnswer
<1>5. ASSUME NEW r \in Requests, WriteAnswer(r) PROVE PlaceInv'
  <2>1. /\ handler[r] = "write" /\ UNCHANGED <<toClient, rpc, loop, cmd>>
        /\ toHost' = Append(toHost, r) \/ UNCHANGED toHost
        /\ handler' = [handler EXCEPT ![r] = "over"]
        /\ toHost \in Seq(Requests)
    BY <1>5 DEF WriteAnswer
  <2>2. Range(toHost') \subseteq Range(toHost) \cup {r} /\ Range(toHost) \subseteq Requests
    BY ONLY <1>5, <2>1, RangeAppended DEF Range
  <2> QED
    BY <2>1, <2>2 DEF PlaceInv
<1>6. ASSUME NEW r \in Requests, WriteTimeout(r) PROVE PlaceInv'
  BY <1>6, NothingNewPlaced, PipeEmpty DEF WriteTimeout, Shut
<1>7. CASE LockInfo \/ PumpError \/ ReadFails \/ Drain \/ Finished
  BY <1>7, NothingNewPlaced DEF LockInfo, PumpError, ReadFails, Drain, Finished, vars
<1>8. CASE WriteInfo
  <2>1. /\ toClient \in Seq(Requests \cup {Info}) /\ Info \in Requests \cup {Info}
        /\ toClient' = Append(toClient, Info) \/ UNCHANGED toClient
        /\ UNCHANGED <<toHost, rpc, loop, cmd, handler>>
    BY <1>8 DEF WriteInfo
  <2>2. Range(toClient') \subseteq Range(toClient) \cup {Info}
    BY ONLY <2>1, RangeAppended
  <2>3. Once(toClient')
    <3>1. Distinct(toClient, Info)
      BY ONLY OnceIsDistinct, PlaceInv DEF PlaceInv
    <3>2. Distinct(Append(toClient, Info), Info)
      BY ONLY <2>1, <3>1, DistinctAppended
    <3> QED
      BY ONLY <2>1, <3>1, <3>2, OnceIsDistinct
  <2>4. cmd # Info
    OBVIOUS
  <2> QED
    BY <2>1, <2>2, <2>3, <2>4 DEF PlaceInv
<1>9. CASE PumpRead
  <2>1. /\ toHost' = Tail(toHost) /\ toHost # <<>> /\ toHost \in Seq(Requests)
        /\ UNCHANGED <<toClient, loop, cmd, handler>>
        /\ \A r \in Requests : rpc'[r] \in Unsent => rpc[r] \in Unsent
        /\ \A r \in Requests : rpc'[r] = "served" => rpc[r] = "served" \/ r = Head(toHost)
    BY <1>9 DEF PumpRead
  <2>2. Range(toHost') \subseteq Range(toHost) /\ Head(toHost) \in Range(toHost)
    BY ONLY <2>1, RangeRead
  <2> QED
    BY <2>1, <2>2, NothingNewPlaced DEF PlaceInv
<1>10. CASE ReadMessage
  <2>1. /\ toClient' = Tail(toClient) /\ toClient # <<>>
        /\ toClient \in Seq(Requests \cup {Info})
        /\ UNCHANGED <<toHost, rpc, handler>>
        /\ cmd = Free
        /\ IF Head(toClient) = Info THEN cmd' = cmd ELSE cmd' = Head(toClient)
    BY <1>10 DEF ReadMessage
  <2>2. Range(toClient) = Range(toClient') \cup {Head(toClient)}
    BY ONLY <2>1, RangeRead
  <2>3. Once(toClient') /\ (Head(toClient) # Info => Head(toClient) \notin Range(toClient'))
    BY ONLY <2>1, DistinctRead, OnceIsDistinct, PlaceInv DEF PlaceInv
  <2> QED
    BY <2>1, <2>2, <2>3 DEF PlaceInv
<1>11. CASE Acquire
  <2>1. /\ cmd \in Requests /\ cmd' = Free
        /\ UNCHANGED <<toClient, toHost, rpc>>
        /\ handler' = [handler EXCEPT ![cmd] = "local"]
    BY <1>11 DEF Acquire
  <2>2. handler[cmd] = "none" /\ rpc[cmd] \notin Unsent /\ cmd \notin Range(toClient)
    BY <2>1 DEF PlaceInv
  <2>3. Range(toHost) \subseteq Requests /\ Free \notin Range(toClient)
    BY DEF Range
  <2> QED
    BY <2>1, <2>2, <2>3 DEF PlaceInv
<1>12. CASE LoseConnection
  BY <1>12, NothingNewPlaced, PipeEmpty DEF LoseConnection, Shut
<1> QED
  BY <1>1, <1>2, <1>3, <1>4, <1>5, <1>6, <1>7, <1>8, <1>9, <1>10, <1>11, <1>12
  DEF Next, SendStep, HandlerStep, PumpStep, LoopStep

\* TunnelInv holds throughout.
LEMMA TunnelInvariant == Spec => []TunnelInv
<1>1. Init => TunnelInv
  <2>1. Init => LockInv
    BY TunnelAssumption DEF Init, LockInv
  <2>2. Init => PlaceInv
    BY TunnelAssumption, PipeEmpty DEF Init, PlaceInv
  <2> QED
    BY <2>1, <2>2, InitType DEF TunnelInv
<1>2. TunnelInv /\ [Next]_vars => TunnelInv'
  <2>1. ASSUME TunnelInv, Next PROVE TunnelInv'
    BY <2>1, TypeStep, LockStep, PlaceStep DEF TunnelInv
  <2>2. ASSUME TunnelInv, UNCHANGED vars PROVE TunnelInv'
    BY <2>2 DEF TunnelInv, TypeOK, LockInv, PlaceInv, Active, vars, linkVars, hostVars, clientVars
  <2> QED
    BY <2>1, <2>2
<1> QED
  BY <1>1, <1>2, PTL DEF Spec

\* Every variable keeps its type: a pipe never holds more than it can, and the
\* read loop of serve asks for a slot with a request in hand, never with NtunlInfo.
THEOREM ConnectionTypeCorrect == Spec => []TypeOK
<1>1. TunnelInv => TypeOK
  BY DEF TunnelInv
<1> QED
  BY <1>1, TunnelInvariant, PTL

-----------------------------------------------------------------------------
(* Who waits for whom.                                                      *)

\* If no writer of the host can move, for want of room or of the lock, the pipe to the
\* client is full: otherwise nobody of the host waits to write.
LEMMA NoWriterWaits ==
    ASSUME TypeOK, LockInv, ~HostMoves, conn = "closed" \/ Len(toClient) < SocketCap
    PROVE  /\ hpc \notin {"infoLock", "infoWrite"}
           /\ \A r \in Requests : rpc[r] \notin {"lock", "write"}
<1>1. hpc # "infoWrite" /\ \A r \in Requests : rpc[r] # "write"
  BY DEF HostMoves
<1>2. hostMu = Free
  BY <1>1 DEF TypeOK, LockInv
<1> QED
  BY <1>1, <1>2 DEF HostMoves

\* If no handler of the client writes and the client cannot move, it has no handler,
\* no loop that waits for a slot, and no handlers to wait for.
LEMMA NoHandlerWaits ==
    ASSUME TypeOK, LockInv, ~ClientMoves, \A r \in Requests : handler[r] # "write"
    PROVE  Active = {} /\ loop \notin {"acquire", "drain"}
<1>1. clientMu = Free
  BY DEF TypeOK, LockInv
<1>2. Active = {}
  BY <1>1 DEF ClientMoves, Active, Running
<1>3. Cardinality(Active) < maxConcurrentRequests
  BY <1>2, FS_EmptySet, TunnelAssumption
<1> QED
  BY <1>2, <1>3 DEF ClientMoves

\* While the connection is open and no handler is in its Write, the client's read
\* loop keeps the pipe to it empty; so everybody who waits, waits for a handler that
\* writes into a full pipe, which readPump would have emptied had it started.
THEOREM InfoClosesTheOnlyCircle == Spec => []OnlyInfoCloses
<1>1. TunnelInv => OnlyInfoCloses
  <2> SUFFICES ASSUME TunnelInv, Waiting, ~HostMoves, ~ClientMoves
               PROVE  /\ hpc \in {"infoLock", "infoWrite"}
                      /\ \E r \in Requests : handler[r] = "write"
    BY DEF OnlyInfoCloses
  <2>1. TypeOK /\ LockInv
    BY DEF TunnelInv
  <2>2. \E r \in Requests : handler[r] = "write"
    <3> SUFFICES ASSUME \A r \in Requests : handler[r] # "write" PROVE FALSE
      OBVIOUS
    <3>1. Active = {} /\ loop \notin {"acquire", "drain"}
      BY <2>1, NoHandlerWaits
    <3>2. conn = "closed" \/ Len(toClient) < SocketCap
      <4>1. CASE conn = "open"
        <5>1. loop = "read"
          BY <2>1, <3>1, <4>1 DEF TypeOK, LockInv
        <5>2. toClient = <<>>
          BY <5>1 DEF ClientMoves
        <5> QED
          BY <5>2, TunnelAssumption
      <4> QED
        BY <2>1, <4>1 DEF TypeOK
    <3>3. /\ hpc \notin {"infoLock", "infoWrite"}
          /\ \A r \in Requests : rpc[r] \notin {"lock", "write"}
      BY <2>1, <3>2, NoWriterWaits
    <3> QED
      BY <3>1, <3>3 DEF Waiting, Active
  <2>3. conn = "open" /\ toHost # <<>>
    <3>1. conn # "closed" /\ ~(Len(toHost) < SocketCap)
      BY <2>2 DEF ClientMoves
    <3> QED
      BY <2>1, <3>1, TunnelAssumption DEF TypeOK
  <2>4. hpc \in {"infoLock", "infoWrite"}
    BY <2>1, <2>3 DEF TypeOK, LockInv, HostMoves
  <2> QED
    BY <2>2, <2>4
<1> QED
  BY <1>1, TunnelInvariant, PTL

-----------------------------------------------------------------------------
(* Both ends of the connection implement the abstract forwarding.           *)

Stage == [r \in Requests |-> StageOf(r)]

LEMMA StageType == Stage \in [Requests -> Contract!Stages]
  BY DEF Stage, StageOf, Contract!Stages

\* One request moves and the others stay.
LEMMA OneMoves ==
    ASSUME NEW r \in Requests, NEW from, NEW to,
           StageOf(r) = from, StageOf(r)' = to,
           \A q \in Requests : q # r => StageOf(q)' = StageOf(q)
    PROVE  Contract!Move(r, from, to)
<1>1. Stage[r] = from /\ Stage' = [Stage EXCEPT ![r] = to]
  BY DEF Stage
<1> QED
  BY <1>1 DEF Stage, Contract!Move

\* Some end and the others stay.
LEMMA SomeEnd ==
    ASSUME \A r \in Requests : StageOf(r)' = StageOf(r)
                               \/ (StageOf(r) # "received" /\ StageOf(r)' = "ended")
    PROVE  Contract!End
<1>1. Stage' \in [Requests -> Contract!Stages]
  BY DEF Stage, StageOf, Contract!Stages
<1>2. \A r \in Requests : Stage'[r] # Stage[r] => Stage[r] # "received" /\ Stage'[r] = "ended"
  BY DEF Stage
<1> QED
  BY <1>1, <1>2 DEF Stage, Contract!End

\* A step that brings no request to a new place and no answer to its visitor ends
\* requests at most.
LEMMA NothingMovesOn ==
    ASSUME TunnelInv,
           Range(toHost') \subseteq Range(toHost),
           \A r \in Requests :
              /\ r \in Range(toClient') \/ cmd' = r => r \in Range(toClient) \/ cmd = r
              /\ \/ rpc'[r] = rpc[r]
                 \/ rpc[r] \in Unsent /\ rpc'[r] \in Unsent
                 \/ rpc[r] # "served" /\ rpc'[r] = "over"
              /\ \/ handler'[r] = handler[r]
                 \/ handler[r] \in Running /\ handler'[r] \in Running \cup {"over"}
    PROVE  Contract!End
<1> SUFFICES ASSUME NEW r \in Requests
             PROVE  StageOf(r)' = StageOf(r) \/ (StageOf(r) # "received" /\ StageOf(r)' = "ended")
  BY SomeEnd
<1>1. /\ r \in Range(toHost) => handler[r] = "over"
      /\ r \in Range(toClient) \/ cmd = r => handler[r] = "none" /\ rpc[r] \notin Unsent
      /\ handler[r] # "none" => rpc[r] \notin Unsent
  BY DEF TunnelInv, PlaceInv
<1> QED
  BY <1>1 DEF StageOf, Unsent, Running

\* The four steps that move a request on: it leaves one place for the next.
LEMMA WriteSends ==
    ASSUME TunnelInv, NEW r \in Requests, WriteRequest(r)
    PROVE  Contract!Send(r)
<1>1. /\ toClient \in Seq(Requests \cup {Info}) /\ r \in Requests \cup {Info}
      /\ toClient' = Append(toClient, r) /\ rpc[r] = "write"
      /\ UNCHANGED <<toHost, cmd, handler>>
      /\ \A q \in Requests : rpc'[q] = IF q = r THEN "wait" ELSE rpc[q]
  BY DEF TunnelInv, TypeOK, WriteRequest, RequestTo, clientVars
<1>2. Range(toClient') = Range(toClient) \cup {r}
  BY ONLY <1>1, RangeAppended
<1>3. handler[r] = "none" /\ r \notin Range(toClient) /\ cmd # r /\ r \notin Range(toHost)
  BY <1>1 DEF TunnelInv, PlaceInv, Unsent
<1>4. StageOf(r) = "unsent" /\ StageOf(r)' = "sent"
  BY <1>1, <1>2, <1>3 DEF StageOf, Unsent, Running
<1>5. \A q \in Requests : q # r => StageOf(q)' = StageOf(q)
  BY <1>1, <1>2 DEF StageOf
<1> QED
  BY <1>4, <1>5, OneMoves DEF Contract!Send

LEMMA AcquireServes ==
    ASSUME TunnelInv, NEW r \in Requests, Acquire, cmd = r
    PROVE  Contract!Serve(r)
<1>1. /\ cmd' = Free /\ UNCHANGED <<toClient, toHost, rpc>>
      /\ \A q \in Requests : handler'[q] = IF q = r THEN "local" ELSE handler[q]
      /\ Free \notin Requests
  BY TunnelAssumption DEF TunnelInv, TypeOK, Acquire, HandlerTo, linkVars, hostVars
<1>2. handler[r] = "none" /\ rpc[r] # "served" /\ r \notin Range(toHost)
  BY DEF TunnelInv, PlaceInv
<1>3. StageOf(r) = "sent" /\ StageOf(r)' = "serving"
  BY <1>1, <1>2 DEF StageOf, Running
<1>4. \A q \in Requests : q # r => StageOf(q)' = StageOf(q)
  BY <1>1 DEF StageOf
<1> QED
  BY <1>3, <1>4, OneMoves DEF Contract!Serve

LEMMA WriteAnswers ==
    ASSUME TunnelInv, NEW r \in Requests, WriteAnswer(r), UNCHANGED toHost => FALSE
    PROVE  Contract!Answer(r)
<1>1. /\ toHost \in Seq(Requests) /\ toHost' = Append(toHost, r) /\ handler[r] = "write"
      /\ UNCHANGED <<toClient, cmd, rpc>>
      /\ \A q \in Requests : handler'[q] = IF q = r THEN "over" ELSE handler[q]
  BY DEF TunnelInv, TypeOK, WriteAnswer, HandlerTo, hostVars
<1>2. Range(toHost') = Range(toHost) \cup {r}
  BY ONLY <1>1, RangeAppended
<1>3. rpc[r] # "served" /\ r \notin Range(toHost)
  BY <1>1 DEF TunnelInv, PlaceInv
<1>4. StageOf(r) = "serving" /\ StageOf(r)' = "answered"
  BY <1>1, <1>2, <1>3 DEF StageOf, Running
<1>5. \A q \in Requests : q # r => StageOf(q)' = StageOf(q)
  BY <1>1, <1>2 DEF StageOf
<1> QED
  BY <1>4, <1>5, OneMoves DEF Contract!Answer

LEMMA PumpReceives ==
    ASSUME TunnelInv, NEW r \in Requests, PumpRead, Head(toHost) = r
    PROVE  Contract!Receive(r) \/ Contract!End
<1>1. /\ toHost \in Seq(Requests) /\ toHost # <<>> /\ toHost' = Tail(toHost)
      /\ UNCHANGED <<toClient, cmd, handler>>
      /\ \A q \in Requests : rpc'[q] = IF q = r /\ rpc[r] = "wait" THEN "served" ELSE rpc[q]
  BY DEF TunnelInv, TypeOK, PumpRead, clientVars
<1>2. r \in Range(toHost) /\ Range(toHost) = Range(toHost') \cup {r}
  BY ONLY <1>1, RangeRead, Head(toHost) = r
<1>3. CASE rpc[r] = "wait"
  <2>1. StageOf(r) = "answered" /\ StageOf(r)' = "received"
    BY <1>1, <1>2, <1>3 DEF StageOf
  <2>2. \A q \in Requests : q # r => StageOf(q)' = StageOf(q)
    BY <1>1, <1>2 DEF StageOf
  <2> QED
    BY <2>1, <2>2, OneMoves DEF Contract!Receive
<1>4. CASE rpc[r] # "wait"
  BY <1>1, <1>2, <1>4, NothingMovesOn
<1> QED
  BY <1>3, <1>4

\* All other steps.
LEMMA OthersEnd ==
    ASSUME TunnelInv,
           \/ \E r \in Requests :
                 \/ StartConversation(r) \/ LockWrite(r) \/ WriteFails(r) \/ GiveUp(r)
                 \/ LocalAnswers(r) \/ LockAnswer(r) \/ WriteTimeout(r)
                 \/ WriteAnswer(r) /\ UNCHANGED toHost
           \/ LockInfo \/ WriteInfo \/ PumpError \/ ReadMessage \/ ReadFails \/ Drain
           \/ LoseConnection \/ Finished
    PROVE  Contract!End
<1> USE DEF RequestTo, HandlerTo, Unsent, Running, linkVars, hostVars, clientVars
<1>0. TypeOK
  BY DEF TunnelInv
<1>1. ASSUME NEW r \in Requests, StartConversation(r) \/ LockWrite(r) \/ WriteFails(r)
      PROVE  Contract!End
  BY <1>0, <1>1, NothingMovesOn DEF StartConversation, LockWrite, WriteFails, TypeOK
<1>2. ASSUME NEW r \in Requests, GiveUp(r)
      PROVE  Contract!End
  BY <1>0, <1>2, NothingMovesOn, PipeEmpty DEF GiveUp, Shut, TypeOK
<1>3. ASSUME NEW r \in Requests, LocalAnswers(r) \/ LockAnswer(r)
      PROVE  Contract!End
  BY <1>0, <1>3, NothingMovesOn DEF LocalAnswers, LockAnswer, TypeOK
<1>4. ASSUME NEW r \in Requests, WriteTimeout(r)
      PROVE  Contract!End
  BY <1>0, <1>4, NothingMovesOn, PipeEmpty DEF WriteTimeout, Shut, TypeOK
<1>5. ASSUME NEW r \in Requests, WriteAnswer(r), UNCHANGED toHost
      PROVE  Contract!End
  BY <1>0, <1>5, NothingMovesOn DEF WriteAnswer, TypeOK
<1>6. CASE LockInfo \/ PumpError \/ ReadFails \/ Drain \/ Finished
  BY <1>6, NothingMovesOn DEF LockInfo, PumpError, ReadFails, Drain, Finished, vars
<1>7. CASE WriteInfo
  <2>1. /\ toClient \in Seq(Requests \cup {Info}) /\ Info \in Requests \cup {Info}
        /\ toClient' = Append(toClient, Info) \/ UNCHANGED toClient
        /\ UNCHANGED <<toHost, rpc, cmd, handler>>
    BY <1>0, <1>7 DEF WriteInfo, TypeOK
  <2>2. Range(toClient') \subseteq Range(toClient) \cup {Info}
    BY ONLY <2>1, RangeAppended
  <2> QED
    BY <2>1, <2>2, NothingMovesOn, TunnelAssumption
<1>8. CASE ReadMessage
  <2>1. /\ toClient' = Tail(toClient) /\ toClient # <<>>
        /\ toClient \in Seq(Requests \cup {Info})
        /\ UNCHANGED <<toHost, rpc, handler>>
        /\ cmd' = cmd \/ cmd' = Head(toClient)
    BY <1>0, <1>8 DEF ReadMessage, TypeOK
  <2>2. Range(toClient) = Range(toClient') \cup {Head(toClient)}
    BY ONLY <2>1, RangeRead
  <2> QED
    BY <2>1, <2>2, NothingMovesOn
<1>9. CASE LoseConnection
  BY <1>9, NothingMovesOn, PipeEmpty DEF LoseConnection, Shut
<1> QED
  BY <1>1, <1>2, <1>3, <1>4, <1>5, <1>6, <1>7, <1>8, <1>9

\* Every step of host, client or network is one of Forwarding's, or none.
THEOREM TunnelForwards == Spec => ImplementsForwarding
<1>1. Init => Contract!Init
  <2> SUFFICES ASSUME Init PROVE \A r \in Requests : StageOf(r) = "unsent"
    BY DEF Contract!Init
  <2> QED
    BY TunnelAssumption, PipeEmpty DEF Init, StageOf, Unsent, Running
<1>2. TunnelInv /\ [Next]_vars => [Contract!Next]_Stage
  <2>1. ASSUME TunnelInv, NEW r \in Requests,
               \/ StartConversation(r) \/ SendStep(r) \/ GiveUp(r)
               \/ HandlerStep(r) \/ WriteTimeout(r)
        PROVE  Contract!Next
    BY <2>1, WriteSends, WriteAnswers, OthersEnd DEF Contract!Next, SendStep, HandlerStep
  <2>2. ASSUME TunnelInv, PumpStep \/ LoopStep
        PROVE  Contract!Next
    <3>1. Acquire => cmd \in Requests
      BY <2>2 DEF TunnelInv, TypeOK, Acquire
    <3>2. PumpRead => Head(toHost) \in Requests
      BY <2>2, PipeReads DEF TunnelInv, TypeOK, PumpRead
    <3> QED
      BY <2>2, <3>1, <3>2, AcquireServes, PumpReceives, OthersEnd
      DEF Contract!Next, PumpStep, LoopStep
  <2>3. ASSUME TunnelInv, LoseConnection \/ Finished
        PROVE  Contract!Next
    BY <2>3, OthersEnd DEF Contract!Next
  <2>4. ASSUME UNCHANGED vars PROVE UNCHANGED Stage
    BY <2>4 DEF Stage, StageOf, Range, vars, linkVars, hostVars, clientVars
  <2> QED
    BY <2>1, <2>2, <2>3, <2>4 DEF Next
<1> QED
  BY <1>1, <1>2, TunnelInvariant, PTL DEF Spec, ImplementsForwarding, Contract!Spec, Stage

==================================================================================
