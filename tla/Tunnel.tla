--------------------------------- MODULE Tunnel ---------------------------------
(***************************************************************************)
(* Host and client over one connection: TunnelHost and TunnelClient have    *)
(* each other for an environment, here both ends are the code.              *)
(*                                                                          *)
(* Kept is whatever waits for something: the two write locks, each held over *)
(* a Write that blocks while the pipe is full; the two read loops; the       *)
(* client's slots; and the timers that end a wait. Left out is what the two  *)
(* modules have shown: names, the pending map and its channels (readPump     *)
(* never blocks on one, TunnelHost!PumpNeverBlocks), the log, reconnecting.  *)
(* Left out too are the websocket library's control frames: its Read answers  *)
(* a ping under a frame lock that a Write may hold, and gives up, and ends the *)
(* connection, after 5 s. LoseConnection covers that outcome.                *)
(***************************************************************************)
EXTENDS Naturals, Sequences, FiniteSets, Functions

CONSTANTS Requests,               \* visitors' requests, each sent once
          maxConcurrentRequests,  \* the client's slots
          SocketCap,              \* messages a pipe holds
          Free,                   \* nobody has the lock; no request in hand
          Info                    \* NtunlInfo, and handleConn when it writes it

ASSUME TunnelAssumption ==
    /\ maxConcurrentRequests \in Nat \ {0} /\ SocketCap \in Nat \ {0}
    /\ {Free, Info} \cap Requests = {} /\ Free # Info

VARIABLES
    conn,       \* "open" or "closed"
    toClient, toHost,
    \* the host
    hpc,        \* handleConn and readPump, from the moment the name is published
    rpc,        \* [Requests -> where SendHttpRequest stands]
    hostMu,     \* who holds clientInfo.writeMu
    \* the client
    loop, cmd,  \* serve's read loop, and the request it wants a slot for
    handler,    \* [Requests -> where its goroutine stands]
    clientMu    \* who holds serve's writeMu

linkVars   == <<conn, toClient, toHost>>
hostVars   == <<hpc, rpc, hostMu>>
clientVars == <<loop, cmd, handler, clientMu>>
vars == <<linkVars, hostVars, clientVars>>

Running == {"local", "lock", "write"}
Unsent  == {"idle", "lock", "write"}

\* The name is published, and NtunlInfo is to be sent if the host has a domain.
Init ==
    /\ conn = "open" /\ toClient = <<>> /\ toHost = <<>>
    /\ hpc \in {"infoLock", "pump"}
    /\ rpc = [r \in Requests |-> "idle"] /\ hostMu = Free
    /\ loop = "read" /\ cmd = Free
    /\ handler = [r \in Requests |-> "none"] /\ clientMu = Free

\* Either end closes the connection: what was on the way is lost.
Shut == conn' = "closed" /\ toClient' = <<>> /\ toHost' = <<>>

RequestTo(r, state) == rpc' = [rpc EXCEPT ![r] = state]
HandlerTo(r, state) == handler' = [handler EXCEPT ![r] = state]

-----------------------------------------------------------------------------
(* The host: SendHttpRequest.                                               *)

\* The client is looked up while its name is published.
StartConversation(r) ==
    /\ rpc[r] = "idle" /\ hpc # "dropped"
    /\ RequestTo(r, "lock")
    /\ UNCHANGED <<linkVars, hpc, hostMu, clientVars>>

LockWrite(r) ==
    /\ rpc[r] = "lock" /\ hostMu = Free
    /\ RequestTo(r, "write") /\ hostMu' = r
    /\ UNCHANGED <<linkVars, hpc, clientVars>>

\* The host's Write has no deadline.
WriteRequest(r) ==
    /\ rpc[r] = "write" /\ conn = "open" /\ Len(toClient) < SocketCap
    /\ toClient' = Append(toClient, r)
    /\ RequestTo(r, "wait") /\ hostMu' = Free
    /\ UNCHANGED <<conn, toHost, hpc, clientVars>>

WriteFails(r) ==
    /\ rpc[r] = "write" /\ conn = "closed"
    /\ RequestTo(r, "over") /\ hostMu' = Free
    /\ UNCHANGED <<linkVars, hpc, clientVars>>

\* Mutant: the lock is not released on the error path.
GiveUpLocked(r) ==
    /\ RequestTo(r, "over")
    /\ \/ rpc[r] = "write" /\ (Shut \/ UNCHANGED linkVars)
       \/ rpc[r] = "wait" /\ UNCHANGED linkVars
    /\ UNCHANGED <<hostMu, hpc, clientVars>>

\* Mutant: a request whose answer is late is sent again.
SendAgain(r) ==
    /\ rpc[r] \in {"write", "wait"}
    /\ RequestTo(r, IF rpc[r] = "wait" THEN "lock" ELSE "over")
    /\ hostMu' = IF rpc[r] = "write" THEN Free ELSE hostMu
    /\ UNCHANGED <<linkVars, hpc, clientVars>>

\* The visitor leaves, in the middle of a frame perhaps, whereupon the library
\* closes the connection; or time.After(20 s) while it waits.
GiveUp(r) ==
    /\ RequestTo(r, "over")
    /\ \/ rpc[r] = "write" /\ hostMu' = Free /\ (Shut \/ UNCHANGED linkVars)
       \/ rpc[r] = "wait" /\ UNCHANGED <<hostMu, linkVars>>
    /\ UNCHANGED <<hpc, clientVars>>

-----------------------------------------------------------------------------
(* The host: handleConn and readPump.                                       *)

LockInfo ==
    /\ hpc = "infoLock" /\ hostMu = Free
    /\ hpc' = "infoWrite" /\ hostMu' = Info
    /\ UNCHANGED <<linkVars, rpc, clientVars>>

\* Its error is dropped; readPump starts after it.
WriteInfo ==
    /\ hpc = "infoWrite"
    /\ \/ conn = "open" /\ Len(toClient) < SocketCap /\ toClient' = Append(toClient, Info)
       \/ conn = "closed" /\ UNCHANGED toClient
    /\ hpc' = "pump" /\ hostMu' = Free
    /\ UNCHANGED <<conn, toHost, rpc, clientVars>>

\* Mutant: readPump takes the write lock for each message.
PumpReadLocked ==
    /\ hpc = "pump" /\ toHost # <<>> /\ hostMu = Free
    /\ toHost' = Tail(toHost)
    /\ rpc' = [rpc EXCEPT ![Head(toHost)] = IF @ = "wait" THEN "served" ELSE @]
    /\ UNCHANGED <<conn, toClient, hpc, hostMu, clientVars>>

\* conn.Read, of a message (pings are answered inside it, see above); an answer
\* whose request has ended is dropped.
PumpRead ==
    /\ hpc = "pump" /\ toHost # <<>>
    /\ toHost' = Tail(toHost)
    /\ rpc' = [rpc EXCEPT ![Head(toHost)] = IF @ = "wait" THEN "served" ELSE @]
    /\ UNCHANGED <<conn, toClient, hpc, hostMu, clientVars>>

PumpError ==
    /\ hpc = "pump" /\ conn = "closed"
    /\ hpc' = "dropped"
    /\ UNCHANGED <<linkVars, rpc, hostMu, clientVars>>

-----------------------------------------------------------------------------
(* The client: serve.                                                       *)

\* NtunlInfo is stored at once; a request goes to Acquire.
ReadMessage ==
    /\ loop = "read" /\ toClient # <<>>
    /\ toClient' = Tail(toClient)
    /\ IF Head(toClient) = Info THEN UNCHANGED <<loop, cmd>>
       ELSE loop' = "acquire" /\ cmd' = Head(toClient)
    /\ UNCHANGED <<conn, toHost, hostVars, handler, clientMu>>

Active == {r \in Requests : handler[r] \in Running}

\* connCtx is not done before the loop has ended, so the loop waits for a slot
\* even when the connection is gone.
Acquire ==
    /\ loop = "acquire" /\ Cardinality(Active) < maxConcurrentRequests
    /\ HandlerTo(cmd, "local")
    /\ loop' = "read" /\ cmd' = Free
    /\ UNCHANGED <<linkVars, hostVars, clientMu>>

ReadFails ==
    /\ loop = "read" /\ conn = "closed"
    /\ loop' = "drain"
    /\ UNCHANGED <<linkVars, hostVars, cmd, handler, clientMu>>

\* wg.Wait: serve returns.
Drain ==
    /\ loop = "drain" /\ Active = {}
    /\ loop' = "over"
    /\ UNCHANGED <<linkVars, hostVars, cmd, handler, clientMu>>

-----------------------------------------------------------------------------
(* The client: handleRequest, and keepalive.                                *)

\* The local service answers, or fails: at the latest by http.Client's timeout.
LocalAnswers(r) ==
    /\ handler[r] = "local"
    /\ HandlerTo(r, "lock") \/ HandlerTo(r, "over")
    /\ UNCHANGED <<linkVars, hostVars, loop, cmd, clientMu>>

LockAnswer(r) ==
    /\ handler[r] = "lock" /\ clientMu = Free
    /\ HandlerTo(r, "write") /\ clientMu' = r
    /\ UNCHANGED <<linkVars, hostVars, loop, cmd>>

WriteAnswer(r) ==
    /\ handler[r] = "write"
    /\ \/ conn = "open" /\ Len(toHost) < SocketCap /\ toHost' = Append(toHost, r)
       \/ conn = "closed" /\ UNCHANGED toHost
    /\ HandlerTo(r, "over") /\ clientMu' = Free
    /\ UNCHANGED <<conn, toClient, hostVars, loop, cmd>>

\* Mutant: a Write that only the connection's context ends.
NoWriteTimeout(r) ==
    /\ handler[r] = "write" /\ loop = "drain"
    /\ Shut
    /\ HandlerTo(r, "over") /\ clientMu' = Free
    /\ UNCHANGED <<hostVars, loop, cmd>>

\* writeTimeout (30 s), upon which the library closes the connection.
WriteTimeout(r) ==
    /\ handler[r] = "write"
    /\ Shut
    /\ HandlerTo(r, "over") /\ clientMu' = Free
    /\ UNCHANGED <<hostVars, loop, cmd>>

-----------------------------------------------------------------------------

\* The network, the user of either program, or keepalive, which needs both read
\* loops for a pong to be exchanged and seen.
LoseConnection == conn = "open" /\ Shut /\ UNCHANGED <<hostVars, clientVars>>

Finished ==
    /\ hpc = "dropped" /\ loop = "over"
    /\ \A r \in Requests : rpc[r] \in {"idle", "over", "served"}
    /\ UNCHANGED vars

SendStep(r)    == LockWrite(r) \/ WriteRequest(r) \/ WriteFails(r)
HandlerStep(r) == LocalAnswers(r) \/ LockAnswer(r) \/ WriteAnswer(r)
PumpStep       == LockInfo \/ WriteInfo \/ PumpRead \/ PumpError
LoopStep       == ReadMessage \/ Acquire \/ ReadFails \/ Drain

Next ==
    \/ \E r \in Requests :
          \/ StartConversation(r) \/ SendStep(r) \/ GiveUp(r)
          \/ HandlerStep(r) \/ WriteTimeout(r)
    \/ PumpStep \/ LoopStep \/ LoseConnection \/ Finished

Spec == Init /\ [][Next]_vars

\* Goroutines that can run do, and the local service answers or times out. No
\* timer of either program is needed for this.
FlowSpec ==
    /\ Spec
    /\ WF_vars(PumpStep) /\ WF_vars(LoopStep)
    /\ \A r \in Requests : WF_vars(SendStep(r)) /\ WF_vars(HandlerStep(r))

-----------------------------------------------------------------------------
(* Properties.                                                              *)

\* Every variable has its type: the pipes hold no more than they can, the read loop
\* wants a slot for requests only.
TypeOK ==
    /\ conn \in {"open", "closed"}
    /\ toClient \in Seq(Requests \cup {Info}) /\ Len(toClient) <= SocketCap
    /\ toHost \in Seq(Requests) /\ Len(toHost) <= SocketCap
    /\ hpc \in {"infoLock", "infoWrite", "pump", "dropped"}
    /\ rpc \in [Requests -> Unsent \cup {"wait", "over", "served"}]
    /\ hostMu \in Requests \cup {Free, Info}
    /\ loop \in {"read", "acquire", "drain", "over"}
    /\ cmd \in IF loop = "acquire" THEN Requests ELSE {Free}
    /\ handler \in [Requests -> Running \cup {"none", "over"}]
    /\ clientMu \in Requests \cup {Free}

\* Somebody waits for a lock, a pipe or a slot, or has a step to take.
Waiting ==
    \/ hpc \in {"infoLock", "infoWrite"} \/ loop \in {"acquire", "drain"}
    \/ \E r \in Requests : rpc[r] \in {"lock", "write"} \/ handler[r] \in Running

\* Some goroutine of the host, or of the client, can take its next step; no timer
\* and no loss of the connection counts.
HostMoves ==
    \/ \E r \in Requests : rpc[r] = "lock" /\ hostMu = Free
    \/ /\ hpc = "infoWrite" \/ \E r \in Requests : rpc[r] = "write"
       /\ conn = "closed" \/ Len(toClient) < SocketCap
    \/ hpc = "infoLock" /\ hostMu = Free
    \/ hpc = "pump" /\ (toHost # <<>> \/ conn = "closed")
ClientMoves ==
    \/ loop = "read" /\ (toClient # <<>> \/ conn = "closed")
    \/ loop = "acquire" /\ Cardinality(Active) < maxConcurrentRequests
    \/ loop = "drain" /\ Active = {}
    \/ \E r \in Requests :
          \/ handler[r] = "local"
          \/ handler[r] = "lock" /\ clientMu = Free
          \/ handler[r] = "write" /\ (conn = "closed" \/ Len(toHost) < SocketCap)

\* Whenever everybody waits for somebody, it is because readPump has not started,
\* and a handler of the client stands in its Write, where the write timeout finds it
\* (host/tunnel.go:167-176, client/tunnel.go:149-160, 194-200): control frames apart,
\* no other circle of locks, pipes and slots exists, on an open connection or on a
\* closed one.
OnlyInfoCloses ==
    Waiting /\ ~HostMoves /\ ~ClientMoves =>
        hpc \in {"infoLock", "infoWrite"} /\ \E r \in Requests : handler[r] = "write"

\* Once readPump runs, the two programs never wait for each other in a circle: a
\* request to be written gets its turn at the local service and its answer is
\* written, or the connection is lost, without the help of a timer, though the
\* client's loop stops reading while its slots are taken and its handlers stop
\* while the host does not read. A pong that waits for the library's frame lock
\* counts as a lost connection.
FlowsOncePumping ==
    \A r \in Requests :
        (hpc = "pump" /\ rpc[r] = "lock") ~>
            (handler[r] = "over" \/ rpc[r] \in {"served", "over"} \/ conn = "closed")

\* Before that they do: NtunlInfo waits for the client's loop, the loop for a slot,
\* the handlers for readPump, and readPump starts after NtunlInfo. The client's
\* write timeout ends it, so that readPump starts after all: to serve the requests,
\* or to find that the connection is gone.
WriteTimeoutFires == WF_vars(\E r \in Requests : WriteTimeout(r))
PumpStarts == WriteTimeoutFires => ((hpc = "infoLock") ~> (hpc = "pump"))

-----------------------------------------------------------------------------
(* Both programs together implement the abstract forwarding of requests.    *)

\* How far a request has come: it is in one place at a time.
StageOf(r) ==
    IF rpc[r] = "served" THEN "received"
    ELSE IF r \in Range(toHost) THEN "answered"
    ELSE IF handler[r] \in Running THEN "serving"
    ELSE IF r \in Range(toClient) \/ cmd = r THEN "sent"
    ELSE IF rpc[r] \in Unsent THEN "unsent"
    ELSE "ended"

Contract == INSTANCE Forwarding WITH stage <- [r \in Requests |-> StageOf(r)]

\* A request passes through both programs as Forwarding allows: the local service
\* is asked at most once, by a request that was sent, and the visitor gets no answer
\* but that one's, whichever lock, pipe, slot or timer ends what.
ImplementsForwarding == Contract!Spec

-----------------------------------------------------------------------------
(* The inductive invariant.                                                 *)

\* A lock is held over a Write and by who writes; the goroutines that read end with
\* the connection only.
LockInv ==
    /\ \A r \in Requests : rpc[r] = "write" <=> hostMu = r
    /\ hpc = "infoWrite" <=> hostMu = Info
    /\ \A r \in Requests : handler[r] = "write" <=> clientMu = r
    /\ hpc = "dropped" \/ loop \in {"drain", "over"} => conn = "closed"

Once(pipe) == \A i, j \in DOMAIN pipe : pipe[i] = pipe[j] /\ pipe[i] # Info => i = j

\* What the client has not taken has no handler, what it has was sent, and what it
\* has answered is over; nothing waits twice.
PlaceInv ==
    /\ \A r \in Range(toHost) : handler[r] = "over"
    /\ \A r \in Requests :
          /\ r \in Range(toClient) \/ cmd = r => handler[r] = "none" /\ rpc[r] \notin Unsent
          /\ handler[r] # "none" => rpc[r] \notin Unsent
          /\ rpc[r] = "served" => handler[r] = "over"
    /\ Once(toClient)
    /\ cmd \notin Range(toClient)

TunnelInv == TypeOK /\ LockInv /\ PlaceInv
=================================================================================
