------------------------------ MODULE TunnelHost ------------------------------
(***************************************************************************)
(* The tunnel host: internal/host/tunnel.go and the control of the public   *)
(* HTTP server that calls it (internal/host/httpserver.go, handle).         *)
(*                                                                          *)
(* One goroutine per tunnel connection (handleConn, then readPump) and one  *)
(* per visitor request (handle, then SendHttpRequest) share                 *)
(*   - the maps clients and pending, each access one critical section of    *)
(*     h.mu that never blocks inside: one action per section;               *)
(*   - the connection's writeMu, held across a Write that may block: locking *)
(*     and writing are separate actions;                                    *)
(*   - the recent-request buffers, under reqMu.                             *)
(* The far end of a connection (the tunnel client) and the websocket library *)
(* are the environment: bounded byte pipes, a client that answers each      *)
(* request at most once, in any order or never, and a link that may die.    *)
(***************************************************************************)
EXTENDS Naturals, Sequences, FiniteSets, Functions

CONSTANTS Conns,       \* tunnel connections, one handleConn call each
          Requests,    \* visitor requests, one handle call each
          Labels,      \* spellings of a subdomain
          lower,       \* [Labels -> Labels]: ASCII lower-casing
          Pool,        \* clientDomain.subDomains, <<>> in fully dynamic mode
          Words,       \* the names the random generator can produce
          HasDomain,   \* clientDomain.domain is set: NtunlInfo is sent
          Users,       \* account ids
          UserOf,      \* [Conns -> Users]: whose token the connection carries
          SocketCap,   \* messages a stalled connection can hold
          recentRequestCap,
          Absent,      \* no entry in the clients map, no value
          Nil,         \* the nil placeholder in the clients map
          Info,        \* the NtunlInfo message
          Noise        \* a message readPump skips (undecodable, other type)

ASSUME LabelsAssumption ==
    /\ lower \in [Labels -> Labels]
    /\ \A l \in Labels : lower[lower[l]] = lower[l]
    /\ Pool \in Seq(Labels)
    /\ Words \subseteq Labels
ASSUME UsersAssumption == UserOf \in [Conns -> Users]
ASSUME CapsAssumption ==
    /\ SocketCap \in Nat \ {0}
    /\ recentRequestCap \in Nat \ {0}
    /\ HasDomain \in BOOLEAN
ASSUME SentinelAssumption ==
    /\ Conns \cap Requests = {}
    /\ {Absent, Nil, Info, Noise} \cap (Conns \cup Requests \cup Labels) = {}
    /\ Absent # Nil /\ Info # Noise

Keys == {lower[l] : l \in Labels}

VARIABLES
    \* TunnelHost
    clients,    \* [Keys -> Conns \cup {Absent, Nil}]
    pending,    \* requests whose conversation id is in the pending map
    recent,     \* [Users -> sequence of requests]: the ring buffers
    \* a connection's handler and its clientInfo
    hpc,        \* where handleConn / readPump / dropClient stands
    requested,  \* the Ntunl-Subdomain header, Absent when empty
    name,       \* the assigned subdomain, Absent before
    event,      \* the tunnel_events row: "none", "open" or "closed"
    writeMu,    \* who holds clientInfo.writeMu (the handler is named by its conn)
    requests,   \* clientInfo.requests
    inHand,     \* the conversation readPump has taken out of pending
    \* a visitor's request
    rpc,        \* where handle / SendHttpRequest stands
    asked,      \* first label of the Host header, Absent for localhost
    target,     \* the *clientInfo that handle looked up
    gone,       \* r.Context() is cancelled: the visitor went away
    reply,      \* the conversation's channel (capacity 1): whose answer it holds
    \* the connection itself and its far end
    conn,       \* "none", "open", "lost" (dead, host unaware), "closed"
    toClient, toHost,  \* messages on the way
    atPeer      \* requests the tunnel client has read and not answered

regVars   == <<clients, hpc, requested, name, event>>
convVars  == <<pending, rpc, asked, target, gone, reply>>
countVars == <<requests, recent>>
linkVars  == <<conn, toClient, toHost, atPeer>>
vars == <<regVars, convVars, countVars, linkVars, writeMu, inHand>>

\* The handler of c has reserved a name and not gone live; is live; either.
Claiming  == {"accept", "release", "register"}
Published == {"event", "infoLock", "infoWrite", "pump", "deliver", "drop"}
Holding   == Claiming \cup Published
Refused   == {"unauthorized", "unavailable"}
HandlerStates == Holding \cup Refused \cup {"idle", "assign", "closeEvent", "done"}

WasLive   == Published \cup {"closeEvent", "done"}

Answered  == {"record", "served"}
Written   == Answered \cup {"unlock", "wait", "unregister", "badGateway"}
RequestDone   == {"notFound", "badBody", "badGateway", "served"}
RequestStates == RequestDone \cup
    {"idle", "body", "register", "lock", "write", "unlock", "wait", "unregister", "record"}

Init ==
    /\ clients = [k \in Keys |-> Absent]
    /\ pending = {}
    /\ recent = [u \in Users |-> <<>>]
    /\ hpc = [c \in Conns |-> "idle"]
    /\ requested = [c \in Conns |-> Absent]
    /\ name = [c \in Conns |-> Absent]
    /\ event = [c \in Conns |-> "none"]
    /\ writeMu = [c \in Conns |-> Absent]
    /\ requests = [c \in Conns |-> 0]
    /\ inHand = [c \in Conns |-> Absent]
    /\ rpc = [r \in Requests |-> "idle"]
    /\ asked = [r \in Requests |-> Absent]
    /\ target = [r \in Requests |-> Absent]
    /\ gone = [r \in Requests |-> FALSE]
    /\ reply = [r \in Requests |-> Absent]
    /\ conn = [c \in Conns |-> "none"]
    /\ toClient = [c \in Conns |-> <<>>]
    /\ toHost = [c \in Conns |-> <<>>]
    /\ atPeer = [c \in Conns |-> {}]

-----------------------------------------------------------------------------
(* The websocket library, as the host uses it.                              *)

\* Once either end closes the connection, what was under way is dropped.
Shut(c) ==
    /\ conn' = [conn EXCEPT ![c] = "closed"]
    /\ toClient' = [toClient EXCEPT ![c] = <<>>]
    /\ toHost' = [toHost EXCEPT ![c] = <<>>]
    /\ atPeer' = [atPeer EXCEPT ![c] = {}]

\* Write returns nil: m is in the pipe; on a dead link the kernel still takes
\* it and it is never seen again. With the pipe full, Write blocks.
Sent(c, m) ==
    /\ \/ conn[c] = "open" /\ Len(toClient[c]) < SocketCap
          /\ toClient' = [toClient EXCEPT ![c] = Append(@, m)]
       \/ conn[c] = "lost" /\ UNCHANGED toClient
    /\ UNCHANGED <<conn, toHost, atPeer>>

\* Write returns an error: the connection is broken, and closed by the library.
WriteBroken(c) == conn[c] \in {"lost", "closed"} /\ Shut(c)

\* Write's context is done: either it had not begun to write the frame, or the
\* library closes the connection, for everybody who uses it.
WriteCancelled(c) == Shut(c) \/ UNCHANGED linkVars

-----------------------------------------------------------------------------
(* assignSubdomain: under h.mu, pick a name whose key has no entry.         *)

\* Mutant: takes a placeholder for a free name.
LiveIfNotNil(k) == clients[k] \in Conns

Live(k) == clients[k] # Absent

FreeWords == {w \in Words : ~Live(lower[w])}
FreeInPool == {i \in DOMAIN Pool : ~Live(lower[Pool[i]])}
First(S) == {i \in S : \A j \in S : i <= j}

\* The first pool member that matches the request is the only one tried, and
\* if it is taken the request is forgotten.
WantedInPool(want) ==
    {i \in First({j \in DOMAIN Pool : want # Absent /\ lower[Pool[j]] = lower[want]}) :
        ~Live(lower[Pool[i]])}

PoolChoice(want) ==
    {Pool[i] : i \in IF WantedInPool(want) # {} THEN WantedInPool(want)
                                                ELSE First(FreeInPool)}

DynamicChoice(want) ==
    IF want = Absent THEN FreeWords ELSE {l \in {want} : ~Live(lower[l])}

Choice(want) == IF Pool # <<>> THEN PoolChoice(want) ELSE DynamicChoice(want)

\* Mutant: a pool client whose own name is taken is refused.
RefusableIfWantedTaken(want) ==
    IF Pool # <<>> /\ want # Absent THEN WantedInPool(want) = {} ELSE Choice(want) = {}

\* assignSubdomain can fail: nothing to choose, or 1000 random draws that all
\* hit a taken name (draws repeat, so one taken name is enough).
Refusable(want) ==
    \/ Choice(want) = {}
    \/ Pool = <<>> /\ want = Absent /\ FreeWords # Words

Key(c) == lower[name[c]]

-----------------------------------------------------------------------------
(* handleConn, up to readPump.                                              *)

Go(c, pc) == hpc' = [hpc EXCEPT ![c] = pc]

\* Bearer token and ResolveToken; requested is the header the client sent.
Authenticate(c) ==
    /\ hpc[c] = "idle"
    /\ \/ Go(c, "unauthorized") /\ UNCHANGED requested
       \/ /\ Go(c, "assign")
          /\ \E want \in Labels \cup {Absent} :
                requested' = [requested EXCEPT ![c] = want]
    /\ UNCHANGED <<clients, name, event, convVars, countVars, linkVars, writeMu, inHand>>

\* assignSubdomain succeeds: the placeholder goes in under the same lock.
Assign(c) ==
    /\ hpc[c] = "assign"
    /\ \E l \in Choice(requested[c]) :
          /\ clients' = [clients EXCEPT ![lower[l]] = Nil]
          /\ name' = [name EXCEPT ![c] = l]
    /\ Go(c, "accept")
    /\ UNCHANGED <<requested, event, convVars, countVars, linkVars, writeMu, inHand>>

\* assignSubdomain fails: 503.
Refuse(c) ==
    /\ hpc[c] = "assign"
    /\ Refusable(requested[c])
    /\ Go(c, "unavailable")
    /\ UNCHANGED <<clients, requested, name, event, convVars, countVars, linkVars,
                   writeMu, inHand>>

\* websocket.Accept, which may fail after the name was reserved.
Accept(c) ==
    /\ hpc[c] = "accept"
    /\ \/ Go(c, "register") /\ conn' = [conn EXCEPT ![c] = "open"]
       \/ Go(c, "release") /\ UNCHANGED conn
    /\ UNCHANGED <<clients, requested, name, event, convVars, countVars, toClient,
                   toHost, atPeer, writeMu, inHand>>

\* Mutant: the error path forgets the placeholder.
WithoutReleasing(c) == clients

\* The map after releaseName: only an entry that is nil goes.
WithoutPlaceholder(c) ==
    IF clients[Key(c)] = Nil THEN [clients EXCEPT ![Key(c)] = Absent] ELSE clients

ReleaseName(c) ==
    /\ hpc[c] = "release"
    /\ clients' = WithoutPlaceholder(c)
    /\ Go(c, "done")
    /\ UNCHANGED <<requested, name, event, convVars, countVars, linkVars, writeMu, inHand>>

\* The placeholder becomes the client: from here visitors reach it.
Register(c) ==
    /\ hpc[c] = "register"
    /\ clients' = [clients EXCEPT ![Key(c)] = c]
    /\ Go(c, "event")
    /\ UNCHANGED <<requested, name, event, convVars, countVars, linkVars, writeMu, inHand>>

\* OpenTunnelEvent; when the store fails, eventID stays 0.
OpenTunnelEvent(c) ==
    /\ hpc[c] = "event"
    /\ Go(c, IF HasDomain THEN "infoLock" ELSE "pump")
    /\ \/ event' = [event EXCEPT ![c] = "open"]
       \/ UNCHANGED event
    /\ UNCHANGED <<clients, requested, name, convVars, countVars, linkVars, writeMu, inHand>>

LockInfo(c) ==
    /\ hpc[c] = "infoLock"
    /\ writeMu[c] = Absent
    /\ writeMu' = [writeMu EXCEPT ![c] = c]
    /\ Go(c, "infoWrite")
    /\ UNCHANGED <<clients, requested, name, event, convVars, countVars, linkVars, inHand>>

\* The NtunlInfo write; its error is ignored, and its context (a hijacked
\* request's) is never cancelled.
WriteInfo(c) ==
    /\ hpc[c] = "infoWrite"
    /\ Sent(c, Info) \/ WriteBroken(c)
    /\ writeMu' = [writeMu EXCEPT ![c] = Absent]
    /\ Go(c, "pump")
    /\ UNCHANGED <<clients, requested, name, event, convVars, countVars, inHand>>

-----------------------------------------------------------------------------
(* readPump and dropClient.                                                 *)

\* Mutant: answers are matched with requests by their order, not by conversation.
PumpReadInOrder(c) ==
    /\ hpc[c] = "pump" /\ conn[c] \in {"open", "lost"} /\ toHost[c] # <<>>
    /\ toHost' = [toHost EXCEPT ![c] = Tail(@)]
    /\ \E m \in pending :
          pending' = pending \ {m} /\ inHand' = [inHand EXCEPT ![c] = m]
    /\ Go(c, "deliver")
    /\ UNCHANGED <<clients, requested, name, event, rpc, asked, target, gone, reply,
                   countVars, conn, toClient, atPeer, writeMu>>

\* One message read: a pending conversation is taken out of the map under the
\* lock; anything else is skipped (an answer nobody waits for any more, or a
\* message of no interest).
PumpRead(c) ==
    /\ hpc[c] = "pump"
    /\ conn[c] \in {"open", "lost"}
    /\ toHost[c] # <<>>
    /\ toHost' = [toHost EXCEPT ![c] = Tail(@)]
    /\ LET m == Head(toHost[c]) IN
          IF m \in pending
          THEN /\ pending' = pending \ {m}
               /\ inHand' = [inHand EXCEPT ![c] = m]
               /\ Go(c, "deliver")
          ELSE UNCHANGED <<pending, inHand, hpc>>
    /\ UNCHANGED <<clients, requested, name, event, rpc, asked, target, gone, reply,
                   countVars, conn, toClient, atPeer, writeMu>>

\* Mutant: an unbuffered channel, the sender needs a waiting receiver.
HasReceiver(r) == rpc[r] = "wait"

\* The conversation's channel has capacity 1.
HasRoom(r) == reply[r] = Absent

\* Mutant: a send that is skipped when nobody receives at that moment.
DeliverOrDrop(c) ==
    /\ hpc[c] = "deliver"
    /\ reply' = [reply EXCEPT ![inHand[c]] = IF rpc[inHand[c]] = "wait" THEN c ELSE Absent]
    /\ inHand' = [inHand EXCEPT ![c] = Absent]
    /\ Go(c, "pump")
    /\ UNCHANGED <<clients, requested, name, event, pending, rpc, asked, target, gone,
                   countVars, linkVars, writeMu>>

\* ch <- &resp, outside the lock.
PumpDeliver(c) ==
    /\ hpc[c] = "deliver"
    /\ HasRoom(inHand[c])
    /\ reply' = [reply EXCEPT ![inHand[c]] = c]
    /\ inHand' = [inHand EXCEPT ![c] = Absent]
    /\ Go(c, "pump")
    /\ UNCHANGED <<clients, requested, name, event, pending, rpc, asked, target, gone,
                   countVars, linkVars, writeMu>>

\* Read fails: the peer is gone, or another goroutine's Write closed the
\* connection; what was received but not yet read is lost with it.
PumpError(c) ==
    /\ hpc[c] = "pump"
    /\ conn[c] \in {"lost", "closed"}
    /\ Shut(c)
    /\ Go(c, "drop")
    /\ UNCHANGED <<clients, requested, name, event, convVars, countVars, writeMu, inHand>>

\* Mutant: the entry is looked up by the name as spelled.
WithoutSpelledName(c) ==
    IF name[c] \in Keys /\ clients[name[c]] = c
    THEN [clients EXCEPT ![name[c]] = Absent] ELSE clients

\* The map after dropClient: the entry goes only if it is still this client.
WithoutClient(c) ==
    IF clients[Key(c)] = c THEN [clients EXCEPT ![Key(c)] = Absent] ELSE clients

DropName(c) ==
    /\ hpc[c] = "drop"
    /\ clients' = WithoutClient(c)
    /\ Go(c, "closeEvent")
    /\ UNCHANGED <<requested, name, event, convVars, countVars, linkVars, writeMu, inHand>>

\* CloseTunnelEvent, if a row was opened (its error is ignored), and conn.Close.
\* Requests still waiting for this client are left to their timeout.
CloseTunnelEvent(c) ==
    /\ hpc[c] = "closeEvent"
    /\ \/ event[c] = "open" /\ event' = [event EXCEPT ![c] = "closed"]
       \/ UNCHANGED event
    /\ Shut(c)
    /\ Go(c, "done")
    /\ UNCHANGED <<clients, requested, name, convVars, countVars, writeMu, inHand>>

HandlerStep(c) ==
    \/ Assign(c) \/ Refuse(c) \/ Accept(c) \/ ReleaseName(c) \/ Register(c)
    \/ OpenTunnelEvent(c) \/ LockInfo(c) \/ WriteInfo(c)
    \/ PumpRead(c) \/ PumpDeliver(c) \/ PumpError(c)
    \/ DropName(c) \/ CloseTunnelEvent(c)

-----------------------------------------------------------------------------
(* handle and SendHttpRequest.                                              *)

Step(r, pc) == rpc' = [rpc EXCEPT ![r] = pc]

\* Mutant: any tunnel will do.
AnyLiveClient(l) == {clients[k] : k \in Keys} \cap Conns

\* The clients GetClient may return: none for a missing entry or a placeholder.
GetClient(l) == {clients[lower[l]]} \cap Conns

\* GetAnyClient ranges over the map in no particular order.
GetAnyClient == {clients[k] : k \in Keys} \cap Conns

\* The first label of the Host header selects the tunnel; 404 without one.
Route(r) ==
    /\ rpc[r] = "idle"
    /\ \E l \in Labels \cup {Absent} :
          LET found == IF l = Absent THEN GetAnyClient ELSE GetClient(l) IN
          /\ asked' = [asked EXCEPT ![r] = l]
          /\ \/ found = {} /\ Step(r, "notFound") /\ UNCHANGED target
             \/ \E c \in found : /\ target' = [target EXCEPT ![r] = c]
                                 /\ Step(r, "body")
    /\ UNCHANGED <<regVars, pending, gone, reply, countVars, linkVars, writeMu, inHand>>

\* The whole body is read before anything is sent; it may take for ever.
ReadBody(r) ==
    /\ rpc[r] = "body"
    /\ Step(r, "register") \/ Step(r, "badBody")
    /\ UNCHANGED <<regVars, pending, asked, target, gone, reply, countVars, linkVars,
                   writeMu, inHand>>

\* pending[conversationId] = ch, before the request is sent.
StartConversation(r) ==
    /\ rpc[r] = "register"
    /\ pending' = pending \cup {r}
    /\ Step(r, "lock")
    /\ UNCHANGED <<regVars, asked, target, gone, reply, countVars, linkVars, writeMu, inHand>>

\* send: mu.Lock, which knows neither the timeout nor the visitor's context.
LockWrite(r) ==
    /\ rpc[r] = "lock"
    /\ writeMu[target[r]] = Absent
    /\ writeMu' = [writeMu EXCEPT ![target[r]] = r]
    /\ Step(r, "write")
    /\ UNCHANGED <<regVars, pending, asked, target, gone, reply, countVars, linkVars, inHand>>

\* send: conn.Write succeeds; the answer may arrive from here on.
WriteRequest(r) ==
    /\ rpc[r] = "write"
    /\ Sent(target[r], r)
    /\ Step(r, "unlock")
    /\ UNCHANGED <<regVars, pending, asked, target, gone, reply, countVars, writeMu, inHand>>

\* send: the deferred Unlock after a successful Write.
UnlockWrite(r) ==
    /\ rpc[r] = "unlock"
    /\ writeMu' = [writeMu EXCEPT ![target[r]] = Absent]
    /\ Step(r, "wait")
    /\ UNCHANGED <<regVars, pending, asked, target, gone, reply, countVars, linkVars, inHand>>

\* Mutant: the lock is not released on the error path.
StillLocked(c) == writeMu

\* The deferred Unlock, on the error path.
Unlocked(c) == [writeMu EXCEPT ![c] = Absent]

\* send: conn.Write fails, because the connection broke or because the visitor
\* went away, and the lock is released.
WriteFails(r) ==
    /\ rpc[r] = "write"
    /\ WriteBroken(target[r]) \/ (gone[r] /\ WriteCancelled(target[r]))
    /\ writeMu' = Unlocked(target[r])
    /\ Step(r, "unregister")
    /\ UNCHANGED <<regVars, pending, asked, target, gone, reply, countVars, inHand>>

\* select: the answer is in the channel; atomic.AddInt64.
Receive(r) ==
    /\ rpc[r] = "wait"
    /\ reply[r] # Absent
    /\ requests' = [requests EXCEPT ![target[r]] = @ + 1]
    /\ Step(r, "record")
    /\ UNCHANGED <<regVars, pending, asked, target, gone, reply, recent, linkVars,
                   writeMu, inHand>>

\* Mutants: the buffer grows for ever; it is cut when full, not when it overflows.
Everything(buf) == buf
CutWhenFull(buf) == IF Len(buf) >= recentRequestCap THEN Tail(buf) ELSE buf

\* buf[len(buf)-recentRequestCap:], of a buffer that grows by one at a time.
Newest(buf) == IF Len(buf) > recentRequestCap THEN Tail(buf) ELSE buf

\* recordRequest, under reqMu; the visitor gets the answer.
RecordRequest(r) ==
    /\ rpc[r] = "record"
    /\ recent' = [recent EXCEPT ![UserOf[target[r]]] = Newest(Append(@, r))]
    /\ Step(r, "served")
    /\ UNCHANGED <<regVars, pending, asked, target, gone, reply, requests, linkVars,
                   writeMu, inHand>>

\* select: the 20 s are over, or the visitor is gone. With an answer in the
\* channel as well, select takes either branch.
GiveUp(r) ==
    /\ rpc[r] = "wait"
    /\ Step(r, "unregister")
    /\ UNCHANGED <<regVars, pending, asked, target, gone, reply, countVars, linkVars,
                   writeMu, inHand>>

\* Mutant: the conversation is left behind.
StillPending(r) == pending

WithoutConversation(r) == pending \ {r}

\* delete(pending, conversationId), the same in all three error branches: 502.
Unregister(r) ==
    /\ rpc[r] = "unregister"
    /\ pending' = WithoutConversation(r)
    /\ Step(r, "badGateway")
    /\ UNCHANGED <<regVars, asked, target, gone, reply, countVars, linkVars, writeMu, inHand>>

SendStep(r) ==
    \/ StartConversation(r) \/ LockWrite(r) \/ WriteRequest(r) \/ UnlockWrite(r)
    \/ WriteFails(r) \/ Receive(r) \/ RecordRequest(r) \/ GiveUp(r) \/ Unregister(r)

RequestStep(r) == Route(r) \/ ReadBody(r) \/ SendStep(r)

-----------------------------------------------------------------------------
(* The environment: the visitor, the tunnel client and the network.         *)

\* The visitor closes its connection; net/http cancels r.Context().
VisitorLeaves(r) ==
    /\ rpc[r] \notin RequestDone \cup {"idle"}
    /\ ~gone[r]
    /\ gone' = [gone EXCEPT ![r] = TRUE]
    /\ UNCHANGED <<regVars, pending, rpc, asked, target, reply, countVars, linkVars,
                   writeMu, inHand>>

\* The tunnel client reads one message.
PeerReads(c) ==
    /\ conn[c] = "open"
    /\ toClient[c] # <<>>
    /\ toClient' = [toClient EXCEPT ![c] = Tail(@)]
    /\ atPeer' = [atPeer EXCEPT ![c] = @ \cup ({Head(toClient[c])} \ {Info})]
    /\ UNCHANGED <<regVars, convVars, countVars, conn, toHost, writeMu, inHand>>

\* The tunnel client answers one of its requests, or with something the host
\* skips; a client that fails to handle a request never answers it.
PeerAnswers(c) ==
    /\ conn[c] = "open"
    /\ Len(toHost[c]) < SocketCap
    /\ \E r \in atPeer[c], m \in Requests \cup {Noise} :
          /\ m \in {r, Noise}
          /\ toHost' = [toHost EXCEPT ![c] = Append(@, m)]
          /\ atPeer' = [atPeer EXCEPT ![c] = @ \ {r}]
    /\ UNCHANGED <<regVars, convVars, countVars, conn, toClient, writeMu, inHand>>

\* The tunnel client closes or dies, or the network does; what already arrived
\* at the host can still be read.
LoseLink(c) ==
    /\ conn[c] = "open"
    /\ conn' = [conn EXCEPT ![c] = "lost"]
    /\ toClient' = [toClient EXCEPT ![c] = <<>>]
    /\ atPeer' = [atPeer EXCEPT ![c] = {}]
    /\ UNCHANGED <<regVars, convVars, countVars, toHost, writeMu, inHand>>

\* Nothing is left to do: every connection and every request has ended.
Finished ==
    /\ \A c \in Conns : hpc[c] \in Refused \cup {"done"}
    /\ \A r \in Requests : rpc[r] \in RequestDone
    /\ UNCHANGED vars

Next ==
    \/ \E c \in Conns : \/ Authenticate(c) \/ HandlerStep(c)
                        \/ PeerReads(c) \/ PeerAnswers(c) \/ LoseLink(c)
    \/ \E r \in Requests : RequestStep(r) \/ VisitorLeaves(r)
    \/ Finished

Spec == Init /\ [][Next]_vars

\* Goroutines that can run do run: the database, TCP's dead-peer detection and
\* the 20 s timer answer eventually. Nothing makes a visitor send its body.
HostFairness ==
    /\ \A c \in Conns : WF_vars(HandlerStep(c))
    /\ \A r \in Requests : WF_vars(SendStep(r))
FairSpec == Spec /\ HostFairness

\* Moreover every tunnel client keeps reading what it is sent.
ResponsiveSpec == FairSpec /\ \A c \in Conns : WF_vars(PeerReads(c))

-----------------------------------------------------------------------------
(* Invariants.                                                              *)

RegTypeOK ==
    /\ clients \in [Keys -> Conns \cup {Absent, Nil}]
    /\ hpc \in [Conns -> HandlerStates]
    /\ requested \in [Conns -> Labels \cup {Absent}]
    /\ name \in [Conns -> Labels \cup {Absent}]
    /\ event \in [Conns -> {"none", "open", "closed"}]

ConvTypeOK ==
    /\ pending \subseteq Requests
    /\ rpc \in [Requests -> RequestStates]
    /\ asked \in [Requests -> Labels \cup {Absent}]
    /\ target \in [Requests -> Conns \cup {Absent}]
    /\ gone \in [Requests -> BOOLEAN]
    /\ reply \in [Requests -> Conns \cup {Absent}]

CountTypeOK ==
    /\ requests \in [Conns -> Nat]
    /\ recent \in [Users -> Seq(Requests)]
    /\ \A u \in Users : Len(recent[u]) <= recentRequestCap

LinkTypeOK ==
    /\ conn \in [Conns -> {"none", "open", "lost", "closed"}]
    /\ toClient \in [Conns -> Seq(Requests \cup {Info})]
    /\ toHost \in [Conns -> Seq(Requests \cup {Noise})]
    /\ atPeer \in [Conns -> SUBSET Requests]
    /\ \A c \in Conns : Len(toClient[c]) <= SocketCap /\ Len(toHost[c]) <= SocketCap

PumpTypeOK ==
    /\ writeMu \in [Conns -> Requests \cup Conns \cup {Absent}]
    /\ inHand \in [Conns -> Requests \cup {Absent}]

\* Every variable has its type, and no buffer exceeds its capacity: the recent
\* list of a user (recentRequestCap) and the pipes.
TypeOK == RegTypeOK /\ ConvTypeOK /\ CountTypeOK /\ LinkTypeOK /\ PumpTypeOK

\* Two connections that hold a name at the same time hold different names,
\* however their handlers interleave: what the placeholder is for
\* (tunnel.go:178-179).
NameExclusive ==
    \A c, d \in Conns :
        hpc[c] \in Holding /\ hpc[d] \in Holding /\ c # d => Key(c) # Key(d)

\* The clients map says exactly what the handlers stand for: a placeholder
\* belongs to a handler that is about to register or to release it, a client to
\* a handler that has not yet dropped it, so no name stays taken by nobody
\* (tunnel.go:143-161, 241-247, 287-292).
RegistryMatchesHandlers ==
    /\ \A c \in Conns : hpc[c] \in Claiming => clients[Key(c)] = Nil
    /\ \A c \in Conns : hpc[c] \in Published => clients[Key(c)] = c
    /\ \A k \in Keys : clients[k] = Nil => \E c \in Conns : hpc[c] \in Claiming /\ Key(c) = k
    /\ \A k \in Keys, c \in Conns : clients[k] = c => hpc[c] \in Published /\ Key(c) = k

\* The inductive form of the two: a handler that holds a name has one.
RegistryInv ==
    /\ \A c \in Conns : hpc[c] \in Holding => name[c] \in Labels
    /\ NameExclusive
    /\ RegistryMatchesHandlers

\* No conversation outlives its request: every return of SendHttpRequest leaves
\* its id out of the pending map (tunnel.go:314-336).
NoPendingLeak == \A r \in pending : rpc[r] \in {"lock", "write", "unlock", "wait", "unregister"}

\* readPump never blocks on a conversation's channel, also when the request has
\* stopped waiting between the map access and the send (tunnel.go:275-283).
PumpNeverBlocks == \A c \in Conns : hpc[c] = "deliver" => HasRoom(inHand[c])

\* An answer that readPump has taken out of the pending map is not lost: while
\* its request still stands before its select or waits in it, the answer is in
\* readPump's hand or in the channel, even if it came before the request began
\* to wait.
NoLostAnswer ==
    \A r \in Requests :
        rpc[r] \in {"lock", "write", "unlock", "wait"} /\ r \notin pending =>
            reply[r] = target[r] \/ \E c \in Conns : inHand[c] = r

\* The answer a visitor gets came over a connection that had the name the
\* visitor asked for, whoever holds that name by now.
AnswerFromAskedTunnel ==
    \A r \in Requests :
        rpc[r] \in Answered /\ asked[r] # Absent =>
            /\ reply[r] \in Conns
            /\ Key(reply[r]) = lower[asked[r]]

\* Where a conversation may be between the Write of its request and the answer.
InFlight(r, c) ==
    \/ \E i \in DOMAIN toClient[c] : toClient[c][i] = r
    \/ r \in atPeer[c]
    \/ \E i \in DOMAIN toHost[c] : toHost[c][i] = r
    \/ inHand[c] = r
    \/ reply[r] = c

\* The inductive form of the four: a conversation lives on the connection its
\* request was routed to, from the Write on; exactly one of the pending map,
\* readPump's hand and the channel has it until its request stops waiting.
MessagesBelong ==
    \A r \in Requests, c \in Conns :
        InFlight(r, c) => target[r] = c /\ rpc[r] \in Written
UnsentIsPending == \A r \in Requests : rpc[r] \in {"lock", "write"} => r \in pending
PendingIsOpen ==
    \A r \in pending : /\ reply[r] = Absent
                       /\ \A c \in Conns : inHand[c] # r
HandIsReady ==
    \A c \in Conns : /\ hpc[c] = "deliver" <=> inHand[c] # Absent
                     /\ inHand[c] # Absent => reply[inHand[c]] = Absent
AnsweredHasReply == \A r \in Requests : rpc[r] \in Answered => reply[r] = target[r]
TargetWasAsked ==
    \A r \in Requests :
        rpc[r] \notin {"idle", "notFound"} =>
            /\ target[r] \in Conns
            /\ hpc[target[r]] \in WasLive
            /\ asked[r] # Absent => Key(target[r]) = lower[asked[r]]

ConversationInv ==
    /\ MessagesBelong /\ UnsentIsPending /\ PendingIsOpen /\ HandIsReady
    /\ AnsweredHasReply /\ TargetWasAsked
    /\ NoPendingLeak /\ NoLostAnswer

\* The portal's numbers agree with each other: a tunnel's counter is the number
\* of its answered requests, and a user's recent list holds as many of the
\* user's answered requests as fit.
TrafficAccounted ==
    /\ \A c \in Conns :
          requests[c] = Cardinality({r \in Requests : rpc[r] \in Answered /\ target[r] = c})
    /\ \A u \in Users :
          LET served == {r \in Requests : rpc[r] = "served" /\ UserOf[target[r]] = u} IN
          /\ \A i \in DOMAIN recent[u] : recent[u][i] \in served
          /\ Len(recent[u]) = IF Cardinality(served) > recentRequestCap
                              THEN recentRequestCap ELSE Cardinality(served)

-----------------------------------------------------------------------------
(* Action properties.                                                       *)

\* In pool mode a connection is turned away only while other connections hold
\* every name of the pool (tunnel.go:182-184, "Rejected when the pool is
\* exhausted").
RefusedOnlyWhenExhausted ==
    [][\A c \in Conns :
          hpc[c] = "assign" /\ hpc'[c] = "unavailable" =>
              \A i \in DOMAIN Pool :
                  \E d \in Conns : hpc[d] \in Holding /\ Key(d) = lower[Pool[i]]]_vars

\* handleConn's comment (tunnel.go:136): "Assign a subdomain: the client's
\* requested name if free, else a random one". A connection that asked for a
\* taken name is not turned away while a random name is free.
RequestedElseRandom ==
    [][\A c \in Conns :
          hpc[c] = "assign" /\ requested[c] # Absent /\ FreeWords # {} =>
              hpc'[c] # "unavailable"]_vars

-----------------------------------------------------------------------------
(* Liveness.                                                                *)

\* Whatever the requests on it are doing, the handler of a dead connection ends
\* and its name becomes free again: of one whose link is lost, and of one that the
\* library closed because a visitor left in the middle of its request's Write.
NamesFreed ==
    \A c \in Conns : conn[c] \in {"lost", "closed"} ~> hpc[c] = "done" /\ \A k \in Keys : clients[k] # c

\* SendHttpRequest "waits for the matching response or the timeout"
\* (tunnel.go:300-301): a request that was to be sent ends.
RequestsFinish == \A r \in Requests : rpc[r] = "register" ~> rpc[r] \in RequestDone

-----------------------------------------------------------------------------
(* The map and its handlers implement the abstract registry.                *)

Held == {p \in Conns \X Keys : hpc[p[1]] \in Holding /\ Key(p[1]) = p[2]}
Routable == {p \in Conns \X Keys : clients[p[2]] = p[1]}

Registry == INSTANCE SubdomainRegistry WITH held <- Held, published <- Routable

\* Names are claimed, published and given up as SubdomainRegistry allows.
ImplementsRegistry == Registry!Spec

-----------------------------------------------------------------------------
(* The host, with the tunnel clients it assumes, implements the abstract    *)
(* forwarding of requests.                                                  *)

\* Where a request is that was written: on the way to a tunnel client, with it, or
\* coming back as an answer, up to its visitor's goroutine.
OnTheWay(r)  == \E c \in Conns : r \in Range(toClient[c])
AtClient(r)  == \E c \in Conns : r \in atPeer[c]
Answering(r) == reply[r] # Absent \/ \E c \in Conns : inHand[c] = r \/ r \in Range(toHost[c])

Unsent == {"idle", "body", "register", "lock", "write"}

\* How far a request has come, on whichever connection it was sent.
StageOf(r) ==
    IF rpc[r] \in Answered THEN "received"
    ELSE IF Answering(r) THEN "answered"
    ELSE IF AtClient(r) THEN "serving"
    ELSE IF OnTheWay(r) THEN "sent"
    ELSE IF rpc[r] \in Unsent THEN "unsent"
    ELSE "ended"

Contract == INSTANCE Forwarding WITH stage <- [r \in Requests |-> StageOf(r)]

\* A request is forwarded as Forwarding allows: written once, to one connection, and
\* what its visitor receives is the answer of whoever took it from there
\* (tunnel.go:251-337), though answers, timeouts, visitors and losses race.
ImplementsForwarding == Contract!Spec

\* The inductive form, with ConversationInv: a request is in one of the three places,
\* and no pipe has it twice.
TravelInv ==
    /\ \A r \in Requests :
          /\ ~(OnTheWay(r) /\ AtClient(r))
          /\ ~((OnTheWay(r) \/ AtClient(r)) /\ Answering(r))
    /\ \A c \in Conns : \A i, j \in DOMAIN toClient[c] :
          toClient[c][i] = toClient[c][j] /\ toClient[c][i] # Info => i = j
===============================================================================
