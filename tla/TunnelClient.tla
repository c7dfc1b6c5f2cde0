----------------------------- MODULE TunnelClient -----------------------------
(***************************************************************************)
(* One tunnel of the client program: internal/client/tunnel.go and the      *)
(* state of internal/client/handler.go that it uses.                        *)
(*                                                                          *)
(* The goroutine of run connects, reads and reconnects; during a connection *)
(* (a session) it starts a goroutine per forwarded request, at most         *)
(* maxConcurrentRequests at a time, and a keepalive pinger, and waits for    *)
(* all of them before the next attempt. They share the connection, its      *)
(* write lock and connCtx, which ends with the session or the program.      *)
(* The host and the network are the environment.                            *)
(***************************************************************************)
EXTENDS Naturals, Sequences, FiniteSets, Functions

CONSTANTS Requests,               \* forwarded requests, each sent once
          maxConcurrentRequests,  \* capacity of the semaphore
          maxRetries,             \* attempts of one connect
          MaxSessions,            \* bound: connections that may be established
          SocketCap,              \* messages a stalled connection can hold
          Free,                   \* the write lock is free, no command in hand
          Info                    \* the NtunlInfo message

ASSUME ClientAssumption ==
    /\ maxConcurrentRequests \in Nat \ {0} /\ maxRetries \in Nat \ {0}
    /\ MaxSessions \in Nat /\ SocketCap \in Nat \ {0}
    /\ {Free, Info} \cap Requests = {}

VARIABLES
    pc,         \* where run / connect / serve stands
    ctxDone,    \* the program's context is cancelled
    attempt,    \* connect's attempt counter
    session,    \* connections established so far
    cancelled,  \* serve has called cancel(): with ctxDone, connCtx is done
    cmd,        \* the request the read loop wants a slot for
    slots,      \* len(sem)
    handler,    \* [Requests -> the state of its goroutine]
    writeMu,    \* the request whose goroutine holds the write lock
    pinger,     \* the keepalive goroutine: "off", "wait" (for the tick), "ping"
    info,       \* session that pushed the URL in tunnelState, 0 when nil
    logs,       \* messageHandler.logs
    link,       \* "none", "open", "silent" (dead, unnoticed), "reset", "closed"
    inbox,      \* messages from the host on the way
    outbox      \* answers on the way to the host

runVars  == <<pc, ctxDone, attempt, session, cancelled, cmd, pinger>>
workVars == <<slots, handler, writeMu, logs>>
linkVars == <<link, inbox, outbox>>
vars == <<runVars, workVars, info, linkVars>>

InSession == {"read", "acquire", "cancel", "close", "drain"}
Ended     == {"stopped", "gaveUp", "panicked"}
RunStates == InSession \cup Ended \cup {"loop", "connect", "dial", "retryWait", "backoff"}
Running   == {"handle", "log", "lock", "write", "release"}

ConnCtxDone == ctxDone \/ cancelled
Active == {r \in Requests : handler[r] \in Running}

Init ==
    /\ pc = "loop" /\ ctxDone = FALSE /\ attempt = 0 /\ session = 0
    /\ cancelled = FALSE /\ cmd = Free /\ pinger = "off"
    /\ slots = 0 /\ writeMu = Free /\ logs = <<>> /\ info = 0
    /\ handler = [r \in Requests |-> "none"]
    /\ link = "none" /\ inbox = <<>> /\ outbox = <<>>

\* Once the connection is closed here, what was under way is dropped.
Shut == link' = "closed" /\ inbox' = <<>> /\ outbox' = <<>>

-----------------------------------------------------------------------------
(* run and connect.                                                         *)

\* for ctx.Err() == nil, at the head of run's loop.
RunLoop ==
    /\ pc = "loop"
    /\ IF ctxDone THEN pc' = "stopped" /\ UNCHANGED attempt
                  ELSE pc' = "connect" /\ attempt' = 1
    /\ UNCHANGED <<ctxDone, session, cancelled, cmd, pinger, workVars, info, linkVars>>

\* The condition of connect's loop. When it fails, connect returns lastErr and
\* run gives up; before the first attempt lastErr is nil, run takes that for a
\* connection and serve dereferences a nil one.
TryConnect ==
    /\ pc = "connect"
    /\ pc' = IF attempt <= maxRetries /\ ~ctxDone THEN "dial"
             ELSE IF attempt = 1 THEN "panicked" ELSE "gaveUp"
    /\ UNCHANGED <<ctxDone, attempt, session, cancelled, cmd, pinger, workVars, info, linkVars>>

\* Dial succeeds; serve makes a fresh connCtx, semaphore and pinger.
DialSucceeds ==
    /\ pc = "dial" /\ session < MaxSessions
    /\ session' = session + 1
    /\ link' = "open" /\ inbox' = <<>> /\ outbox' = <<>>
    /\ cancelled' = FALSE /\ slots' = 0 /\ writeMu' = Free
    /\ pinger' = "wait"
    /\ pc' = "read"
    /\ UNCHANGED <<ctxDone, attempt, cmd, handler, logs, info>>

DialFails ==
    /\ pc = "dial"
    /\ pc' = "retryWait"
    /\ UNCHANGED <<ctxDone, attempt, session, cancelled, cmd, pinger, workVars, info, linkVars>>

\* select: ctx.Done, or the next attempt after retryInterval.
RetryWait ==
    /\ pc = "retryWait"
    /\ \/ ctxDone /\ pc' = "gaveUp" /\ UNCHANGED attempt
       \/ pc' = "connect" /\ attempt' = attempt + 1
    /\ UNCHANGED <<ctxDone, session, cancelled, cmd, pinger, workVars, info, linkVars>>

-----------------------------------------------------------------------------
(* serve: the read loop and its end.                                        *)

\* A request goes to acquire; NtunlInfo is stored at once (dispatchControl).
ReadMessage ==
    /\ pc = "read" /\ inbox # <<>>
    /\ inbox' = Tail(inbox)
    /\ IF Head(inbox) = Info
       THEN info' = session /\ UNCHANGED <<pc, cmd>>
       ELSE pc' = "acquire" /\ cmd' = Head(inbox) /\ UNCHANGED info
    /\ UNCHANGED <<ctxDone, attempt, session, cancelled, pinger, workVars, link, outbox>>

\* Read fails: the connection was reset, or closed by the pinger or by a failed
\* write, or connCtx is done (the library then closes). A connection that died
\* silently fails no read: it takes the pinger to notice.
ReadFails ==
    /\ pc = "read"
    /\ link \in {"reset", "closed"} \/ ConnCtxDone
    /\ Shut
    /\ pc' = "cancel"
    /\ UNCHANGED <<ctxDone, attempt, session, cancelled, cmd, pinger, workVars, info>>

\* Mutant: a goroutine per request, the semaphore being counted only.
AcquireAlways ==
    /\ pc = "acquire"
    /\ slots' = slots + 1
    /\ handler' = [handler EXCEPT ![cmd] = "handle"]
    /\ pc' = "read" /\ cmd' = Free
    /\ UNCHANGED <<ctxDone, attempt, session, cancelled, pinger, writeMu, logs, info, linkVars>>

\* sem <- struct{}{}, then the handler's goroutine starts.
Acquire ==
    /\ pc = "acquire" /\ slots < maxConcurrentRequests
    /\ slots' = slots + 1
    /\ handler' = [handler EXCEPT ![cmd] = "handle"]
    /\ pc' = "read" /\ cmd' = Free
    /\ UNCHANGED <<ctxDone, attempt, session, cancelled, pinger, writeMu, logs, info, linkVars>>

\* <-connCtx.Done() instead: the request is dropped.
AcquireCancelled ==
    /\ pc = "acquire" /\ ConnCtxDone
    /\ pc' = "cancel" /\ cmd' = Free
    /\ UNCHANGED <<ctxDone, attempt, session, cancelled, pinger, workVars, info, linkVars>>

Cancel ==
    /\ pc = "cancel"
    /\ cancelled' = TRUE
    /\ pc' = "close"
    /\ UNCHANGED <<ctxDone, attempt, session, cmd, pinger, workVars, info, linkVars>>

CloseConn ==
    /\ pc = "close"
    /\ Shut
    /\ pc' = "drain"
    /\ UNCHANGED <<ctxDone, attempt, session, cancelled, cmd, pinger, workVars, info>>

\* Mutant: only the pinger is waited for.
PingerDone == pinger = "off"

\* wg.Wait returns: every handler and the pinger are done.
AllDone == Active = {} /\ pinger = "off"

\* Mutant: the end of connCtx is taken for the end of the program.
DrainConnCtx ==
    /\ pc = "drain" /\ AllDone
    /\ pc' = IF ConnCtxDone THEN "stopped" ELSE "backoff"
    /\ UNCHANGED <<ctxDone, attempt, session, cancelled, cmd, pinger, workVars, info, linkVars>>

Drain ==
    /\ pc = "drain" /\ AllDone
    /\ pc' = IF ctxDone THEN "stopped" ELSE "backoff"
    /\ UNCHANGED <<ctxDone, attempt, session, cancelled, cmd, pinger, workVars, info, linkVars>>

\* select: ctx.Done, or back to the loop after retryInterval.
Backoff ==
    /\ pc = "backoff"
    /\ \/ ctxDone /\ pc' = "stopped"
       \/ pc' = "loop"
    /\ UNCHANGED <<ctxDone, attempt, session, cancelled, cmd, pinger, workVars, info, linkVars>>

\* What run does without the host. A dial has no timeout of its own: a host that
\* takes the connection and never answers holds it until ctx is cancelled.
OwnRunStep ==
    \/ RunLoop \/ TryConnect \/ (ctxDone /\ DialFails) \/ RetryWait
    \/ ReadMessage \/ ReadFails \/ Acquire \/ AcquireCancelled
    \/ Cancel \/ CloseConn \/ Drain \/ Backoff

RunStep == OwnRunStep \/ DialSucceeds \/ DialFails

-----------------------------------------------------------------------------
(* handleRequest, one goroutine per request.                                *)

To(r, state) == handler' = [handler EXCEPT ![r] = state]

\* Mutant: a local service that never answers is waited for until connCtx ends.
HandleFailsWithoutTimeout(r) ==
    /\ handler[r] = "handle" /\ ConnCtxDone
    /\ To(r, "release")
    /\ UNCHANGED <<runVars, slots, writeMu, logs, info, linkVars>>

\* handle answers with an error: bad data, a failed or timed out (10 s) call of
\* the local service, or connCtx done. Nothing is sent to the host.
HandleFails(r) ==
    /\ handler[r] = "handle"
    /\ To(r, "release")
    /\ UNCHANGED <<runVars, slots, writeMu, logs, info, linkVars>>

\* The local service answered and its response is built.
HandleOk(r) ==
    /\ handler[r] = "handle"
    /\ To(r, "log")
    /\ UNCHANGED <<runVars, slots, writeMu, logs, info, linkVars>>

\* Mutant: a bounded log that drops the newest pair when it is full.
AppendLogIfRoom(r) ==
    /\ handler[r] = "log"
    /\ logs' = IF Len(logs) < maxConcurrentRequests THEN Append(logs, r) ELSE logs
    /\ To(r, "lock")
    /\ UNCHANGED <<runVars, slots, writeMu, info, linkVars>>

\* The pair is retained for the inspector before the answer is written.
AppendLog(r) ==
    /\ handler[r] = "log"
    /\ logs' = Append(logs, r)
    /\ To(r, "lock")
    /\ UNCHANGED <<runVars, slots, writeMu, info, linkVars>>

LockWrite(r) ==
    /\ handler[r] = "lock" /\ writeMu = Free
    /\ writeMu' = r
    /\ To(r, "write")
    /\ UNCHANGED <<runVars, slots, logs, info, linkVars>>

\* On a silently dead connection the answer is buffered and lost.
WriteOk(r) ==
    /\ handler[r] = "write"
    /\ \/ /\ link = "open" /\ Len(outbox) < SocketCap
          /\ outbox' = Append(outbox, r)
       \/ link = "silent" /\ UNCHANGED outbox
    /\ writeMu' = Free
    /\ To(r, "release")
    /\ UNCHANGED <<runVars, slots, logs, info, link, inbox>>

\* Mutant: a Write that timed out is repeated, though its message may be out.
WriteAgain(r) ==
    /\ handler[r] = "write" /\ link = "open" /\ Len(outbox) < SocketCap
    /\ outbox' = Append(outbox, r)
    /\ writeMu' = Free
    /\ To(r, "lock")
    /\ UNCHANGED <<runVars, slots, logs, info, link, inbox>>

\* Mutant: the early return after a failed write skips Unlock.
WriteFailsLocked(r) ==
    /\ handler[r] = "write"
    /\ Shut
    /\ To(r, "release")
    /\ UNCHANGED <<runVars, slots, writeMu, logs, info>>

\* The write fails: the connection is gone, connCtx is done, or writeTimeout
\* passed; the library closes the connection.
WriteFails(r) ==
    /\ handler[r] = "write"
    /\ Shut
    /\ writeMu' = Free
    /\ To(r, "release")
    /\ UNCHANGED <<runVars, slots, logs, info>>

\* Mutant: the slot is given back by the handlers that answered only.
ReleaseAnswered(r) ==
    /\ handler[r] = "release"
    /\ slots' = IF \E i \in DOMAIN logs : logs[i] = r THEN slots - 1 ELSE slots
    /\ To(r, "done")
    /\ UNCHANGED <<runVars, writeMu, logs, info, linkVars>>

\* The deferred calls: the slot is given back, then wg.Done.
Release(r) ==
    /\ handler[r] = "release"
    /\ slots' = slots - 1
    /\ To(r, "done")
    /\ UNCHANGED <<runVars, writeMu, logs, info, linkVars>>

\* What the goroutine does without the local service or the host answering.
OwnHandlerStep(r) ==
    \/ HandleFails(r) \/ AppendLog(r) \/ LockWrite(r)
    \/ WriteFails(r) \/ Release(r)

HandlerStep(r) == OwnHandlerStep(r) \/ HandleOk(r) \/ WriteOk(r)

-----------------------------------------------------------------------------
(* keepalive.                                                               *)

PingerTo(state) ==
    /\ pinger' = state
    /\ UNCHANGED <<pc, ctxDone, attempt, session, cancelled, cmd, workVars, info>>

Tick ==
    /\ pinger = "wait"
    /\ PingerTo("ping") /\ UNCHANGED linkVars

\* A pong is noticed only by a conn.Read under way.
Pong ==
    /\ pinger = "ping" /\ link = "open" /\ pc = "read"
    /\ PingerTo("wait") /\ UNCHANGED linkVars

\* Mutant: a failed ping is logged only.
PingFailsQuietly ==
    /\ pinger = "ping"
    /\ PingerTo("off") /\ UNCHANGED linkVars

\* No pong within pingTimeout, or the connection or connCtx is gone.
PingFails ==
    /\ pinger = "ping"
    /\ PingerTo("off")
    /\ IF ConnCtxDone THEN UNCHANGED linkVars ELSE Shut

KeepaliveStops ==
    /\ pinger = "wait" /\ ConnCtxDone
    /\ PingerTo("off") /\ UNCHANGED linkVars

PingerStep == Tick \/ Pong \/ PingFails \/ KeepaliveStops

-----------------------------------------------------------------------------
(* The host, the network and the user.                                      *)

HostSends(r) ==
    /\ link = "open" /\ handler[r] = "none" /\ Len(inbox) < SocketCap
    /\ inbox' = Append(inbox, r)
    /\ To(r, "sent")
    /\ UNCHANGED <<runVars, slots, writeMu, logs, info, link, outbox>>

\* The host pushes the tunnel's URL, once per connection.
HostPushesInfo ==
    /\ link = "open" /\ info < session /\ Len(inbox) < SocketCap
    /\ \A i \in DOMAIN inbox : inbox[i] # Info
    /\ inbox' = Append(inbox, Info)
    /\ UNCHANGED <<runVars, workVars, info, link, outbox>>

HostReads ==
    /\ link = "open" /\ outbox # <<>>
    /\ outbox' = Tail(outbox)
    /\ UNCHANGED <<runVars, workVars, info, link, inbox>>

\* The connection dies, with a reset or without a sign. What had arrived may
\* still be read.
LoseLink ==
    /\ link = "open"
    /\ link' \in {"silent", "reset"}
    /\ outbox' = <<>>
    /\ UNCHANGED <<runVars, workVars, info, inbox>>

\* The program is told to stop (Ctrl-C).
CancelProgram ==
    /\ ~ctxDone
    /\ ctxDone' = TRUE
    /\ UNCHANGED <<pc, attempt, session, cancelled, cmd, pinger, workVars, info, linkVars>>

Environment ==
    \/ \E r \in Requests : HostSends(r)
    \/ HostPushesInfo \/ HostReads \/ LoseLink \/ CancelProgram

\* run has returned: nothing else has to happen.
Finished == pc \in Ended /\ UNCHANGED vars

Next ==
    \/ RunStep
    \/ \E r \in Requests : HandlerStep(r)
    \/ PingerStep
    \/ Environment
    \/ Finished

Spec == Init /\ [][Next]_vars

\* Goroutines are scheduled; retryInterval, the ticker, pingTimeout, writeTimeout
\* and the 10 s of http.Client run out. Nothing is asked of the host, the local
\* service, the network or the user.
FairSpec ==
    /\ Spec
    /\ WF_vars(OwnRunStep)
    /\ \A r \in Requests : WF_vars(OwnHandlerStep(r))
    /\ WF_vars(Tick) /\ WF_vars(PingFails) /\ WF_vars(KeepaliveStops)

-----------------------------------------------------------------------------
(* Properties.                                                              *)

\* The state has its types; no more handlers hold a slot than the semaphore has.
TypeOK ==
    /\ pc \in RunStates /\ ctxDone \in BOOLEAN /\ cancelled \in BOOLEAN
    /\ attempt \in 0..(maxRetries + 1) /\ session \in 0..MaxSessions
    /\ info \in 0..MaxSessions
    /\ cmd \in Requests \cup {Free} /\ writeMu \in Requests \cup {Free}
    /\ pinger \in {"off", "wait", "ping"}
    /\ slots \in 0..maxConcurrentRequests
    /\ handler \in [Requests -> Running \cup {"none", "sent", "done"}]
    /\ logs \in Seq(Requests)
    /\ link \in {"none", "open", "silent", "reset", "closed"}
    /\ inbox \in Seq(Requests \cup {Info}) /\ outbox \in Seq(Requests)

\* serve returns only when nothing of its session is left: no handler that could
\* write to the next connection, no pinger that could close it, no slot and no
\* write lock still taken, and no connection still open.
NoWorkOutlivesSession ==
    pc \notin InSession =>
        /\ Active = {} /\ pinger = "off"
        /\ slots = 0 /\ writeMu = Free
        /\ link \in {"none", "closed"}

\* Every slot taken is that of a running handler: no path through handleRequest
\* leaks one, so the concurrency the tunnel starts with is never lost.
SlotsMatchHandlers == slots = Cardinality(Active)

\* The inspector shows what the host was answered: an answer on its way is in
\* the log, and no pair is retained twice.
AnswersAreLogged ==
    /\ \A i \in DOMAIN outbox : \E j \in DOMAIN logs : logs[j] = outbox[i]
    /\ \A i, j \in DOMAIN logs : logs[i] = logs[j] => i = j

-----------------------------------------------------------------------------
(* The inductive invariant.                                                 *)

\* connect leaves its loop with attempt at most one past maxRetries.
AttemptInv ==
    /\ pc = "connect" => attempt \in 1..(maxRetries + 1)
    /\ pc \in {"dial", "retryWait"} => attempt \in 1..maxRetries

\* Nothing runs between sessions, and the connection of a session that drains is
\* closed.
SessionInv ==
    /\ pc \notin InSession =>
           Active = {} /\ pinger = "off" /\ link \in {"none", "closed"}
    /\ pc = "drain" => link = "closed"

SlotInv == IsFiniteSet(Active) /\ slots = Cardinality(Active)

\* The lock belongs to the one handler that writes, or to nobody.
WriterInv == \A r \in Requests : handler[r] = "write" <=> writeMu = r

\* What waits to be read, or for a slot, has no handler yet and waits once.
QueueInv ==
    /\ \A i \in DOMAIN inbox : inbox[i] # Info =>
           handler[inbox[i]] = "sent" /\ inbox[i] # cmd
    /\ \A i, j \in DOMAIN inbox : inbox[i] = inbox[j] => i = j
    /\ IF pc = "acquire" THEN cmd \in Requests /\ handler[cmd] = "sent" ELSE cmd = Free

\* A request is in the log once its handler is past it, and only then.
LogInv ==
    /\ AnswersAreLogged
    /\ \A i \in DOMAIN logs : handler[logs[i]] \in {"lock", "write", "release", "done"}
    /\ \A r \in Requests : handler[r] \in {"lock", "write"} =>
           \E j \in DOMAIN logs : logs[j] = r

ClientInv == TypeOK /\ AttemptInv /\ SessionInv /\ SlotInv /\ WriterInv /\ QueueInv /\ LogInv

-----------------------------------------------------------------------------
(* Liveness, and two claims of the code's comments.                         *)

\* Whatever became of the connection, run dials again unless the user stops it:
\* also when it died without a sign, while the read loop waited for a slot, or was
\* closed by a handler or the pinger.
Reconnects == (pc \in InSession /\ link # "open") ~> (pc = "dial" \/ ctxDone)

\* Every request that got a slot gives it back, whatever the local service, the
\* host and the other handlers do.
HandlersEnd == \A r \in Requests : (handler[r] = "handle") ~> (handler[r] = "done")

\* A cancelled program stops serving, whatever it was doing.
ShutdownCompletes == ctxDone ~> (pc \in Ended)

\* "run connects (with retry) and serves until ctx is cancelled": whatever run
\* serves is a connection it has.
ServesAConnection == pc # "panicked"

-----------------------------------------------------------------------------
(* The client, with the host it assumes, implements the abstract forwarding *)
(* of requests.                                                             *)

\* How far a request has come; what becomes of an answer is not seen from here.
StageOf(r) ==
    IF r \in Range(outbox) THEN "answered"
    ELSE IF handler[r] \in Running \ {"release"} THEN "serving"
    ELSE IF handler[r] = "sent" /\ (r \in Range(inbox) \/ cmd = r) THEN "sent"
    ELSE IF handler[r] = "none" THEN "unsent"
    ELSE "ended"

Contract == INSTANCE Forwarding WITH stage <- [r \in Requests |-> StageOf(r)]

\* Every request the host sends is handed to one handler at most and answered at
\* most once, by that handler, over all sessions: what a lost connection leaves is
\* dropped and never taken up again (tunnel.go:130-200).
ImplementsForwarding == Contract!Spec

\* For the proof: what is answered is over.
OutboxInv == \A r \in Range(outbox) : handler[r] \in {"release", "done"}
=============================================================================
