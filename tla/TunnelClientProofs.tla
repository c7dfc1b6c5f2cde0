-------------------------- MODULE TunnelClientProofs --------------------------
(***************************************************************************)
(* Theorems about TunnelClient, for every number of requests, slots,        *)
(* retries, sessions and buffered messages.                                 *)
(***************************************************************************)
EXTENDS TunnelClient, PipeLemmas, FiniteSetTheorems

-----------------------------------------------------------------------------
(* Helpers.                                                                 *)

\* The elements of an extended sequence are the old ones and the new one.
LEMMA AppendElements ==
  ASSUME NEW S, NEW s \in Seq(S), NEW x \in S
  PROVE  /\ Append(s, x) \in Seq(S)
         /\ \A i \in DOMAIN Append(s, x) :
               (i \in DOMAIN s /\ Append(s, x)[i] = s[i]) \/ (i = Len(s) + 1 /\ Append(s, x)[i] = x)
         /\ \A i \in DOMAIN s : i \in DOMAIN Append(s, x) /\ Append(s, x)[i] = s[i]
         /\ Len(s) + 1 \in DOMAIN Append(s, x) /\ Append(s, x)[Len(s) + 1] = x
  OBVIOUS

\* The elements of a tail are those of the sequence, one place on.
LEMMA TailElements ==
  ASSUME NEW S, NEW s \in Seq(S), s # <<>>
  PROVE  /\ Tail(s) \in Seq(S)
         /\ \A i \in DOMAIN Tail(s) : i + 1 \in DOMAIN s /\ Tail(s)[i] = s[i + 1] /\ i \in Nat
         /\ Head(s) \in S /\ 1 \in DOMAIN s /\ Head(s) = s[1]
  OBVIOUS

-----------------------------------------------------------------------------
(* One lemma per part of ClientInv: every step keeps it.                    *)

\* Types: the counters stay in range because connect leaves its loop in time and
\* because a handler that releases a slot is one of those counted.
LEMMA TypeStep ==
  ASSUME ClientInv, Next
  PROVE  TypeOK'
<1> USE ClientAssumption DEF ClientInv, TypeOK, vars, runVars, workVars, linkVars,
                             RunStates, InSession, Ended, Running
<1>0. <<>> \in Seq(Requests) /\ <<>> \in Seq(Requests \cup {Info})
  OBVIOUS
<1>1. CASE RunLoop \/ TryConnect \/ DialFails \/ RetryWait
  BY <1>1 DEF RunLoop, TryConnect, DialFails, RetryWait, AttemptInv
<1>2. CASE DialSucceeds
  <2>1. session' \in 0..MaxSessions /\ slots' \in 0..maxConcurrentRequests
    BY <1>2 DEF DialSucceeds
  <2>2. UNCHANGED <<ctxDone, attempt, cmd, handler, logs, info>>
    BY <1>2 DEF DialSucceeds
  <2>3. /\ cancelled' = FALSE /\ pc' = "read" /\ pinger' = "wait" /\ writeMu' = Free
        /\ link' = "open" /\ inbox' = <<>> /\ outbox' = <<>>
    BY <1>2 DEF DialSucceeds
  <2> QED
    BY <1>0, <2>1, <2>2, <2>3
<1>3. CASE ReadMessage
  <2>1. inbox' \in Seq(Requests \cup {Info}) /\ Head(inbox) \in Requests \cup {Info}
    BY <1>3, TailElements DEF ReadMessage
  <2> QED
    BY <1>3, <2>1 DEF ReadMessage
<1>4. CASE ReadFails \/ CloseConn
  BY <1>0, <1>4 DEF ReadFails, CloseConn, Shut
<1>5. CASE Acquire
  <2>1. handler' \in [Requests -> Running \cup {"none", "sent", "done"}]
    BY <1>5 DEF Acquire
  <2>2. slots' \in 0..maxConcurrentRequests
    BY <1>5 DEF Acquire
  <2> QED
    BY <1>5, <2>1, <2>2 DEF Acquire
<1>6. CASE AcquireCancelled \/ Cancel \/ Drain \/ Backoff
  BY <1>6 DEF AcquireCancelled, Cancel, Drain, Backoff
<1>7. ASSUME NEW r \in Requests, HandleFails(r) \/ HandleOk(r) \/ LockWrite(r)
      PROVE  TypeOK'
  BY <1>7 DEF HandleFails, HandleOk, LockWrite, To
<1>8. ASSUME NEW r \in Requests, AppendLog(r) PROVE TypeOK'
  <2>1. logs' \in Seq(Requests)
    BY <1>8 DEF AppendLog
  <2> QED
    BY <1>8, <2>1 DEF AppendLog, To
<1>9. ASSUME NEW r \in Requests, WriteOk(r) PROVE TypeOK'
  <2>1. outbox' = outbox \/ outbox' = Append(outbox, r)
    BY <1>9 DEF WriteOk
  <2>0. outbox \in Seq(Requests) /\ Append(outbox, r) \in Seq(Requests)
    BY AppendElements
  <2>2. outbox' \in Seq(Requests)
    BY <2>0, <2>1
  <2> QED
    BY <1>9, <2>2 DEF WriteOk, To
<1>10. ASSUME NEW r \in Requests, WriteFails(r) PROVE TypeOK'
  BY <1>0, <1>10 DEF WriteFails, Shut, To
<1>11. ASSUME NEW r \in Requests, Release(r) PROVE TypeOK'
  <2>1. r \in Active
    BY <1>11 DEF Release, Active
  <2>2. slots # 0
    BY <2>1, FS_EmptySet DEF SlotInv
  <2>3. slots' \in 0..maxConcurrentRequests
    BY <1>11, <2>2 DEF Release
  <2> QED
    BY <1>11, <2>3 DEF Release, To
<1>12. CASE PingerStep
  <2>1. CASE UNCHANGED linkVars
    BY <1>12, <2>1 DEF PingerStep, PingerTo, Tick, Pong, PingFails, KeepaliveStops
  <2>2. CASE Shut
    BY <1>0, <1>12, <2>2 DEF PingerStep, PingerTo, Tick, Pong, PingFails, KeepaliveStops, Shut
  <2> QED
    BY <1>12, <2>1, <2>2 DEF PingerStep, Tick, Pong, PingFails, KeepaliveStops
<1>13. ASSUME NEW r \in Requests, HostSends(r) PROVE TypeOK'
  <2>1. inbox' \in Seq(Requests \cup {Info})
    BY <1>13 DEF HostSends
  <2> QED
    BY <1>13, <2>1 DEF HostSends, To
<1>14. CASE HostPushesInfo
  <2>1. inbox' \in Seq(Requests \cup {Info})
    BY <1>14 DEF HostPushesInfo
  <2> QED
    BY <1>14, <2>1 DEF HostPushesInfo
<1>15. CASE HostReads
  <2>1. outbox' \in Seq(Requests)
    BY <1>15, TailElements DEF HostReads
  <2> QED
    BY <1>15, <2>1 DEF HostReads
<1>16. CASE LoseLink
  BY <1>0, <1>16 DEF LoseLink
<1>17. CASE CancelProgram \/ Finished
  BY <1>17 DEF CancelProgram, Finished
<1> QED
  BY <1>1, <1>2, <1>3, <1>4, <1>5, <1>6, <1>7, <1>8, <1>9, <1>10, <1>11, <1>12,
     <1>13, <1>14, <1>15, <1>16, <1>17
  DEF Next, RunStep, OwnRunStep, HandlerStep, OwnHandlerStep, Environment

\* The attempt counter of connect.
LEMMA AttemptStep ==
  ASSUME ClientInv, Next
  PROVE  AttemptInv'
<1> USE ClientAssumption DEF ClientInv, AttemptInv, vars, runVars, InSession, Ended
<1>1. attempt \in Nat
  BY DEF TypeOK
<1>2. CASE RunStep
  BY <1>1, <1>2 DEF RunStep, OwnRunStep, RunLoop, TryConnect, DialSucceeds, DialFails,
     RetryWait, ReadMessage, ReadFails, Acquire, AcquireCancelled, Cancel, CloseConn,
     Drain, Backoff
<1>3. ASSUME NEW r \in Requests, HandlerStep(r) PROVE UNCHANGED <<pc, attempt>>
  BY <1>3 DEF HandlerStep, OwnHandlerStep, HandleFails, HandleOk, AppendLog, LockWrite,
     WriteOk, WriteFails, Release
<1>4. CASE PingerStep
  BY <1>4 DEF PingerStep, PingerTo, Tick, Pong, PingFails, KeepaliveStops
<1>5. CASE Environment \/ Finished
  BY <1>5 DEF Environment, HostSends, HostPushesInfo, HostReads, LoseLink, CancelProgram,
     Finished
<1> QED
  BY <1>2, <1>3, <1>4, <1>5 DEF Next

\* Moving one handler.
LEMMA HandlerMoves ==
  ASSUME TypeOK, NEW r \in Requests, NEW state, To(r, state)
  PROVE  /\ handler'[r] = state
         /\ \A q \in Requests \ {r} : handler'[q] = handler[q]
         /\ Active' = IF state \in Running THEN Active \cup {r} ELSE Active \ {r}
  BY DEF TypeOK, To, Active

\* What a step may do to the set of running handlers and to the slots.
StartsHandler(r) ==
    /\ r \notin Active /\ Active' = Active \cup {r} /\ slots' = slots + 1
    /\ pc' = "read" /\ slots < maxConcurrentRequests
EndsHandler(r) ==
    /\ r \in Active /\ Active' = Active \ {r} /\ slots' = slots - 1
    /\ pc' = pc

\* A slot is taken and given back together with a handler's start and end.
LEMMA HandlersAndSlots ==
  ASSUME ClientInv, Next
  PROVE  \/ Active' = Active /\ slots' = slots
         \/ \E r \in Requests : StartsHandler(r) \/ EndsHandler(r)
<1> USE DEF ClientInv, vars, runVars, workVars, linkVars
<1>1. CASE Acquire
  <2>1. cmd \in Requests /\ handler[cmd] = "sent"
    BY <1>1 DEF Acquire, QueueInv
  <2>2. To(cmd, "handle")
    BY <1>1 DEF Acquire, To
  <2>3. Active' = Active \cup {cmd} /\ cmd \notin Active
    BY <2>1, <2>2, HandlerMoves DEF Running, Active
  <2> QED
    BY <1>1, <2>1, <2>3 DEF Acquire, StartsHandler
<1>2. CASE DialSucceeds
  <2>1. Active = {} /\ slots = 0
    BY <1>2, FS_EmptySet DEF DialSucceeds, SessionInv, SlotInv, InSession
  <2>2. handler' = handler /\ slots' = 0
    BY <1>2 DEF DialSucceeds
  <2> QED
    BY <2>1, <2>2 DEF Active
<1>3. CASE RunStep /\ ~Acquire /\ ~DialSucceeds
  BY <1>3 DEF RunStep, OwnRunStep, RunLoop, TryConnect, DialFails, RetryWait, ReadMessage,
     ReadFails, AcquireCancelled, Cancel, CloseConn, Drain, Backoff, Active
<1>4. ASSUME NEW r \in Requests, HandlerStep(r), ~Release(r)
      PROVE  Active' = Active /\ slots' = slots
  <2>1. r \in Active /\ slots' = slots
    BY <1>4 DEF HandlerStep, OwnHandlerStep, HandleFails, HandleOk, AppendLog, LockWrite,
       WriteOk, WriteFails, Active, Running
  <2>2. \E state \in Running : To(r, state)
    BY <1>4 DEF HandlerStep, OwnHandlerStep, HandleFails, HandleOk, AppendLog, LockWrite,
       WriteOk, WriteFails, Running
  <2> QED
    BY <2>1, <2>2, HandlerMoves
<1>5. ASSUME NEW r \in Requests, Release(r) PROVE EndsHandler(r)
  <2>1. r \in Active /\ To(r, "done") /\ slots' = slots - 1 /\ pc' = pc
    BY <1>5 DEF Release, Active, Running
  <2>2. Active' = Active \ {r}
    BY <2>1, HandlerMoves DEF Running
  <2> QED
    BY <2>1, <2>2 DEF EndsHandler
<1>6. ASSUME NEW r \in Requests, HostSends(r) PROVE Active' = Active /\ slots' = slots
  <2>1. r \notin Active /\ To(r, "sent") /\ slots' = slots
    BY <1>6 DEF HostSends, Active, Running
  <2> QED
    BY <2>1, HandlerMoves DEF Running
<1>7. CASE PingerStep \/ Finished
  BY <1>7 DEF PingerStep, PingerTo, Tick, Pong, PingFails, KeepaliveStops, Finished, Active
<1>8. CASE HostPushesInfo \/ HostReads \/ LoseLink \/ CancelProgram
  BY <1>8 DEF HostPushesInfo, HostReads, LoseLink, CancelProgram, Active
<1> QED
  BY <1>1, <1>2, <1>3, <1>4, <1>5, <1>6, <1>7, <1>8 DEF Next, Environment

\* The slots taken are those of the running handlers.
LEMMA SlotStep ==
  ASSUME ClientInv, Next
  PROVE  SlotInv'
<1>1. SlotInv /\ slots \in Nat
  BY DEF ClientInv, TypeOK
<1>2. CASE Active' = Active /\ slots' = slots
  BY <1>1, <1>2 DEF SlotInv
<1>3. ASSUME NEW r \in Requests, StartsHandler(r) PROVE SlotInv'
  BY <1>1, <1>3, FS_AddElement DEF SlotInv, StartsHandler
<1>4. ASSUME NEW r \in Requests, EndsHandler(r) PROVE SlotInv'
  BY <1>1, <1>4, FS_RemoveElement DEF SlotInv, EndsHandler
<1> QED
  BY <1>2, <1>3, <1>4, HandlersAndSlots

\* serve returns only when its handlers and its pinger have.
LEMMA SessionStep ==
  ASSUME ClientInv, Next
  PROVE  SessionInv'
<1> USE DEF ClientInv, SessionInv, vars, runVars, workVars, linkVars, InSession
<1>1. CASE RunStep
  <2>1. CASE Acquire \/ DialSucceeds
    BY <2>1 DEF Acquire, DialSucceeds
  <2>2. CASE ~Acquire /\ ~DialSucceeds
    <3>1. Active' = Active /\ pinger' = pinger
      BY <1>1, <2>2 DEF RunStep, OwnRunStep, RunLoop, TryConnect, DialFails, RetryWait,
         ReadMessage, ReadFails, AcquireCancelled, Cancel, CloseConn, Drain, Backoff, Active
    <3>2. CASE Drain
      BY <3>1, <3>2 DEF Drain, AllDone
    <3>3. CASE ReadFails \/ CloseConn
      BY <3>3 DEF ReadFails, CloseConn, Shut
    <3>4. CASE ~Drain /\ ~ReadFails /\ ~CloseConn
      BY <1>1, <2>2, <3>1, <3>4 DEF RunStep, OwnRunStep, RunLoop, TryConnect, DialFails,
         RetryWait, ReadMessage, AcquireCancelled, Cancel, Backoff, Ended
    <3> QED
      BY <3>2, <3>3, <3>4
  <2> QED
    BY <2>1, <2>2
<1>2. ASSUME NEW r \in Requests, HandlerStep(r) PROVE SessionInv'
  <2>1. r \in Active
    BY <1>2 DEF HandlerStep, OwnHandlerStep, HandleFails, HandleOk, AppendLog, LockWrite,
       WriteOk, WriteFails, Release, Active, Running
  <2>2. pc \in InSession
    BY <2>1
  <2>3. pc' = pc /\ (link' = link \/ link' = "closed")
    BY <1>2 DEF HandlerStep, OwnHandlerStep, HandleFails, HandleOk, AppendLog, LockWrite,
       WriteOk, WriteFails, Release, Shut
  <2> QED
    BY <2>2, <2>3
<1>3. CASE PingerStep
  <2>1. pc \in InSession
    BY <1>3 DEF PingerStep, Tick, Pong, PingFails, KeepaliveStops
  <2>2. pc' = pc /\ (link' = link \/ link' = "closed")
    BY <1>3 DEF PingerStep, PingerTo, Tick, Pong, PingFails, KeepaliveStops, Shut
  <2> QED
    BY <2>1, <2>2
<1>4. CASE Environment /\ ~CancelProgram
  <2>1. link = "open" /\ pc' = pc
    BY <1>4 DEF Environment, HostSends, HostPushesInfo, HostReads, LoseLink
  <2>2. pc \in InSession /\ pc # "drain"
    BY <2>1
  <2> QED
    BY <2>1, <2>2
<1>5. CASE CancelProgram \/ Finished
  BY <1>5 DEF CancelProgram, Finished, Active
<1> QED
  BY <1>1, <1>2, <1>3, <1>4, <1>5 DEF Next

\* The write lock.
LEMMA WriterStep ==
  ASSUME ClientInv, Next
  PROVE  WriterInv'
<1> USE ClientAssumption DEF ClientInv, WriterInv, vars, runVars, workVars, linkVars
<1>1. CASE Acquire
  <2>1. cmd \in Requests /\ handler[cmd] = "sent" /\ To(cmd, "handle") /\ writeMu' = writeMu
    BY <1>1 DEF Acquire, QueueInv, To
  <2> QED
    BY <2>1, HandlerMoves
<1>2. CASE DialSucceeds
  <2>1. Active = {} /\ handler' = handler /\ writeMu' = Free
    BY <1>2 DEF DialSucceeds, SessionInv, InSession
  <2>2. \A r \in Requests : handler[r] # "write"
    BY <2>1 DEF Active, Running
  <2> QED
    BY <2>1, <2>2
<1>3. CASE RunStep /\ ~Acquire /\ ~DialSucceeds
  BY <1>3 DEF RunStep, OwnRunStep, RunLoop, TryConnect, DialFails, RetryWait, ReadMessage,
     ReadFails, AcquireCancelled, Cancel, CloseConn, Drain, Backoff
<1>4. ASSUME NEW r \in Requests, HandleFails(r) \/ HandleOk(r) \/ AppendLog(r) \/ Release(r)
      PROVE  WriterInv'
  <2>1. handler[r] # "write" /\ writeMu' = writeMu
    BY <1>4 DEF HandleFails, HandleOk, AppendLog, Release
  <2>2. \E state \in {"release", "log", "lock", "done"} : To(r, state)
    BY <1>4 DEF HandleFails, HandleOk, AppendLog, Release
  <2> QED
    BY <2>1, <2>2, HandlerMoves
<1>5. ASSUME NEW r \in Requests, LockWrite(r) PROVE WriterInv'
  BY <1>5, HandlerMoves DEF LockWrite
<1>6. ASSUME NEW r \in Requests, WriteOk(r) \/ WriteFails(r) PROVE WriterInv'
  <2>1. handler[r] = "write" /\ writeMu' = Free /\ To(r, "release")
    BY <1>6 DEF WriteOk, WriteFails
  <2> QED
    BY <2>1, HandlerMoves
<1>7. CASE PingerStep \/ Finished
  BY <1>7 DEF PingerStep, PingerTo, Tick, Pong, PingFails, KeepaliveStops, Finished
<1>8. ASSUME NEW r \in Requests, HostSends(r) PROVE WriterInv'
  <2>1. handler[r] = "none" /\ writeMu' = writeMu /\ To(r, "sent")
    BY <1>8 DEF HostSends
  <2> QED
    BY <2>1, HandlerMoves
<1>9. CASE HostPushesInfo \/ HostReads \/ LoseLink \/ CancelProgram
  BY <1>9 DEF HostPushesInfo, HostReads, LoseLink, CancelProgram
<1> QED
  BY <1>1, <1>2, <1>3, <1>4, <1>5, <1>6, <1>7, <1>8, <1>9
  DEF Next, HandlerStep, OwnHandlerStep, Environment

\* Requests on their way to the read loop or waiting for a slot.
LEMMA QueueStep ==
  ASSUME ClientInv, Next
  PROVE  QueueInv'
<1> USE ClientAssumption DEF vars, runVars, workVars, linkVars
<1>0. /\ QueueInv /\ TypeOK /\ inbox \in Seq(Requests \cup {Info})
      /\ \A i \in DOMAIN inbox : inbox[i] \in Requests \cup {Info}
  BY DEF ClientInv, TypeOK
<1>a. ASSUME inbox' = inbox \/ inbox' = <<>>, pc' = pc, cmd' = cmd,
             \A q \in Requests : handler[q] = "sent" => handler'[q] = "sent"
      PROVE  QueueInv'
  BY <1>0, <1>a DEF QueueInv
<1>1. CASE ReadMessage
  <2>1. /\ inbox # <<>> /\ inbox' = Tail(inbox) /\ handler' = handler /\ pc = "read"
        /\ IF Head(inbox) = Info THEN UNCHANGED <<pc, cmd>>
                                 ELSE pc' = "acquire" /\ cmd' = Head(inbox)
    BY <1>1 DEF ReadMessage
  <2>2. /\ 1 \in DOMAIN inbox /\ Head(inbox) = inbox[1]
        /\ \A i \in DOMAIN inbox' : i \in Nat \ {0} /\ i + 1 \in DOMAIN inbox /\ inbox'[i] = inbox[i + 1]
    BY <1>0, <2>1, TailElements
  <2>3. \A i \in DOMAIN inbox' : inbox'[i] # Head(inbox)
    BY <1>0, <2>2 DEF QueueInv
  <2>4. \A i \in DOMAIN inbox' : inbox'[i] # Info =>
            handler'[inbox'[i]] = "sent" /\ inbox'[i] # cmd'
    BY <1>0, <2>1, <2>2, <2>3 DEF QueueInv
  <2>5. \A i, j \in DOMAIN inbox' : inbox'[i] = inbox'[j] => i = j
    BY <1>0, <2>2 DEF QueueInv
  <2>6. IF pc' = "acquire" THEN cmd' \in Requests /\ handler'[cmd'] = "sent" ELSE cmd' = Free
    BY <1>0, <2>1, <2>2 DEF QueueInv
  <2> QED
    BY <2>4, <2>5, <2>6 DEF QueueInv
<1>2. CASE Acquire
  <2>1. /\ cmd \in Requests /\ To(cmd, "handle") /\ pc' = "read" /\ cmd' = Free
        /\ inbox' = inbox
    BY <1>0, <1>2 DEF Acquire, QueueInv, To
  <2>2. \A q \in Requests \ {cmd} : handler'[q] = handler[q]
    BY <1>0, <2>1, HandlerMoves
  <2> QED
    BY <1>0, <2>1, <2>2 DEF QueueInv
<1>3. CASE DialSucceeds \/ ReadFails \/ CloseConn
  BY <1>0, <1>3 DEF DialSucceeds, ReadFails, CloseConn, Shut, QueueInv
<1>4. CASE AcquireCancelled
  BY <1>0, <1>4 DEF AcquireCancelled, QueueInv
<1>5. CASE RunLoop \/ TryConnect \/ DialFails \/ RetryWait \/ Cancel \/ Drain \/ Backoff
  BY <1>0, <1>5 DEF RunLoop, TryConnect, DialFails, RetryWait, Cancel, Drain, Backoff, QueueInv
<1>6. ASSUME NEW r \in Requests, HandlerStep(r) PROVE QueueInv'
  <2>1. handler[r] # "sent" /\ pc' = pc /\ cmd' = cmd /\ (inbox' = inbox \/ inbox' = <<>>)
    BY <1>6 DEF HandlerStep, OwnHandlerStep, HandleFails, HandleOk, AppendLog, LockWrite,
       WriteOk, WriteFails, Release, Shut
  <2>2. \E state \in Running \cup {"done"} : To(r, state)
    BY <1>6 DEF HandlerStep, OwnHandlerStep, HandleFails, HandleOk, AppendLog, LockWrite,
       WriteOk, WriteFails, Release, Running
  <2> QED
    BY <1>0, <1>a, <2>1, <2>2, HandlerMoves
<1>7. CASE PingerStep
  BY <1>7, <1>a DEF PingerStep, PingerTo, Tick, Pong, PingFails, KeepaliveStops, Shut
<1>8. ASSUME NEW r \in Requests, HostSends(r) PROVE QueueInv'
  <2>1. /\ handler[r] = "none" /\ To(r, "sent") /\ pc' = pc /\ cmd' = cmd
        /\ inbox' = Append(inbox, r)
    BY <1>8 DEF HostSends
  <2>2. handler'[r] = "sent" /\ \A q \in Requests \ {r} : handler'[q] = handler[q]
    BY <1>0, <2>1, HandlerMoves
  <2>3. \A i \in DOMAIN inbox' : \/ i \in DOMAIN inbox /\ inbox'[i] = inbox[i]
                                 \/ i = Len(inbox) + 1 /\ inbox'[i] = r
    BY <1>0, <2>1, AppendElements
  <2>4. r # cmd /\ \A i \in DOMAIN inbox : inbox[i] # r
    BY <1>0, <2>1 DEF QueueInv
  <2>5. \A i \in DOMAIN inbox' : inbox'[i] # Info =>
            handler'[inbox'[i]] = "sent" /\ inbox'[i] # cmd'
    BY <1>0, <2>1, <2>2, <2>3, <2>4 DEF QueueInv
  <2>6. \A i, j \in DOMAIN inbox' : inbox'[i] = inbox'[j] => i = j
    BY <1>0, <2>3, <2>4 DEF QueueInv
  <2>7. IF pc' = "acquire" THEN cmd' \in Requests /\ handler'[cmd'] = "sent" ELSE cmd' = Free
    BY <1>0, <2>1, <2>2, <2>4 DEF QueueInv
  <2> QED
    BY <2>5, <2>6, <2>7 DEF QueueInv
<1>9. CASE HostPushesInfo
  <2>1. /\ handler' = handler /\ pc' = pc /\ cmd' = cmd /\ inbox' = Append(inbox, Info)
        /\ \A i \in DOMAIN inbox : inbox[i] # Info
    BY <1>9 DEF HostPushesInfo
  <2>2. \A i \in DOMAIN inbox' : \/ i \in DOMAIN inbox /\ inbox'[i] = inbox[i]
                                 \/ i = Len(inbox) + 1 /\ inbox'[i] = Info
    BY <1>0, <2>1, AppendElements
  <2> QED
    BY <1>0, <2>1, <2>2 DEF QueueInv
<1>10. CASE HostReads \/ LoseLink \/ CancelProgram \/ Finished
  BY <1>10, <1>a DEF HostReads, LoseLink, CancelProgram, Finished
<1> QED
  BY <1>1, <1>2, <1>3, <1>4, <1>5, <1>6, <1>7, <1>8, <1>9, <1>10
  DEF Next, RunStep, OwnRunStep, Environment

\* What the inspector's log holds.
LEMMA LogStep ==
  ASSUME ClientInv, Next
  PROVE  LogInv'
<1> USE ClientAssumption DEF vars, runVars, workVars, linkVars
<1> DEFINE Past == {"lock", "write", "release", "done"}
           Writing == {"lock", "write"}
<1>0. /\ LogInv /\ TypeOK /\ QueueInv
      /\ logs \in Seq(Requests) /\ \A i \in DOMAIN logs : logs[i] \in Requests
      /\ outbox \in Seq(Requests)
  BY DEF ClientInv, TypeOK
\* A step that adds no pair and no answer, and takes no handler back.
<1>a. ASSUME logs' = logs,
             \A i \in DOMAIN outbox' : \E k \in DOMAIN outbox : outbox'[i] = outbox[k],
             \A q \in Requests : handler[q] \in Past => handler'[q] \in Past,
             \A q \in Requests : handler'[q] \in Writing => handler[q] \in Writing
      PROVE  LogInv'
  BY <1>0, <1>a DEF LogInv, AnswersAreLogged
<1>b. ASSUME logs' = logs, outbox' = outbox \/ outbox' = <<>>, handler' = handler
      PROVE  LogInv'
  BY <1>a, <1>b
<1>1. CASE Acquire
  <2>1. /\ cmd \in Requests /\ handler[cmd] = "sent" /\ To(cmd, "handle")
        /\ logs' = logs /\ outbox' = outbox
    BY <1>0, <1>1 DEF Acquire, QueueInv, To
  <2> QED
    BY <1>0, <1>a, <2>1, HandlerMoves
<1>2. CASE RunStep /\ ~Acquire
  BY <1>2, <1>b DEF RunStep, OwnRunStep, RunLoop, TryConnect, DialSucceeds, DialFails,
     RetryWait, ReadMessage, ReadFails, AcquireCancelled, Cancel, CloseConn, Drain, Backoff, Shut
<1>3. ASSUME NEW r \in Requests,
             HandleFails(r) \/ HandleOk(r) \/ LockWrite(r) \/ WriteFails(r) \/ Release(r)
      PROVE  LogInv'
  <2>1. logs' = logs /\ (outbox' = outbox \/ outbox' = <<>>)
    BY <1>3 DEF HandleFails, HandleOk, LockWrite, WriteFails, Release, Shut
  <2>2. \/ handler[r] = "handle" /\ (To(r, "release") \/ To(r, "log"))
        \/ handler[r] = "lock" /\ To(r, "write")
        \/ handler[r] = "write" /\ To(r, "release")
        \/ handler[r] = "release" /\ To(r, "done")
    BY <1>3 DEF HandleFails, HandleOk, LockWrite, WriteFails, Release
  <2> QED
    BY <1>0, <1>a, <2>1, <2>2, HandlerMoves
<1>4. ASSUME NEW r \in Requests, AppendLog(r) PROVE LogInv'
  <2>1. /\ handler[r] = "log" /\ To(r, "lock") /\ logs' = Append(logs, r) /\ outbox' = outbox
    BY <1>4 DEF AppendLog
  <2>2. handler'[r] = "lock" /\ \A q \in Requests \ {r} : handler'[q] = handler[q]
    BY <1>0, <2>1, HandlerMoves
  <2>3. \A i \in DOMAIN logs : logs[i] # r
    BY <1>0, <2>1 DEF LogInv
  <2>4. /\ \A i \in DOMAIN logs' : \/ i \in DOMAIN logs /\ logs'[i] = logs[i]
                                   \/ i = Len(logs) + 1 /\ logs'[i] = r
        /\ \A i \in DOMAIN logs : i \in DOMAIN logs' /\ logs'[i] = logs[i]
        /\ \E j \in DOMAIN logs' : logs'[j] = r
    BY <1>0, <2>1, AppendElements
  <2>5. AnswersAreLogged'
    <3>1. \A i \in DOMAIN outbox' : \E j \in DOMAIN logs' : logs'[j] = outbox'[i]
      BY <1>0, <2>1, <2>4 DEF LogInv, AnswersAreLogged
    <3>2. \A i, j \in DOMAIN logs' : logs'[i] = logs'[j] => i = j
      BY <1>0, <2>3, <2>4 DEF LogInv, AnswersAreLogged
    <3> QED
      BY <3>1, <3>2 DEF AnswersAreLogged
  <2>6. \A i \in DOMAIN logs' : handler'[logs'[i]] \in Past
    BY <1>0, <2>2, <2>3, <2>4 DEF LogInv
  <2>7. \A q \in Requests : handler'[q] \in Writing => \E j \in DOMAIN logs' : logs'[j] = q
    BY <1>0, <2>2, <2>4 DEF LogInv
  <2> QED
    BY <2>5, <2>6, <2>7 DEF LogInv
<1>5. ASSUME NEW r \in Requests, WriteOk(r) PROVE LogInv'
  <2>1. handler[r] = "write" /\ To(r, "release") /\ logs' = logs
    BY <1>5 DEF WriteOk
  <2>2. outbox' = outbox \/ outbox' = Append(outbox, r)
    BY <1>5 DEF WriteOk
  <2>3. \A i \in DOMAIN outbox' : (\E k \in DOMAIN outbox : outbox'[i] = outbox[k]) \/ outbox'[i] = r
    BY <1>0, <2>2, AppendElements
  <2>4. \E j \in DOMAIN logs : logs[j] = r
    BY <1>0, <2>1 DEF LogInv
  <2>5. AnswersAreLogged'
    BY <1>0, <2>1, <2>3, <2>4 DEF LogInv, AnswersAreLogged
  <2> QED
    BY <1>0, <2>1, <2>5, HandlerMoves DEF LogInv
<1>6. ASSUME NEW r \in Requests, HostSends(r) PROVE LogInv'
  <2>1. handler[r] = "none" /\ To(r, "sent") /\ logs' = logs /\ outbox' = outbox
    BY <1>6 DEF HostSends
  <2> QED
    BY <1>0, <1>a, <2>1, HandlerMoves
<1>7. CASE HostReads
  <2>1. /\ outbox # <<>> /\ outbox' = Tail(outbox) /\ logs' = logs /\ handler' = handler
    BY <1>7 DEF HostReads
  <2>2. \A i \in DOMAIN outbox' : \E k \in DOMAIN outbox : outbox'[i] = outbox[k]
    BY <1>0, <2>1, TailElements
  <2> QED
    BY <1>a, <2>1, <2>2
<1>8. CASE PingerStep
  BY <1>8, <1>b DEF PingerStep, PingerTo, Tick, Pong, PingFails, KeepaliveStops, Shut
<1>9. CASE HostPushesInfo \/ LoseLink \/ CancelProgram \/ Finished
  BY <1>9, <1>b DEF HostPushesInfo, LoseLink, CancelProgram, Finished
<1> QED
  BY <1>1, <1>2, <1>3, <1>4, <1>5, <1>6, <1>7, <1>8, <1>9
  DEF Next, HandlerStep, OwnHandlerStep, Environment

-----------------------------------------------------------------------------
(* Theorems.                                                                *)

\* The invariant that all the others follow from.
LEMMA ClientInvariant == Spec => []ClientInv
<1>1. Init => ClientInv
  <2> SUFFICES ASSUME Init PROVE ClientInv
    OBVIOUS
  <2> USE ClientAssumption DEF Init
  <2>1. Active = {}
    BY DEF Active, Running
  <2>2. TypeOK
    <3>1. <<>> \in Seq(Requests) /\ <<>> \in Seq(Requests \cup {Info})
      OBVIOUS
    <3>2. /\ slots \in 0..maxConcurrentRequests /\ attempt \in 0..(maxRetries + 1)
          /\ session \in 0..MaxSessions /\ info \in 0..MaxSessions
      OBVIOUS
    <3> QED
      BY <3>1, <3>2 DEF TypeOK, RunStates
  <2>3. AttemptInv /\ SessionInv /\ SlotInv
    BY <2>1, FS_EmptySet DEF AttemptInv, SessionInv, SlotInv
  <2>4. WriterInv /\ QueueInv /\ LogInv
    BY DEF WriterInv, QueueInv, LogInv, AnswersAreLogged
  <2> QED
    BY <2>2, <2>3, <2>4 DEF ClientInv
<1>2. ClientInv /\ [Next]_vars => ClientInv'
  <2>1. ASSUME ClientInv, Next PROVE ClientInv'
    BY <2>1, TypeStep, AttemptStep, SessionStep, SlotStep, WriterStep, QueueStep, LogStep
    DEF ClientInv
  <2>2. ASSUME ClientInv, UNCHANGED vars PROVE ClientInv'
    BY <2>2 DEF ClientInv, TypeOK, AttemptInv, SessionInv, SlotInv, WriterInv, QueueInv,
       LogInv, AnswersAreLogged, Active, vars, runVars, workVars, linkVars
  <2> QED
    BY <2>1, <2>2
<1> QED
  BY <1>1, <1>2, PTL DEF Spec

\* serve's counters stay within the semaphore and connect's within its retries.
THEOREM ClientTypeCorrect == Spec => []TypeOK
  BY ClientInvariant, PTL DEF ClientInv

\* However serve ends, its handlers, pinger, slots, write lock and connection end
\* with it.
THEOREM SessionsAreClean == Spec => []NoWorkOutlivesSession
<1>1. ClientInv => NoWorkOutlivesSession
  <2> SUFFICES ASSUME ClientInv, pc \notin InSession PROVE NoWorkOutlivesSession
    BY DEF NoWorkOutlivesSession
  <2>1. Active = {} /\ pinger = "off" /\ link \in {"none", "closed"}
    BY DEF ClientInv, SessionInv
  <2>2. slots = 0
    BY <2>1, FS_EmptySet DEF ClientInv, SlotInv
  <2>3. \A r \in Requests : handler[r] # "write"
    BY <2>1 DEF Active, Running
  <2>4. writeMu = Free
    BY <2>3 DEF ClientInv, WriterInv, TypeOK
  <2> QED
    BY <2>1, <2>2, <2>4 DEF NoWorkOutlivesSession
<1> QED
  BY <1>1, ClientInvariant, PTL

\* No path through handleRequest leaks a slot.
THEOREM SlotsAreExact == Spec => []SlotsMatchHandlers
<1>1. ClientInv => SlotsMatchHandlers
  BY DEF ClientInv, SlotInv, SlotsMatchHandlers
<1> QED
  BY <1>1, ClientInvariant, PTL

\* The inspector has every answer before the host does, once.
THEOREM LogIsComplete == Spec => []AnswersAreLogged
<1>1. ClientInv => AnswersAreLogged
  BY DEF ClientInv, LogInv
<1> QED
  BY <1>1, ClientInvariant, PTL

-----------------------------------------------------------------------------
(* The client implements the abstract forwarding of requests.               *)

\* The steps that put nothing into a pipe and start no handler.
Ending ==
    /\ Range(outbox') \subseteq Range(outbox)
    /\ \A r \in Requests :
          /\ r \in Range(inbox') \/ cmd' = r => r \in Range(inbox) \/ cmd = r
          /\ \/ handler'[r] = handler[r]
             \/ handler[r] \in Running /\ handler'[r] \in {"release", "done"}
             \/ /\ {handler[r], handler'[r]} \subseteq Running \ {"release"}

LEMMA EndingSteps ==
    ASSUME ClientInv, Next
    PROVE  \/ Ending
           \/ Acquire
           \/ \E r \in Requests : WriteOk(r) \/ HostSends(r)
<1> USE DEF vars, runVars, workVars, linkVars, Running
<1>0. /\ inbox \in Seq(Requests \cup {Info}) /\ outbox \in Seq(Requests)
      /\ handler \in [Requests -> Running \cup {"none", "sent", "done"}]
      /\ Info \notin Requests /\ Free \notin Requests
  BY ClientAssumption DEF ClientInv, TypeOK
<1>a. ASSUME UNCHANGED <<inbox, outbox, handler>>, cmd' = cmd \/ cmd' = Free PROVE Ending
  BY <1>0, <1>a DEF Ending
<1>b. ASSUME inbox' = inbox \/ inbox' = <<>>, outbox' = outbox \/ outbox' = <<>>,
             UNCHANGED <<handler, cmd>>
      PROVE  Ending
  BY <1>b, EmptyPipe DEF Ending
<1>1. CASE RunLoop \/ TryConnect \/ DialFails \/ RetryWait \/ AcquireCancelled \/ Cancel
           \/ Drain \/ Backoff \/ CancelProgram \/ Finished
  BY <1>1, <1>a DEF RunLoop, TryConnect, DialFails, RetryWait, AcquireCancelled, Cancel,
     Drain, Backoff, CancelProgram, Finished
<1>2. CASE DialSucceeds \/ ReadFails \/ CloseConn \/ LoseLink
  BY <1>2, <1>b DEF DialSucceeds, ReadFails, CloseConn, LoseLink, Shut
<1>3. CASE PingerStep
  BY <1>3, <1>b DEF PingerStep, PingerTo, Tick, Pong, PingFails, KeepaliveStops, Shut
<1>4. CASE ReadMessage
  <2>1. /\ inbox # <<>> /\ inbox' = Tail(inbox) /\ UNCHANGED <<outbox, handler>>
        /\ cmd' = cmd \/ cmd' = Head(inbox)
    BY <1>4 DEF ReadMessage
  <2>2. Range(inbox) = Range(inbox') \cup {Head(inbox)}
    BY ONLY <1>0, <2>1, RangeRead
  <2> QED
    BY <2>1, <2>2 DEF Ending
<1>5. CASE HostPushesInfo
  <2>1. inbox' = Append(inbox, Info) /\ UNCHANGED <<outbox, handler, cmd>>
    BY <1>5 DEF HostPushesInfo
  <2>2. Range(inbox') = Range(inbox) \cup {Info}
    BY ONLY <1>0, <2>1, RangeAppended
  <2> QED
    BY <1>0, <2>1, <2>2 DEF Ending
<1>6. CASE HostReads
  <2>1. outbox # <<>> /\ outbox' = Tail(outbox) /\ UNCHANGED <<inbox, handler, cmd>>
    BY <1>6 DEF HostReads
  <2>2. Range(outbox) = Range(outbox') \cup {Head(outbox)}
    BY ONLY <1>0, <2>1, RangeRead
  <2> QED
    BY <2>1, <2>2 DEF Ending
<1>7. ASSUME NEW r \in Requests,
             HandleFails(r) \/ HandleOk(r) \/ AppendLog(r) \/ LockWrite(r)
             \/ WriteFails(r) \/ Release(r)
      PROVE  Ending
  <2>1. /\ inbox' = inbox \/ inbox' = <<>>
        /\ outbox' = outbox \/ outbox' = <<>>
        /\ cmd' = cmd
    BY <1>7 DEF HandleFails, HandleOk, AppendLog, LockWrite, WriteFails, Release, Shut
  <2>2. \A q \in Requests :
           \/ handler'[q] = handler[q]
           \/ handler[q] \in Running /\ handler'[q] \in {"release", "done"}
           \/ {handler[q], handler'[q]} \subseteq Running \ {"release"}
    BY <1>0, <1>7 DEF HandleFails, HandleOk, AppendLog, LockWrite, WriteFails, Release, To
  <2> QED
    BY <2>1, <2>2, EmptyPipe DEF Ending
<1> QED
  BY <1>1, <1>2, <1>3, <1>4, <1>5, <1>6, <1>7
  DEF Next, RunStep, OwnRunStep, HandlerStep, OwnHandlerStep, Environment

\* The three steps that move a request on.
LEMMA AcquireMoves ==
    ASSUME ClientInv, Acquire
    PROVE  /\ cmd \in Requests /\ handler[cmd] = "sent" /\ cmd' = Free
           /\ UNCHANGED <<inbox, outbox>>
           /\ handler'[cmd] = "handle"
           /\ \A q \in Requests : q # cmd => handler'[q] = handler[q]
  BY DEF ClientInv, QueueInv, TypeOK, Acquire, linkVars

LEMMA WriteOkMoves ==
    ASSUME ClientInv, NEW r \in Requests, WriteOk(r)
    PROVE  /\ handler[r] = "write" /\ handler'[r] = "release"
           /\ UNCHANGED <<inbox, cmd>>
           /\ Range(outbox') = Range(outbox) \cup {r} \/ UNCHANGED outbox
           /\ \A q \in Requests : q # r => handler'[q] = handler[q]
<1>1. /\ handler[r] = "write" /\ handler'[r] = "release" /\ UNCHANGED <<inbox, cmd>>
      /\ \A q \in Requests : q # r => handler'[q] = handler[q]
      /\ outbox \in Seq(Requests)
      /\ outbox' = Append(outbox, r) \/ UNCHANGED outbox
  BY DEF ClientInv, TypeOK, WriteOk, To, runVars
<1>2. Range(Append(outbox, r)) = Range(outbox) \cup {r}
  BY ONLY <1>1, RangeAppended
<1> QED
  BY <1>1, <1>2

LEMMA HostSendsMoves ==
    ASSUME ClientInv, NEW r \in Requests, HostSends(r)
    PROVE  /\ handler[r] = "none" /\ handler'[r] = "sent"
           /\ UNCHANGED <<outbox, cmd>>
           /\ Range(inbox') = Range(inbox) \cup {r}
           /\ \A q \in Requests : q # r => handler'[q] = handler[q]
<1>1. /\ handler[r] = "none" /\ handler'[r] = "sent" /\ UNCHANGED <<outbox, cmd>>
      /\ \A q \in Requests : q # r => handler'[q] = handler[q]
      /\ inbox \in Seq(Requests \cup {Info}) /\ r \in Requests \cup {Info}
      /\ inbox' = Append(inbox, r)
  BY DEF ClientInv, TypeOK, HostSends, To, runVars
<1>2. Range(inbox') = Range(inbox) \cup {r}
  BY ONLY <1>1, RangeAppended
<1> QED
  BY <1>1, <1>2

LEMMA OutboxStep ==
    ASSUME ClientInv, OutboxInv, [Next]_vars
    PROVE  OutboxInv'
<1>0. Range(outbox) \subseteq Requests
  BY RangeOfSeq DEF ClientInv, TypeOK
<1>1. CASE Ending
  BY <1>0, <1>1 DEF OutboxInv, Ending, Running
<1>2. CASE Acquire
  BY <1>0, <1>2, AcquireMoves DEF OutboxInv
<1>3. ASSUME NEW r \in Requests, WriteOk(r) PROVE OutboxInv'
  BY <1>0, <1>3, WriteOkMoves DEF OutboxInv
<1>4. ASSUME NEW r \in Requests, HostSends(r) PROVE OutboxInv'
  BY <1>0, <1>4, HostSendsMoves DEF OutboxInv
<1>5. CASE UNCHANGED vars
  BY <1>5 DEF OutboxInv, vars, workVars, linkVars
<1> QED
  BY <1>1, <1>2, <1>3, <1>4, <1>5, EndingSteps

Stage == [r \in Requests |-> StageOf(r)]

\* One request moves and the others stay.
LEMMA OneMoves ==
    ASSUME NEW r \in Requests, NEW from, NEW to,
           StageOf(r) = from, StageOf(r)' = to,
           \A q \in Requests : q # r => StageOf(q)' = StageOf(q)
    PROVE  Contract!Move(r, from, to)
<1>1. Stage[r] = from /\ Stage' = [Stage EXCEPT ![r] = to]
  BY DEF Stage
<1> QED
  BY <1>1 DEF Stage, Contract!Move

\* Some end and the others stay; the visitor's end is not seen from here.
LEMMA SomeEnd ==
    ASSUME \A r \in Requests : StageOf(r)' = StageOf(r) \/ StageOf(r)' = "ended"
    PROVE  Contract!End
<1>1. Stage' \in [Requests -> Contract!Stages]
  BY DEF Stage, StageOf, Contract!Stages
<1>2. \A r \in Requests : Stage'[r] # Stage[r] => Stage[r] # "received" /\ Stage'[r] = "ended"
  BY DEF Stage, StageOf
<1> QED
  BY <1>1, <1>2 DEF Stage, Contract!End

LEMMA ForwardingStep ==
    ASSUME ClientInv, OutboxInv, [Next]_vars
    PROVE  [Contract!Next]_Stage
<1>0. /\ \A r \in Requests : r \in Range(outbox) => handler[r] \in {"release", "done"}
      /\ Free \notin Requests
      /\ \A r \in Requests : handler[r] \in Running \cup {"none", "sent", "done"}
  BY ClientAssumption DEF OutboxInv, ClientInv, TypeOK
<1>1. CASE Ending
  <2>1. ASSUME NEW r \in Requests
        PROVE  StageOf(r)' = StageOf(r) \/ StageOf(r)' = "ended"
    BY <1>0, <1>1 DEF Ending, StageOf, Running
  <2> QED
    BY <2>1, SomeEnd DEF Contract!Next
<1>2. ASSUME NEW r \in Requests, cmd = r, Acquire PROVE Contract!Next
  <2>1. StageOf(r) = "sent" /\ StageOf(r)' = "serving"
    BY <1>0, <1>2, AcquireMoves DEF StageOf, Running
  <2>2. \A q \in Requests : q # r => StageOf(q)' = StageOf(q)
    BY <1>0, <1>2, AcquireMoves DEF StageOf
  <2>3. Contract!Serve(r)
    BY <2>1, <2>2, OneMoves DEF Contract!Serve
  <2> QED
    BY <2>3 DEF Contract!Next
<1>3. ASSUME NEW r \in Requests, WriteOk(r) PROVE Contract!Next
  <2>1. StageOf(r) = "serving" /\ (UNCHANGED outbox \/ StageOf(r)' = "answered")
    BY <1>0, <1>3, WriteOkMoves DEF StageOf, Running
  <2>2. UNCHANGED outbox => StageOf(r)' = "ended"
    BY <1>0, <1>3, WriteOkMoves DEF StageOf, Running
  <2>3. \A q \in Requests : q # r => StageOf(q)' = StageOf(q)
    BY <1>3, WriteOkMoves DEF StageOf
  <2>4. CASE UNCHANGED outbox
    BY <2>2, <2>3, <2>4, SomeEnd DEF Contract!Next
  <2>5. CASE StageOf(r)' = "answered"
    BY <2>1, <2>3, <2>5, OneMoves DEF Contract!Next, Contract!Answer
  <2> QED
    BY <2>1, <2>4, <2>5
<1>4. ASSUME NEW r \in Requests, HostSends(r) PROVE Contract!Next
  <2>1. StageOf(r) = "unsent" /\ StageOf(r)' = "sent"
    BY <1>0, <1>4, HostSendsMoves DEF StageOf, Running
  <2>2. \A q \in Requests : q # r => StageOf(q)' = StageOf(q)
    BY <1>4, HostSendsMoves DEF StageOf
  <2> QED
    BY <2>1, <2>2, OneMoves DEF Contract!Next, Contract!Send
<1>5. CASE UNCHANGED vars
  BY <1>5 DEF Stage, StageOf, Range, vars, runVars, workVars, linkVars
<1> QED
  BY <1>1, <1>2, <1>3, <1>4, <1>5, EndingSteps, AcquireMoves

\* Over all sessions, every request that reaches the client goes through one handler
\* at most, and every answer on its way is one that handler wrote, once.
THEOREM ClientForwards == Spec => ImplementsForwarding
<1>1. Init => OutboxInv /\ Contract!Init
  <2>1. ASSUME Init PROVE OutboxInv /\ \A r \in Requests : StageOf(r) = "unsent"
    BY <2>1, EmptyPipe DEF Init, OutboxInv, StageOf, Running
  <2> QED
    BY <2>1 DEF Contract!Init
<1>2. ClientInv /\ OutboxInv /\ [Next]_vars => OutboxInv'
  BY OutboxStep
<1>3. ClientInv /\ OutboxInv /\ [Next]_vars => [Contract!Next]_Stage
  BY ForwardingStep
<1> QED
  BY <1>1, <1>2, <1>3, ClientInvariant, PTL DEF Spec, ImplementsForwarding, Contract!Spec, Stage
=============================================================================
