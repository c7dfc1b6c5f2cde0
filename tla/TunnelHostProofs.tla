--------------------------- MODULE TunnelHostProofs ---------------------------
(***************************************************************************)
(* Theorems about TunnelHost, for every set of connections, requests and    *)
(* names, every pool and every capacity.                                    *)
(***************************************************************************)
EXTENDS TunnelHost, PipeLemmas, FiniteSetTheorems

-----------------------------------------------------------------------------
(* Helpers.                                                                 *)

\* A key is the lower-cased form of a spelling.
LEMMA KeyOf == \A l \in Labels : lower[l] \in Keys
  BY DEF Keys

\* assignSubdomain returns a spelling whose key has no entry.
LEMMA ChoiceIsFree ==
  ASSUME NEW want \in Labels \cup {Absent}, NEW l \in Choice(want)
  PROVE  l \in Labels /\ clients[lower[l]] = Absent
<1>1. ASSUME NEW i \in DOMAIN Pool PROVE Pool[i] \in Labels
  BY <1>1, LabelsAssumption
<1>2. CASE Pool # <<>>
  BY <1>1, <1>2 DEF Choice, PoolChoice, WantedInPool, First, FreeInPool, Live
<1>3. CASE Pool = <<>>
  BY <1>3, LabelsAssumption, SentinelAssumption
  DEF Choice, DynamicChoice, FreeWords, Live
<1> QED
  BY <1>2, <1>3

\* Closing a connection leaves well-typed, empty pipes.
LEMMA ShutType ==
  ASSUME LinkTypeOK, NEW c \in Conns, Shut(c)
  PROVE  LinkTypeOK'
  BY CapsAssumption DEF LinkTypeOK, Shut

\* A successful Write keeps the pipes within their capacity.
LEMMA SentType ==
  ASSUME LinkTypeOK, NEW c \in Conns, NEW m \in Requests \cup {Info}, Sent(c, m)
  PROVE  LinkTypeOK'
<1>1. CASE conn[c] = "open"
  <2>1. toClient' = [toClient EXCEPT ![c] = Append(@, m)] /\ UNCHANGED <<conn, toHost, atPeer>>
    BY <1>1 DEF Sent
  <2>2. /\ Append(toClient[c], m) \in Seq(Requests \cup {Info})
        /\ Len(Append(toClient[c], m)) <= SocketCap
    BY <1>1, CapsAssumption DEF LinkTypeOK, Sent
  <2> QED
    BY <2>1, <2>2 DEF LinkTypeOK
<1>2. CASE conn[c] # "open"
  BY <1>2 DEF LinkTypeOK, Sent
<1> QED
  BY <1>1, <1>2

\* The ring buffer stays within its capacity.
LEMMA NewestType ==
  ASSUME NEW buf \in Seq(Requests), Len(buf) <= recentRequestCap, NEW r \in Requests
  PROVE  /\ Newest(Append(buf, r)) \in Seq(Requests)
         /\ Len(Newest(Append(buf, r))) <= recentRequestCap
<1> DEFINE more == Append(buf, r)
<1>1. more \in Seq(Requests) /\ Len(more) = Len(buf) + 1 /\ more # <<>>
  OBVIOUS
<1>2. Tail(more) \in Seq(Requests) /\ Len(Tail(more)) = Len(buf)
  BY <1>1
<1> HIDE DEF more
<1> QED
  BY <1>1, <1>2, CapsAssumption DEF Newest, more

-----------------------------------------------------------------------------
(* Type correctness.                                                        *)

LEMMA TypeStep == TypeOK /\ [Next]_vars => TypeOK'
<1> SUFFICES ASSUME TypeOK, [Next]_vars PROVE TypeOK'
  OBVIOUS
<1> USE DEF TypeOK, regVars, convVars, countVars, linkVars
<1>1. ASSUME NEW c \in Conns, Authenticate(c) PROVE TypeOK'
  <2>1. RegTypeOK'
    BY <1>1 DEF Authenticate, RegTypeOK, Go, HandlerStates, Holding, Claiming, Published, Refused
  <2>2. ConvTypeOK' /\ CountTypeOK' /\ LinkTypeOK' /\ PumpTypeOK'
    BY <1>1 DEF Authenticate, ConvTypeOK, CountTypeOK, LinkTypeOK, PumpTypeOK
  <2> QED
    BY <2>1, <2>2
<1>2. ASSUME NEW c \in Conns, Assign(c) PROVE TypeOK'
  <2>1. RegTypeOK'
    <3>1. PICK l \in Choice(requested[c]) :
              /\ clients' = [clients EXCEPT ![lower[l]] = Nil]
              /\ name' = [name EXCEPT ![c] = l]
      BY <1>2 DEF Assign
    <3>2. l \in Labels
      BY ChoiceIsFree DEF RegTypeOK
    <3>3. UNCHANGED <<requested, event>> /\ Go(c, "accept")
      BY <1>2 DEF Assign
    <3> QED
      BY <3>1, <3>2, <3>3 DEF RegTypeOK, Go, HandlerStates, Holding, Claiming
  <2>2. ConvTypeOK' /\ CountTypeOK' /\ LinkTypeOK' /\ PumpTypeOK'
    BY <1>2 DEF Assign, ConvTypeOK, CountTypeOK, LinkTypeOK, PumpTypeOK
  <2> QED
    BY <2>1, <2>2
<1>3. ASSUME NEW c \in Conns, Refuse(c) PROVE TypeOK'
  <2>1. RegTypeOK'
    BY <1>3 DEF Refuse, RegTypeOK, Go, HandlerStates, Holding, Claiming, Published, Refused
  <2>2. ConvTypeOK' /\ CountTypeOK' /\ LinkTypeOK' /\ PumpTypeOK'
    BY <1>3 DEF Refuse, ConvTypeOK, CountTypeOK, LinkTypeOK, PumpTypeOK
  <2> QED
    BY <2>1, <2>2
<1>4. ASSUME NEW c \in Conns, Accept(c) PROVE TypeOK'
  <2>1. RegTypeOK'
    BY <1>4 DEF Accept, RegTypeOK, Go, HandlerStates, Holding, Claiming, Published, Refused
  <2>2. LinkTypeOK'
    BY <1>4 DEF Accept, LinkTypeOK, Go
  <2>3. ConvTypeOK' /\ CountTypeOK' /\ PumpTypeOK'
    BY <1>4 DEF Accept, ConvTypeOK, CountTypeOK, PumpTypeOK
  <2> QED
    BY <2>1, <2>2, <2>3
<1>5. ASSUME NEW c \in Conns, ReleaseName(c) PROVE TypeOK'
  <2>1. RegTypeOK'
    BY <1>5 DEF ReleaseName, RegTypeOK, Go, WithoutPlaceholder, HandlerStates, Holding, Claiming, Published, Refused
  <2>2. ConvTypeOK' /\ CountTypeOK' /\ LinkTypeOK' /\ PumpTypeOK'
    BY <1>5 DEF ReleaseName, ConvTypeOK, CountTypeOK, LinkTypeOK, PumpTypeOK
  <2> QED
    BY <2>1, <2>2
<1>6. ASSUME NEW c \in Conns, Register(c) PROVE TypeOK'
  <2>1. RegTypeOK'
    BY <1>6 DEF Register, RegTypeOK, Go, HandlerStates, Holding, Claiming, Published, Refused
  <2>2. ConvTypeOK' /\ CountTypeOK' /\ LinkTypeOK' /\ PumpTypeOK'
    BY <1>6 DEF Register, ConvTypeOK, CountTypeOK, LinkTypeOK, PumpTypeOK
  <2> QED
    BY <2>1, <2>2
<1>7. ASSUME NEW c \in Conns, OpenTunnelEvent(c) PROVE TypeOK'
  <2>1. RegTypeOK'
    BY <1>7 DEF OpenTunnelEvent, RegTypeOK, Go, HandlerStates, Holding, Claiming, Published, Refused
  <2>2. ConvTypeOK' /\ CountTypeOK' /\ LinkTypeOK' /\ PumpTypeOK'
    BY <1>7 DEF OpenTunnelEvent, ConvTypeOK, CountTypeOK, LinkTypeOK, PumpTypeOK
  <2> QED
    BY <2>1, <2>2
<1>8. ASSUME NEW c \in Conns, LockInfo(c) PROVE TypeOK'
  <2>1. RegTypeOK'
    BY <1>8 DEF LockInfo, RegTypeOK, Go, HandlerStates, Holding, Claiming, Published, Refused
  <2>2. PumpTypeOK'
    BY <1>8 DEF LockInfo, PumpTypeOK, Go
  <2>3. ConvTypeOK' /\ CountTypeOK' /\ LinkTypeOK'
    BY <1>8 DEF LockInfo, ConvTypeOK, CountTypeOK, LinkTypeOK
  <2> QED
    BY <2>1, <2>2, <2>3
<1>9. ASSUME NEW c \in Conns, WriteInfo(c) PROVE TypeOK'
  <2>1. RegTypeOK'
    BY <1>9 DEF WriteInfo, RegTypeOK, Go, HandlerStates, Holding, Claiming, Published, Refused
  <2>2. PumpTypeOK'
    BY <1>9 DEF WriteInfo, PumpTypeOK, Go
  <2>3. LinkTypeOK'
    <3>1. Sent(c, Info) \/ Shut(c)
      BY <1>9 DEF WriteInfo, WriteBroken
    <3> QED
      BY <3>1, SentType, ShutType
  <2>4. ConvTypeOK' /\ CountTypeOK'
    BY <1>9 DEF WriteInfo, ConvTypeOK, CountTypeOK
  <2> QED
    BY <2>1, <2>2, <2>3, <2>4
<1>10. ASSUME NEW c \in Conns, PumpRead(c) PROVE TypeOK'
  <2>1. RegTypeOK'
    BY <1>10 DEF PumpRead, RegTypeOK, Go, HandlerStates, Holding, Claiming, Published, Refused
  <2>2. ConvTypeOK'
    BY <1>10 DEF PumpRead, ConvTypeOK, Go, RequestStates, RequestDone
  <2>3. PumpTypeOK'
    BY <1>10 DEF PumpRead, PumpTypeOK, ConvTypeOK
  <2>4. LinkTypeOK'
    <3>1. /\ toHost' = [toHost EXCEPT ![c] = Tail(@)]
          /\ conn' = conn /\ toClient' = toClient /\ atPeer' = atPeer
          /\ toHost[c] # <<>>
      BY <1>10 DEF PumpRead
    <3>2. /\ Tail(toHost[c]) \in Seq(Requests \cup {Noise})
          /\ Len(Tail(toHost[c])) <= SocketCap
      BY <3>1, CapsAssumption DEF LinkTypeOK
    <3> QED
      BY <3>1, <3>2 DEF LinkTypeOK
  <2>5. CountTypeOK'
    BY <1>10 DEF PumpRead, CountTypeOK
  <2> QED
    BY <2>1, <2>2, <2>3, <2>4, <2>5
<1>11. ASSUME NEW c \in Conns, PumpDeliver(c) PROVE TypeOK'
  <2>1. RegTypeOK'
    BY <1>11 DEF PumpDeliver, RegTypeOK, Go, HandlerStates, Holding, Claiming, Published, Refused
  <2>2. ConvTypeOK'
    BY <1>11 DEF PumpDeliver, ConvTypeOK, Go, RequestStates, RequestDone
  <2>3. PumpTypeOK'
    BY <1>11 DEF PumpDeliver, PumpTypeOK, Go
  <2>4. CountTypeOK' /\ LinkTypeOK'
    BY <1>11 DEF PumpDeliver, CountTypeOK, LinkTypeOK
  <2> QED
    BY <2>1, <2>2, <2>3, <2>4
<1>12. ASSUME NEW c \in Conns, PumpError(c) PROVE TypeOK'
  <2>1. RegTypeOK'
    BY <1>12 DEF PumpError, RegTypeOK, Go, HandlerStates, Holding, Claiming, Published, Refused
  <2>2. LinkTypeOK'
    BY <1>12, ShutType DEF PumpError
  <2>3. ConvTypeOK' /\ CountTypeOK' /\ PumpTypeOK'
    BY <1>12 DEF PumpError, ConvTypeOK, CountTypeOK, PumpTypeOK
  <2> QED
    BY <2>1, <2>2, <2>3
<1>13. ASSUME NEW c \in Conns, DropName(c) PROVE TypeOK'
  <2>1. RegTypeOK'
    BY <1>13 DEF DropName, RegTypeOK, Go, WithoutClient, HandlerStates, Holding, Claiming, Published, Refused
  <2>2. ConvTypeOK' /\ CountTypeOK' /\ LinkTypeOK' /\ PumpTypeOK'
    BY <1>13 DEF DropName, ConvTypeOK, CountTypeOK, LinkTypeOK, PumpTypeOK
  <2> QED
    BY <2>1, <2>2
<1>14. ASSUME NEW c \in Conns, CloseTunnelEvent(c) PROVE TypeOK'
  <2>1. RegTypeOK'
    BY <1>14 DEF CloseTunnelEvent, RegTypeOK, Go, HandlerStates, Holding, Claiming, Published, Refused
  <2>2. LinkTypeOK'
    BY <1>14, ShutType DEF CloseTunnelEvent
  <2>3. ConvTypeOK' /\ CountTypeOK' /\ PumpTypeOK'
    BY <1>14 DEF CloseTunnelEvent, ConvTypeOK, CountTypeOK, PumpTypeOK
  <2> QED
    BY <2>1, <2>2, <2>3
<1>15. ASSUME NEW c \in Conns, PeerReads(c) PROVE TypeOK'
  <2>1. LinkTypeOK'
    <3>1. /\ toClient' = [toClient EXCEPT ![c] = Tail(@)]
          /\ atPeer' = [atPeer EXCEPT ![c] = @ \cup ({Head(toClient[c])} \ {Info})]
          /\ conn' = conn /\ toHost' = toHost
          /\ toClient[c] # <<>>
      BY <1>15 DEF PeerReads
    <3>2. /\ Head(toClient[c]) \in Requests \cup {Info}
          /\ Tail(toClient[c]) \in Seq(Requests \cup {Info})
          /\ Len(Tail(toClient[c])) <= SocketCap
      BY <3>1, CapsAssumption DEF LinkTypeOK
    <3> QED
      BY <3>1, <3>2 DEF LinkTypeOK
  <2>2. RegTypeOK' /\ ConvTypeOK' /\ CountTypeOK' /\ PumpTypeOK'
    BY <1>15 DEF PeerReads, RegTypeOK, ConvTypeOK, CountTypeOK, PumpTypeOK
  <2> QED
    BY <2>1, <2>2
<1>16. ASSUME NEW c \in Conns, PeerAnswers(c) PROVE TypeOK'
  <2>1. LinkTypeOK'
    <3>1. PICK q \in atPeer[c], m \in Requests \cup {Noise} :
              /\ toHost' = [toHost EXCEPT ![c] = Append(@, m)]
              /\ atPeer' = [atPeer EXCEPT ![c] = @ \ {q}]
      BY <1>16 DEF PeerAnswers
    <3>2. /\ Append(toHost[c], m) \in Seq(Requests \cup {Noise})
          /\ Len(Append(toHost[c], m)) <= SocketCap
      BY <1>16, CapsAssumption DEF PeerAnswers, LinkTypeOK
    <3>3. conn' = conn /\ toClient' = toClient
      BY <1>16 DEF PeerAnswers
    <3> QED
      BY <3>1, <3>2, <3>3 DEF LinkTypeOK
  <2>2. RegTypeOK' /\ ConvTypeOK' /\ CountTypeOK' /\ PumpTypeOK'
    BY <1>16 DEF PeerAnswers, RegTypeOK, ConvTypeOK, CountTypeOK, PumpTypeOK
  <2> QED
    BY <2>1, <2>2
<1>17. ASSUME NEW c \in Conns, LoseLink(c) PROVE TypeOK'
  <2>1. LinkTypeOK'
    BY <1>17, CapsAssumption DEF LoseLink, LinkTypeOK
  <2>2. RegTypeOK' /\ ConvTypeOK' /\ CountTypeOK' /\ PumpTypeOK'
    BY <1>17 DEF LoseLink, RegTypeOK, ConvTypeOK, CountTypeOK, PumpTypeOK
  <2> QED
    BY <2>1, <2>2
<1>18. ASSUME NEW r \in Requests, Route(r) PROVE TypeOK'
  <2>1. ConvTypeOK'
    BY <1>18 DEF Route, ConvTypeOK, Step, GetClient, GetAnyClient, RequestStates, RequestDone
  <2>2. RegTypeOK' /\ CountTypeOK' /\ LinkTypeOK' /\ PumpTypeOK'
    BY <1>18 DEF Route, RegTypeOK, CountTypeOK, LinkTypeOK, PumpTypeOK
  <2> QED
    BY <2>1, <2>2
<1>19. ASSUME NEW r \in Requests, ReadBody(r) PROVE TypeOK'
  <2>1. ConvTypeOK'
    BY <1>19 DEF ReadBody, ConvTypeOK, Step, RequestStates, RequestDone
  <2>2. RegTypeOK' /\ CountTypeOK' /\ LinkTypeOK' /\ PumpTypeOK'
    BY <1>19 DEF ReadBody, RegTypeOK, CountTypeOK, LinkTypeOK, PumpTypeOK
  <2> QED
    BY <2>1, <2>2
<1>20. ASSUME NEW r \in Requests, StartConversation(r) PROVE TypeOK'
  <2>1. ConvTypeOK'
    BY <1>20 DEF StartConversation, ConvTypeOK, Step, RequestStates, RequestDone
  <2>2. RegTypeOK' /\ CountTypeOK' /\ LinkTypeOK' /\ PumpTypeOK'
    BY <1>20 DEF StartConversation, RegTypeOK, CountTypeOK, LinkTypeOK, PumpTypeOK
  <2> QED
    BY <2>1, <2>2
<1>21. ASSUME NEW r \in Requests, LockWrite(r) PROVE TypeOK'
  <2>1. ConvTypeOK'
    BY <1>21 DEF LockWrite, ConvTypeOK, Step, RequestStates, RequestDone
  <2>2. PumpTypeOK'
    BY <1>21 DEF LockWrite, PumpTypeOK, Step
  <2>3. RegTypeOK' /\ CountTypeOK' /\ LinkTypeOK'
    BY <1>21 DEF LockWrite, RegTypeOK, CountTypeOK, LinkTypeOK
  <2> QED
    BY <2>1, <2>2, <2>3
<1>22. ASSUME NEW r \in Requests, WriteRequest(r) PROVE TypeOK'
  <2>1. ConvTypeOK'
    BY <1>22 DEF WriteRequest, ConvTypeOK, Step, RequestStates, RequestDone
  <2>2. LinkTypeOK'
    <3>1. Sent(target[r], r)
      BY <1>22 DEF WriteRequest
    <3>2. CASE target[r] \in Conns
      BY <3>1, <3>2, SentType
    <3>3. CASE target[r] \notin Conns
      BY <3>1, <3>3 DEF Sent, LinkTypeOK
    <3> QED
      BY <3>2, <3>3
  <2>3. RegTypeOK' /\ CountTypeOK' /\ PumpTypeOK'
    BY <1>22 DEF WriteRequest, RegTypeOK, CountTypeOK, PumpTypeOK
  <2> QED
    BY <2>1, <2>2, <2>3
<1>23. ASSUME NEW r \in Requests, UnlockWrite(r) PROVE TypeOK'
  <2>1. ConvTypeOK'
    BY <1>23 DEF UnlockWrite, ConvTypeOK, Step, RequestStates, RequestDone
  <2>2. PumpTypeOK'
    BY <1>23 DEF UnlockWrite, PumpTypeOK, Step
  <2>3. RegTypeOK' /\ CountTypeOK' /\ LinkTypeOK'
    BY <1>23 DEF UnlockWrite, RegTypeOK, CountTypeOK, LinkTypeOK
  <2> QED
    BY <2>1, <2>2, <2>3
<1>24. ASSUME NEW r \in Requests, WriteFails(r) PROVE TypeOK'
  <2>1. ConvTypeOK'
    BY <1>24 DEF WriteFails, ConvTypeOK, Step, RequestStates, RequestDone
  <2>2. PumpTypeOK'
    BY <1>24 DEF WriteFails, Unlocked, PumpTypeOK, Step
  <2>3. LinkTypeOK'
    <3>1. \/ target[r] \in Conns /\ Shut(target[r])
          \/ target[r] \notin Conns /\ Shut(target[r])
          \/ UNCHANGED linkVars
      BY <1>24 DEF WriteFails, WriteBroken, WriteCancelled
    <3>2. CASE target[r] \in Conns /\ Shut(target[r])
      BY <3>2, ShutType
    <3>3. CASE target[r] \notin Conns /\ Shut(target[r])
      BY <3>3 DEF Shut, LinkTypeOK
    <3>4. CASE UNCHANGED linkVars
      BY <3>4 DEF LinkTypeOK
    <3> QED
      BY <3>1, <3>2, <3>3, <3>4
  <2>4. RegTypeOK' /\ CountTypeOK'
    BY <1>24 DEF WriteFails, RegTypeOK, CountTypeOK
  <2> QED
    BY <2>1, <2>2, <2>3, <2>4
<1>25. ASSUME NEW r \in Requests, Receive(r) PROVE TypeOK'
  <2>1. ConvTypeOK'
    BY <1>25 DEF Receive, ConvTypeOK, Step, RequestStates, RequestDone
  <2>2. CountTypeOK'
    <3>1. recent' = recent /\ requests' = [requests EXCEPT ![target[r]] = @ + 1]
      BY <1>25 DEF Receive
    <3>2. ASSUME NEW d \in Conns PROVE requests'[d] \in Nat
      <4>1. requests[d] \in Nat /\ requests[d] + 1 \in Nat
        BY DEF CountTypeOK
      <4>2. requests'[d] = requests[d] \/ requests'[d] = requests[d] + 1
        BY <3>1, <4>1 DEF CountTypeOK
      <4> QED
        BY <4>1, <4>2
    <3>3. requests' = [d \in Conns |-> requests'[d]]
      BY <3>1 DEF CountTypeOK
    <3>4. requests' \in [Conns -> Nat]
      BY <3>2, <3>3
    <3> QED
      BY <3>1, <3>4 DEF CountTypeOK
  <2>3. RegTypeOK' /\ LinkTypeOK' /\ PumpTypeOK'
    BY <1>25 DEF Receive, RegTypeOK, LinkTypeOK, PumpTypeOK
  <2> QED
    BY <2>1, <2>2, <2>3
<1>26. ASSUME NEW r \in Requests, RecordRequest(r) PROVE TypeOK'
  <2>1. ConvTypeOK'
    BY <1>26 DEF RecordRequest, ConvTypeOK, Step, RequestStates, RequestDone
  <2>2. CountTypeOK'
    <3> DEFINE u == UserOf[target[r]]
    <3>1. /\ recent' = [recent EXCEPT ![u] = Newest(Append(recent[u], r))]
          /\ requests' = requests
      BY <1>26 DEF RecordRequest
    <3>2. CASE u \in Users
      <4>1. /\ Newest(Append(recent[u], r)) \in Seq(Requests)
            /\ Len(Newest(Append(recent[u], r))) <= recentRequestCap
        BY <3>2, NewestType DEF CountTypeOK
      <4> QED
        BY <3>1, <3>2, <4>1 DEF CountTypeOK
    <3>3. CASE u \notin Users
      BY <3>1, <3>3 DEF CountTypeOK
    <3> QED
      BY <3>2, <3>3
  <2>3. RegTypeOK' /\ LinkTypeOK' /\ PumpTypeOK'
    BY <1>26 DEF RecordRequest, RegTypeOK, LinkTypeOK, PumpTypeOK
  <2> QED
    BY <2>1, <2>2, <2>3
<1>27. ASSUME NEW r \in Requests, GiveUp(r) PROVE TypeOK'
  <2>1. ConvTypeOK'
    BY <1>27 DEF GiveUp, ConvTypeOK, Step, RequestStates, RequestDone
  <2>2. RegTypeOK' /\ CountTypeOK' /\ LinkTypeOK' /\ PumpTypeOK'
    BY <1>27 DEF GiveUp, RegTypeOK, CountTypeOK, LinkTypeOK, PumpTypeOK
  <2> QED
    BY <2>1, <2>2
<1>28. ASSUME NEW r \in Requests, Unregister(r) PROVE TypeOK'
  <2>1. ConvTypeOK'
    BY <1>28 DEF Unregister, ConvTypeOK, Step, WithoutConversation, RequestStates, RequestDone
  <2>2. RegTypeOK' /\ CountTypeOK' /\ LinkTypeOK' /\ PumpTypeOK'
    BY <1>28 DEF Unregister, RegTypeOK, CountTypeOK, LinkTypeOK, PumpTypeOK
  <2> QED
    BY <2>1, <2>2
<1>29. ASSUME NEW r \in Requests, VisitorLeaves(r) PROVE TypeOK'
  <2>1. ConvTypeOK'
    BY <1>29 DEF VisitorLeaves, ConvTypeOK, RequestStates, RequestDone
  <2>2. RegTypeOK' /\ CountTypeOK' /\ LinkTypeOK' /\ PumpTypeOK'
    BY <1>29 DEF VisitorLeaves, RegTypeOK, CountTypeOK, LinkTypeOK, PumpTypeOK
  <2> QED
    BY <2>1, <2>2
<1>30. CASE UNCHANGED vars
  BY <1>30 DEF vars, RegTypeOK, ConvTypeOK, CountTypeOK, LinkTypeOK, PumpTypeOK
<1> QED
  BY <1>1, <1>2, <1>3, <1>4, <1>5, <1>6, <1>7, <1>8, <1>9, <1>10, <1>11, <1>12, <1>13, <1>14, <1>15, <1>16, <1>17, <1>18, <1>19, <1>20, <1>21, <1>22, <1>23, <1>24, <1>25, <1>26, <1>27, <1>28, <1>29, <1>30
  DEF Next, HandlerStep, RequestStep, SendStep, Finished

\* Every variable of the tunnel host keeps its type, and every buffer its bound.
THEOREM TypeCorrect == Spec => []TypeOK
<1>1. Init => TypeOK
  <2> SUFFICES ASSUME Init PROVE TypeOK
    OBVIOUS
  <2>1. /\ <<>> \in Seq(Requests) /\ Len(<<>>) <= recentRequestCap
        /\ <<>> \in Seq(Requests \cup {Info}) /\ <<>> \in Seq(Requests \cup {Noise})
        /\ Len(<<>>) <= SocketCap
    BY CapsAssumption
  <2>2. RegTypeOK
    BY DEF Init, RegTypeOK, HandlerStates
  <2>3. ConvTypeOK
    BY DEF Init, ConvTypeOK, RequestStates
  <2>4. CountTypeOK
    BY <2>1 DEF Init, CountTypeOK
  <2>5. LinkTypeOK
    BY <2>1 DEF Init, LinkTypeOK
  <2>6. PumpTypeOK
    BY DEF Init, PumpTypeOK
  <2> QED
    BY <2>2, <2>3, <2>4, <2>5, <2>6 DEF TypeOK
<1> QED
  BY <1>1, TypeStep, PTL DEF Spec

-----------------------------------------------------------------------------
(* The registry of names.                                                   *)

\* What the steps that do not touch the clients map have in common.
SameNames ==
    /\ clients' = clients /\ name' = name
    /\ \A c \in Conns : (hpc'[c] \in Claiming) = (hpc[c] \in Claiming)
    /\ \A c \in Conns : (hpc'[c] \in Published) = (hpc[c] \in Published)

\* Only four actions touch the clients map or change what a handler holds.
LEMMA NameSteps ==
  ASSUME TypeOK, [Next]_vars
  PROVE  \/ SameNames
         \/ \E c \in Conns : Assign(c) \/ ReleaseName(c) \/ Register(c) \/ DropName(c)
<1> USE DEF SameNames, Claiming, Published, TypeOK, RegTypeOK
<1>1. ASSUME NEW c \in Conns,
             Authenticate(c) \/ Refuse(c) \/ Accept(c) \/ OpenTunnelEvent(c) \/ LockInfo(c)
      PROVE  SameNames
  BY <1>1 DEF Authenticate, Refuse, Accept, OpenTunnelEvent, LockInfo, Go
<1>2. ASSUME NEW c \in Conns,
             WriteInfo(c) \/ PumpDeliver(c) \/ PumpError(c) \/ CloseTunnelEvent(c)
      PROVE  SameNames
  BY <1>2 DEF WriteInfo, PumpDeliver, PumpError, CloseTunnelEvent, Go
<1>3. ASSUME NEW c \in Conns, PumpRead(c) PROVE SameNames
  BY <1>3 DEF PumpRead, Go
<1>4. ASSUME NEW c \in Conns, PeerReads(c) \/ PeerAnswers(c) \/ LoseLink(c) PROVE SameNames
  BY <1>4 DEF PeerReads, PeerAnswers, LoseLink, regVars
<1>5. ASSUME NEW r \in Requests, RequestStep(r) \/ VisitorLeaves(r) PROVE SameNames
  <2>1. UNCHANGED regVars
    BY <1>5 DEF RequestStep, SendStep, Route, ReadBody, StartConversation, LockWrite,
       WriteRequest, UnlockWrite, WriteFails, Receive, RecordRequest, GiveUp, Unregister,
       VisitorLeaves
  <2> QED
    BY <2>1 DEF regVars
<1>6. CASE UNCHANGED vars
  BY <1>6 DEF vars, regVars
<1> QED
  BY <1>1, <1>2, <1>3, <1>4, <1>5, <1>6 DEF Next, HandlerStep, Finished

LEMMA RegistryStep ==
  ASSUME TypeOK, RegistryInv, [Next]_vars
  PROVE  RegistryInv'
<1> USE SentinelAssumption
<1>1. CASE SameNames
  BY <1>1 DEF SameNames, RegistryInv, NameExclusive, RegistryMatchesHandlers, Key, Holding
<1>2. ASSUME NEW c \in Conns, Assign(c) PROVE RegistryInv'
  <2>1. PICK l \in Choice(requested[c]) :
            /\ clients' = [clients EXCEPT ![lower[l]] = Nil]
            /\ name' = [name EXCEPT ![c] = l]
    BY <1>2 DEF Assign
  <2>2. l \in Labels /\ clients[lower[l]] = Absent /\ lower[l] \in Keys
    BY ChoiceIsFree, KeyOf DEF TypeOK, RegTypeOK
  <2>3. hpc[c] = "assign" /\ hpc' = [hpc EXCEPT ![c] = "accept"]
    BY <1>2 DEF Assign, Go
  <2>4. \A d \in Conns : hpc[d] \in Holding => d # c /\ Key(d) # lower[l]
    BY <2>2, <2>3 DEF RegistryInv, RegistryMatchesHandlers, Holding, Claiming, Published
  <2> QED
    BY <2>1, <2>2, <2>3, <2>4
    DEF TypeOK, RegTypeOK, RegistryInv, NameExclusive, RegistryMatchesHandlers, Key,
        Holding, Claiming, Published
<1>3. ASSUME NEW c \in Conns, ReleaseName(c) PROVE RegistryInv'
  <2>1. hpc[c] = "release" /\ clients[Key(c)] = Nil /\ Key(c) \in Keys
    BY <1>3, KeyOf DEF ReleaseName, RegistryInv, RegistryMatchesHandlers, Claiming, Holding, Key
  <2>2. /\ clients' = [clients EXCEPT ![Key(c)] = Absent]
        /\ hpc' = [hpc EXCEPT ![c] = "done"]
        /\ name' = name
    BY <1>3, <2>1 DEF ReleaseName, WithoutPlaceholder, Go
  <2> QED
    BY <2>1, <2>2
    DEF TypeOK, RegTypeOK, RegistryInv, NameExclusive, RegistryMatchesHandlers, Key,
        Holding, Claiming, Published
<1>4. ASSUME NEW c \in Conns, Register(c) PROVE RegistryInv'
  <2>1. hpc[c] = "register" /\ clients[Key(c)] = Nil /\ Key(c) \in Keys
    BY <1>4, KeyOf DEF Register, RegistryInv, RegistryMatchesHandlers, Claiming, Holding, Key
  <2>2. /\ clients' = [clients EXCEPT ![Key(c)] = c]
        /\ hpc' = [hpc EXCEPT ![c] = "event"]
        /\ name' = name
    BY <1>4 DEF Register, Go
  <2> QED
    BY <2>1, <2>2
    DEF TypeOK, RegTypeOK, RegistryInv, NameExclusive, RegistryMatchesHandlers, Key,
        Holding, Claiming, Published
<1>5. ASSUME NEW c \in Conns, DropName(c) PROVE RegistryInv'
  <2>1. hpc[c] = "drop" /\ clients[Key(c)] = c /\ Key(c) \in Keys
    BY <1>5, KeyOf DEF DropName, RegistryInv, RegistryMatchesHandlers, Published, Holding, Key
  <2>2. /\ clients' = [clients EXCEPT ![Key(c)] = Absent]
        /\ hpc' = [hpc EXCEPT ![c] = "closeEvent"]
        /\ name' = name
    BY <1>5, <2>1 DEF DropName, WithoutClient, Go
  <2> QED
    BY <2>1, <2>2
    DEF TypeOK, RegTypeOK, RegistryInv, NameExclusive, RegistryMatchesHandlers, Key,
        Holding, Claiming, Published
<1> QED
  BY <1>1, <1>2, <1>3, <1>4, <1>5, NameSteps

\* The map of live names and the handlers agree in every reachable state.
LEMMA RegistryInvariant == Spec => []RegistryInv
<1>1. Init => RegistryInv
  BY SentinelAssumption
  DEF Init, RegistryInv, NameExclusive, RegistryMatchesHandlers, Holding, Claiming, Published
<1>2. TypeOK /\ RegistryInv /\ [Next]_vars => RegistryInv'
  BY RegistryStep
<1> QED
  BY <1>1, <1>2, TypeCorrect, PTL DEF Spec

\* No two tunnel connections ever hold the same subdomain.
THEOREM NamesAreExclusive == Spec => []NameExclusive
<1>1. RegistryInv => NameExclusive
  BY DEF RegistryInv
<1> QED
  BY <1>1, RegistryInvariant, PTL

\* No placeholder and no client is ever left behind in the clients map, and
\* none is missing from it.
THEOREM RegistryIsExact == Spec => []RegistryMatchesHandlers
<1>1. RegistryInv => RegistryMatchesHandlers
  BY DEF RegistryInv
<1> QED
  BY <1>1, RegistryInvariant, PTL

-----------------------------------------------------------------------------
(* The host implements the abstract registry.                               *)

\* A step of the host claims, publishes, abandons or withdraws a name, or is
\* invisible to the registry.
LEMMA RegistryRefinementStep ==
  ASSUME TypeOK, RegistryInv, [Next]_vars
  PROVE  [Registry!Next]_(Registry!regVars)
<1> USE SentinelAssumption
<1> USE DEF TypeOK, RegTypeOK, Held, Routable, Key, Holding, Claiming, Published
<1>1. CASE SameNames
  <2>1. Held' = Held /\ Routable' = Routable
    BY <1>1 DEF SameNames
  <2> QED
    BY <2>1 DEF Registry!regVars
<1>2. ASSUME NEW c \in Conns, Assign(c) PROVE Registry!Next
  <2>1. PICK l \in Choice(requested[c]) :
            /\ clients' = [clients EXCEPT ![lower[l]] = Nil]
            /\ name' = [name EXCEPT ![c] = l]
    BY <1>2 DEF Assign
  <2>2. l \in Labels /\ clients[lower[l]] = Absent /\ lower[l] \in Keys
    BY ChoiceIsFree, KeyOf
  <2>3. hpc[c] = "assign" /\ hpc' = [hpc EXCEPT ![c] = "accept"]
    BY <1>2 DEF Assign, Go
  <2>4. \A p \in Held : p[1] # c /\ p[2] # lower[l]
    BY <2>2, <2>3 DEF RegistryInv, RegistryMatchesHandlers
  <2>5. Held' = Held \cup {<<c, lower[l]>>}
    BY <2>1, <2>2, <2>3
  <2>6. Routable' = Routable
    BY <2>1, <2>2
  <2> HIDE DEF Held, Routable
  <2> QED
    BY <2>2, <2>4, <2>5, <2>6 DEF Registry!Next, Registry!Claim
<1>3. ASSUME NEW c \in Conns, ReleaseName(c) PROVE Registry!Next
  <2>1. hpc[c] = "release" /\ clients[Key(c)] = Nil /\ Key(c) \in Keys
    BY <1>3, KeyOf DEF ReleaseName, RegistryInv, RegistryMatchesHandlers
  <2>2. /\ clients' = [clients EXCEPT ![Key(c)] = Absent]
        /\ hpc' = [hpc EXCEPT ![c] = "done"]
        /\ name' = name
    BY <1>3, <2>1 DEF ReleaseName, WithoutPlaceholder, Go
  <2>3. <<c, Key(c)>> \in Held \ Routable
    BY <2>1
  <2>4. Held' = Held \ {<<c, Key(c)>>}
    BY <2>1, <2>2
  <2>5. Routable' = Routable
    BY <2>1, <2>2
  <2> QED
    BY <2>1, <2>3, <2>4, <2>5 DEF Registry!Next, Registry!Abandon
<1>4. ASSUME NEW c \in Conns, Register(c) PROVE Registry!Next
  <2>1. hpc[c] = "register" /\ clients[Key(c)] = Nil /\ Key(c) \in Keys
    BY <1>4, KeyOf DEF Register, RegistryInv, RegistryMatchesHandlers
  <2>2. /\ clients' = [clients EXCEPT ![Key(c)] = c]
        /\ hpc' = [hpc EXCEPT ![c] = "event"]
        /\ name' = name
    BY <1>4 DEF Register, Go
  <2>3. <<c, Key(c)>> \in Held \ Routable
    BY <2>1
  <2>4. Held' = Held
    BY <2>1, <2>2
  <2>5. Routable' = Routable \cup {<<c, Key(c)>>}
    BY <2>1, <2>2
  <2> QED
    BY <2>1, <2>3, <2>4, <2>5 DEF Registry!Next, Registry!Publish
<1>5. ASSUME NEW c \in Conns, DropName(c) PROVE Registry!Next
  <2>1. hpc[c] = "drop" /\ clients[Key(c)] = c /\ Key(c) \in Keys
    BY <1>5, KeyOf DEF DropName, RegistryInv, RegistryMatchesHandlers
  <2>2. /\ clients' = [clients EXCEPT ![Key(c)] = Absent]
        /\ hpc' = [hpc EXCEPT ![c] = "closeEvent"]
        /\ name' = name
    BY <1>5, <2>1 DEF DropName, WithoutClient, Go
  <2>3. <<c, Key(c)>> \in Routable
    BY <2>1
  <2>4. Held' = Held \ {<<c, Key(c)>>}
    BY <2>1, <2>2
  <2>5. Routable' = Routable \ {<<c, Key(c)>>}
    BY <2>1, <2>2
  <2> QED
    BY <2>1, <2>3, <2>4, <2>5 DEF Registry!Next, Registry!Withdraw
<1> QED
  BY <1>1, <1>2, <1>3, <1>4, <1>5, NameSteps

\* The clients map, its placeholders and the handlers that share it implement
\* SubdomainRegistry: what visitors can be routed to is always held, and held by
\* one connection only.
THEOREM HostImplementsRegistry == Spec => ImplementsRegistry
<1>1. Init => Registry!Init
  BY SentinelAssumption
  DEF Init, Registry!Init, Held, Routable, Holding, Claiming, Published
<1>2. TypeOK /\ RegistryInv /\ [Next]_vars => [Registry!Next]_(Registry!regVars)
  BY RegistryRefinementStep
<1> QED
  BY <1>1, <1>2, TypeCorrect, RegistryInvariant, PTL DEF Spec, ImplementsRegistry, Registry!Spec

\* What SubdomainRegistry allows keeps names apart, whoever implements it.
LEMMA RegistryStaysExclusive ==
  ASSUME Registry!TypeOK, Registry!Exclusive, [Registry!Next]_(Registry!regVars)
  PROVE  Registry!TypeOK' /\ Registry!Exclusive'
<1>1. CASE UNCHANGED Registry!regVars
  BY <1>1 DEF Registry!regVars, Registry!TypeOK, Registry!Exclusive
<1>2. ASSUME NEW c \in Conns, NEW k \in Keys, Registry!Claim(c, k)
      PROVE  Registry!TypeOK' /\ Registry!Exclusive'
  BY <1>2 DEF Registry!Claim, Registry!TypeOK, Registry!Exclusive
<1> QED
  BY <1>1, <1>2 DEF Registry!Next, Registry!Publish, Registry!Abandon, Registry!Withdraw,
    Registry!TypeOK, Registry!Exclusive

\* Hence the host's: whoever visitors can be routed to under a name holds it, alone,
\* and holds no other (the clients map of tunnel.go and its placeholders).
THEOREM RoutesAreHeldAlone == Spec => [](Registry!TypeOK /\ Registry!Exclusive)
<1>1. Registry!Init => Registry!TypeOK /\ Registry!Exclusive
  BY DEF Registry!Init, Registry!TypeOK, Registry!Exclusive
<1>2. /\ Registry!TypeOK /\ Registry!Exclusive
      /\ [Registry!Next]_(Registry!regVars)
      => Registry!TypeOK' /\ Registry!Exclusive'
  BY RegistryStaysExclusive
<1> QED
  BY <1>1, <1>2, HostImplementsRegistry, PTL DEF ImplementsRegistry, Registry!Spec

-----------------------------------------------------------------------------
(* Conversations.                                                           *)

\* What is in a pipe after its head was taken was in it before.
LEMMA TailElements ==
  ASSUME NEW S, NEW s \in Seq(S), s # <<>>, NEW i \in DOMAIN Tail(s)
  PROVE  \E j \in DOMAIN s : s[j] = Tail(s)[i]
<1>1. i \in 1..(Len(s) - 1) /\ Tail(s)[i] = s[i + 1]
  OBVIOUS
<1>2. i + 1 \in DOMAIN s
  BY <1>1
<1> QED
  BY <1>1, <1>2

\* The head of a pipe is in it.
LEMMA HeadElement ==
  ASSUME NEW S, NEW s \in Seq(S), s # <<>>
  PROVE  \E j \in DOMAIN s : s[j] = Head(s)
<1>1. 1 \in DOMAIN s /\ s[1] = Head(s)
  OBVIOUS
<1> QED
  BY <1>1

\* What is in a pipe after a message was put in is that message or was there.
LEMMA AppendElements ==
  ASSUME NEW S, NEW s \in Seq(S), NEW m \in S, NEW i \in DOMAIN Append(s, m)
  PROVE  Append(s, m)[i] = m \/ \E j \in DOMAIN s : s[j] = Append(s, m)[i]
  OBVIOUS

\* What the steps have in common that may lose or move messages of a
\* conversation but do not touch its request, its map entry or its channel.
Quiet ==
    /\ UNCHANGED <<pending, rpc, asked, target, reply, inHand>>
    /\ \A c \in Conns : /\ (hpc'[c] = "deliver") = (hpc[c] = "deliver")
                        /\ hpc[c] \in WasLive =>
                              hpc'[c] \in WasLive /\ name'[c] = name[c]
    /\ \A r \in Requests, c \in Conns : InFlight(r, c)' => InFlight(r, c)

\* Closing a connection only loses messages.
LEMMA ShutLoses ==
  ASSUME LinkTypeOK, NEW c \in Conns, Shut(c), UNCHANGED <<inHand, reply>>,
         NEW r \in Requests, NEW d \in Conns, InFlight(r, d)'
  PROVE  InFlight(r, d)
<1>1. CASE d = c
  BY <1>1 DEF InFlight, Shut, LinkTypeOK
<1>2. CASE d # c
  BY <1>2 DEF InFlight, Shut, LinkTypeOK
<1> QED
  BY <1>1, <1>2

\* A Write puts only its own message on the way.
LEMMA SentAdds ==
  ASSUME LinkTypeOK, NEW c \in Conns, NEW m \in Requests \cup {Info}, Sent(c, m),
         UNCHANGED <<inHand, reply>>,
         NEW r \in Requests, NEW d \in Conns, InFlight(r, d)'
  PROVE  InFlight(r, d) \/ (r = m /\ d = c)
<1>1. toHost' = toHost /\ atPeer' = atPeer
  BY DEF Sent
<1>2. CASE toClient' = toClient
  BY <1>1, <1>2 DEF InFlight
<1>3. CASE toClient' = [toClient EXCEPT ![c] = Append(@, m)]
  <2>1. CASE d # c
    BY <1>1, <1>3, <2>1 DEF InFlight, LinkTypeOK
  <2>2. CASE d = c
    <3>1. toClient'[c] = Append(toClient[c], m) /\ toClient[c] \in Seq(Requests \cup {Info})
      BY <1>3 DEF LinkTypeOK
    <3>2. ASSUME NEW i \in DOMAIN toClient'[c], toClient'[c][i] = r
          PROVE  r = m \/ \E j \in DOMAIN toClient[c] : toClient[c][j] = r
      BY <3>1, <3>2, AppendElements
    <3> QED
      BY <1>1, <2>2, <3>2 DEF InFlight
  <2> QED
    BY <2>1, <2>2
<1> QED
  BY <1>2, <1>3 DEF Sent

\* The handler's steps outside readPump's delivery, the far end and the network
\* are quiet.
LEMMA QuietSteps ==
  ASSUME TypeOK, [Next]_vars
  PROVE  \/ Quiet
         \/ \E c \in Conns : PumpRead(c) \/ PumpDeliver(c)
         \/ \E r \in Requests : RequestStep(r)
<1> USE DEF TypeOK
<1>1. ASSUME NEW c \in Conns,
             \/ Authenticate(c) \/ Assign(c) \/ Refuse(c) \/ Accept(c) \/ ReleaseName(c)
             \/ Register(c) \/ OpenTunnelEvent(c) \/ LockInfo(c) \/ DropName(c)
      PROVE  Quiet
  <2>1. UNCHANGED <<pending, rpc, asked, target, reply, inHand, toClient, toHost, atPeer>>
    BY <1>1 DEF Authenticate, Assign, Refuse, Accept, ReleaseName, Register,
       OpenTunnelEvent, LockInfo, DropName, convVars, linkVars
  <2>2. \A r \in Requests, d \in Conns : InFlight(r, d)' => InFlight(r, d)
    BY <2>1 DEF InFlight
  <2>3. ASSUME NEW d \in Conns
        PROVE  /\ (hpc'[d] = "deliver") = (hpc[d] = "deliver")
               /\ hpc[d] \in WasLive => hpc'[d] \in WasLive /\ name'[d] = name[d]
    BY <1>1 DEF Authenticate, Assign, Refuse, Accept, ReleaseName, Register,
       OpenTunnelEvent, LockInfo, DropName, Go, RegTypeOK, WasLive, Published
  <2> QED
    BY <2>1, <2>2, <2>3 DEF Quiet
<1>2. ASSUME NEW c \in Conns, WriteInfo(c) \/ PumpError(c) \/ CloseTunnelEvent(c)
      PROVE  Quiet
  <2>1. UNCHANGED <<pending, rpc, asked, target, reply, inHand>>
    BY <1>2 DEF WriteInfo, PumpError, CloseTunnelEvent, convVars
  <2>2. Sent(c, Info) \/ Shut(c)
    BY <1>2 DEF WriteInfo, PumpError, CloseTunnelEvent, WriteBroken
  <2>3. \A r \in Requests, d \in Conns : InFlight(r, d)' => InFlight(r, d)
    BY <2>1, <2>2, SentAdds, ShutLoses, SentinelAssumption
  <2>4. ASSUME NEW d \in Conns
        PROVE  /\ (hpc'[d] = "deliver") = (hpc[d] = "deliver")
               /\ hpc[d] \in WasLive => hpc'[d] \in WasLive /\ name'[d] = name[d]
    BY <1>2 DEF WriteInfo, PumpError, CloseTunnelEvent, Go, RegTypeOK, WasLive, Published
  <2> QED
    BY <2>1, <2>3, <2>4 DEF Quiet
<1>3. ASSUME NEW c \in Conns, PeerReads(c) PROVE Quiet
  <2>1. /\ UNCHANGED <<regVars, pending, rpc, asked, target, reply, inHand, toHost>>
        /\ toClient[c] # <<>>
        /\ toClient' = [toClient EXCEPT ![c] = Tail(@)]
        /\ atPeer' = [atPeer EXCEPT ![c] = @ \cup ({Head(toClient[c])} \ {Info})]
    BY <1>3 DEF PeerReads, convVars
  <2>2. ASSUME NEW r \in Requests, NEW d \in Conns, InFlight(r, d)' PROVE InFlight(r, d)
    <3>1. CASE d # c
      BY <2>1, <2>2, <3>1 DEF InFlight, LinkTypeOK
    <3>2. CASE d = c
      <4>1. /\ toClient[c] \in Seq(Requests \cup {Info})
            /\ toClient'[c] = Tail(toClient[c])
            /\ atPeer'[c] \subseteq atPeer[c] \cup {Head(toClient[c])}
        BY <2>1 DEF LinkTypeOK
      <4>2. \E j \in DOMAIN toClient[c] : toClient[c][j] = Head(toClient[c])
        BY <2>1, <4>1, HeadElement
      <4>3. ASSUME NEW i \in DOMAIN toClient'[c], toClient'[c][i] = r
            PROVE  \E j \in DOMAIN toClient[c] : toClient[c][j] = r
        BY <2>1, <4>1, <4>3, TailElements
      <4> QED
        BY <2>1, <2>2, <3>2, <4>1, <4>2, <4>3 DEF InFlight
    <3> QED
      BY <3>1, <3>2
  <2> QED
    BY <2>1, <2>2 DEF Quiet, regVars
<1>4. ASSUME NEW c \in Conns, PeerAnswers(c) PROVE Quiet
  <2>1. PICK q \in atPeer[c], m \in Requests \cup {Noise} :
            /\ m \in {q, Noise}
            /\ toHost' = [toHost EXCEPT ![c] = Append(@, m)]
            /\ atPeer' = [atPeer EXCEPT ![c] = @ \ {q}]
    BY <1>4 DEF PeerAnswers
  <2>2. UNCHANGED <<regVars, pending, rpc, asked, target, reply, inHand, toClient>>
    BY <1>4 DEF PeerAnswers, convVars
  <2>3. ASSUME NEW r \in Requests, NEW d \in Conns, InFlight(r, d)' PROVE InFlight(r, d)
    <3>1. CASE d # c
      BY <2>1, <2>2, <2>3, <3>1 DEF InFlight, LinkTypeOK
    <3>2. CASE d = c
      <4>1. /\ toHost[c] \in Seq(Requests \cup {Noise})
            /\ toHost'[c] = Append(toHost[c], m)
            /\ atPeer'[c] \subseteq atPeer[c]
            /\ q \in Requests
        BY <2>1 DEF LinkTypeOK
      <4>2. ASSUME NEW i \in DOMAIN toHost'[c], toHost'[c][i] = r
            PROVE  r = m \/ \E j \in DOMAIN toHost[c] : toHost[c][j] = r
        BY <2>1, <4>1, <4>2, AppendElements
      <4>3. r = m => r \in atPeer[c]
        BY <2>1, SentinelAssumption
      <4> QED
        BY <2>2, <2>3, <3>2, <4>1, <4>2, <4>3 DEF InFlight
    <3> QED
      BY <3>1, <3>2
  <2> QED
    BY <2>2, <2>3 DEF Quiet, regVars
<1>5. ASSUME NEW c \in Conns, LoseLink(c) PROVE Quiet
  <2>1. UNCHANGED <<regVars, pending, rpc, asked, target, reply, inHand, toHost>>
    BY <1>5 DEF LoseLink, convVars
  <2>2. ASSUME NEW r \in Requests, NEW d \in Conns, InFlight(r, d)' PROVE InFlight(r, d)
    <3>1. CASE d = c
      BY <1>5, <2>1, <2>2, <3>1 DEF LoseLink, InFlight, LinkTypeOK
    <3>2. CASE d # c
      BY <1>5, <2>1, <2>2, <3>2 DEF LoseLink, InFlight, LinkTypeOK
    <3> QED
      BY <3>1, <3>2
  <2> QED
    BY <2>1, <2>2 DEF Quiet, regVars
<1>6. ASSUME NEW r \in Requests, VisitorLeaves(r) PROVE Quiet
  BY <1>6 DEF VisitorLeaves, Quiet, regVars, linkVars, InFlight
<1>7. CASE UNCHANGED vars
  BY <1>7 DEF vars, regVars, convVars, linkVars, Quiet, InFlight
<1> QED
  BY <1>1, <1>2, <1>3, <1>4, <1>5, <1>6, <1>7 DEF Next, HandlerStep, Finished

\* Losing or moving messages disturbs no conversation.
LEMMA QuietKeepsConversations ==
  ASSUME TypeOK, ConversationInv, Quiet
  PROVE  ConversationInv'
<1> USE DEF Quiet, ConversationInv, TypeOK, ConvTypeOK, PumpTypeOK
<1>1. MessagesBelong' /\ UnsentIsPending' /\ PendingIsOpen'
  BY DEF MessagesBelong, UnsentIsPending, PendingIsOpen
<1>2. HandIsReady' /\ AnsweredHasReply'
  BY DEF HandIsReady, AnsweredHasReply
<1>3. TargetWasAsked'
  BY DEF TargetWasAsked, Key
<1>4. NoPendingLeak' /\ NoLostAnswer'
  BY DEF NoPendingLeak, NoLostAnswer
<1> QED
  BY <1>1, <1>2, <1>3, <1>4

\* readPump takes a conversation out of the map into its hand, or skips.
LEMMA PumpReadKeepsConversations ==
  ASSUME TypeOK, ConversationInv, NEW c \in Conns, PumpRead(c)
  PROVE  ConversationInv'
<1> DEFINE m == Head(toHost[c])
<1> USE DEF ConversationInv, TypeOK, ConvTypeOK, PumpTypeOK, RegTypeOK
<1>1. /\ toHost[c] # <<>> /\ toHost' = [toHost EXCEPT ![c] = Tail(@)]
      /\ UNCHANGED <<name, rpc, asked, target, reply, toClient, atPeer>>
      /\ hpc[c] = "pump"
  BY DEF PumpRead
<1>2. toHost[c] \in Seq(Requests \cup {Noise}) /\ toHost'[c] = Tail(toHost[c])
  BY <1>1 DEF LinkTypeOK
<1>3. m \in Requests => InFlight(m, c)
  BY <1>1, <1>2, HeadElement DEF InFlight
<1>4. ASSUME NEW r \in Requests, NEW d \in Conns, InFlight(r, d)', inHand'[d] # r
      PROVE  InFlight(r, d)
  <2>1. CASE d # c
    BY <1>1, <1>4, <2>1 DEF InFlight, LinkTypeOK
  <2>2. CASE d = c
    <3>1. ASSUME NEW i \in DOMAIN toHost'[c], toHost'[c][i] = r
          PROVE  \E j \in DOMAIN toHost[c] : toHost[c][j] = r
      BY <1>1, <1>2, <3>1, TailElements
    <3> QED
      BY <1>1, <1>4, <2>2, <3>1 DEF InFlight
  <2> QED
    BY <2>1, <2>2
<1>5. CASE m \in pending
  <2>1. /\ pending' = pending \ {m} /\ inHand' = [inHand EXCEPT ![c] = m]
        /\ hpc' = [hpc EXCEPT ![c] = "deliver"]
        /\ m \in Requests /\ m # Absent
    BY <1>5, SentinelAssumption DEF PumpRead, Go
  <2>2. target[m] = c /\ rpc[m] \in Written
    BY <1>3, <2>1 DEF MessagesBelong
  <2>3. MessagesBelong'
    <3> SUFFICES ASSUME NEW r \in Requests, NEW d \in Conns, InFlight(r, d)'
                 PROVE  target[r] = d /\ rpc[r] \in Written
      BY <1>1 DEF MessagesBelong
    <3>1. CASE inHand'[d] # r
      BY <1>4, <3>1 DEF MessagesBelong
    <3>2. CASE inHand'[d] = r /\ d # c
      <4>1. InFlight(r, d)
        BY <2>1, <3>2 DEF InFlight
      <4> QED
        BY <4>1 DEF MessagesBelong
    <3>3. CASE inHand'[d] = r /\ d = c
      BY <2>1, <2>2, <3>3
    <3> QED
      BY <3>1, <3>2, <3>3
  <2>4. UnsentIsPending' /\ PendingIsOpen'
    BY <1>1, <2>1, <2>2 DEF UnsentIsPending, PendingIsOpen, Written, Answered
  <2>5. HandIsReady'
    BY <1>1, <1>5, <2>1 DEF HandIsReady, PendingIsOpen
  <2>6. AnsweredHasReply' /\ NoPendingLeak'
    BY <1>1, <2>1 DEF AnsweredHasReply, NoPendingLeak
  <2>7. TargetWasAsked'
    BY <1>1, <2>1 DEF TargetWasAsked, Key, WasLive, Published
  <2>8. NoLostAnswer'
    <3>1. inHand[c] = Absent
      BY <1>1 DEF HandIsReady
    <3> QED
      BY <1>1, <2>1, <3>1, SentinelAssumption DEF NoLostAnswer
  <2> QED
    BY <2>3, <2>4, <2>5, <2>6, <2>7, <2>8
<1>6. CASE m \notin pending
  <2>1. UNCHANGED <<pending, inHand, hpc>>
    BY <1>6 DEF PumpRead
  <2>2. ASSUME NEW r \in Requests, NEW d \in Conns, InFlight(r, d)' PROVE InFlight(r, d)
    BY <1>4, <2>1, <2>2 DEF InFlight
  <2>3. Quiet
    BY <1>1, <2>1, <2>2 DEF Quiet
  <2> QED
    BY <2>3, QuietKeepsConversations
<1> QED
  BY <1>5, <1>6

\* readPump hands the answer to the channel, which is empty.
LEMMA PumpDeliverKeepsConversations ==
  ASSUME TypeOK, ConversationInv, NEW c \in Conns, PumpDeliver(c)
  PROVE  ConversationInv'
<1> DEFINE m == inHand[c]
<1> USE SentinelAssumption
<1> USE DEF ConversationInv, TypeOK, ConvTypeOK, PumpTypeOK, RegTypeOK
<1>1. /\ hpc[c] = "deliver" /\ hpc' = [hpc EXCEPT ![c] = "pump"]
      /\ reply' = [reply EXCEPT ![m] = c] /\ inHand' = [inHand EXCEPT ![c] = Absent]
      /\ UNCHANGED <<name, pending, rpc, asked, target, toClient, toHost, atPeer>>
  BY DEF PumpDeliver, Go, linkVars
<1>2. m \in Requests /\ reply[m] = Absent
  BY <1>1 DEF HandIsReady
<1>3. target[m] = c /\ rpc[m] \in Written
  BY <1>2 DEF MessagesBelong, InFlight
<1>4. ASSUME NEW r \in Requests, NEW d \in Conns, InFlight(r, d)', r # m \/ d # c
      PROVE  InFlight(r, d)
  BY <1>1, <1>2, <1>4 DEF InFlight
<1>5. MessagesBelong'
  BY <1>1, <1>3, <1>4 DEF MessagesBelong
<1>6. m \notin pending
  BY DEF PendingIsOpen
<1>7. UnsentIsPending' /\ PendingIsOpen'
  BY <1>1, <1>2, <1>6 DEF UnsentIsPending, PendingIsOpen
<1>8. HandIsReady'
  <2>1. ASSUME NEW d \in Conns, d # c, inHand[d] # Absent PROVE inHand[d] # m
    BY <1>2, <1>3, <2>1 DEF MessagesBelong, InFlight
  <2> QED
    BY <1>1, <1>2, <2>1 DEF HandIsReady
<1>9. AnsweredHasReply' /\ NoPendingLeak'
  BY <1>1, <1>2, <1>3 DEF AnsweredHasReply, NoPendingLeak
<1>10. TargetWasAsked'
  BY <1>1 DEF TargetWasAsked, Key, WasLive, Published
<1>11. NoLostAnswer'
  BY <1>1, <1>2, <1>3 DEF NoLostAnswer
<1> QED
  BY <1>5, <1>7, <1>8, <1>9, <1>10, <1>11

\* The steps of one request disturb no conversation, its own or another's.
LEMMA RequestKeepsConversations ==
  ASSUME TypeOK, RegistryInv, ConversationInv, NEW r \in Requests, RequestStep(r)
  PROVE  ConversationInv'
<1> USE SentinelAssumption
<1> USE DEF ConversationInv, TypeOK, ConvTypeOK, PumpTypeOK
<1>1. UNCHANGED <<clients, hpc, name, inHand, reply>>
  BY DEF RequestStep, SendStep, Route, ReadBody, StartConversation, LockWrite,
     WriteRequest, UnlockWrite, WriteFails, Receive, RecordRequest, GiveUp, Unregister,
     regVars
<1>2. ASSUME UNCHANGED linkVars, NEW q \in Requests, NEW d \in Conns, InFlight(q, d)'
      PROVE  InFlight(q, d)
  BY <1>1, <1>2 DEF InFlight, linkVars
<1>3. CASE Route(r)
  <2>1. /\ rpc[r] = "idle" /\ UNCHANGED <<pending, linkVars>>
        /\ \A q \in Requests : q # r =>
              rpc'[q] = rpc[q] /\ target'[q] = target[q] /\ asked'[q] = asked[q]
    BY <1>3 DEF Route, Step
  <2>2. \/ rpc'[r] = "notFound"
        \/ /\ rpc'[r] = "body" /\ target'[r] \in Conns /\ hpc[target'[r]] \in WasLive
           /\ asked'[r] # Absent => Key(target'[r]) = lower[asked'[r]]
    <3>1. PICK l \in Labels \cup {Absent} :
              LET found == IF l = Absent THEN GetAnyClient ELSE GetClient(l) IN
              /\ asked' = [asked EXCEPT ![r] = l]
              /\ \/ found = {} /\ Step(r, "notFound") /\ UNCHANGED target
                 \/ \E c \in found : /\ target' = [target EXCEPT ![r] = c]
                                     /\ Step(r, "body")
      BY <1>3 DEF Route
    <3>2. CASE Step(r, "notFound")
      BY <3>2 DEF Step
    <3>3. ASSUME NEW c \in IF l = Absent THEN GetAnyClient ELSE GetClient(l),
                 target' = [target EXCEPT ![r] = c], Step(r, "body")
          PROVE  /\ rpc'[r] = "body" /\ target'[r] \in Conns /\ hpc[target'[r]] \in WasLive
                 /\ asked'[r] # Absent => Key(target'[r]) = lower[asked'[r]]
      <4>1. rpc'[r] = "body" /\ target'[r] = c /\ asked'[r] = l
        BY <3>1, <3>3 DEF Step
      <4>2. c \in Conns /\ \E k \in Keys : clients[k] = c
        BY KeyOf DEF GetAnyClient, GetClient
      <4>3. l # Absent => clients[lower[l]] = c /\ lower[l] \in Keys
        BY KeyOf DEF GetClient
      <4> QED
        BY <4>1, <4>2, <4>3 DEF RegistryInv, RegistryMatchesHandlers, WasLive
    <3> QED
      BY <3>1, <3>2, <3>3
  <2>3. MessagesBelong'
    <3>1. ASSUME NEW q \in Requests, NEW d \in Conns, InFlight(q, d) PROVE q # r
      BY <2>1, <3>1 DEF MessagesBelong, Written, Answered
    <3> QED
      BY <1>2, <2>1, <3>1 DEF MessagesBelong
  <2>4. UnsentIsPending' /\ PendingIsOpen' /\ HandIsReady'
    BY <1>1, <2>1, <2>2 DEF UnsentIsPending, PendingIsOpen, HandIsReady
  <2>5. AnsweredHasReply'
    BY <1>1, <2>1, <2>2 DEF AnsweredHasReply, Answered
  <2>6. TargetWasAsked'
    BY <1>1, <2>1, <2>2 DEF TargetWasAsked, Key
  <2>7. NoPendingLeak'
    BY <1>1, <2>1 DEF NoPendingLeak
  <2>8. NoLostAnswer'
    BY <1>1, <2>1, <2>2 DEF NoLostAnswer
  <2> QED
    BY <2>3, <2>4, <2>5, <2>6, <2>7, <2>8
<1>4. CASE StartConversation(r)
  <2>1. /\ rpc[r] = "register" /\ rpc' = [rpc EXCEPT ![r] = "lock"]
        /\ pending' = pending \cup {r} /\ UNCHANGED <<asked, target, linkVars>>
    BY <1>4 DEF StartConversation, Step
  <2>2. ASSUME NEW c \in Conns PROVE ~InFlight(r, c)
    BY <2>1 DEF MessagesBelong, Written, Answered
  <2>3. reply[r] = Absent /\ \A c \in Conns : inHand[c] # r
    BY <2>2 DEF InFlight
  <2>4. MessagesBelong'
    BY <1>2, <2>1, <2>2 DEF MessagesBelong
  <2>5. UnsentIsPending' /\ PendingIsOpen' /\ HandIsReady'
    BY <1>1, <2>1, <2>3 DEF UnsentIsPending, PendingIsOpen, HandIsReady
  <2>6. AnsweredHasReply' /\ TargetWasAsked'
    BY <1>1, <2>1 DEF AnsweredHasReply, Answered, TargetWasAsked, Key
  <2>7. NoPendingLeak' /\ NoLostAnswer'
    BY <1>1, <2>1 DEF NoPendingLeak, NoLostAnswer
  <2> QED
    BY <2>4, <2>5, <2>6, <2>7
<1>5. CASE WriteRequest(r)
  <2>1. /\ rpc[r] = "write" /\ rpc' = [rpc EXCEPT ![r] = "unlock"]
        /\ Sent(target[r], r) /\ UNCHANGED <<pending, asked, target>>
    BY <1>5 DEF WriteRequest, Step
  <2>2. target[r] \in Conns /\ r \in pending
    BY <2>1 DEF TargetWasAsked, UnsentIsPending
  <2>3. ASSUME NEW q \in Requests, NEW d \in Conns, InFlight(q, d)'
        PROVE  InFlight(q, d) \/ (q = r /\ d = target[r])
    BY <1>1, <2>1, <2>2, <2>3, SentAdds
  <2>4. MessagesBelong'
    BY <2>1, <2>3 DEF MessagesBelong, Written
  <2>5. UnsentIsPending' /\ PendingIsOpen' /\ HandIsReady'
    BY <1>1, <2>1 DEF UnsentIsPending, PendingIsOpen, HandIsReady
  <2>6. AnsweredHasReply' /\ TargetWasAsked'
    BY <1>1, <2>1 DEF AnsweredHasReply, Answered, TargetWasAsked, Key
  <2>7. NoPendingLeak' /\ NoLostAnswer'
    BY <1>1, <2>1 DEF NoPendingLeak, NoLostAnswer
  <2> QED
    BY <2>4, <2>5, <2>6, <2>7
<1>6. CASE WriteFails(r)
  <2>1. /\ rpc[r] = "write" /\ rpc' = [rpc EXCEPT ![r] = "unregister"]
        /\ UNCHANGED <<pending, asked, target>>
        /\ Shut(target[r]) \/ UNCHANGED linkVars
    BY <1>6 DEF WriteFails, WriteBroken, WriteCancelled, Step
  <2>2. target[r] \in Conns
    BY <2>1 DEF TargetWasAsked
  <2>3. ASSUME NEW q \in Requests, NEW d \in Conns, InFlight(q, d)' PROVE InFlight(q, d)
    BY <1>1, <1>2, <2>1, <2>2, <2>3, ShutLoses
  <2>4. MessagesBelong'
    BY <2>1, <2>3 DEF MessagesBelong, Written, Answered
  <2>5. UnsentIsPending' /\ PendingIsOpen' /\ HandIsReady'
    BY <1>1, <2>1 DEF UnsentIsPending, PendingIsOpen, HandIsReady
  <2>6. AnsweredHasReply' /\ TargetWasAsked'
    BY <1>1, <2>1 DEF AnsweredHasReply, Answered, TargetWasAsked, Key
  <2>7. NoPendingLeak' /\ NoLostAnswer'
    BY <1>1, <2>1 DEF NoPendingLeak, NoLostAnswer
  <2> QED
    BY <2>4, <2>5, <2>6, <2>7
<1>7. CASE Receive(r)
  <2>1. /\ rpc[r] = "wait" /\ rpc' = [rpc EXCEPT ![r] = "record"]
        /\ UNCHANGED <<pending, asked, target, linkVars>>
        /\ reply[r] # Absent
    BY <1>7 DEF Receive, Step
  <2>2. reply[r] = target[r] /\ r \notin pending
    BY <2>1 DEF MessagesBelong, InFlight, PendingIsOpen
  <2>3. MessagesBelong'
    BY <1>2, <2>1 DEF MessagesBelong, Written, Answered
  <2>4. UnsentIsPending' /\ PendingIsOpen' /\ HandIsReady'
    BY <1>1, <2>1 DEF UnsentIsPending, PendingIsOpen, HandIsReady
  <2>5. AnsweredHasReply' /\ TargetWasAsked'
    BY <1>1, <2>1, <2>2 DEF AnsweredHasReply, Answered, TargetWasAsked, Key
  <2>6. NoPendingLeak' /\ NoLostAnswer'
    BY <1>1, <2>1, <2>2 DEF NoPendingLeak, NoLostAnswer
  <2> QED
    BY <2>3, <2>4, <2>5, <2>6
<1>8. CASE Unregister(r)
  <2>1. /\ rpc[r] = "unregister" /\ rpc' = [rpc EXCEPT ![r] = "badGateway"]
        /\ pending' = pending \ {r} /\ UNCHANGED <<asked, target, linkVars>>
    BY <1>8 DEF Unregister, WithoutConversation, Step
  <2>2. MessagesBelong'
    BY <1>2, <2>1 DEF MessagesBelong, Written, Answered
  <2>3. UnsentIsPending' /\ PendingIsOpen' /\ HandIsReady'
    BY <1>1, <2>1 DEF UnsentIsPending, PendingIsOpen, HandIsReady
  <2>4. AnsweredHasReply' /\ TargetWasAsked'
    BY <1>1, <2>1 DEF AnsweredHasReply, Answered, TargetWasAsked, Key
  <2>5. NoPendingLeak' /\ NoLostAnswer'
    BY <1>1, <2>1 DEF NoPendingLeak, NoLostAnswer
  <2> QED
    BY <2>2, <2>3, <2>4, <2>5
<1>9. CASE ReadBody(r) \/ LockWrite(r) \/ UnlockWrite(r) \/ RecordRequest(r) \/ GiveUp(r)
  <2>1. /\ \/ rpc[r] = "body" /\ rpc' = [rpc EXCEPT ![r] = "register"]
           \/ rpc[r] = "body" /\ rpc' = [rpc EXCEPT ![r] = "badBody"]
           \/ rpc[r] = "lock" /\ rpc' = [rpc EXCEPT ![r] = "write"]
           \/ rpc[r] = "unlock" /\ rpc' = [rpc EXCEPT ![r] = "wait"]
           \/ rpc[r] = "record" /\ rpc' = [rpc EXCEPT ![r] = "served"]
           \/ rpc[r] = "wait" /\ rpc' = [rpc EXCEPT ![r] = "unregister"]
        /\ UNCHANGED <<pending, asked, target, linkVars>>
    BY <1>9 DEF ReadBody, LockWrite, UnlockWrite, RecordRequest, GiveUp, Step
  <2>2. MessagesBelong'
    BY <1>2, <2>1 DEF MessagesBelong, Written, Answered
  <2>3. UnsentIsPending' /\ PendingIsOpen' /\ HandIsReady'
    BY <1>1, <2>1 DEF UnsentIsPending, PendingIsOpen, HandIsReady
  <2>4. AnsweredHasReply' /\ TargetWasAsked'
    BY <1>1, <2>1 DEF AnsweredHasReply, Answered, TargetWasAsked, Key
  <2>5. NoPendingLeak' /\ NoLostAnswer'
    BY <1>1, <2>1 DEF NoPendingLeak, NoLostAnswer
  <2> QED
    BY <2>2, <2>3, <2>4, <2>5
<1> QED
  BY <1>3, <1>4, <1>5, <1>6, <1>7, <1>8, <1>9 DEF RequestStep, SendStep

\* Conversations stay in order in every reachable state.
LEMMA ConversationInvariant == Spec => []ConversationInv
<1>1. Init => ConversationInv
  <2> SUFFICES ASSUME Init PROVE ConversationInv
    OBVIOUS
  <2>1. MessagesBelong
    BY SentinelAssumption DEF Init, MessagesBelong, InFlight
  <2>2. UnsentIsPending /\ PendingIsOpen /\ HandIsReady
    BY DEF Init, UnsentIsPending, PendingIsOpen, HandIsReady
  <2>3. AnsweredHasReply /\ TargetWasAsked
    BY DEF Init, AnsweredHasReply, Answered, TargetWasAsked
  <2>4. NoPendingLeak /\ NoLostAnswer
    BY DEF Init, NoPendingLeak, NoLostAnswer
  <2> QED
    BY <2>1, <2>2, <2>3, <2>4 DEF ConversationInv
<1>2. TypeOK /\ RegistryInv /\ ConversationInv /\ [Next]_vars => ConversationInv'
  BY QuietSteps, QuietKeepsConversations, PumpReadKeepsConversations,
     PumpDeliverKeepsConversations, RequestKeepsConversations
<1> QED
  BY <1>1, <1>2, TypeCorrect, RegistryInvariant, PTL DEF Spec

\* SendHttpRequest never leaves its conversation in the pending map.
THEOREM PendingNeverLeaks == Spec => []NoPendingLeak
<1>1. ConversationInv => NoPendingLeak
  BY DEF ConversationInv
<1> QED
  BY <1>1, ConversationInvariant, PTL

\* readPump never blocks on the channel of a conversation, so one request that
\* gave up cannot stall the other requests of its tunnel.
THEOREM PumpIsNeverBlocked == Spec => []PumpNeverBlocks
<1>1. TypeOK /\ ConversationInv => PumpNeverBlocks
  BY DEF ConversationInv, HandIsReady, PumpNeverBlocks, HasRoom
<1> QED
  BY <1>1, TypeCorrect, ConversationInvariant, PTL

\* An answer that was taken for a request that waits reaches its channel.
THEOREM AnswersAreNotLost == Spec => []NoLostAnswer
<1>1. ConversationInv => NoLostAnswer
  BY DEF ConversationInv
<1> QED
  BY <1>1, ConversationInvariant, PTL

\* A visitor is only ever answered by a tunnel that had the name it asked for.
THEOREM AnswersComeFromAskedTunnel == Spec => []AnswerFromAskedTunnel
<1>1. ConversationInv => AnswerFromAskedTunnel
  BY DEF ConversationInv, AnsweredHasReply, TargetWasAsked, AnswerFromAskedTunnel, Answered
<1> QED
  BY <1>1, ConversationInvariant, PTL

-----------------------------------------------------------------------------
(* The portal's numbers.                                                    *)

\* The requests a tunnel has answered, and those served from a user's tunnels.
AnsweredBy(c) == {r \in Requests : rpc[r] \in Answered /\ target[r] = c}
ServedFor(u) == {r \in Requests : rpc[r] = "served" /\ UserOf[target[r]] = u}

\* The inductive form of TrafficAccounted: only finitely many requests have been
\* answered, so counting them makes sense whatever Requests is.
CountersAgree ==
    \A c \in Conns : /\ IsFiniteSet(AnsweredBy(c))
                     /\ requests[c] = Cardinality(AnsweredBy(c))
RecentAgrees ==
    \A u \in Users :
        /\ IsFiniteSet(ServedFor(u))
        /\ \A i \in DOMAIN recent[u] : recent[u][i] \in ServedFor(u)
        /\ Len(recent[u]) = IF Cardinality(ServedFor(u)) > recentRequestCap
                            THEN recentRequestCap ELSE Cardinality(ServedFor(u))
TrafficInv == CountersAgree /\ RecentAgrees

\* What the steps have in common that answer nobody.
NoAnswer ==
    /\ UNCHANGED countVars
    /\ \A r \in Requests :
          \/ rpc'[r] = rpc[r] /\ target'[r] = target[r]
          \/ rpc[r] \notin Answered /\ rpc'[r] \notin Answered

\* All steps but Receive and RecordRequest answer nobody.
LEMMA OnlyTwoStepsAnswer ==
  ASSUME TypeOK, [Next]_vars
  PROVE  NoAnswer \/ \E r \in Requests : Receive(r) \/ RecordRequest(r)
<1> USE DEF TypeOK, ConvTypeOK
<1>1. ASSUME NEW c \in Conns, Authenticate(c) \/ HandlerStep(c)
      PROVE  NoAnswer
  BY <1>1 DEF NoAnswer, HandlerStep, Authenticate, Assign, Refuse, Accept, ReleaseName,
     Register, OpenTunnelEvent, LockInfo, WriteInfo, PumpRead, PumpDeliver, PumpError,
     DropName, CloseTunnelEvent, convVars, countVars
<1>2. ASSUME NEW c \in Conns, PeerReads(c) \/ PeerAnswers(c) \/ LoseLink(c)
      PROVE  NoAnswer
  BY <1>2 DEF NoAnswer, PeerReads, PeerAnswers, LoseLink, convVars, countVars
<1>3. ASSUME NEW r \in Requests, Route(r) PROVE NoAnswer
  <2>1. rpc[r] = "idle" /\ UNCHANGED countVars /\ (Step(r, "notFound") \/ Step(r, "body"))
    BY <1>3 DEF Route
  <2>2. \A q \in Requests : q # r => target'[q] = target[q]
    BY <1>3 DEF Route
  <2> QED
    BY <2>1, <2>2 DEF NoAnswer, Step, Answered
<1>4. ASSUME NEW r \in Requests,
             \/ ReadBody(r) \/ StartConversation(r) \/ LockWrite(r) \/ WriteRequest(r)
             \/ UnlockWrite(r) \/ WriteFails(r) \/ GiveUp(r) \/ Unregister(r)
             \/ VisitorLeaves(r)
      PROVE  NoAnswer
  BY <1>4 DEF NoAnswer, ReadBody, StartConversation, LockWrite, WriteRequest, UnlockWrite,
     WriteFails, GiveUp, Unregister, VisitorLeaves, Step, Answered, countVars
<1>5. CASE UNCHANGED vars
  BY <1>5 DEF NoAnswer, vars, convVars
<1> QED
  BY <1>1, <1>2, <1>3, <1>4, <1>5 DEF Next, RequestStep, SendStep, Finished

\* A step that answers nobody changes neither the counters nor what they count.
LEMMA NoAnswerKeepsTraffic ==
  ASSUME TrafficInv, NoAnswer
  PROVE  TrafficInv'
<1>1. ASSUME NEW c \in Conns PROVE AnsweredBy(c)' = AnsweredBy(c)
  BY DEF NoAnswer, AnsweredBy
<1>2. ASSUME NEW u \in Users PROVE ServedFor(u)' = ServedFor(u)
  BY DEF NoAnswer, ServedFor, Answered
<1>3. CountersAgree'
  BY <1>1 DEF TrafficInv, CountersAgree, NoAnswer, countVars
<1>4. RecentAgrees'
  BY <1>2 DEF TrafficInv, RecentAgrees, NoAnswer, countVars
<1> QED
  BY <1>3, <1>4 DEF TrafficInv

\* The counter and the answered requests of the tunnel both grow by one.
LEMMA ReceiveKeepsTraffic ==
  ASSUME TypeOK, TargetWasAsked, TrafficInv, NEW r \in Requests, Receive(r)
  PROVE  TrafficInv'
<1>1. /\ rpc[r] = "wait" /\ rpc' = [rpc EXCEPT ![r] = "record"]
      /\ requests' = [requests EXCEPT ![target[r]] = @ + 1]
      /\ UNCHANGED <<target, recent>>
  BY DEF Receive, Step
<1>2. target[r] \in Conns /\ rpc \in [Requests -> RequestStates] /\ requests \in [Conns -> Nat]
  BY <1>1 DEF TargetWasAsked, TypeOK, ConvTypeOK, CountTypeOK
<1>3. CountersAgree'
  <2> SUFFICES ASSUME NEW c \in Conns
               PROVE  /\ IsFiniteSet(AnsweredBy(c)')
                      /\ requests'[c] = Cardinality(AnsweredBy(c)')
    BY DEF CountersAgree
  <2>1. IsFiniteSet(AnsweredBy(c)) /\ requests[c] = Cardinality(AnsweredBy(c))
    BY DEF TrafficInv, CountersAgree
  <2>2. CASE c = target[r]
    <3>1. AnsweredBy(c)' = AnsweredBy(c) \cup {r} /\ r \notin AnsweredBy(c)
      BY <1>1, <1>2, <2>2 DEF AnsweredBy, Answered
    <3>2. requests'[c] = requests[c] + 1
      BY <1>1, <1>2, <2>2
    <3> QED
      BY <2>1, <3>1, <3>2, FS_AddElement
  <2>3. CASE c # target[r]
    <3>1. AnsweredBy(c)' = AnsweredBy(c)
      BY <1>1, <1>2, <2>3 DEF AnsweredBy
    <3>2. requests'[c] = requests[c]
      BY <1>1, <1>2, <2>3
    <3> QED
      BY <2>1, <3>1, <3>2
  <2> QED
    BY <2>2, <2>3
<1>4. ASSUME NEW u \in Users PROVE ServedFor(u)' = ServedFor(u)
  BY <1>1, <1>2 DEF ServedFor
<1>5. RecentAgrees'
  BY <1>1, <1>4 DEF TrafficInv, RecentAgrees
<1> QED
  BY <1>3, <1>5 DEF TrafficInv

\* What the ring buffer holds after one more request.
LEMMA NewestElements ==
  ASSUME NEW buf \in Seq(Requests), NEW r \in Requests, Len(buf) <= recentRequestCap
  PROVE  /\ Len(Newest(Append(buf, r))) = IF Len(buf) + 1 > recentRequestCap
                                          THEN recentRequestCap ELSE Len(buf) + 1
         /\ \A i \in DOMAIN Newest(Append(buf, r)) :
               \/ Newest(Append(buf, r))[i] = r
               \/ \E j \in DOMAIN buf : Newest(Append(buf, r))[i] = buf[j]
<1> DEFINE more == Append(buf, r)
<1>1. /\ more \in Seq(Requests) /\ Len(more) = Len(buf) + 1 /\ more # <<>>
      /\ \A i \in DOMAIN more : more[i] = r \/ \E j \in DOMAIN buf : more[i] = buf[j]
  BY AppendElements
<1>2. /\ Tail(more) \in Seq(Requests) /\ Len(Tail(more)) = Len(buf)
      /\ \A i \in DOMAIN Tail(more) : \E j \in DOMAIN more : Tail(more)[i] = more[j]
  BY <1>1, TailElements
<1> HIDE DEF more
<1>3. CASE Len(more) > recentRequestCap
  <2>1. Newest(more) = Tail(more)
    BY <1>3 DEF Newest
  <2> QED
    BY <1>1, <1>2, <1>3, <2>1, CapsAssumption DEF more
<1>4. CASE ~(Len(more) > recentRequestCap)
  <2>1. Newest(more) = more
    BY <1>4 DEF Newest
  <2> QED
    BY <1>1, <1>4, <2>1, CapsAssumption DEF more
<1> QED
  BY <1>3, <1>4

\* The user's list takes the request and stays as long as fits.
LEMMA RecordKeepsTraffic ==
  ASSUME TypeOK, TargetWasAsked, TrafficInv, NEW r \in Requests, RecordRequest(r)
  PROVE  TrafficInv'
<1>1. /\ rpc[r] = "record" /\ rpc' = [rpc EXCEPT ![r] = "served"]
      /\ recent' = [recent EXCEPT ![UserOf[target[r]]] = Newest(Append(@, r))]
      /\ UNCHANGED <<target, requests>>
  BY DEF RecordRequest, Step
<1>2. /\ UserOf[target[r]] \in Users /\ rpc \in [Requests -> RequestStates]
      /\ recent \in [Users -> Seq(Requests)]
      /\ \A u \in Users : Len(recent[u]) <= recentRequestCap
  BY <1>1, UsersAssumption DEF TargetWasAsked, TypeOK, ConvTypeOK, CountTypeOK
<1>3. ASSUME NEW c \in Conns PROVE AnsweredBy(c)' = AnsweredBy(c)
  BY <1>1, <1>2 DEF AnsweredBy, Answered
<1>4. CountersAgree'
  BY <1>1, <1>3 DEF TrafficInv, CountersAgree
<1>5. RecentAgrees'
  <2> SUFFICES ASSUME NEW u \in Users
               PROVE  /\ IsFiniteSet(ServedFor(u)')
                      /\ \A i \in DOMAIN recent'[u] : recent'[u][i] \in ServedFor(u)'
                      /\ Len(recent'[u]) = IF Cardinality(ServedFor(u)') > recentRequestCap
                                           THEN recentRequestCap
                                           ELSE Cardinality(ServedFor(u)')
    BY DEF RecentAgrees
  <2> DEFINE n == Cardinality(ServedFor(u))
  <2>1. /\ IsFiniteSet(ServedFor(u))
        /\ \A i \in DOMAIN recent[u] : recent[u][i] \in ServedFor(u)
        /\ Len(recent[u]) = IF n > recentRequestCap THEN recentRequestCap ELSE n
    BY DEF TrafficInv, RecentAgrees
  <2>2. CASE u = UserOf[target[r]]
    <3>1. ServedFor(u)' = ServedFor(u) \cup {r} /\ r \notin ServedFor(u)
      BY <1>1, <1>2, <2>2 DEF ServedFor
    <3>2. /\ IsFiniteSet(ServedFor(u)') /\ Cardinality(ServedFor(u)') = n + 1
          /\ n \in Nat
      BY <2>1, <3>1, FS_AddElement, FS_CardinalityType
    <3>3. recent'[u] = Newest(Append(recent[u], r)) /\ recent[u] \in Seq(Requests)
      BY <1>1, <1>2, <2>2
    <3>4. /\ Len(recent'[u]) = IF Len(recent[u]) + 1 > recentRequestCap
                               THEN recentRequestCap ELSE Len(recent[u]) + 1
          /\ \A i \in DOMAIN recent'[u] :
                recent'[u][i] = r \/ \E j \in DOMAIN recent[u] : recent'[u][i] = recent[u][j]
      BY <1>2, <3>3, NewestElements
    <3>5. \A i \in DOMAIN recent'[u] : recent'[u][i] \in ServedFor(u)'
      BY <2>1, <3>1, <3>4
    <3> HIDE DEF n
    <3>6. Len(recent'[u]) = IF n + 1 > recentRequestCap THEN recentRequestCap ELSE n + 1
      BY <2>1, <3>2, <3>4, CapsAssumption
    <3> QED
      BY <3>2, <3>5, <3>6
  <2>3. CASE u # UserOf[target[r]]
    <3>1. ServedFor(u)' = ServedFor(u)
      BY <1>1, <1>2, <2>3 DEF ServedFor
    <3>2. recent'[u] = recent[u]
      BY <1>1, <1>2, <2>3
    <3> QED
      BY <2>1, <3>1, <3>2
  <2> QED
    BY <2>2, <2>3
<1> QED
  BY <1>4, <1>5 DEF TrafficInv

\* A tunnel's counter is the number of its answered requests and a user's recent
\* list holds as many of the user's answered requests as fit, although a request
\* is counted and recorded in two critical sections (tunnel.go:323, 369-379).
THEOREM TrafficIsAccounted == Spec => []TrafficAccounted
<1>1. Init => TrafficInv
  <2> SUFFICES ASSUME Init PROVE TrafficInv
    OBVIOUS
  <2>1. /\ \A c \in Conns : AnsweredBy(c) = {} /\ requests[c] = 0
        /\ \A u \in Users : ServedFor(u) = {} /\ recent[u] = <<>>
    BY DEF Init, AnsweredBy, ServedFor, Answered
  <2>2. CountersAgree
    BY <2>1, FS_EmptySet DEF CountersAgree
  <2>3. ASSUME NEW u \in Users
        PROVE  Len(recent[u]) = 0 /\ DOMAIN recent[u] = {} /\ Cardinality(ServedFor(u)) = 0
    <3>1. ServedFor(u) = {} /\ recent[u] = <<>>
      BY <2>1
    <3>2. Cardinality(ServedFor(u)) = 0
      BY <3>1, FS_EmptySet
    <3> QED
      BY <3>1, <3>2
  <2>4. RecentAgrees
    BY <2>1, <2>3, FS_EmptySet, CapsAssumption DEF RecentAgrees
  <2> QED
    BY <2>2, <2>4 DEF TrafficInv
<1>2. TypeOK /\ ConversationInv /\ TrafficInv /\ [Next]_vars => TrafficInv'
  BY OnlyTwoStepsAnswer, NoAnswerKeepsTraffic, ReceiveKeepsTraffic, RecordKeepsTraffic
  DEF ConversationInv
<1>3. TrafficInv => TrafficAccounted
  BY DEF TrafficInv, CountersAgree, RecentAgrees, AnsweredBy, ServedFor, TrafficAccounted
<1> QED
  BY <1>1, <1>2, <1>3, TypeCorrect, ConversationInvariant, PTL DEF Spec

-----------------------------------------------------------------------------
(* Refusals.                                                                *)

\* A set of numbers that is not empty has a first one.
LEMMA FirstExists ==
  ASSUME NEW S, S \subseteq Nat, S # {}
  PROVE  First(S) # {}
<1> DEFINE R == OpToRel(<, Nat)
<1>1. \A x, y \in Nat : (<<y, x>> \in R) <=> y < x
  BY DEF OpToRel
<1>2. IsWellFoundedOn(R, Nat)
  BY NatLessThanWellFounded
<1> HIDE DEF R
<1>3. PICK x \in S : \A y \in S : ~ (<<y, x>> \in R)
  BY <1>2, WFMin
<1>4. ASSUME NEW y \in S PROVE x <= y
  <2>1. x \in Nat /\ y \in Nat
    OBVIOUS
  <2>2. ~ (y < x)
    BY <1>1, <1>3, <2>1
  <2> QED
    BY <2>1, <2>2
<1> QED
  BY <1>4 DEF First

\* assignSubdomain fails in pool mode only if every name of the pool has an entry.
LEMMA RefusalMeansTaken ==
  ASSUME NEW want, Refusable(want), NEW i \in DOMAIN Pool
  PROVE  clients[lower[Pool[i]]] # Absent
<1>1. Pool # <<>> /\ DOMAIN Pool \subseteq Nat
  BY LabelsAssumption
<1>2. WantedInPool(want) = {} /\ First(FreeInPool) = {}
  BY <1>1 DEF Refusable, Choice, PoolChoice
<1>3. FreeInPool \subseteq Nat
  BY <1>1 DEF FreeInPool
<1>4. FreeInPool = {}
  BY <1>2, <1>3, FirstExists
<1> QED
  BY <1>4 DEF FreeInPool, Live

\* Only Refuse turns a connection away after it was authenticated.
LEMMA OnlyRefuseTurnsAway ==
  ASSUME TypeOK, [Next]_vars, NEW c \in Conns, hpc[c] = "assign", hpc'[c] = "unavailable"
  PROVE  Refuse(c)
<1> USE DEF TypeOK, RegTypeOK
<1>1. ASSUME NEW d \in Conns, d # c, Authenticate(d) \/ HandlerStep(d) PROVE FALSE
  <2>1. hpc'[c] = hpc[c]
    BY <1>1 DEF HandlerStep, Authenticate, Assign, Refuse, Accept, ReleaseName, Register,
       OpenTunnelEvent, LockInfo, WriteInfo, PumpRead, PumpDeliver, PumpError, DropName,
       CloseTunnelEvent, Go
  <2> QED
    BY <2>1
<1>2. CASE Authenticate(c) \/ HandlerStep(c)
  BY <1>2 DEF HandlerStep, Authenticate, Assign, Accept, ReleaseName, Register,
     OpenTunnelEvent, LockInfo, WriteInfo, PumpRead, PumpDeliver, PumpError, DropName,
     CloseTunnelEvent, Go
<1>3. ASSUME UNCHANGED hpc PROVE FALSE
  BY <1>3
<1>4. ASSUME NEW d \in Conns, PeerReads(d) \/ PeerAnswers(d) \/ LoseLink(d) PROVE UNCHANGED hpc
  BY <1>4 DEF PeerReads, PeerAnswers, LoseLink, regVars
<1>5. ASSUME NEW r \in Requests, RequestStep(r) \/ VisitorLeaves(r) PROVE UNCHANGED hpc
  BY <1>5 DEF RequestStep, SendStep, Route, ReadBody, StartConversation, LockWrite,
     WriteRequest, UnlockWrite, WriteFails, Receive, RecordRequest, GiveUp, Unregister,
     VisitorLeaves, regVars
<1>6. CASE UNCHANGED vars
  BY <1>3, <1>6 DEF vars, regVars
<1> QED
  BY <1>1, <1>2, <1>3, <1>4, <1>5, <1>6 DEF Next, Finished

LEMMA RefusalStep ==
  TypeOK /\ RegistryInv /\ [Next]_vars =>
      \A c \in Conns :
          hpc[c] = "assign" /\ hpc'[c] = "unavailable" =>
              \A i \in DOMAIN Pool :
                  \E d \in Conns : hpc[d] \in Holding /\ Key(d) = lower[Pool[i]]
<1> SUFFICES ASSUME TypeOK, RegistryInv, [Next]_vars, NEW c \in Conns,
                    hpc[c] = "assign", hpc'[c] = "unavailable", NEW i \in DOMAIN Pool
             PROVE  \E d \in Conns : hpc[d] \in Holding /\ Key(d) = lower[Pool[i]]
  OBVIOUS
<1>1. Refusable(requested[c])
  BY OnlyRefuseTurnsAway DEF Refuse
<1>2. clients[lower[Pool[i]]] # Absent
  BY <1>1, RefusalMeansTaken
<1>3. lower[Pool[i]] \in Keys
  BY LabelsAssumption, KeyOf
<1> QED
  BY <1>2, <1>3 DEF RegistryInv, RegistryMatchesHandlers, TypeOK, RegTypeOK, Holding

\* A connection is refused in pool mode only while others hold every name of the
\* pool, also while they are still being set up (tunnel.go:182-184).
THEOREM RefusalsAreNeeded == Spec => RefusedOnlyWhenExhausted
<1>1. TypeOK /\ RegistryInv /\ [Next]_vars =>
        [\A c \in Conns :
          hpc[c] = "assign" /\ hpc'[c] = "unavailable" =>
              \A i \in DOMAIN Pool :
                  \E d \in Conns : hpc[d] \in Holding /\ Key(d) = lower[Pool[i]]]_vars
  BY RefusalStep
<1> QED
  BY <1>1, TypeCorrect, RegistryInvariant, PTL DEF Spec, RefusedOnlyWhenExhausted

-----------------------------------------------------------------------------
(* The host implements the abstract forwarding of requests.                 *)

\* What is somewhere was sent there by its own request, on one connection.
LEMMA InPlace ==
    ASSUME TypeOK, ConversationInv, NEW r \in Requests,
           OnTheWay(r) \/ AtClient(r) \/ Answering(r)
    PROVE  /\ target[r] \in Conns /\ InFlight(r, target[r]) /\ rpc[r] \in Written
           /\ \A c \in Conns : InFlight(r, c) => c = target[r]
<1>1. \E c \in Conns : InFlight(r, c)
  BY DEF OnTheWay, AtClient, Answering, InFlight, Range, TypeOK, ConvTypeOK
<1> QED
  BY <1>1 DEF ConversationInv, MessagesBelong

\* The steps after which a request is nowhere it was not before, and those that move
\* one on.
Settled(r) ==
    /\ OnTheWay(r)' => OnTheWay(r)
    /\ AtClient(r)' => AtClient(r)
    /\ Answering(r)' => Answering(r)
Stays(r) ==
    /\ OnTheWay(r)' <=> OnTheWay(r)
    /\ AtClient(r)' <=> AtClient(r)
    /\ Answering(r)' <=> Answering(r)
    /\ rpc'[r] = rpc[r]
Departs(r) ==
    /\ rpc[r] = "write" /\ rpc'[r] = "unlock"
    /\ OnTheWay(r)' /\ ~AtClient(r)' /\ ~Answering(r)'
Arrives(r) ==
    /\ OnTheWay(r) /\ UNCHANGED rpc
    /\ ~OnTheWay(r)' /\ AtClient(r)' /\ ~Answering(r)'
Returns(r) ==
    /\ AtClient(r) /\ UNCHANGED rpc
    /\ ~OnTheWay(r)' /\ ~AtClient(r)' /\ Answering(r)'
MovesOn(r) ==
    /\ Departs(r) \/ Arrives(r) \/ Returns(r)
    /\ \A q \in Requests : q # r => Stays(q)
NoPairs == \A c \in Conns : Distinct(toClient[c], Info)

LEMMA TravelHasNoPairs ==
    TravelInv <=> /\ \A r \in Requests :
                        /\ ~(OnTheWay(r) /\ AtClient(r))
                        /\ ~((OnTheWay(r) \/ AtClient(r)) /\ Answering(r))
                  /\ NoPairs
  BY DEF TravelInv, NoPairs, Distinct

\* Messages that are lost settle everybody.
LEMMA LossSettles ==
    ASSUME NoPairs, UNCHANGED <<inHand, reply>>,
           \A c \in Conns : /\ toClient'[c] \in {toClient[c], <<>>}
                            /\ toHost'[c] \in {toHost[c], <<>>}
                            /\ atPeer'[c] \subseteq atPeer[c]
    PROVE  NoPairs' /\ \A r \in Requests : Settled(r)
<1>1. \A c \in Conns : /\ Range(toClient'[c]) \subseteq Range(toClient[c])
                       /\ Range(toHost'[c]) \subseteq Range(toHost[c])
  BY EmptyPipe
<1>2. NoPairs'
  BY EmptyPipe DEF NoPairs
<1> QED
  BY <1>1, <1>2 DEF Settled, OnTheWay, AtClient, Answering

\* Shut, and a Write that fails.
LEMMA ShutSettles ==
    ASSUME TypeOK, NoPairs, NEW c \in Conns, Shut(c) \/ UNCHANGED linkVars,
           UNCHANGED <<inHand, reply>>
    PROVE  NoPairs' /\ \A r \in Requests : Settled(r)
  BY LossSettles DEF Shut, linkVars, TypeOK, LinkTypeOK

\* What a Write that succeeds does to the pipe.
LEMMA SentPlaces ==
    ASSUME TypeOK, NoPairs, NEW c \in Conns, NEW m \in Requests \cup {Info}, Sent(c, m)
    PROVE  /\ UNCHANGED <<toHost, atPeer>>
           /\ \/ UNCHANGED toClient
              \/ /\ Range(toClient'[c]) = Range(toClient[c]) \cup {m}
                 /\ m = Info \/ m \notin Range(toClient[c]) => NoPairs'
           /\ \A d \in Conns : d # c => toClient'[d] = toClient[d]
<1>1. /\ UNCHANGED <<toHost, atPeer>>
      /\ toClient[c] \in Seq(Requests \cup {Info})
      /\ UNCHANGED toClient \/ toClient'[c] = Append(toClient[c], m)
      /\ \A d \in Conns : d # c => toClient'[d] = toClient[d]
  BY DEF Sent, TypeOK, LinkTypeOK
<1>2. Distinct(toClient[c], Info)
  BY DEF NoPairs
<1>3. toClient'[c] = Append(toClient[c], m) =>
          /\ Range(toClient'[c]) = Range(toClient[c]) \cup {m}
          /\ m = Info \/ m \notin Range(toClient[c]) => Distinct(toClient'[c], Info)
  BY ONLY <1>1, <1>2, m \in Requests \cup {Info}, RangeAppended, DistinctAppended
<1> QED
  BY <1>1, <1>3 DEF NoPairs

\* The tunnel client reads a request, or NtunlInfo.
LEMMA PeerReadsMoves ==
    ASSUME TypeOK, ConversationInv, TravelInv, NEW c \in Conns, PeerReads(c)
    PROVE  /\ NoPairs'
           /\ \/ \A r \in Requests : Settled(r)
              \/ \E r \in Requests : MovesOn(r)
<1> DEFINE m == Head(toClient[c])
<1>1. /\ toClient[c] \in Seq(Requests \cup {Info}) /\ toClient[c] # <<>>
      /\ toClient'[c] = Tail(toClient[c])
      /\ atPeer'[c] = atPeer[c] \cup ({m} \ {Info})
      /\ \A d \in Conns : d # c => toClient'[d] = toClient[d] /\ atPeer'[d] = atPeer[d]
      /\ UNCHANGED <<toHost, inHand, reply, rpc>>
  BY DEF PeerReads, TypeOK, LinkTypeOK, convVars
<1>2. NoPairs
  BY TravelHasNoPairs
<1>3. m \in Requests \cup {Info} /\ Range(toClient[c]) = Range(toClient'[c]) \cup {m}
  BY ONLY <1>1, RangeRead, HeadTailProperties
<1>4. Distinct(toClient'[c], Info) /\ (m # Info => m \notin Range(toClient'[c]))
  <2>1. Distinct(toClient[c], Info)
    BY <1>2 DEF NoPairs
  <2> QED
    BY ONLY <1>1, <2>1, DistinctRead
<1>5. NoPairs'
  BY <1>1, <1>2, <1>4 DEF NoPairs
<1>6. \A r \in Requests : r # m => Stays(r)
  BY <1>1, <1>3 DEF Stays, OnTheWay, AtClient, Answering
<1>7. CASE m = Info
  BY <1>5, <1>6, <1>7, SentinelAssumption DEF Stays, Settled
<1>8. ASSUME NEW r \in Requests, m = r PROVE MovesOn(r)
  <2>1. OnTheWay(r) /\ r # Info
    BY <1>3, <1>8, SentinelAssumption DEF OnTheWay
  <2>2. \A d \in Conns : r \in Range(toClient[d]) => d = c
    <3>1. \A d \in Conns : r \in Range(toClient[d]) => InFlight(r, d)
      BY DEF InFlight, Range
    <3> QED
      BY <1>3, <1>8, <2>1, <3>1, InPlace
  <2>3. ~OnTheWay(r)' /\ AtClient(r)'
    BY <1>1, <1>4, <1>8, <2>1, <2>2 DEF OnTheWay, AtClient
  <2>4. ~Answering(r)'
    BY <1>1, <2>1 DEF TravelInv, Answering
  <2> QED
    BY <1>1, <1>6, <1>8, <2>1, <2>3, <2>4 DEF MovesOn, Arrives
<1> QED
  BY <1>3, <1>5, <1>7, <1>8

\* The tunnel client answers, with the answer or with something else.
LEMMA PeerAnswersMoves ==
    ASSUME TypeOK, ConversationInv, TravelInv, NEW c \in Conns, PeerAnswers(c)
    PROVE  /\ NoPairs'
           /\ \/ \A r \in Requests : Settled(r)
              \/ \E r \in Requests : MovesOn(r)
<1>1. PICK r \in atPeer[c], m \in Requests \cup {Noise} :
          /\ m \in {r, Noise}
          /\ toHost' = [toHost EXCEPT ![c] = Append(@, m)]
          /\ atPeer' = [atPeer EXCEPT ![c] = @ \ {r}]
  BY DEF PeerAnswers
<1>2. /\ toHost[c] \in Seq(Requests \cup {Noise}) /\ m \in Requests \cup {Noise}
      /\ toHost'[c] = Append(toHost[c], m) /\ atPeer'[c] = atPeer[c] \ {r}
      /\ \A d \in Conns : d # c => toHost'[d] = toHost[d] /\ atPeer'[d] = atPeer[d]
      /\ UNCHANGED <<toClient, inHand, reply, rpc>>
      /\ r \in Requests /\ Noise \notin Requests
  BY <1>1, SentinelAssumption DEF PeerAnswers, TypeOK, LinkTypeOK, convVars
<1>3. Range(toHost'[c]) = Range(toHost[c]) \cup {m}
  BY ONLY <1>2, RangeAppended
<1>4. NoPairs'
  BY <1>2, TravelHasNoPairs DEF NoPairs
<1>5. \A q \in Requests : q # r => Stays(q)
  BY <1>1, <1>2, <1>3 DEF Stays, OnTheWay, AtClient, Answering
<1>6. AtClient(r)
  BY <1>2 DEF AtClient
<1>7. CASE m = Noise
  <2>1. Settled(r)
    BY <1>2, <1>3, <1>7 DEF Settled, OnTheWay, AtClient, Answering
  <2> QED
    BY <1>4, <1>5, <2>1 DEF Stays, Settled
<1>8. CASE m = r
  <2>1. Answering(r)'
    BY <1>2, <1>3, <1>8 DEF Answering
  <2>2. \A d \in Conns : r \in atPeer[d] => d = c
    BY <1>1, <1>2, <1>6, InPlace DEF InFlight
  <2>3. ~AtClient(r)'
    BY <1>2, <2>2 DEF AtClient
  <2>4. ~OnTheWay(r)'
    BY <1>2, <1>6 DEF TravelInv, OnTheWay
  <2> QED
    BY <1>2, <1>4, <1>5, <1>6, <2>1, <2>3, <2>4 DEF MovesOn, Returns
<1> QED
  BY <1>1, <1>7, <1>8

\* readPump moves an answer from the pipe to its hand, or drops it; from its hand it
\* goes to the channel.
LEMMA PumpReadSettles ==
    ASSUME TypeOK, NoPairs, NEW c \in Conns, PumpRead(c)
    PROVE  NoPairs' /\ \A r \in Requests : Settled(r)
<1> DEFINE m == Head(toHost[c])
<1>1. /\ toHost[c] \in Seq(Requests \cup {Noise}) /\ toHost[c] # <<>>
      /\ toHost'[c] = Tail(toHost[c])
      /\ \A d \in Conns : d # c => toHost'[d] = toHost[d]
      /\ \A d \in Conns : inHand'[d] = inHand[d] \/ (d = c /\ inHand'[d] = m)
      /\ UNCHANGED <<toClient, atPeer, reply>>
  BY DEF PumpRead, TypeOK, LinkTypeOK, PumpTypeOK
<1>2. Range(toHost[c]) = Range(toHost'[c]) \cup {m}
  BY ONLY <1>1, RangeRead
<1> QED
  BY <1>1, <1>2 DEF NoPairs, Settled, OnTheWay, AtClient, Answering

LEMMA PumpDeliverSettles ==
    ASSUME TypeOK, NoPairs, NEW c \in Conns, PumpDeliver(c)
    PROVE  NoPairs' /\ \A r \in Requests : Settled(r)
  BY SentinelAssumption
  DEF PumpDeliver, linkVars, TypeOK, ConvTypeOK, PumpTypeOK,
      NoPairs, Settled, OnTheWay, AtClient, Answering

\* Every step settles everybody, or moves one request on.
LEMMA TravelSteps ==
    ASSUME TypeOK, ConversationInv, TravelInv, [Next]_vars
    PROVE  /\ NoPairs'
           /\ \/ \A r \in Requests : Settled(r)
              \/ \E r \in Requests : MovesOn(r)
<1>0. NoPairs
  BY TravelHasNoPairs
<1>a. ASSUME UNCHANGED <<toClient, toHost, atPeer, inHand, reply>>
      PROVE  NoPairs' /\ \A r \in Requests : Settled(r)
  BY <1>0, <1>a DEF NoPairs, Settled, OnTheWay, AtClient, Answering
<1>1. ASSUME NEW c \in Conns,
             \/ Authenticate(c) \/ Assign(c) \/ Refuse(c) \/ Accept(c) \/ ReleaseName(c)
             \/ Register(c) \/ OpenTunnelEvent(c) \/ LockInfo(c) \/ DropName(c)
      PROVE  NoPairs' /\ \A r \in Requests : Settled(r)
  BY <1>1, <1>a DEF Authenticate, Assign, Refuse, Accept, ReleaseName, Register,
     OpenTunnelEvent, LockInfo, DropName, convVars, linkVars
<1>2. ASSUME NEW c \in Conns, PumpError(c) \/ CloseTunnelEvent(c)
      PROVE  NoPairs' /\ \A r \in Requests : Settled(r)
  BY <1>0, <1>2, ShutSettles DEF PumpError, CloseTunnelEvent, convVars
<1>3. ASSUME NEW c \in Conns, WriteInfo(c)
      PROVE  NoPairs' /\ \A r \in Requests : Settled(r)
  <2>1. UNCHANGED <<inHand, reply>> /\ (Sent(c, Info) \/ Shut(c))
    BY <1>3 DEF WriteInfo, WriteBroken, convVars
  <2>2. CASE Sent(c, Info)
    <3>1. /\ UNCHANGED <<toHost, atPeer>>
          /\ \/ UNCHANGED toClient
             \/ Range(toClient'[c]) = Range(toClient[c]) \cup {Info} /\ NoPairs'
          /\ \A d \in Conns : d # c => toClient'[d] = toClient[d]
      BY <1>0, <2>2, SentPlaces
    <3>2. \A r \in Requests : Settled(r)
      BY <2>1, <3>1, SentinelAssumption DEF Settled, OnTheWay, AtClient, Answering
    <3> QED
      BY <1>0, <3>1, <3>2 DEF NoPairs
  <2> QED
    BY <1>0, <2>1, <2>2, ShutSettles
<1>4. ASSUME NEW c \in Conns, LoseLink(c)
      PROVE  NoPairs' /\ \A r \in Requests : Settled(r)
  BY <1>0, <1>4, LossSettles DEF LoseLink, convVars, TypeOK, LinkTypeOK
<1>5. ASSUME NEW r \in Requests,
             \/ Route(r) \/ ReadBody(r) \/ StartConversation(r) \/ LockWrite(r)
             \/ UnlockWrite(r) \/ Receive(r) \/ RecordRequest(r) \/ GiveUp(r)
             \/ Unregister(r) \/ VisitorLeaves(r)
      PROVE  NoPairs' /\ \A q \in Requests : Settled(q)
  BY <1>5, <1>a DEF Route, ReadBody, StartConversation, LockWrite, UnlockWrite, Receive,
     RecordRequest, GiveUp, Unregister, VisitorLeaves, linkVars
<1>6. ASSUME NEW r \in Requests, WriteFails(r)
      PROVE  NoPairs' /\ \A q \in Requests : Settled(q)
  <2>1. target[r] \in Conns
    BY <1>6 DEF WriteFails, ConversationInv, TargetWasAsked
  <2> QED
    BY <1>0, <1>6, <2>1, ShutSettles DEF WriteFails, WriteBroken, WriteCancelled
<1>7. ASSUME NEW r \in Requests, WriteRequest(r)
      PROVE  NoPairs' /\ ((\A q \in Requests : Settled(q)) \/ MovesOn(r))
  <2>1. /\ rpc[r] = "write" /\ rpc'[r] = "unlock" /\ Sent(target[r], r)
        /\ \A q \in Requests : q # r => rpc'[q] = rpc[q]
        /\ UNCHANGED <<inHand, reply>> /\ target[r] \in Conns
    BY <1>7 DEF WriteRequest, Step, TypeOK, ConvTypeOK, ConversationInv, TargetWasAsked
  <2>2. ~OnTheWay(r) /\ ~AtClient(r) /\ ~Answering(r)
    BY <2>1, InPlace DEF Written, Answered
  <2>3. r \notin Range(toClient[target[r]])
    BY <2>1, <2>2 DEF OnTheWay
  <2>4. /\ UNCHANGED <<toHost, atPeer>>
        /\ \/ UNCHANGED toClient
           \/ Range(toClient'[target[r]]) = Range(toClient[target[r]]) \cup {r} /\ NoPairs'
        /\ \A d \in Conns : d # target[r] => toClient'[d] = toClient[d]
    BY <1>0, <2>1, <2>3, SentPlaces
  <2>5. CASE UNCHANGED toClient
    BY <1>a, <2>1, <2>4, <2>5
  <2>6. CASE Range(toClient'[target[r]]) = Range(toClient[target[r]]) \cup {r} /\ NoPairs'
    <3>1. OnTheWay(r)' /\ ~AtClient(r)' /\ ~Answering(r)'
      BY <2>1, <2>2, <2>4, <2>6 DEF OnTheWay, AtClient, Answering
    <3>2. \A q \in Requests : q # r => Stays(q)
      BY <2>1, <2>4, <2>6 DEF Stays, OnTheWay, AtClient, Answering
    <3> QED
      BY <2>1, <2>6, <3>1, <3>2 DEF MovesOn, Departs
  <2> QED
    BY <2>4, <2>5, <2>6
<1>8. CASE UNCHANGED vars
  BY <1>8, <1>a DEF vars, convVars, linkVars
<1> QED
  BY <1>0, <1>1, <1>2, <1>3, <1>4, <1>5, <1>6, <1>7, <1>8, PeerReadsMoves,
     PeerAnswersMoves, PumpReadSettles, PumpDeliverSettles
  DEF Next, HandlerStep, RequestStep, SendStep, Finished

LEMMA TravelInvariant == Spec => []TravelInv
<1>1. Init => TravelInv
  BY SentinelAssumption, EmptyPipe DEF Init, TravelInv, OnTheWay, AtClient, Answering
<1>2. TypeOK /\ ConversationInv /\ TravelInv /\ [Next]_vars => TravelInv'
  <2> SUFFICES ASSUME TypeOK, ConversationInv, TravelInv, [Next]_vars PROVE TravelInv'
    OBVIOUS
  <2>1. NoPairs'
    BY TravelSteps
  <2>2. ASSUME NEW r \in Requests
        PROVE  /\ ~(OnTheWay(r)' /\ AtClient(r)')
               /\ ~((OnTheWay(r)' \/ AtClient(r)') /\ Answering(r)')
    <3>1. Settled(r) \/ Stays(r) \/ Departs(r) \/ Arrives(r) \/ Returns(r)
      BY TravelSteps DEF MovesOn
    <3> QED
      BY <3>1 DEF TravelInv, Settled, Stays, Departs, Arrives, Returns
  <2> QED
    BY <2>1, <2>2 DEF TravelInv, NoPairs, Distinct
<1> QED
  BY <1>1, <1>2, TypeCorrect, ConversationInvariant, PTL DEF Spec

-----------------------------------------------------------------------------

\* No step takes a request back to before its Write.
LEMMA NothingIsUnsent ==
    ASSUME TypeOK, [Next]_vars, NEW r \in Requests, rpc'[r] \in Unsent
    PROVE  rpc[r] \in Unsent
<1> USE DEF TypeOK, ConvTypeOK, Unsent
<1>1. ASSUME NEW c \in Conns, Authenticate(c) \/ HandlerStep(c)
      PROVE  UNCHANGED rpc
  BY <1>1 DEF HandlerStep, Authenticate, Assign, Refuse, Accept, ReleaseName,
     Register, OpenTunnelEvent, LockInfo, WriteInfo, PumpRead, PumpDeliver, PumpError,
     DropName, CloseTunnelEvent, convVars
<1>2. ASSUME NEW c \in Conns, PeerReads(c) \/ PeerAnswers(c) \/ LoseLink(c)
      PROVE  UNCHANGED rpc
  BY <1>2 DEF PeerReads, PeerAnswers, LoseLink, convVars
<1>3. ASSUME NEW q \in Requests, Route(q)
      PROVE  rpc[r] \in Unsent
  <2>1. rpc[q] = "idle" /\ \E pc : Step(q, pc)
    BY <1>3 DEF Route
  <2> QED
    BY <2>1 DEF Step
<1>4. ASSUME NEW q \in Requests, RequestStep(q) \/ VisitorLeaves(q), ~Route(q)
      PROVE  rpc[r] \in Unsent
  BY <1>4 DEF RequestStep, SendStep, ReadBody, StartConversation, LockWrite, WriteRequest,
     UnlockWrite, WriteFails, Receive, RecordRequest, GiveUp, Unregister, VisitorLeaves, Step
<1>5. CASE UNCHANGED vars
  BY <1>5 DEF vars, convVars
<1> QED
  BY <1>1, <1>2, <1>3, <1>4, <1>5 DEF Next, Finished

Stage == [r \in Requests |-> StageOf(r)]

\* One request moves and the others stay.
LEMMA OneMoves ==
    ASSUME NEW r \in Requests, NEW from, NEW to,
           StageOf(r) = from, StageOf(r)' = to,
           \A q \in Requests : q # r => StageOf(q)' = StageOf(q)
    PROVE  Contract!Move(r, from, to)
<1>1. Stage[r] = from /\ Stage' = [Stage EXCEPT ![r] = to]
  BY DEF Stage
<1> QED
  BY <1>1 DEF Stage, Contract!Move

\* Some end and the others stay.
LEMMA SomeEnd ==
    ASSUME \A r \in Requests : StageOf(r)' = StageOf(r)
                               \/ (StageOf(r) # "received" /\ StageOf(r)' = "ended")
    PROVE  Contract!End
<1>1. Stage' \in [Requests -> Contract!Stages]
  BY DEF Stage, StageOf, Contract!Stages
<1>2. \A r \in Requests : Stage'[r] # Stage[r] => Stage[r] # "received" /\ Stage'[r] = "ended"
  BY DEF Stage
<1> QED
  BY <1>1, <1>2 DEF Stage, Contract!End

\* Who stays, stays at its stage.
LEMMA StaysAtStage ==
    ASSUME NEW r \in Requests, Stays(r)
    PROVE  StageOf(r)' = StageOf(r)
  BY DEF Stays, StageOf

LEMMA ForwardingStep ==
    ASSUME TypeOK, ConversationInv, TravelInv, [Next]_vars
    PROVE  [Contract!Next]_Stage
<1>0. \A r \in Requests :
          /\ OnTheWay(r) \/ AtClient(r) \/ Answering(r) => rpc[r] \in Written
          /\ rpc[r] \in Answered => Answering(r)
          /\ ~(OnTheWay(r) /\ AtClient(r))
          /\ ~((OnTheWay(r) \/ AtClient(r)) /\ Answering(r))
  <2>1. \A r \in Requests : rpc[r] \in Answered => reply[r] = target[r] /\ target[r] \in Conns
    BY DEF ConversationInv, AnsweredHasReply, TargetWasAsked, Answered
  <2> QED
    BY <2>1, InPlace, SentinelAssumption DEF TravelInv, Answering
<1>1. CASE \E r \in Requests : MovesOn(r)
  <2>1. PICK r \in Requests : MovesOn(r)
    BY <1>1
  <2>2. \A q \in Requests : q # r => StageOf(q)' = StageOf(q)
    BY <2>1, StaysAtStage DEF MovesOn
  <2>3. CASE Departs(r)
    <3>1. StageOf(r) = "unsent" /\ StageOf(r)' = "sent"
      BY <1>0, <2>3 DEF Departs, StageOf, Written, Answered, Unsent
    <3> QED
      BY <2>2, <3>1, OneMoves DEF Contract!Next, Contract!Send
  <2>4. CASE Arrives(r)
    <3>1. StageOf(r) = "sent" /\ StageOf(r)' = "serving"
      BY <1>0, <2>4 DEF Arrives, StageOf
    <3> QED
      BY <2>2, <3>1, OneMoves DEF Contract!Next, Contract!Serve
  <2>5. CASE Returns(r)
    <3>1. StageOf(r) = "serving" /\ StageOf(r)' = "answered"
      BY <1>0, <2>5 DEF Returns, StageOf
    <3> QED
      BY <2>2, <3>1, OneMoves DEF Contract!Next, Contract!Answer
  <2> QED
    BY <2>1, <2>3, <2>4, <2>5 DEF MovesOn
<1>2. ASSUME NEW r \in Requests, Receive(r) PROVE Contract!Next
  <2>1. /\ rpc[r] = "wait" /\ reply[r] # Absent /\ rpc' = [rpc EXCEPT ![r] = "record"]
        /\ UNCHANGED <<reply, inHand, toClient, toHost, atPeer>>
    BY <1>2 DEF Receive, Step, linkVars
  <2>2. StageOf(r) = "answered" /\ StageOf(r)' = "received"
    BY <2>1 DEF StageOf, Answering, Answered, TypeOK, ConvTypeOK
  <2>3. \A q \in Requests : q # r => Stays(q)
    BY <2>1 DEF Stays, OnTheWay, AtClient, Answering
  <2> QED
    BY <2>2, <2>3, StaysAtStage, OneMoves DEF Contract!Next, Contract!Receive
<1>3. CASE /\ \A r \in Requests : Settled(r)
           /\ \A r \in Requests : rpc'[r] \in Answered <=> rpc[r] \in Answered
  <2>1. ASSUME NEW r \in Requests
        PROVE  StageOf(r)' = StageOf(r) \/ (StageOf(r) # "received" /\ StageOf(r)' = "ended")
    <3>1. rpc'[r] \in Unsent => rpc[r] \in Unsent
      BY NothingIsUnsent
    <3>2. rpc[r] \in Unsent => ~OnTheWay(r) /\ ~AtClient(r) /\ ~Answering(r)
      BY <1>0 DEF Unsent, Written, Answered
    <3> QED
      BY <1>0, <1>3, <3>1, <3>2 DEF StageOf, Settled
  <2> QED
    BY <2>1, SomeEnd DEF Contract!Next
<1>4. (\E r \in Requests : Receive(r))
      \/ \A r \in Requests : rpc'[r] \in Answered <=> rpc[r] \in Answered
  BY OnlyTwoStepsAnswer DEF NoAnswer, RecordRequest, Step, Answered, TypeOK, ConvTypeOK
<1> QED
  BY <1>1, <1>2, <1>3, <1>4, TravelSteps

\* Whatever host, visitors, tunnel clients and network do, each request is written
\* once, and its visitor gets the answer of the client that took it, once.
THEOREM HostForwards == Spec => ImplementsForwarding
<1>1. Init => Contract!Init
  <2> SUFFICES ASSUME Init PROVE \A r \in Requests : StageOf(r) = "unsent"
    BY DEF Contract!Init
  <2> QED
    BY SentinelAssumption, EmptyPipe
    DEF Init, StageOf, OnTheWay, AtClient, Answering, Answered, Unsent
<1>2. TypeOK /\ ConversationInv /\ TravelInv /\ [Next]_vars => [Contract!Next]_Stage
  BY ForwardingStep
<1> QED
  BY <1>1, <1>2, TypeCorrect, ConversationInvariant, TravelInvariant, PTL
  DEF Spec, ImplementsForwarding, Contract!Spec, Stage
===============================================================================
