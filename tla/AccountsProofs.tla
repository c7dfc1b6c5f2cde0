--------------------------- MODULE AccountsProofs ---------------------------
(***************************************************************************)
(* Proofs about Accounts, for every number of calls, users, sessions and     *)
(* tokens.                                                                  *)
(***************************************************************************)
EXTENDS Accounts, TLAPS

\* No row of a user, a session or a token is given up for reuse.
RowsStay ==
    /\ exists \subseteq exists'
    /\ \A s \in Sessions : session[s] # Unused => session'[s] # Unused
    /\ \A t \in Tokens : token[t] # Unused => token'[t] # Unused

\* A call that takes no part in a step stays ready, and the one that does is if
\* what it becomes is.
LEMMA OneCallSteps ==
    ASSUME CallsOK, RowsStay, NEW c \in Calls, NEW r \in Call,
           call' = [call EXCEPT ![c] = r], Ready(r)'
    PROVE  CallsOK'
<1>1. call' \in [Calls -> Call]
  BY DEF CallsOK
<1>2. ASSUME NEW d \in Calls PROVE Ready(call[d])'
  <2>1. CASE d = c
    BY <2>1 DEF CallsOK, Ready
  <2>2. CASE d # c
    BY <2>2 DEF CallsOK, Ready, RowsStay
  <2> QED
    BY <2>1, <2>2
<1> QED
  BY <1>1, <1>2 DEF CallsOK

\* A call that is over needs nothing.
LEMMA CallEnds ==
    ASSUME CallsOK, RowsStay, NEW c \in Calls, Done(c) \/ Rejected(c)
    PROVE  CallsOK'
<1>1. ASSUME NEW how \in {"done", "rejected"}, call' = [call EXCEPT ![c] = Over(how)]
      PROVE  CallsOK'
  <2>1. Over(how) \in Call
    BY DEF Over, Call, Steps, Ended, Ops
  <2>2. Ready(Over(how))'
    BY DEF Over, Ready
  <2> QED
    BY <1>1, <2>1, <2>2, OneCallSteps
<1> QED
  BY <1>1 DEF Done, Rejected

\* The next statement of a call, with the user it has read.
LEMMA CallMoves ==
    ASSUME CallsOK, RowsStay, exists \subseteq Users, NEW c \in Calls,
           NEW u \in exists \cup {call[c].who},
           NEW step \in {"mint", "purge", "account", "act", "sweep", "owner"},
           Reads(c, u, step) \/ (To(c, step) /\ u = call[c].who),
           step # "purge" => u \in exists,
           step = "purge" => call[c].at = "session"
    PROVE  CallsOK'
<1> DEFINE r == [call[c] EXCEPT !.who = u, !.at = step]
<1>1. call[c] \in Call /\ Ready(call[c])
  BY DEF CallsOK
<1>2. r \in Call
  BY <1>1 DEF Call, Steps
<1>3. call' = [call EXCEPT ![c] = r]
  BY <1>1 DEF Reads, To, Call, CallsOK
<1>4. r.at = step /\ r.who = u /\ r.key = call[c].key
  BY <1>1 DEF Call
<1>5. (r.at \in {"mint", "account", "act", "sweep", "owner"} => r.who \in exists')
      /\ (r.at \in {"session", "purge", "logout"} =>
              r.key \in Sessions /\ session'[r.key] # Unused)
      /\ (r.at = "token" => r.key \in Tokens /\ token'[r.key] # Unused)
      /\ (r.at = "lookup" => r.key \in Users)
  BY <1>1, <1>4 DEF Ready, RowsStay
<1> HIDE DEF r
<1>6. ASSUME NEW q \in Call, q = r PROVE CallsOK'
  <2>1. Ready(q)'
    BY <1>5, <1>6 DEF Ready
  <2> QED
    BY <1>3, <1>6, <2>1, OneCallSteps
<1> QED
  BY <1>2, <1>6

\* A user becomes active: the calls change in the bookkeeping only.
LEMMA CallsOfActivated ==
    ASSUME CallsOK, RowsStay, NEW c \in Calls, NEW u \in Users, Activates(c, u)
    PROVE  CallsOK'
<1>1. Over("done") \in Call
  BY DEF Over, Call, Steps, Ended, Ops
<1>2. ASSUME NEW d \in Calls PROVE call'[d] \in Call /\ Ready(call[d])'
  <2>1. CASE d = c
    BY <1>1, <2>1 DEF Activates, Over, Ready
  <2>2. CASE d # c /\ call[d].barred = u
    <3>1. call'[d] = [call[d] EXCEPT !.barred = None]
      BY <2>2 DEF Activates
    <3>2. call[d] \in Call /\ Ready(call[d])
      BY DEF CallsOK
    <3>3. /\ call'[d] \in Call
          /\ call'[d].at = call[d].at /\ call'[d].who = call[d].who
          /\ call'[d].key = call[d].key
      BY <3>1, <3>2 DEF Call
    <3> QED
      BY <3>2, <3>3 DEF Ready, RowsStay
  <2>3. CASE d # c /\ call[d].barred # u
    BY <2>3 DEF Activates, CallsOK, Ready, RowsStay
  <2> QED
    BY <2>1, <2>2, <2>3
<1> QED
  BY <1>2 DEF Activates, CallsOK

\* TypeOK is inductive: an id that is read is the id of a row, and rows of users
\* are never deleted.
LEMMA TypeStep == TypeOK /\ [Next]_vars => TypeOK'
<1> SUFFICES ASSUME TypeOK, [Next]_vars PROVE TypeOK'
  OBVIOUS
<1> USE AccountsAssumption
<1> USE DEF TypeOK
<1>a. \A c \in Calls : call[c] \in Call /\ Ready(call[c])
  BY DEF CallsOK
<1>b. exists \subseteq Users
  BY DEF RowsOK
<1>same. ASSUME UNCHANGED storeVars PROVE RowsOK' /\ RowsStay
  BY <1>same DEF storeVars, userVars, sessionVars, tokenVars, RowsOK, RowsStay
<1>1. CASE Expire
  BY <1>1 DEF Expire, userVars, tokenVars, RowsOK, CallsOK, Ready
<1>2. ASSUME NEW c \in Calls, Arrive(c) PROVE TypeOK'
  <2>1. PICK o \in Ops : \E k \in KeysOf(o) :
          call' = [call EXCEPT ![c] = [at |-> FirstStep(o), op |-> o, key |-> k,
                                       who |-> None, barred |-> Barred(k)]]
    BY <1>2 DEF Arrive
  <2>2. PICK k \in KeysOf(o) :
          call' = [call EXCEPT ![c] = [at |-> FirstStep(o), op |-> o, key |-> k,
                                       who |-> None, barred |-> Barred(k)]]
    BY <2>1
  <2> DEFINE new == [at |-> FirstStep(o), op |-> o, key |-> k,
                     who |-> None, barred |-> Barred(k)]
  <2>3. UNCHANGED storeVars
    BY <1>2 DEF Arrive
  <2>4. k \in Users \cup Sessions \cup Tokens
    BY DEF KeysOf
  <2>5. FirstStep(o) \in Steps
    BY DEF FirstStep, Steps
  <2>6. Barred(k) \in Users \cup {None, Deleted}
    <3>1. OwnerOf(k) \in Users \cup {Deleted}
      BY <2>4 DEF OwnerOf, KeysOf, RowsOK
    <3> QED
      BY <3>1 DEF Barred
  <2>7. new \in Call
    BY <2>4, <2>5, <2>6 DEF Call
  <2>8. /\ FirstStep(o) \notin {"mint", "account", "act", "sweep", "owner"}
        /\ FirstStep(o) \in {"session", "purge", "logout"} =>
              k \in Sessions /\ session[k] # Unused
        /\ FirstStep(o) = "token" => k \in Tokens /\ token[k] # Unused
        /\ FirstStep(o) = "lookup" => k \in Users
    BY DEF FirstStep, KeysOf
  <2>9. session' = session /\ token' = token
    BY <2>3 DEF storeVars, sessionVars, tokenVars
  <2> HIDE DEF new
  <2>10. ASSUME NEW q \in Call, q = new PROVE CallsOK'
    <3>1. Ready(q)'
      BY <2>8, <2>9, <2>10 DEF Ready, new
    <3> QED
      BY <1>same, <2>2, <2>3, <2>10, <3>1, OneCallSteps DEF new
  <2> QED
    BY <1>same, <2>3, <2>7, <2>10
<1>3. ASSUME NEW c \in Calls, LookUp(c) PROVE TypeOK'
  BY <1>a, <1>b, <1>3, <1>same, CallEnds, CallMoves DEF LookUp
<1>4. ASSUME NEW c \in Calls, CreateSession(c) PROVE TypeOK'
  <2>1. call[c].who \in exists
    BY <1>a, <1>4 DEF CreateSession, Ready, At
  <2>2. RowsOK' /\ RowsStay
    BY <1>4, <2>1 DEF CreateSession, userVars, tokenVars, RowsOK, RowsStay
  <2> QED
    BY <1>4, <2>2, CallEnds DEF CreateSession
<1>5. ASSUME NEW c \in Calls, CreateToken(c) PROVE TypeOK'
  <2>1. call[c].who \in exists
    BY <1>a, <1>5 DEF CreateToken, Ready, At, Does
  <2>2. RowsOK' /\ RowsStay
    BY <1>5, <2>1 DEF CreateToken, userVars, sessionVars, RowsOK, RowsStay
  <2> QED
    BY <1>5, <2>2, CallEnds DEF CreateToken
<1>6. ASSUME NEW c \in Calls, Logout(c) \/ Purge(c) PROVE TypeOK'
  <2>1. RowsOK' /\ RowsStay
    BY <1>6 DEF Logout, Purge, userVars, tokenVars, RowsOK, RowsStay
  <2> QED
    BY <1>6, <2>1, CallEnds DEF Logout, Purge
<1>7. ASSUME NEW c \in Calls, GetSession(c) PROVE TypeOK'
  <2>1. CASE session[call[c].key] = Deleted
    BY <1>7, <2>1, <1>same, CallEnds DEF GetSession
  <2>2. CASE session[call[c].key] # Deleted /\ To(c, "purge")
    BY <1>a, <1>b, <1>7, <2>2, <1>same, CallMoves DEF GetSession, At
  <2>3. CASE session[call[c].key] # Deleted /\ Reads(c, session[call[c].key], "account")
    <3>1. session[call[c].key] \in exists
      BY <1>a, <1>7, <2>3 DEF GetSession, At, Ready, RowsOK
    <3> QED
      BY <1>a, <1>b, <1>7, <2>3, <3>1, <1>same, CallMoves DEF GetSession
  <2> QED
    BY <1>7, <2>1, <2>2, <2>3 DEF GetSession
<1>8. ASSUME NEW c \in Calls, GetUser(c) PROVE TypeOK'
  <2>1. call[c].who \in exists
    BY <1>a, <1>8 DEF GetUser, At, Ready
  <2> QED
    BY <1>b, <1>8, <2>1, <1>same, CallEnds, CallMoves DEF GetUser
<1>9. ASSUME NEW c \in Calls, Fails(c) \/ Serve(c) PROVE TypeOK'
  BY <1>9, <1>same, CallEnds DEF Fails, Serve
<1>10. ASSUME NEW c \in Calls, Revoke(c) PROVE TypeOK'
  <2>1. call[c].who \in exists
    BY <1>a, <1>10 DEF Revoke, Does, At, Ready
  <2>2. RowsOK' /\ RowsStay
    BY <1>10, <2>1 DEF Revoke, userVars, sessionVars, RowsOK, RowsStay
  <2> QED
    BY <1>10, <2>2, CallEnds DEF Revoke
<1>11. ASSUME NEW c \in Calls, CreateUser(c) PROVE TypeOK'
  <2>1. RowsOK' /\ RowsStay
    BY <1>11 DEF CreateUser, sessionVars, tokenVars, RowsOK, RowsStay
  <2> QED
    BY <1>11, <2>1, CallEnds, CallsOfActivated DEF CreateUser
<1>12. ASSUME NEW c \in Calls, Disable(c) \/ ResetPassword(c) PROVE TypeOK'
  <2>1. PICK u \in exists : WipeBegins(c, u) /\ disabled' \in {disabled, disabled \cup {u}}
    BY <1>12 DEF Disable, ResetPassword, WipeBegins
  <2>2. RowsOK' /\ RowsStay
    BY <2>1 DEF WipeBegins, SessionsOf, tokenVars, RowsOK, RowsStay
  <2> QED
    BY <1>b, <2>1, <2>2, CallMoves DEF WipeBegins
<1>13. ASSUME NEW c \in Calls, DeleteUserSessions(c) PROVE TypeOK'
  <2>1. RowsOK' /\ RowsStay
    BY <1>13 DEF DeleteUserSessions, userVars, tokenVars, RowsOK, RowsStay
  <2> QED
    BY <1>13, <2>1, CallEnds DEF DeleteUserSessions
<1>14. ASSUME NEW c \in Calls, Enable(c) PROVE TypeOK'
  <2>1. RowsOK' /\ RowsStay
    BY <1>14 DEF Enable, sessionVars, tokenVars, RowsOK, RowsStay
  <2> QED
    BY <1>b, <1>14, <2>1, CallEnds, CallsOfActivated DEF Enable
<1>15. ASSUME NEW c \in Calls, GetTokenByHash(c) PROVE TypeOK'
  <2>1. token[call[c].key] \in exists
    BY <1>a, <1>15 DEF GetTokenByHash, At, Ready, RowsOK
  <2> QED
    BY <1>b, <1>15, <2>1, <1>same, CallEnds, CallMoves DEF GetTokenByHash
<1>16. ASSUME NEW c \in Calls, GetOwner(c) PROVE TypeOK'
  BY <1>16, <1>same, CallEnds DEF GetOwner
<1>17. CASE UNCHANGED vars
  BY <1>17 DEF vars, storeVars, userVars, sessionVars, tokenVars, RowsOK, CallsOK, Ready
<1>18. CASE Restart
  <2>1. Over("idle") \in Call /\ Ready(Over("idle"))'
    BY DEF Over, Call, Steps, Ended, Ops, Ready
  <2>2. CallsOK'
    BY <1>18, <2>1 DEF Restart, CallsOK
  <2>3. RowsOK'
    BY <1>18 DEF Restart, userVars, tokenVars, RowsOK
  <2> QED
    BY <2>2, <2>3
<1> QED
  BY <1>1, <1>2, <1>3, <1>4, <1>5, <1>6, <1>7, <1>8, <1>9, <1>10, <1>11, <1>12,
     <1>13, <1>14, <1>15, <1>16, <1>17, <1>18 DEF Next, Statement

LEMMA TypeInit == Init => TypeOK
<1> SUFFICES ASSUME Init PROVE TypeOK
  OBVIOUS
<1> USE AccountsAssumption
<1>1. Over("idle") \in Call
  BY DEF Over, Call, Steps, Ended, Ops
<1>2. RowsOK
  BY DEF Init, RowsOK
<1>3. CallsOK
  BY <1>1 DEF Init, CallsOK, Ready, Over
<1> QED
  BY <1>2, <1>3 DEF TypeOK

\* Rows refer to users that exist and every call has read what its next statement
\* needs, however calls interleave.
THEOREM AccountsTypeCorrect == Spec => []TypeOK
BY TypeInit, TypeStep, PTL DEF Spec

-----------------------------------------------------------------------------

\* A session outlives its user's disable or reset only until the call that is to
\* delete it, or another that wipes the same user, has done so, failed to, or been
\* cut off (handlers_admin.go:51-52, 76-77).
LEMMA WipeStep == TypeOK /\ WipesAreComplete /\ [Next]_vars => WipesAreComplete'
<1> SUFFICES ASSUME TypeOK, WipesAreComplete, [Next]_vars,
                    NEW s \in owed', session'[s] \in Users
             PROVE  \E d \in Calls : (At(d, "sweep") /\ call[d].who = session[s])'
  BY DEF WipesAreComplete
<1> USE AccountsAssumption
<1> DEFINE Sweeps(d, u) == call[d].at = "sweep" /\ call[d].who = u
<1>rows. RowsOK /\ owed \subseteq Sessions /\ call \in [Calls -> Call]
  BY DEF TypeOK, RowsOK, CallsOK
<1>a. ASSUME s \in owed, session'[s] = session[s],
             \A d \in Calls : Sweeps(d, session[s]) => Sweeps(d, session[s])'
      PROVE  \E d \in Calls : (At(d, "sweep") /\ call[d].who = session[s])'
  <2>1. PICK d \in Calls : Sweeps(d, session[s])
    BY <1>a DEF WipesAreComplete, At
  <2> QED
    BY <1>a, <2>1 DEF At
<1>1. CASE Expire \/ UNCHANGED vars
  BY <1>1, <1>a DEF Expire, vars, storeVars, userVars, sessionVars, tokenVars
<1>2. ASSUME NEW c \in Calls, call[c].at # "sweep", owed' = owed,
             session'[s] = session[s],
             \A d \in Calls \ {c} : call'[d].at = call[d].at /\ call'[d].who = call[d].who
      PROVE  \E d \in Calls : (At(d, "sweep") /\ call[d].who = session[s])'
  BY <1>2, <1>a
<1>3. ASSUME NEW c \in Calls, UNCHANGED storeVars, call[c].at # "sweep",
             \A d \in Calls \ {c} : call'[d].at = call[d].at /\ call'[d].who = call[d].who
      PROVE  \E d \in Calls : (At(d, "sweep") /\ call[d].who = session[s])'
  BY <1>2, <1>3 DEF storeVars, sessionVars
<1>4. ASSUME NEW c \in Calls,
             Arrive(c) \/ LookUp(c) \/ GetSession(c) \/ GetUser(c) \/ Fails(c) \/ Serve(c)
               \/ GetTokenByHash(c) \/ GetOwner(c)
      PROVE  \E d \in Calls : (At(d, "sweep") /\ call[d].who = session[s])'
  BY <1>3, <1>4, <1>rows DEF Arrive, LookUp, GetSession, GetUser, Fails, Serve, GetTokenByHash,
     GetOwner, At, Does, To, Reads, Done, Rejected, Ended
<1>5. ASSUME NEW c \in Calls, CreateSession(c)
      PROVE  \E d \in Calls : (At(d, "sweep") /\ call[d].who = session[s])'
  <2>1. s \in owed /\ session[s] # Unused
    BY <1>5 DEF CreateSession, TypeOK, RowsOK
  <2>2. session'[s] = session[s]
    BY <1>5, <2>1, <1>rows DEF CreateSession, RowsOK
  <2> QED
    BY <1>2, <1>5, <2>2, <1>rows DEF CreateSession, At, Done
<1>6. ASSUME NEW c \in Calls, Logout(c) \/ Purge(c)
      PROVE  \E d \in Calls : (At(d, "sweep") /\ call[d].who = session[s])'
  <2>1. session'[s] = session[s]
    BY <1>6, <1>rows DEF Logout, Purge, RowsOK
  <2> QED
    BY <1>2, <1>6, <2>1, <1>rows DEF Logout, Purge, At, Done, Rejected
<1>7. ASSUME NEW c \in Calls, CreateToken(c) \/ Revoke(c)
      PROVE  \E d \in Calls : (At(d, "sweep") /\ call[d].who = session[s])'
  BY <1>2, <1>7, <1>rows DEF CreateToken, Revoke, At, Does, Done, sessionVars
<1>8. ASSUME NEW c \in Calls, NEW u \in Users, Activates(c, u), call[c].at = "act",
             UNCHANGED sessionVars
      PROVE  \E d \in Calls : (At(d, "sweep") /\ call[d].who = session[s])'
  <2>1. ASSUME NEW d \in Calls \ {c} PROVE call'[d].at = call[d].at /\ call'[d].who = call[d].who
    BY <1>8, <1>rows DEF Activates, Call
  <2> QED
    BY <1>2, <1>8, <2>1 DEF sessionVars
<1>9. ASSUME NEW c \in Calls, CreateUser(c)
      PROVE  \E d \in Calls : (At(d, "sweep") /\ call[d].who = session[s])'
  <2>1. CASE Rejected(c)
    BY <1>2, <1>9, <2>1, <1>rows DEF CreateUser, Rejected, Does, At, sessionVars
  <2>2. CASE \E u \in Users : Activates(c, u)
    BY <1>8, <1>9, <2>2 DEF CreateUser, Does, At
  <2> QED
    BY <1>9, <2>1, <2>2 DEF CreateUser
<1>10. ASSUME NEW c \in Calls, Enable(c)
       PROVE  \E d \in Calls : (At(d, "sweep") /\ call[d].who = session[s])'
  <2>1. CASE Done(c)
    BY <1>2, <1>10, <2>1, <1>rows DEF Enable, Done, Does, At, sessionVars
  <2>2. CASE \E u \in exists : Activates(c, u)
    BY <1>8, <1>10, <2>2, <1>rows DEF Enable, Does, At, RowsOK
  <2> QED
    BY <1>10, <2>1, <2>2 DEF Enable
<1>11. ASSUME NEW c \in Calls, Disable(c) \/ ResetPassword(c)
       PROVE  \E d \in Calls : (At(d, "sweep") /\ call[d].who = session[s])'
  <2>1. PICK u \in Users : WipeBegins(c, u) /\ call[c].at = "act"
    BY <1>11 DEF Disable, ResetPassword, Does, At
  <2>2. call' = [call EXCEPT ![c].who = u, ![c].at = "sweep"] /\ session' = session
    BY <2>1 DEF WipeBegins, Reads
  <2>3. CASE session[s] = u
    BY <2>2, <2>3, <1>rows DEF At, Call
  <2>4. CASE session[s] # u
    <3>1. s \in owed
      BY <2>1, <2>4 DEF WipeBegins, SessionsOf
    <3> QED
      BY <1>a, <2>1, <2>2, <3>1, <1>rows
  <2> QED
    BY <2>3, <2>4
<1>12. ASSUME NEW c \in Calls, DeleteUserSessions(c)
       PROVE  \E d \in Calls : (At(d, "sweep") /\ call[d].who = session[s])'
  <2>1. session[s] # call[c].who /\ session'[s] = session[s] /\ s \in owed
    BY <1>12, <1>rows DEF DeleteUserSessions, SessionsOf, RowsOK
  <2> QED
    BY <1>a, <1>12, <2>1, <1>rows DEF DeleteUserSessions, Done
<1>13. ~Restart
  <2>1. SUFFICES ASSUME Restart PROVE FALSE
    OBVIOUS
  <2>2. s \in owed /\ session[s] \in Users
    BY <2>1 DEF Restart
  <2>3. PICK d \in Calls : At(d, "sweep") /\ call[d].who = session[s]
    BY <2>2 DEF WipesAreComplete
  <2>4. s \in SessionsOf(call[d].who)
    BY <2>2, <2>3, <1>rows DEF SessionsOf
  <2> QED
    BY <2>1, <2>3, <2>4 DEF Restart
<1> QED
  BY <1>1, <1>4, <1>5, <1>6, <1>7, <1>9, <1>10, <1>11, <1>12, <1>13 DEF Next, Statement

\* However many disables, resets and logins of a user run at once, and whichever of
\* their statements fail or are cut off by a restart: no session from before a disable
\* or reset is left when the last of them is over, unless it is one whose deletion
\* failed or was cut off after it.
THEOREM WipesEndSessions == Spec => []WipesAreComplete
<1>1. Init => WipesAreComplete
  BY DEF Init, WipesAreComplete
<1> QED
  BY <1>1, TypeInit, TypeStep, WipeStep, PTL DEF Spec

-----------------------------------------------------------------------------

\* What each statement leaves of the rows: a session deleted or expired and a token
\* revoked stay so, and a row that is left belongs to the same user.
RowsAge ==
    /\ expired \subseteq expired' /\ revoked \subseteq revoked'
    /\ \A s \in Sessions : session[s] # Unused => session'[s] \in {session[s], Deleted}
    /\ \A t \in Tokens : token[t] # Unused => token'[t] = token[t]

LEMMA RowsDoAge == TypeOK /\ [Next]_vars => RowsAge
<1> SUFFICES ASSUME TypeOK, [Next]_vars PROVE RowsAge
  OBVIOUS
<1>rows. /\ session \in [Sessions -> exists \cup {Unused, Deleted}]
         /\ token \in [Tokens -> exists \cup {Unused}]
  BY DEF TypeOK, RowsOK
<1>same. ASSUME UNCHANGED storeVars PROVE RowsAge
  BY <1>same DEF storeVars, sessionVars, tokenVars, RowsAge
<1>1. CASE Expire \/ Restart \/ UNCHANGED vars
  BY <1>1 DEF Expire, Restart, vars, storeVars, sessionVars, tokenVars, RowsAge
<1>2. ASSUME NEW c \in Calls,
             Arrive(c) \/ LookUp(c) \/ GetSession(c) \/ GetUser(c) \/ Fails(c) \/ Serve(c)
               \/ GetTokenByHash(c) \/ GetOwner(c)
      PROVE  RowsAge
  BY <1>2, <1>same DEF Arrive, LookUp, GetSession, GetUser, Fails, Serve, GetTokenByHash,
     GetOwner
<1>3. ASSUME NEW c \in Calls, CreateSession(c) \/ Logout(c) \/ Purge(c) \/ DeleteUserSessions(c)
      PROVE  RowsAge
  BY <1>3, <1>rows DEF CreateSession, Logout, Purge, DeleteUserSessions, tokenVars, RowsAge
<1>4. ASSUME NEW c \in Calls, CreateToken(c) \/ Revoke(c) PROVE RowsAge
  BY <1>4, <1>rows DEF CreateToken, Revoke, sessionVars, RowsAge
<1>5. ASSUME NEW c \in Calls,
             CreateUser(c) \/ Disable(c) \/ ResetPassword(c) \/ Enable(c)
      PROVE  RowsAge
  BY <1>5 DEF CreateUser, Disable, ResetPassword, Enable, WipeBegins, sessionVars, tokenVars,
     RowsAge
<1> QED
  BY <1>1, <1>2, <1>3, <1>4, <1>5 DEF Next, Statement

\* A barred call is at a statement that can still refuse it: it has not passed the
\* check of what it lacks.
BarredWaits(r) ==
    /\ r.at = "logout" => r.op = "logout"
    /\ r.barred # None =>
          r.at \in {"lookup", "session", "purge", "account", "logout", "token", "owner"}
    /\ r.barred = Deleted => Dead(r.key) /\ r.at \in {"session", "purge", "logout", "token"}
    /\ r.barred \in Users =>
          /\ r.barred \notin exists \ disabled
          /\ r.at = "lookup" => r.key = r.barred
          /\ r.at = "session" => session[r.key] \in {r.barred, Deleted}
          /\ r.at = "token" => token[r.key] = r.barred
          /\ r.at \in {"account", "owner"} => r.who = r.barred

BarredInv == \A c \in Calls : BarredWaits(call[c])

LEMMA OverIsNotBarred ==
    ASSUME NEW c \in Calls, call \in [Calls -> Call], Done(c) \/ Rejected(c)
    PROVE  BarredWaits(call[c])'
BY AccountsAssumption DEF Done, Rejected, Over, BarredWaits

\* A barred call stays so while others run, unless its user becomes active.
LEMMA BarredStays ==
    ASSUME TypeOK, RowsAge, NEW c \in Calls, BarredWaits(call[c]), call'[c] = call[c],
           \A u \in Users \ (exists \ disabled) :
              call[c].barred = u => u \notin exists' \ disabled'
    PROVE  BarredWaits(call[c])'
<1> USE AccountsAssumption
<1>1. call[c] \in Call /\ Ready(call[c])
  BY DEF TypeOK, CallsOK
<1>2. CASE call[c].barred = Deleted
  <2>1. call[c].key \in Sessions /\ session[call[c].key] = Deleted
            => session'[call[c].key] = Deleted
    BY DEF RowsAge
  <2>2. Dead(call[c].key)'
    BY <1>2, <2>1 DEF BarredWaits, Dead, RowsAge
  <2> QED
    BY <1>2, <2>2 DEF BarredWaits
<1>3. CASE call[c].barred \in Users
  <2>1. call[c].at = "session" =>
            session'[call[c].key] \in {call[c].barred, Deleted}
    BY <1>1, <1>3 DEF BarredWaits, Ready, RowsAge
  <2>2. call[c].at = "token" => token'[call[c].key] = call[c].barred
    BY <1>1, <1>3 DEF BarredWaits, Ready, RowsAge
  <2> QED
    BY <1>1, <1>3, <2>1, <2>2 DEF BarredWaits
<1>4. CASE call[c].barred = None
  BY <1>4 DEF BarredWaits
<1> QED
  BY <1>1, <1>2, <1>3, <1>4 DEF Call

LEMMA BarredStep == TypeOK /\ BarredInv /\ [Next]_vars => BarredInv'
<1> SUFFICES ASSUME TypeOK, BarredInv, [Next]_vars, NEW d \in Calls
             PROVE  BarredWaits(call[d])'
  BY DEF BarredInv
<1> USE AccountsAssumption
<1>age. RowsAge
  BY RowsDoAge
<1>now. BarredWaits(call[d]) /\ call[d] \in Call /\ Ready(call[d])
  BY DEF BarredInv, TypeOK, CallsOK
<1>fun. call \in [Calls -> Call]
  BY DEF TypeOK, CallsOK
<1>rows. RowsOK
  BY DEF TypeOK
<1>a. ASSUME call'[d] = call[d], exists' \ disabled' \subseteq exists \ disabled
      PROVE  BarredWaits(call[d])'
  BY <1>a, <1>age, <1>now, BarredStays
<1>b. ASSUME NEW c \in Calls, NEW u \in Users, Activates(c, u),
             exists' \ disabled' \subseteq (exists \ disabled) \cup {u}
      PROVE  BarredWaits(call[d])'
  <2>1. CASE d = c
    BY <1>b, <2>1 DEF Activates, Over, BarredWaits
  <2>2. CASE d # c /\ call[d].barred = u
    <3>1. call'[d] = [call[d] EXCEPT !.barred = None]
      BY <1>b, <2>2 DEF Activates
    <3>2. call'[d].barred = None /\ call'[d].at = call[d].at /\ call'[d].op = call[d].op
      BY <1>now, <3>1 DEF Call
    <3> QED
      BY <1>now, <3>2 DEF BarredWaits
  <2>3. CASE d # c /\ call[d].barred # u
    <3>1. call'[d] = call[d]
      BY <1>b, <2>3 DEF Activates
    <3> QED
      BY <1>b, <1>age, <1>now, <2>3, <3>1, BarredStays
  <2> QED
    BY <2>1, <2>2, <2>3
<1>1. CASE Expire \/ UNCHANGED vars
  BY <1>1, <1>a DEF Expire, vars, storeVars, userVars
<1>0. CASE Restart
  BY <1>0 DEF Restart, Over, BarredWaits
<1>2. ASSUME NEW c \in Calls, Arrive(c) PROVE BarredWaits(call[d])'
  <2>1. UNCHANGED storeVars
    BY <1>2 DEF Arrive
  <2>2. PICK o \in Ops : \E k \in KeysOf(o) :
          call' = [call EXCEPT ![c] = [at |-> FirstStep(o), op |-> o, key |-> k,
                                       who |-> None, barred |-> Barred(k)]]
    BY <1>2 DEF Arrive
  <2>3. PICK k \in KeysOf(o) :
          call' = [call EXCEPT ![c] = [at |-> FirstStep(o), op |-> o, key |-> k,
                                       who |-> None, barred |-> Barred(k)]]
    BY <2>2
  <2>4. CASE d # c
    BY <1>a, <2>1, <2>3, <2>4, <1>fun DEF storeVars, userVars
  <2>5. CASE d = c
    <3> DEFINE b == Barred(k)
    <3>1. call'[d].at = FirstStep(o) /\ call'[d].op = o /\ call'[d].key = k /\ call'[d].barred = b
      BY <2>3, <2>5, <1>fun
    <3>2. FirstStep(o) \in {"lookup", "session", "logout", "token"}
          /\ (FirstStep(o) = "logout" => o = "logout")
          /\ (FirstStep(o) = "lookup" => k \in Users)
          /\ (FirstStep(o) = "session" => k \in Sessions)
          /\ (FirstStep(o) = "token" => k \in Tokens)
      BY DEF FirstStep, KeysOf, Logins
    <3>3. b = Deleted => Dead(k) /\ k \notin Users
      BY <1>rows DEF Barred, Dead, OwnerOf, KeysOf, RowsOK
    <3>4. b \in Users => b = OwnerOf(k) /\ b \notin exists \ disabled
      BY DEF Barred
    <3>5. Dead(k) => Dead(k)'
      BY <2>1 DEF Dead, storeVars, sessionVars, tokenVars
    <3> HIDE DEF b
    <3>6. b \in Users =>
            /\ FirstStep(o) = "lookup" => k = b
            /\ FirstStep(o) = "session" => session[k] = b
            /\ FirstStep(o) = "token" => token[k] = b
      BY <3>2, <3>4 DEF OwnerOf
    <3>7. exists' = exists /\ disabled' = disabled /\ session' = session /\ token' = token
      BY <2>1 DEF storeVars, userVars, sessionVars, tokenVars
    <3>8. Dead(call[d].key)' <=> Dead(k)'
      BY <3>1 DEF Dead
    <3> QED
      BY <3>1, <3>2, <3>3, <3>4, <3>5, <3>6, <3>7, <3>8 DEF BarredWaits
  <2> QED
    BY <2>4, <2>5
<1>c. ASSUME NEW c \in Calls, Done(c) \/ Rejected(c),
             exists' \ disabled' \subseteq exists \ disabled
      PROVE  BarredWaits(call[d])'
  <2>1. CASE d = c
    BY <1>c, <1>fun, <2>1, OverIsNotBarred
  <2>2. CASE d # c
    BY <1>a, <1>c, <1>fun, <2>2 DEF Done, Rejected
  <2> QED
    BY <2>1, <2>2
<1>d. ASSUME NEW c \in Calls, NEW u, NEW step,
             Reads(c, u, step) \/ (To(c, step) /\ u = call[c].who),
             exists' \ disabled' \subseteq exists \ disabled,
             step # "logout", call[c].barred = None
      PROVE  BarredWaits(call[d])'
  <2>1. CASE d = c
    <3>1. call'[d].barred = call[d].barred /\ call'[d].at = step
      BY <1>d, <1>now, <1>fun, <2>1 DEF Reads, To, Call
    <3> QED
      BY <1>d, <2>1, <3>1 DEF BarredWaits
  <2>2. CASE d # c
    BY <1>a, <1>d, <1>fun, <2>2 DEF Reads, To
  <2> QED
    BY <2>1, <2>2
<1>3. ASSUME NEW c \in Calls,
             CreateSession(c) \/ CreateToken(c) \/ Logout(c) \/ Purge(c) \/ Fails(c) \/ Serve(c)
               \/ Revoke(c) \/ DeleteUserSessions(c)
      PROVE  BarredWaits(call[d])'
  BY <1>3, <1>c DEF CreateSession, CreateToken, Logout, Purge, Fails, Serve, Revoke,
     DeleteUserSessions, userVars, storeVars
<1>4. ASSUME NEW c \in Calls, LookUp(c) PROVE BarredWaits(call[d])'
  <2>1. UNCHANGED storeVars
    BY <1>4 DEF LookUp
  <2>2. CASE Rejected(c)
    BY <1>c, <2>1, <2>2 DEF storeVars, userVars
  <2>3. CASE call[c].key \in exists \ disabled /\ Reads(c, call[c].key, "mint")
    <3>1. call[c].barred = None
      BY <1>4, <1>fun, <2>3 DEF LookUp, At, BarredInv, BarredWaits, Call
    <3> QED
      BY <1>d, <2>1, <2>3, <3>1 DEF storeVars, userVars
  <2> QED
    BY <1>4, <2>2, <2>3 DEF LookUp
<1>5. ASSUME NEW c \in Calls, GetSession(c) PROVE BarredWaits(call[d])'
  <2>1. UNCHANGED storeVars
    BY <1>5 DEF GetSession
  <2>2. CASE Rejected(c)
    BY <1>c, <2>1, <2>2 DEF storeVars, userVars
  <2>3. CASE d # c
    BY <1>5, <1>a, <1>fun, <2>1, <2>3 DEF GetSession, To, Reads, Rejected, storeVars, userVars
  <2>4. CASE d = c /\ To(c, "purge")
    <3>1. /\ call'[d].at = "purge" /\ call'[d].op = call[d].op /\ call'[d].key = call[d].key
          /\ call'[d].barred = call[d].barred
      BY <1>now, <1>fun, <2>4 DEF To, Call
    <3>2. Dead(call[d].key)' <=> Dead(call[d].key)
      BY <2>1, <3>1 DEF Dead, storeVars, sessionVars, tokenVars
    <3> QED
      BY <1>now, <2>1, <3>1, <3>2 DEF BarredWaits, storeVars, userVars
  <2>5. CASE d = c /\ session[call[c].key] # Deleted /\ call[c].key \notin expired
                   /\ Reads(c, session[call[c].key], "account")
    <3>1. /\ call'[d].at = "account" /\ call'[d].barred = call[d].barred
          /\ call'[d].who = session[call[d].key]
      BY <1>now, <1>fun, <2>5 DEF Reads, Call
    <3>2. call[d].key \in Sessions /\ call[d].at = "session"
      BY <1>5, <1>now, <2>5 DEF GetSession, At, Ready
    <3>3. call[d].barred # Deleted
      BY <1>now, <1>rows, <2>5, <3>2 DEF BarredWaits, Dead, RowsOK
    <3>4. call[d].barred \in Users => call'[d].who = call[d].barred
      BY <1>now, <2>5, <3>1, <3>2 DEF BarredWaits
    <3> QED
      BY <1>now, <2>1, <3>1, <3>3, <3>4 DEF BarredWaits, storeVars, userVars
  <2> QED
    BY <1>5, <2>2, <2>3, <2>4, <2>5 DEF GetSession
<1>6. ASSUME NEW c \in Calls, GetUser(c) PROVE BarredWaits(call[d])'
  <2>1. UNCHANGED storeVars
    BY <1>6 DEF GetUser
  <2>2. CASE Rejected(c)
    BY <1>c, <2>1, <2>2 DEF storeVars, userVars
  <2>3. CASE call[c].who \notin disabled /\ To(c, "act")
    <3>1. call[c].who \in exists
      BY <1>6 DEF GetUser, At, TypeOK, CallsOK, Ready
    <3>2. call[c].barred = None
      BY <1>6, <1>fun, <2>3, <3>1 DEF GetUser, At, BarredInv, BarredWaits, Call
    <3> QED
      BY <1>d, <2>1, <2>3, <3>2 DEF storeVars, userVars
  <2> QED
    BY <1>6, <2>2, <2>3 DEF GetUser
<1>7. ASSUME NEW c \in Calls, CreateUser(c) PROVE BarredWaits(call[d])'
  <2>1. CASE Rejected(c) /\ UNCHANGED <<exists, admin>>
    BY <1>7, <1>c, <2>1 DEF CreateUser
  <2>2. CASE \E u \in Users : exists' = exists \cup {u} /\ Activates(c, u)
    BY <1>7, <1>b, <2>2 DEF CreateUser
  <2> QED
    BY <1>7, <2>1, <2>2 DEF CreateUser
<1>8. ASSUME NEW c \in Calls, Enable(c) PROVE BarredWaits(call[d])'
  BY <1>8, <1>b, <1>c, <1>rows DEF Enable, RowsOK
<1>9. ASSUME NEW c \in Calls, Disable(c) \/ ResetPassword(c) PROVE BarredWaits(call[d])'
  <2>1. PICK u \in Users : WipeBegins(c, u) /\ disabled' \in {disabled, disabled \cup {u}}
    BY <1>9 DEF Disable, ResetPassword
  <2>2. call[c].at = "act"
    BY <1>9 DEF Disable, ResetPassword, Does, At
  <2>3. call[c].barred = None
    BY <2>2, <1>fun DEF BarredInv, BarredWaits, Call
  <2> QED
    BY <1>d, <2>1, <2>3 DEF WipeBegins
<1>10. ASSUME NEW c \in Calls, GetTokenByHash(c) PROVE BarredWaits(call[d])'
  <2>1. UNCHANGED storeVars
    BY <1>10 DEF GetTokenByHash
  <2>2. CASE Rejected(c)
    BY <1>c, <2>1, <2>2 DEF storeVars, userVars
  <2>3. CASE d # c
    BY <1>10, <1>a, <1>fun, <2>1, <2>3 DEF GetTokenByHash, Reads, Rejected, storeVars, userVars
  <2>4. CASE d = c /\ call[c].key \notin revoked /\ Reads(c, token[call[c].key], "owner")
    <3>1. /\ call'[d].at = "owner" /\ call'[d].barred = call[d].barred
          /\ call'[d].who = token[call[d].key]
      BY <1>now, <1>fun, <2>4 DEF Reads, Call
    <3>2. call[d].key \in Tokens /\ call[d].at = "token"
      BY <1>10, <1>now, <2>4 DEF GetTokenByHash, At, Ready
    <3>3. call[d].barred # Deleted
      BY <1>now, <2>4, <3>2 DEF BarredWaits, Dead
    <3>4. call[d].barred \in Users => call'[d].who = call[d].barred
      BY <1>now, <3>1, <3>2 DEF BarredWaits
    <3> QED
      BY <1>now, <2>1, <3>1, <3>3, <3>4 DEF BarredWaits, storeVars, userVars
  <2> QED
    BY <1>10, <2>2, <2>3, <2>4 DEF GetTokenByHash
<1>11. ASSUME NEW c \in Calls, GetOwner(c) PROVE BarredWaits(call[d])'
  BY <1>11, <1>c DEF GetOwner, storeVars, userVars
<1> QED
  BY <1>0, <1>1, <1>2, <1>3, <1>4, <1>5, <1>6, <1>7, <1>8, <1>9, <1>10, <1>11
  DEF Next, Statement

LEMMA BarredFail ==
    TypeOK /\ BarredInv /\ [Next]_vars =>
        \A d \in Calls : call[d].barred # None /\ call[d].op # "logout"
                            => call'[d].at \notin {"done", "sweep"}
<1> SUFFICES ASSUME TypeOK, BarredInv, [Next]_vars, NEW d \in Calls,
                    call[d].barred # None, call[d].op # "logout"
             PROVE  call'[d].at \notin {"done", "sweep"}
  OBVIOUS
<1> USE AccountsAssumption
<1>now. BarredWaits(call[d]) /\ call[d] \in Call /\ Ready(call[d])
  BY DEF BarredInv, TypeOK, CallsOK
<1>fun. call \in [Calls -> Call]
  BY DEF TypeOK, CallsOK
<1>at. call[d].at \in {"lookup", "session", "purge", "account", "token", "owner"}
  BY <1>now DEF BarredWaits
<1>a. ASSUME call'[d].at = call[d].at PROVE call'[d].at \notin {"done", "sweep"}
  BY <1>a, <1>at
<1>b. ASSUME NEW c \in Calls, c # d,
             \/ Done(c) \/ Rejected(c) \/ \E u, step : Reads(c, u, step) \/ To(c, step)
             \/ \E u \in Users : Activates(c, u)
      PROVE  call'[d].at = call[d].at
  <2>1. CASE \E u \in Users : Activates(c, u)
    BY <1>b, <1>now, <2>1 DEF Activates, Call
  <2>2. CASE Done(c) \/ Rejected(c) \/ \E u, step : Reads(c, u, step) \/ To(c, step)
    BY <1>b, <1>fun, <2>2 DEF Done, Rejected, Reads, To
  <2> QED
    BY <1>b, <2>1, <2>2
<1>1. CASE Expire \/ Restart \/ UNCHANGED vars
  BY <1>1, <1>a DEF Expire, Restart, Over, vars
<1>2. ASSUME NEW c \in Calls, Arrive(c) PROVE call'[d].at \notin {"done", "sweep"}
  BY <1>2, <1>a, <1>at, <1>fun DEF Arrive, Ended, FirstStep
<1>3. ASSUME NEW c \in Calls, c # d, Statement(c) PROVE call'[d].at \notin {"done", "sweep"}
  <2>1. CASE CreateUser(c) \/ Enable(c)
    BY <1>3, <1>a, <1>b, <2>1 DEF CreateUser, Enable, TypeOK, RowsOK
  <2>2. CASE \/ LookUp(c) \/ CreateSession(c) \/ CreateToken(c) \/ Logout(c) \/ GetSession(c)
             \/ Purge(c) \/ GetUser(c) \/ Fails(c)
    BY <1>3, <1>a, <1>b, <2>2 DEF LookUp, CreateSession, CreateToken, Logout, GetSession, Purge,
       GetUser, Fails
  <2>3. CASE \/ Serve(c) \/ Revoke(c) \/ DeleteUserSessions(c) \/ GetTokenByHash(c) \/ GetOwner(c)
    BY <1>3, <1>a, <1>b, <2>3 DEF Serve, Revoke, DeleteUserSessions, GetTokenByHash, GetOwner
  <2>4. CASE Disable(c) \/ ResetPassword(c)
    BY <1>3, <1>a, <1>b, <2>4 DEF Disable, ResetPassword, WipeBegins
  <2> QED
    BY <1>3, <2>1, <2>2, <2>3, <2>4 DEF Statement
<1>4. CASE Statement(d)
  <2>1. CASE LookUp(d) \/ GetSession(d) \/ Purge(d) \/ GetUser(d) \/ Fails(d) \/ GetTokenByHash(d)
    <3>1. \/ Rejected(d)
          \/ \E step \in {"mint", "purge", "account", "act", "owner"} :
                To(d, step) \/ \E u : Reads(d, u, step)
      BY <2>1 DEF LookUp, GetSession, Purge, GetUser, Fails, GetTokenByHash
    <3>2. CASE Rejected(d)
      BY <1>fun, <3>2 DEF Rejected, Over
    <3>3. CASE \E step \in {"mint", "purge", "account", "act", "owner"} : To(d, step)
      BY <1>now, <1>fun, <3>3 DEF To, Call
    <3>4. CASE \E step \in {"mint", "purge", "account", "act", "owner"} : \E u : Reads(d, u, step)
      <4>1. PICK step \in {"mint", "purge", "account", "act", "owner"} : \E u : Reads(d, u, step)
        BY <3>4
      <4>2. PICK u : call' = [call EXCEPT ![d].who = u, ![d].at = step]
        BY <4>1 DEF Reads
      <4> QED
        BY <1>now, <1>fun, <4>2 DEF Call
    <3> QED
      BY <3>1, <3>2, <3>3, <3>4
  <2>2. CASE GetOwner(d)
    <3>1. call[d].barred \in Users /\ call[d].who = call[d].barred /\ call[d].who \in exists
      BY <1>now, <2>2 DEF GetOwner, At, BarredWaits, Ready, Call
    <3>2. Rejected(d)
      BY <1>now, <2>2, <3>1 DEF GetOwner, BarredWaits
    <3> QED
      BY <1>fun, <3>2 DEF Rejected, Over
  <2> QED
    BY <1>4, <1>at, <2>1, <2>2 DEF Statement, CreateSession, CreateToken, Logout, Serve, Revoke,
       CreateUser, Disable, ResetPassword, DeleteUserSessions, Enable, At, Does
<1> QED
  BY <1>1, <1>2, <1>3, <1>4 DEF Next

\* A key that is dead when a call begins, or whose user is inactive from then on,
\* lets no call through, whatever other calls do between its statements
\* (middleware.go:47, 80, 88; handlers_auth.go:19).
THEOREM BarredAreRefused == Spec => BarredAreRejected
<1>1. Init => BarredInv
  <2> SUFFICES ASSUME Init, NEW c \in Calls PROVE BarredWaits(call[c])
    BY DEF BarredInv
  <2>1. call[c].at = "idle" /\ call[c].barred = None
    BY DEF Init, Over
  <2> QED
    BY <2>1, AccountsAssumption DEF BarredWaits
<1>2. TypeOK /\ BarredInv /\ [Next]_vars =>
        [\A c \in Calls : call[c].barred # None /\ call[c].op # "logout"
                            => call'[c].at \notin {"done", "sweep"}]_vars
  BY BarredFail
<1> QED
  BY <1>1, <1>2, TypeInit, TypeStep, BarredStep, PTL DEF Spec, BarredAreRejected
-----------------------------------------------------------------------------

\* A call that is to revoke a token came with a session of the user it has read,
\* or the session has been deleted since.
CameWithSession(r) ==
    r.op = "revoke" /\ r.at \in {"account", "act"} =>
        r.key \in Sessions /\ session[r.key] \in {r.who, Deleted}

SessionOfCaller == \A c \in Calls : CameWithSession(call[c])

\* A session stays its user's, or is deleted.
LEMMA SessionStays ==
    ASSUME TypeOK, RowsAge, NEW c \in Calls, CameWithSession(call[c]),
           \/ call'[c].at \notin {"account", "act"} \/ call'[c].op # "revoke"
           \/ /\ call[c].at \in {"account", "act"}
              /\ call'[c].op = call[c].op /\ call'[c].who = call[c].who
              /\ call'[c].key = call[c].key
    PROVE  CameWithSession(call[c])'
<1> USE AccountsAssumption
<1>1. Ready(call[c]) /\ exists \subseteq Users
  BY DEF TypeOK, CallsOK, RowsOK
<1>2. CASE call'[c].at \notin {"account", "act"} \/ call'[c].op # "revoke"
  BY <1>2 DEF CameWithSession
<1>3. CASE /\ call[c].at \in {"account", "act"} /\ call[c].op = "revoke"
           /\ call'[c].who = call[c].who /\ call'[c].key = call[c].key
  <2>1. call[c].key \in Sessions /\ session[call[c].key] \in {call[c].who, Deleted}
    BY <1>3 DEF CameWithSession
  <2>2. call[c].who # Unused
    BY <1>1, <1>3 DEF Ready
  <2>3. session'[call[c].key] \in {call[c].who, Deleted}
    BY <2>1, <2>2 DEF RowsAge
  <2> QED
    BY <1>3, <2>1, <2>3 DEF CameWithSession
<1> QED
  BY <1>2, <1>3

LEMMA SessionOfCallerStep == TypeOK /\ SessionOfCaller /\ [Next]_vars => SessionOfCaller'
<1> SUFFICES ASSUME TypeOK, SessionOfCaller, [Next]_vars, NEW d \in Calls
             PROVE  CameWithSession(call[d])'
  BY DEF SessionOfCaller
<1>age. RowsAge
  BY RowsDoAge
<1>now. CameWithSession(call[d]) /\ call[d] \in Call /\ Ready(call[d])
  BY DEF SessionOfCaller, TypeOK, CallsOK
<1>fun. call \in [Calls -> Call]
  BY DEF TypeOK, CallsOK
<1>a. ASSUME call'[d] = call[d] PROVE CameWithSession(call[d])'
  BY <1>a, <1>age, <1>now, SessionStays
<1>b. ASSUME call'[d].at \notin {"account", "act"} PROVE CameWithSession(call[d])'
  BY <1>b DEF CameWithSession
<1>1. CASE Expire \/ Restart \/ UNCHANGED vars
  BY <1>1, <1>a, <1>b DEF Expire, Restart, Over, vars
<1>2. ASSUME NEW c \in Calls, Arrive(c) PROVE CameWithSession(call[d])'
  BY <1>2, <1>a, <1>b, <1>fun DEF Arrive, FirstStep
<1>3. ASSUME NEW c \in Calls, Done(c) \/ Rejected(c) PROVE CameWithSession(call[d])'
  BY <1>3, <1>a, <1>b, <1>fun DEF Done, Rejected, Over
<1>4. ASSUME NEW c \in Calls, NEW step \in {"mint", "purge", "sweep", "owner"},
             To(c, step) \/ \E u : Reads(c, u, step)
      PROVE  CameWithSession(call[d])'
  <2>1. CASE d # c
    BY <1>4, <1>a, <1>fun, <2>1 DEF To, Reads
  <2>2. CASE d = c /\ To(c, step)
    BY <1>4, <1>b, <1>fun, <1>now, <2>2 DEF To, Call
  <2>3. CASE d = c /\ \E u : Reads(c, u, step)
    <3>1. PICK u : call' = [call EXCEPT ![c].who = u, ![c].at = step]
      BY <2>3 DEF Reads
    <3>2. call'[d].at = step
      BY <1>fun, <1>now, <2>3, <3>1 DEF Call
    <3> QED
      BY <1>b, <3>2
  <2> QED
    BY <1>4, <2>1, <2>2, <2>3
<1>5. ASSUME NEW c \in Calls, NEW u \in Users, Activates(c, u)
      PROVE  CameWithSession(call[d])'
  <2>1. CASE d = c
    BY <1>5, <1>b, <2>1 DEF Activates, Over
  <2>2. CASE d # c /\ call[d].barred = u
    <3>1. call'[d] = [call[d] EXCEPT !.barred = None]
      BY <1>5, <2>2 DEF Activates
    <3>2. /\ call'[d].at = call[d].at /\ call'[d].op = call[d].op
          /\ call'[d].who = call[d].who /\ call'[d].key = call[d].key
      BY <1>now, <3>1 DEF Call
    <3> QED
      BY <1>age, <1>now, <3>2, SessionStays
  <2>3. CASE d # c /\ call[d].barred # u
    BY <1>5, <1>a, <2>3 DEF Activates
  <2> QED
    BY <2>1, <2>2, <2>3
<1>6. ASSUME NEW c \in Calls, GetSession(c) PROVE CameWithSession(call[d])'
  <2>1. CASE Rejected(c) \/ To(c, "purge")
    BY <1>3, <1>4, <2>1
  <2>2. CASE Reads(c, session[call[c].key], "account") /\ UNCHANGED storeVars
    <3>1. CASE d # c
      BY <1>a, <1>fun, <2>2, <3>1 DEF Reads
    <3>2. CASE d = c
      <4>1. call'[d].key = call[d].key /\ call'[d].who = session[call[d].key]
        BY <1>fun, <1>now, <2>2, <3>2 DEF Reads, Call
      <4>2. call[d].key \in Sessions
        BY <1>6, <1>now, <3>2 DEF GetSession, At, Ready
      <4> QED
        BY <2>2, <4>1, <4>2 DEF CameWithSession, storeVars, sessionVars
    <3> QED
      BY <3>1, <3>2
  <2> QED
    BY <1>6, <2>1, <2>2 DEF GetSession
<1>7. ASSUME NEW c \in Calls, GetUser(c) PROVE CameWithSession(call[d])'
  <2>1. CASE Rejected(c)
    BY <1>3, <2>1
  <2>2. CASE d # c /\ To(c, "act")
    BY <1>a, <1>fun, <2>2 DEF To
  <2>3. CASE d = c /\ To(c, "act")
    <3>1. /\ call[d].at \in {"account", "act"} /\ call'[d].op = call[d].op
          /\ call'[d].who = call[d].who /\ call'[d].key = call[d].key
      BY <1>7, <1>fun, <1>now, <2>3 DEF GetUser, At, To, Call
    <3> QED
      BY <1>age, <1>now, <3>1, SessionStays
  <2> QED
    BY <1>7, <2>1, <2>2, <2>3 DEF GetUser
<1>8. ASSUME NEW c \in Calls,
             \/ LookUp(c) \/ CreateSession(c) \/ CreateToken(c) \/ Logout(c) \/ Purge(c)
             \/ Fails(c) \/ Serve(c) \/ Revoke(c) \/ DeleteUserSessions(c)
             \/ GetTokenByHash(c) \/ GetOwner(c) \/ Disable(c) \/ ResetPassword(c)
      PROVE  CameWithSession(call[d])'
  BY <1>8, <1>3, <1>4 DEF LookUp, CreateSession, CreateToken, Logout, Purge, Fails, Serve,
     Revoke, DeleteUserSessions, GetTokenByHash, GetOwner, Disable, ResetPassword, WipeBegins
<1>9. ASSUME NEW c \in Calls, CreateUser(c) \/ Enable(c) PROVE CameWithSession(call[d])'
  BY <1>9, <1>3, <1>5 DEF CreateUser, Enable, TypeOK, RowsOK
<1> QED
  BY <1>1, <1>2, <1>6, <1>7, <1>8, <1>9 DEF Next, Statement

LEMMA OwnersRevoke ==
    TypeOK /\ SessionOfCaller /\ [Next]_vars =>
        \A t \in revoked' \ revoked : \E c \in Calls :
            Does(c, "revoke") /\ session[call[c].key] \in {token[t], Deleted}
<1> SUFFICES ASSUME TypeOK, SessionOfCaller, [Next]_vars, NEW t \in revoked' \ revoked
             PROVE  \E c \in Calls :
                        Does(c, "revoke") /\ session[call[c].key] \in {token[t], Deleted}
  OBVIOUS
<1>1. \E c \in Calls : Revoke(c)
  BY DEF Next, Statement, Expire, Restart, Arrive, LookUp, CreateSession, CreateToken, Logout, GetSession,
     Purge, GetUser, Fails, Serve, CreateUser, Disable, ResetPassword, WipeBegins,
     DeleteUserSessions, Enable, GetTokenByHash, GetOwner, vars, storeVars, tokenVars
<1>2. PICK c \in Calls : Revoke(c)
  BY <1>1
<1>3. token[t] = call[c].who
  BY <1>2 DEF Revoke
<1>4. session[call[c].key] \in {call[c].who, Deleted}
  BY <1>2 DEF Revoke, Does, At, SessionOfCaller, CameWithSession
<1> QED
  BY <1>2, <1>3, <1>4 DEF Revoke

\* A token is revoked only by a call that came with a session of the token's user,
\* however the rows change between its statements (tokens.go:70-71).
THEOREM RevokersAreOwners == Spec => OnlyOwnersRevoke
<1>1. Init => SessionOfCaller
  <2> SUFFICES ASSUME Init, NEW c \in Calls PROVE CameWithSession(call[c])
    BY DEF SessionOfCaller
  <2>1. call[c].at = "idle"
    BY DEF Init, Over
  <2> QED
    BY <2>1 DEF CameWithSession
<1>2. TypeOK /\ SessionOfCaller /\ [Next]_vars =>
        [\A t \in revoked' \ revoked : \E c \in Calls :
            Does(c, "revoke") /\ session[call[c].key] \in {token[t], Deleted}]_vars
  BY OwnersRevoke
<1> QED
  BY <1>1, <1>2, TypeInit, TypeStep, SessionOfCallerStep, PTL DEF Spec, OnlyOwnersRevoke
=============================================================================
