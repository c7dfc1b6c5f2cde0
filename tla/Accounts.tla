------------------------------- MODULE Accounts -------------------------------
(***************************************************************************)
(* Users, sessions and API tokens: internal/store, internal/auth and the    *)
(* handlers of internal/host/portal that use them.                          *)
(*                                                                          *)
(* A call is one HTTP request to the portal, or the token check of one       *)
(* tunnel handshake. It runs several SQL statements, each atomic (SQLite, one *)
(* connection), with no transaction around them: one action per statement,   *)
(* so calls interleave between statements. What a call read before stays in  *)
(* it while the rows change. Passwords are right or wrong; ids are never used *)
(* again.                                                                    *)
(*                                                                          *)
(* Every statement may fail. After a read or an insert the handler gives up;  *)
(* the errors of updates and deletes it drops, and goes on as if they had     *)
(* changed their rows. The host may end between any two statements, by a stop *)
(* or a crash: the calls it serves are cut, the rows stay for the next start. *)
(***************************************************************************)
CONSTANTS Calls,      \* requests served at the same time
          Users,      \* user rows, and the user names
          Bootstrap,  \* the user that BootstrapAdmin creates
          Sessions, Tokens,
          None, Unused, Deleted

ASSUME AccountsAssumption ==
    /\ Bootstrap \in Users
    /\ {None, Unused, Deleted} \cap Users = {}
    /\ Users \cap Sessions = {} /\ Users \cap Tokens = {} /\ Sessions \cap Tokens = {}
    /\ None \notin Sessions \cup Tokens
    /\ None # Unused /\ None # Deleted /\ Unused # Deleted

VARIABLES
    exists, admin, disabled,  \* sets of users: the users table
    session,    \* [Sessions -> its user, Unused or Deleted]
    expired,    \* sessions past expires_at
    token,      \* [Tokens -> its user or Unused]
    revoked,    \* tokens with revoked = 1
    call,       \* [Calls -> Call]
    owed        \* for a property: sessions there were when their user was last
                \* disabled or reset, unless a deletion that was to end them has
                \* failed, or was cut off, since

userVars    == <<exists, admin, disabled>>
sessionVars == <<session, expired, owed>>
tokenVars   == <<token, revoked>>
storeVars   == <<userVars, sessionVars, tokenVars>>
vars == <<storeVars, call>>

Logins   == {"login", "apiLogin"}
AdminOps == {"createUser", "disable", "enable", "reset"}
Ops      == Logins \cup AdminOps \cup
                {"page", "createToken", "revoke", "logout", "handshake"}

Ended == {"idle", "done", "rejected"}
Steps == Ended \cup
    {"lookup", "mint", "session", "purge", "account", "act", "sweep", "logout", "token", "owner"}

\* at: the statement it is about to run, or how it ended; key: the credential or
\* user name it brought; who: the user row it has read. barred, for a property:
\* Deleted if the key was dead when the call began; its user if that one was not
\* active then, nor since; None else.
Call == [at : Steps, op : Ops, key : Users \cup Sessions \cup Tokens \cup {None},
         who : Users \cup {None}, barred : Users \cup {None, Deleted}]

Over(how) == [at |-> how, op |-> "page", key |-> None, who |-> None, barred |-> None]

\* The rows as BootstrapAdmin leaves an empty database.
Init ==
    /\ exists = {Bootstrap} /\ admin = {Bootstrap} /\ disabled = {}
    /\ session = [s \in Sessions |-> Unused] /\ expired = {}
    /\ token = [t \in Tokens |-> Unused] /\ revoked = {}
    /\ call = [c \in Calls |-> Over("idle")]
    /\ owed = {}

At(c, step)    == call[c].at = step
Does(c, op)    == At(c, "act") /\ call[c].op = op
To(c, step)    == call' = [call EXCEPT ![c].at = step]
Reads(c, u, step) == call' = [call EXCEPT ![c].who = u, ![c].at = step]
Done(c)        == call' = [call EXCEPT ![c] = Over("done")]
Rejected(c)    == call' = [call EXCEPT ![c] = Over("rejected")]

-----------------------------------------------------------------------------
(* A call arrives: with a name to log in, the cookie of a session, or a token. *)

KeysOf(o) ==
    IF o \in Logins THEN Users
    ELSE IF o = "handshake" THEN {t \in Tokens : token[t] # Unused}
    ELSE {s \in Sessions : session[s] # Unused}

FirstStep(o) ==
    IF o \in Logins THEN "lookup"
    ELSE IF o = "handshake" THEN "token"
    ELSE IF o = "logout" THEN "logout" ELSE "session"

Dead(k) ==
    \/ k \in Sessions /\ (session[k] = Deleted \/ k \in expired)
    \/ k \in revoked

OwnerOf(k) ==
    IF k \in Sessions THEN session[k] ELSE IF k \in Tokens THEN token[k] ELSE k

Barred(k) ==
    IF Dead(k) THEN Deleted
    ELSE IF OwnerOf(k) \in exists \ disabled THEN None ELSE OwnerOf(k)

Arrive(c) ==
    /\ call[c].at \in Ended
    /\ \E o \in Ops : \E k \in KeysOf(o) :
          call' = [call EXCEPT ![c] = [at |-> FirstStep(o), op |-> o, key |-> k,
                                       who |-> None, barred |-> Barred(k)]]
    /\ UNCHANGED storeVars

\* A user becomes active, so its keys are barred no more; call c is over.
Activates(c, u) ==
    call' = [d \in Calls |->
                IF d = c THEN Over("done")
                ELSE IF call[d].barred = u THEN [call[d] EXCEPT !.barred = None]
                ELSE call[d]]

-----------------------------------------------------------------------------
(* handleLoginSubmit, handleAPILogin, handleLogout.                         *)

\* GetUserByUsername; no such user, a disabled one or a wrong password: rejected.
LookUp(c) ==
    /\ At(c, "lookup")
    /\ \/ call[c].key \in exists \ disabled /\ Reads(c, call[c].key, "mint")
       \/ Rejected(c)
    /\ UNCHANGED storeVars

\* setSessionCookie, for the user read above.
CreateSession(c) ==
    /\ At(c, "mint") /\ call[c].op = "login"
    /\ \E s \in Sessions :
          /\ session[s] = Unused
          /\ session' = [session EXCEPT ![s] = call[c].who]
    /\ Done(c)
    /\ UNCHANGED <<userVars, expired, owed, tokenVars>>

\* CreateToken, of a CLI login or of a signed-in user.
CreateToken(c) ==
    /\ \/ At(c, "mint") /\ call[c].op = "apiLogin"
       \/ Does(c, "createToken")
    /\ \E t \in Tokens : token[t] = Unused /\ token' = [token EXCEPT ![t] = call[c].who]
    /\ Done(c)
    /\ UNCHANGED <<userVars, sessionVars, revoked>>

\* DeleteSession, or its error, which is dropped.
Logout(c) ==
    /\ At(c, "logout")
    /\ session' \in {session, [session EXCEPT ![call[c].key] = Deleted]}
    /\ Done(c)
    /\ UNCHANGED <<userVars, expired, owed, tokenVars>>

-----------------------------------------------------------------------------
(* RequireAuth, RequireAdmin.                                               *)

\* GetSession; the session keeps its user's id for the next statement.
GetSession(c) ==
    LET s == call[c].key IN
    /\ At(c, "session")
    /\ \/ session[s] = Deleted /\ Rejected(c)
       \/ session[s] # Deleted /\ s \in expired /\ To(c, "purge")
       \/ session[s] # Deleted /\ s \notin expired /\ Reads(c, session[s], "account")
    /\ UNCHANGED storeVars

\* GetSession's DeleteSession of an expired one; its error is dropped.
Purge(c) ==
    /\ At(c, "purge")
    /\ session' \in {session, [session EXCEPT ![call[c].key] = Deleted]}
    /\ Rejected(c)
    /\ UNCHANGED <<userVars, expired, owed, tokenVars>>

\* GetUser, Disabled, and for the admin's pages the role.
GetUser(c) ==
    /\ At(c, "account")
    /\ IF call[c].who \in disabled \/ (call[c].op \in AdminOps /\ call[c].who \notin admin)
       THEN Rejected(c) ELSE To(c, "act")
    /\ UNCHANGED storeVars

-----------------------------------------------------------------------------
(* The handlers behind them.                                                *)

\* A read or an insert returns an error, or a handler refuses the form or the id
\* it was given: the call ends with no row changed.
Fails(c) ==
    /\ call[c].at \in {"lookup", "mint", "session", "account", "act", "token", "owner"}
    /\ Rejected(c)
    /\ UNCHANGED storeVars

\* A page, or a password changed: no row of interest changes.
Serve(c) ==
    /\ Does(c, "page")
    /\ Done(c)
    /\ UNCHANGED storeVars

\* Mutant: RevokeToken by id only.
RevokeAny(c) ==
    /\ Does(c, "revoke")
    /\ \E t \in Tokens : token[t] # Unused /\ revoked' = revoked \cup {t}
    /\ Done(c)
    /\ UNCHANGED <<userVars, sessionVars, token>>

\* RevokeToken: the row changes only if it is the caller's, and unless the update
\* fails.
Revoke(c) ==
    /\ Does(c, "revoke")
    /\ \/ \E t \in Tokens : token[t] = call[c].who /\ revoked' = revoked \cup {t}
       \/ UNCHANGED revoked
    /\ Done(c)
    /\ UNCHANGED <<userVars, sessionVars, token>>

\* CreateUser, of either role; the UNIQUE name makes a second one fail.
CreateUser(c) ==
    /\ Does(c, "createUser")
    /\ \E u \in Users :
          \/ /\ u \notin exists
             /\ exists' = exists \cup {u}
             /\ admin' \in {admin, admin \cup {u}}
             /\ Activates(c, u)
          \/ u \in exists /\ Rejected(c) /\ UNCHANGED <<exists, admin>>
    /\ UNCHANGED <<disabled, sessionVars, tokenVars>>

SessionsOf(u) == {s \in Sessions : session[s] = u}

\* A disable or reset of u, whether the update of its row fails or not; u replaces
\* the caller in who, for the second statement.
WipeBegins(c, u) ==
    /\ u \in exists
    /\ owed' = owed \cup SessionsOf(u)
    /\ Reads(c, u, "sweep")
    /\ UNCHANGED <<exists, admin, session, expired, tokenVars>>

\* handleDisableUser: SetUserDisabled(id, true).
Disable(c) ==
    /\ Does(c, "disable")
    /\ \E u \in Users : WipeBegins(c, u) /\ disabled' \in {disabled, disabled \cup {u}}

\* handleResetPassword: SetUserPassword.
ResetPassword(c) ==
    /\ Does(c, "reset")
    /\ \E u \in Users : WipeBegins(c, u) /\ UNCHANGED disabled

\* Mutant: one session is deleted, as if the row were found by a key.
DeleteOneSession(c) ==
    /\ At(c, "sweep")
    /\ \E t \in Sessions : session' = [s \in Sessions |->
          IF s = t /\ session[s] = call[c].who THEN Deleted ELSE session[s]]
    /\ Done(c)
    /\ UNCHANGED <<userVars, expired, owed, tokenVars>>

\* Both end with DeleteUserSessions, and report success also when it fails.
DeleteUserSessions(c) ==
    /\ At(c, "sweep")
    /\ \/ /\ session' = [s \in Sessions |->
                IF session[s] = call[c].who THEN Deleted ELSE session[s]]
          /\ UNCHANGED owed
       \/ owed' = owed \ SessionsOf(call[c].who) /\ UNCHANGED session
    /\ Done(c)
    /\ UNCHANGED <<userVars, expired, tokenVars>>

\* handleEnableUser: what is left of the user's sessions and tokens serves again,
\* unless the update fails.
Enable(c) ==
    /\ Does(c, "enable")
    /\ \/ \E u \in exists : disabled' = disabled \ {u} /\ Activates(c, u)
       \/ Done(c) /\ UNCHANGED disabled
    /\ UNCHANGED <<exists, admin, sessionVars, tokenVars>>

-----------------------------------------------------------------------------
(* ResolveToken, for a tunnel handshake.                                    *)

\* Mutant: the query forgets revoked = 0.
GetTokenAny(c) ==
    /\ At(c, "token") /\ Reads(c, token[call[c].key], "owner")
    /\ UNCHANGED storeVars

GetTokenByHash(c) ==
    /\ At(c, "token")
    /\ IF call[c].key \in revoked THEN Rejected(c)
                                  ELSE Reads(c, token[call[c].key], "owner")
    /\ UNCHANGED storeVars

\* GetUser, then TouchToken, whose time stamp is left out.
GetOwner(c) ==
    /\ At(c, "owner")
    /\ IF call[c].who \in disabled THEN Rejected(c) ELSE Done(c)
    /\ UNCHANGED storeVars

-----------------------------------------------------------------------------

\* SessionTTL has passed.
Expire ==
    /\ \E s \in Sessions : session[s] \in Users /\ expired' = expired \cup {s}
    /\ UNCHANGED <<userVars, session, owed, tokenVars, call>>

\* The host ends and starts again. A stop does not wait for the calls either: main
\* returns once the listeners are closed (HostProcess, Exit).
Restart ==
    /\ call' = [c \in Calls |-> Over("idle")]
    /\ owed' = owed \ UNION {SessionsOf(call[c].who) : c \in {d \in Calls : At(d, "sweep")}}
    /\ UNCHANGED <<userVars, session, expired, tokenVars>>

Statement(c) ==
    \/ LookUp(c) \/ CreateSession(c) \/ CreateToken(c) \/ Logout(c)
    \/ GetSession(c) \/ Purge(c) \/ GetUser(c) \/ Fails(c) \/ Serve(c) \/ Revoke(c)
    \/ CreateUser(c) \/ Disable(c) \/ ResetPassword(c) \/ DeleteUserSessions(c)
    \/ Enable(c) \/ GetTokenByHash(c) \/ GetOwner(c)

Next == Expire \/ Restart \/ \E c \in Calls : Arrive(c) \/ Statement(c)

Spec == Init /\ [][Next]_vars

-----------------------------------------------------------------------------
(* Properties.                                                              *)

RowsOK ==
    /\ exists \subseteq Users /\ admin \subseteq exists /\ disabled \subseteq exists
    /\ session \in [Sessions -> exists \cup {Unused, Deleted}]
    /\ expired \subseteq {s \in Sessions : session[s] # Unused}
    /\ owed \subseteq {s \in Sessions : session[s] # Unused}
    /\ token \in [Tokens -> exists \cup {Unused}]
    /\ revoked \subseteq {t \in Tokens : token[t] # Unused}

\* What the next statement of a call needs.
Ready(r) ==
    /\ r.at \in {"mint", "account", "act", "sweep", "owner"} => r.who \in exists
    /\ r.at \in {"session", "purge", "logout"} =>
          r.key \in Sessions /\ session[r.key] # Unused
    /\ r.at = "token" => r.key \in Tokens /\ token[r.key] # Unused
    /\ r.at = "lookup" => r.key \in Users

CallsOK == call \in [Calls -> Call] /\ \A c \in Calls : Ready(call[c])

\* Rows refer to users that exist, and a call at a statement has what the
\* statement needs: no row is made for a user that was not read.
TypeOK == RowsOK /\ CallsOK

\* Disabling a user or resetting a password ends the sessions there are: one that
\* was there lives on only while a call is still to delete it, however many such
\* calls run at once and whatever logins come in between
\* (handlers_admin.go:51-52, 76-77). Not claimed, by the definition of owed: a
\* deletion whose error is dropped, or that a restart cuts off, leaves its sessions
\* to the next disable or reset of the user, though the page may report success.
WipesAreComplete ==
    \A s \in owed : session[s] \in Users =>
        \E c \in Calls : At(c, "sweep") /\ call[c].who = session[s]

\* No call succeeds with a key that was dead when it began (a revoked token, a
\* deleted or expired session), or whose user was inactive from then on
\* (middleware.go:47, 80, 88; handlers_auth.go:19). A logout needs no live one.
BarredAreRejected ==
    [][\A c \in Calls : call[c].barred # None /\ call[c].op # "logout"
                            => call'[c].at \notin {"done", "sweep"}]_vars

\* A token is revoked only through a session of its own user (tokens.go:70-71),
\* whatever the admin's rights, and whatever happens to the session after the
\* call has read it.
OnlyOwnersRevoke ==
    [][\A t \in revoked' \ revoked : \E c \in Calls :
          Does(c, "revoke") /\ session[call[c].key] \in {token[t], Deleted}]_vars

===============================================================================
