-------------------------- MODULE CredentialsProofs --------------------------
(***************************************************************************)
(* Theorems about Credentials, for any number of commands running together, *)
(* hosts, spellings and configs.                                            *)
(***************************************************************************)
EXTENDS Credentials, TLAPS

-----------------------------------------------------------------------------
(* Types.                                                                   *)

\* A file that is not torn reads as a store.
LEMMA ReadType == TypeOK /\ file # Torn => Read \in Stored
BY DEF TypeOK, Read, Stored, Empty

LEMMA UpdateType ==
  ASSUME NEW c \in Commands, NEW m \in Stored
  PROVE  Update(c, m) \in Stored
BY DEF Update, Says, Stored

LEMMA TypeInit == Init => TypeOK
<1>1. Empty \in Stored
  BY DEF Empty, Stored
<1> QED
  BY <1>1 DEF Init, TypeOK, Places

LEMMA TypeStep == TypeOK /\ [Next]_vars => TypeOK'
<1> SUFFICES ASSUME TypeOK, [Next]_vars PROVE TypeOK'
  OBVIOUS
<1> USE DEF To, cmdVars, Places, Over, Saving
<1>1. ASSUME NEW c \in Commands, NEW what \in {"login", "logout", "run"}, NEW as \in Configs,
             Begin(c, what, as)
      PROVE  TypeOK'
  BY <1>1, CredentialsAssumption DEF Begin, TypeOK
<1>2. ASSUME NEW c \in Commands, Authenticate(c) \/ WriteFails(c) \/ Kill(c) PROVE TypeOK'
  BY <1>2 DEF Authenticate, WriteFails, Kill, TypeOK
<1>3. ASSUME NEW c \in Commands, Load(c) PROVE TypeOK'
  <2>1. creds' \in [Commands -> Stored] /\ pc' \in [Commands -> Places]
    BY <1>3, ReadType, UpdateType DEF Load, TypeOK
  <2>2. disturbed' \in BOOLEAN
    BY <1>3 DEF Load, TypeOK
  <2> QED
    BY <1>3, <2>1, <2>2 DEF Load, TypeOK
<1>4. ASSUME NEW c \in Commands, Truncate(c) PROVE TypeOK'
  BY <1>4 DEF Truncate, TypeOK
<1>5. ASSUME NEW c \in Commands, Write(c) PROVE TypeOK'
  <2>1. file' \in Stored \cup {Torn}
    BY <1>5 DEF Write, Written, TypeOK
  <2>2. last' \in Stored
    BY <1>5 DEF Write, Says, TypeOK, Stored
  <2> QED
    BY <1>5, <2>1, <2>2 DEF Write, TypeOK
<1>6. ASSUME NEW c \in Commands, New(c) PROVE TypeOK'
  BY <1>6, ReadType DEF New, TypeOK
<1>7. CASE UNCHANGED vars
  BY <1>7 DEF vars, TypeOK
<1> QED
  BY <1>1, <1>2, <1>3, <1>4, <1>5, <1>6, <1>7 DEF Next, Step, Finished

-----------------------------------------------------------------------------
(* The file is the last word.                                               *)

\* What a command will write does not depend on the others.
LEMMA UpdateKept ==
  ASSUME NEW c \in Commands, kind'[c] = kind[c], cfg'[c] = cfg[c], last' = last
  PROVE  Update(c, last)' = Update(c, last)
<1>1. LoginKeys(c)' = LoginKeys(c) /\ LogoutKeys(c)' = LogoutKeys(c)
  BY DEF LoginKeys, LogoutKeys
<1>2. Changed(c)' = Changed(c) /\ Says(c)' = Says(c)
  BY <1>1 DEF Changed, Says
<1> QED
  BY <1>2 DEF Update

LEMMA SaveInit == Init => SaveInv
<1>1. Init => file # Torn /\ Read = Empty
  <2>1. Empty \in Stored
    BY DEF Empty, Stored
  <2> QED
    BY <2>1, CredentialsAssumption DEF Init, Read
<1> QED
  BY <1>1 DEF Init, SaveInv, FileIsLastWord, Saving

LEMMA SaveStep == TypeOK /\ SaveInv /\ [Next]_vars => SaveInv'
<1> SUFFICES ASSUME TypeOK, SaveInv, [Next]_vars PROVE SaveInv'
  OBVIOUS
<1> USE DEF To, cmdVars, Saving
<1>1. ASSUME NEW c \in Commands, NEW what \in {"login", "logout", "run"}, NEW as \in Configs,
             Begin(c, what, as)
      PROVE  SaveInv'
  <2>1. /\ pc[c] = "idle" /\ UNCHANGED <<file, creds, last, disturbed>>
        /\ \A d \in Commands : d # c => pc'[d] = pc[d] /\ kind'[d] = kind[d] /\ cfg'[d] = cfg[d]
        /\ pc'[c] \notin Saving
    BY <1>1 DEF Begin, TypeOK
  <2>3. Read' = Read
    BY <2>1 DEF Read
  <2>4. ASSUME NEW d \in Commands, pc'[d] \in Saving, ~disturbed
        PROVE  creds'[d] = Update(d, last)'
    <3>1. d # c /\ pc[d] \in Saving
      BY <2>1, <2>4
    <3>2. Update(d, last)' = Update(d, last)
      BY <2>1, <3>1, UpdateKept
    <3> QED
      BY <2>1, <2>4, <3>1, <3>2 DEF SaveInv
  <2>5. \A d \in Commands : (pc'[d] \in Saving <=> pc[d] \in Saving) /\ (pc'[d] = "writing" <=> pc[d] = "writing")
    BY <2>1
  <2> QED
    BY <2>1, <2>3, <2>4, <2>5 DEF SaveInv, FileIsLastWord
<1>2. ASSUME NEW c \in Commands, Authenticate(c) PROVE SaveInv'
  BY <1>2 DEF Authenticate, SaveInv, FileIsLastWord, Read, Update, Changed, Says, LoginKeys, LogoutKeys, TypeOK
<1>3. ASSUME NEW c \in Commands, WriteFails(c) PROVE SaveInv'
  BY <1>3 DEF WriteFails, SaveInv, FileIsLastWord
<1>4. ASSUME NEW c \in Commands, Kill(c) PROVE SaveInv'
  BY <1>4 DEF Kill, SaveInv, FileIsLastWord, Read, Update, Changed, Says, LoginKeys, LogoutKeys, TypeOK
<1>5. ASSUME NEW c \in Commands, Load(c) PROVE SaveInv'
  <2>1. CASE file = Torn
    BY <1>5, <2>1 DEF Load, SaveInv, FileIsLastWord, Read, Update, Changed, Says, LoginKeys, LogoutKeys, TypeOK
  <2>2. CASE file # Torn
    <3>1. /\ creds' = [creds EXCEPT ![c] = Update(c, Read)] /\ pc' = [pc EXCEPT ![c] = "save"]
          /\ disturbed' = (disturbed \/ \E d \in Commands : pc[d] \in Saving)
          /\ UNCHANGED <<file, kind, cfg, last>>
      BY <1>5, <2>2 DEF Load
    <3>2. Read' = Read /\ Update(c, last)' = Update(c, last)
      BY <3>1 DEF Read, Update, Changed, Says, LoginKeys, LogoutKeys
    <3>3. CASE disturbed'
      BY <3>3 DEF SaveInv, FileIsLastWord
    <3>4. CASE ~disturbed'
      <4>1. ~disturbed /\ \A d \in Commands : pc[d] \notin Saving
        BY <3>1, <3>4
      <4>2. Read = last
        BY <2>2, <4>1 DEF SaveInv, FileIsLastWord
      <4>3. /\ creds'[c] = Update(c, last)' /\ pc'[c] = "save"
            /\ \A d \in Commands : d # c => pc'[d] \notin Saving
        BY <3>1, <3>2, <4>1, <4>2 DEF TypeOK
      <4> QED
        BY <2>2, <3>1, <3>2, <4>2, <4>3 DEF SaveInv, FileIsLastWord
    <3> QED
      BY <3>3, <3>4
  <2> QED
    BY <2>1, <2>2
<1>6. ASSUME NEW c \in Commands, Truncate(c) PROVE SaveInv'
  <2>1. UNCHANGED <<kind, cfg, creds, last, disturbed>> /\ pc[c] = "save"
    BY <1>6 DEF Truncate
  <2>2. \A d \in Commands : Update(d, last)' = Update(d, last)
    BY <2>1 DEF Update, Changed, Says, LoginKeys, LogoutKeys
  <2>3. CASE file' = Torn /\ pc' = [pc EXCEPT ![c] = "writing"]
    BY <2>1, <2>2, <2>3 DEF SaveInv, FileIsLastWord, TypeOK
  <2>4. CASE file' = file /\ pc' = [pc EXCEPT ![c] = "failed"]
    BY <2>1, <2>2, <2>4 DEF SaveInv, FileIsLastWord, Read, TypeOK
  <2> QED
    BY <1>6, <2>3, <2>4 DEF Truncate
<1>7. ASSUME NEW c \in Commands, Write(c) PROVE SaveInv'
  <2>1. /\ pc[c] = "writing" /\ pc' = [pc EXCEPT ![c] = "done"] /\ file' \in Written(c)
        /\ last' = [k \in Keys |-> IF k \in Changed(c) THEN Says(c) ELSE last[k]]
        /\ UNCHANGED <<kind, cfg, creds, disturbed>>
    BY <1>7 DEF Write
  <2>2. CASE disturbed
    BY <2>1, <2>2 DEF SaveInv, FileIsLastWord
  <2>3. CASE ~disturbed
    <3>1. /\ file = Torn /\ creds[c] = Update(c, last)
          /\ \A d \in Commands : d # c => pc'[d] = pc[d] /\ pc[d] \notin Saving
      BY <2>1, <2>3 DEF SaveInv, TypeOK
    <3>2. file' = creds[c] /\ last' = Update(c, last)
      BY <2>1, <3>1 DEF Written, Update
    <3>3. creds[c] \in Stored
      BY DEF TypeOK
    <3>4. file' # Torn /\ file' # Missing
      BY <3>2, <3>3, CredentialsAssumption
    <3>5. Read' = last'
      BY <3>1, <3>2, <3>4 DEF Read
    <3>6. \A d \in Commands : pc'[d] \notin Saving
      BY <2>1, <3>1 DEF TypeOK
    <3> QED
      BY <3>4, <3>5, <3>6 DEF SaveInv, FileIsLastWord
  <2> QED
    BY <2>2, <2>3
<1>8. ASSUME NEW c \in Commands, New(c) PROVE SaveInv'
  <2>1. /\ pc[c] = "load" /\ UNCHANGED <<file, kind, cfg, last, disturbed>>
        /\ \A d \in Commands : d # c => creds'[d] = creds[d] /\ pc'[d] = pc[d]
        /\ pc'[c] \notin Saving
    BY <1>8 DEF New, TypeOK
  <2>2. Read' = Read /\ \A d \in Commands : Update(d, last)' = Update(d, last)
    BY <2>1 DEF Read, Update, Changed, Says, LoginKeys, LogoutKeys
  <2> QED
    BY <2>1, <2>2 DEF SaveInv, FileIsLastWord
<1>9. CASE UNCHANGED vars
  BY <1>9 DEF vars, SaveInv, FileIsLastWord, Read, Update, Changed, Says, LoginKeys, LogoutKeys
<1> QED
  BY <1>1, <1>2, <1>3, <1>4, <1>5, <1>6, <1>7, <1>8, <1>9 DEF Next, Step, Finished

-----------------------------------------------------------------------------
(* Whose the tokens are.                                                    *)

LEMMA TokenInit == Init => TokenInv
BY CredentialsAssumption DEF Init, TokenInv, Owned, Empty, Stored, Saving

\* A command that has begun stays what it is, and so its tokens stay owned.
LEMMA BegunStays ==
  ASSUME TypeOK, [Next]_vars, NEW c \in Commands, pc[c] # "idle"
  PROVE  pc'[c] # "idle" /\ kind'[c] = kind[c] /\ cfg'[c] = cfg[c]
<1> USE DEF To, cmdVars, Over, TypeOK
<1>1. ASSUME NEW d \in Commands, NEW what \in {"login", "logout", "run"}, NEW as \in Configs,
             Begin(d, what, as)
      PROVE  pc'[c] # "idle" /\ kind'[c] = kind[c] /\ cfg'[c] = cfg[c]
  BY <1>1 DEF Begin
<1>2. ASSUME NEW d \in Commands, Authenticate(d) \/ Load(d) \/ Truncate(d) \/ Write(d)
                                   \/ WriteFails(d) \/ Kill(d) \/ New(d)
      PROVE  pc'[c] # "idle" /\ kind'[c] = kind[c] /\ cfg'[c] = cfg[c]
  BY <1>2 DEF Authenticate, Load, Truncate, Write, WriteFails, Kill, New
<1>3. CASE UNCHANGED vars
  BY <1>3 DEF vars
<1> QED
  BY <1>1, <1>2, <1>3 DEF Next, Step, Finished

LEMMA OwnedStays ==
  ASSUME TypeOK, [Next]_vars, NEW m \in Stored, Owned(m)
  PROVE  \A k \in Keys : m[k] # None =>
           kind'[m[k]] = "login" /\ pc'[m[k]] # "idle" /\ k \in LoginKeys(m[k])'
<1> SUFFICES ASSUME NEW k \in Keys, m[k] # None
             PROVE  kind'[m[k]] = "login" /\ pc'[m[k]] # "idle" /\ k \in LoginKeys(m[k])'
  OBVIOUS
<1> DEFINE d == m[k]
<1>1. d \in Commands
  BY DEF Stored
<1>2. kind[d] = "login" /\ pc[d] # "idle" /\ k \in LoginKeys(d)
  BY DEF Owned
<1>3. pc'[d] # "idle" /\ kind'[d] = kind[d] /\ cfg'[d] = cfg[d]
  BY <1>1, <1>2, BegunStays
<1>4. LoginKeys(d)' = LoginKeys(d)
  BY <1>3 DEF LoginKeys
<1> QED
  BY <1>2, <1>3, <1>4

\* What a login adds is its own.
LEMMA UpdateOwned ==
  ASSUME TypeOK, NEW c \in Commands, pc[c] # "idle", NEW m \in Stored, Owned(m)
  PROVE  Owned(Update(c, m))
<1>1. \A k \in Keys : Update(c, m)[k] = IF k \in Changed(c) THEN Says(c) ELSE m[k]
  BY DEF Update
<1>2. ASSUME NEW k \in Keys, k \in Changed(c), Says(c) # None
      PROVE  kind[Says(c)] = "login" /\ pc[Says(c)] # "idle" /\ k \in LoginKeys(Says(c))
  BY <1>2 DEF Says, Changed
<1> QED
  BY <1>1, <1>2 DEF Owned

LEMMA TokenStep == TypeOK /\ TokenInv /\ [Next]_vars => TokenInv'
<1> SUFFICES ASSUME TypeOK, TokenInv, [Next]_vars PROVE TokenInv'
  OBVIOUS
<1> USE DEF To, cmdVars, Over, Saving
<1>0. ASSUME NEW m \in Stored, Owned(m), NEW n, n = m
      PROVE  \A k \in Keys : n[k] # None =>
               kind'[n[k]] = "login" /\ pc'[n[k]] # "idle" /\ k \in LoginKeys(n[k])'
  BY <1>0, OwnedStays
<1>1. \* The stores that the step leaves or makes are owned before it.
      /\ file' \in Stored => Owned(file')
      /\ \A c \in Commands : creds'[c] \in Stored /\ Owned(creds'[c])
  <2>0. file \in Stored => Owned(file)
    BY DEF TokenInv
  <2>1. \A c \in Commands : creds[c] \in Stored /\ Owned(creds[c])
    BY DEF TokenInv, TypeOK
  <2>2. file # Torn => Read \in Stored /\ Owned(Read)
    <3>1. Owned(Empty)
      BY DEF Owned, Empty
    <3> QED
      BY <2>0, <3>1, ReadType DEF Read, TypeOK
  <2>3. ASSUME NEW c \in Commands, NEW m \in Stored, Owned(m),
               creds' = creds \/ creds' = [creds EXCEPT ![c] = m]
        PROVE  \A d \in Commands : creds'[d] \in Stored /\ Owned(creds'[d])
    BY <2>1, <2>3 DEF TypeOK
  <2>4. ASSUME NEW c \in Commands, Load(c)
        PROVE  file' = file /\ \A d \in Commands : creds'[d] \in Stored /\ Owned(creds'[d])
    <3>1. CASE file = Torn
      BY <2>1, <2>4, <3>1 DEF Load
    <3>2. CASE file # Torn
      <4>1. Update(c, Read) \in Stored /\ Owned(Update(c, Read))
        BY <2>2, <2>4, <3>2, UpdateType, UpdateOwned DEF Load
      <4> QED
        BY <2>3, <2>4, <3>2, <4>1 DEF Load
    <3> QED
      BY <3>1, <3>2
  <2>5. ASSUME NEW c \in Commands, New(c)
        PROVE  file' = file /\ \A d \in Commands : creds'[d] \in Stored /\ Owned(creds'[d])
    BY <2>1, <2>2, <2>3, <2>5 DEF New
  <2>6. ASSUME NEW c \in Commands, Write(c)
        PROVE  (file' \in Stored => Owned(file')) /\ creds' = creds
    <3>1. file' \in {creds[c], Torn} /\ creds' = creds
      BY <2>6 DEF Write, Written
    <3> QED
      BY <2>1, <3>1, CredentialsAssumption
  <2>7. ASSUME NEW c \in Commands, Truncate(c)
        PROVE  (file' \in Stored => Owned(file')) /\ creds' = creds
    BY <2>0, <2>7, CredentialsAssumption DEF Truncate
  <2>8. ASSUME NEW c \in Commands, NEW what \in {"login", "logout", "run"}, NEW as \in Configs,
               Begin(c, what, as)
        PROVE  file' = file /\ creds' = creds
    BY <2>8 DEF Begin
  <2>9. ASSUME NEW c \in Commands, Authenticate(c) \/ WriteFails(c) \/ Kill(c)
        PROVE  file' = file /\ creds' = creds
    BY <2>9 DEF Authenticate, WriteFails, Kill
  <2>10. CASE UNCHANGED vars
    BY <2>0, <2>1, <2>10 DEF vars
  <2> QED
    BY <2>0, <2>1, <2>4, <2>5, <2>6, <2>7, <2>8, <2>9, <2>10 DEF Next, Step, Finished
<1>2. file' \in Stored => Owned(file)'
  BY <1>0, <1>1 DEF Owned
<1>3. \A c \in Commands : Owned(creds[c])'
  BY <1>0, <1>1 DEF Owned
<1>4. ASSUME NEW c \in Commands, pc'[c] = "done", kind'[c] = "run", NEW a \in cfg'[c]
      PROVE  Get(creds[c], a)' # None
  <2>1. ASSUME NEW d \in Commands, New(d) PROVE Get(creds[c], a)' # None
    <3>1. CASE d = c
      <4>1. creds'[c] = Read /\ Ready(cfg[c], Read) /\ cfg'[c] = cfg[c]
        BY <1>4, <2>1, <3>1 DEF New, TypeOK
      <4> QED
        BY <1>4, <4>1 DEF Ready, Get
    <3>2. CASE d # c
      <4>1. pc[c] = "done" /\ kind[c] = "run" /\ cfg'[c] = cfg[c] /\ creds'[c] = creds[c]
        BY <1>4, <2>1, <3>2 DEF New, TypeOK
      <4> QED
        BY <1>4, <4>1 DEF TokenInv, Get
    <3> QED
      BY <3>1, <3>2
  <2>2. ASSUME NEW d \in Commands, Load(d) \/ Truncate(d) \/ WriteFails(d) \/ Kill(d) \/ Authenticate(d)
        PROVE  Get(creds[c], a)' # None
    <3>1. pc[c] = "done" /\ kind[c] = "run" /\ cfg'[c] = cfg[c] /\ creds'[c] = creds[c]
      BY <1>4, <2>2 DEF Load, Truncate, WriteFails, Kill, Authenticate, TypeOK
    <3> QED
      BY <1>4, <3>1 DEF TokenInv, Get
  <2>3. ASSUME NEW d \in Commands, Write(d) PROVE Get(creds[c], a)' # None
    <3>1. CASE d # c
      <4>1. pc[c] = "done" /\ kind[c] = "run" /\ cfg'[c] = cfg[c] /\ creds'[c] = creds[c]
        BY <1>4, <2>3, <3>1 DEF Write, TypeOK
      <4> QED
        BY <1>4, <4>1 DEF TokenInv, Get
    <3>2. CASE d = c
      BY <1>4, <2>3, <3>2 DEF Write, TokenInv
    <3> QED
      BY <3>1, <3>2
  <2>4. ASSUME NEW d \in Commands, NEW what \in {"login", "logout", "run"}, NEW as \in Configs,
               Begin(d, what, as)
        PROVE  Get(creds[c], a)' # None
    <3>1. pc[c] = "done" /\ kind[c] = "run" /\ cfg'[c] = cfg[c] /\ creds'[c] = creds[c]
      BY <1>4, <2>4 DEF Begin, TypeOK
    <3> QED
      BY <1>4, <3>1 DEF TokenInv, Get
  <2>5. CASE UNCHANGED vars
    BY <1>4, <2>5 DEF vars, TokenInv, Get
  <2> QED
    BY <2>1, <2>2, <2>3, <2>4, <2>5 DEF Next, Step, Finished
<1>5. ASSUME NEW c \in Commands, pc'[c] \in Saving PROVE kind'[c] # "run"
  <2>1. ASSUME NEW d \in Commands, Load(d) PROVE kind'[c] # "run"
    BY <1>5, <2>1 DEF Load, TokenInv, TypeOK
  <2>2. ASSUME NEW d \in Commands, NEW what \in {"login", "logout", "run"}, NEW as \in Configs,
               Begin(d, what, as)
        PROVE  kind'[c] # "run"
    BY <1>5, <2>2 DEF Begin, TokenInv, TypeOK
  <2>3. ASSUME NEW d \in Commands,
               Truncate(d) \/ Write(d) \/ WriteFails(d) \/ Kill(d) \/ Authenticate(d) \/ New(d)
        PROVE  kind'[c] # "run"
    BY <1>5, <2>3 DEF Truncate, Write, WriteFails, Kill, Authenticate, New, TokenInv, TypeOK
  <2>4. CASE UNCHANGED vars
    BY <1>5, <2>4 DEF vars, TokenInv
  <2> QED
    BY <2>1, <2>2, <2>3, <2>4 DEF Next, Step, Finished
<1> QED
  BY <1>2, <1>3, <1>4, <1>5 DEF TokenInv

-----------------------------------------------------------------------------
(* The theorems.                                                            *)

LEMMA CredentialsInvariant == Spec => [](TypeOK /\ SaveInv /\ TokenInv)
<1>1. Init => TypeOK /\ SaveInv /\ TokenInv
  BY TypeInit, SaveInit, TokenInit
<1>2. TypeOK /\ SaveInv /\ TokenInv /\ [Next]_vars => (TypeOK /\ SaveInv /\ TokenInv)'
  BY TypeStep, SaveStep, TokenStep
<1> QED
  BY <1>1, <1>2, PTL DEF Spec

\* Whatever the commands do to the file, it is a store, missing or torn.
THEOREM CredentialsTypeCorrect == Spec => []TypeOK
BY CredentialsInvariant, PTL

\* Commands that take turns never lose each other's logins and logouts.
THEOREM StoreIsLastWord == Spec => []FileIsLastWord
<1>1. SaveInv => FileIsLastWord
  BY DEF SaveInv
<1> QED
  BY <1>1, CredentialsInvariant, PTL

\* No token is presented to a host its login did not name, whatever overlaps.
THEOREM TokensStayWithTheirHosts == Spec => []TokensStayHome
<1>1. TypeOK /\ TokenInv => TokensStayHome
  <2> SUFFICES ASSUME TypeOK, TokenInv, NEW c \in Commands, pc[c] = "done", kind[c] = "run",
                      NEW a \in cfg[c]
               PROVE  LET d == Get(creds[c], a) IN
                        /\ d \in Commands /\ kind[d] = "login"
                        /\ HostKey[a] \in {HostKey[b] : b \in cfg[d] \ {NoAddress}} \cup {HostKey[PortalUrl]}
    BY DEF TokensStayHome
  <2> DEFINE k == HostKey[a]
             d == creds[c][k]
  <2>1. Get(creds[c], a) # None
    BY DEF TokenInv
  <2>2. a \in Addresses /\ Get(creds[c], a) = d
    BY <2>1 DEF Get, TypeOK
  <2>3. k \in Keys /\ d \in Commands
    BY <2>1, <2>2, CredentialsAssumption DEF TypeOK, Stored
  <2>4. kind[d] = "login" /\ k \in LoginKeys(d)
    BY <2>1, <2>2, <2>3, CredentialsAssumption DEF TokenInv, Owned
  <2>5. k \in {HostKey[b] : b \in cfg[d] \ {NoAddress}} \cup {HostKey[PortalUrl]}
    BY <2>4 DEF LoginKeys, tunnelHosts
  <2> QED
    BY <2>2, <2>3, <2>4, <2>5
<1> QED
  BY <1>1, CredentialsInvariant, PTL

\* run starts exactly when every one of its hosts has a login that stands.
THEOREM LoginsAreFound == Spec => RunFindsLogins
<1>1. TypeOK /\ SaveInv /\ [Next]_vars =>
        [\A c \in Commands :
           New(c) /\ ~disturbed /\ (\A d \in Commands : pc[d] # "writing")
             => (pc'[c] = "done" <=> ~Refusable(c))]_vars
  <2> SUFFICES ASSUME TypeOK, SaveInv, NEW c \in Commands, New(c), ~disturbed,
                      \A d \in Commands : pc[d] # "writing"
               PROVE  pc'[c] = "done" <=> ~Refusable(c)
    OBVIOUS
  <2>1. file # Torn /\ Read = last
    BY DEF SaveInv, FileIsLastWord
  <2>2. Ready(cfg[c], Read) <=> ~Refusable(c)
    BY <2>1 DEF Ready, Refusable, Get
  <2> QED
    BY <2>1, <2>2 DEF New, To, TypeOK
<1> QED
  BY <1>1, CredentialsInvariant, PTL DEF Spec, RunFindsLogins

===============================================================================
