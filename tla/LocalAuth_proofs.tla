--------------------------- MODULE LocalAuth_proofs ---------------------------
(***************************************************************************)
(* The properties of LocalAuth for any requests, users, passwords, numbers *)
(* of sessions and lengths of their life.                                  *)
(***************************************************************************)
EXTENDS LocalAuth, FiniteSetTheorems, TLAPS

Changing == {"verified", "validate", "commit"}

\* What a request in a given place has in its hands.
LEMMA RequestFields ==
    ASSUME NEW q \in RequestStates
    PROVE  /\ q.at \in Places
           /\ q.at = "idle" => q = Idle
           /\ q.at = "login" => q \in [at : {"login"}, user : Users, read : 1 .. MaxChanges + 1]
           /\ q.at = "snapshot" => q \in [at : {"snapshot"}, token : Tokens, user : Users,
                                          password : Passwords]
           /\ q.at \in Changing => q \in [at : Changing, token : Tokens, user : Users,
                                          password : Passwords, read : 1 .. MaxChanges + 1]
  BY DEF RequestStates, Places, Idle, Changing

\* Moving one request leaves the others where they are.
LEMMA GotoEffect ==
    ASSUME TypeOK, NEW r \in Requests, NEW q \in RequestStates, Goto(r, q)
    PROVE  /\ request' \in [Requests -> RequestStates]
           /\ request'[r] = q
           /\ \A p \in Requests : p # r => request'[p] = request[p]
  BY DEF Goto, TypeOK

LEMMA IdleType == Idle \in RequestStates
  BY DEF RequestStates

\* The states that the requests go to are well typed.
LEMMA StartLoginType ==
    ASSUME TypeOK, NEW r \in Requests, StartLogin(r)
    PROVE  [at |-> "login", user |-> credential.user, read |-> generation] \in RequestStates
  BY DEF TypeOK, Accounts, RequestStates

LEMMA StartChangeType ==
    ASSUME TypeOK, NEW r \in Requests, NEW token \in Tokens, NEW password \in Passwords
    PROVE  [at |-> "snapshot", token |-> token, user |-> credential.user,
            password |-> password] \in RequestStates
  BY DEF TypeOK, Accounts, RequestStates

LEMMA SnapshotType ==
    ASSUME TypeOK, NEW r \in Requests, Snapshot(r)
    PROVE  [at |-> "verified", token |-> request[r].token, user |-> request[r].user,
            password |-> request[r].password, read |-> generation] \in RequestStates
  <1>1. request[r] \in [at : {"snapshot"}, token : Tokens, user : Users, password : Passwords]
    BY RequestFields DEF TypeOK, Snapshot, Serving
  <1> QED BY <1>1 DEF RequestStates, TypeOK

LEMMA ChangingType ==
    ASSUME TypeOK, NEW r \in Requests, request[r].at \in Changing, NEW place \in Changing
    PROVE  /\ [request[r] EXCEPT !.at = place] \in RequestStates
           /\ [request[r] EXCEPT !.at = place].at = place
           /\ [request[r] EXCEPT !.at = place].token = request[r].token
           /\ [request[r] EXCEPT !.at = place].user = request[r].user
           /\ [request[r] EXCEPT !.at = place].password = request[r].password
           /\ [request[r] EXCEPT !.at = place].read = request[r].read
  <1>1. request[r] \in [at : Changing, token : Tokens, user : Users,
                        password : Passwords, read : 1 .. MaxChanges + 1]
    BY RequestFields DEF TypeOK
  <1> QED BY <1>1 DEF RequestStates, Changing

\* The session that a login adds.
LEMMA FinishLoginSessions ==
    ASSUME TypeOK, NEW r \in Requests, FinishLogin(r)
    PROVE  \E kept \in SUBSET sessions, s \in Sessions :
              /\ kept \in Evicted
              /\ sessions' = kept \cup {s}
              /\ s.token = issued + 1 /\ issued + 1 \in Tokens
              /\ s.user = request[r].user
              /\ s.grant = request[r].read
              /\ request[r].read = generation
  <1> DEFINE s == [token |-> issued + 1, user |-> request[r].user,
                   expires |-> now + TTL, grant |-> request[r].read]
  <1>1. request[r] \in [at : {"login"}, user : Users, read : 1 .. MaxChanges + 1]
    BY RequestFields DEF TypeOK, FinishLogin, Serving
  <1>2. issued + 1 \in Tokens /\ issued' = issued + 1
    BY ConstantsAssumption DEF FinishLogin, TypeOK, Tokens
  <1>3. now + TTL \in 0 .. MaxNow + TTL
    BY ConstantsAssumption DEF TypeOK
  <1>4. s \in Sessions
    BY <1>1, <1>2, <1>3 DEF Sessions
  <1>5. PICK kept \in Evicted : sessions' = kept \cup {s}
    BY <1>2 DEF FinishLogin
  <1>6. kept \subseteq sessions
    BY DEF Evicted, Unexpired
  <1>7. request[r].read = generation
    BY DEF FinishLogin, SameGeneration
  <1> QED BY <1>2, <1>4, <1>5, <1>6, <1>7

-----------------------------------------------------------------------------
LEMMA InitType == Init => TypeOK
<1> SUFFICES ASSUME Init PROVE TypeOK
  OBVIOUS
<1>1. credential \in Accounts
  BY ConstantsAssumption DEF Init
<1>2. request \in [Requests -> RequestStates]
  BY IdleType DEF Init
<1>3. /\ 1 \in 1 .. MaxChanges + 1
      /\ 0 \in 0 .. MaxTokens
      /\ 0 \in 0 .. MaxNow
  BY ConstantsAssumption
<1>4. generation = 1 /\ issued = 0 /\ now = 0 /\ up = FALSE /\ sessions = {} /\ disk = NoFile
  BY DEF Init
<1>5. sessions \subseteq Sessions
  BY <1>4
<1> QED BY <1>1, <1>2, <1>3, <1>4, <1>5 DEF TypeOK

\* The state is always well typed.
THEOREM TypeCorrect == Spec => []TypeOK
<1> USE ConstantsAssumption
<1>1. Init => TypeOK
  BY InitType
<1>2. TypeOK /\ [Next]_vars => TypeOK'
  <2> SUFFICES ASSUME TypeOK, [Next]_vars PROVE TypeOK'
    OBVIOUS
  <2>1. CASE Open
    <3>1. PICK account \in Bootstrap : disk' = Loaded(account) /\ credential' = Loaded(account)
      BY <2>1 DEF Open
    <3>2. Loaded(account) \in Accounts
      BY DEF Loaded, TypeOK
    <3> QED BY <2>1, <3>1, <3>2 DEF Open, TypeOK
  <2>2. CASE Crash
    <3>1. request' \in [Requests -> RequestStates] /\ sessions' \subseteq Sessions
      BY <2>2, IdleType DEF Crash
    <3> QED BY <2>2, <3>1 DEF Crash, TypeOK
  <2>3. CASE Tick
    BY <2>3 DEF Tick, TypeOK
  <2>4. ASSUME NEW r \in Requests, StartLogin(r) PROVE TypeOK'
    BY <2>4, StartLoginType, GotoEffect DEF StartLogin, TypeOK
  <2>5. ASSUME NEW r \in Requests, FinishLogin(r) PROVE TypeOK'
    <3>1. sessions' \subseteq Sessions
      BY <2>5, FinishLoginSessions DEF TypeOK
    <3>2. request' \in [Requests -> RequestStates]
      BY <2>5, IdleType, GotoEffect DEF FinishLogin
    <3> QED BY <2>5, <3>1, <3>2 DEF FinishLogin, TypeOK
  <2>6. ASSUME NEW r \in Requests, NEW token \in Tokens, NEW password \in Passwords,
               StartChange(r, token, password)
        PROVE  TypeOK'
    BY <2>6, StartChangeType, GotoEffect DEF StartChange, TypeOK
  <2>7. ASSUME NEW r \in Requests, Snapshot(r) PROVE TypeOK'
    BY <2>7, SnapshotType, GotoEffect DEF Snapshot, TypeOK
  <2>8. ASSUME NEW r \in Requests, Verified(r) \/ Validate(r) PROVE TypeOK'
    <3>1. request[r].at \in Changing
      BY <2>8 DEF Verified, Validate, Serving, Changing
    <3>2. PICK place \in Changing : Goto(r, [request[r] EXCEPT !.at = place])
      BY <2>8 DEF Verified, Validate, Changing
    <3>3. request' \in [Requests -> RequestStates]
      BY <3>1, <3>2, ChangingType, GotoEffect
    <3> QED BY <2>8, <3>3 DEF Verified, Validate, TypeOK
  <2>9. ASSUME NEW r \in Requests, NEW account \in Accounts, Commit(r, account)
        PROVE  TypeOK'
    <3>1. request' \in [Requests -> RequestStates]
      BY <2>9, IdleType, GotoEffect DEF Commit
    <3>2. generation' \in 1 .. MaxChanges + 1
      BY <2>9 DEF Commit, TypeOK
    <3> QED BY <2>9, <3>1, <3>2 DEF Commit, Save, TypeOK
  <2>10. ASSUME NEW r \in Requests, GiveUp(r) PROVE TypeOK'
    BY <2>10, IdleType, GotoEffect DEF GiveUp, TypeOK
  <2>11. ASSUME NEW s \in sessions, RevokeSession(s) PROVE TypeOK'
    BY <2>11 DEF RevokeSession, TypeOK
  <2>12. CASE UNCHANGED vars
    BY <2>12 DEF vars, TypeOK
  <2> QED
    BY <2>1, <2>2, <2>3, <2>4, <2>5, <2>6, <2>7, <2>8, <2>9, <2>10, <2>11, <2>12
    DEF Next, Change
<1> QED BY <1>1, <1>2, PTL DEF Spec

-----------------------------------------------------------------------------
(* The invariant.  A request that has read the present generation has also *)
(* read the present credentials, and no session that a request holds was    *)
(* granted by later credentials than those it has verified.                 *)

\* A process that does not run has no sessions and serves no request.
Quiet == ~up => sessions = {} /\ \A r \in Requests : request[r] = Idle

TokensIssued ==
    /\ \A s \in sessions : s.token <= issued
    /\ \A r \in Requests : request[r].at \in Changing \cup {"snapshot"}
                                => request[r].token <= issued

ReadCurrent(r) ==
    /\ request[r].at \in Changing \cup {"login"} => request[r].read <= generation
    /\ request[r].at = "login" /\ request[r].read = generation
          => request[r].user = credential.user
    /\ request[r].at \in Changing /\ request[r].read = generation
          => request[r].user = credential.user /\ request[r].password = credential.password
    /\ request[r].at \in Changing
          => \A s \in sessions : s.token = request[r].token => request[r].read = generation

Inv ==
    /\ TypeOK
    /\ CredentialsDurable
    /\ SessionsCurrent
    /\ Quiet
    /\ TokensIssued
    /\ \A r \in Requests : ReadCurrent(r)

LEMMA InvInit == Init => Inv
<1> SUFFICES ASSUME Init PROVE Inv
  OBVIOUS
<1>1. TypeOK
  BY InitType
<1> QED BY <1>1 DEF Init, Inv, CredentialsDurable, SessionsCurrent, Quiet, TokensIssued,
                    ReadCurrent, Idle, Changing

\* A step that moves one request and may remove sessions, to a place where
\* what it has read is current, keeps the invariant.
LEMMA InvMove ==
    ASSUME Inv, TypeOK', NEW r \in Requests, NEW q \in RequestStates, Goto(r, q), up,
           UNCHANGED <<disk, credential, generation, sessions, up, issued>>,
           ReadCurrent(r)',
           q.at \in Changing \cup {"snapshot"} => q.token <= issued
    PROVE  Inv'
<1>1. /\ request'[r] = q
      /\ \A p \in Requests : p # r => request'[p] = request[p]
  BY GotoEffect DEF Inv
<1>2. ASSUME NEW p \in Requests PROVE ReadCurrent(p)'
  <2>1. CASE p = r
    BY <2>1
  <2>2. CASE p # r
    BY <1>1, <2>2 DEF Inv, ReadCurrent
  <2> QED BY <2>1, <2>2
<1>3. TokensIssued'
  BY <1>1 DEF Inv, TokensIssued
<1> QED BY <1>2, <1>3 DEF Inv, CredentialsDurable, SessionsCurrent, Quiet

LEMMA InvPreserved == Inv /\ TypeOK' /\ [Next]_vars => Inv'
<1> SUFFICES ASSUME Inv, TypeOK', [Next]_vars PROVE Inv'
  OBVIOUS
<1>0. TypeOK
  BY DEF Inv
<1>1. CASE Open
  <2>1. credential' = disk'
    BY <1>1 DEF Open
  <2>2. sessions' = {} /\ \A r \in Requests : request'[r].at = "idle"
    BY <1>1 DEF Open, Inv, Quiet, Idle
  <2> QED BY <1>1, <2>1, <2>2 DEF Open, Inv, CredentialsDurable, SessionsCurrent, Quiet,
                                TokensIssued, ReadCurrent, Changing
<1>2. CASE Crash
  <2>1. sessions' = {} /\ \A r \in Requests : request'[r] = Idle
    BY <1>2 DEF Crash
  <2> QED BY <1>2, <2>1 DEF Crash, Inv, CredentialsDurable, SessionsCurrent, Quiet,
                            TokensIssued, ReadCurrent, Changing, Idle
<1>3. CASE Tick
  BY <1>3 DEF Tick, Inv, CredentialsDurable, SessionsCurrent, Quiet, TokensIssued, ReadCurrent
<1>4. ASSUME NEW r \in Requests, StartLogin(r) PROVE Inv'
  <2>1. request'[r] = [at |-> "login", user |-> credential.user, read |-> generation]
    BY <1>0, <1>4, StartLoginType, GotoEffect DEF StartLogin
  <2>2. ReadCurrent(r)'
    BY <1>0, <1>4, <2>1 DEF StartLogin, ReadCurrent, Changing, TypeOK
  <2> QED BY <1>0, <1>4, <2>2, StartLoginType, InvMove DEF StartLogin, Serving, Changing
<1>5. ASSUME NEW r \in Requests, FinishLogin(r) PROVE Inv'
  <2>1. PICK kept \in SUBSET sessions, s \in Sessions :
           /\ sessions' = kept \cup {s}
           /\ s.token = issued + 1
           /\ s.user = request[r].user
           /\ s.grant = request[r].read
           /\ request[r].read = generation
    BY <1>0, <1>5, FinishLoginSessions
  <2>2. /\ request'[r] = Idle
        /\ \A p \in Requests : p # r => request'[p] = request[p]
    BY <1>0, <1>5, IdleType, GotoEffect DEF FinishLogin
  <2>3. /\ UNCHANGED <<disk, credential, generation, up>> /\ up
        /\ issued' = issued + 1 /\ issued \in Nat
    BY <1>0, <1>5 DEF FinishLogin, Serving, TypeOK
  <2>4. s.user = credential.user
    BY <1>5, <2>1 DEF FinishLogin, Serving, Inv, ReadCurrent
  <2>5. SessionsCurrent'
    BY <2>1, <2>3, <2>4 DEF Inv, SessionsCurrent
  <2>6. TokensIssued'
    <3>1. \A t \in sessions : t.token \in Nat /\ t.token <= issued
      BY <1>0 DEF Inv, TokensIssued, TypeOK, Sessions, Tokens
    <3>2. \A t \in sessions' : t.token <= issued'
      BY <2>1, <2>3, <3>1
    <3>3. ASSUME NEW p \in Requests, request'[p].at \in Changing \cup {"snapshot"}
          PROVE  request'[p].token <= issued'
      <4>1. p # r /\ request'[p] = request[p]
        BY <2>2, <3>3 DEF Idle, Changing
      <4>2. request[p].token <= issued /\ request[p].token \in Nat
        BY <1>0, <3>3, <4>1, RequestFields DEF Inv, TokensIssued, TypeOK, Tokens
      <4> QED BY <2>3, <4>1, <4>2
    <3> QED BY <3>2, <3>3 DEF TokensIssued
  <2>7. ASSUME NEW p \in Requests PROVE ReadCurrent(p)'
    <3>1. CASE p = r
      BY <2>2, <3>1 DEF ReadCurrent, Idle, Changing
    <3>2. CASE p # r
      <4>1. request'[p] = request[p]
        BY <2>2, <3>2
      <4>2. request[p].at \in Changing => request[p].token # s.token
        <5>1. ASSUME request[p].at \in Changing
              PROVE  request[p].token <= issued /\ request[p].token \in Nat
          BY <1>0, <5>1, RequestFields DEF Inv, TokensIssued, TypeOK, Tokens
        <5> QED BY <2>1, <2>3, <5>1
      <4> QED BY <2>1, <2>3, <4>1, <4>2 DEF Inv, ReadCurrent
    <3> QED BY <3>1, <3>2
  <2> QED BY <2>3, <2>5, <2>6, <2>7 DEF Inv, CredentialsDurable, Quiet
<1>6. ASSUME NEW r \in Requests, NEW token \in Tokens, NEW password \in Passwords,
             StartChange(r, token, password)
      PROVE  Inv'
  <2>1. request'[r] = [at |-> "snapshot", token |-> token, user |-> credential.user,
                       password |-> password]
    BY <1>0, <1>6, StartChangeType, GotoEffect DEF StartChange
  <2>2. ReadCurrent(r)'
    BY <2>1 DEF ReadCurrent, Changing
  <2>3. token <= issued
    BY <1>6 DEF StartChange, Valid, Inv, TokensIssued
  <2> QED BY <1>0, <1>6, <2>2, <2>3, StartChangeType, InvMove DEF StartChange, Serving
<1>7. ASSUME NEW r \in Requests, Snapshot(r) PROVE Inv'
  <2> DEFINE q == [at |-> "verified", token |-> request[r].token, user |-> request[r].user,
                   password |-> request[r].password, read |-> generation]
  <2>1. q \in RequestStates /\ Goto(r, q) /\ request'[r] = q
    BY <1>0, <1>7, SnapshotType, GotoEffect DEF Snapshot
  <2>2. ReadCurrent(r)'
    BY <1>0, <1>7, <2>1 DEF Snapshot, ReadCurrent, Changing, TypeOK
  <2>3. request[r].token <= issued
    BY <1>7 DEF Snapshot, Serving, Inv, TokensIssued
  <2> QED BY <1>0, <1>7, <2>1, <2>2, <2>3, InvMove DEF Snapshot, Serving
<1>8. ASSUME NEW r \in Requests, Verified(r) \/ Validate(r) PROVE Inv'
  <2>1. request[r].at \in Changing
    BY <1>8 DEF Verified, Validate, Serving, Changing
  <2>2. PICK place \in Changing : Goto(r, [request[r] EXCEPT !.at = place])
    BY <1>8 DEF Verified, Validate, Changing
  <2> DEFINE q == [request[r] EXCEPT !.at = place]
  <2>3. /\ q \in RequestStates /\ q.at = place
        /\ q.token = request[r].token /\ q.user = request[r].user
        /\ q.password = request[r].password /\ q.read = request[r].read
    BY <1>0, <2>1, ChangingType
  <2>4. Goto(r, q)
    BY <2>2
  <2> HIDE DEF q
  <2>5. request'[r] = q
    BY <1>0, <2>3, <2>4, GotoEffect
  <2>6. UNCHANGED <<disk, credential, generation, sessions, up, issued>> /\ up
    BY <1>8 DEF Verified, Validate, Serving
  <2>7. ReadCurrent(r)'
    BY <2>1, <2>3, <2>5, <2>6 DEF Inv, ReadCurrent, Changing
  <2>8. q.token <= issued
    BY <2>1, <2>3 DEF Inv, TokensIssued
  <2> QED BY <2>3, <2>4, <2>6, <2>7, <2>8, InvMove
<1>9. ASSUME NEW r \in Requests, NEW account \in Accounts, Commit(r, account) PROVE Inv'
  <2>1. sessions' = {} /\ disk' = account /\ issued' = issued
    BY <1>9 DEF Commit, Save
  <2>2. CASE /\ credential' = account /\ generation' = generation + 1
             /\ Goto(r, Idle) /\ up' = up
    <3>1. /\ request'[r] = Idle
          /\ \A p \in Requests : p # r => request'[p] = request[p]
      BY <1>0, <2>2, IdleType, GotoEffect
    <3>2. ASSUME NEW p \in Requests PROVE ReadCurrent(p)'
      <4>1. CASE p = r
        BY <3>1, <4>1 DEF ReadCurrent, Idle, Changing
      <4>2. CASE p # r
        <5>1. request[p].at \in Changing \cup {"login"}
                 => request[p].read \in Nat /\ request[p].read <= generation
          BY <1>0, RequestFields DEF Inv, ReadCurrent, TypeOK
        <5>2. generation \in Nat
          BY <1>0 DEF TypeOK
        <5> QED BY <2>1, <2>2, <3>1, <4>2, <5>1, <5>2 DEF ReadCurrent
      <4> QED BY <4>1, <4>2
    <3>3. TokensIssued'
      BY <2>1, <3>1 DEF Inv, TokensIssued, Idle, Changing
    <3>4. up
      BY <1>9 DEF Commit, Serving
    <3> QED BY <2>1, <2>2, <3>2, <3>3, <3>4 DEF Inv, CredentialsDurable, SessionsCurrent, Quiet
  <2>3. CASE /\ up' = FALSE /\ request' = [q \in Requests |-> Idle]
             /\ UNCHANGED <<credential, generation>>
    <3>1. \A p \in Requests : request'[p] = Idle
      BY <2>3
    <3> QED BY <2>1, <2>3, <3>1 DEF Inv, CredentialsDurable, SessionsCurrent, Quiet,
                                TokensIssued, ReadCurrent, Changing, Idle
  <2> QED BY <1>9, <2>2, <2>3 DEF Commit
<1>10. ASSUME NEW r \in Requests, GiveUp(r) PROVE Inv'
  <2>1. request'[r] = Idle
    BY <1>0, <1>10, IdleType, GotoEffect DEF GiveUp
  <2>2. ReadCurrent(r)'
    BY <2>1 DEF ReadCurrent, Idle, Changing
  <2> QED BY <1>10, <2>2, IdleType, InvMove DEF GiveUp, Idle, Changing
<1>11. ASSUME NEW s \in sessions, RevokeSession(s) PROVE Inv'
  BY <1>11 DEF RevokeSession, Inv, CredentialsDurable, SessionsCurrent, Quiet, TokensIssued,
               ReadCurrent
<1>12. CASE UNCHANGED vars
  BY <1>12 DEF vars, Inv, CredentialsDurable, SessionsCurrent, Quiet, TokensIssued, ReadCurrent
<1> QED
  BY <1>1, <1>2, <1>3, <1>4, <1>5, <1>6, <1>7, <1>8, <1>9, <1>10, <1>11, <1>12
  DEF Next, Change

LEMMA InvHolds == Spec => []Inv
BY InvInit, InvPreserved, TypeCorrect, PTL DEF Spec

\* No session outlives the credentials that granted it, however a login and a
\* change of the credentials overlap.
THEOREM NoStaleSession == Spec => []SessionsCurrent
<1>1. Inv => SessionsCurrent BY DEF Inv
<1> QED BY <1>1, InvHolds, PTL

\* What a restart finds is what was in force.
THEOREM RestartFindsCredentials == Spec => []CredentialsDurable
<1>1. Inv => CredentialsDurable BY DEF Inv
<1> QED BY <1>1, InvHolds, PTL

-----------------------------------------------------------------------------
(* The two properties of steps.                                            *)

LEMMA AccountsAreNoGap == \A account \in Accounts : account # NoFile
<1> SUFFICES ASSUME NEW account \in Accounts PROVE account # NoFile
  OBVIOUS
<1>1. "password" \in DOMAIN account
  BY DEF Accounts
<1>2. "password" \notin DOMAIN NoFile
  BY DEF NoFile
<1> QED BY <1>1, <1>2

\* Once there is a file, only a change of the credentials replaces it.
LEMMA DiskChanges ==
    ASSUME [Next]_vars, disk' # disk, disk # NoFile
    PROVE  \E r \in Requests, account \in Accounts :
              ~account.mustChange /\ Commit(r, account)
<1>1. ~Open
  BY DEF Open, Loaded
<1>2. ~Crash /\ ~Tick /\ ~UNCHANGED vars
  BY DEF Crash, Tick, vars
<1>3. \A r \in Requests : ~StartLogin(r) /\ ~FinishLogin(r) /\ ~GiveUp(r)
  BY DEF StartLogin, FinishLogin, GiveUp
<1>4. \A r \in Requests : /\ ~Snapshot(r) /\ ~Verified(r) /\ ~Validate(r)
                          /\ \A token \in Tokens, password \in Passwords :
                                ~StartChange(r, token, password)
  BY DEF Snapshot, Verified, Validate, StartChange
<1>5. \A s \in sessions : ~RevokeSession(s)
  BY DEF RevokeSession
<1> QED BY <1>1, <1>2, <1>3, <1>4, <1>5 DEF Next, Change

\* Whoever replaces the credentials has shown the password in force until then
\* and holds a session that is valid at that moment.
THEOREM OnlyTheHolderChanges == Spec => CurrentPasswordProved
<1>1. Inv /\ [Next]_vars =>
        [disk' # disk /\ disk # NoFile =>
            \E r \in Requests :
               /\ request[r].at = "commit"
               /\ request[r].user = credential.user
               /\ request[r].password = credential.password
               /\ Valid(request[r].token)]_vars
  <2> SUFFICES ASSUME Inv, [Next]_vars, disk' # disk, disk # NoFile
               PROVE  \E r \in Requests :
                         /\ request[r].at = "commit"
                         /\ request[r].user = credential.user
                         /\ request[r].password = credential.password
                         /\ Valid(request[r].token)
    OBVIOUS
  <2>1. PICK r \in Requests, account \in Accounts : Commit(r, account)
    BY DiskChanges
  <2>2. request[r].at = "commit" /\ Valid(request[r].token)
    BY <2>1 DEF Commit, Serving, StillValid
  <2>3. \E s \in sessions : s.token = request[r].token
    BY <2>2 DEF Valid
  <2>4. request[r].read = generation
    BY <2>2, <2>3 DEF Inv, ReadCurrent, Changing
  <2>5. request[r].user = credential.user /\ request[r].password = credential.password
    BY <2>2, <2>4 DEF Inv, ReadCurrent, Changing
  <2> QED BY <2>2, <2>5
<1> QED BY <1>1, InvHolds, PTL DEF Spec, CurrentPasswordProved

\* The demand for a first change of the password does not come back.
THEOREM NeverAskedAgain == Spec => ChangedForGood
<1>1. [Next]_vars => [disk # NoFile /\ ~disk.mustChange
                        => disk' # NoFile /\ ~disk'.mustChange]_vars
  <2> SUFFICES ASSUME [Next]_vars, disk # NoFile, ~disk.mustChange
               PROVE  disk' # NoFile /\ ~disk'.mustChange
    OBVIOUS
  <2>1. CASE disk' = disk
    BY <2>1
  <2>2. CASE disk' # disk
    <3>1. PICK r \in Requests, account \in Accounts :
             ~account.mustChange /\ Commit(r, account)
      BY <2>2, DiskChanges
    <3> QED BY <3>1, AccountsAreNoGap DEF Commit, Save
  <2> QED BY <2>1, <2>2
<1> QED BY <1>1, PTL DEF Spec, ChangedForGood

-----------------------------------------------------------------------------
(* The number of sessions. *)

FewSessions == IsFiniteSet(sessions) /\ SessionsBounded

LEMMA FewSessionsPreserved == TypeOK /\ FewSessions /\ [Next]_vars => FewSessions'
<1> SUFFICES ASSUME TypeOK, FewSessions, [Next]_vars PROVE FewSessions'
  OBVIOUS
<1>0. Cardinality(sessions) \in Nat /\ Cardinality(sessions) <= MaxSessions /\ MaxSessions \in Nat
  BY FS_CardinalityType, ConstantsAssumption DEF FewSessions, SessionsBounded
<1>1. CASE \E r \in Requests : FinishLogin(r)
  <2>1. PICK r \in Requests : FinishLogin(r)
    BY <1>1
  <2>2. PICK kept \in SUBSET sessions, s \in Sessions :
           kept \in Evicted /\ sessions' = kept \cup {s}
    BY <2>1, FinishLoginSessions
  <2>3. IsFiniteSet(kept) /\ Cardinality(kept) \in Nat
    BY FS_Subset, FS_CardinalityType DEF FewSessions
  <2>4. Cardinality(kept) < MaxSessions
    BY <2>2 DEF Evicted
  <2>5. /\ IsFiniteSet(kept \cup {s})
        /\ \/ Cardinality(kept \cup {s}) = Cardinality(kept)
           \/ Cardinality(kept \cup {s}) = Cardinality(kept) + 1
    BY <2>3, FS_AddElement
  <2>6. Cardinality(kept \cup {s}) <= MaxSessions
    BY <1>0, <2>3, <2>4, <2>5
  <2> QED BY <2>2, <2>5, <2>6 DEF FewSessions, SessionsBounded
<1>2. CASE sessions' \subseteq sessions
  BY <1>0, <1>2, FS_Subset, FS_CardinalityType DEF FewSessions, SessionsBounded
<1>3. \/ \E r \in Requests : FinishLogin(r)
      \/ sessions' \subseteq sessions
  <2>1. Open \/ Crash \/ Tick \/ UNCHANGED vars => sessions' \subseteq sessions
    BY DEF Open, Crash, Tick, vars
  <2>2. ASSUME NEW r \in Requests, StartLogin(r) \/ Change(r) \/ GiveUp(r)
        PROVE  sessions' \subseteq sessions
    BY <2>2 DEF StartLogin, GiveUp, Change, StartChange, Snapshot, Verified, Validate, Commit
  <2>3. \A s \in sessions : RevokeSession(s) => sessions' \subseteq sessions
    BY DEF RevokeSession
  <2> QED BY <2>1, <2>2, <2>3 DEF Next
<1> QED BY <1>1, <1>2, <1>3

\* A login never leaves more sessions than there may be.
THEOREM SessionsAreBounded == Spec => []SessionsBounded
<1>1. Init => FewSessions
  BY FS_EmptySet, ConstantsAssumption DEF Init, FewSessions, SessionsBounded
<1>2. FewSessions => SessionsBounded
  BY DEF FewSessions
<1> QED BY <1>1, <1>2, FewSessionsPreserved, TypeCorrect, PTL DEF Spec

-----------------------------------------------------------------------------
(* LocalAuth implements AccountContract.                                   *)

Live == {Public(s) : s \in sessions}

\* The steps that take no effect.
LEMMA NoEffect ==
    ASSUME UNCHANGED <<disk, sessions, issued, now>>
    PROVE  UNCHANGED Contract!contractVars
  BY DEF Contract!contractVars

LEMMA LiveSubset ==
    ASSUME sessions' \subseteq sessions PROVE Live' \in SUBSET Live
  BY DEF Live

\* Steps that only end sessions.
LEMMA SessionsEnd ==
    ASSUME sessions' \subseteq sessions, UNCHANGED <<disk, issued, now>>
    PROVE  Contract!Next
  BY LiveSubset DEF Live, Contract!Next, Contract!End

\* What the holders see of the sessions is no more than there are.
LEMMA PublicIsFew ==
    ASSUME NEW S, IsFiniteSet(S), Cardinality(S) <= MaxSessions
    PROVE  Cardinality({Public(s) : s \in S}) <= MaxSessions
  <1> DEFINE seen == {Public(s) : s \in S}
             f == [s \in S |-> Public(s)]
  <1>1. f \in Surjection(S, seen)
    BY DEF Surjection
  <1> HIDE DEF f, seen
  <1>2. IsFiniteSet(seen) /\ Cardinality(seen) <= Cardinality(S)
    BY <1>1, FS_Surjection
  <1>3. Cardinality(seen) \in Int /\ Cardinality(S) \in Int /\ MaxSessions \in Int
    BY <1>2, FS_CardinalityType, ConstantsAssumption
  <1>4. Cardinality(seen) <= MaxSessions
    BY <1>2, <1>3
  <1> QED BY <1>4 DEF seen

\* A login takes effect when it is finished: the account of that moment is the
\* one it has checked.
LEMMA LoginTakesEffect ==
    ASSUME Inv, FewSessions', NEW r \in Requests, FinishLogin(r)
    PROVE  Contract!Next
  <1>1. PICK kept \in SUBSET sessions :
           sessions' = kept \cup {[token |-> issued + 1, user |-> request[r].user,
                                   expires |-> now + TTL, grant |-> request[r].read]}
    BY DEF FinishLogin, Evicted, Unexpired
  <1>2. request[r].user = disk.user /\ disk # NoFile
    <2>1. up /\ request[r].at = "login" /\ request[r].read = generation
      BY DEF FinishLogin, Serving, SameGeneration
    <2>2. request[r].user = credential.user /\ disk = credential
      BY <2>1 DEF Inv, ReadCurrent, CredentialsDurable
    <2>3. credential \in Accounts
      BY DEF Inv, TypeOK
    <2> QED BY <2>2, <2>3, AccountsAreNoGap
  <1>3. Live' = {Public(s) : s \in kept}
                   \cup {[token |-> issued + 1, user |-> disk.user, expires |-> now + TTL]}
    <2> DEFINE s == [token |-> issued + 1, user |-> request[r].user,
                     expires |-> now + TTL, grant |-> request[r].read]
    <2>1. Public(s) = [token |-> issued + 1, user |-> disk.user, expires |-> now + TTL]
      BY <1>2 DEF Public
    <2>2. sessions' = kept \cup {s}
      BY <1>1
    <2> HIDE DEF s
    <2>3. Live' = {Public(x) : x \in kept} \cup {Public(s)}
      BY <2>2 DEF Live, Public
    <2> QED BY <2>1, <2>3
  <1>4. {Public(s) : s \in kept} \in SUBSET Live
    BY DEF Live
  <1>5. /\ issued \in Nat /\ issued' = issued + 1 /\ issued + 1 \in Tokens
        /\ UNCHANGED <<disk, now>>
    BY ConstantsAssumption DEF FinishLogin, Inv, TypeOK, Tokens
  <1>6. issued + 1 \notin 1 .. issued /\ 1 .. issued' = (1 .. issued) \cup {issued + 1}
    BY <1>5
  <1>7. Contract!Cardinality(Live') <= MaxSessions
    <2>1. IsFiniteSet(sessions') /\ Cardinality(sessions') <= MaxSessions
      BY DEF FewSessions, SessionsBounded
    <2>2. Cardinality({Public(s) : s \in sessions'}) <= MaxSessions
      BY <2>1, PublicIsFew
    <2>3. Live' = {Public(s) : s \in sessions'}
      BY DEF Live, Public
    <2> QED BY <2>2, <2>3 DEF Cardinality, Contract!Cardinality
  <1>8. Contract!LogIn(issued + 1)
    BY <1>2, <1>3, <1>4, <1>5, <1>6, <1>7 DEF Live, Contract!LogIn
  <1> QED BY <1>5, <1>8 DEF Contract!Next

\* A change takes effect when the file is replaced.
LEMMA ChangeTakesEffect ==
    ASSUME Inv, NEW r \in Requests, NEW account \in Accounts, ~account.mustChange,
           Commit(r, account)
    PROVE  Contract!Next
  <1>1. PICK s \in sessions : now < s.expires /\ s.user = credential.user
    BY DEF Commit, StillValid, Valid
  <1>2. disk = credential
    BY DEF Commit, Serving, Inv, CredentialsDurable
  <1>3. Public(s) \in Live /\ Public(s).expires = s.expires /\ Public(s).user = s.user
    BY DEF Live, Public
  <1>4. Live' = {}
    BY DEF Commit, Live
  <1>5. disk' = account /\ UNCHANGED <<issued, now>>
    BY DEF Commit, Save
  <1>6. Contract!Change(Public(s))
    BY <1>1, <1>2, <1>3, <1>4, <1>5 DEF Live, Contract!Change
  <1> QED BY <1>3, <1>6 DEF Live, Contract!Next

\* A start creates the account, or finds it.
LEMMA OpenTakesEffect ==
    ASSUME Open PROVE Contract!Next \/ UNCHANGED Contract!contractVars
  <1>1. PICK account \in Bootstrap : disk' = Loaded(account)
    BY DEF Open
  <1>2. UNCHANGED <<sessions, issued, now>>
    BY DEF Open
  <1>3. CASE disk = NoFile
    BY <1>1, <1>2, <1>3 DEF Loaded, Contract!Next, Contract!Create
  <1>4. CASE disk # NoFile
    BY <1>1, <1>2, <1>4, NoEffect DEF Loaded
  <1> QED BY <1>3, <1>4

LEMMA StepImplements ==
    ASSUME Inv, FewSessions', [Next]_vars
    PROVE  Contract!Next \/ UNCHANGED Contract!contractVars
  <1>1. CASE Open
    BY <1>1, OpenTakesEffect
  <1>2. CASE Crash
    BY <1>2, SessionsEnd DEF Crash
  <1>3. CASE Tick
    BY <1>3 DEF Tick, Contract!Next, Contract!Pass
  <1>4. ASSUME NEW r \in Requests, FinishLogin(r) PROVE Contract!Next
    BY <1>4, LoginTakesEffect
  <1>5. ASSUME NEW r \in Requests, NEW account \in Accounts, ~account.mustChange,
               Commit(r, account)
        PROVE  Contract!Next
    BY <1>5, ChangeTakesEffect
  <1>6. ASSUME NEW r \in Requests,
               \/ StartLogin(r) \/ Snapshot(r) \/ Verified(r) \/ Validate(r) \/ GiveUp(r)
               \/ \E token \in Tokens, password \in Passwords : StartChange(r, token, password)
        PROVE  UNCHANGED Contract!contractVars
    BY <1>6, NoEffect
       DEF StartLogin, Snapshot, Verified, Validate, GiveUp, StartChange
  <1>7. ASSUME NEW s \in sessions, RevokeSession(s) PROVE Contract!Next
    BY <1>7, SessionsEnd DEF RevokeSession
  <1>8. CASE UNCHANGED vars
    BY <1>8, NoEffect DEF vars
  <1> QED BY <1>1, <1>2, <1>3, <1>4, <1>5, <1>6, <1>7, <1>8 DEF Next, Change

\* Each login and each change takes effect at one instant, under the account
\* and at the hands of a session of that instant, however many of them overlap
\* and whenever the process dies.
THEOREM KeepsContract == Spec => ImplementsContract
  <1>1. Init => Contract!Init
    BY DEF Init, Contract!Init
  <1>2. Inv /\ FewSessions' /\ [Next]_vars => [Contract!Next]_Contract!contractVars
    BY StepImplements
  <1>3. Spec => []FewSessions
    <2>1. Init => FewSessions
      BY FS_EmptySet, ConstantsAssumption DEF Init, FewSessions, SessionsBounded
    <2> QED BY <2>1, FewSessionsPreserved, TypeCorrect, PTL DEF Spec
  <1> QED
    BY <1>1, <1>2, <1>3, InvHolds, PTL DEF Spec, ImplementsContract, Contract!Spec

=============================================================================
