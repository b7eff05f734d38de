------------------------------ MODULE LocalAuth ------------------------------
(***************************************************************************)
(* The local account of a client or manager and its web sessions:          *)
(* internal/localauth with the handlers of internal/websession.            *)
(*                                                                         *)
(* A login and a change of the credentials derive a password hash, which   *)
(* takes long, outside Store.mu, so each is several steps with those of    *)
(* other requests in between.  Requests that are turned down, and a change *)
(* whose file cannot be written, end without an effect.                    *)
(***************************************************************************)
EXTENDS Integers, FiniteSets

CONSTANTS
    Requests,     \* goroutines that serve HTTP requests
    Users,        \* user names
    Passwords,    \* passwords a handler accepts as new ones, of 8 runes or more
    Bootstrap,    \* the account of an empty data volume, by its environment
    TTL,          \* Store.sessionTTL
    MaxSessions,  \* Store.maxSessions
    MaxTokens,    \* bound: sessions ever issued (the code has none)
    MaxChanges,   \* bound: changes of the credentials (the code has none)
    MaxNow        \* bound: how far the clock runs (the code has none)

Accounts == [user : Users, password : Passwords, mustChange : BOOLEAN]

ASSUME ConstantsAssumption ==
    /\ Bootstrap \subseteq Accounts
    /\ TTL \in Nat \ {0}
    /\ MaxSessions \in Nat \ {0}
    /\ MaxTokens \in Nat /\ MaxChanges \in Nat /\ MaxNow \in Nat

NoFile == [user |-> "none"]

VARIABLES
    disk,        \* the credential file
    credential,  \* Store.credential
    generation,  \* Store.generation
    sessions,    \* Store.sessions, with the generation that granted each
    request,     \* where each request is, and what it has read
    up,          \* the process runs
    issued,      \* tokens 1 .. issued have been generated
    now          \* Store.now()

vars == <<disk, credential, generation, sessions, request, up, issued, now>>

Tokens   == 1 .. MaxTokens
Sessions == [token : Tokens, user : Users, expires : 0 .. MaxNow + TTL,
             grant : 1 .. MaxChanges + 1]

Idle == [at |-> "idle"]

Init ==
    /\ disk = NoFile
    /\ credential \in Bootstrap
    /\ generation = 1
    /\ sessions = {}
    /\ request = [r \in Requests |-> Idle]
    /\ up = FALSE
    /\ issued = 0
    /\ now = 0

-----------------------------------------------------------------------------
\* An Open that bootstraps an account whatever the file holds.
BootstrapAlways(account) == account

\* Open reads the file, and creates it from the bootstrap account if it is
\* missing.
Loaded(account) == IF disk = NoFile THEN account ELSE disk

Open ==
    /\ ~up
    /\ \E account \in Bootstrap :
          /\ disk' = Loaded(account)
          /\ credential' = Loaded(account)
    /\ generation' = 1
    /\ up' = TRUE
    /\ UNCHANGED <<sessions, request, issued, now>>

\* The process ends: its sessions and requests with it.
Crash ==
    /\ up
    /\ up' = FALSE
    /\ sessions' = {}
    /\ request' = [r \in Requests |-> Idle]
    /\ UNCHANGED <<disk, credential, generation, issued, now>>

\* ValidateSession.
Valid(token) ==
    \E s \in sessions : s.token = token /\ now < s.expires /\ s.user = credential.user

Serving(r, place) == up /\ request[r].at = place

Goto(r, state) == request' = [request EXCEPT ![r] = state]

-----------------------------------------------------------------------------
(* Login.  A name or password that is wrong changes nothing.               *)

StartLogin(r) ==
    /\ Serving(r, "idle")
    /\ Goto(r, [at |-> "login", user |-> credential.user, read |-> generation])
    /\ UNCHANGED <<disk, credential, generation, sessions, up, issued, now>>

\* What pruneExpiredLocked and evictSessionsLocked leave: sessions that expire
\* first go, in any order among equals, until there is room for one.
Unexpired == {s \in sessions : now < s.expires}

Evicted ==
    {S \in SUBSET Unexpired :
        /\ Cardinality(S) < MaxSessions
        /\ S # Unexpired => Cardinality(S) = MaxSessions - 1
        /\ \A s \in S, t \in Unexpired \ S : t.expires <= s.expires}

\* A login that does not look at the generation again.
AnyGeneration(r) == TRUE

\* No credential has been replaced while the password was checked.
SameGeneration(r) == request[r].read = generation

FinishLogin(r) ==
    /\ Serving(r, "login")
    /\ SameGeneration(r)
    /\ issued < MaxTokens
    /\ issued' = issued + 1
    /\ \E kept \in Evicted :
          sessions' = kept \cup {[token |-> issued', user |-> request[r].user,
                                  expires |-> now + TTL, grant |-> request[r].read]}
    /\ Goto(r, Idle)
    /\ UNCHANGED <<disk, credential, generation, up, now>>

-----------------------------------------------------------------------------
(* CredentialsHandler: Principal, VerifyCredentials, UpdateCredentials.    *)

\* Principal.
StartChange(r, token, password) ==
    /\ Serving(r, "idle")
    /\ Valid(token)
    /\ Goto(r, [at |-> "snapshot", token |-> token, user |-> credential.user,
                password |-> password])
    /\ UNCHANGED <<disk, credential, generation, sessions, up, issued, now>>

\* VerifyCredentials reads what it will verify against ...
Snapshot(r) ==
    /\ Serving(r, "snapshot")
    /\ request[r].user = credential.user
    /\ request[r].password = credential.password
    /\ Goto(r, [at |-> "verified", token |-> request[r].token, user |-> request[r].user,
                password |-> request[r].password, read |-> generation])
    /\ UNCHANGED <<disk, credential, generation, sessions, up, issued, now>>

\* ... and finds afterwards that it is still in force; UpdateCredentials then
\* validates the session once more and derives the new hash.
Verified(r) ==
    /\ Serving(r, "verified")
    /\ SameGeneration(r)
    /\ Goto(r, [request[r] EXCEPT !.at = "validate"])
    /\ UNCHANGED <<disk, credential, generation, sessions, up, issued, now>>

Validate(r) ==
    /\ Serving(r, "validate")
    /\ Valid(request[r].token)
    /\ Goto(r, [request[r] EXCEPT !.at = "commit"])
    /\ UNCHANGED <<disk, credential, generation, sessions, up, issued, now>>

\* A commit that relies on the session check before the hash.
CheckedBefore(r) == TRUE

\* The session, seen again under the write lock.
StillValid(r) == Valid(request[r].token)

\* saveCredential replaces the file; Commit goes on only when it could.
Save(account) == disk' = account

\* The file first, then memory; the process can die in between.
Commit(r, account) ==
    /\ Serving(r, "commit")
    /\ StillValid(r)
    /\ generation <= MaxChanges
    /\ Save(account)
    /\ \/ /\ credential' = account
          /\ generation' = generation + 1
          /\ sessions' = {}
          /\ Goto(r, Idle)
          /\ UNCHANGED up
       \/ /\ up' = FALSE
          /\ sessions' = {}
          /\ request' = [q \in Requests |-> Idle]
          /\ UNCHANGED <<credential, generation>>
    /\ UNCHANGED <<issued, now>>

\* CredentialsHandler never sets MustChange.
Change(r) ==
    \/ \E token \in Tokens, password \in Passwords : StartChange(r, token, password)
    \/ Snapshot(r) \/ Verified(r) \/ Validate(r)
    \/ \E account \in Accounts : ~account.mustChange /\ Commit(r, account)

\* A request ends early: a check fails, the file cannot be written, the client
\* goes away.
GiveUp(r) ==
    /\ up
    /\ request[r] # Idle
    /\ Goto(r, Idle)
    /\ UNCHANGED <<disk, credential, generation, sessions, up, issued, now>>

-----------------------------------------------------------------------------
\* Logout, and the removal of an expired session by whoever presents it.
RevokeSession(s) ==
    /\ up
    /\ s \in sessions
    /\ sessions' = sessions \ {s}
    /\ UNCHANGED <<disk, credential, generation, request, up, issued, now>>

Tick ==
    /\ now < MaxNow
    /\ now' = now + 1
    /\ UNCHANGED <<disk, credential, generation, sessions, request, up, issued>>

Next ==
    \/ Open \/ Crash \/ Tick
    \/ \E r \in Requests : StartLogin(r) \/ FinishLogin(r) \/ Change(r) \/ GiveUp(r)
    \/ \E s \in sessions : RevokeSession(s)

Spec == Init /\ [][Next]_vars

-----------------------------------------------------------------------------
(* Properties. *)

Places == {"idle", "login", "snapshot", "verified", "validate", "commit"}

RequestStates ==
    {Idle}
    \cup [at : {"login"}, user : Users, read : 1 .. MaxChanges + 1]
    \cup [at : {"snapshot"}, token : Tokens, user : Users, password : Passwords]
    \cup [at : {"verified", "validate", "commit"}, token : Tokens, user : Users,
          password : Passwords, read : 1 .. MaxChanges + 1]

\* The state is well typed.
TypeOK ==
    /\ disk \in Accounts \cup {NoFile}
    /\ credential \in Accounts
    /\ generation \in 1 .. MaxChanges + 1
    /\ sessions \subseteq Sessions
    /\ request \in [Requests -> RequestStates]
    /\ up \in BOOLEAN
    /\ issued \in 0 .. MaxTokens
    /\ now \in 0 .. MaxNow

\* Every session was granted by the credentials in force: a login whose check
\* of the old ones was under way does not survive their replacement.
SessionsCurrent ==
    \A s \in sessions : s.grant = generation /\ s.user = credential.user

\* There are never more sessions than maxSessions.
SessionsBounded == Cardinality(sessions) <= MaxSessions

\* Whoever replaces the credentials has shown the password that was in force
\* until then and holds a session that is still valid, although the two were
\* checked in calls that share no lock.
CurrentPasswordProved ==
    [][disk' # disk /\ disk # NoFile =>
          \E r \in Requests :
             /\ request[r].at = "commit"
             /\ request[r].user = credential.user
             /\ request[r].password = credential.password
             /\ Valid(request[r].token)]_vars

\* Once the first password has been changed nobody is asked to change it again,
\* and no restart brings the environment's account back.
ChangedForGood ==
    [][disk # NoFile /\ ~disk.mustChange => disk' # NoFile /\ ~disk'.mustChange]_vars

\* What a session is to its holder.
Public(s) == [token |-> s.token, user |-> s.user, expires |-> s.expires]

Contract == INSTANCE AccountContract WITH
    account <- disk, live <- {Public(s) : s \in sessions}, used <- 1 .. issued

\* Although a login and a change of the credentials check, hash and write in
\* several steps that overlap with those of others, each takes effect at one
\* instant, under the account of that instant and at the hands of a live
\* session, and neither a crash nor a restart adds an effect of its own.
ImplementsContract == Contract!Spec

\* While the process runs, the file holds the credentials in force.
CredentialsDurable == up => disk = credential

\* Nobody works with the first password.
FirstPasswordReplaced ==
    \A account \in Bootstrap :
        up /\ account.mustChange /\ ~credential.mustChange =>
            credential.password # account.password
=============================================================================
