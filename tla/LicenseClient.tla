---------------------------- MODULE LicenseClient ----------------------------
(***************************************************************************)
(* Client installations (internal/licenseclient) that activate at the      *)
(* manager of Licensing, renew their leases by heartbeats and decide from  *)
(* what they saved last whether they may work.                             *)
(*                                                                         *)
(* Service.mu admits one call of a client at a time.  A call is a request, *)
(* the manager's handling of it and the reading of the answer, with any    *)
(* step of another process in between.  A client that gives up (timeout,   *)
(* cancelled context, crash) does not stop its request: the manager may    *)
(* still serve it, and nobody reads the answer.  Store writes its file     *)
(* before it keeps a change in memory, so one variable stands for both.    *)
(***************************************************************************)
EXTENDS Licensing

CONSTANTS
    KeyFor,     \* the key pair each installation generated once
    MaxFaults   \* bound: crashes, timeouts and failed writes in one behaviour

ASSUME ClientAssumption ==
    /\ KeyFor \in [Installations -> Keys]
    /\ MaxFaults \in Nat

VARIABLES
    saved,    \* licenseclient.Store.state of every installation
    pending,  \* the request of its call in progress, until it is served
    answer,   \* the answer on its way back to the call in progress
    orphans,  \* requests whose clients have given up
    faults,   \* crashes, timeouts and failed writes so far
    lostAt    \* history: when a device last lost its credential

clientVars == <<saved, pending, answer, orphans>>
allVars    == <<vars, clientVars, faults, lostAt>>

Nothing == [op |-> "none"]

\* A request has the op "activate", with the client and a code, or "heartbeat",
\* with the client, its device and token; an answer is "granted", "renewed",
\* "refused" with the status that the client will save, or an error.
Error == [op |-> "error"]

NotActivated == [device |-> NoDevice, token |-> NoToken, status |-> "none",
                 lease |-> 0, expires |-> Never]

ClientInit ==
    /\ Init
    /\ saved = [i \in Installations |-> NotActivated]
    /\ pending = [i \in Installations |-> Nothing]
    /\ answer = [i \in Installations |-> Nothing]
    /\ orphans = {}
    /\ faults = 0
    /\ lostAt = [d \in Devices |-> Never]

-----------------------------------------------------------------------------
\* A client that works on without a lease as long as nobody refuses it.
ActiveOffline(i) ==
    /\ saved[i].device # NoDevice /\ saved[i].token # NoToken
    /\ saved[i].status = "active"
    /\ saved[i].expires = Never \/ now < saved[i].expires

\* Status.Activated, what requireActiveLicense asks.
ClientActive(i) ==
    /\ saved[i].device # NoDevice /\ saved[i].token # NoToken
    /\ saved[i].status = "active"
    /\ now < saved[i].lease
    /\ saved[i].expires = Never \/ now < saved[i].expires

Idle(i) == pending[i] = Nothing /\ answer[i] = Nothing

Ask(i, request) ==
    /\ Idle(i)
    /\ pending' = [pending EXCEPT ![i] = request]
    /\ UNCHANGED <<vars, saved, answer, orphans, faults, lostAt>>

\* A user enters a code the manager has issued.
StartActivate(i, c) ==
    /\ store.codes[c].status # "none"
    /\ Ask(i, [op |-> "activate", from |-> i, code |-> c])

\* The ticker of startLicenseHeartbeat.
StartHeartbeat(i) ==
    /\ saved[i].device # NoDevice /\ saved[i].token # NoToken
    /\ Ask(i, [op |-> "heartbeat", from |-> i,
               device |-> saved[i].device, token |-> saved[i].token])

-----------------------------------------------------------------------------
(* The manager's side of a request.                                        *)

Fail  == faults < MaxFaults /\ faults' = faults + 1

\* A step of the manager; its death is a fault.
ManagerStep(A) ==
    /\ A
    /\ faults' = IF up /\ ~up' THEN faults + 1 ELSE faults
    /\ faults' <= MaxFaults
    /\ lostAt' = [d \in Devices |->
          IF /\ disk.devices[d].status = "active"
             /\ \/ disk'.devices[d].status # "active"
                \/ disk'.devices[d].token # disk.devices[d].token
          THEN now ELSE lostAt[d]]

\* The errors of validateDeviceCredentialLocked, in its order, as the codes
\* writeLicensingError answers them with.
Refusal(d, t) ==
    IF store.devices[d].token # t THEN "device_token_invalid"
    ELSE IF store.licenses[LicenseOf(d)].status = "revoked" THEN "revoked"
    ELSE IF ~Usable(store, LicenseOf(d)) THEN "expired"
    ELSE "revoked"

Accept(r) ==
    ManagerStep(IF r.op = "activate" THEN Activate(r.code, r.from, KeyFor[r.from])
                                     ELSE Heartbeat(r.device, r.token))

\* The answer to an accepted request; nobody answers if the manager dies.
Reply(r) ==
    LET d == IF r.op = "activate"
             THEN <<store.codes[r.code].license, r.from, KeyFor[r.from]>>
             ELSE r.device
        terms == [lease |-> store'.devices[d].lease,
                  expires |-> store'.licenses[LicenseOf(d)].expires]
    IN  IF ~up' THEN Error
        ELSE IF r.op = "activate"
             THEN [op |-> "granted", device |-> d, token |-> issued',
                   lease |-> terms.lease, expires |-> terms.expires]
             ELSE [op |-> "renewed", lease |-> terms.lease, expires |-> terms.expires]

Answered(i, a) ==
    /\ pending' = [pending EXCEPT ![i] = Nothing]
    /\ answer' = [answer EXCEPT ![i] = a]
    /\ UNCHANGED <<saved, orphans>>

AcceptRequest(i) ==
    /\ pending[i] # Nothing
    /\ Accept(pending[i])
    /\ Answered(i, Reply(pending[i]))

RefuseHeartbeat(i) ==
    LET r == pending[i]
    IN  /\ r.op = "heartbeat" /\ up
        /\ ~CredentialValid(store, r.device, r.token)
        /\ Answered(i, [op |-> "refused", status |-> Refusal(r.device, r.token)])
        /\ UNCHANGED <<vars, faults, lostAt>>

\* A refused activation, a manager that is down or cannot write its file: the
\* client only shows a message.
AnswerError(i) ==
    /\ \/ pending[i].op = "activate" /\ UNCHANGED faults
       \/ pending[i].op = "heartbeat" /\ ~up /\ UNCHANGED faults
       \/ pending[i].op = "heartbeat" /\ up /\ Fail
    /\ Answered(i, Error)
    /\ UNCHANGED <<vars, lostAt>>

\* A request whose client has given up is served like any other.
ServeOrphan(r) ==
    /\ Accept(r)
    /\ orphans' = orphans \ {r}
    /\ UNCHANGED <<saved, pending, answer>>

-----------------------------------------------------------------------------
(* The client's side of an answer.                                         *)

\* A client that keeps its status when it is told the license has ended.
IgnoreRefusal(s, a) == s

\* A client that throws its credential away when it is refused.
MarkAndForget(s, a) == [s EXCEPT !.status = a.status, !.token = NoToken]

\* MarkRemoteStatus, after a 401 or 403.
Mark(s, a) == [s EXCEPT !.status = a.status]

\* SaveActivation, SaveHeartbeat, MarkRemoteStatus; other errors change nothing.
Learn(s, a) ==
    CASE a.op = "granted" -> [device |-> a.device, token |-> a.token, status |-> "active",
                              lease |-> a.lease, expires |-> a.expires]
      [] a.op = "renewed" -> [s EXCEPT !.status = "active", !.lease = a.lease,
                                       !.expires = a.expires]
      [] a.op = "refused" -> Mark(s, a)
      [] OTHER -> s

Receive(i) ==
    /\ answer[i] # Nothing
    /\ saved' = [saved EXCEPT ![i] = Learn(@, answer[i])]
    /\ answer' = [answer EXCEPT ![i] = Nothing]
    /\ UNCHANGED <<vars, pending, orphans, faults, lostAt>>

\* The client cannot write its file, or dies before it does.
LoseAnswer(i) ==
    /\ answer[i] # Nothing
    /\ Fail
    /\ answer' = [answer EXCEPT ![i] = Nothing]
    /\ UNCHANGED <<vars, saved, pending, orphans, lostAt>>

\* The client gives up on a request, which may be lost or still under way.
GiveUp(i) ==
    /\ pending[i] # Nothing
    /\ Fail
    /\ orphans' \in {orphans, orphans \cup {pending[i]}}
    /\ pending' = [pending EXCEPT ![i] = Nothing]
    /\ UNCHANGED <<vars, saved, answer, lostAt>>

-----------------------------------------------------------------------------
Manager ==
    /\ ManagerStep(Manage \/ Crash \/ Restart \/ Tick)
    /\ UNCHANGED clientVars

Client(i) ==
    \/ \E c \in Codes : StartActivate(i, c)
    \/ StartHeartbeat(i)
    \/ AcceptRequest(i) \/ RefuseHeartbeat(i) \/ AnswerError(i)
    \/ Receive(i) \/ LoseAnswer(i) \/ GiveUp(i)

ClientNext ==
    \/ Manager
    \/ \E i \in Installations : Client(i)
    \/ \E r \in orphans : ServeOrphan(r)

ClientSpec == ClientInit /\ [][ClientNext]_allVars

\* The ticker keeps asking and sync.Mutex lets it in however often a user
\* activates; requests in hand are answered or refused, answers are read and a
\* dead manager is started again.
ClientFairness ==
    /\ WF_allVars(ManagerStep(Restart) /\ UNCHANGED clientVars)
    /\ \A i \in Installations :
          /\ SF_allVars(StartHeartbeat(i))
          /\ WF_allVars(AcceptRequest(i) \/ RefuseHeartbeat(i) \/ AnswerError(i))
          /\ WF_allVars(Receive(i))

FairClientSpec == ClientSpec /\ ClientFairness

-----------------------------------------------------------------------------
(* Properties.                                                             *)

Requests ==
    [op : {"activate"}, from : Installations, code : Codes]
    \cup [op : {"heartbeat"}, from : Installations, device : Devices, token : 1 .. MaxTokens]

RefusedStatuses == {"device_token_invalid", "revoked", "expired"}
Leases          == 0 .. MaxNow + Lease

Answers ==
    {Nothing, Error}
    \cup [op : {"granted"}, device : Devices, token : 1 .. MaxTokens, lease : Leases,
          expires : Expiries]
    \cup [op : {"renewed"}, lease : Leases, expires : Expiries]
    \cup [op : {"refused"}, status : RefusedStatuses]

\* What the clients save, ask and are told is well typed.
ClientTypeOK ==
    /\ saved \in [Installations -> [device  : Devices \cup {NoDevice},
                                    token   : 0 .. MaxTokens,
                                    status  : {"none", "active"} \cup RefusedStatuses,
                                    lease   : Leases,
                                    expires : Expiries]]
    /\ pending \in [Installations -> Requests \cup {Nothing}]
    /\ answer \in [Installations -> Answers]
    /\ orphans \subseteq Requests
    /\ lostAt \in [Devices -> Expiries]

CredentialStands(i) ==
    /\ disk.devices[saved[i].device].status = "active"
    /\ disk.devices[saved[i].device].token = saved[i].token

\* A client whose credential the manager has revoked, released or replaced
\* works on for less than one lease, whatever is lost, late or cached.
StaleForOneLease ==
    \A i \in Installations :
        ClientActive(i) /\ ~CredentialStands(i) => now < lostAt[saved[i].device] + Lease

\* A client never saves a credential the manager could forget: the manager has
\* written the device, with this token or a later one.
CredentialWasWritten ==
    \A i \in Installations :
        saved[i].device # NoDevice =>
            /\ disk.devices[saved[i].device].status # "none"
            /\ saved[i].token <= issued
            /\ InstallationOf(saved[i].device) = i

\* A client of a revoked license learns of it.
RevocationNoticed ==
    \A i \in Installations :
        (/\ saved[i].device # NoDevice
         /\ disk.licenses[LicenseOf(saved[i].device)].status = "revoked")
            ~> \/ saved[i].status # "active"
               \/ disk.licenses[LicenseOf(saved[i].device)].status # "revoked"

\* A client that was told its license has expired recovers by itself once the
\* license is prolonged and stays usable.
ProlongationNoticed ==
    \A i \in Installations :
        (saved[i].status = "expired")
            ~> \/ saved[i].status # "expired"
               \/ ~Usable(disk, LicenseOf(saved[i].device))
=============================================================================
