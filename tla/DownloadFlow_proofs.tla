-------------------------- MODULE DownloadFlow_proofs --------------------------
(***************************************************************************)
(* The safety properties of DownloadFlow for any number of requests,       *)
(* devices, accounts, files and tickets.                                   *)
(***************************************************************************)
EXTENDS DownloadFlow, TLAPS

-----------------------------------------------------------------------------
(* The invariants. *)

\* What a request has read by the time it is at a step.
HeldInv ==
    \A r \in Requests :
        /\ req[r].pc # "idle" => req[r].device \in Devices
        /\ req[r].pc \notin {"idle", "search", "list"} => req[r].ticket \in Tickets

\* From its hit on a request has the account of its copy, which was bound while
\* it ran; only a download with qBittorrent gets as far as handing over.
Handing == {"read", "add", "record"}
Linked  == Handing \cup {"start"}

LinkOf(t) == IF t.via = "clouddrive2" THEN "clouddrive2" ELSE t.holder

HasCopy(r) ==
    /\ req[r].holder \in Users /\ req[r].holder \in seen[r]
    /\ FileOf(r) \in copies[req[r].holder]

LinkOk(r) ==
    /\ req[r].pc \in Handing => req[r].via = "qbittorrent"
    /\ req[r].pc \in Linked => req[r].link = LinkOf(req[r])
    /\ IF req[r].pc \in Linked \cup {"link"} THEN HasCopy(r) ELSE req[r].holder = None
    /\ req[r].pc \notin {"idle", "search", "list"} /\ req[r].holder = None =>
           account \in seen[r] \cup {None}

LinkInv == \A r \in Requests : LinkOk(r)

\* A request that is past the manager's checks was authorised, and still is but
\* for what has happened since.
GrantInv == \A r \in AtManager : InForce(r) \/ r \in overtaken

-----------------------------------------------------------------------------
(* One request changes. *)

Records == [pc : Pcs, ticket : Tickets \cup {NoTicket}, via : Downloaders,
            device : Devices \cup {None}, holder : Users \cup {None}, link : Links]

Typed == TypeOK /\ HeldInv

\* Request r becomes new, by the step of that name.
Keeps(r, new) ==
    /\ new.ticket = req[r].ticket /\ new.via = req[r].via
    /\ new.link = req[r].link /\ new.holder = req[r].holder

Begun(r, new) ==
    \/ StartSearch(r) /\ new.pc = "search" /\ new.device = device /\ new.holder = None
    \/ /\ \E t \in tickets, via \in Downloaders : StartDownload(r, t, via)
       /\ new.pc = "prepare" /\ new.device = device /\ new.ticket \in tickets /\ new.holder = None

Stepped(r, new) ==
    \/ /\ AuthoriseSearch(r) /\ new.pc = "list" /\ new.device = req[r].device
       /\ new.holder = req[r].holder
    \/ /\ (\E f \in Files : Issue(r, f)) \/ GiveUp(r) \/ StartRemote(r) \/ AnswerLost(r) \/ Record(r)
       /\ new = Idle
    \/ /\ Authorise(r) /\ Keeps(r, new) /\ new.device = req[r].device
       /\ new.pc \in {"hash", "rehash"}
    \/ /\ Grant(r) /\ Keeps(r, new) /\ new.device = req[r].device
       /\ new.pc \in {"upload", "upload2"}
    \/ /\ Hit(r) /\ new.ticket = req[r].ticket /\ new.via = req[r].via
       /\ new.device = req[r].device /\ new.holder = account /\ new.pc = "link"
    \/ AskDigest(r) /\ Keeps(r, new) /\ new.device = device /\ new.pc = "sign"
    \/ /\ Link(r) /\ new.ticket = req[r].ticket /\ new.via = req[r].via
       /\ new.device = req[r].device /\ new.holder = req[r].holder /\ new.link = req[r].holder
       /\ new.pc = IF new.via = "system" THEN "start" ELSE "read"
    \/ /\ LinkOfCloudDrive(r) /\ new.ticket = req[r].ticket /\ new.via = req[r].via
       /\ new.device = req[r].device /\ new.holder = req[r].holder
       /\ new.link = "clouddrive2" /\ new.pc = "start"
    \/ ReadTorrent(r) /\ Keeps(r, new) /\ new.device = req[r].device /\ new.pc = "add"
    \/ /\ Accepted(r) \/ Uncounted(r)
       /\ Keeps(r, new) /\ new.device = req[r].device /\ new.pc = "record"

LEMMA IdleTyped == Idle \in Records
  BY DEF Idle, Records, Pcs, Downloaders, Links

LEMMA BeginCases ==
    ASSUME Typed, NEW r \in Requests, Start(r)
    PROVE  \E new \in Records : req' = [req EXCEPT ![r] = new] /\ Begun(r, new)
  <1> USE DEF Set, Connected
  <1>1. CASE StartSearch(r)
    <2> DEFINE new == [Idle EXCEPT !.pc = "search", !.device = device]
    <2>1. new \in Records /\ new.pc = "search" /\ new.device = device /\ new.holder = None
      BY IdleTyped DEF Records, Pcs, Idle, Typed, TypeOK
    <2>2. req' = [req EXCEPT ![r] = new]
      BY <1>1 DEF StartSearch, Idle
    <2> QED BY <1>1, <2>1, <2>2 DEF Begun
  <1>2. ASSUME NEW t \in tickets, NEW via \in Downloaders, StartDownload(r, t, via)
        PROVE  \E new \in Records : req' = [req EXCEPT ![r] = new] /\ Begun(r, new)
    <2> DEFINE new == [Idle EXCEPT !.pc = "prepare", !.ticket = t, !.via = via,
                                   !.device = device]
    <2>1. /\ new \in Records /\ new.pc = "prepare" /\ new.device = device
          /\ new.ticket \in tickets /\ new.holder = None
      BY IdleTyped DEF Records, Pcs, Idle, Typed, TypeOK
    <2>2. req' = [req EXCEPT ![r] = new]
      BY <1>2 DEF StartDownload, Idle
    <2> QED BY <1>2, <2>1, <2>2 DEF Begun
  <1> QED BY <1>1, <1>2 DEF Start

LEMMA StepCases ==
    ASSUME Typed, NEW r \in Requests, Step(r)
    PROVE  \E new \in Records : req' = [req EXCEPT ![r] = new] /\ Stepped(r, new)
  <1> USE DEF Set, Goto, Connected, Keeps
  <1>0. req[r] \in Records
    BY DEF Typed, TypeOK, Records
  <1>1. CASE AuthoriseSearch(r)
    <2> DEFINE new == [req[r] EXCEPT !.pc = "list"]
    <2>1. /\ new \in Records /\ new.pc = "list" /\ new.device = req[r].device
          /\ new.holder = req[r].holder
      BY <1>0 DEF Records, Pcs
    <2> QED BY <1>1, <2>1 DEF AuthoriseSearch, Stepped
  <1>2. CASE (\E f \in Files : Issue(r, f)) \/ GiveUp(r) \/ StartRemote(r) \/ AnswerLost(r)
             \/ Record(r)
    <2>1. req' = [req EXCEPT ![r] = Idle]
      BY <1>2 DEF Issue, GiveUp, StartRemote, AnswerLost, Record
    <2> QED BY <1>2, <2>1, IdleTyped DEF Stepped
  <1>3. CASE Authorise(r)
    <2>1. PICK pc \in {"hash", "rehash"} : req' = [req EXCEPT ![r] = [req[r] EXCEPT !.pc = pc]]
      BY <1>3 DEF Authorise
    <2> DEFINE new == [req[r] EXCEPT !.pc = pc]
    <2>2. new \in Records /\ new.pc = pc /\ Keeps(r, new) /\ new.device = req[r].device
      BY <1>0 DEF Records, Pcs
    <2> QED BY <1>3, <2>1, <2>2 DEF Stepped
  <1>4. CASE Grant(r)
    <2>1. PICK pc \in {"upload", "upload2"} :
              req' = [req EXCEPT ![r] = [req[r] EXCEPT !.pc = pc]]
      BY <1>4 DEF Grant
    <2> DEFINE new == [req[r] EXCEPT !.pc = pc]
    <2>2. new \in Records /\ new.pc = pc /\ Keeps(r, new) /\ new.device = req[r].device
      BY <1>0 DEF Records, Pcs
    <2> QED BY <1>4, <2>1, <2>2 DEF Stepped
  <1>5. CASE Hit(r)
    <2> DEFINE new == [req[r] EXCEPT !.pc = "link", !.holder = account]
    <2>1. /\ new \in Records /\ new.pc = "link" /\ new.ticket = req[r].ticket
          /\ new.via = req[r].via /\ new.device = req[r].device /\ new.holder = account
      BY <1>0 DEF Records, Pcs, Typed, TypeOK
    <2> QED BY <1>5, <2>1 DEF Hit, Stepped
  <1>6. CASE AskDigest(r)
    <2> DEFINE new == [req[r] EXCEPT !.pc = "sign", !.device = device]
    <2>1. new \in Records /\ new.pc = "sign" /\ Keeps(r, new) /\ new.device = device
      BY <1>0 DEF Records, Pcs, Typed, TypeOK
    <2>2. req' = [req EXCEPT ![r] = new]
      BY <1>0, <1>6 DEF AskDigest, Records
    <2> QED BY <1>6, <2>1, <2>2 DEF Stepped
  <1>7. CASE Link(r)
    <2> DEFINE new == [req[r] EXCEPT !.link = req[r].holder,
                             !.pc = IF req[r].via = "system" THEN "start" ELSE "read"]
    <2>1. /\ new \in Records /\ new.ticket = req[r].ticket /\ new.via = req[r].via
          /\ new.device = req[r].device /\ new.holder = req[r].holder
          /\ new.link = req[r].holder
          /\ new.pc = IF new.via = "system" THEN "start" ELSE "read"
      BY <1>0 DEF Records, Pcs, Links, Sources
    <2>2. req' = [req EXCEPT ![r] = new]
      BY <1>7 DEF Link, LinkFor
    <2> QED BY <1>7, <2>1, <2>2 DEF Stepped
  <1>8. CASE LinkOfCloudDrive(r)
    <2> DEFINE new == [req[r] EXCEPT !.link = "clouddrive2", !.pc = "start"]
    <2>1. /\ new \in Records /\ new.ticket = req[r].ticket /\ new.via = req[r].via
          /\ new.device = req[r].device /\ new.holder = req[r].holder
          /\ new.link = "clouddrive2" /\ new.pc = "start"
      BY <1>0 DEF Records, Pcs, Links, Sources
    <2> QED BY <1>8, <2>1 DEF LinkOfCloudDrive, Stepped
  <1>9. CASE ReadTorrent(r)
    <2> DEFINE new == [req[r] EXCEPT !.pc = "add"]
    <2>1. new \in Records /\ new.pc = "add" /\ Keeps(r, new) /\ new.device = req[r].device
      BY <1>0 DEF Records, Pcs
    <2> QED BY <1>9, <2>1 DEF ReadTorrent, Stepped
  <1>10. CASE Accepted(r) \/ Uncounted(r)
    <2> DEFINE new == [req[r] EXCEPT !.pc = "record"]
    <2>1. new \in Records /\ new.pc = "record" /\ Keeps(r, new) /\ new.device = req[r].device
      BY <1>0 DEF Records, Pcs
    <2>2. req' = [req EXCEPT ![r] = new]
      BY <1>10 DEF Accepted, Uncounted
    <2> QED BY <1>10, <2>1, <2>2 DEF Stepped
  <1> QED
    BY <1>1, <1>2, <1>3, <1>4, <1>5, <1>6, <1>7, <1>8, <1>9, <1>10 DEF Step

-----------------------------------------------------------------------------
(* Types, and what a request holds. *)

LEMMA TypeInitially == Init => Typed
  <1> SUFFICES ASSUME Init PROVE Typed
    OBVIOUS
  <1>1. req \in [Requests -> Records] /\ \A r \in Requests : req[r].pc = "idle"
    BY IdleTyped DEF Init, Idle
  <1>2. HeldInv
    BY <1>1 DEF HeldInv
  <1>3. now \in 0 .. MaxNow
    BY FlowAssumption DEF Init
  <1>4. /\ copies \in [Users -> SUBSET Files] /\ account \in Users \cup {None}
        /\ seen \in [Requests -> SUBSET Users]
    BY DEF Init
  <1>5. /\ device \in Devices /\ allowed \subseteq Devices /\ tickets \subseteq Tickets
        /\ torrents \subseteq Files /\ server \in {"open", "draining", "down"}
        /\ tasks \subseteq [file : Files, via : Downloaders]
        /\ closed \in BOOLEAN
        /\ overtaken \subseteq Requests /\ unknown \subseteq Files
    BY DEF Init
  <1> QED BY <1>1, <1>2, <1>3, <1>4, <1>5 DEF Typed, TypeOK, Records

\* A request's own steps leave the bound account alone.
LEMMA AccountKept ==
    ASSUME NEW r \in Requests, Start(r) \/ Step(r) PROVE account' = account
  BY DEF Start, StartSearch, StartDownload, Step, AuthoriseSearch, Issue, GiveUp, Authorise,
         Grant, Hit, AskDigest, Link, LinkOfCloudDrive, StartRemote, ReadTorrent, Accepted,
         AnswerLost, Uncounted, Record, client

LEMMA SeenTyped ==
    ASSUME TypeOK, [Next]_vars PROVE seen' \in [Requests -> SUBSET Users]
  <1>1. ASSUME Watch, account' \in Users \cup {None}
        PROVE  seen' \in [Requests -> SUBSET Users]
    BY <1>1 DEF TypeOK, Watch
  <1>2. ASSUME NEW r \in Requests, Start(r) \/ Step(r) PROVE Watch /\ account' = account
    BY <1>2, AccountKept DEF Start, Step
  <1>3. CASE Environment
    <2>1. account' \in Users \cup {None}
      BY <1>3 DEF Environment, TypeOK, Tick, Authorisation, Activate, Bind, StopAccepting,
                  CloseTransfer, Exit, Restart, client
    <2> QED BY <1>1, <1>3, <2>1 DEF Environment
  <1>4. CASE UNCHANGED vars
    BY <1>4 DEF TypeOK, vars
  <1> QED BY <1>1, <1>2, <1>3, <1>4 DEF Next, TypeOK

LEMMA TypePreserved == Typed /\ [Next]_vars => Typed'
  <1> SUFFICES ASSUME Typed, [Next]_vars PROVE Typed'
    OBVIOUS
  <1> USE FlowAssumption DEF Typed
  <1>0. req \in [Requests -> Records]
    BY DEF TypeOK, Records
  <1>s. seen' \in [Requests -> SUBSET Users]
    BY SeenTyped
  <1>1. CASE UNCHANGED vars
    BY <1>1 DEF vars, manager, client, process, TypeOK, HeldInv
  <1>2. ASSUME NEW r \in Requests, Start(r) PROVE Typed'
    <2>1. PICK new \in Records : req' = [req EXCEPT ![r] = new] /\ Begun(r, new)
      BY <1>2, BeginCases
    <2>2. UNCHANGED <<manager, client, process, torrents, tasks, overtaken, unknown>>
      BY <2>1 DEF Begun, StartSearch, StartDownload
    <2>3. /\ new.pc # "idle" => new.device \in Devices
          /\ new.pc \notin {"idle", "search", "list"} => new.ticket \in Tickets
      BY <2>1 DEF Begun, TypeOK
    <2>4. HeldInv'
      BY <1>0, <2>1, <2>3 DEF HeldInv
    <2>5. req' \in [Requests -> Records]
      BY <1>0, <2>1
    <2> QED BY <1>s, <2>2, <2>4, <2>5 DEF TypeOK, Records, manager, client, process
  <1>3. ASSUME NEW r \in Requests, Step(r) PROVE Typed'
    <2>1. PICK new \in Records : req' = [req EXCEPT ![r] = new] /\ Stepped(r, new)
      BY <1>3, StepCases
    <2>2. /\ new.pc # "idle" => new.device \in Devices
          /\ new.pc \notin {"idle", "search", "list"} => new.ticket \in Tickets
      BY <2>1 DEF Stepped, Keeps, Idle, HeldInv, TypeOK, AuthoriseSearch, Authorise, Grant, Hit,
           AskDigest, Link, LinkOfCloudDrive, ReadTorrent, Accepted, Uncounted, At
    <2>3. HeldInv'
      BY <1>0, <2>1, <2>2 DEF HeldInv
    <2>4. req' \in [Requests -> Records]
      BY <1>0, <2>1
    <2>5. CASE \E f \in Files : Issue(r, f)
      <3>1. PICK f \in Files : Issue(r, f)
        BY <2>5
      <3>2. req[r].device \in Devices
        BY <3>1 DEF Issue, At, HeldInv
      <3>3. Ticket(r, f) \in Tickets
        BY <3>2 DEF Ticket, Tickets, TypeOK
      <3> QED BY <1>s, <2>3, <2>4, <3>1, <3>3 DEF Issue, TypeOK, Records, client, process
    <2>6. CASE GiveUp(r) \/ StartRemote(r) \/ AnswerLost(r) \/ Record(r) \/ Hit(r) \/ Accepted(r)
      <3>1. FileOf(r) \in Files \/ req[r].pc \in {"idle", "search", "list"}
        BY DEF HeldInv, FileOf, Tickets
      <3>2. Task(r) \in [file : {FileOf(r)}, via : Downloaders]
        BY <1>0 DEF Task, Records
      <3>3. copies \in [Users -> SUBSET Files]
        BY DEF TypeOK
      <3>4. CASE GiveUp(r)
        BY <1>s, <2>3, <2>4, <3>1, <3>4 DEF GiveUp, At, TypeOK, Records, manager, client, process
      <3>5. CASE StartRemote(r) \/ Record(r)
        <4>1. Task(r) \in [file : Files, via : Downloaders]
          BY <3>1, <3>2, <3>5 DEF StartRemote, Record, At
        <4>2. tasks' = tasks \cup {Task(r)}
          BY <3>5 DEF StartRemote, Record
        <4> QED BY <1>s, <2>3, <2>4, <3>5, <4>1, <4>2 DEF StartRemote, Record, TypeOK, Records,
                   manager, client, process
      <3>6. CASE AnswerLost(r) \/ Accepted(r)
        BY <1>s, <2>3, <2>4, <3>1, <3>6 DEF AnswerLost, Accepted, At, TypeOK, Records, manager,
           client, process
      <3>7. CASE Hit(r)
        <4>1. account \in Users /\ FileOf(r) \in Files
          BY <3>1, <3>7 DEF Hit, At, TypeOK
        <4>2. copies' \in [Users -> SUBSET Files]
          BY <3>3, <3>7, <4>1 DEF Hit
        <4> QED BY <1>s, <2>3, <2>4, <3>7, <4>2 DEF Hit, TypeOK, Records, manager, process
      <3> QED BY <2>6, <3>4, <3>5, <3>6, <3>7
    <2>7. CASE AuthoriseSearch(r) \/ Authorise(r) \/ Grant(r) \/ AskDigest(r) \/ Link(r)
               \/ LinkOfCloudDrive(r) \/ ReadTorrent(r) \/ Uncounted(r)
      <3>1. /\ UNCHANGED <<manager, client, process, torrents, tasks, unknown>>
            /\ overtaken' \subseteq overtaken
        BY <2>7 DEF AuthoriseSearch, Authorise, Grant, AskDigest, Link, LinkOfCloudDrive, ReadTorrent, Uncounted
      <3> QED BY <1>s, <2>3, <2>4, <3>1 DEF TypeOK, Records, manager, client, process
    <2> QED BY <1>3, <2>5, <2>6, <2>7 DEF Step
  <1>4. CASE Environment
    <2>1. CASE Exit
      <3>1. req' \in [Requests -> Records] /\ \A r \in Requests : req'[r].pc = "idle"
        BY <2>1, IdleTyped DEF Exit, Idle
      <3>2. HeldInv'
        BY <3>1 DEF HeldInv
      <3> QED BY <1>s, <2>1, <3>1, <3>2 DEF Exit, TypeOK, Records, manager, client
    <2>2. CASE Tick \/ \E d \in Devices : Authorisation(d)
      <3>1. /\ UNCHANGED <<tickets, client, process, torrents, tasks, req, unknown>>
            /\ overtaken' \subseteq Requests
        BY <2>2 DEF Tick, Authorisation, Overtake, AtManager, TypeOK
      <3>2. now' \in 0 .. MaxNow /\ allowed' \subseteq Devices
        BY <2>2 DEF Tick, Authorisation, TypeOK
      <3> QED BY <1>s, <3>1, <3>2 DEF TypeOK, HeldInv, client, process
    <2>3. CASE (\E d \in Devices : Activate(d)) \/ \E u \in Users \cup {None} : Bind(u)
      BY <1>s, <2>3 DEF Activate, Bind, TypeOK, HeldInv, manager, process
    <2>4. CASE StopAccepting \/ CloseTransfer \/ Restart
      BY <1>s, <2>4 DEF StopAccepting, CloseTransfer, Restart, TypeOK, HeldInv, manager, client
    <2> QED BY <1>4, <2>1, <2>2, <2>3, <2>4 DEF Environment
  <1> QED BY <1>1, <1>2, <1>3, <1>4 DEF Next

\* The variables keep their types.
THEOREM TypeCorrect == Spec => []TypeOK
  BY TypeInitially, TypePreserved, PTL DEF Spec, Typed

-----------------------------------------------------------------------------
(* Tickets and authorisations. *)

LEMMA GrantInitially == Init => GrantInv
  <1> SUFFICES ASSUME Init, NEW r \in AtManager PROVE FALSE
    BY DEF GrantInv
  <1> QED BY DEF Init, AtManager, At, Idle

\* Only time and a change of authorisation take a ticket's force away, and both
\* mark the requests that are at the manager.
LEMMA GrantPreserved == Typed /\ GrantInv /\ [Next]_vars => GrantInv'
  <1> SUFFICES ASSUME Typed, GrantInv, [Next]_vars PROVE GrantInv'
    OBVIOUS
  <1>0. req \in [Requests -> Records]
    BY DEF Typed, TypeOK, Records
  <1> USE DEF GrantInv, AtManager, At, InForce, Authorised, TicketOpens, Sealed
  <1>1. CASE UNCHANGED vars
    BY <1>1 DEF vars, manager
  <1>2. ASSUME NEW r \in Requests, Start(r) PROVE GrantInv'
    <2>1. PICK new \in Records : req' = [req EXCEPT ![r] = new] /\ Begun(r, new)
      BY <1>2, BeginCases
    <2>2. UNCHANGED <<manager, overtaken>> /\ new.pc \notin {"hash", "rehash"}
      BY <2>1 DEF Begun, StartSearch, StartDownload
    <2> QED BY <1>0, <2>1, <2>2 DEF manager
  <1>3. ASSUME NEW r \in Requests, Step(r) PROVE GrantInv'
    <2>1. PICK new \in Records : req' = [req EXCEPT ![r] = new] /\ Stepped(r, new)
      BY <1>3, StepCases
    <2>2. UNCHANGED <<now, allowed>> /\ tickets \subseteq tickets'
      BY <2>1 DEF Stepped, AuthoriseSearch, Issue, GiveUp, StartRemote, AnswerLost, Record,
           Authorise, Grant, Hit, AskDigest, Link, LinkOfCloudDrive, ReadTorrent,
           Accepted, Uncounted, manager
    <2>3. overtaken \ {r} \subseteq overtaken'
      BY <2>1 DEF Stepped, AuthoriseSearch, Issue, GiveUp, StartRemote, AnswerLost, Record,
           Authorise, Grant, Hit, AskDigest, Link, LinkOfCloudDrive, ReadTorrent,
           Accepted, Uncounted
    <2>4. new.pc \in {"hash", "rehash"} =>
              InForce(r) /\ new.ticket = req[r].ticket /\ new.device = req[r].device
      BY <2>1 DEF Stepped, Keeps, Idle, Authorise
    <2> QED BY <1>0, <2>1, <2>2, <2>3, <2>4
  <1>4. CASE Environment
    <2>1. CASE Exit
      BY <2>1 DEF Exit, Idle
    <2>2. CASE Tick \/ \E d \in Devices : Authorisation(d)
      <3>1. req' = req /\ Overtake
        BY <2>2 DEF Tick, Authorisation
      <3> QED BY <3>1 DEF Overtake
    <2>3. CASE (\E d \in Devices : Activate(d)) \/ \E u \in Users \cup {None} : Bind(u)
      BY <2>3 DEF Activate, Bind, manager
    <2>4. CASE StopAccepting \/ CloseTransfer \/ Restart
      BY <2>4 DEF StopAccepting, CloseTransfer, Restart, manager
    <2> QED BY <1>4, <2>1, <2>2, <2>3, <2>4 DEF Environment
  <1> QED BY <1>1, <1>2, <1>3, <1>4 DEF Next

\* Each of the two digests is given only to a call that the manager has itself
\* authorised: its device and ticket are in force, or it was at the manager,
\* authorised, when they ceased to be.
THEOREM EveryGrantInForce == Spec => GrantsInForce
  <1>1. GrantInv => \A r \in Requests : Grant(r) => InForce(r) \/ r \in overtaken
    BY DEF GrantInv, AtManager, Grant
  <1> QED
    BY <1>1, TypeInitially, TypePreserved, GrantInitially, GrantPreserved, PTL
    DEF Spec, GrantsInForce

-----------------------------------------------------------------------------
(* Links and tasks. *)

LEMMA LinkInitially == Init => LinkInv /\ TorrentsRecorded
  <1> SUFFICES ASSUME Init PROVE LinkInv /\ TorrentsRecorded
    OBVIOUS
  <1>1. \A r \in Requests : req[r].pc = "idle" /\ req[r].holder = None
    BY DEF Init, Idle
  <1> QED BY <1>1 DEF Init, LinkInv, LinkOk, Linked, Handing, TorrentsRecorded

\* Copies are never taken back.
LEMMA CopiesGrow ==
    ASSUME Typed, [Next]_vars, NEW u \in Users PROVE copies[u] \subseteq copies'[u]
  <1>1. ASSUME NEW r \in Requests, Hit(r) PROVE copies[u] \subseteq copies'[u]
    BY <1>1 DEF Hit, Typed, TypeOK
  <1>2. ASSUME NEW r \in Requests, Step(r), ~Hit(r) PROVE copies' = copies
    BY <1>2 DEF Step, AuthoriseSearch, Issue, GiveUp, Authorise, Grant, AskDigest, Link,
           LinkOfCloudDrive, StartRemote, ReadTorrent, Accepted, AnswerLost, Uncounted, Record,
           client
  <1>3. ASSUME NEW r \in Requests, Start(r) PROVE copies' = copies
    BY <1>3 DEF Start, StartSearch, StartDownload, client
  <1>4. CASE Environment
    BY <1>4 DEF Environment, Tick, Authorisation, Activate, Bind, StopAccepting, CloseTransfer,
           Exit, Restart, client
  <1>5. CASE UNCHANGED vars
    BY <1>5 DEF vars, client
  <1> QED BY <1>1, <1>2, <1>3, <1>4, <1>5 DEF Next

LEMMA TicketIsNone == NoTicket \notin Tickets
  BY FlowAssumption DEF NoTicket, Tickets

LEMMA BystanderKeepsLink ==
    ASSUME Typed, Typed', [Next]_vars, Watch, NEW r \in Requests, LinkOk(r), req'[r] = req[r]
    PROVE  LinkOk(r)'
  <1>0. \A u \in Users : copies[u] \subseteq copies'[u]
    BY CopiesGrow
  <1>1. /\ seen'[r] = IF req[r].ticket = NoTicket THEN {}
                      ELSE IF req[r].holder # None THEN seen[r] \cap {req[r].holder}
                      ELSE seen[r] \cup ({account'} \ {None})
    BY DEF Watch
  <1>2. req[r].pc \notin {"idle", "search", "list"} => req[r].ticket # NoTicket
    BY TicketIsNone DEF Typed, HeldInv
  <1>3. CASE req[r].pc \in Linked \cup {"link"}
    <2>1. HasCopy(r) /\ req[r].holder # None
      BY <1>3, FlowAssumption DEF LinkOk, HasCopy
    <2>2. HasCopy(r)'
      BY <1>0, <1>1, <1>2, <1>3, <2>1 DEF HasCopy, FileOf, Linked, Handing
    <2> QED BY <1>3, <2>1, <2>2 DEF LinkOk
  <1>4. CASE req[r].pc \notin Linked \cup {"link"}
    BY <1>1, <1>2, <1>4 DEF LinkOk
  <1> QED BY <1>3, <1>4

LEMMA LinkPreserved == Typed /\ LinkInv /\ [Next]_vars => LinkInv'
  <1> SUFFICES ASSUME Typed, \A r \in Requests : LinkOk(r), [Next]_vars,
                      NEW q \in Requests
               PROVE  LinkOk(q)'
    BY DEF LinkInv
  <1>0. req \in [Requests -> Records] /\ copies \in [Users -> SUBSET Files] /\ Typed'
    BY TypePreserved DEF Typed, TypeOK, Records
  <1>1. CASE UNCHANGED vars
    BY <1>1 DEF vars, client, LinkOk, HasCopy, FileOf
  <1>2. ASSUME NEW r \in Requests, Start(r) PROVE LinkOk(q)'
    <2>1. PICK new \in Records : req' = [req EXCEPT ![r] = new] /\ Begun(r, new)
      BY <1>2, BeginCases
    <2>2. Watch
      BY <1>2 DEF Start
    <2>3. CASE q # r
      BY <1>0, <2>1, <2>2, <2>3, BystanderKeepsLink
    <2>4. CASE q = r
      <3>1. req'[q] = new /\ new.holder = None /\ new.pc \in {"search", "prepare"}
        BY <1>0, <2>1, <2>4 DEF Begun
      <3>2. new.pc = "prepare" => new.ticket # NoTicket
        BY <2>1, TicketIsNone DEF Begun, Typed, TypeOK
      <3>3. new.pc = "prepare" => seen'[q] = seen[q] \cup ({account'} \ {None})
        BY <2>2, <3>1, <3>2 DEF Watch
      <3> QED BY <3>1, <3>3 DEF LinkOk, Linked, Handing
    <2> QED BY <2>3, <2>4
  <1>3. ASSUME NEW r \in Requests, Step(r) PROVE LinkOk(q)'
    <2>1. PICK new \in Records : req' = [req EXCEPT ![r] = new] /\ Stepped(r, new)
      BY <1>3, StepCases
    <2>2. Watch /\ account' = account
      BY <1>3, AccountKept DEF Step
    <2>3. CASE q # r
      BY <1>0, <2>1, <2>2, <2>3, BystanderKeepsLink
    <2>4. CASE q = r
      <3> USE <2>4
      <3>0. req'[q] = new /\ LinkOk(q)
        BY <1>0, <2>1
      <3>1. CASE new.pc \in {"idle", "search", "list"}
        <4>1. new.holder = None
          BY <2>1, <3>0, <3>1
             DEF Stepped, Keeps, Idle, AuthoriseSearch, Goto, Set, At, LinkOk, Linked, Handing
        <4> QED BY <3>0, <3>1, <4>1 DEF LinkOk, Linked, Handing
      <3>2. CASE new.pc \notin {"idle", "search", "list"}
        <4>1. /\ new.ticket = req[q].ticket /\ new.ticket # NoTicket /\ new.via = req[q].via
              /\ req[q].pc \notin {"idle", "search", "list"}
          BY <2>1, <3>2, TicketIsNone
             DEF Stepped, Keeps, Idle, Typed, HeldInv, Authorise, Grant, Hit, AskDigest, Link,
                 LinkOfCloudDrive, ReadTorrent, Accepted, Uncounted, At
        <4>2. seen'[q] = IF new.holder # None THEN seen[q] \cap {new.holder}
                         ELSE seen[q] \cup ({account'} \ {None})
          BY <2>2, <3>0, <4>1 DEF Watch
        <4>3. CASE Hit(q)
          <5>1. /\ new.holder = account /\ account \in Users /\ new.pc = "link"
                /\ FileOf(q) \in copies'[account] /\ req[q].holder = None
            <6>1. /\ req[q].pc \in {"upload", "upload2"} /\ account \in Users
                  /\ copies' = [copies EXCEPT ![account] = @ \cup {FileOf(q)}]
                  /\ req' = [req EXCEPT ![q] = [req[q] EXCEPT !.pc = "link", !.holder = account]]
              BY <4>3 DEF Hit, At, Set, Typed, TypeOK
            <6>2. req'[q].pc = "link" /\ req'[q].holder = account
              BY <1>0, <6>1 DEF Records
            <6> QED BY <1>0, <3>0, <6>1, <6>2 DEF LinkOk, Linked, Handing
          <5>2. account \in seen'[q]
            BY <3>0, <4>1, <4>2, <5>1, FlowAssumption DEF LinkOk
          <5> QED BY <3>0, <4>1, <5>1, <5>2, FlowAssumption
                  DEF LinkOk, HasCopy, FileOf, Linked, Handing
        <4>4. CASE ~Hit(q)
          <5>1. /\ new.holder = req[q].holder
                /\ new.pc \in Linked => req[q].pc \in Linked \cup {"link"}
                /\ new.pc \notin Linked => req[q].pc \notin Linked \cup {"link"} /\ new.pc # "link"
                /\ new.pc \in Handing => new.via = "qbittorrent"
                /\ new.pc \in Linked => new.link = LinkOf(new)
            <6>1. CASE Link(q) \/ LinkOfCloudDrive(q)
              BY <2>1, <6>1, <4>1, <3>2
                 DEF Stepped, Keeps, Link, LinkOfCloudDrive, LinkOf, Linked, Handing, At, Idle,
                     Authorise, Grant, Hit, AskDigest, ReadTorrent, Accepted, Uncounted, Records,
                     Downloaders
            <6>2. CASE ~Link(q) /\ ~LinkOfCloudDrive(q)
              BY <2>1, <6>2, <4>1, <4>4, <3>0, <3>2
                 DEF Stepped, Keeps, LinkOf, Linked, Handing, At, Idle, Authorise, Grant,
                     AskDigest, ReadTorrent, Accepted, Uncounted, LinkOk, AuthoriseSearch
            <6> QED BY <6>1, <6>2
          <5>2. \A u \in Users : copies[u] \subseteq copies'[u]
            BY CopiesGrow
          <5>3. new.pc \in Linked => HasCopy(q)' /\ new.holder # None
            BY <3>0, <4>1, <4>2, <5>1, <5>2, FlowAssumption DEF LinkOk, HasCopy, FileOf
          <5>4. new.pc \notin Linked => new.holder = None /\ account' \in seen'[q] \cup {None}
            BY <2>2, <3>0, <4>1, <4>2, <5>1 DEF LinkOk
          <5>5. LinkOf(req[q])' = LinkOf(new)
            BY <3>0 DEF LinkOf
          <5> QED BY <3>0, <5>1, <5>3, <5>4, <5>5 DEF LinkOk, Linked, Handing
        <4> QED BY <4>3, <4>4
      <3> QED BY <3>1, <3>2
    <2> QED BY <2>3, <2>4
  <1>4. CASE Environment
    <2>1. CASE Exit
      BY <2>1 DEF Exit, Idle, LinkOk, Linked, Handing
    <2>2. CASE ~Exit
      <3>1. req' = req /\ Watch
        BY <1>4, <2>2 DEF Environment, Tick, Authorisation, Activate, Bind, StopAccepting,
             CloseTransfer, Restart
      <3> QED BY <3>1, <1>0, BystanderKeepsLink
    <2> QED BY <2>1, <2>2
  <1> QED BY <1>1, <1>2, <1>3, <1>4 DEF Next

\* A download is linked to a copy that a rapid upload of its file put into an
\* account bound while its request ran; CloudDrive2 is only asked when there is
\* such a copy.
THEOREM DownloadsOwnCopies == Spec => []OnlyOwnCopies
  <1>1. LinkInv => OnlyOwnCopies
    BY DEF LinkInv, LinkOk, OnlyOwnCopies, HasCopy, LinkOf, Linked, Handing
  <1> QED BY <1>1, TypeInitially, TypePreserved, LinkInitially, LinkPreserved, PTL DEF Spec

LEMMA RecordedPreserved ==
    Typed /\ LinkInv /\ TorrentsRecorded /\ [Next]_vars => TorrentsRecorded'
  <1> SUFFICES ASSUME Typed, LinkInv, TorrentsRecorded, [Next]_vars PROVE TorrentsRecorded'
    OBVIOUS
  <1>0. req \in [Requests -> Records]
    BY DEF Typed, TypeOK, Records
  <1> USE DEF TorrentsRecorded, FileOf, At
  <1>1. CASE UNCHANGED vars
    BY <1>1 DEF vars
  <1>2. ASSUME NEW r \in Requests, Start(r) PROVE TorrentsRecorded'
    <2>1. PICK new \in Records : req' = [req EXCEPT ![r] = new] /\ Begun(r, new)
      BY <1>2, BeginCases
    <2>2. UNCHANGED <<torrents, tasks, unknown>> /\ req[r] = Idle
      BY <2>1 DEF Begun, StartSearch, StartDownload, Arrives
    <2>3. req[r].pc # "record"
      BY <2>2 DEF Idle
    <2> QED BY <1>0, <2>1, <2>2, <2>3
  <1>3. ASSUME NEW r \in Requests, Step(r) PROVE TorrentsRecorded'
    <2>1. PICK new \in Records : req' = [req EXCEPT ![r] = new] /\ Stepped(r, new)
      BY <1>3, StepCases
    <2>2. CASE Record(r)
      <3>1. Task(r).file = req[r].ticket.file /\ Task(r).via = "qbittorrent"
        BY <2>2 DEF Task, Record, LinkInv, LinkOk, Handing
      <3>2. UNCHANGED <<torrents, unknown>> /\ tasks' = tasks \cup {Task(r)}
        BY <2>2 DEF Record
      <3> QED BY <1>0, <2>1, <3>1, <3>2
    <2>3. CASE Accepted(r)
      <3>1. /\ UNCHANGED <<tasks, unknown>>
            /\ torrents' = torrents \cup {req[r].ticket.file} /\ req[r].pc = "add"
        BY <2>3 DEF Accepted
      <3>2. req'[r].pc = "record" /\ req'[r].ticket = req[r].ticket
        BY <1>0, <2>3 DEF Accepted, Goto, Set, Records
      <3> QED BY <1>0, <2>1, <3>1, <3>2
    <2>4. CASE AnswerLost(r)
      BY <1>0, <2>1, <2>4 DEF AnswerLost
    <2>5. CASE ~Record(r) /\ ~Accepted(r) /\ ~AnswerLost(r)
      <3>1. /\ torrents' = torrents /\ tasks \subseteq tasks' /\ unknown \subseteq unknown'
            /\ req[r].pc # "record"
        BY <2>1, <2>5 DEF Stepped, AuthoriseSearch, Issue, GiveUp, StartRemote, Authorise, Grant,
             Hit, AskDigest, Link, LinkOfCloudDrive, ReadTorrent, Uncounted
      <3> QED BY <1>0, <2>1, <3>1
    <2> QED BY <2>2, <2>3, <2>4, <2>5
  <1>4. CASE Environment
    <2>1. CASE Exit
      BY <2>1 DEF Exit
    <2>2. CASE ~Exit
      <3>1. UNCHANGED <<req, torrents, unknown, tasks>>
        BY <1>4, <2>2 DEF Environment, Tick, Authorisation, Activate, Bind, StopAccepting,
             CloseTransfer, Restart
      <3> QED BY <3>1
    <2> QED BY <2>1, <2>2
  <1> QED BY <1>1, <1>2, <1>3, <1>4 DEF Next

\* A torrent that qBittorrent has accepted is recorded, or about to be, or the
\* customer knows that its fate is not known.
THEOREM AcceptedRecorded == Spec => []TorrentsRecorded
  BY TypeInitially, TypePreserved, LinkInitially, LinkPreserved, RecordedPreserved, PTL DEF Spec

-----------------------------------------------------------------------------
(* What EveryRequestEnds rests on. *)

\* The steps that a request at pc has before it at most.
Ahead == [pc \in Pcs |->
    CASE pc = "idle"                       -> 0
      [] pc \in {"list", "record", "start"} -> 1
      [] pc \in {"search", "add"}          -> 2
      [] pc = "read"                       -> 3
      [] pc = "link"                       -> 4
      [] pc = "upload2"                    -> 5
      [] pc = "rehash"                     -> 6
      [] pc = "sign"                       -> 7
      [] pc = "upload"                     -> 8
      [] pc = "hash"                       -> 9
      [] pc = "prepare"                    -> 10]

\* A request in progress only moves towards its end, whatever 115, the manager
\* and qBittorrent answer: it never hands over or asks for a digest once more
\* than the flow provides for.
RequestsMoveOn ==
    [][\A r \in Requests : req'[r] # req[r] =>
          \/ req[r] = Idle
          \/ req'[r] = Idle
          \/ Ahead[req'[r].pc] < Ahead[req[r].pc]]_vars

LEMMA StepMovesOn ==
    ASSUME Typed, NEW r \in Requests, Step(r)
    PROVE  Ahead[req'[r].pc] < Ahead[req[r].pc]
  <1>0. req \in [Requests -> Records]
    BY DEF Typed, TypeOK, Records
  <1>1. PICK new \in Records : req' = [req EXCEPT ![r] = new] /\ Stepped(r, new)
    BY StepCases
  <1>2. req'[r] = new /\ new.pc \in Pcs /\ req[r].pc \in Pcs
    BY <1>0, <1>1 DEF Records
  <1>3. CASE AuthoriseSearch(r) /\ new.pc = "list"
    BY <1>2, <1>3 DEF AuthoriseSearch, At, Ahead, Pcs
  <1>4. CASE /\ (\E f \in Files : Issue(r, f)) \/ GiveUp(r) \/ StartRemote(r) \/ AnswerLost(r)
                \/ Record(r)
             /\ new = Idle
    <2>1. new.pc = "idle" /\ req[r].pc # "idle"
      BY <1>4 DEF Issue, GiveUp, StartRemote, AnswerLost, Record, At, Idle
    <2> QED BY <1>2, <2>1 DEF Ahead, Pcs
  <1>5. CASE Authorise(r)
    <2>1. \/ req[r].pc = "prepare" /\ new.pc = "hash"
          \/ req[r].pc = "sign" /\ new.pc = "rehash"
      BY <1>0, <1>2, <1>5 DEF Authorise, Goto, Set, At, Records
    <2> QED BY <1>2, <2>1 DEF Ahead, Pcs
  <1>6. CASE Grant(r)
    <2>1. \/ req[r].pc = "hash" /\ new.pc = "upload"
          \/ req[r].pc = "rehash" /\ new.pc = "upload2"
      BY <1>0, <1>2, <1>6 DEF Grant, Goto, Set, At, Records
    <2> QED BY <1>2, <2>1 DEF Ahead, Pcs
  <1>7. CASE Hit(r) /\ new.pc = "link"
    BY <1>2, <1>7 DEF Hit, At, Ahead, Pcs
  <1>8. CASE AskDigest(r) /\ new.pc = "sign"
    BY <1>2, <1>8 DEF AskDigest, At, Ahead, Pcs
  <1>9. CASE (Link(r) \/ LinkOfCloudDrive(r)) /\ new.pc \in {"start", "read"}
    BY <1>2, <1>9 DEF Link, LinkOfCloudDrive, At, Ahead, Pcs
  <1>10. CASE ReadTorrent(r) /\ new.pc = "add"
    BY <1>2, <1>10 DEF ReadTorrent, At, Ahead, Pcs
  <1>11. CASE (Accepted(r) \/ Uncounted(r)) /\ new.pc = "record"
    BY <1>2, <1>11 DEF Accepted, Uncounted, At, Ahead, Pcs
  <1> QED
    BY <1>1, <1>3, <1>4, <1>5, <1>6, <1>7, <1>8, <1>9, <1>10, <1>11 DEF Stepped

\* Every step of a request brings it nearer to its end: fairness of its steps is
\* all that EveryRequestEnds adds.
THEOREM NoRequestCircles == Spec => RequestsMoveOn
  <1>1. Typed /\ [Next]_vars =>
          [\A r \in Requests : req'[r] # req[r] =>
              \/ req[r] = Idle
              \/ req'[r] = Idle
              \/ Ahead[req'[r].pc] < Ahead[req[r].pc]]_vars
    <2> SUFFICES ASSUME Typed, Next, NEW r \in Requests, req'[r] # req[r],
                        req[r] # Idle, req'[r] # Idle
                 PROVE  Ahead[req'[r].pc] < Ahead[req[r].pc]
      OBVIOUS
    <2>0. req \in [Requests -> Records]
      BY DEF Typed, TypeOK, Records
    <2>1. ASSUME NEW q \in Requests, Start(q) PROVE FALSE
      <3>1. PICK new \in Records : req' = [req EXCEPT ![q] = new]
        BY <2>1, BeginCases
      <3>2. q = r
        BY <2>0, <3>1
      <3> QED BY <2>1, <3>2 DEF Start, StartSearch, StartDownload, Arrives
    <2>2. ASSUME NEW q \in Requests, Step(q) PROVE Ahead[req'[r].pc] < Ahead[req[r].pc]
      <3>1. PICK new \in Records : req' = [req EXCEPT ![q] = new]
        BY <2>2, StepCases
      <3>2. q = r
        BY <2>0, <3>1
      <3> QED BY <2>2, <3>2, StepMovesOn
    <2>3. CASE Environment
      <3>1. Exit
        BY <2>3 DEF Environment, Tick, Authorisation, Activate, Bind, StopAccepting,
                    CloseTransfer, Restart
      <3> QED BY <3>1 DEF Exit
    <2> QED BY <2>1, <2>2, <2>3 DEF Next
  <1> QED BY <1>1, TypeInitially, TypePreserved, PTL DEF Spec, RequestsMoveOn
=============================================================================
