---------------------------- MODULE DownloadFlow ----------------------------
(***************************************************************************)
(* A download from the search to the downloader: the handlers of a client  *)
(* (apps/client/download_handlers.go), the manager's catalogue that they   *)
(* call with a ticket (apps/manager/catalog_handlers.go), the two 115      *)
(* accounts, qBittorrent, and the order in which a client shuts down.      *)
(*                                                                         *)
(* What the other modules are about is reduced to what a request sees of   *)
(* it: the devices that AuthorizeDevice accepts (Licensing), the device    *)
(* the client is activated as (LicenseClient), the bound account           *)
(* (Account115), and whether the transfer service is closed                *)
(* (RemoteTransfer).  All of these can change between two steps of a       *)
(* request.  Names, sizes and digests are those of the file.               *)
(***************************************************************************)
EXTENDS Naturals, FiniteSets

CONSTANTS
    Requests,    \* HTTP requests that may be in progress together
    Devices,     \* devices this client has been activated as
    Users,       \* customers whose 115 account is bound to it
    Files,       \* files of the manager's account
    Torrents,    \* those of them that are torrents
    Lifetime,    \* resourceTicketTTL
    MaxTickets,  \* bound: tickets that a browser keeps
    MaxTasks,    \* bound: tasks since the start of the process
    MaxNow,      \* bound: how far the clock runs
    None

ASSUME FlowAssumption ==
    /\ Torrents \subseteq Files
    /\ {Lifetime, MaxTickets, MaxTasks, MaxNow} \subseteq Nat
    /\ None \notin Requests \cup Devices \cup Users \cup Files
    /\ "clouddrive2" \notin Users

Tickets == [device : Devices, file : Files, expires : 0 .. MaxNow + Lifetime]
NoTicket == [device |-> None, file |-> None, expires |-> 0]

Downloaders == {"system", "clouddrive2", "qbittorrent"}

\* Whose copy of a file a link is to.
Sources == Users \cup {"clouddrive2"}

VARIABLES
    now,       \* the manager's clock
    allowed,   \* devices whose license, credential and lease are in force
    tickets,   \* resource ids that search results have handed out
    device,    \* the device of the client's credential
    account,   \* the user of the bound 115 account, or None
    copies,    \* the files that each user's account holds by a rapid upload
    torrents,  \* files whose torrent qBittorrent has accepted since the start
    tasks,     \* tasks of the transfer service
    server,    \* the HTTP server: "open", or "draining" once its listeners are
               \* closed; or the process is "down"
    closed,    \* the transfer service is shut down
    req,       \* the requests
    overtaken, \* history: requests that were at the manager, authorised, when
               \* their device or ticket ceased to be in force
    unknown,   \* history: files whose torrent was handed over since the start
               \* by a request that did not get the answer
    seen       \* history: the users whose account has been bound since each
               \* download in progress began

manager == <<now, allowed, tickets>>
client  == <<device, account, copies>>
process == <<server, closed>>
vars    == <<manager, client, process, torrents, tasks, req, overtaken, unknown, seen>>

Pcs == {"idle", "search", "list", "prepare", "hash", "upload", "sign", "rehash",
        "upload2", "link", "read", "start", "add", "record"}

Idle == [pc |-> "idle", ticket |-> NoTicket, via |-> "system",
         device |-> None, holder |-> None, link |-> None]

Init ==
    /\ now = 0 /\ allowed = Devices /\ tickets = {}
    /\ device \in Devices /\ account = None /\ copies = [u \in Users |-> {}]
    /\ torrents = {} /\ tasks = {}
    /\ server = "open" /\ closed = FALSE
    /\ req = [r \in Requests |-> Idle]
    /\ overtaken = {} /\ unknown = {} /\ seen = [r \in Requests |-> {}]

At(r, pc)     == req[r].pc = pc
Set(r, new)   == req' = [req EXCEPT ![r] = new]
Goto(r, pc)   == Set(r, [req[r] EXCEPT !.pc = pc])
FileOf(r)     == req[r].ticket.file

\* A new request: connections that were open when the listeners were closed can
\* carry one until they are found idle and closed in turn, just before the end.
Arrives(r) == req[r] = Idle /\ server # "down"

\* Each call of catalogclient reads the credential of the client for itself.
Connected(new) == [new EXCEPT !.device = device]

\* AuthorizeDevice accepts the device of the call.
Authorised(r) == req[r].device \in allowed

\* What the manager's key opens it has sealed itself.
Sealed(t) == t \in tickets

\* openTicket accepts its ticket.
TicketOpens(r) ==
    /\ Sealed(req[r].ticket)
    /\ req[r].ticket.expires > now
    /\ req[r].ticket.device = req[r].device

InForce(r) == Authorised(r) /\ TicketOpens(r)

\* isTorrentSource, by the name; a link of 115 is not a magnet.
IsTorrent(f) == f \in Torrents

-----------------------------------------------------------------------------
(* Search: searchHandler, catalogclient.Search and the manager's search.   *)

StartSearch(r) ==
    /\ Arrives(r)
    /\ Set(r, Connected([Idle EXCEPT !.pc = "search"]))
    /\ UNCHANGED <<manager, client, process, torrents, tasks, overtaken, unknown>>

AuthoriseSearch(r) ==
    /\ At(r, "search") /\ Authorised(r)
    /\ Goto(r, "list")
    /\ UNCHANGED <<manager, client, process, torrents, tasks, overtaken, unknown>>

Ticket(r, f) == [device |-> req[r].device, file |-> f, expires |-> now + Lifetime]

\* The files have been found; a ticket for one of them is sealed.
Issue(r, f) ==
    /\ At(r, "list")
    /\ Cardinality(tickets) < MaxTickets
    /\ tickets' = tickets \cup {Ticket(r, f)}
    /\ Set(r, Idle)
    /\ UNCHANGED <<now, allowed, client, process, torrents, tasks, overtaken, unknown>>

-----------------------------------------------------------------------------
(* The download: startDownload and transferToCustomer115.                  *)

\* Any error ends the request: a refusal, a timeout, a miss, a lost answer.
GiveUp(r) ==
    /\ req[r].pc \notin {"idle", "record"}
    /\ unknown' = IF At(r, "add") THEN unknown \cup {FileOf(r)} ELSE unknown
    /\ Set(r, Idle)
    /\ overtaken' = overtaken \ {r}
    /\ UNCHANGED <<manager, client, process, torrents, tasks>>

\* The account is bound and the downloader configured; Prepare reads the
\* credential and sends the ticket.
StartDownload(r, t, via) ==
    /\ Arrives(r)
    /\ account # None
    /\ Cardinality(tasks) < MaxTasks
    /\ Set(r, Connected([Idle EXCEPT !.pc = "prepare", !.ticket = t, !.via = via]))
    /\ UNCHANGED <<manager, client, process, torrents, tasks, overtaken, unknown>>

\* A ticket that was once accepted is not looked at again ...
AuthoriseOnce(r) ==
    /\ \/ At(r, "prepare") /\ InForce(r) /\ Goto(r, "hash")
       \/ At(r, "sign") /\ Goto(r, "rehash")
    /\ overtaken' = overtaken \ {r}
    /\ UNCHANGED <<manager, client, process, torrents, tasks, unknown>>

\* prepare and sign authorise the device and open the ticket, each for itself.
\* The body is read between the two checks; they are one step here, and what
\* changes after the first is like what changes after both.
Authorise(r) ==
    /\ InForce(r)
    /\ \/ At(r, "prepare") /\ Goto(r, "hash")
       \/ At(r, "sign") /\ Goto(r, "rehash")
    /\ overtaken' = overtaken \ {r}
    /\ UNCHANGED <<manager, client, process, torrents, tasks, unknown>>

\* ownerRangeSHA1 reads the range from the manager's own account; the digest
\* is what a rapid upload needs.
Grant(r) ==
    /\ \/ At(r, "hash") /\ Goto(r, "upload")
       \/ At(r, "rehash") /\ Goto(r, "upload2")
    /\ UNCHANGED <<manager, client, process, torrents, tasks, overtaken, unknown>>

\* UploadInit when an account that got the file before is remembered by the file
\* alone, and its pick code used again
HitRemembered(r) ==
    /\ At(r, "upload") \/ At(r, "upload2")
    /\ account # None
    /\ \E u \in {account} \cup {v \in Users : FileOf(r) \in copies[v]} :
          /\ copies' = [copies EXCEPT ![u] = @ \cup {FileOf(r)}]
          /\ Set(r, [req[r] EXCEPT !.pc = "link", !.holder = u])
    /\ UNCHANGED <<manager, device, account, process, torrents, tasks, overtaken, unknown>>

\* UploadInit, status 2: the file is in the account whose token was used.
Hit(r) ==
    /\ At(r, "upload") \/ At(r, "upload2")
    /\ account # None
    /\ copies' = [copies EXCEPT ![account] = @ \cup {FileOf(r)}]
    /\ Set(r, [req[r] EXCEPT !.pc = "link", !.holder = account])
    /\ UNCHANGED <<manager, device, account, process, torrents, tasks, overtaken, unknown>>

\* ... when a digest is computed as often as it is asked for
AskAgain(r) ==
    /\ At(r, "upload") \/ At(r, "upload2")
    /\ account # None
    /\ Set(r, Connected([req[r] EXCEPT !.pc = "sign"]))
    /\ UNCHANGED <<manager, client, process, torrents, tasks, overtaken, unknown>>

\* Status 6, 7 or 8: another digest is asked for, once.
AskDigest(r) ==
    /\ At(r, "upload")
    /\ account # None
    /\ Set(r, Connected([req[r] EXCEPT !.pc = "sign"]))
    /\ UNCHANGED <<manager, client, process, torrents, tasks, overtaken, unknown>>

\* What DownloadURL answers is a link to the copy behind the pick code.
LinkFor(r) == req[r].holder

\* The pick code is sent with the token of whatever account is bound by now.
\* For a copy in another account 115 may refuse (GiveUp) or answer: the code
\* does not look.
Link(r) ==
    /\ At(r, "link") /\ req[r].via # "clouddrive2"
    /\ account # None
    /\ req[r].via = "qbittorrent" => IsTorrent(FileOf(r))
    /\ Set(r, [req[r] EXCEPT !.link = LinkFor(r),
                             !.pc = IF req[r].via = "system" THEN "start" ELSE "read"])
    /\ UNCHANGED <<manager, client, process, torrents, tasks, overtaken, unknown>>

\* submitCloudDrive: CloudDrive2 gives the link of the file of that name (the
\* session it may renew on the way is in ClientSetup).
LinkOfCloudDrive(r) ==
    /\ At(r, "link") /\ req[r].via = "clouddrive2"
    /\ Set(r, [req[r] EXCEPT !.link = "clouddrive2", !.pc = "start"])
    /\ UNCHANGED <<manager, client, process, torrents, tasks, overtaken, unknown>>

Task(r) == [file |-> FileOf(r), via |-> req[r].via]

\* StartRemoteDownload, which a closed service refuses.
StartRemote(r) ==
    /\ At(r, "start")
    /\ ~closed
    /\ tasks' = tasks \cup {Task(r)}
    /\ Set(r, Idle)
    /\ UNCHANGED <<manager, client, process, torrents, overtaken, unknown>>

\* submitQBittorrent: qBittorrent is tested and the torrent read, ...
ReadTorrent(r) ==
    /\ At(r, "read")
    /\ Goto(r, "add")
    /\ UNCHANGED <<manager, client, process, torrents, tasks, overtaken, unknown>>

\* ... then AddTorrent hands it over.  qBittorrent accepts it ...
Accepted(r) ==
    /\ At(r, "add")
    /\ torrents' = torrents \cup {FileOf(r)}
    /\ Goto(r, "record")
    /\ UNCHANGED <<manager, client, process, tasks, overtaken, unknown>>

\* ... or accepts it and the answer is lost ...
AnswerLost(r) ==
    /\ At(r, "add")
    /\ torrents' = torrents \cup {FileOf(r)}
    /\ unknown' = unknown \cup {FileOf(r)}
    /\ Set(r, Idle)
    /\ UNCHANGED <<manager, client, process, tasks, overtaken>>

\* ... or refuses it with the structured answer of Web API 2.14, which Add looks
\* into and AddTorrent does not.
Uncounted(r) ==
    /\ At(r, "add")
    /\ Goto(r, "record")
    /\ UNCHANGED <<manager, client, process, torrents, tasks, overtaken, unknown>>

\* ... when a closed service takes no records either
RecordOpen(r) ==
    /\ At(r, "record")
    /\ tasks' = IF closed THEN tasks ELSE tasks \cup {Task(r)}
    /\ Set(r, Idle)
    /\ UNCHANGED <<manager, client, process, torrents, overtaken, unknown>>

\* RecordSubmitted never refuses.
Record(r) ==
    /\ At(r, "record")
    /\ tasks' = tasks \cup {Task(r)}
    /\ Set(r, Idle)
    /\ UNCHANGED <<manager, client, process, torrents, overtaken, unknown>>

-----------------------------------------------------------------------------
(* What happens meanwhile.                                                 *)

AtManager == {r \in Requests : At(r, "hash") \/ At(r, "rehash")}

\* Requests at the manager that have lost what they were authorised by.
Overtake == overtaken' = overtaken \cup {r \in AtManager : ~InForce(r)'}

Tick ==
    /\ now < MaxNow
    /\ now' = now + 1
    /\ UNCHANGED <<allowed, tickets, client, process, torrents, tasks, req, unknown>>
    /\ Overtake

\* A license is revoked or prolonged, a lease runs out or is renewed.
Authorisation(d) ==
    /\ allowed' \in {allowed \ {d}, allowed \cup {d}}
    /\ allowed' # allowed
    /\ UNCHANGED <<now, tickets, client, process, torrents, tasks, req, unknown>>
    /\ Overtake

\* The client is activated, as another device too.
Activate(d) ==
    /\ device # d
    /\ device' = d
    /\ UNCHANGED <<manager, account, copies, process, torrents, tasks, req, overtaken, unknown>>

\* The customer's account is bound, replaced or unbound.
Bind(u) ==
    /\ account # u
    /\ account' = u
    /\ UNCHANGED <<manager, device, copies, process, torrents, tasks, req, overtaken, unknown>>

-----------------------------------------------------------------------------
(* shutdownClient.                                                         *)

\* The listeners are closed and the registered callback runs.
StopAccepting ==
    /\ server = "open"
    /\ server' = "draining"
    /\ UNCHANGED <<manager, client, closed, torrents, tasks, req, overtaken, unknown>>

\* The callback (or the deadline) lets transferService.Shutdown begin.
CloseTransfer ==
    /\ server = "draining" /\ ~closed
    /\ closed' = TRUE
    /\ UNCHANGED <<manager, client, server, torrents, tasks, req, overtaken, unknown>>

\* Requests and transfers have ended or the deadline has passed, which it may at
\* any time, with requests at any step; the process exits.
Exit ==
    /\ closed /\ server = "draining"
    /\ server' = "down"
    /\ req' = [r \in Requests |-> Idle] /\ overtaken' = {}
    /\ tasks' = {} /\ torrents' = {} /\ unknown' = {}
    /\ UNCHANGED <<manager, client, closed>>

Restart ==
    /\ server = "down"
    /\ server' = "open" /\ closed' = FALSE
    /\ UNCHANGED <<manager, client, torrents, tasks, req, overtaken, unknown>>

-----------------------------------------------------------------------------

\* The account that is bound counts for every download that has no copy yet;
\* after that only whether the account of its copy was among them.
Watch ==
    seen' = [r \in Requests |->
                IF req'[r].ticket = NoTicket THEN {}
                ELSE IF req'[r].holder # None THEN seen[r] \cap {req'[r].holder}
                ELSE seen[r] \cup ({account'} \ {None})]

Step(r) ==
    /\ \/ AuthoriseSearch(r) \/ \E f \in Files : Issue(r, f)
       \/ GiveUp(r) \/ Authorise(r) \/ Grant(r) \/ Hit(r) \/ AskDigest(r)
       \/ Link(r) \/ LinkOfCloudDrive(r) \/ StartRemote(r) \/ ReadTorrent(r)
       \/ Accepted(r) \/ AnswerLost(r) \/ Uncounted(r) \/ Record(r)
    /\ Watch

Start(r) ==
    /\ \/ StartSearch(r)
       \/ \E t \in tickets, via \in Downloaders : StartDownload(r, t, via)
    /\ Watch

Environment ==
    /\ \/ Tick
       \/ \E d \in Devices : Authorisation(d) \/ Activate(d)
       \/ \E u \in Users \cup {None} : Bind(u)
       \/ StopAccepting \/ CloseTransfer \/ Exit \/ Restart
    /\ Watch

Next == (\E r \in Requests : Start(r) \/ Step(r)) \/ Environment

Spec == Init /\ [][Next]_vars

\* Every call has a timeout: it answers or fails.
FairSpec == Spec /\ \A r \in Requests : WF_vars(Step(r))

-----------------------------------------------------------------------------
(* Properties *)

Links == Sources \cup {None}

TypeOK ==
    /\ now \in 0 .. MaxNow /\ allowed \subseteq Devices /\ tickets \subseteq Tickets
    /\ device \in Devices /\ account \in Users \cup {None}
    /\ copies \in [Users -> SUBSET Files]
    /\ torrents \subseteq Files
    /\ tasks \subseteq [file : Files, via : Downloaders]
    /\ server \in {"open", "draining", "down"}
    /\ closed \in BOOLEAN
    /\ req \in [Requests -> [pc : Pcs, ticket : Tickets \cup {NoTicket},
                             via : Downloaders, device : Devices \cup {None},
                             holder : Users \cup {None}, link : Links]]
    /\ overtaken \subseteq Requests /\ unknown \subseteq Files
    /\ seen \in [Requests -> SUBSET Users]

\* After a revocation, the end of a lease or the expiry of a ticket, the manager
\* gives a digest only to a call that it had authorised before: the first digest
\* of a download does not pay for the second (prepare and sign).
GrantsInForce ==
    [][\A r \in Requests : Grant(r) => InForce(r) \/ r \in overtaken]_vars

\* No download gets further than a miss: what is started, read or handed over is
\* linked to a copy that a rapid upload of this file put into an account that was
\* bound at some time since the request began, or is looked up in CloudDrive2
\* when there is such a copy, whichever accounts were bound before, replaced or
\* unbound meanwhile (transferToCustomer115: a miss ends the request).
OnlyOwnCopies ==
    \A r \in Requests : req[r].pc \in {"start", "read", "add", "record"} =>
        /\ req[r].holder \in seen[r] /\ FileOf(r) \in copies[req[r].holder]
        /\ req[r].link = IF req[r].via = "clouddrive2" THEN "clouddrive2" ELSE req[r].holder

\* A link is asked for with the token of the account that has the copy (DownloadURL
\* after transferToCustomer115).
AskedByHolder == [][\A r \in Requests : Link(r) => account = req[r].holder]_vars

\* A torrent that qBittorrent has accepted has become a task of this process
\* (which retention may forget), or is just being recorded, also when the
\* transfer service has been shut down in between; otherwise the customer has
\* been told of an error and may hand it over once more (RecordSubmitted,
\* shutdownClient).
TorrentsRecorded ==
    \A f \in torrents :
        \/ f \in unknown
        \/ \E t \in tasks : t.file = f /\ t.via = "qbittorrent"
        \/ \E r \in Requests : At(r, "record") /\ FileOf(r) = f

\* Every request ends, with whatever answers 115 gives: it asks for a second
\* digest once and for nothing else twice.
EveryRequestEnds ==
    \A r \in Requests : req[r] # Idle ~> req[r] = Idle

\* "RecordSubmitted records a task accepted by an external downloader."
SubmittedWasAccepted ==
    \A t \in tasks : t.via = "qbittorrent" => t.file \in torrents
=============================================================================
