----------------------------- MODULE ClientSetup -----------------------------
(***************************************************************************)
(* The CloudDrive2 and directory settings of a client: the store of        *)
(* internal/setup with its file and its key, the directories of the        *)
(* transfer service, and the requests that change them: connecting to      *)
(* CloudDrive2, applying a selection of directories, and a download that   *)
(* renews the CloudDrive2 session.  Each of them reads the configuration,  *)
(* talks to CloudDrive2 for seconds, and writes a whole configuration.     *)
(*                                                                         *)
(* What a customer types is known by the endpoint it was typed for, and a  *)
(* session token or a mount by the endpoint it came from: a field holds    *)
(* that endpoint, or None.  MountPoint and CloudTargetDir are set and      *)
(* cleared together and are one field.  Rejected requests change nothing.  *)
(***************************************************************************)
CONSTANTS
    Requests,   \* HTTP requests that may be in progress together
    Endpoints,  \* normalised CloudDrive2 addresses
    Dirs,       \* directories a customer may select below the target root
    Default,    \* the endpoint of the environment
    Root,       \* the target root itself, selected by an empty path
    None

ASSUME SetupAssumption ==
    /\ Default \in Endpoints
    /\ Root \in Dirs
    /\ None \notin Endpoints \cup Requests

VARIABLES
    setup,        \* Store.cfg
    disk,         \* client-setup.json and the key its secrets are sealed with
    keyFile,      \* setup.key, known by the request that generated it
    lock,         \* the request that holds Store.mu for writing
    transferDir,  \* Config.TargetDir of the transfer service
    req,          \* the requests
    stale,        \* history: requests whose copy is older than the setup
    crossed,      \* history: applies that have overlapped another apply
    drifted       \* history: the last change of the setup or of the directory
                  \* was by a request whose copy was out of date, or crossed

vars == <<setup, disk, keyFile, lock, transferDir, req, stale, crossed, drifted>>

Configs == [endpoint : Endpoints, mode : {"password", "token"},
            login : Endpoints \cup {None}, token : Endpoints \cup {None},
            mount : Endpoints \cup {None}, dir : Dirs]

\* What NewStore starts from when nothing is saved.
Defaults == [endpoint |-> Default, mode |-> "password", login |-> None,
             token |-> None, mount |-> None, dir |-> Root]

Kinds == {"connect", "apply", "fetch", "browse"}
Pcs   == {"idle", "inspect", "browse", "validate", "dirs", "merge", "chosen",
          "link", "save", "newkey", "write", "commit", "rollback"}
Idle  == [pc |-> "idle", kind |-> "browse", cfg |-> Defaults, key |-> None,
          old |-> Root]

Init ==
    /\ setup = Defaults
    /\ disk = [saved |-> FALSE, cfg |-> Defaults, key |-> None]
    /\ keyFile = None /\ lock = None
    /\ transferDir = Root
    /\ req = [r \in Requests |-> Idle]
    /\ stale = {} /\ crossed = {} /\ drifted = FALSE

HasSecret(c) == c.login # None \/ c.token # None

\* The checks of Store.Update before it takes the lock.
Valid(c) ==
    HasSecret(c) \/ c.mount # None =>
        IF c.mode = "password" THEN c.login # None ELSE c.token # None

\* The file of a start is opened with the key of a start (decrypt).
Opens(file, key) ==
    file.saved /\ HasSecret(file.cfg) => file.key # None /\ file.key = key

\* Store.Get takes the read lock: no writer is inside Update.
LockIgnored == TRUE   \* ... when Update is not one critical section
Unlocked    == lock = None

\* What a configuration is enough for: a call to CloudDrive2 with a token or a
\* session that it holds or a login gives, and the offer to download with it.
HasCredential(c) == c.token # None \/ (c.mode = "password" /\ c.login # None)
Offered(c) ==
    /\ c.mount # None
    /\ IF c.mode = "password" THEN c.login # None ELSE c.token # None

\* Authenticate and GetMountPoints: the session and the mounts are those of the
\* endpoint that is asked.
Session(c) == c.endpoint
Mount(c)   == c.endpoint

-----------------------------------------------------------------------------
(* Steps of a request.                                                     *)

Set(r, new)   == req' = [req EXCEPT ![r] = new]
Goto(r, pc)   == Set(r, [req[r] EXCEPT !.pc = pc])
unsaved       == <<setup, disk, keyFile, lock>>

\* A request starts with a copy of the setup, or ends.
Begin(r, new) ==
    /\ req[r] = Idle
    /\ Unlocked
    /\ Set(r, new)
    /\ UNCHANGED <<unsaved, transferDir, stale, crossed, drifted>>

End(r) == Set(r, Idle) /\ stale' = stale \ {r} /\ crossed' = crossed \ {r}

\* An error of CloudDrive2, of the file system or of the input: the answer is
\* an error and nothing has changed.
GiveUp(r) ==
    /\ req[r].pc \in {"inspect", "browse", "validate", "dirs", "chosen", "link"}
    /\ End(r)
    /\ UNCHANGED <<unsaved, transferDir, drifted>>

\* The candidate of connectHandler when blank credentials are always reused.
CandidateReusing(e, m, typed) ==
    [setup EXCEPT
        !.endpoint = e, !.mode = m,
        !.mount = IF e = setup.endpoint /\ m = setup.mode THEN setup.mount ELSE None,
        !.login = IF m = "token" THEN None ELSE IF typed THEN e ELSE setup.login,
        !.token = IF m = "password" THEN None ELSE IF typed THEN e ELSE setup.token]

\* The candidate of connectHandler: blank credentials are those in use for the
\* same endpoint and mode only, and so is the mount.
Candidate(e, m, typed) ==
    LET same == e = setup.endpoint /\ m = setup.mode
        Known(credential) == IF typed THEN e ELSE IF same THEN credential ELSE None
    IN  [setup EXCEPT
            !.endpoint = e, !.mode = m,
            !.mount = IF same THEN setup.mount ELSE None,
            !.login = IF m = "password" THEN Known(setup.login) ELSE None,
            !.token = IF m = "token" THEN Known(setup.token) ELSE None]

StartConnect(r, e, m, typed) ==
    /\ HasSecret(Candidate(e, m, typed))
    /\ Begin(r, [Idle EXCEPT !.pc = "inspect", !.kind = "connect",
                             !.cfg = Candidate(e, m, typed)])

\* inspectCloudDriveWithCredential succeeds; a password login yields a session.
Inspected(r) ==
    /\ req[r].pc = "inspect"
    /\ Set(r, [req[r] EXCEPT !.pc = "save",
                !.cfg.token = IF req[r].cfg.mode = "password" THEN Session(req[r].cfg) ELSE @])
    /\ UNCHANGED <<unsaved, transferDir, stale, crossed, drifted>>

\* mountsHandler and cloudDirectoriesHandler only read, with their copy.
StartBrowse(r) ==
    /\ HasSecret(setup)
    /\ Begin(r, [Idle EXCEPT !.pc = "browse", !.cfg = setup])

\* Applies that hold a copy of the transfer configuration, or have changed it.
Applying == {r \in Requests : req[r].kind = "apply" /\ req[r].pc # "validate"}
Cross(r) == crossed' = IF Applying = {} THEN crossed ELSE crossed \cup Applying \cup {r}

\* applySetup without a mount, and with one that has to be looked at first.
\* `old' is the copy of the transfer configuration that a failed save restores.
StartApply(r, d) ==
    /\ req[r] = Idle
    /\ Set(r, [Idle EXCEPT !.pc = "dirs", !.kind = "apply", !.old = transferDir,
                           !.cfg = [Defaults EXCEPT !.dir = d]])
    /\ Cross(r)
    /\ UNCHANGED <<unsaved, transferDir, stale, drifted>>

StartApplyMount(r, d) ==
    Begin(r, [Idle EXCEPT !.pc = "validate", !.kind = "apply",
                          !.cfg = [setup EXCEPT !.mount = None, !.dir = d]])

\* validateCloudDownloadTarget finds the mount at the endpoint of its copy.
Validated(r) ==
    LET c == req[r].cfg
    IN  /\ req[r].pc = "validate"
        /\ HasCredential(c)
        /\ Set(r, [req[r] EXCEPT !.pc = "dirs", !.cfg.mount = Mount(c),
                                 !.old = transferDir])
        /\ Cross(r)
        /\ UNCHANGED <<unsaved, transferDir, stale, drifted>>

\* transfer.UpdateConfig with the new directory.
ChangeDirectory(r) ==
    /\ req[r].pc = "dirs"
    /\ transferDir' = req[r].cfg.dir
    /\ Goto(r, "merge")
    /\ UNCHANGED <<unsaved, stale, crossed, drifted>>

\* The setup is saved as it was when the request began ...
MergeEarly(r) ==
    /\ req[r].pc = "merge"
    /\ Unlocked
    /\ Goto(r, "save")
    /\ stale' = stale \ {r}
    /\ UNCHANGED <<unsaved, transferDir, crossed, drifted>>

\* applySetup reads the setup again and changes the selection only.
Merge(r) ==
    /\ req[r].pc = "merge"
    /\ Unlocked
    /\ Set(r, [req[r] EXCEPT !.pc = "save",
                !.cfg = [setup EXCEPT !.mount = req[r].cfg.mount, !.dir = req[r].cfg.dir]])
    /\ stale' = stale \ {r}
    /\ UNCHANGED <<unsaved, transferDir, crossed, drifted>>

\* A download with CloudDrive2 is offered when it is configured; then the file
\* is transferred to the customer's account, which takes its time.
Choose(r) ==
    /\ Offered(setup)
    /\ Begin(r, [Idle EXCEPT !.pc = "chosen", !.kind = "fetch"])

\* submitCloudDrive reads the setup.
ReadSetup(r) ==
    /\ req[r].pc = "chosen"
    /\ Unlocked
    /\ HasCredential(setup)
    /\ Set(r, [req[r] EXCEPT !.pc = "link", !.cfg = setup])
    /\ stale' = stale \ {r}
    /\ UNCHANGED <<unsaved, transferDir, crossed, drifted>>

\* The session has expired: it logs in again and saves its copy with the new
\* one.  (With the link in hand it ends; that changes nothing here.)
Relogin(r) ==
    /\ req[r].pc = "link"
    /\ req[r].cfg.mode = "password"
    /\ Set(r, [req[r] EXCEPT !.pc = "save", !.cfg.token = Session(req[r].cfg)])
    /\ UNCHANGED <<unsaved, transferDir, stale, crossed, drifted>>

-----------------------------------------------------------------------------
(* Store.Update, and what its caller does with an error.                   *)

Unsuccessful(r) ==
    IF req[r].kind = "apply" THEN Goto(r, "rollback") /\ UNCHANGED <<stale, crossed>>
    ELSE End(r)

Reject(r) ==
    /\ req[r].pc = "save"
    /\ ~Valid(req[r].cfg)
    /\ Unsuccessful(r)
    /\ UNCHANGED <<unsaved, transferDir, drifted>>

\* The lock is taken; a secret needs a key, which is read or generated.
Lock(r) ==
    /\ req[r].pc = "save"
    /\ Valid(req[r].cfg)
    /\ Unlocked
    /\ lock' = r
    /\ Set(r, IF ~HasSecret(req[r].cfg) THEN [req[r] EXCEPT !.pc = "write"]
              ELSE IF keyFile # None THEN [req[r] EXCEPT !.pc = "write", !.key = keyFile]
              ELSE [req[r] EXCEPT !.pc = "newkey", !.key = r])
    /\ UNCHANGED <<setup, disk, keyFile, transferDir, stale, crossed, drifted>>

WriteKey(r) ==
    /\ req[r].pc = "newkey"
    /\ keyFile' = req[r].key
    /\ Goto(r, "write")
    /\ UNCHANGED <<setup, disk, lock, transferDir, stale, crossed, drifted>>

\* atomicWrite replaces the file by a rename.
WriteFile(r) ==
    /\ req[r].pc = "write"
    /\ disk' = [saved |-> TRUE, cfg |-> req[r].cfg, key |-> req[r].key]
    /\ Goto(r, "commit")
    /\ UNCHANGED <<setup, keyFile, lock, transferDir, stale, crossed, drifted>>

\* Either write can fail, with its file as it was.
WriteFails(r) ==
    /\ req[r].pc \in {"newkey", "write"}
    /\ lock' = None
    /\ Unsuccessful(r)
    /\ UNCHANGED <<setup, disk, keyFile, transferDir, drifted>>

\* Requests that hold a copy of the setup.
Reading == {r \in Requests : req[r].pc \notin {"idle", "chosen"}}

\* s.cfg = cfg, and the end of the request.
Commit(r) ==
    /\ req[r].pc = "commit"
    /\ setup' = req[r].cfg
    /\ lock' = None
    /\ Set(r, Idle)
    /\ stale' = Reading \ {r}
    /\ crossed' = crossed \ {r}
    /\ drifted' = IF req[r].kind = "apply" THEN r \in crossed ELSE drifted \/ r \in stale
    /\ UNCHANGED <<disk, keyFile, transferDir>>

\* applySetup answers the error without restoring the directory ...
NoRollback(r) ==
    /\ req[r].pc = "rollback"
    /\ End(r)
    /\ UNCHANGED <<unsaved, transferDir, drifted>>

\* It restores the old directory, if that still is one.
Rollback(r) ==
    /\ req[r].pc = "rollback"
    /\ \/ transferDir' = req[r].old /\ drifted' = (drifted \/ r \in crossed)
       \/ UNCHANGED transferDir /\ drifted' = TRUE
    /\ End(r)
    /\ UNCHANGED unsaved

\* The process ends at any point and starts again: main derives the directory
\* of the transfer service from the setup it loads.
Load == IF disk.saved THEN disk.cfg ELSE Defaults

Restart ==
    /\ Opens(disk, keyFile)
    /\ setup' = Load
    /\ transferDir' = Load.dir
    /\ req' = [r \in Requests |-> Idle]
    /\ lock' = None /\ stale' = {} /\ crossed' = {} /\ drifted' = FALSE
    /\ UNCHANGED <<disk, keyFile>>

Start(r) ==
    \/ \E e \in Endpoints, m \in {"password", "token"}, typed \in BOOLEAN :
           StartConnect(r, e, m, typed)
    \/ StartBrowse(r)
    \/ \E d \in Dirs : StartApply(r, d) \/ StartApplyMount(r, d)
    \/ Choose(r)

Step(r) ==
    \/ GiveUp(r) \/ Inspected(r) \/ Validated(r) \/ ChangeDirectory(r) \/ Merge(r)
    \/ ReadSetup(r) \/ Relogin(r)
    \/ Reject(r) \/ Lock(r) \/ WriteKey(r) \/ WriteFile(r) \/ WriteFails(r)
    \/ Commit(r) \/ Rollback(r)

Next == (\E r \in Requests : Start(r) \/ Step(r)) \/ Restart

Spec == Init /\ [][Next]_vars

-----------------------------------------------------------------------------
(* Properties *)

TypeOK ==
    /\ setup \in Configs
    /\ disk \in [saved : BOOLEAN, cfg : Configs, key : Requests \cup {None}]
    /\ keyFile \in Requests \cup {None} /\ lock \in Requests \cup {None}
    /\ transferDir \in Dirs
    /\ req \in [Requests -> [pc : Pcs, kind : Kinds, cfg : Configs,
                             key : Requests \cup {None}, old : Dirs]]
    /\ stale \subseteq Requests /\ crossed \subseteq Requests /\ drifted \in BOOLEAN

\* A login or a token is only ever in a configuration with the endpoint it was
\* entered for or issued by.  All of CloudDrive2's calls take the address and
\* the credential from one configuration, so it never reaches another endpoint,
\* whichever requests overlap (connectHandler's sameEndpoint).
AtHome(c) == {c.login, c.token} \subseteq {c.endpoint, None}

CredentialsStayHome ==
    /\ AtHome(setup) /\ AtHome(disk.cfg)
    /\ \A r \in Requests : AtHome(req[r].cfg)

\* At every instant the saved secrets can be opened with the saved key, so that
\* a restart succeeds: "two first-time updates must not create different keys
\* and leave the config encrypted by the losing key" (Store.Update).
KeyFits == Opens(disk, keyFile)

\* A request that no other one has overtaken changes its own part of the setup
\* only: connecting keeps the directory, and the mount of an endpoint that stays;
\* a selection keeps the connection; a renewed session changes the token.
Own(r) ==
    LET old == setup
        new == setup'
        kept == old.endpoint = new.endpoint /\ old.mode = new.mode
    IN  /\ req[r].kind = "connect" =>
               new.dir = old.dir /\ new.mount = (IF kept THEN old.mount ELSE None)
        /\ req[r].kind = "apply" =>
               kept /\ new.login = old.login /\ new.token = old.token
        /\ req[r].kind = "fetch" => new = [old EXCEPT !.token = new.token]

OwnPartOnly ==
    [][\A r \in Requests : lock = r /\ r \notin stale /\ setup' # setup => Own(r)]_vars

\* ... and so does one that has been overtaken: no change is undone by a request
\* that read the setup before it (connectHandler, submitCloudDrive).
NothingUndone ==
    [][\A r \in Requests : lock = r /\ setup' # setup => Own(r)]_vars

\* With no selection being applied, the transfer service saves where the setup
\* says, after failed saves and restarts too (applySetup's roll-back, main).  The
\* code does not order applies that overlap, nor a request whose copy is older
\* than the setup it replaces, nor can it restore a directory that is gone: any
\* of these may leave the two apart, but not beyond the next successful apply
\* that overlaps no other, or a restart.
DirectoryAsSaved ==
    drifted \/ (\E r \in Applying : req[r].pc # "dirs") \/ transferDir = setup.dir

\* "Mount paths are scoped to the endpoint where they were discovered."
MountOfEndpoint == setup.mount \in {setup.endpoint, None}
=============================================================================
