# BossTransfer in TLA+

This directory specifies the parts of BossTransfer whose correctness depends on
the order in which things happen, checks the specifications with TLC on small
instances and proves their main properties with TLAPS for every value of the
constants. The reference is the Go code under `src/`; every definition that
stands for code is listed in `PROJECT.json` (`map`) with its lines.

## 1. The system

A *manager* (run by the service provider) issues authorisation codes, keeps
licenses and devices, and serves a catalogue. *Clients* (run by customers) hold
a device credential, search the manager's catalogue, and transfer what they are
given with the customer's own 115 account, CloudDrive2 or qBittorrent, or by
downloading it themselves.

| component | state | operations | what is hard |
|---|---|---|---|
| remote downloads, `internal/transfer` | task table of bounded length, cancel functions, reserved destinations, slot channel, wait group, `closed`, the target directory | start, the download goroutine, cancel, record a submitted task, shut down | a goroutine per download against cancel, retention and shutdown; commit by rename; every exit must give everything back |
| authorisation store, `internal/licensing` | licenses, codes, devices; one JSON file | create, update, issue a code, activate, heartbeat, authorise, revoke, release, load | long sequences of legal calls; the file is written before memory and the process can die between |
| client license, `internal/licenseclient` | installation id and key pair, device credential, cached license and lease; one JSON file | activate, heartbeat, status | it decides from a cache; requests, answers and writes can be lost, and a request outlives the caller that gave up |
| manager API, `apps/manager` | resource tickets | one store call per handler; search, tickets | tickets outlive the checks they were issued under |
| 115 account, `internal/account115` | application id, tokens, QR session, folder | start, poll, refresh, unbind, select a folder | network calls between reading and writing the configuration |
| local login, `internal/localauth`, `internal/websession` | credentials, sessions, failure counters | log in, log out, change the credentials | hashing outside the lock; check-then-act in the limiter |
| client setup, `internal/setup`, `apps/client/setup_handlers.go` | CloudDrive2 endpoint and credentials, mount and directories; one sealed JSON file and its key | connect, browse, apply a selection, renew the session, load | read-modify-write around seconds of network; the directory is also in the transfer service |
| qBittorrent settings, `internal/downloaderconfig`, `apps/client/qbittorrent_handlers.go` | address, secret, path; one sealed JSON file and its key | resolve blanks, test, save, delete, load | blanks stand for saved secrets while the settings can be replaced |
| state files, `replaceFile` and `atomicWrite` of `internal/licensing` and `internal/downloaderconfig` | the file, its temporary file and its `.previous` | replace by rename, with a fallback in three renames | each of them can fail or be the last one |
| download flow, `apps/client/download_handlers.go`, `apps/manager/catalog_handlers.go` | none of its own beyond tickets | prepare, rapid upload with sign retries, direct link, choose a downloader, submit, record | half-done work and retries over four services |
| processes, `apps/*/main.go`, `apps/client/shutdown.go` | HTTP server, services | start, stop under one deadline | HTTP and transfer shutdown run concurrently |
| adapters, `internal/adapters/*` | none | protocol calls | what callers get back is modelled where it is used |

Calls go client UI → client handlers → services → adapters or manager API →
authorisation store. The components share no memory beyond what the table says:
the client and the manager talk over HTTP, and each persistent store is one
file. `PROJECT.json` lists every component with its status and every hazard at
the line where it bites, the ones no property covers yet included.

What makes the components correct:

- *remote downloads*: cancellation and publication exclude each other; outcomes
  are final; no download replaces another one's file or publishes a part; slots,
  reservations and goroutines are neither lost nor given back twice; active
  tasks are never forgotten; shutdown ends with nothing running.
- *authorisation store*: limits hold; codes are spent once and are the only way
  to activate; revocation is complete and final; leases end with their license;
  an installation id has one key; every crash leaves a loadable file that
  contradicts no answer.
- *local login*: no session outlives the credentials that granted it; a change
  takes the password and a session of the moment it commits; file and memory
  agree; the first password is not asked for twice; sessions and failures keep
  their limits.
- *115 account*: the user shown is the one whose tokens are used; nothing that
  begins after an unbinding undoes it, unless a new QR code is asked for; no call
  waits for the token refresh for ever.
- *client license*: a client outlives the loss of its credential by less than
  one lease, holds no credential the manager has not written, hears of
  revocation and comes back after a prolongation.
- *client setup*: credentials stay with the endpoint they were entered for; a
  request undoes nobody else's change unless it was overtaken; the saved secrets
  can be opened; downloads go where the setup says, or do so again after the next
  selection that overlaps no other.
- *qBittorrent settings*: a secret is sent to no address but its own; only what
  was tested is saved; a start finds what was saved last, unless the fallback of
  the file was cut short; what is deleted stays deleted.
- *state files*: a save happens at once or not at all, and its answer is true.
- *download flow*: the manager gives digests only to calls it has authorised,
  with an open ticket; nothing is downloaded but copies that a rapid upload made in
  an account bound meanwhile; no accepted torrent is forgotten; every request ends.

## 2. The modules

| module | what it is |
|---|---|
| `RemoteTransfer` | the remote downloads of `internal/transfer/service.go` |
| `DownloadContract` | what it promises: a download is one atomic, final step; `RemoteTransfer` implements it |
| `MCRemoteTransfer` | names, candidate paths and sizes for TLC |
| `RemoteTransfer_proofs` | theorems about `RemoteTransfer` |
| `Licensing` | the authorisation store with its file, crash and restart |
| `SeatContract` | what it promises: licenses are seats, taken with codes; `Licensing` implements it |
| `MCLicensing` | its instance |
| `LicenseClient` | client installations composed with `Licensing` (it extends it: the manager's steps are those of `Licensing`) |
| `MCLicenseClient` | its instance |
| `Licensing_proofs` | theorems about `Licensing` and, over them, about `LicenseClient` |
| `Account115` | the 115 account of a client or manager |
| `MCAccount115`, `Account115_proofs` | its instance and its theorems |
| `LocalAuth` | the account of a process, its sessions and its file, with the handlers that use them |
| `AccountContract` | what they promise: a login and a change happen at one instant; `LocalAuth` implements it |
| `MCLocalAuth`, `LocalAuth_proofs` | its instance and its theorems |
| `LoginLimiter` | the limiter of failed logins in front of it |
| `MCLoginLimiter`, `LoginLimiter_proofs` | its instance and its theorems |
| `ClientSetup` | the setup of a client with its file, its key, and the directory of the transfer service |
| `MCClientSetup`, `ClientSetup_proofs` | its instance and its theorems |
| `StateFile` | how a store replaces its file, operation by operation |
| `AtomicFile` | what a store asks of that; `StateFile` implements it |
| `MCStateFile`, `StateFile_proofs` | its instance; theorems about `StateFile` and, over them, about `QBSettings` |
| `QBSettings` | the qBittorrent settings composed with `StateFile` (it extends it: the file's steps are those of `StateFile`) |
| `MCQBSettings` | its instance |
| `DownloadFlow` | a download from the search to the downloader, over client, manager, 115 and qBittorrent, and the client's shutdown |
| `MCDownloadFlow`, `DownloadFlow_proofs` | its instance and its theorems |

### RemoteTransfer

One step is what a goroutine does between two places where another one can run.
`TakeSlot`, `Register`/`Refuse` and `GiveBack` are `StartRemoteDownload`: the
non-blocking send on the slot channel, the critical section, and the return of
the slot by a call that was refused. `Begin` … `WorkerDone` are the goroutine:
`pc` says where it is, `NextPc` is its straight path, and `Return` is its
deferred clean-up. `Cancel` and `FireCancel` are the two halves of
`CancelRemoteDownload` (the critical section, and the call of `cancel()` after
it). `Close`, `CancelAll` and `Drained` are `Shutdown`. `Elsewhere` is another
program in the target directory. `temp` and `pc` are history where the code has
none: a finished goroutine, a renamed file. `Trim` is the retention of the task
table; `order` is not modelled as a sequence because ids are issued in its order.

Abstracted: bytes are counted in chunks up to `MaxBytes`; speeds, timestamps
and messages are left out; a network or file operation succeeds or fails.

### Licensing

`Store.mu` is held for the whole of a call, so a call is one action, which
computes the next store from the present one (`Created`, `Updated`,
`Activated`, `Renewed`, `Revoked`, `Released`) and hands it to `Commit`. `Commit`
writes `disk` first and `store` second; in the second disjunct the process dies
in between. `Restart` is `load` with `validateDiskState` (`Loadable`). A device
is identified by license, installation id and public key, as
`findLicenseDevice` does, so a record is `devices[<<l, i, k>>]`. Tokens are
numbered in the order they are generated: only their equality matters.

`SeatContract` has neither tokens nor leases, clocks, files or crashes: a license
has a number of seats, a code gives one seat once, an installation stays with its
key, a revoked license has no seat. The refinement mapping (`Status`, `Limit`,
`Code`, `Seated`, `Known`) reads the file, because a call takes effect when the
file is replaced: a crash before that is no step of the contract, and neither is
the assignment to memory or a restart after it. A heartbeat and a prolongation
are none either.

Abstracted: names, notes, downloader policies, labels, code digests and
encryption; `lastSeen` and other timestamps nothing decides on. The rename of
the file is atomic here; that the fallback for file systems that cannot rename
over a file amounts to the same is what `StateFile` and `AtomicFile` are about.

### LicenseClient

`saved` is the client's `Store.state`, in memory and in its file (`atomicWrite`
precedes the change in memory and a failed write undoes it). A call is three
steps with anything in between: a request (`StartActivate`, `StartHeartbeat`),
the manager's handling (`AcceptRequest`, `RefuseHeartbeat`, `AnswerError`), and
the reading of the answer (`Receive`). `Service.mu` admits one call at a time
(`Idle`). `GiveUp` is a timeout, a cancelled context or a crash while waiting:
the request is lost or becomes an orphan, which the manager may serve later
(`ServeOrphan`) for nobody. `LoseAnswer` is a failed write or a crash before it.
`ManagerStep` lets the manager's own steps happen at any moment.

Abstracted: one manager; answers cannot be forged; client and manager read
one clock. Two clocks that differ by *d* move the bound of `StaleForOneLease`
by *d*.

### Account115

`Store.mu` guards single reads and writes, but every change is a read, an altered
copy, and a write of the whole copy. So each is a step that prepares the copy
(`Save`, after the answer of 115 if there is one to wait for) and a step that
writes it (`Write`, which is `Store.save`). `next` in a call's state is where it
goes after the write. `StartAuth`, `Ask` and `BeginSession` are
`Service.StartAuth`; `Poll` with `Expired` or `Confirmed` and `ClearAuth` is
`PollAuth`; `Unbind`, `ClearAccount` and `Unbinds` are `ClearAccount` of the
service, of the store and the answer; `NeedToken`, `GetToken`, `Refreshed` and
`Answered` are `callWithToken` and `accessToken`, where `refreshing` is the mutex
that is held across the call to 115. `unbinding`, `late` and `lingering` are
history: how far an unbinding is, whether the QR session is one that a call
overlapping it began, and which calls overlapped it or poll that session.

Abstracted: a pair of tokens is known by the application and the user it was issued
to, and a refresh gives a pair of the same two. So the model does not tell a
refresh token from the one it was exchanged for, and says nothing of whether a
spent one is used again (section 5). The selected folder is left out, the write of
everything else that selecting one makes is not. Whether a token has
expired and what 115 answers is a free choice. File and memory change
together: a crash in between is one after the write.

### LocalAuth

`Store.mu` is not held while a password hash is derived, so a request is a
sequence of critical sections, with those of other requests in between. A login
is `StartLogin` (the copy it verifies against) and `FinishLogin`. A change is
`StartChange` (`Principal`), `Snapshot` and `Verified` (the two halves of
`VerifyCredentials`), `Validate` and `Commit` (the two of `UpdateCredentials`).
`Commit` writes the file first; in its second disjunct the process dies before
memory follows. `Open` is the start of a process, which creates the file only if
there is none. The field `grant` of a session, the generation that granted it, is
history.

`AccountContract` has an account and sessions, and no hashes, generations, locks
or restarts: a login adds a session of the account of that instant; a change takes
a live session of the present user, and ends all. It is implemented with the
account that the file holds and the sessions without `grant`: `FinishLogin` and
the replacement of the file in `Commit` are the two instants.

Abstracted: a hash stands for its password; requests that are turned down have
no effect and end with `GiveUp`; sessions that expire together are evicted in any
order (the code follows map order). The clock does not go back. The process dies,
not the machine: the directory is not synced after the rename, so what a loss of
power leaves is up to the file system and not modelled.

### LoginLimiter

The handler's two critical sections of `Auth.mu` around the password check:
`Admit` or `TurnAway`, then `RecordFailure` or `Succeed`. Whether a password is
right is a free choice, so `LocalAuth` is not needed here. Ties between oldest
entries are broken in any way.

### ClientSetup

`setup` is `Store.cfg`, `disk` and `keyFile` are its two files, `lock` is
`Store.mu` held by `Update`. Every request reads a copy, talks to CloudDrive2,
and writes a whole configuration: connecting (`StartConnect`, `Inspected`),
applying a selection (`StartApply` or `StartApplyMount` and `Validated`,
`ChangeDirectory`, `Merge`, `Rollback`), and a download that logs in again
(`Choose`, `ReadSetup`, `Relogin`). `Lock`, `WriteKey`, `WriteFile`, `WriteFails`
and `Commit` are `Store.Update`; `Restart` is a crash at any point with the start
that follows, where `main` derives the directory of the transfer service. What is
typed or discovered is known by the endpoint it belongs to. `stale`, `crossed` and
`drifted` are history: who holds an outdated copy, which applies have overlapped
another one, and whether the last change of the setup or the directory was by one
of these. The code does not order them. An apply that overlaps no other reads the
directory, changes it and saves it, so its success makes `drifted` false again.

Abstracted: passwords, tokens and mounts of one endpoint are alike; the
listing of directories, which keeps no state, and the creation of one, which
changes no setting, are left out; input that is turned down changes nothing.

### StateFile and AtomicFile

`Write`, `Rename`, `Refused`, `Clear`, `Retire`, `Replace`, `PutBack`, `Tidy` are
the operations of `atomicWrite` and `replaceFile` in their order, `Commit` the
assignment in memory after them, `Load` a start. `Recovers` tells the two stores
apart: licensing renames a lone backup back at the start, downloaderconfig does
not. A refused rename over an existing file is free, every other failure counts
against `MaxFaults`. `AtomicFile` is one variable that a save changes at once.

### QBSettings

A request resolves its blanks against `memory` (`StartUpdate`), is tested
(`TestSucceeds`, `TestFails`), and saves what it resolved (`Save`, `SaveStep`);
`StartDelete` and `FinishDelete` are `Delete`, which removes the file before it
forgets. `holder` is `Store.mu`. The file and its operations are those of
`StateFile`, with configurations as the states; `ProcessEnds` and `Open` are its
crash and its start, without recovery whatever `Recovers` is, because this store
does not look at a backup. The specification is `SettingsSpec`. `tested`, `known`,
`owed` and `cut` are history. `owed` is what a start should find: what the last
answered save or delete left, and after a call that ended unanswered also what it
was about (`Promised` adds the call in progress). `cut` remembers that the fallback
ended between its two renames, by a crash or because the undoing failed.

### DownloadFlow

A request is a sequence of calls with everything else in between: search
(`StartSearch`, `AuthoriseSearch`, `Issue`), then prepare, rapid upload with at
most one further digest (`StartDownload`, `Authorise`, `Grant`, `Hit`,
`AskDigest`), the link (`Link`, `LinkOfCloudDrive`), and one of the three
downloaders (`StartRemote`; `ReadTorrent`, `Accepted`, `AnswerLost`, `Uncounted`,
`Record`). `GiveUp` is any error. `Tick`, `Authorisation`, `Activate` and `Bind`
are what `Licensing`, `LicenseClient` and `Account115` do to a request in
progress, reduced to what it sees of them. `StopAccepting`, `CloseTransfer`, `Exit`
and `Restart` are `shutdownClient` and the next start; the deadline can pass at any
moment, so `Exit` waits for nobody. `overtaken`, `unknown` and `seen` are history
(`Watch` keeps `seen`, the users whose account was bound since a download began).

`Link` sends the pick code of the upload with the token of the account bound by
then, as `DownloadURL` does. The two can belong to different accounts; whether 115
then refuses (`GiveUp`) or answers with a link to that copy (`LinkFor`) is open.
`Authorise` is `AuthorizeDevice` and `openTicket` in one step, with the reading of
the body between them left out.

The client also refuses a request while its own license is not active; that
gate is left out, so the model allows more than the program. `net/http` serves a
request that arrives on an open connection after the listeners were closed, until
it finds the connection idle; `Arrives` allows that. The comment in
`shutdown.go:17-19`, by which no handler can create a task after the callback,
is therefore not quite true; the properties hold all the same. Whatever a
started download does then is `RemoteTransfer`'s; so is retention, and `tasks`
only grows here.

## 3. The runs

| run | bounds | shows |
|---|---|---|
| `transfer_concurrency` | 2 tasks, 2 slots, 2 callers, two names whose candidates overlap, no sizes | slot and goroutine accounting, shutdown, nobody's file replaced, refinement of `DownloadContract` |
| `transfer_progress` | 2 tasks, 1 slot, a table for 1, bodies up to 2 chunks, sizes declared, supplied by the response, absent, zero or contradicting each other, and bodies shorter and longer | only whole files are published, retention spares active tasks, downloads settle, shutdown completes |
| `licensing_store` | 2 licenses, 2 codes, 2 installations, 2 keys for either, limits 1 and 2, clock to 3, lease 2 | limits, revocation, leases, one key per installation, a code is spent once, every file loads again, refinement of `SeatContract` |
| `client_lease` | 1 client, 2 codes, clock to 2, lease 2, 1 fault | bound on a stale authorisation, saved credentials are known to the manager, revocation and prolongation are noticed |
| `localauth_changes` | 2 requests, 2 users, 2 passwords, 3 tokens for 2 sessions, 2 changes, clock to 2, two environments | sessions belong to the present credentials, who can change them, refinement of `AccountContract` |
| `limiter_window` | 3 requests, 3 addresses, threshold 2, a table for 2, clock to 4, window 2 | overshoot of the threshold, what ends a lock |
| `account_binding` | 2 calls, 2 applications, 2 users | the user matches the tokens, unbinding holds, every call ends |
| `setup_changes` | 2 requests, 2 endpoints, 2 directories | credentials stay home, the key fits, requests keep to their part, the directory follows |
| `file_replace` | 3 values, recovery, 2 faults | refinement of `AtomicFile` |
| `qb_settings` | 2 requests, 2 addresses, 2 modes, 1 secret for each, 2 faults | secrets stay home, what is saved was tested, what a start finds of the last saved settings, deleted ones do not return |
| `download_flow` | 1 request at a time, 2 devices, 2 users, 1 file that is a torrent, 1 ticket, clock to 1, 1 task | digests for authorised calls, whose copies are downloaded, accepted torrents recorded, every request ends |
| `download_refused` | the same | a disagreement of code and comment (section 5) |

Why these bounds are enough. Two downloads are the least that can collide, and
every hazard of `RemoteTransfer` has at most one other party besides the task
(a second task, a cancel, a shutdown); a table for one overflows with the
second. Sizes and collisions do not meet in the code, so they are in different
runs. Two codes under a limit of 1 exceed it if a check is missing,
a limit of 2 can be lowered under two active devices, and the second code can
also go to a re-activation. The clock runs past an expiry and past a lease; a
client with a lease of 2 meets a manager whose expiry cuts it to 1. One fault per
behaviour of `LicenseClient` is a crash, timeout or failed write at every
possible step; its liveness properties do not combine two of them. In
`LocalAuth` two requests are a login
against a change or two changes against each other, a third session overflows
the limit of two, and two changes let the second one meet a request that began
before the first. In `LoginLimiter` three requests exceed a threshold of two
together, and three addresses a table for two. In `Account115` two calls
let a refresh or a binding overlap with an unbinding. In `ClientSetup` and
`QBSettings` two requests are one that reads and one that overtakes it, two
endpoints the right and the wrong one. Two faults in `StateFile` are what it
takes to leave only the backup (a failed rename and a failed undoing); with a
third, in the next save, the property is no longer what the code aims at. In
`QBSettings` a crash and two faults are enough to lose the settings altogether, and
the run reaches that (the last disjunct of `SettingsKept`). In
`DownloadFlow` requests touch only their own record apart from sets that grow,
and everything a second request could do to the first one (issue another
ticket excepted) is an action of the environment; the theorems about it are for
any number of requests.

Where the system may stop (a bound is reached) TLC still finds successor steps
(time, other programs, client requests); no run switches the deadlock check off.
Symmetry is used for interchangeable callers, licenses, codes, installations,
keys and addresses, in runs without liveness properties only.

Each property has a mutant in `PROJECT.json`: an operator kept beside the
definition it replaces, with a bug that code could have (`HasRoomForOneMore`,
`MergeEarly`, `ResolveAnyAddress`, `NoPutBack`, `HitRemembered`, `AuthoriseOnce`, …), under which
the run finds the property violated.

### Fairness

- `RemoteTransfer!Fairness`: weak fairness of every goroutine the service
  itself has started (a download, a start that holds a slot, a cancel between
  its unlock and `cancel()`, a shutdown once begun). Go schedules runnable
  goroutines, the HTTP client has timeouts, and bodies are finite by
  `MaxBytes`. Nobody is obliged to start, cancel or shut down anything.
- `LicenseClient!ClientFairness`: the ticker of `startLicenseHeartbeat` asks
  again and again and gets `Service.mu` even against repeated activations
  (`sync.Mutex` hands over to a starving waiter; hence strong fairness); a
  request in hand is answered, an answer is read, a dead manager is started
  again. Faults are bounded, so they do not last for ever.
- `Account115!Fairness`: weak fairness of every call (each exchange with 115 ends
  by its timeout) and strong fairness of taking `Service.refresh`.
- `DownloadFlow!FairSpec`: weak fairness of the steps of every request. Each
  waits for a call that answers or fails by its timeout; which of the two, and
  what 115 answers, stays free, and nothing of the environment is fair.

## 4. The proofs

TLAPS checks every theorem below to the last leaf. The constants are arbitrary
within the named assumptions of each module; TLC evaluates those assumptions.
`PROJECT.json` lists the theorems; this section says why they hold.

`RemoteTransfer_proofs` proves every property its two runs check but the two
liveness ones. The properties are not inductive on
their own: that a settled task is never settled again needs to know where its
goroutine can be. The strengthening is `TasksMatchWorkers`, which ties `status`,
`temp`, `cancels` and membership in the table to `pc` at every step; with it each
action is one case. `Trim` enters through `TrimSpares`, `Settle` through
`SettleEffect`. On top of it: `DestInv` (the destination of a working goroutine
is reserved, by it alone, and holds no download yet) gives `NoneReplaced`; `SlotInv`
counts the owners of slots as disjoint finite sets and gives `SlotsAccounted`;
`DoneInv` (nothing joins the wait group once `closed` is set) gives
`IdleWhenDrained`; `SizeInv` follows the size from the response to the task and
gives `WholeWhenPublished`. `KeepsContract` puts them together: the refinement of
`DownloadContract`, one lemma for the initial state and one case for each action,
where the rename and the cancellation are the steps in which the order of
`temp`, `status` and `pc` matters. `OwnDestinations` is the part of `DestInv` that
keeps one goroutine from releasing the reservation of another.

`Licensing_proofs` proves every property `licensing_store` checks, and that a
revocation is final. `Inv` is
`TypeOK`, `DurableWhenAnswered` and `Sound` of both `store` and `disk`; `Sound`
joins the limit, revocation, lease, key and loadability conditions, which need
each other (a release keeps the file loadable because a released device is not
active; a lease is bounded after `Updated` because an inactive device's is not
asked about). Each operator that computes a next store has a lemma that it
keeps `Sound`; `CommitKeeps` carries that to memory and file whatever moment the
process dies at; `InvPreserved` has one case per action. Limits use the
cardinality theorems of the library. The action properties follow from `Inv`
and one more pass over the actions. `KeepsContract` is the refinement of
`SeatContract`: each operator has a second lemma that says what it makes of the
contract's variables (`CreatedEffect` … `RenewedEffect`), and each a step of the
contract that it maps to (`SellStep` … `TakeStep`, or `NoSeatMoves`). The seats of a
license are its active devices (`SeatsAreActive`), so that `Inv`'s limits are the
contract's. Since memory and file agree between two calls, a call decides on what the
contract sees. That a revoked license has no device (`RevocationComplete`) is part
of `Inv`; it is proved and has no run of its own, because the run of the contract
would show it violated.

The second half of the module is about the composition. `StoreUnderClients`
(`ClientSpec => Spec`) carries every theorem about the store over to a manager
with clients. `ClientInv` adds `CredentialsHeld`: a credential that a client has
saved, or that an answer on its way grants or renews, is that of a device in the
file, with a token that was issued; either the device is still active with this
token, or the lease ends within one lease of the moment it was lost. It also ties
an answer to the credential the request was sent with, because a heartbeat
changes the lease of what is saved. `StaleIsBounded` and `SavedWasWritten` follow;
the former is what lets a client work from its cache.

`LocalAuth_proofs` proves every property `localauth_changes` checks. `Inv` adds to
the checked invariants what requests in progress know: `ReadCurrent` says that a
request whose generation is still the present one has read the present
credentials, and that no session carries the token of a request that verified
older ones. The last part is what makes a change safe although its commit does not
compare generations: a change that another one overtook finds its session
gone, because a commit clears all sessions and tokens are not issued twice
(`TokensIssued`). `KeepsContract` is the refinement of `AccountContract`. A login
takes effect in `FinishLogin`: the generation it read is still the present one, so
by `ReadCurrent` what it verified is the account of that instant; the sessions it
leaves are no more than the limit, also without `grant` (`PublicIsFew`). A change
takes effect when its file is renamed, at the hands of the session that is looked
up once more under the same lock. `NeverAskedAgain`, that the demand for a new
password does not come back, is proved beside it.

`Account115_proofs` proves both safety properties of `Account115`. `Inv` says that
every copy on its way to a write, and every refresh under way, pairs its tokens
with their user (`Matched`); that is what makes lost updates harmless for
`UserMatchesTokens`. `Unbinding` says that after an unbinding a call that does not
linger has nothing in its hands that could bind an account (`Harmless`), and that
any QR session there is was begun by a call that overlapped it.
`OneRefresh` says who holds `Service.refresh`: exactly the calls between the start
of a refresh and the end of its write, one at most (`RefreshExcludes`). It is about
the lock and not about which refresh token is spent.

`LoginLimiter_proofs` proves both properties of `LoginLimiter`. Failures recorded
and checks in progress of an address, added up, grow only in `Admit`, which
demands a count below the threshold; `LockHolds` needs that the table is finite
and no larger than its limit, so that only a full one makes room.

`ClientSetup_proofs` proves all four properties of `ClientSetup`. `SetupInv` says who
is inside `Update` (`LockInv`), what each kind of request can be doing (`KindInv`),
that a key is made only when there is none (`KeyInv`), that a restart would load
what is in memory or about to be (`DiskInv`), that the copy of a request nobody
overtook differs from the setup in its own part (`FreshInv`), and how far the
directory has come (`DirInv`): an apply that crossed no other is the only one and
brings the directory to where it will say, whatever was there before, which is why
its success ends a drift. The lemmas `Joining`, `Moving`, `Leaving` and
`Bystanding` are the four ways in which a step bears on that. `KeyInv` rests on `Update` holding the lock from
the reading of the key to the rename of the file.

`StateFile_proofs` proves the refinement of `AtomicFile` for at most two faults and
any values (`AtomicReplace`): `StoredInv` says that a save that comes to the
fallback with only a backup left has used up two faults before, so removing the
backup in `Clear` never removes the only copy. This needs the store that restores
its backup at a start.

The same module proves the four properties of `QBSettings`, whose file steps are
those of `StateFile`, so that the lemmas about the file carry over. `SettingsInv`
joins the types, the shape of a save, the lock (`HolderInv`: a save is under way
only for the request that holds the lock, and a deletion has removed the file),
what requests hold (`RequestInv`) and that secrets stay
with their address, which `ResolveGives` shows of the one operator that could
break it. `TestedInv` and `KnownInv` follow a configuration from the test through
the request, the temporary file and the two files to memory. `KnownInv` is where
a deleted secret could come back: a backup may hold one, and it can be renamed
back only if the file is missing, which two failures lead to. `PromiseInv` follows
what a start should find through the steps of a save: it is the file
(`InPlaceInv`), or, from the retirement of the file until the fallback ends or is
found cut short, the backup (`InBackupInv`). Only `Clear` removes a backup, and it
is reached with the file missing only by one more failure, which is what the last
disjunct of `SettingsKept` concedes. `DeletedForgotten`
and `SettingsKept` are proved for at most two faults and any number of requests,
addresses and secrets; `SecretsStayHome` and `SavedWasTested` for any number of
faults.

`DownloadFlow_proofs` proves all three safety properties of `DownloadFlow`.
`GrantInv` says that a request past the manager's checks is in force or
`overtaken`; `LinkInv` that a request past the upload names an account that was
bound while it ran and holds the file, and that its link is to that copy;
`HeldInv` types what it holds.

Liveness. What a liveness property needs apart from fairness is safety, and that
part is proved. No actor goes round in circles: every step of a goroutine
(`NoGoroutineCircles`), of a call to the 115 account (`NoCallCircles`) and of a request in
`DownloadFlow` (`NoRequestCircles`) ends it or lowers a rank that is written down
there (`Ahead`, `Left`); nobody else's step raises the rank of a goroutine; and a
loop, a digest that is asked for again, a token that is refused again, or a body that
goes on, is bounded by a flag or by `MaxBytes`. Nor do they wait in vain:
`NoReleaseBlocks` says that the receive that gives a slot back finds a value,
`OneRefresh` that the lock of the refresh is free or held by a call whose
next step does not wait for it.

Only model-checked: the six liveness properties themselves
(`EveryDownloadSettles`, `ShutdownCompletes`, `RevocationNoticed`,
`ProlongationNoticed`, `EveryCallEnds`, `EveryRequestEnds`), because fairness and
ENABLED are out of the prover's reach. Every invariant, action property and
refinement that a run shows to hold is also proved.

## 5. What the checks found

- `download_refused`: `AddTorrent` looks for `Fails.` in the answer only.
  qBittorrent with Web API 2.14 refuses a torrent with a structured answer,
  which `Client.Add` of the same file does look into. A torrent refused that way is
  recorded and shown as submitted.

The properties of the other runs hold.

Further properties are stated beside the models without a run. Each does not hold,
or holds of less than a reader of a comment or document might expect; put into the
cfg named here it shows a trace:

- `LeaseRenewedByDevice` (`Licensing_store.cfg`): `UpdateLicense` gives every
  active device a new lease, also devices nobody has heard from and leases that
  have run out; a heartbeat is not the only thing that renews one.
- `OneScope` (`Account115_binding.cfg`): `PollAuth` saves the tokens of its QR
  session under the AppID of the moment, so a code that is still on display when
  the AppID changes binds tokens of the old application; so does a refresh
  under way.
- `FirstPasswordReplaced` (`LocalAuth_changes.cfg`): `CredentialsHandler` asks for
  8 characters and clears `MustChange`, so the change that the first login is
  asked for may set the first password again.
- `MountOfEndpoint` (`ClientSetup_changes.cfg`): an apply that is overtaken by a
  connection to another endpoint merges the mount of the old one into the new
  setup, since `applySetup` reads the setup again only for the fields it does not
  own.

- `SavesAtomically` with `Recovers = FALSE` (`StateFile_replace.cfg`): the comment on
  `SaveVerified` says that it "atomically persists" the settings
  (`downloaderconfig/store.go:236`). Where a rename over an existing file is refused,
  there is nothing under the file's name between the two renames of the fallback.
  A crash there hides the saved settings, because `Open` never reads the
  `.previous` file, and a later save that fails in the fallback removes that file,
  their last copy. `SettingsKept` says exactly when this can happen.
- `AskedByHolder` (`DownloadFlow_requests.cfg`): when the account is replaced between
  the rapid upload and the request for the link, the pick code of a file in one
  account is sent with the token of another. The code does not notice; 115 decides.
- `NothingUndone` (`ClientSetup_changes.cfg`): a connection, or a download that renews
  its session, writes back the setup it read before its network calls, and undoes a
  change that was saved in between. Two applies that overlap can leave the
  transfer service and the setup with different directories until the next one.

One disagreement is below the model's abstraction. `Service.refresh` excludes two
refreshes, but `Store.SelectFolder` reads the configuration and writes it back
without that lock (`account115/store.go:156-164`): one that overlaps a refresh can
write the spent refresh token back over the new one. `Account115` has no generations
of tokens and cannot show it.

One hazard has no property: the destination of a download is chosen at the start
and renamed over at the end, and a file that another program creates there in
between is replaced (`service.go:1069`). `Elsewhere` models such programs, and
`NoDownloadReplaced` is about downloads only.

## 6. Not modelled

- *Local copies and file listing* (`StartDownload`, `copyTask`, `listFiles`): no
  application calls them.
- *Manager process, configuration and pages*: wiring, headers, environment
  parsing, static pages and packaging keep no state over time.
- *Manager licensing API*: the handlers are one call of the store each and are in
  `Licensing` and `LicenseClient`; listings and input parsing are not modelled.
- *Manager catalogue*: search, prepare and sign are in `DownloadFlow`, the manager's
  account goes through the service in `Account115`; grouping of results and the
  byte ranges of a digest are not modelled.
- *Client process*: shutdown and restart are modelled where they matter
  (`RemoteTransfer`, `DownloadFlow`, `ClientSetup`); routes, headers and health
  checks are not.
- *Adapters* (115, CloudDrive2, qBittorrent): stateless protocol clients, modelled
  as the outcomes of the calls their callers make; the generated protocol code
  is not, and neither are operations without a caller.
- A loss of power (as opposed to a crash of the process), clocks that are set
  back, and two processes over one data directory.
