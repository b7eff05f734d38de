---------------------------- MODULE RemoteTransfer ----------------------------
(***************************************************************************)
(* The remote downloads of internal/transfer/service.go: the customer's    *)
(* client fetches a manager-authorised file over HTTP into a temporary     *)
(* file and renames it into the target directory.                          *)
(*                                                                         *)
(* Every step below is what one goroutine does between two places where    *)
(* another one can run: a critical section of Service.mu, an operation on  *)
(* the slot channel, one network or file operation.  Rejected calls        *)
(* (invalid name, no free slot, unknown task) change nothing and are       *)
(* stuttering steps.                                                       *)
(***************************************************************************)
EXTENDS Integers, FiniteSets, Sequences

CONSTANTS
    MaxTasks,       \* bound: tasks ever recorded, T000001 .. (the code has none)
    Slots,          \* maxConcurrentRemoteDownloads
    MaxRemembered,  \* maxRememberedTasks
    Starters,       \* goroutines that may be inside StartRemoteDownload
    Names,          \* validated download names
    Paths,          \* destinations in the target directory
    Candidates,     \* Candidates[name]: name, "name (1)", .. "name (999)"
    DeclaredSizes,  \* values of RemoteDownload.Size, Unknown for <= 0
    ContentLengths, \* values of Response.ContentLength, Unknown for -1
    MaxBytes        \* bound: chunks a response body can hold

Unknown == -1
Ids     == 1 .. MaxTasks

\* What a path of the target directory holds: a published download's id,
NoFile  == 0    \* nothing,
Foreign == -1   \* or a file of another program or of the customer.
Owners  == Ids \cup {NoFile, Foreign}

Sizes == {Unknown} \cup 0 .. MaxBytes + 1

ASSUME ConstantsAssumption ==
    /\ MaxTasks \in Nat
    /\ Slots \in Nat \ {0}
    /\ MaxRemembered \in Nat
    /\ Slots <= MaxRemembered
    /\ Paths # {}
    /\ Candidates \in [Names -> Seq(Paths)]
    /\ DeclaredSizes \subseteq Sizes
    /\ ContentLengths \subseteq Sizes
    /\ MaxBytes \in Nat

VARIABLES
    next,        \* Service.next: ids 1 .. next have been issued
    remembered,  \* the keys of Service.tasks; order is the same set, newest first
    status,      \* Task.Status, of a forgotten task the last one it had
    dest,        \* Task.Destination
    bytes,       \* expectedSize and copied of the worker, BytesTotal of the task
    pc,          \* where the goroutine of the task is
    temp,        \* what became of its temporary file
    cancels,     \* the keys of Service.remoteCancels
    ctxDone,     \* tasks whose own context has been cancelled
    cancelling,  \* tasks whose CancelRemoteDownload has yet to call cancel()
    reserved,    \* Service.remoteReservations
    holding,     \* starters that own a slot and have registered nothing yet
    returning,   \* starters that were refused and still own their slot
    slotsUsed,   \* len(Service.remoteSlots)
    wg,          \* the counter of Service.remoteWG
    phase,       \* how far Shutdown has come
    files        \* the target directory

taskVars  == <<next, remembered, status, dest, bytes>>
workVars  == <<pc, temp, cancels, ctxDone, cancelling, reserved>>
slotVars  == <<holding, returning, slotsUsed, wg>>
vars      == <<taskVars, workVars, slotVars, phase, files>>

ActiveStates   == {"queued", "running"}
TerminalStates == {"completed", "failed", "cancelled", "submitted"}
Statuses       == {"none"} \cup ActiveStates \cup TerminalStates

\* The goroutine's program: straight through the table, or out of it through
\* "cleanup" (remove the temporary file), "unreserve", "slot" and "wg".
NextPc == [begin |-> "request", request |-> "temp", temp |-> "read",
           read |-> "stop1", stop1 |-> "sync", sync |-> "stop2",
           stop2 |-> "chmod", chmod |-> "stop3", stop3 |-> "close",
           close |-> "stop4", stop4 |-> "publish", publish |-> "unreserve",
           cleanup |-> "unreserve", unreserve |-> "slot", slot |-> "wg",
           wg |-> "ended"]
StopPoints == {"stop1", "stop2", "stop3", "stop4"}
FileSteps  == {"sync", "chmod", "close"}
Pcs        == DOMAIN NextPc \cup {"none", "ended"}

Temps  == {"none", "open", "renamed", "removed", "left"}
Phases == {"open", "closed", "cancelled", "done"}

Init ==
    /\ next = 0
    /\ remembered = {}
    /\ status = [id \in Ids |-> "none"]
    /\ dest = [id \in Ids |-> CHOOSE p \in Paths : TRUE]
    /\ bytes = [id \in Ids |-> [expected |-> Unknown, copied |-> 0, total |-> 0]]
    /\ pc = [id \in Ids |-> "none"]
    /\ temp = [id \in Ids |-> "none"]
    /\ cancels = {} /\ ctxDone = {} /\ cancelling = {}
    /\ reserved = {}
    /\ holding = {} /\ returning = {}
    /\ slotsUsed = 0 /\ wg = 0
    /\ phase = "open"
    /\ files = [p \in Paths |-> NoFile]

-----------------------------------------------------------------------------
(* Operations on the task table, all of them under Service.mu.             *)

IsActive(id) == id \in remembered /\ status[id] \in ActiveStates

\* ctx.Err() # nil for the worker: its own context or the service's is cancelled.
CtxDone(id) == id \in ctxDone \/ phase \in {"cancelled", "done"}

\* Trim when it spares no active task, and when it leaves one too many.
TrimActive(known, st, keep) ==
    LET excess == Cardinality(known) - MaxRemembered
    IN  known \ {i \in known \ {keep} :
                    Cardinality({j \in known \ {keep} : j <= i}) <= excess}

\* The oldest tasks that are neither active nor `keep' go, as many as the
\* table is over its limit.  st is the status function the caller has set.
Trim(known, st, keep) ==
    LET removable == {i \in known \ {keep} : st[i] \notin ActiveStates}
        excess    == Cardinality(known) - MaxRemembered
    IN  known \ {i \in removable :
                    Cardinality({j \in removable : j <= i}) <= excess}

\* failRemoteTask and cancelRemoteTask: only an active task is settled.
Settle(id, final) ==
    IF IsActive(id)
    THEN /\ status' = [status EXCEPT ![id] = final]
         /\ remembered' = Trim(remembered, status', id)
    ELSE UNCHANGED <<status, remembered>>

\* updateTask when it changes no status: it still trims for a settled task.
Touch(id) ==
    remembered' = IF id \in remembered /\ status[id] \notin ActiveStates
                  THEN Trim(remembered, status, id)
                  ELSE remembered

\* uniqueDestinationReserved: the first candidate that nobody has reserved
\* and that does not exist; no result when all are taken.
FreeOnDisk(p) == files[p] = NoFile   \* ... when reservations are forgotten

Free(p) == p \notin reserved /\ files[p] = NoFile

UniqueDestination(name) ==
    {p \in Paths : \E i \in DOMAIN Candidates[name] :
        /\ p = Candidates[name][i]
        /\ Free(p)
        /\ \A j \in 1 .. i - 1 : ~Free(Candidates[name][j])}

-----------------------------------------------------------------------------
(* StartRemoteDownload, RecordSubmitted and CancelRemoteDownload.           *)

SlotFree == slotsUsed < Slots

\* <-remoteSlots, which blocks on an empty channel; its loss and its
\* repetition.
KeepSlot        == UNCHANGED slotsUsed
ReturnSlotTwice == slotsUsed > 1 /\ slotsUsed' = slotsUsed - 2
ReturnSlot      == slotsUsed > 0 /\ slotsUsed' = slotsUsed - 1

\* remoteWG.Add(1)
AddWorker == wg' = wg + 1

\* The non-blocking send on the slot channel; with no slot the call is busy.
TakeSlot(c) ==
    /\ c \notin holding \cup returning
    /\ SlotFree
    /\ slotsUsed' = slotsUsed + 1
    /\ holding' = holding \cup {c}
    /\ UNCHANGED <<taskVars, workVars, returning, wg, phase, files>>

AcceptingAlways == TRUE   \* ... when Service.closed is not tested

\* Not Service.closed.
Accepting == phase = "open"

\* One new entry at the head of the table.
Record(id, st) ==
    /\ next' = id
    /\ status' = [status EXCEPT ![id] = st]
    /\ remembered' = Trim(remembered \cup {id}, status', id)

\* The critical section of StartRemoteDownload when the service is open and a
\* destination is free; the goroutine of the task is running when it ends.
Register(c, name, size) ==
    LET id == next + 1
    IN  /\ c \in holding
        /\ id \in Ids
        /\ Accepting
        /\ \E p \in UniqueDestination(name) :
              /\ dest' = [dest EXCEPT ![id] = p]
              /\ reserved' = reserved \cup {p}
        /\ Record(id, "queued")
        /\ bytes' = [bytes EXCEPT ![id] =
                        [expected |-> IF size > 0 THEN size ELSE Unknown,
                         copied   |-> 0,
                         total    |-> IF size > 0 THEN size ELSE 0]]
        /\ cancels' = cancels \cup {id}
        /\ pc' = [pc EXCEPT ![id] = "begin"]
        /\ AddWorker
        /\ holding' = holding \ {c}
        /\ UNCHANGED <<temp, ctxDone, cancelling, returning, slotsUsed, phase, files>>

\* ... and when it is closed or no candidate is free.  (A candidate that os.Stat
\* cannot look at ends the start in the same way, and is not a case of its own.)
Refuse(c, name) ==
    /\ c \in holding
    /\ ~Accepting \/ UniqueDestination(name) = {}
    /\ holding' = holding \ {c}
    /\ returning' = returning \cup {c}
    /\ UNCHANGED <<taskVars, workVars, slotsUsed, wg, phase, files>>

\* A refused start gives its slot back after it has left the critical section.
GiveBack(c) ==
    /\ c \in returning
    /\ returning' = returning \ {c}
    /\ ReturnSlot
    /\ UNCHANGED <<taskVars, workVars, holding, wg, phase, files>>

\* A task an external downloader accepted: terminal at once, no goroutine, and
\* no look at Service.closed.
RecordSubmitted ==
    /\ next + 1 \in Ids
    /\ Record(next + 1, "submitted")
    /\ UNCHANGED <<dest, bytes, workVars, slotVars, phase, files>>

\* The critical section of CancelRemoteDownload ...
Cancel(id) ==
    /\ IsActive(id)
    /\ id \in cancels
    /\ Settle(id, "cancelled")
    /\ cancelling' = cancelling \cup {id}
    /\ UNCHANGED <<next, dest, bytes, pc, temp, cancels, ctxDone, reserved,
                   slotVars, phase, files>>

\* ... and the cancel() it calls after unlocking.
FireCancel(id) ==
    /\ id \in cancelling
    /\ cancelling' = cancelling \ {id}
    /\ ctxDone' = ctxDone \cup {id}
    /\ UNCHANGED <<taskVars, pc, temp, cancels, reserved, slotVars, phase, files>>

-----------------------------------------------------------------------------
(* runRemoteDownload, the goroutine of one task.                            *)

\* The worker variables that only the steps named by a caller change.
outsideWorker == <<next, dest, cancels, ctxDone, cancelling, reserved, slotVars, phase>>

Goto(id, label) == pc' = [pc EXCEPT ![id] = label]
Advance(id)     == Goto(id, NextPc[pc[id]])

\* `return': the deferred calls remove the temporary file if there is one.
Return(id) == Goto(id, IF temp[id] = "open" THEN "cleanup" ELSE "unreserve")

\* failRemoteTask or cancelRemoteTask, then return.
Abort(id, final) ==
    /\ Settle(id, final)
    /\ Return(id)
    /\ UNCHANGED <<bytes, temp, files, outsideWorker>>

\* An error of the network is a cancellation when the context is done.
NetworkError(id) ==
    Abort(id, IF CtxDone(id) THEN "cancelled" ELSE "failed")

\* beginRemoteTask
Begin(id) ==
    /\ pc[id] = "begin"
    /\ IF id \in remembered /\ status[id] = "queued"
       THEN /\ status' = [status EXCEPT ![id] = "running"]
            /\ Advance(id)
       ELSE /\ UNCHANGED status
            /\ Return(id)
    /\ UNCHANGED <<remembered, bytes, temp, files, outsideWorker>>

\* The response's head arrives: its length settles a size nobody declared and
\* must agree with one that was.
Respond(id, length) ==
    LET declared == bytes[id].expected
        expected == IF declared = Unknown THEN length ELSE declared
    IN  /\ pc[id] = "request"
        /\ IF Unknown \notin {declared, length} /\ declared # length
           THEN Abort(id, "failed")
           ELSE /\ bytes' = [bytes EXCEPT
                        ![id] = [expected |-> expected,
                                 copied   |-> bytes[id].copied,
                                 total    |-> IF expected # Unknown /\ id \in remembered
                                              THEN expected ELSE bytes[id].total]]
                /\ IF expected # Unknown THEN Touch(id) ELSE UNCHANGED remembered
                /\ Advance(id)
                /\ UNCHANGED <<status, temp, files, outsideWorker>>

\* No response, or one whose status is not 2xx.
RequestFails(id) ==
    /\ pc[id] = "request"
    /\ NetworkError(id) \/ Abort(id, "failed")

\* MkdirAll and CreateTemp
CreateTemp(id) ==
    /\ pc[id] = "temp"
    /\ \/ /\ temp' = [temp EXCEPT ![id] = "open"]
          /\ Advance(id)
          /\ UNCHANGED <<status, remembered, bytes, files, outsideWorker>>
       \/ Abort(id, "failed")

\* One chunk of the body is read and written, unless it is one too many.
Copy(id) ==
    LET b == bytes[id]
    IN  /\ pc[id] = "read"
        /\ b.copied < MaxBytes
        /\ b.expected # Unknown => b.copied < b.expected
        /\ bytes' = [bytes EXCEPT ![id].copied = @ + 1]
        /\ Touch(id)
        /\ UNCHANGED <<status, pc, temp, files, outsideWorker>>

\* io.EOF leaves the loop.
EndOfBody(id) ==
    /\ pc[id] = "read"
    /\ Advance(id)
    /\ UNCHANGED <<status, remembered, bytes, temp, files, outsideWorker>>

\* A chunk beyond the known size, a failed write, or a failed read.
CopyFails(id) ==
    /\ pc[id] = "read"
    /\ Abort(id, "failed") \/ NetworkError(id)

\* shouldStopRemoteTask when it leaves a task alone whose context is done.
StopSilently(id) ==
    /\ pc[id] \in StopPoints
    /\ IF CtxDone(id) \/ id \notin remembered \/ status[id] = "cancelled"
       THEN Return(id) ELSE Advance(id)
    /\ UNCHANGED <<status, remembered, bytes, temp, files, outsideWorker>>

\* shouldStopRemoteTask
StopCheck(id) ==
    /\ pc[id] \in StopPoints
    /\ IF CtxDone(id)
       THEN Abort(id, "cancelled")
       ELSE /\ IF id \notin remembered \/ status[id] = "cancelled"
               THEN Return(id) ELSE Advance(id)
            /\ UNCHANGED <<status, remembered, bytes, temp, files, outsideWorker>>

\* A known size must have arrived in full before the file is synced.
AnySize(id) == TRUE   \* ... when that is not tested

Whole(id) == bytes[id].expected # Unknown => bytes[id].copied = bytes[id].expected

\* Sync, Chmod and Close
FinishFile(id) ==
    /\ pc[id] \in FileSteps
    /\ \/ /\ pc[id] = "sync" => Whole(id)
          /\ Advance(id)
          /\ UNCHANGED <<status, remembered, bytes, temp, files, outsideWorker>>
       \/ Abort(id, "failed")

\* The same without the status, and without the context.
PublishableCancelled(id) == id \in remembered /\ ~CtxDone(id)
PublishableLate(id)      == id \in remembered /\ status[id] = "running"

\* What publishRemoteTask has seen under the lock when it renames.
Publishable(id) ==
    /\ id \in remembered
    /\ status[id] = "running"
    /\ ~CtxDone(id)

\* publishRemoteTask, the commit point: rename and status under one lock.  A
\* failed rename is settled after unlocking; a cancellation that comes between
\* has the effect of one that came before the lock was taken.
Publish(id) ==
    /\ pc[id] = "publish"
    /\ \/ /\ Publishable(id)
          /\ files' = [files EXCEPT ![dest[id]] = id]
          /\ temp' = [temp EXCEPT ![id] = "renamed"]
          /\ bytes' = IF bytes[id].total > 0 THEN bytes
                      ELSE [bytes EXCEPT ![id].total = bytes[id].copied]
          /\ Settle(id, "completed")
          /\ Advance(id)
          /\ UNCHANGED outsideWorker
       \/ /\ Publishable(id)
          /\ Abort(id, "failed")
       \/ /\ ~Publishable(id)
          /\ status' = IF IsActive(id) /\ CtxDone(id)
                       THEN [status EXCEPT ![id] = "cancelled"] ELSE status
          /\ Return(id)
          /\ UNCHANGED <<remembered, bytes, temp, files, outsideWorker>>

\* The deferred os.Remove, whose error is ignored.
RemoveTemp(id) ==
    /\ pc[id] = "cleanup"
    /\ \E outcome \in {"removed", "left"} : temp' = [temp EXCEPT ![id] = outcome]
    /\ Advance(id)
    /\ UNCHANGED <<status, remembered, bytes, files, outsideWorker>>

\* The deferred function of the goroutine: cancel(), the maps, the slot, the
\* wait group.
Unreserve(id) ==
    /\ pc[id] = "unreserve"
    /\ ctxDone' = ctxDone \cup {id}
    /\ cancels' = cancels \ {id}
    /\ reserved' = reserved \ {dest[id]}
    /\ Advance(id)
    /\ UNCHANGED <<taskVars, temp, cancelling, slotVars, phase, files>>

ReleaseSlot(id) ==
    /\ pc[id] = "slot"
    /\ ReturnSlot
    /\ Advance(id)
    /\ UNCHANGED <<taskVars, temp, cancels, ctxDone, cancelling, reserved,
                   holding, returning, wg, phase, files>>

WorkerDone(id) ==
    /\ pc[id] = "wg"
    /\ wg' = wg - 1
    /\ Advance(id)
    /\ UNCHANGED <<taskVars, temp, cancels, ctxDone, cancelling, reserved,
                   holding, returning, slotsUsed, phase, files>>

Work(id) ==
    \/ Begin(id)
    \/ \E length \in ContentLengths : Respond(id, length)
    \/ RequestFails(id)
    \/ CreateTemp(id)
    \/ Copy(id)
    \/ EndOfBody(id)
    \/ CopyFails(id)
    \/ StopCheck(id)
    \/ FinishFile(id)
    \/ Publish(id)
    \/ RemoveTemp(id)
    \/ Unreserve(id)
    \/ ReleaseSlot(id)
    \/ WorkerDone(id)

-----------------------------------------------------------------------------
(* Shutdown.  Every caller then waits for remoteDone or for its own deadline; *)
(* neither changes the state, so only the shared part is modelled.            *)

Close ==
    /\ phase = "open"
    /\ phase' = "closed"
    /\ UNCHANGED <<taskVars, workVars, slotVars, files>>

\* remoteCancel(): the context of every task is done from here on.
CancelAll ==
    /\ phase = "closed"
    /\ phase' = "cancelled"
    /\ UNCHANGED <<taskVars, workVars, slotVars, files>>

\* remoteWG.Wait() returns and remoteDone is closed: Shutdown returns nil.
Drained ==
    /\ phase = "cancelled"
    /\ wg = 0
    /\ phase' = "done"
    /\ UNCHANGED <<taskVars, workVars, slotVars, files>>

-----------------------------------------------------------------------------
\* Other programs and the customer create, move and delete files.
Elsewhere(p) ==
    /\ files' = [files EXCEPT ![p] = IF @ = NoFile THEN Foreign ELSE NoFile]
    /\ UNCHANGED <<taskVars, workVars, slotVars, phase>>

\* A start that owns a slot goes through the critical section.
Proceed(c) ==
    \E name \in Names :
        Refuse(c, name) \/ \E size \in DeclaredSizes : Register(c, name, size)

Next ==
    \/ \E c \in Starters : TakeSlot(c) \/ Proceed(c) \/ GiveBack(c)
    \/ RecordSubmitted
    \/ \E id \in Ids : Cancel(id) \/ FireCancel(id) \/ Work(id)
    \/ Close \/ CancelAll \/ Drained
    \/ \E p \in Paths : Elsewhere(p)

\* Goroutines that can run do run: a worker (its network operations have
\* timeouts and MaxBytes bounds the body), a start that holds a slot, a
\* cancellation and a shutdown once begun.  Nobody has to start, cancel, submit
\* or shut anything down.
Fairness ==
    /\ \A id \in Ids : WF_vars(Work(id)) /\ WF_vars(FireCancel(id))
    /\ \A c \in Starters : WF_vars(Proceed(c)) /\ WF_vars(GiveBack(c))
    /\ WF_vars(CancelAll) /\ WF_vars(Drained)

Spec     == Init /\ [][Next]_vars
FairSpec == Spec /\ Fairness

-----------------------------------------------------------------------------
(* Properties *)

TypeOK ==
    /\ next \in 0 .. MaxTasks
    /\ remembered \subseteq Ids
    /\ status \in [Ids -> Statuses]
    /\ dest \in [Ids -> Paths]
    /\ bytes \in [Ids -> [expected : Sizes, copied : 0 .. MaxBytes, total : Sizes]]
    /\ pc \in [Ids -> Pcs]
    /\ temp \in [Ids -> Temps]
    /\ cancels \subseteq Ids /\ ctxDone \subseteq Ids /\ cancelling \subseteq Ids
    /\ reserved \subseteq Paths
    /\ holding \subseteq Starters /\ returning \subseteq Starters
    /\ slotsUsed \in Nat /\ wg \in Int
    /\ phase \in Phases
    /\ files \in [Paths -> Owners]

\* Goroutines by what they still own.
Program     == {"begin", "request", "temp", "read", "publish"} \cup StopPoints \cup FileSteps
Working     == {id \in Ids : pc[id] \in Program}
Reserving   == {id \in Ids : pc[id] \in Program \cup {"cleanup", "unreserve"}}
SlotOwners  == {id \in Ids : pc[id] \in Program \cup {"cleanup", "unreserve", "slot"}}
Unfinished  == {id \in Ids : pc[id] \notin {"none", "ended"}}

\* Exactly one of cancellation and publication wins: a task is completed if and
\* only if its file was renamed into the target directory, so a task whose
\* cancellation was reported never is (publishRemoteTask's comment).
CancelOrPublish ==
    \A id \in Ids : status[id] = "completed" <=> temp[id] = "renamed"

\* A task that was reported completed, failed, cancelled or submitted never
\* gets another status, whatever its goroutine still does
\* (failRemoteTask, cancelRemoteTask, updateTask).
SettledForGood ==
    [][\A id \in Ids : status[id] \in TerminalStates => status'[id] = status[id]]_vars

\* Downloads that own a reservation have different destinations, all of them
\* reserved: no goroutine releases the reservation of another one.
DestinationsDistinct ==
    /\ \A id \in Reserving : dest[id] \in reserved
    /\ \A i, j \in Reserving : dest[i] = dest[j] => i = j

\* The rename of one download never replaces the file of another one
\* (uniqueDestinationReserved together with remoteReservations).
NoDownloadReplaced ==
    [][\A p \in Paths : files[p] \in Ids => files'[p] \in {files[p], NoFile}]_vars

\* A queued or running task is in the table and can be cancelled: retention
\* forgets settled tasks only (trimTerminalTasksLocked).
ActiveIsVisible ==
    \A id \in Ids : status[id] \in ActiveStates => id \in remembered \cap cancels

\* No task is left queued or running by a goroutine that has returned, by
\* whichever of its exits.
NoZombie ==
    \A id \in Ids : status[id] \in ActiveStates => id \in Working

\* Every slot taken is owned by a start or a goroutine, none is lost or given
\* back twice, no more than Slots downloads are in progress, and the wait group
\* counts the goroutines that have not finished.
SlotAccounting ==
    /\ slotsUsed <= Slots
    /\ slotsUsed = Cardinality(holding) + Cardinality(returning) + Cardinality(SlotOwners)
    /\ wg = Cardinality(Unfinished)

\* When Shutdown has returned nil no goroutine, reservation, cancel function or
\* temporary file of a download is left.
DrainedMeansIdle ==
    phase = "done" =>
        /\ Unfinished = {}
        /\ reserved = {} /\ cancels = {}
        /\ \A id \in Ids : temp[id] # "open"

\* Nothing is published once the service's context is cancelled.
NothingPublishedAfterCancelAll ==
    [][(phase \in {"cancelled", "done"}) =>
          \A id \in Ids : temp'[id] = "renamed" => temp[id] = "renamed"]_vars

\* A completed task reports the size that was copied, and that is the declared
\* size, or the response's, when there was one.
PublishedWhole ==
    \A id \in Ids : status[id] = "completed" =>
        /\ bytes[id].total = bytes[id].copied
        /\ bytes[id].expected # Unknown => bytes[id].copied = bytes[id].expected

\* What ties a task to its goroutine at every instant; with it, the properties
\* above become inductive.
HasTemp == {"read", "publish", "cleanup"} \cup StopPoints \cup FileSteps

TasksMatchWorkers ==
    \A id \in Ids :
        /\ id > next => status[id] = "none"
        /\ id \in remembered => id <= next
        /\ pc[id] = "none" <=> status[id] \in {"none", "submitted"}
        /\ pc[id] = "begin" => status[id] \in {"queued", "cancelled"}
        /\ pc[id] \in Program \ {"begin"} => status[id] \in {"running", "cancelled"}
        /\ status[id] \in ActiveStates => pc[id] \in Program
        /\ temp[id] = "open" <=> pc[id] \in HasTemp
        /\ id \in cancels <=> id \in Reserving

\* What the goroutines' destinations hold until they publish.
NoDownloadAtDestination ==
    \A id \in Working : files[dest[id]] \notin Ids

\* Only reservations of running goroutines are in the map.
ReservedByWorkers == reserved \subseteq {dest[id] : id \in Reserving}

\* Every accepted download is settled.
EveryDownloadSettles ==
    \A id \in Ids : status[id] \in ActiveStates ~> status[id] \in TerminalStates

\* A shutdown that has begun completes.
ShutdownCompletes == phase = "closed" ~> phase = "done"

\* The contract the service keeps: a task is one atomic download.
Outcome == [id \in Ids |->
    IF status[id] \in ActiveStates THEN "active"
    ELSE IF status[id] = "completed" THEN "published" ELSE status[id]]

Contract == INSTANCE DownloadContract
                WITH outcome <- Outcome, shelf <- files, accepting <- Accepting

\* Every step of the service is a step of the contract or none at all: no
\* lateness of a goroutine, cancellation or shutdown shows in the outcomes.
ImplementsContract == Contract!Spec
=============================================================================
