------------------------ MODULE RemoteTransfer_proofs ------------------------
(***************************************************************************)
(* The properties of RemoteTransfer for every number of tasks, slots,      *)
(* names, paths and sizes.                                                 *)
(***************************************************************************)
EXTENDS RemoteTransfer, FiniteSetTheorems, TLAPS

-----------------------------------------------------------------------------
(* Lemmas about the operators. *)

\* Trimming the table invents nothing and spares the active tasks and the one
\* at hand.
LEMMA TrimSpares ==
    ASSUME NEW known, NEW st, NEW keep
    PROVE  /\ Trim(known, st, keep) \subseteq known
           /\ \A i \in known : i = keep \/ st[i] \in ActiveStates
                                  => i \in Trim(known, st, keep)
  BY DEF Trim

\* Settling changes an active task to the given status or nothing, and keeps
\* every task in the table that is active afterwards.
LEMMA SettleEffect ==
    ASSUME TypeOK, NEW id \in Ids, NEW final \in Statuses, Settle(id, final)
    PROVE  /\ status' \in [Ids -> Statuses]
           /\ remembered' \subseteq remembered
           /\ \A i \in Ids : i # id => status'[i] = status[i]
           /\ IsActive(id) => status'[id] = final
           /\ ~IsActive(id) => status'[id] = status[id]
           /\ \A i \in remembered : status'[i] \in ActiveStates => i \in remembered'
  <1>1. CASE IsActive(id)
    BY <1>1, TrimSpares DEF Settle, TypeOK
  <1>2. CASE ~IsActive(id)
    BY <1>2 DEF Settle, TypeOK
  <1> QED BY <1>1, <1>2

\* Where a goroutine goes next.
LEMMA NextPcType == \A label \in Pcs \ {"none", "ended"} : NextPc[label] \in Pcs \ {"none", "begin"}
  BY DEF NextPc, Pcs

LEMMA AdvanceTyped ==
    ASSUME TypeOK, NEW id \in Ids, pc[id] \notin {"none", "ended"}, Advance(id)
    PROVE  pc' \in [Ids -> Pcs]
  BY NextPcType DEF Advance, Goto, TypeOK

LEMMA ReturnTyped ==
    ASSUME TypeOK, NEW id \in Ids, Return(id)
    PROVE  pc' \in [Ids -> Pcs]
  BY DEF Return, Goto, TypeOK, Pcs, NextPc

-----------------------------------------------------------------------------
(* Type correctness. *)

LEMMA AbortTyped ==
    ASSUME TypeOK, NEW id \in Ids, NEW final \in {"failed", "cancelled"}, Abort(id, final)
    PROVE  TypeOK'
  <1>1. final \in Statuses
    BY DEF Statuses, TerminalStates
  <1>2. /\ status' \in [Ids -> Statuses]
        /\ remembered' \subseteq remembered
    BY <1>1, SettleEffect DEF Abort
  <1>3. pc' \in [Ids -> Pcs]
    BY DEF Abort, Return, Goto, TypeOK, Pcs, NextPc
  <1> QED BY <1>2, <1>3 DEF Abort, TypeOK, outsideWorker, slotVars

LEMMA TypePreserved == TypeOK /\ [Next]_vars => TypeOK'
  <1> SUFFICES ASSUME TypeOK, [Next]_vars PROVE TypeOK'
    OBVIOUS
  <1> USE ConstantsAssumption
  <1>1. ASSUME NEW c \in Starters, TakeSlot(c) PROVE TypeOK'
    BY <1>1 DEF TypeOK, TakeSlot, SlotFree, taskVars, workVars
  <1>2. ASSUME NEW c \in Starters, NEW name \in Names, Refuse(c, name) PROVE TypeOK'
    BY <1>2 DEF TypeOK, Refuse, taskVars, workVars
  <1>3. ASSUME NEW c \in Starters, NEW name \in Names, NEW size \in DeclaredSizes,
               Register(c, name, size)
        PROVE TypeOK'
    <2> DEFINE id == next + 1
    <2>1. id \in Ids /\ next' = id /\ id \in 0 .. MaxTasks
      BY <1>3 DEF Register, Record, Ids
    <2>2. status' \in [Ids -> Statuses]
      BY <1>3, <2>1 DEF Register, Record, TypeOK, Statuses, ActiveStates
    <2>3. remembered' \subseteq Ids
      BY <1>3, <2>1, TrimSpares DEF Register, Record, TypeOK
    <2>4. dest' \in [Ids -> Paths] /\ reserved' \subseteq Paths
      BY <1>3, <2>1 DEF Register, UniqueDestination, TypeOK
    <2>5. bytes' \in [Ids -> [expected : Sizes, copied : 0 .. MaxBytes, total : Sizes]]
      BY <1>3, <2>1 DEF Register, TypeOK, Sizes, Unknown
    <2>6. pc' \in [Ids -> Pcs] /\ cancels' \subseteq Ids
      BY <1>3, <2>1 DEF Register, TypeOK, Pcs, NextPc
    <2> QED BY <1>3, <2>1, <2>2, <2>3, <2>4, <2>5, <2>6 DEF Register, AddWorker, TypeOK
  <1>4. ASSUME NEW c \in Starters, GiveBack(c) PROVE TypeOK'
    BY <1>4 DEF TypeOK, GiveBack, ReturnSlot, taskVars, workVars
  <1>5. ASSUME RecordSubmitted PROVE TypeOK'
    <2>1. next + 1 \in Ids /\ next' = next + 1 /\ next' \in 0 .. MaxTasks
      BY <1>5 DEF RecordSubmitted, Record, Ids
    <2>2. status' \in [Ids -> Statuses]
      BY <1>5, <2>1 DEF RecordSubmitted, Record, TypeOK, Statuses, TerminalStates
    <2>3. remembered' \subseteq Ids
      BY <1>5, <2>1, TrimSpares DEF RecordSubmitted, Record, TypeOK
    <2> QED BY <1>5, <2>1, <2>2, <2>3 DEF RecordSubmitted, TypeOK, workVars, slotVars
  <1>6. ASSUME NEW id \in Ids, Cancel(id) PROVE TypeOK'
    <2>1. "cancelled" \in Statuses
      BY DEF Statuses, TerminalStates
    <2>2. status' \in [Ids -> Statuses] /\ remembered' \subseteq remembered
      BY <1>6, <2>1, SettleEffect DEF Cancel
    <2> QED BY <1>6, <2>2 DEF Cancel, TypeOK, slotVars
  <1>7. ASSUME NEW id \in Ids, FireCancel(id) PROVE TypeOK'
    BY <1>7 DEF FireCancel, TypeOK, taskVars, slotVars
  <1>8. ASSUME NEW id \in Ids, Work(id) PROVE TypeOK'
    <2> USE AdvanceTyped, ReturnTyped
    <2>1. CASE Begin(id)
      BY <2>1 DEF Begin, TypeOK, outsideWorker, slotVars, Statuses, ActiveStates
    <2>2. ASSUME NEW length \in ContentLengths, Respond(id, length) PROVE TypeOK'
      <3>1. CASE Abort(id, "failed")
        BY <3>1, AbortTyped
      <3>2. CASE ~Abort(id, "failed")
        <4> DEFINE expected == IF bytes[id].expected = Unknown THEN length
                               ELSE bytes[id].expected
        <4>1. expected \in Sizes /\ bytes[id].total \in Sizes
          BY DEF TypeOK
        <4> DEFINE total == IF expected # Unknown /\ id \in remembered
                            THEN expected ELSE bytes[id].total
                   entry == [expected |-> expected, copied |-> bytes[id].copied,
                             total |-> total]
        <4>5. bytes' = [bytes EXCEPT ![id] = entry]
          BY <2>2, <3>2 DEF Respond
        <4>6. entry \in [expected : Sizes, copied : 0 .. MaxBytes, total : Sizes]
          BY <4>1 DEF TypeOK
        <4> HIDE DEF entry
        <4>2. bytes' \in [Ids -> [expected : Sizes, copied : 0 .. MaxBytes, total : Sizes]]
          BY <4>5, <4>6 DEF TypeOK
        <4>3. remembered' \subseteq Ids
          BY <2>2, <3>2, TrimSpares DEF Respond, Touch, TypeOK
        <4>4. pc' \in [Ids -> Pcs]
          BY <2>2, <3>2 DEF Respond, TypeOK
        <4> QED BY <2>2, <3>2, <4>2, <4>3, <4>4 DEF Respond, TypeOK, outsideWorker, slotVars
      <3> QED BY <3>1, <3>2
    <2>3. CASE RequestFails(id)
      BY <2>3, AbortTyped DEF RequestFails, NetworkError
    <2>4. CASE CreateTemp(id)
      <3>1. CASE Abort(id, "failed")
        BY <3>1, AbortTyped
      <3>2. CASE ~Abort(id, "failed")
        BY <2>4, <3>2 DEF CreateTemp, TypeOK, Temps, outsideWorker, slotVars
      <3> QED BY <3>1, <3>2
    <2>5. CASE Copy(id)
      <3>1. bytes[id].copied + 1 \in 0 .. MaxBytes
        BY <2>5 DEF Copy, TypeOK
      <3>2. bytes' \in [Ids -> [expected : Sizes, copied : 0 .. MaxBytes, total : Sizes]]
        BY <2>5, <3>1 DEF Copy, TypeOK
      <3>3. remembered' \subseteq Ids
        BY <2>5, TrimSpares DEF Copy, Touch, TypeOK
      <3> QED BY <2>5, <3>2, <3>3 DEF Copy, TypeOK, outsideWorker, slotVars
    <2>6. CASE EndOfBody(id)
      BY <2>6 DEF EndOfBody, TypeOK, outsideWorker, slotVars
    <2>7. CASE CopyFails(id)
      BY <2>7, AbortTyped DEF CopyFails, NetworkError
    <2>8. CASE StopCheck(id)
      <3>1. CASE Abort(id, "cancelled")
        BY <3>1, AbortTyped
      <3>2. CASE ~Abort(id, "cancelled")
        BY <2>8, <3>2 DEF StopCheck, TypeOK, outsideWorker, slotVars, StopPoints
      <3> QED BY <3>1, <3>2
    <2>9. CASE FinishFile(id)
      <3>1. CASE Abort(id, "failed")
        BY <3>1, AbortTyped
      <3>2. CASE ~Abort(id, "failed")
        BY <2>9, <3>2 DEF FinishFile, TypeOK, outsideWorker, slotVars,
                          FileSteps
      <3> QED BY <3>1, <3>2
    <2>10. CASE Publish(id)
      <3>1. CASE Abort(id, "failed")
        BY <3>1, AbortTyped
      <3>2. CASE Publishable(id) /\ ~Abort(id, "failed")
        <4>1. status' \in [Ids -> Statuses] /\ remembered' \subseteq remembered
          BY <2>10, <3>2, SettleEffect DEF Publish, Statuses, TerminalStates
        <4>2. bytes[id].copied \in Sizes /\ bytes[id].total \in Sizes
          BY DEF TypeOK, Sizes
        <4>3. \/ bytes' = bytes
              \/ bytes' = [bytes EXCEPT ![id].total = bytes[id].copied]
          BY <2>10, <3>2, Zenon DEF Publish
        <4>4. [bytes EXCEPT ![id].total = bytes[id].copied] \in
                [Ids -> [expected : Sizes, copied : 0 .. MaxBytes, total : Sizes]]
          BY <4>2 DEF TypeOK
        <4>5. bytes' \in [Ids -> [expected : Sizes, copied : 0 .. MaxBytes, total : Sizes]]
          BY <4>3, <4>4 DEF TypeOK
        <4>6. pc' \in [Ids -> Pcs]
          BY <2>10, <3>2 DEF Publish
        <4>7. /\ temp' = [temp EXCEPT ![id] = "renamed"]
              /\ files' = [files EXCEPT ![dest[id]] = id]
              /\ UNCHANGED outsideWorker
          BY <2>10, <3>2, Zenon DEF Publish
        <4>8. temp' \in [Ids -> Temps] /\ files' \in [Paths -> Owners]
          BY <4>7 DEF TypeOK, Temps, Owners
        <4> QED BY <4>1, <4>5, <4>6, <4>7, <4>8 DEF TypeOK, outsideWorker, slotVars
      <3>3. CASE ~Publishable(id)
        BY <2>10, <3>3 DEF Publish, TypeOK, outsideWorker, slotVars, Statuses, TerminalStates
      <3> QED BY <3>1, <3>2, <3>3
    <2>11. CASE RemoveTemp(id)
      BY <2>11 DEF RemoveTemp, TypeOK, outsideWorker, slotVars, Temps
    <2>12. CASE Unreserve(id)
      BY <2>12 DEF Unreserve, TypeOK, taskVars, slotVars
    <2>13. CASE ReleaseSlot(id)
      <3>1. pc' \in [Ids -> Pcs]
        BY <2>13 DEF ReleaseSlot
      <3>2. slotsUsed' \in Nat
        BY <2>13 DEF ReleaseSlot, ReturnSlot, TypeOK
      <3> QED BY <2>13, <3>1, <3>2 DEF ReleaseSlot, TypeOK, taskVars
    <2>14. CASE WorkerDone(id)
      <3>1. pc' \in [Ids -> Pcs]
        BY <2>14 DEF WorkerDone
      <3>2. wg' \in Int
        BY <2>14 DEF WorkerDone, TypeOK
      <3> QED BY <2>14, <3>1, <3>2 DEF WorkerDone, TypeOK, taskVars
    <2> QED BY <1>8, <2>1, <2>2, <2>3, <2>4, <2>5, <2>6, <2>7, <2>8, <2>9, <2>10,
               <2>11, <2>12, <2>13, <2>14 DEF Work
  <1>9. ASSUME Close \/ CancelAll \/ Drained PROVE TypeOK'
    BY <1>9 DEF Close, CancelAll, Drained, TypeOK, taskVars, workVars, slotVars, Phases
  <1>10. ASSUME NEW p \in Paths, Elsewhere(p) PROVE TypeOK'
    BY <1>10 DEF Elsewhere, TypeOK, taskVars, workVars, slotVars, Owners
  <1>11. CASE UNCHANGED vars
    BY <1>11 DEF vars, taskVars, workVars, slotVars, TypeOK
  <1> QED BY <1>1, <1>2, <1>3, <1>4, <1>5, <1>6, <1>7, <1>8, <1>9, <1>10, <1>11
          DEF Next, Proceed

LEMMA TypeInitially == Init => TypeOK
  BY ConstantsAssumption DEF Init, TypeOK, Statuses, Sizes, Unknown, Pcs, Temps, Phases, Owners

\* The variables keep their types.
THEOREM TypeCorrect == Spec => []TypeOK
  BY TypeInitially, TypePreserved, PTL DEF Spec

-----------------------------------------------------------------------------
(* Tasks and goroutines: TaskInv says what a goroutine's place tells of its *)
(* task.  StepInside and Leaving sum up what the steps of a goroutine do,   *)
(* so that the invariants need not look at each of them again.              *)

TaskInv == TasksMatchWorkers /\ CancelOrPublish /\ ActiveIsVisible

\* Only the entries of one task change, and no active task is forgotten.
OnlyTask(id) ==
    /\ \A i \in Ids \ {id} : status'[i] = status[i] /\ pc'[i] = pc[i] /\ temp'[i] = temp[i]
    /\ remembered' \subseteq remembered
    /\ \A i \in remembered : status'[i] \in ActiveStates => i \in remembered'

\* A step from one place of runRemoteDownload to another one.
StepInside(id) ==
    /\ OnlyTask(id)
    /\ pc[id] \in Program /\ pc'[id] \in Program \ {"begin"}
    /\ \/ pc[id] = "begin" /\ status[id] = "queued" /\ status'[id] = "running"
       \/ pc[id] # "begin" /\ status'[id] = status[id]
    /\ \/ temp'[id] = temp[id] /\ (pc[id] \in HasTemp <=> pc'[id] \in HasTemp)
       \/ temp'[id] = "open" /\ pc'[id] \in HasTemp /\ pc[id] \notin HasTemp
    /\ UNCHANGED <<files, outsideWorker>>

\* A step out of it, without publishing.
Leaving(id) ==
    /\ OnlyTask(id)
    /\ pc[id] \in Program
    /\ pc'[id] = IF temp[id] = "open" THEN "cleanup" ELSE "unreserve"
    /\ status'[id] \in {"failed", "cancelled"}
    /\ status[id] \notin ActiveStates => status'[id] = status[id]
    /\ temp'[id] = temp[id]
    /\ UNCHANGED <<files, outsideWorker>>

LEMMA AbortLeaves ==
    ASSUME TypeOK, TaskInv, NEW id \in Ids, NEW final \in {"failed", "cancelled"},
           pc[id] \in Program, Abort(id, final)
    PROVE  Leaving(id)
  <1>1. final \in Statuses
    BY DEF Statuses, TerminalStates
  <1>2. ~IsActive(id) => status[id] = "cancelled"
    BY DEF TaskInv, TasksMatchWorkers, ActiveIsVisible, IsActive, ActiveStates
  <1>3. status'[id] \in {"failed", "cancelled"}
    BY <1>1, <1>2, SettleEffect DEF Abort
  <1>4. OnlyTask(id)
    BY <1>1, SettleEffect DEF Abort, Return, Goto, OnlyTask, TypeOK
  <1>5. status[id] \notin ActiveStates => status'[id] = status[id]
    BY <1>1, SettleEffect DEF Abort, IsActive
  <1> QED BY <1>3, <1>4, <1>5 DEF Abort, Return, Goto, Leaving, TypeOK

\* Return of a task that is not active.
LEMMA ReturnLeaves ==
    ASSUME TypeOK, TaskInv, NEW id \in Ids, pc[id] \in Program, Return(id),
           id \notin remembered \/ status[id] = "cancelled",
           UNCHANGED <<status, remembered, temp, files, outsideWorker>>
    PROVE  Leaving(id)
  <1>1. status[id] = "cancelled"
    BY DEF TaskInv, TasksMatchWorkers, ActiveIsVisible, ActiveStates
  <1> QED BY <1>1 DEF Return, Goto, Leaving, OnlyTask, TypeOK

LEMMA TouchKeepsActive ==
    ASSUME TypeOK, NEW id \in Ids, Touch(id), UNCHANGED status
    PROVE  /\ remembered' \subseteq remembered
           /\ \A i \in remembered : status'[i] \in ActiveStates => i \in remembered'
  BY TrimSpares DEF Touch

\* Every step of the goroutine is of one of these kinds.
LEMMA WorkKinds ==
    ASSUME TypeOK, TaskInv, NEW id \in Ids, Work(id)
    PROVE  \/ StepInside(id)
           \/ Leaving(id)
           \/ Publish(id) /\ Publishable(id) /\ Settle(id, "completed")
           \/ RemoveTemp(id) \/ Unreserve(id) \/ ReleaseSlot(id) \/ WorkerDone(id)
  <1>1. CASE Begin(id)
    <2>1. CASE id \in remembered /\ status[id] = "queued"
      BY <1>1, <2>1 DEF Begin, Advance, Goto, NextPc, StepInside, OnlyTask, Program,
                        HasTemp, StopPoints, FileSteps, TypeOK
    <2>2. CASE ~(id \in remembered /\ status[id] = "queued")
      <3>1. id \notin remembered \/ status[id] = "cancelled"
        BY <1>1, <2>2 DEF Begin, TaskInv, TasksMatchWorkers
      <3>2. pc[id] \in Program
        BY <1>1 DEF Begin, Program
      <3> QED BY <1>1, <2>2, <3>1, <3>2, ReturnLeaves DEF Begin
    <2> QED BY <2>1, <2>2
  <1>2. ASSUME NEW length \in ContentLengths, Respond(id, length)
        PROVE  StepInside(id) \/ Leaving(id)
    <2>1. CASE Abort(id, "failed")
      BY <1>2, <2>1, AbortLeaves DEF Respond, Program
    <2>2. CASE ~Abort(id, "failed")
      <3>1. /\ pc[id] = "request" /\ Advance(id)
            /\ UNCHANGED <<status, temp, files, outsideWorker>>
        BY <1>2, <2>2, Zenon DEF Respond
      <3>2. Touch(id) \/ UNCHANGED remembered
        BY <1>2, <2>2, Zenon DEF Respond
      <3>3. /\ remembered' \subseteq remembered
            /\ \A i \in remembered : status'[i] \in ActiveStates => i \in remembered'
        BY <3>1, <3>2, TouchKeepsActive
      <3> QED BY <3>1, <3>3 DEF Advance, Goto, NextPc, StepInside, OnlyTask, Program,
                                HasTemp, StopPoints, FileSteps, TypeOK
    <2> QED BY <2>1, <2>2
  <1>3. CASE RequestFails(id)
    BY <1>3, AbortLeaves DEF RequestFails, NetworkError, Program
  <1>4. CASE CreateTemp(id)
    <2>1. CASE Abort(id, "failed")
      BY <1>4, <2>1, AbortLeaves DEF CreateTemp, Program
    <2>2. CASE ~Abort(id, "failed")
      BY <1>4, <2>2 DEF CreateTemp, Advance, Goto, NextPc, StepInside, OnlyTask, Program,
                        HasTemp, StopPoints, FileSteps, TypeOK
    <2> QED BY <2>1, <2>2
  <1>5. CASE Copy(id)
    <2>1. /\ pc[id] = "read" /\ Touch(id)
          /\ UNCHANGED <<status, pc, temp, files, outsideWorker>>
      BY <1>5, Zenon DEF Copy
    <2> QED BY <2>1, TouchKeepsActive DEF StepInside, OnlyTask, Program
  <1>6. CASE EndOfBody(id)
    BY <1>6 DEF EndOfBody, Advance, Goto, NextPc, StepInside, OnlyTask, Program,
                HasTemp, StopPoints, FileSteps, TypeOK
  <1>7. CASE CopyFails(id)
    BY <1>7, AbortLeaves DEF CopyFails, NetworkError, Program
  <1>8. CASE StopCheck(id)
    <2>1. pc[id] \in Program
      BY <1>8 DEF StopCheck, Program
    <2>2. CASE CtxDone(id)
      BY <1>8, <2>1, <2>2, AbortLeaves DEF StopCheck
    <2>3. CASE ~CtxDone(id) /\ (id \notin remembered \/ status[id] = "cancelled")
      BY <1>8, <2>1, <2>3, ReturnLeaves DEF StopCheck
    <2>4. CASE ~CtxDone(id) /\ ~(id \notin remembered \/ status[id] = "cancelled")
      BY <1>8, <2>4 DEF StopCheck, Advance, Goto, NextPc, StepInside, OnlyTask, Program,
                        HasTemp, StopPoints, FileSteps, TypeOK
    <2> QED BY <2>2, <2>3, <2>4
  <1>9. CASE FinishFile(id)
    <2>1. CASE Abort(id, "failed")
      BY <1>9, <2>1, AbortLeaves DEF FinishFile, Program
    <2>2. CASE ~Abort(id, "failed")
      BY <1>9, <2>2 DEF FinishFile, Advance, Goto, NextPc, StepInside, OnlyTask, Program,
                        HasTemp, StopPoints, FileSteps, TypeOK
    <2> QED BY <2>1, <2>2
  <1>10. CASE Publish(id)
    <2>1. pc[id] \in Program
      BY <1>10 DEF Publish, Program
    <2>2. CASE Abort(id, "failed")
      BY <2>1, <2>2, AbortLeaves
    <2>3. CASE Publishable(id) /\ ~Abort(id, "failed")
      BY <1>10, <2>3, Zenon DEF Publish
    <2>4. CASE ~Publishable(id)
      <3>1. IsActive(id) => CtxDone(id)
        BY <1>10, <2>4 DEF Publish, Publishable, IsActive, TaskInv, TasksMatchWorkers, ActiveStates,
                           Program
      <3>2. ~IsActive(id) => status[id] = "cancelled"
        BY <2>1 DEF TaskInv, TasksMatchWorkers, ActiveIsVisible, IsActive, ActiveStates
      <3>3. /\ status' = [status EXCEPT ![id] = "cancelled"]
            /\ Return(id)
            /\ UNCHANGED <<remembered, temp, files, outsideWorker>>
        BY <1>10, <2>4, <3>1, <3>2 DEF Publish, TypeOK
      <3>4. status[id] \notin ActiveStates => status[id] = "cancelled"
        BY <2>1 DEF TaskInv, TasksMatchWorkers, ActiveStates
      <3> QED BY <2>1, <3>3, <3>4 DEF Return, Goto, Leaving, OnlyTask, TypeOK, ActiveStates
    <2> QED BY <2>2, <2>3, <2>4
  <1> QED BY <1>1, <1>2, <1>3, <1>4, <1>5, <1>6, <1>7, <1>8, <1>9, <1>10 DEF Work

\* A new entry in the table.
LEMMA RecordEffect ==
    ASSUME TypeOK, TaskInv, NEW st \in {"queued", "submitted"},
           next + 1 \in Ids, Record(next + 1, st)
    PROVE  /\ next' = next + 1
           /\ status' = [status EXCEPT ![next + 1] = st]
           /\ status[next + 1] = "none" /\ pc[next + 1] = "none"
           /\ next + 1 \in remembered'
           /\ remembered' \subseteq remembered \cup {next + 1}
           /\ \A i \in remembered : status'[i] \in ActiveStates => i \in remembered'
  <1>1. status[next + 1] = "none" /\ pc[next + 1] = "none"
    BY DEF TaskInv, TasksMatchWorkers, TypeOK, Ids
  <1> DEFINE known == remembered \cup {next + 1}
  <1>2. remembered' = Trim(known, status', next + 1)
    BY DEF Record
  <1>3. /\ remembered' \subseteq known
        /\ \A i \in known : i = next + 1 \/ status'[i] \in ActiveStates => i \in remembered'
    BY <1>2, TrimSpares
  <1> QED BY <1>1, <1>3 DEF Record

LEMMA TaskInvPreserved == TypeOK /\ TypeOK' /\ TaskInv /\ [Next]_vars => TaskInv'
  <1> SUFFICES ASSUME TypeOK, TypeOK', TaskInv, [Next]_vars PROVE TaskInv'
    OBVIOUS
  <1> USE DEF TaskInv, TasksMatchWorkers, CancelOrPublish, ActiveIsVisible, ActiveStates,
              Reserving
  <1>1. ASSUME NEW c \in Starters,
               TakeSlot(c) \/ (\E name \in Names : Refuse(c, name)) \/ GiveBack(c)
        PROVE  TaskInv'
    BY <1>1 DEF TakeSlot, Refuse, GiveBack, taskVars, workVars
  <1>2. ASSUME NEW c \in Starters, NEW name \in Names, NEW size \in DeclaredSizes,
               Register(c, name, size)
        PROVE  TaskInv'
    <2>1. next + 1 \in Ids /\ Record(next + 1, "queued")
      BY <1>2 DEF Register
    <2>2. /\ pc' = [pc EXCEPT ![next + 1] = "begin"]
          /\ cancels' = cancels \cup {next + 1}
          /\ temp' = temp
      BY <1>2 DEF Register
    <2>3. temp[next + 1] \notin {"open", "renamed"}
      BY <2>1, RecordEffect DEF HasTemp, StopPoints, FileSteps
    <2>4. /\ next' = next + 1
          /\ status' = [status EXCEPT ![next + 1] = "queued"]
          /\ status[next + 1] = "none" /\ pc[next + 1] = "none"
          /\ next + 1 \in remembered'
          /\ remembered' \subseteq remembered \cup {next + 1}
          /\ \A i \in remembered : status'[i] \in ActiveStates => i \in remembered'
      BY <2>1, RecordEffect
    <2>5. \A i \in Ids : (i > next' => status'[i] = "none") /\ (i \in remembered' => i <= next')
      BY <2>1, <2>4 DEF TypeOK, Ids
    <2>6. TasksMatchWorkers'
      BY <2>1, <2>2, <2>3, <2>4, <2>5 DEF TypeOK, Program, HasTemp, StopPoints, FileSteps
    <2>7. CancelOrPublish' /\ ActiveIsVisible'
      BY <2>1, <2>2, <2>3, <2>4 DEF TypeOK
    <2> QED BY <2>6, <2>7
  <1>3. CASE RecordSubmitted
    <2>1. next + 1 \in Ids /\ Record(next + 1, "submitted")
      BY <1>3 DEF RecordSubmitted
    <2>2. UNCHANGED <<pc, temp, cancels>>
      BY <1>3 DEF RecordSubmitted, workVars
    <2>3. temp[next + 1] \notin {"open", "renamed"}
      BY <2>1, RecordEffect DEF HasTemp, StopPoints, FileSteps
    <2>4. /\ next' = next + 1
          /\ status' = [status EXCEPT ![next + 1] = "submitted"]
          /\ status[next + 1] = "none" /\ pc[next + 1] = "none"
          /\ remembered' \subseteq remembered \cup {next + 1}
          /\ \A i \in remembered : status'[i] \in ActiveStates => i \in remembered'
      BY <2>1, RecordEffect
    <2>5. \A i \in Ids : (i > next' => status'[i] = "none") /\ (i \in remembered' => i <= next')
      BY <2>1, <2>4 DEF TypeOK, Ids
    <2>6. TasksMatchWorkers'
      BY <2>1, <2>2, <2>3, <2>4, <2>5 DEF TypeOK, Program, HasTemp, StopPoints, FileSteps
    <2>7. CancelOrPublish' /\ ActiveIsVisible'
      BY <2>1, <2>2, <2>3, <2>4 DEF TypeOK
    <2> QED BY <2>6, <2>7
  <1>4. ASSUME NEW id \in Ids, Cancel(id) PROVE TaskInv'
    <2>1. "cancelled" \in Statuses
      BY DEF Statuses, TerminalStates
    <2>2. /\ status' \in [Ids -> Statuses] /\ status'[id] = "cancelled"
          /\ \A i \in Ids : i # id => status'[i] = status[i]
          /\ remembered' \subseteq remembered
          /\ \A i \in remembered : status'[i] \in ActiveStates => i \in remembered'
          /\ UNCHANGED <<next, pc, temp, cancels>>
      BY <1>4, <2>1, SettleEffect DEF Cancel
    <2>3. status[id] \in {"queued", "running"} /\ temp[id] # "renamed"
      BY <1>4 DEF Cancel, IsActive
    <2> QED BY <2>2, <2>3 DEF Program, StopPoints, FileSteps
  <1>5. ASSUME NEW id \in Ids, FireCancel(id) PROVE TaskInv'
    BY <1>5 DEF FireCancel, taskVars
  <1>6. ASSUME NEW id \in Ids, Work(id) PROVE TaskInv'
    <2>1. CASE StepInside(id)
      BY <2>1 DEF StepInside, OnlyTask, outsideWorker, TypeOK, Program, HasTemp,
                  StopPoints, FileSteps
    <2>2. ASSUME Leaving(id) PROVE TaskInv'
      <3>1. /\ UNCHANGED <<next, cancels>>
            /\ remembered' \subseteq remembered
            /\ \A i \in remembered : status'[i] \in ActiveStates => i \in remembered'
        BY <2>2 DEF Leaving, OnlyTask, outsideWorker
      <3>2. \A i \in Ids \ {id} :
               status'[i] = status[i] /\ pc'[i] = pc[i] /\ temp'[i] = temp[i]
        BY <2>2 DEF Leaving, OnlyTask
      <3>3. /\ pc'[id] \in {"cleanup", "unreserve"}
            /\ pc'[id] = "cleanup" <=> temp[id] = "open"
            /\ status'[id] \in {"failed", "cancelled"}
            /\ temp'[id] = temp[id]
        BY <2>2 DEF Leaving
      <3>4. /\ pc[id] \in Program
            /\ status[id] \in {"queued", "running", "cancelled"}
        BY <2>2 DEF Leaving, Program
      <3>5. temp[id] # "renamed" /\ id \in cancels /\ id <= next
        BY <3>4 DEF Program, StopPoints, FileSteps, TypeOK, Ids
      <3>6. \A i \in Ids \ {id} : i \in Reserving' <=> i \in Reserving
        BY <3>2
      <3>7. id \in Reserving'
        BY <3>3
      <3>8. TasksMatchWorkers'
        <4> TAKE i \in Ids
        <4>1. CASE i = id
          BY <4>1, <3>1, <3>3, <3>5, <3>7 DEF Program, HasTemp, StopPoints, FileSteps,
                                              TypeOK, Ids
        <4>2. CASE i # id
          BY <4>2, <3>1, <3>2, <3>6
        <4> QED BY <4>1, <4>2
      <3>9. CancelOrPublish' /\ ActiveIsVisible'
        BY <3>1, <3>2, <3>3, <3>5
      <3> QED BY <3>8, <3>9
    <2>3. CASE Publish(id) /\ Publishable(id) /\ Settle(id, "completed")
      <3>1. IsActive(id) /\ "completed" \in Statuses
        BY <2>3 DEF Publishable, IsActive, Statuses, TerminalStates
      <3>2. /\ status' \in [Ids -> Statuses]
            /\ \A i \in Ids : i # id => status'[i] = status[i]
            /\ remembered' \subseteq remembered
            /\ \A i \in remembered : status'[i] \in ActiveStates => i \in remembered'
        BY <2>3, <3>1, SettleEffect
      <3>3. CASE /\ pc[id] = "publish"
                 /\ temp' = [temp EXCEPT ![id] = "renamed"]
                 /\ status'[id] = "completed"
                 /\ Advance(id)
                 /\ UNCHANGED outsideWorker
        BY <3>2, <3>3 DEF Advance, Goto, NextPc, outsideWorker, TypeOK, Program,
                          HasTemp, StopPoints, FileSteps
      <3>4. CASE Abort(id, "failed")
        <4>1. Leaving(id)
          BY <2>3, <3>4, AbortLeaves DEF Publish, Program
        <4> QED BY <4>1, <2>2
      <3>5. status'[id] = "completed"
        BY <2>3, <3>1, SettleEffect
      <3> QED BY <2>3, <3>3, <3>4, <3>5, Zenon DEF Publish
    <2>4. CASE RemoveTemp(id)
      BY <2>4 DEF RemoveTemp, Advance, Goto, NextPc, outsideWorker, TypeOK, Program,
                  HasTemp, StopPoints, FileSteps
    <2>5. CASE Unreserve(id)
      BY <2>5 DEF Unreserve, Advance, Goto, NextPc, taskVars, TypeOK, Program,
                  HasTemp, StopPoints, FileSteps
    <2>6. CASE ReleaseSlot(id)
      BY <2>6 DEF ReleaseSlot, Advance, Goto, NextPc, taskVars, TypeOK, Program,
                  HasTemp, StopPoints, FileSteps
    <2>7. CASE WorkerDone(id)
      BY <2>7 DEF WorkerDone, Advance, Goto, NextPc, taskVars, TypeOK, Program,
                  HasTemp, StopPoints, FileSteps
    <2> QED
      <3>1. \/ StepInside(id)
            \/ Leaving(id)
            \/ Publish(id) /\ Publishable(id) /\ Settle(id, "completed")
            \/ RemoveTemp(id) \/ Unreserve(id) \/ ReleaseSlot(id) \/ WorkerDone(id)
        BY <1>6, WorkKinds
      <3> QED BY <3>1, <2>1, <2>2, <2>3, <2>4, <2>5, <2>6, <2>7
  <1>7. CASE Close \/ CancelAll \/ Drained
    BY <1>7 DEF Close, CancelAll, Drained, taskVars, workVars
  <1>8. ASSUME NEW p \in Paths, Elsewhere(p) PROVE TaskInv'
    BY <1>8 DEF Elsewhere, taskVars, workVars
  <1>9. CASE UNCHANGED vars
    BY <1>9 DEF vars, taskVars, workVars
  <1> QED
    <2> HIDE DEF TaskInv, TasksMatchWorkers, CancelOrPublish, ActiveIsVisible,
                 ActiveStates, Reserving
    <2> QED BY <1>1, <1>2, <1>3, <1>4, <1>5, <1>6, <1>7, <1>8, <1>9 DEF Next, Proceed

TaskInvariant == TypeOK /\ TaskInv

LEMMA TaskInvariantHolds == Spec => []TaskInvariant
  <1>1. Init => TypeOK /\ TaskInv
    <2> SUFFICES ASSUME Init PROVE TypeOK /\ TaskInv
      OBVIOUS
    <2>1. TypeOK
      BY TypeInitially
    <2>2. TaskInv
      BY DEF Init, TaskInv, TasksMatchWorkers, CancelOrPublish, ActiveIsVisible, ActiveStates,
             Reserving, Program, HasTemp, StopPoints, FileSteps
    <2> QED BY <2>1, <2>2
  <1>2. TypeOK /\ TaskInv /\ [Next]_vars => (TypeOK /\ TaskInv)'
    BY TypePreserved, TaskInvPreserved
  <1> QED BY <1>1, <1>2, PTL DEF Spec, TaskInvariant

\* Exactly one of cancellation and publication wins.
THEOREM CommitExclusive == Spec => []CancelOrPublish
  BY TaskInvariantHolds, PTL DEF TaskInvariant, TaskInv

\* Retention never forgets an active task.
THEOREM ActiveTasksKept == Spec => []ActiveIsVisible
  BY TaskInvariantHolds, PTL DEF TaskInvariant, TaskInv

\* No goroutine returns from an active task.
THEOREM NoTaskAbandoned == Spec => []NoZombie
  <1>1. TaskInvariant => NoZombie
    BY DEF TaskInvariant, TaskInv, TasksMatchWorkers, NoZombie, Working
  <1> QED BY <1>1, TaskInvariantHolds, PTL

\* A step changes the status of active tasks only, and of one that is new.
LEMMA SettledStays ==
    TypeOK /\ TaskInv /\ [Next]_vars =>
        \A id \in Ids : status[id] \in TerminalStates => status'[id] = status[id]
  <1> SUFFICES ASSUME TypeOK, TaskInv, [Next]_vars, NEW id \in Ids, status[id] \in TerminalStates
               PROVE  status'[id] = status[id]
    OBVIOUS
  <1>1. status[id] \notin ActiveStates \cup {"none"}
    BY DEF TerminalStates, ActiveStates
  <1>2. ASSUME NEW st \in {"queued", "submitted"}, next + 1 \in Ids, Record(next + 1, st)
        PROVE  status'[id] = status[id]
    BY <1>1, <1>2, RecordEffect DEF TypeOK
  <1>3. ASSUME NEW other \in Ids, Cancel(other) PROVE status'[id] = status[id]
    BY <1>1, <1>3, SettleEffect DEF Cancel, IsActive, Statuses, TerminalStates
  <1>4. ASSUME NEW other \in Ids, Work(other) PROVE status'[id] = status[id]
    <2>1. CASE StepInside(other)
      BY <1>1, <2>1 DEF StepInside, OnlyTask, ActiveStates
    <2>2. CASE Leaving(other)
      BY <1>1, <2>2 DEF Leaving, OnlyTask
    <2>3. CASE Settle(other, "completed")
      BY <1>1, <2>3, SettleEffect DEF IsActive, Statuses, TerminalStates
    <2>4. CASE RemoveTemp(other) \/ Unreserve(other) \/ ReleaseSlot(other) \/ WorkerDone(other)
      BY <2>4 DEF RemoveTemp, Unreserve, ReleaseSlot, WorkerDone, taskVars
    <2> QED BY <1>4, <2>1, <2>2, <2>3, <2>4, WorkKinds
  <1>5. CASE UNCHANGED status
    BY <1>5
  <1> QED
    <2>1. ASSUME NEW c \in Starters, TakeSlot(c) \/ Proceed(c) \/ GiveBack(c)
          PROVE  status'[id] = status[id]
      BY <2>1, <1>2, <1>5 DEF Proceed, TakeSlot, Refuse, Register, GiveBack, taskVars
    <2>2. CASE RecordSubmitted
      BY <2>2, <1>2 DEF RecordSubmitted
    <2>3. ASSUME NEW other \in Ids, FireCancel(other) PROVE status'[id] = status[id]
      BY <2>3 DEF FireCancel, taskVars
    <2>4. CASE Close \/ CancelAll \/ Drained \/ \E p \in Paths : Elsewhere(p)
      BY <2>4 DEF Close, CancelAll, Drained, Elsewhere, taskVars
    <2>5. CASE UNCHANGED vars
      BY <2>5 DEF vars, taskVars
    <2> QED BY <1>3, <1>4, <2>1, <2>2, <2>3, <2>4, <2>5 DEF Next

\* A settled task never gets another status.
THEOREM TerminalIsFinal == Spec => SettledForGood
  <1>1. TaskInvariant /\ [Next]_vars =>
            [\A id \in Ids : status[id] \in TerminalStates => status'[id] = status[id]]_vars
    BY SettledStays DEF TaskInvariant
  <1> QED BY <1>1, TaskInvariantHolds, PTL DEF Spec, SettledForGood

-----------------------------------------------------------------------------
(* Publishing. *)

\* A file is published by the commit point only.
LEMMA PublishKind ==
    ASSUME TypeOK, TaskInv, [Next]_vars, NEW id \in Ids,
           temp[id] # "renamed", temp'[id] = "renamed"
    PROVE  Publish(id) /\ Publishable(id)
  <1>1. ASSUME NEW other \in Ids, Work(other) PROVE Publish(id) /\ Publishable(id)
    <2>1. CASE StepInside(other)
      BY <2>1 DEF StepInside, OnlyTask
    <2>2. CASE Leaving(other)
      BY <2>2 DEF Leaving, OnlyTask
    <2>3. CASE Publish(other) /\ Publishable(other)
      <3>1. temp' = temp \/ temp' = [temp EXCEPT ![other] = "renamed"]
        BY <2>3 DEF Publish, Abort
      <3> QED BY <2>3, <3>1 DEF TypeOK
    <2>4. CASE RemoveTemp(other)
      BY <2>4 DEF RemoveTemp, TypeOK
    <2>5. CASE Unreserve(other) \/ ReleaseSlot(other) \/ WorkerDone(other)
      BY <2>5 DEF Unreserve, ReleaseSlot, WorkerDone
    <2> QED BY <1>1, <2>1, <2>2, <2>3, <2>4, <2>5, WorkKinds
  <1>2. ASSUME UNCHANGED temp PROVE FALSE
    BY <1>2
  <1>3. ASSUME NEW c \in Starters, TakeSlot(c) \/ Proceed(c) \/ GiveBack(c) PROVE UNCHANGED temp
    BY <1>3 DEF Proceed, TakeSlot, Refuse, Register, GiveBack, workVars
  <1>4. ASSUME RecordSubmitted \/ Close \/ CancelAll \/ Drained \/ \E p \in Paths : Elsewhere(p)
        PROVE  UNCHANGED temp
    BY <1>4 DEF RecordSubmitted, Close, CancelAll, Drained, Elsewhere, workVars
  <1>5. ASSUME NEW other \in Ids, Cancel(other) \/ FireCancel(other) PROVE UNCHANGED temp
    BY <1>5 DEF Cancel, FireCancel
  <1>6. CASE UNCHANGED vars
    BY <1>2, <1>6 DEF vars, workVars
  <1> QED BY <1>1, <1>2, <1>3, <1>4, <1>5, <1>6 DEF Next

\* Nothing is published once the service's context is cancelled.
THEOREM NothingLate == Spec => NothingPublishedAfterCancelAll
  <1>1. TaskInvariant /\ [Next]_vars =>
            [(phase \in {"cancelled", "done"}) =>
                \A id \in Ids : temp'[id] = "renamed" => temp[id] = "renamed"]_vars
    BY PublishKind DEF TaskInvariant, Publishable, CtxDone
  <1> QED BY <1>1, TaskInvariantHolds, PTL DEF Spec, NothingPublishedAfterCancelAll

\* The destinations of the goroutines.
DestInv == DestinationsDistinct /\ NoDownloadAtDestination /\ ReservedByWorkers

LEMMA DestInitially == Init => DestInv
  BY DEF Init, DestInv, DestinationsDistinct, NoDownloadAtDestination, ReservedByWorkers,
         Reserving, Working, Program, StopPoints, FileSteps

\* A step of a goroutine that keeps the destinations, the reservations and the
\* files, and does not start it again.
LEMMA DestKept ==
    ASSUME TypeOK, DestInv, NEW id \in Ids, UNCHANGED <<dest, reserved>>,
           \A i \in Ids \ {id} : pc'[i] = pc[i],
           id \in Reserving' <=> id \in Reserving,
           id \in Working' => id \in Working,
           \A i \in Working' : files'[dest[i]] = files[dest[i]]
    PROVE  DestInv'
  <1>1. Reserving' = Reserving /\ Working' \subseteq Working
    BY DEF Reserving, Working
  <1> QED BY <1>1 DEF DestInv, DestinationsDistinct, NoDownloadAtDestination, ReservedByWorkers

LEMMA DestPreserved == TypeOK /\ TaskInv /\ DestInv /\ [Next]_vars => DestInv'
  <1> SUFFICES ASSUME TypeOK, TaskInv, DestInv, [Next]_vars PROVE DestInv'
    OBVIOUS
  <1>0. ASSUME UNCHANGED <<pc, dest, reserved, files>> PROVE DestInv'
    BY <1>0 DEF DestInv, DestinationsDistinct, NoDownloadAtDestination, ReservedByWorkers,
                Reserving, Working
  <1>1. ASSUME NEW c \in Starters,
               TakeSlot(c) \/ (\E name \in Names : Refuse(c, name)) \/ GiveBack(c)
        PROVE  DestInv'
    BY <1>0, <1>1 DEF TakeSlot, Refuse, GiveBack, taskVars, workVars
  <1>2. ASSUME NEW c \in Starters, NEW name \in Names, NEW size \in DeclaredSizes,
               Register(c, name, size)
        PROVE  DestInv'
    <2> DEFINE id == next + 1
    <2>1. id \in Ids /\ Record(id, "queued")
      BY <1>2 DEF Register
    <2>2. pc[id] = "none"
      BY <2>1, RecordEffect
    <2>3. PICK p \in UniqueDestination(name) :
              dest' = [dest EXCEPT ![id] = p] /\ reserved' = reserved \cup {p}
      BY <1>2 DEF Register
    <2>4. p \in Paths /\ p \notin reserved /\ files[p] = NoFile
      BY <2>3 DEF UniqueDestination, Free
    <2>5. /\ pc' = [pc EXCEPT ![id] = "begin"] /\ files' = files
      BY <1>2 DEF Register
    <2>6. Reserving' = Reserving \cup {id} /\ Working' = Working \cup {id}
      BY <2>1, <2>5 DEF Reserving, Working, Program, TypeOK
    <2>7. id \notin Reserving /\ id \notin Working
      BY <2>2 DEF Reserving, Working, Program, StopPoints, FileSteps
    <2>8. dest'[id] = p /\ \A i \in Ids \ {id} : dest'[i] = dest[i]
      BY <2>1, <2>3 DEF TypeOK
    <2>9. Reserving \subseteq Ids /\ Working \subseteq Ids
      BY DEF Reserving, Working
    <2> HIDE DEF id
    <2>10. DestinationsDistinct'
      BY <2>3, <2>4, <2>6, <2>7, <2>8, <2>9 DEF DestInv, DestinationsDistinct
    <2>11. NoDownloadAtDestination'
      <3>1. files[p] \notin Ids
        BY <2>4 DEF Ids, NoFile
      <3>2. \A i \in Working : files[dest[i]] \notin Ids
        BY DEF DestInv, NoDownloadAtDestination
      <3>3. \A i \in Working' : dest'[i] = p \/ (i \in Working /\ dest'[i] = dest[i])
        BY <2>6, <2>7, <2>8, <2>9
      <3> QED BY <2>5, <3>1, <3>2, <3>3 DEF NoDownloadAtDestination
    <2>12. ReservedByWorkers'
      BY <2>3, <2>6, <2>7, <2>8, <2>9 DEF DestInv, ReservedByWorkers
    <2> QED BY <2>10, <2>11, <2>12 DEF DestInv
  <1>3. CASE RecordSubmitted
    BY <1>0, <1>3 DEF RecordSubmitted, workVars
  <1>4. ASSUME NEW id \in Ids, Cancel(id) \/ FireCancel(id) PROVE DestInv'
    BY <1>0, <1>4 DEF Cancel, FireCancel, taskVars
  <1>5. ASSUME NEW id \in Ids, Work(id) PROVE DestInv'
    <2> USE DEF Reserving, Working
    <2>1. CASE StepInside(id)
      <3>1. /\ UNCHANGED <<dest, reserved, files>> /\ \A i \in Ids \ {id} : pc'[i] = pc[i]
            /\ pc[id] \in Program /\ pc'[id] \in Program
        BY <2>1 DEF StepInside, OnlyTask, outsideWorker
      <3> QED BY <3>1, DestKept
    <2>2. ASSUME Leaving(id) PROVE DestInv'
      <3>1. /\ UNCHANGED <<dest, reserved, files>> /\ \A i \in Ids \ {id} : pc'[i] = pc[i]
            /\ pc[id] \in Program /\ pc'[id] \in {"cleanup", "unreserve"}
        BY <2>2 DEF Leaving, OnlyTask, outsideWorker
      <3>2. pc'[id] \notin Program
        BY <3>1 DEF Program, StopPoints, FileSteps
      <3> QED BY <3>1, <3>2, DestKept
    <2>3. CASE Publish(id) /\ Publishable(id)
      <3>1. CASE Abort(id, "failed")
        <4>1. Leaving(id)
          BY <2>3, <3>1, AbortLeaves DEF Publish, Program
        <4> QED BY <4>1, <2>2
      <3>2. CASE ~Abort(id, "failed")
        <4>1. /\ UNCHANGED <<dest, reserved>> /\ files' = [files EXCEPT ![dest[id]] = id]
              /\ pc[id] = "publish" /\ pc' = [pc EXCEPT ![id] = "unreserve"]
          BY <2>3, <3>2 DEF Publish, outsideWorker, Advance, Goto, NextPc
        <4>2. /\ \A i \in Ids \ {id} : pc'[i] = pc[i]
              /\ id \in Reserving /\ id \in Reserving' /\ id \notin Working'
          BY <4>1 DEF TypeOK, Program, StopPoints, FileSteps
        <4>3. \A i \in Working' : i \in Reserving /\ i # id
          BY <4>2
        <4>4. \A i \in Working' : dest[i] # dest[id]
          BY <4>2, <4>3 DEF DestInv, DestinationsDistinct
        <4>5. \A i \in Working' : files'[dest[i]] = files[dest[i]]
          BY <4>1, <4>4 DEF TypeOK
        <4> QED BY <4>1, <4>2, <4>5, DestKept
      <3> QED BY <3>1, <3>2
    <2>4. CASE RemoveTemp(id)
      <3>1. /\ UNCHANGED <<dest, reserved, files>>
            /\ pc[id] = "cleanup" /\ pc' = [pc EXCEPT ![id] = "unreserve"]
        BY <2>4 DEF RemoveTemp, outsideWorker, Advance, Goto, NextPc
      <3> QED BY <3>1, DestKept DEF TypeOK, Program, StopPoints, FileSteps
    <2>5. CASE Unreserve(id)
      <3>1. /\ UNCHANGED <<dest, files>> /\ reserved' = reserved \ {dest[id]}
            /\ pc[id] = "unreserve" /\ pc' = [pc EXCEPT ![id] = "slot"]
        BY <2>5 DEF Unreserve, taskVars, Advance, Goto, NextPc
      <3>2. /\ id \in Reserving /\ Reserving' = Reserving \ {id} /\ Working' = Working
        BY <3>1 DEF TypeOK, Program, StopPoints, FileSteps
      <3> HIDE DEF Reserving, Working
      <3> QED BY <3>1, <3>2
              DEF DestInv, DestinationsDistinct, NoDownloadAtDestination, ReservedByWorkers
    <2>6. CASE ReleaseSlot(id) \/ WorkerDone(id)
      <3>1. /\ UNCHANGED <<dest, reserved, files>>
            /\ \/ pc[id] = "slot" /\ pc' = [pc EXCEPT ![id] = "wg"]
               \/ pc[id] = "wg" /\ pc' = [pc EXCEPT ![id] = "ended"]
        BY <2>6 DEF ReleaseSlot, WorkerDone, taskVars, Advance, Goto, NextPc
      <3> QED BY <3>1, DestKept DEF TypeOK, Program, StopPoints, FileSteps
    <2> QED BY <1>5, <2>1, <2>2, <2>3, <2>4, <2>5, <2>6, WorkKinds
  <1>6. CASE Close \/ CancelAll \/ Drained
    BY <1>0, <1>6 DEF Close, CancelAll, Drained, taskVars, workVars
  <1>7. ASSUME NEW p \in Paths, Elsewhere(p) PROVE DestInv'
    <2>1. /\ UNCHANGED <<pc, dest, reserved>>
          /\ \A q \in Paths : files'[q] \in {files[q], NoFile, Foreign}
      BY <1>7 DEF Elsewhere, taskVars, workVars, TypeOK
    <2>2. Reserving' = Reserving /\ Working' = Working
      BY <2>1 DEF Reserving, Working
    <2>3. \A id \in Working : dest[id] \in Paths
      BY DEF Working, TypeOK
    <2> QED BY <2>1, <2>2, <2>3
            DEF DestInv, DestinationsDistinct, NoDownloadAtDestination, ReservedByWorkers, Ids,
                NoFile, Foreign
  <1>8. CASE UNCHANGED vars
    BY <1>0, <1>8 DEF vars, taskVars, workVars
  <1> QED BY <1>1, <1>2, <1>3, <1>4, <1>5, <1>6, <1>7, <1>8 DEF Next, Proceed

\* A file that changes is published by a goroutine or touched from outside.
LEMMA FilesChange ==
    ASSUME TypeOK, TaskInv, [Next]_vars
    PROVE  \/ UNCHANGED files
           \/ \E p \in Paths : Elsewhere(p)
           \/ \E id \in Ids : /\ Publish(id) /\ Publishable(id)
                              /\ files' = [files EXCEPT ![dest[id]] = id]
  <1>1. ASSUME NEW c \in Starters, TakeSlot(c) \/ Proceed(c) \/ GiveBack(c) PROVE UNCHANGED files
    BY <1>1 DEF Proceed, TakeSlot, Refuse, Register, GiveBack
  <1>2. ASSUME RecordSubmitted \/ Close \/ CancelAll \/ Drained PROVE UNCHANGED files
    BY <1>2 DEF RecordSubmitted, Close, CancelAll, Drained
  <1>3. ASSUME NEW id \in Ids, Cancel(id) \/ FireCancel(id) PROVE UNCHANGED files
    BY <1>3 DEF Cancel, FireCancel
  <1>4. ASSUME NEW id \in Ids, Work(id)
        PROVE  \/ UNCHANGED files
               \/ /\ Publish(id) /\ Publishable(id)
                  /\ files' = [files EXCEPT ![dest[id]] = id]
    <2>1. CASE StepInside(id) \/ Leaving(id)
      BY <2>1 DEF StepInside, Leaving
    <2>2. CASE RemoveTemp(id) \/ Unreserve(id) \/ ReleaseSlot(id) \/ WorkerDone(id)
      BY <2>2 DEF RemoveTemp, Unreserve, ReleaseSlot, WorkerDone
    <2>3. CASE Publish(id) /\ Publishable(id)
      BY <2>3 DEF Publish, Abort
    <2> QED BY <1>4, <2>1, <2>2, <2>3, WorkKinds
  <1>5. CASE UNCHANGED vars
    BY <1>5 DEF vars
  <1> QED BY <1>1, <1>2, <1>3, <1>4, <1>5 DEF Next

\* The rename of one download never replaces the file of another one.
LEMMA ReplacesNone ==
    ASSUME TypeOK, TaskInv, DestInv, [Next]_vars, NEW p \in Paths, files[p] \in Ids
    PROVE  files'[p] \in {files[p], NoFile}
  <1>1. ASSUME NEW q \in Paths, Elsewhere(q) PROVE files'[p] \in {files[p], NoFile}
    <2>1. files[p] # NoFile
      BY DEF Ids, NoFile
    <2> QED BY <1>1, <2>1 DEF Elsewhere, TypeOK
  <1>2. ASSUME NEW id \in Ids, Publish(id), files' = [files EXCEPT ![dest[id]] = id]
        PROVE  files'[p] \in {files[p], NoFile}
    <2>1. id \in Working
      BY <1>2 DEF Publish, Working, Program
    <2>2. dest[id] # p
      BY <2>1 DEF DestInv, NoDownloadAtDestination
    <2> QED BY <1>2, <2>2 DEF TypeOK
  <1> QED BY <1>1, <1>2, FilesChange

LEMMA DestInvariantHolds == Spec => [](TypeOK /\ TaskInv /\ DestInv)
  <1>1. TaskInvariant /\ DestInv /\ [Next]_vars => DestInv'
    BY DestPreserved DEF TaskInvariant
  <1> QED BY <1>1, TaskInvariantHolds, DestInitially, PTL DEF Spec, TaskInvariant

\* Two downloads in progress never own the same destination, and none releases
\* the reservation of another one.
THEOREM OwnDestinations == Spec => []DestinationsDistinct
  <1>1. DestInv => DestinationsDistinct
    BY DEF DestInv
  <1> QED BY <1>1, DestInvariantHolds, PTL

\* No step replaces the published file of another download.
THEOREM NoneReplaced == Spec => NoDownloadReplaced
  <1>1. TypeOK /\ TaskInv /\ DestInv /\ [Next]_vars =>
            [\A p \in Paths : files[p] \in Ids => files'[p] \in {files[p], NoFile}]_vars
    BY ReplacesNone
  <1> QED BY <1>1, DestInvariantHolds, PTL DEF Spec, NoDownloadReplaced

-----------------------------------------------------------------------------
(* Slots and the wait group. *)

\* The starts that own a slot are counted apart, and finitely many.
SlotInv ==
    /\ SlotAccounting
    /\ IsFiniteSet(holding) /\ IsFiniteSet(returning) /\ holding \cap returning = {}

LEMMA IdsFinite == IsFiniteSet(Ids) /\ \A S \in SUBSET Ids : IsFiniteSet(S) /\ Cardinality(S) \in Nat
  <1>1. IsFiniteSet(Ids)
    BY ConstantsAssumption, FS_Interval DEF Ids
  <1> QED BY <1>1, FS_Subset, FS_CardinalityType

LEMMA SlotInitially == Init => SlotInv
  <1> SUFFICES ASSUME Init PROVE SlotInv
    OBVIOUS
  <1>1. SlotOwners = {} /\ Unfinished = {}
    BY DEF Init, SlotOwners, Unfinished, Program, StopPoints, FileSteps
  <1>2. Cardinality({}) = 0 /\ IsFiniteSet({})
    BY FS_EmptySet
  <1> QED BY <1>1, <1>2, ConstantsAssumption DEF Init, SlotInv, SlotAccounting

\* Which steps make and finish a goroutine, and which return its slot.
LEMMA OwnersChange ==
    ASSUME TypeOK, TaskInv, NEW id \in Ids, Work(id)
    PROVE  \/ /\ ReleaseSlot(id) /\ id \in SlotOwners
              /\ SlotOwners' = SlotOwners \ {id} /\ Unfinished' = Unfinished
           \/ /\ WorkerDone(id) /\ id \in Unfinished
              /\ SlotOwners' = SlotOwners /\ Unfinished' = Unfinished \ {id}
           \/ UNCHANGED slotVars /\ SlotOwners' = SlotOwners /\ Unfinished' = Unfinished
  <1> DEFINE Owning   == Program \cup {"cleanup", "unreserve", "slot"}
             Finished == {"none", "ended"}
  <1>0. Owning \cap Finished = {} /\ "wg" \notin Owning
    BY DEF Program, StopPoints, FileSteps
  <1>1. ASSUME pc[id] \in Owning, pc'[id] \in Owning, \A i \in Ids \ {id} : pc'[i] = pc[i]
        PROVE  SlotOwners' = SlotOwners /\ Unfinished' = Unfinished
    BY <1>0, <1>1 DEF SlotOwners, Unfinished
  <1>2. CASE StepInside(id)
    BY <1>1, <1>2 DEF StepInside, OnlyTask, outsideWorker
  <1>3. ASSUME Leaving(id)
        PROVE  UNCHANGED slotVars /\ SlotOwners' = SlotOwners /\ Unfinished' = Unfinished
    BY <1>1, <1>3 DEF Leaving, OnlyTask, outsideWorker
  <1>4. CASE Publish(id) /\ Publishable(id)
    <2>1. CASE Abort(id, "failed")
      <3>1. Leaving(id)
        BY <1>4, <2>1, AbortLeaves DEF Publish, Program
      <3> QED BY <3>1, <1>3
    <2>2. CASE ~Abort(id, "failed")
      <3>1. /\ UNCHANGED slotVars
            /\ pc[id] = "publish" /\ pc' = [pc EXCEPT ![id] = "unreserve"]
        BY <1>4, <2>2 DEF Publish, outsideWorker, Advance, Goto, NextPc
      <3> QED BY <1>1, <3>1 DEF TypeOK, Program
    <2> QED BY <2>1, <2>2
  <1>5. CASE RemoveTemp(id)
    BY <1>1, <1>5 DEF RemoveTemp, outsideWorker, Advance, Goto, NextPc, TypeOK
  <1>6. CASE Unreserve(id)
    BY <1>1, <1>6 DEF Unreserve, Advance, Goto, NextPc, TypeOK
  <1>7. CASE ReleaseSlot(id)
    <2>1. pc[id] = "slot" /\ pc' = [pc EXCEPT ![id] = "wg"]
      BY <1>7 DEF ReleaseSlot, Advance, Goto, NextPc
    <2> QED BY <1>0, <1>7, <2>1 DEF TypeOK, SlotOwners, Unfinished
  <1>8. CASE WorkerDone(id)
    <2>1. pc[id] = "wg" /\ pc' = [pc EXCEPT ![id] = "ended"]
      BY <1>8 DEF WorkerDone, Advance, Goto, NextPc
    <2> QED BY <1>0, <1>8, <2>1 DEF TypeOK, SlotOwners, Unfinished
  <1> QED BY <1>2, <1>3, <1>4, <1>5, <1>6, <1>7, <1>8, WorkKinds

LEMMA SlotPreserved == TypeOK /\ TaskInv /\ SlotInv /\ [Next]_vars => SlotInv'
  <1> SUFFICES ASSUME TypeOK, TaskInv, SlotInv, [Next]_vars PROVE SlotInv'
    OBVIOUS
  <1> USE ConstantsAssumption DEF SlotInv, SlotAccounting
  <1>0. /\ IsFiniteSet(SlotOwners) /\ IsFiniteSet(Unfinished)
        /\ Cardinality(SlotOwners) \in Nat /\ Cardinality(Unfinished) \in Nat
        /\ Cardinality(holding) \in Nat /\ Cardinality(returning) \in Nat
    BY IdsFinite, FS_CardinalityType DEF SlotOwners, Unfinished
  <1>1. ASSUME UNCHANGED <<pc, slotVars>> PROVE SlotInv'
    BY <1>1 DEF slotVars, SlotOwners, Unfinished
  <1>2. ASSUME NEW c \in Starters, TakeSlot(c) PROVE SlotInv'
    <2>1. /\ slotsUsed' = slotsUsed + 1 /\ slotsUsed < Slots /\ holding' = holding \cup {c}
          /\ c \notin holding /\ c \notin returning /\ UNCHANGED <<pc, returning, wg>>
      BY <1>2 DEF TakeSlot, SlotFree, workVars
    <2>2. IsFiniteSet(holding') /\ Cardinality(holding') = Cardinality(holding) + 1
      BY <2>1, FS_AddElement
    <2> QED BY <1>0, <2>1, <2>2 DEF TypeOK, SlotOwners, Unfinished
  <1>3. ASSUME NEW c \in Starters, NEW name \in Names, Refuse(c, name) PROVE SlotInv'
    <2>1. /\ c \in holding /\ c \notin returning /\ holding' = holding \ {c}
          /\ returning' = returning \cup {c} /\ UNCHANGED <<pc, slotsUsed, wg>>
      BY <1>3 DEF Refuse, workVars
    <2>2. IsFiniteSet(returning') /\ Cardinality(returning') = Cardinality(returning) + 1
      BY <2>1, FS_AddElement
    <2>3. IsFiniteSet(holding') /\ Cardinality(holding') = Cardinality(holding) - 1
      BY <2>1, FS_RemoveElement
    <2> QED BY <1>0, <2>1, <2>2, <2>3 DEF SlotOwners, Unfinished
  <1>4. ASSUME NEW c \in Starters, GiveBack(c) PROVE SlotInv'
    <2>1. /\ c \in returning /\ returning' = returning \ {c} /\ slotsUsed' = slotsUsed - 1
          /\ UNCHANGED <<pc, holding, wg>>
      BY <1>4 DEF GiveBack, ReturnSlot, workVars
    <2>2. IsFiniteSet(returning') /\ Cardinality(returning') = Cardinality(returning) - 1
      BY <2>1, FS_RemoveElement
    <2> QED BY <1>0, <2>1, <2>2 DEF TypeOK, SlotOwners, Unfinished
  <1>5. ASSUME NEW c \in Starters, NEW name \in Names, NEW size \in DeclaredSizes,
               Register(c, name, size)
        PROVE  SlotInv'
    <2> DEFINE id == next + 1
    <2>1. id \in Ids /\ Record(id, "queued")
      BY <1>5 DEF Register
    <2>2. pc[id] = "none"
      BY <2>1, RecordEffect
    <2>3. /\ c \in holding /\ holding' = holding \ {c} /\ wg' = wg + 1
          /\ pc' = [pc EXCEPT ![id] = "begin"] /\ UNCHANGED <<returning, slotsUsed>>
      BY <1>5 DEF Register, AddWorker
    <2>4. /\ SlotOwners' = SlotOwners \cup {id} /\ id \notin SlotOwners
          /\ Unfinished' = Unfinished \cup {id} /\ id \notin Unfinished
      BY <2>1, <2>2, <2>3 DEF TypeOK, SlotOwners, Unfinished, Program, StopPoints, FileSteps
    <2> HIDE DEF id
    <2>5. IsFiniteSet(holding') /\ Cardinality(holding') = Cardinality(holding) - 1
      BY <2>3, FS_RemoveElement
    <2>6. Cardinality(SlotOwners') = Cardinality(SlotOwners) + 1
      BY <1>0, <2>4, FS_AddElement
    <2>7. Cardinality(Unfinished') = Cardinality(Unfinished) + 1
      BY <1>0, <2>4, FS_AddElement
    <2> QED BY <1>0, <2>3, <2>5, <2>6, <2>7
  <1>6. CASE RecordSubmitted
    BY <1>1, <1>6 DEF RecordSubmitted, workVars
  <1>7. ASSUME NEW id \in Ids, Cancel(id) \/ FireCancel(id) PROVE SlotInv'
    BY <1>1, <1>7 DEF Cancel, FireCancel
  <1>8. ASSUME NEW id \in Ids, Work(id) PROVE SlotInv'
    <2>1. CASE /\ ReleaseSlot(id) /\ id \in SlotOwners
               /\ SlotOwners' = SlotOwners \ {id} /\ Unfinished' = Unfinished
      <3>1. slotsUsed' = slotsUsed - 1 /\ UNCHANGED <<holding, returning, wg>>
        BY <2>1 DEF ReleaseSlot, ReturnSlot
      <3>2. Cardinality(SlotOwners') = Cardinality(SlotOwners) - 1
        BY <1>0, <2>1, FS_RemoveElement
      <3> QED BY <1>0, <2>1, <3>1, <3>2 DEF TypeOK
    <2>2. CASE /\ WorkerDone(id) /\ id \in Unfinished
               /\ SlotOwners' = SlotOwners /\ Unfinished' = Unfinished \ {id}
      <3>1. wg' = wg - 1 /\ UNCHANGED <<holding, returning, slotsUsed>>
        BY <2>2 DEF WorkerDone
      <3>2. Cardinality(Unfinished') = Cardinality(Unfinished) - 1
        BY <1>0, <2>2, FS_RemoveElement
      <3> QED BY <1>0, <2>2, <3>1, <3>2
    <2>3. CASE UNCHANGED slotVars /\ SlotOwners' = SlotOwners /\ Unfinished' = Unfinished
      BY <2>3 DEF slotVars
    <2> QED BY <1>8, <2>1, <2>2, <2>3, OwnersChange
  <1>9. CASE Close \/ CancelAll \/ Drained \/ \E p \in Paths : Elsewhere(p)
    BY <1>1, <1>9 DEF Close, CancelAll, Drained, Elsewhere, workVars
  <1>10. CASE UNCHANGED vars
    BY <1>1, <1>10 DEF vars, workVars
  <1> QED
    <2> HIDE DEF SlotInv
    <2> QED BY <1>2, <1>3, <1>4, <1>5, <1>6, <1>7, <1>8, <1>9, <1>10 DEF Next, Proceed

\* No slot is lost or given back twice, and the wait group counts right.
THEOREM SlotsAccounted == Spec => []SlotAccounting
  <1>1. TaskInvariant /\ SlotInv /\ [Next]_vars => SlotInv'
    BY SlotPreserved DEF TaskInvariant
  <1>2. SlotInv => SlotAccounting
    BY DEF SlotInv
  <1> QED BY <1>1, <1>2, TaskInvariantHolds, SlotInitially, PTL DEF Spec

-----------------------------------------------------------------------------
(* Shutdown. *)

\* Once the wait group was found empty no goroutine runs.
DoneInv == phase = "done" => Unfinished = {}

\* Goroutines appear while the service accepts downloads only.
LEMMA NoNewGoroutine ==
    ASSUME TypeOK, TaskInv, [Next]_vars, ~Accepting
    PROVE  Unfinished' \subseteq Unfinished
  <1>1. ASSUME UNCHANGED pc PROVE Unfinished' \subseteq Unfinished
    BY <1>1 DEF Unfinished
  <1>2. ASSUME NEW c \in Starters, TakeSlot(c) \/ Proceed(c) \/ GiveBack(c) PROVE UNCHANGED pc
    BY <1>2 DEF Proceed, TakeSlot, Refuse, Register, GiveBack, workVars
  <1>3. ASSUME RecordSubmitted \/ Close \/ CancelAll \/ Drained \/ \E p \in Paths : Elsewhere(p)
        PROVE  UNCHANGED pc
    BY <1>3 DEF RecordSubmitted, Close, CancelAll, Drained, Elsewhere, workVars
  <1>4. ASSUME NEW id \in Ids, Cancel(id) \/ FireCancel(id) PROVE UNCHANGED pc
    BY <1>4 DEF Cancel, FireCancel
  <1>5. ASSUME NEW id \in Ids, Work(id) PROVE Unfinished' \subseteq Unfinished
    BY <1>5, OwnersChange
  <1>6. CASE UNCHANGED vars
    BY <1>1, <1>6 DEF vars, workVars
  <1> QED BY <1>1, <1>2, <1>3, <1>4, <1>5, <1>6 DEF Next

\* Shutdown goes one way.
LEMMA PhaseChanges ==
    ASSUME TypeOK, TaskInv, [Next]_vars
    PROVE  UNCHANGED phase \/ Close \/ CancelAll \/ Drained
  <1>1. ASSUME NEW c \in Starters, TakeSlot(c) \/ Proceed(c) \/ GiveBack(c) PROVE UNCHANGED phase
    BY <1>1 DEF Proceed, TakeSlot, Refuse, Register, GiveBack
  <1>2. ASSUME RecordSubmitted \/ \E p \in Paths : Elsewhere(p) PROVE UNCHANGED phase
    BY <1>2 DEF RecordSubmitted, Elsewhere
  <1>3. ASSUME NEW id \in Ids, Cancel(id) \/ FireCancel(id) PROVE UNCHANGED phase
    BY <1>3 DEF Cancel, FireCancel
  <1>4. ASSUME NEW id \in Ids, Work(id) PROVE UNCHANGED phase
    <2>1. CASE StepInside(id) \/ Leaving(id)
      BY <2>1 DEF StepInside, Leaving, outsideWorker
    <2>2. CASE RemoveTemp(id) \/ Unreserve(id) \/ ReleaseSlot(id) \/ WorkerDone(id)
      BY <2>2 DEF RemoveTemp, Unreserve, ReleaseSlot, WorkerDone, outsideWorker
    <2>3. CASE Publish(id) /\ Publishable(id)
      BY <2>3 DEF Publish, Abort, outsideWorker
    <2> QED BY <1>4, <2>1, <2>2, <2>3, WorkKinds
  <1>5. CASE UNCHANGED vars
    BY <1>5 DEF vars
  <1> QED BY <1>1, <1>2, <1>3, <1>4, <1>5 DEF Next

LEMMA DonePreserved == TypeOK /\ TaskInv /\ SlotInv /\ DoneInv /\ [Next]_vars => DoneInv'
  <1> SUFFICES ASSUME TypeOK, TaskInv, SlotInv, DoneInv, [Next]_vars, phase' = "done"
               PROVE  Unfinished' = {}
    BY DEF DoneInv
  <1>1. CASE Drained
    <2>1. Cardinality(Unfinished) = 0 /\ IsFiniteSet(Unfinished)
      BY <1>1, IdsFinite DEF Drained, SlotInv, SlotAccounting, Unfinished
    <2>2. Unfinished = {}
      BY <2>1, FS_EmptySet
    <2> QED BY <1>1, <2>2 DEF Drained, workVars, Unfinished
  <1>2. CASE UNCHANGED phase
    <2>1. ~Accepting /\ Unfinished = {}
      BY <1>2 DEF Accepting, DoneInv
    <2> QED BY <2>1, NoNewGoroutine
  <1> QED BY <1>1, <1>2, PhaseChanges DEF Close, CancelAll

\* Nothing of a download is left when Shutdown has returned nil.
THEOREM IdleWhenDrained == Spec => []DrainedMeansIdle
  <1>1. Init => DoneInv
    BY DEF Init, DoneInv
  <1>2. TypeOK /\ TaskInv /\ DestInv /\ DoneInv => DrainedMeansIdle
    <2> SUFFICES ASSUME TypeOK, TaskInv, DestInv, Unfinished = {}
                 PROVE  /\ reserved = {} /\ cancels = {}
                        /\ \A id \in Ids : temp[id] # "open"
      BY DEF DoneInv, DrainedMeansIdle
    <2>1. \A id \in Ids : pc[id] \in {"none", "ended"}
      BY DEF Unfinished
    <2>2. Reserving = {}
      BY <2>1 DEF Reserving, Program, StopPoints, FileSteps
    <2>3. reserved = {}
      BY <2>2 DEF DestInv, ReservedByWorkers
    <2>4. \A id \in Ids : temp[id] # "open" /\ id \notin cancels
      BY <2>1, <2>2 DEF TaskInv, TasksMatchWorkers, HasTemp, StopPoints, FileSteps
    <2> QED BY <2>3, <2>4 DEF TypeOK
  <1>3. TypeOK /\ TaskInv /\ SlotInv /\ [Next]_vars => SlotInv'
    BY SlotPreserved
  <1> QED BY <1>1, <1>2, <1>3, DonePreserved, DestInvariantHolds, SlotInitially, PTL DEF Spec

-----------------------------------------------------------------------------
(* The service implements DownloadContract. *)

\* A step that shows nowhere in the contract.
LEMMA Stutters ==
    ASSUME UNCHANGED <<status, files>>, Accepting' = Accepting
    PROVE  UNCHANGED Contract!contractVars
  BY DEF Contract!contractVars, Outcome

\* The outcome of a task whose status changes alone.
LEMMA OutcomeOfOne ==
    ASSUME TypeOK, TypeOK', NEW id \in Ids, \A i \in Ids \ {id} : status'[i] = status[i]
    PROVE  Outcome' = [Outcome EXCEPT ![id] = Outcome'[id]]
  BY DEF Outcome

\* A task that leaves its active states without a file.
LEMMA DropsOrStutters ==
    ASSUME TypeOK, TypeOK', NEW id \in Ids,
           \A i \in Ids \ {id} : status'[i] = status[i],
           status'[id] \in {"failed", "cancelled"},
           status[id] \notin ActiveStates => status'[id] = status[id],
           UNCHANGED <<files, phase>>
    PROVE  Contract!Next \/ UNCHANGED Contract!contractVars
  <1>0. Accepting' = Accepting
    BY DEF Accepting
  <1>1. CASE status[id] \notin ActiveStates
    <2>1. status' = status
      BY <1>1 DEF TypeOK
    <2> QED BY <1>0, <2>1, Stutters
  <1>2. CASE status[id] \in ActiveStates
    <2>1. Outcome[id] = "active" /\ Outcome'[id] = status'[id]
      BY <1>2 DEF Outcome, ActiveStates
    <2>2. Contract!Drop(id, status'[id])
      BY <1>0, <2>1, OutcomeOfOne DEF Contract!Drop
    <2> QED BY <2>2 DEF Contract!Next
  <1> QED BY <1>1, <1>2

\* Downloads in progress own slots.
LEMMA RoomForOne ==
    ASSUME TypeOK, TaskInv, SlotInv, NEW c \in holding
    PROVE  Cardinality(Contract!InProgress) < Slots
  <1>1. Contract!InProgress \subseteq SlotOwners
    BY DEF Contract!InProgress, Outcome, SlotOwners, TaskInv, TasksMatchWorkers, TypeOK,
           Statuses, ActiveStates, TerminalStates
  <1>2. /\ IsFiniteSet(SlotOwners) /\ Cardinality(SlotOwners) \in Nat
        /\ Cardinality(Contract!InProgress) \in Nat
    BY <1>1, IdsFinite DEF SlotOwners
  <1>3. Cardinality(Contract!InProgress) <= Cardinality(SlotOwners)
    BY <1>1, <1>2, FS_Subset
  <1>4. Cardinality(holding) \in Nat /\ Cardinality(holding) # 0 /\ Cardinality(returning) \in Nat
    BY FS_CardinalityType, FS_EmptySet DEF SlotInv
  <1> QED BY <1>2, <1>3, <1>4, ConstantsAssumption DEF SlotInv, SlotAccounting, TypeOK

LEMMA RegisterAccepts ==
    ASSUME TypeOK, TypeOK', TaskInv, SlotInv,
           NEW c \in Starters, NEW name \in Names, NEW size \in DeclaredSizes,
           Register(c, name, size)
    PROVE  Contract!Next
  <1> DEFINE id == next + 1
  <1>1. /\ id \in Ids /\ Record(id, "queued") /\ c \in holding
        /\ Accepting /\ UNCHANGED <<files, phase>>
    BY DEF Register
  <1>2. status[id] = "none" /\ status' = [status EXCEPT ![id] = "queued"]
    BY <1>1, RecordEffect
  <1> HIDE DEF id
  <1>3. Outcome[id] = "none" /\ Outcome'[id] = "active"
    BY <1>1, <1>2 DEF Outcome, ActiveStates, TypeOK
  <1>4. Outcome' = [Outcome EXCEPT ![id] = Outcome'[id]]
    BY <1>1, <1>2, OutcomeOfOne DEF TypeOK
  <1>5. Contract!Accept(id)
    <2>1. Contract!Cardinality(Contract!InProgress) < Slots
      BY <1>1, RoomForOne DEF Cardinality, Contract!Cardinality
    <2> QED BY <1>1, <1>3, <1>4, <2>1 DEF Contract!Accept, Accepting
  <1> QED BY <1>1, <1>5 DEF Contract!Next

LEMMA SubmittedIsNoted ==
    ASSUME TypeOK, TypeOK', TaskInv, RecordSubmitted
    PROVE  Contract!Next
  <1> DEFINE id == next + 1
  <1>1. id \in Ids /\ Record(id, "submitted") /\ UNCHANGED <<files, phase>>
    BY DEF RecordSubmitted
  <1>2. status[id] = "none" /\ status' = [status EXCEPT ![id] = "submitted"]
    BY <1>1, RecordEffect
  <1> HIDE DEF id
  <1>3. Outcome[id] = "none" /\ Outcome'[id] = "submitted"
    BY <1>1, <1>2 DEF Outcome, ActiveStates, TypeOK
  <1>4. Outcome' = [Outcome EXCEPT ![id] = Outcome'[id]]
    BY <1>1, <1>2, OutcomeOfOne DEF TypeOK
  <1>5. Contract!Note(id)
    BY <1>1, <1>3, <1>4 DEF Contract!Note, Accepting
  <1> QED BY <1>1, <1>5 DEF Contract!Next

LEMMA PublishDelivers ==
    ASSUME TypeOK, TypeOK', TaskInv, DestInv, NEW id \in Ids,
           Publish(id), Publishable(id), ~Abort(id, "failed")
    PROVE  Contract!Next
  <1>1. /\ pc[id] = "publish" /\ Settle(id, "completed")
        /\ files' = [files EXCEPT ![dest[id]] = id] /\ UNCHANGED phase
    BY DEF Publish, outsideWorker
  <1>2. IsActive(id) /\ "completed" \in Statuses /\ status[id] \in ActiveStates
    BY DEF Publishable, IsActive, ActiveStates, Statuses, TerminalStates
  <1>3. status'[id] = "completed" /\ \A i \in Ids \ {id} : status'[i] = status[i]
    BY <1>1, <1>2, SettleEffect
  <1>4. Outcome[id] = "active" /\ Outcome'[id] = "published"
    BY <1>2, <1>3 DEF Outcome, ActiveStates
  <1>5. Outcome' = [Outcome EXCEPT ![id] = Outcome'[id]]
    BY <1>3, OutcomeOfOne
  <1>6. dest[id] \in Paths /\ files[dest[id]] \notin Ids
    BY <1>1 DEF TypeOK, DestInv, NoDownloadAtDestination, Working, Program
  <1>7. Contract!Deliver(id, dest[id])
    BY <1>1, <1>4, <1>5, <1>6 DEF Contract!Deliver, Accepting
  <1> QED BY <1>6, <1>7 DEF Contract!Next

\* Every step maps to a step of the contract or to none.
LEMMA StepImplements ==
    ASSUME TypeOK, TypeOK', TaskInv, DestInv, SlotInv, [Next]_vars
    PROVE  Contract!Next \/ UNCHANGED Contract!contractVars
  <1>0. ASSUME UNCHANGED <<status, files, phase>> PROVE UNCHANGED Contract!contractVars
    BY <1>0, Stutters DEF Accepting
  <1>1. ASSUME NEW c \in Starters,
               TakeSlot(c) \/ (\E name \in Names : Refuse(c, name)) \/ GiveBack(c)
        PROVE  UNCHANGED Contract!contractVars
    BY <1>0, <1>1 DEF TakeSlot, Refuse, GiveBack, taskVars
  <1>2. ASSUME NEW c \in Starters, Proceed(c)
        PROVE  Contract!Next \/ UNCHANGED Contract!contractVars
    BY <1>1, <1>2, RegisterAccepts DEF Proceed
  <1>3. ASSUME NEW id \in Ids, Cancel(id)
        PROVE  Contract!Next \/ UNCHANGED Contract!contractVars
    <2>1. "cancelled" \in Statuses
      BY DEF Statuses, TerminalStates
    <2>2. /\ status'[id] = "cancelled" /\ \A i \in Ids \ {id} : status'[i] = status[i]
          /\ status[id] \in ActiveStates /\ UNCHANGED <<files, phase>>
      BY <1>3, <2>1, SettleEffect DEF Cancel, IsActive
    <2> QED BY <2>2, DropsOrStutters
  <1>4. ASSUME NEW id \in Ids, FireCancel(id) PROVE UNCHANGED Contract!contractVars
    BY <1>0, <1>4 DEF FireCancel, taskVars
  <1>5. ASSUME NEW id \in Ids, Work(id)
        PROVE  Contract!Next \/ UNCHANGED Contract!contractVars
    <2>1. CASE StepInside(id)
      <3>1. /\ UNCHANGED <<files, phase>> /\ \A i \in Ids \ {id} : status'[i] = status[i]
            /\ \/ status[id] \in ActiveStates /\ status'[id] \in ActiveStates
               \/ status'[id] = status[id]
        BY <2>1 DEF StepInside, OnlyTask, outsideWorker, ActiveStates
      <3>2. Outcome' = Outcome
        BY <3>1 DEF Outcome
      <3> QED BY <3>1, <3>2 DEF Contract!contractVars, Accepting
    <2>2. ASSUME Leaving(id) PROVE Contract!Next \/ UNCHANGED Contract!contractVars
      BY <2>2, DropsOrStutters DEF Leaving, OnlyTask, outsideWorker
    <2>3. CASE Publish(id) /\ Publishable(id)
      <3>1. CASE Abort(id, "failed")
        <4>1. Leaving(id)
          BY <2>3, <3>1, AbortLeaves DEF Publish, Program
        <4> QED BY <4>1, <2>2
      <3>2. CASE ~Abort(id, "failed")
        BY <2>3, <3>2, PublishDelivers
      <3> QED BY <3>1, <3>2
    <2>4. CASE RemoveTemp(id) \/ Unreserve(id) \/ ReleaseSlot(id) \/ WorkerDone(id)
      BY <1>0, <2>4 DEF RemoveTemp, Unreserve, ReleaseSlot, WorkerDone, taskVars, outsideWorker
    <2> QED BY <1>5, <2>1, <2>2, <2>3, <2>4, WorkKinds
  <1>6. CASE Close
    <2>1. Outcome' = Outcome /\ UNCHANGED files
      BY <1>6 DEF Close, taskVars, Outcome
    <2>2. Contract!StopAccepting
      BY <1>6, <2>1 DEF Close, Contract!StopAccepting, Accepting
    <2> QED BY <2>2 DEF Contract!Next
  <1>7. CASE CancelAll \/ Drained
    <2>1. UNCHANGED <<status, files>> /\ Accepting' = Accepting
      BY <1>7 DEF CancelAll, Drained, taskVars, Accepting
    <2> QED BY <2>1, Stutters
  <1>8. ASSUME NEW p \in Paths, Elsewhere(p) PROVE Contract!Next
    <2>1. Outcome' = Outcome /\ UNCHANGED phase
      BY <1>8 DEF Elsewhere, taskVars, Outcome
    <2>2. Contract!Rearrange(p)
      BY <1>8, <2>1 DEF Elsewhere, Contract!Rearrange, Accepting
    <2> QED BY <2>2 DEF Contract!Next
  <1>9. CASE UNCHANGED vars
    BY <1>0, <1>9 DEF vars, taskVars
  <1> QED BY <1>1, <1>2, <1>3, <1>4, <1>5, <1>6, <1>7, <1>8, <1>9, SubmittedIsNoted DEF Next

\* The service keeps its contract.
THEOREM KeepsContract == Spec => ImplementsContract
  <1>1. Init => Contract!Init
    BY DEF Init, Contract!Init, Outcome, Accepting, ActiveStates
  <1>2. /\ TypeOK /\ TypeOK' /\ TaskInv /\ DestInv /\ SlotInv /\ [Next]_vars
        => [Contract!Next]_(Contract!contractVars)
    BY StepImplements
  <1>3. TypeOK /\ TaskInv /\ SlotInv /\ [Next]_vars => SlotInv'
    BY SlotPreserved
  <1> QED BY <1>1, <1>2, <1>3, DestInvariantHolds, SlotInitially, PTL
          DEF Spec, ImplementsContract, Contract!Spec

-----------------------------------------------------------------------------
(* Sizes. *)

\* The places after the test that a known size has arrived in full.
Tested == {"stop2", "chmod", "stop3", "close", "stop4", "publish"}

\* Until the file is renamed a positive total is the expected size; from the
\* test on, the bytes copied are.
SizeOK(id) ==
    /\ temp[id] # "renamed" /\ bytes[id].total > 0 => bytes[id].total = bytes[id].expected
    /\ pc[id] \in Tested => Whole(id)
    /\ temp[id] = "renamed" => bytes[id].total = bytes[id].copied /\ Whole(id)

SizeInv == \A id \in Ids : SizeOK(id)

\* A goroutine at work has published nothing yet.
LEMMA NotYetRenamed ==
    ASSUME TypeOK, TaskInv, NEW id \in Ids, pc[id] \in Program
    PROVE  temp[id] # "renamed"
  BY DEF TaskInv, TasksMatchWorkers, CancelOrPublish, Program, StopPoints, FileSteps

LEMMA SizeKept ==
    ASSUME TypeOK, SizeInv, NEW id \in Ids,
           \A i \in Ids \ {id} : bytes'[i] = bytes[i] /\ pc'[i] = pc[i] /\ temp'[i] = temp[i],
           SizeOK(id)'
    PROVE  SizeInv'
  BY DEF SizeInv, SizeOK, Whole

\* A failing step and a return leave the tested part.
LEMMA AbortKeepsSize ==
    ASSUME TypeOK, SizeInv, NEW id \in Ids, NEW final, Abort(id, final)
    PROVE  SizeInv'
  <1>1. /\ UNCHANGED <<bytes, temp>> /\ \A i \in Ids \ {id} : pc'[i] = pc[i]
        /\ pc'[id] \notin Tested
    BY DEF Abort, Return, Goto, TypeOK, Tested
  <1>2. SizeOK(id)'
    BY <1>1 DEF SizeInv, SizeOK, Whole
  <1> QED BY <1>1, <1>2, SizeKept

LEMMA WorkKeepsSize ==
    ASSUME TypeOK, TypeOK', TaskInv, SizeInv, NEW id \in Ids, Work(id)
    PROVE  SizeInv'
  <1>1. ASSUME UNCHANGED <<bytes, temp>>, \A i \in Ids \ {id} : pc'[i] = pc[i],
               pc'[id] \in Tested => pc[id] \in Tested \/ Whole(id)
        PROVE  SizeInv'
    <2>1. SizeOK(id)'
      BY <1>1 DEF SizeInv, SizeOK, Whole
    <2> QED BY <1>1, <2>1, SizeKept
  <1>2. CASE Begin(id)
    BY <1>1, <1>2 DEF Begin, Advance, Return, Goto, NextPc, TypeOK, Tested
  <1>3. ASSUME NEW length \in ContentLengths, Respond(id, length), ~Abort(id, "failed")
        PROVE  SizeInv'
    <2> DEFINE expected == IF bytes[id].expected = Unknown THEN length
                           ELSE bytes[id].expected
               entry == [expected |-> expected, copied |-> bytes[id].copied,
                         total |-> IF expected # Unknown /\ id \in remembered
                                   THEN expected ELSE bytes[id].total]
    <2>1. /\ bytes' = [bytes EXCEPT ![id] = entry] /\ UNCHANGED temp
          /\ pc[id] = "request" /\ pc' = [pc EXCEPT ![id] = "temp"]
      BY <1>3 DEF Respond, Advance, Goto, NextPc
    <2>2. temp[id] # "renamed"
      BY <2>1, NotYetRenamed DEF Program
    <2>3. bytes'[id] = entry /\ pc'[id] \notin Tested
      BY <2>1 DEF TypeOK, Tested
    <2>4. /\ bytes[id] \in [expected : Sizes, copied : 0 .. MaxBytes, total : Sizes]
          /\ bytes[id].total > 0 => bytes[id].total = bytes[id].expected
      BY <2>2 DEF TypeOK, SizeInv, SizeOK
    <2>5. entry.total > 0 => entry.total = entry.expected
      BY <2>4, ConstantsAssumption DEF Sizes, Unknown
    <2> HIDE DEF entry
    <2>6. SizeOK(id)'
      BY <2>1, <2>2, <2>3, <2>5 DEF SizeOK
    <2>7. \A i \in Ids \ {id} : bytes'[i] = bytes[i] /\ pc'[i] = pc[i] /\ temp'[i] = temp[i]
      BY <2>1 DEF TypeOK
    <2> QED BY <2>6, <2>7, SizeKept
  <1>4. CASE CreateTemp(id) /\ ~Abort(id, "failed")
    <2>1. /\ UNCHANGED bytes /\ temp' = [temp EXCEPT ![id] = "open"]
          /\ pc[id] = "temp" /\ pc' = [pc EXCEPT ![id] = "read"]
      BY <1>4 DEF CreateTemp, Advance, Goto, NextPc
    <2>2. temp[id] # "renamed"
      BY <2>1, NotYetRenamed DEF Program
    <2>3. SizeOK(id)'
      BY <2>1, <2>2 DEF SizeInv, SizeOK, TypeOK, Tested
    <2>4. \A i \in Ids \ {id} : bytes'[i] = bytes[i] /\ pc'[i] = pc[i] /\ temp'[i] = temp[i]
      BY <2>1 DEF TypeOK
    <2> QED BY <2>3, <2>4, SizeKept
  <1>5. CASE Copy(id)
    <2>1. /\ bytes' = [bytes EXCEPT ![id].copied = @ + 1] /\ UNCHANGED <<temp, pc>>
          /\ pc[id] = "read"
      BY <1>5 DEF Copy
    <2>2. temp[id] # "renamed"
      BY <2>1, NotYetRenamed DEF Program
    <2>3. /\ bytes'[id].total = bytes[id].total /\ bytes'[id].expected = bytes[id].expected
          /\ \A i \in Ids \ {id} : bytes'[i] = bytes[i]
      BY <2>1 DEF TypeOK
    <2>4. SizeOK(id)'
      BY <2>1, <2>2, <2>3 DEF SizeInv, SizeOK, Tested
    <2> QED BY <2>1, <2>3, <2>4, SizeKept
  <1>6. CASE EndOfBody(id)
    BY <1>1, <1>6 DEF EndOfBody, Advance, Goto, NextPc, TypeOK, Tested
  <1>7. CASE StopCheck(id) /\ ~Abort(id, "cancelled")
    BY <1>1, <1>7 DEF StopCheck, StopPoints, Advance, Return, Goto, NextPc, TypeOK, Tested
  <1>8. CASE FinishFile(id) /\ ~Abort(id, "failed")
    BY <1>1, <1>8 DEF FinishFile, FileSteps, Advance, Goto, NextPc, TypeOK, Tested
  <1>9. CASE Publish(id) /\ Publishable(id) /\ ~Abort(id, "failed")
    <2>1. /\ temp' = [temp EXCEPT ![id] = "renamed"]
          /\ bytes' = IF bytes[id].total > 0 THEN bytes
                      ELSE [bytes EXCEPT ![id].total = bytes[id].copied]
          /\ pc[id] = "publish" /\ pc' = [pc EXCEPT ![id] = "unreserve"]
      BY <1>9 DEF Publish, Advance, Goto, NextPc
    <2>2. temp[id] # "renamed" /\ Whole(id)
      BY <2>1, NotYetRenamed DEF Program, SizeInv, SizeOK, Tested
    <2>3. /\ bytes'[id].copied = bytes[id].copied /\ bytes'[id].expected = bytes[id].expected
          /\ \A i \in Ids \ {id} : bytes'[i] = bytes[i]
      BY <2>1 DEF TypeOK
    <2>4. bytes'[id].total = bytes[id].copied
      <3>1. CASE bytes[id].total > 0
        BY <2>1, <2>2, <3>1 DEF SizeInv, SizeOK, Whole, Unknown
      <3>2. CASE ~(bytes[id].total > 0)
        BY <2>1, <3>2 DEF TypeOK
      <3> QED BY <3>1, <3>2
    <2>5. Whole(id)'
      BY <2>2, <2>3 DEF Whole
    <2>6. /\ \A i \in Ids \ {id} : pc'[i] = pc[i] /\ temp'[i] = temp[i]
          /\ temp'[id] = "renamed"
      BY <2>1 DEF TypeOK
    <2>7. SizeOK(id)'
      BY <2>3, <2>4, <2>5, <2>6 DEF SizeOK
    <2> QED BY <2>3, <2>6, <2>7, SizeKept
  <1>10. CASE Publish(id) /\ ~Publishable(id)
    BY <1>1, <1>10 DEF Publish, Return, Goto, TypeOK, Tested
  <1>11. CASE RemoveTemp(id)
    <2>0. \E outcome \in {"removed", "left"} : temp' = [temp EXCEPT ![id] = outcome]
      BY <1>11 DEF RemoveTemp
    <2>1. /\ UNCHANGED bytes /\ pc[id] = "cleanup" /\ pc' = [pc EXCEPT ![id] = "unreserve"]
      BY <1>11 DEF RemoveTemp, Advance, Goto, NextPc
    <2>2. temp[id] # "renamed" /\ temp'[id] # "renamed" /\ pc'[id] \notin Tested
      BY <2>0, <2>1 DEF TaskInv, TasksMatchWorkers, HasTemp, TypeOK, Tested
    <2>3. SizeOK(id)'
      BY <2>1, <2>2 DEF SizeInv, SizeOK
    <2>4. \A i \in Ids \ {id} : bytes'[i] = bytes[i] /\ pc'[i] = pc[i] /\ temp'[i] = temp[i]
      BY <2>0, <2>1 DEF TypeOK
    <2> QED BY <2>3, <2>4, SizeKept
  <1>12. CASE Unreserve(id) \/ ReleaseSlot(id) \/ WorkerDone(id)
    BY <1>1, <1>12 DEF Unreserve, ReleaseSlot, WorkerDone, taskVars, Advance, Goto, NextPc,
                       TypeOK, Tested
  <1>13. ASSUME NEW final, Abort(id, final) PROVE SizeInv'
    BY <1>13, AbortKeepsSize
  <1>14. CASE RequestFails(id) \/ CopyFails(id)
    BY <1>13, <1>14 DEF RequestFails, CopyFails, NetworkError
  <1> QED BY <1>2, <1>3, <1>4, <1>5, <1>6, <1>7, <1>8, <1>9, <1>10, <1>11, <1>12, <1>13,
             <1>14 DEF Work

LEMMA SizePreserved == TypeOK /\ TypeOK' /\ TaskInv /\ SizeInv /\ [Next]_vars => SizeInv'
  <1> SUFFICES ASSUME TypeOK, TypeOK', TaskInv, SizeInv, [Next]_vars PROVE SizeInv'
    OBVIOUS
  <1>1. ASSUME UNCHANGED <<bytes, pc, temp>> PROVE SizeInv'
    BY <1>1 DEF SizeInv, SizeOK, Whole
  <1>2. ASSUME NEW c \in Starters,
               TakeSlot(c) \/ (\E name \in Names : Refuse(c, name)) \/ GiveBack(c)
        PROVE  SizeInv'
    BY <1>1, <1>2 DEF TakeSlot, Refuse, GiveBack, taskVars, workVars
  <1>3. ASSUME NEW c \in Starters, NEW name \in Names, NEW size \in DeclaredSizes,
               Register(c, name, size)
        PROVE  SizeInv'
    <2> DEFINE entry == [expected |-> IF size > 0 THEN size ELSE Unknown, copied |-> 0,
                         total |-> IF size > 0 THEN size ELSE 0]
    <2>0. PICK id \in Ids : id = next + 1
      BY <1>3 DEF Register
    <2>1. Record(id, "queued")
      BY <1>3, <2>0 DEF Register
    <2>2. /\ bytes' = [bytes EXCEPT ![id] = entry]
          /\ pc' = [pc EXCEPT ![id] = "begin"] /\ UNCHANGED temp
      BY <1>3, <2>0 DEF Register
    <2>3. temp[id] # "renamed"
      BY <2>0, <2>1, RecordEffect DEF TaskInv, CancelOrPublish
    <2>4. entry.total > 0 => entry.total = entry.expected
      OBVIOUS
    <2> HIDE DEF entry
    <2>5. SizeOK(id)'
      BY <2>1, <2>2, <2>3, <2>4 DEF SizeOK, TypeOK, Tested
    <2>6. \A i \in Ids \ {id} : bytes'[i] = bytes[i] /\ pc'[i] = pc[i] /\ temp'[i] = temp[i]
      BY <2>2 DEF TypeOK
    <2> QED BY <2>1, <2>5, <2>6, SizeKept
  <1>4. CASE RecordSubmitted
    BY <1>1, <1>4 DEF RecordSubmitted, workVars
  <1>5. ASSUME NEW id \in Ids, Cancel(id) \/ FireCancel(id) PROVE SizeInv'
    BY <1>1, <1>5 DEF Cancel, FireCancel, taskVars
  <1>6. ASSUME NEW id \in Ids, Work(id) PROVE SizeInv'
    BY <1>6, WorkKeepsSize
  <1>7. CASE Close \/ CancelAll \/ Drained \/ \E p \in Paths : Elsewhere(p)
    BY <1>1, <1>7 DEF Close, CancelAll, Drained, Elsewhere, taskVars, workVars
  <1>8. CASE UNCHANGED vars
    BY <1>1, <1>8 DEF vars, taskVars, workVars
  <1> QED BY <1>2, <1>3, <1>4, <1>5, <1>6, <1>7, <1>8 DEF Next, Proceed

\* A completed task reports the size that was copied and that was promised.
THEOREM WholeWhenPublished == Spec => []PublishedWhole
  <1>1. Init => SizeInv
    BY DEF Init, SizeInv, SizeOK, Tested
  <1>2. TypeOK /\ TaskInv /\ SizeInv => PublishedWhole
    BY DEF TaskInv, CancelOrPublish, SizeInv, SizeOK, Whole, PublishedWhole
  <1> QED BY <1>1, <1>2, SizePreserved, DestInvariantHolds, PTL DEF Spec

-----------------------------------------------------------------------------
(* What EveryDownloadSettles and ShutdownCompletes rest on: no goroutine    *)
(* waits for another one, and none goes round in circles.                  *)

\* The receive from the slot channel finds a value: a start that was refused and
\* a goroutine that ends never wait there, where no context could end the wait.
ReleaseNeverBlocks ==
    /\ \A id \in Ids : pc[id] = "slot" => slotsUsed > 0
    /\ \A c \in returning : slotsUsed > 0

\* The places that a goroutine has before it at most.
Ahead == [label \in Pcs |->
    CASE label = "begin"     -> 16
      [] label = "request"   -> 15
      [] label = "temp"      -> 14
      [] label = "read"      -> 13
      [] label = "stop1"     -> 12
      [] label = "sync"      -> 11
      [] label = "stop2"     -> 10
      [] label = "chmod"     -> 9
      [] label = "stop3"     -> 8
      [] label = "close"     -> 7
      [] label = "stop4"     -> 6
      [] label = "publish"   -> 5
      [] label = "cleanup"   -> 4
      [] label = "unreserve" -> 3
      [] label = "slot"      -> 2
      [] label = "wg"        -> 1
      [] OTHER               -> 0]

\* A place further on, or a chunk more of a body of at most MaxBytes chunks.
Nearer(id) ==
    \/ Ahead[pc'[id]] < Ahead[pc[id]]
    \/ pc'[id] = pc[id] /\ bytes'[id].copied > bytes[id].copied

\* Every step of a goroutine brings it nearer to its end, and no step of anything
\* else, a trim, a cancellation or a shutdown, sets it back.
GoroutinesMoveOn ==
    [][\A id \in Ids : pc[id] # "none" =>
          \/ Nearer(id)
          \/ ~Work(id) /\ pc'[id] = pc[id] /\ bytes'[id].copied = bytes[id].copied]_vars

\* A goroutine or a refused start that owns a slot is counted.
THEOREM NoReleaseBlocks == Spec => []ReleaseNeverBlocks
  <1>1. TypeOK /\ SlotInv => ReleaseNeverBlocks
    <2> SUFFICES ASSUME TypeOK, SlotInv PROVE ReleaseNeverBlocks
      OBVIOUS
    <2>1. /\ SlotOwners \subseteq Ids /\ IsFiniteSet(SlotOwners)
          /\ Cardinality(SlotOwners) \in Nat
      BY IdsFinite DEF SlotOwners
    <2>2. /\ Cardinality(holding) \in Nat /\ Cardinality(returning) \in Nat
          /\ slotsUsed = Cardinality(holding) + Cardinality(returning) + Cardinality(SlotOwners)
      BY FS_CardinalityType DEF SlotInv, SlotAccounting
    <2>3. ASSUME NEW id \in Ids, pc[id] = "slot" PROVE slotsUsed > 0
      <3>1. id \in SlotOwners
        BY <2>3 DEF SlotOwners
      <3>2. Cardinality(SlotOwners) # 0
        BY <2>1, <3>1, FS_EmptySet
      <3> QED BY <2>1, <2>2, <3>2
    <2>4. ASSUME NEW c \in returning PROVE slotsUsed > 0
      <3>1. Cardinality(returning) # 0
        BY <2>4, FS_EmptySet DEF SlotInv
      <3> QED BY <2>1, <2>2, <3>1
    <2> QED BY <2>3, <2>4 DEF ReleaseNeverBlocks
  <1>2. TaskInvariant /\ SlotInv /\ [Next]_vars => SlotInv'
    BY SlotPreserved DEF TaskInvariant
  <1>3. TaskInvariant => TypeOK
    BY DEF TaskInvariant
  <1> QED BY <1>1, <1>2, <1>3, TaskInvariantHolds, SlotInitially, PTL DEF Spec

\* Advance and Return lead further on.
LEMMA FurtherOn ==
    /\ \A label \in DOMAIN NextPc :
          NextPc[label] \in Pcs /\ Ahead[NextPc[label]] < Ahead[label]
    /\ \A label \in Program : Ahead["cleanup"] < Ahead[label] /\ Ahead["unreserve"] < Ahead[label]
  BY DEF Ahead, Pcs, NextPc, Program, StopPoints, FileSteps

LEMMA AdvanceNears ==
    ASSUME TypeOK, NEW id \in Ids, pc[id] \in DOMAIN NextPc, Advance(id)
    PROVE  Nearer(id)
  BY FurtherOn DEF Advance, Goto, Nearer, TypeOK

LEMMA ReturnNears ==
    ASSUME TypeOK, NEW id \in Ids, pc[id] \in Program, Return(id)
    PROVE  Nearer(id)
  BY FurtherOn DEF Return, Goto, Nearer, TypeOK

LEMMA WorkNears ==
    ASSUME TypeOK, NEW id \in Ids, Work(id)
    PROVE  Nearer(id)
  <1>0. Program \subseteq DOMAIN NextPc
    BY DEF Program, StopPoints, FileSteps, NextPc
  <1>1. ASSUME pc[id] \in Program, Advance(id) \/ Return(id) PROVE Nearer(id)
    BY <1>0, <1>1, AdvanceNears, ReturnNears
  <1>2. ASSUME pc[id] \in Program, NEW final, Abort(id, final) PROVE Nearer(id)
    BY <1>1, <1>2 DEF Abort
  <1>3. CASE Begin(id)
    BY <1>1, <1>3 DEF Begin, Program
  <1>4. ASSUME NEW length \in ContentLengths, Respond(id, length) PROVE Nearer(id)
    <2>1. pc[id] = "request" /\ (Abort(id, "failed") \/ Advance(id))
      BY <1>4, Zenon DEF Respond
    <2> QED BY <1>1, <1>2, <2>1 DEF Program
  <1>5. CASE RequestFails(id) \/ CopyFails(id)
    BY <1>2, <1>5 DEF RequestFails, CopyFails, NetworkError, Program
  <1>6. CASE CreateTemp(id) \/ FinishFile(id) \/ EndOfBody(id)
    BY <1>1, <1>2, <1>6 DEF CreateTemp, FinishFile, EndOfBody, Program
  <1>7. CASE Copy(id)
    <2>1. pc' = pc /\ bytes' = [bytes EXCEPT ![id].copied = @ + 1]
      BY <1>7 DEF Copy
    <2>2. bytes'[id].copied = bytes[id].copied + 1 /\ bytes[id].copied \in Nat
      BY <2>1, ConstantsAssumption DEF TypeOK
    <2> QED BY <2>1, <2>2 DEF Nearer
  <1>8. CASE StopCheck(id)
    BY <1>1, <1>2, <1>8 DEF StopCheck, Program
  <1>9. CASE Publish(id)
    BY <1>1, <1>2, <1>9 DEF Publish, Program
  <1>10. CASE RemoveTemp(id) \/ Unreserve(id) \/ ReleaseSlot(id) \/ WorkerDone(id)
    <2>1. pc[id] \in DOMAIN NextPc /\ Advance(id)
      BY <1>10 DEF RemoveTemp, Unreserve, ReleaseSlot, WorkerDone, NextPc
    <2> QED BY <2>1, AdvanceNears
  <1> QED BY <1>3, <1>4, <1>5, <1>6, <1>7, <1>8, <1>9, <1>10 DEF Work

\* The steps of others leave a goroutine and its body where they are.
LEMMA OthersLeave ==
    ASSUME TypeOK, TaskInv, [Next]_vars, NEW id \in Ids, pc[id] # "none", ~Work(id)
    PROVE  pc'[id] = pc[id] /\ bytes'[id].copied = bytes[id].copied
  <1>1. ASSUME NEW c \in Starters, NEW name \in Names, NEW size \in DeclaredSizes,
               Register(c, name, size)
        PROVE  pc'[id] = pc[id] /\ bytes'[id] = bytes[id]
    <2>1. id # next + 1
      BY DEF TypeOK, TaskInv, TasksMatchWorkers
    <2> QED BY <1>1, <2>1 DEF Register, TypeOK
  <1>2. ASSUME NEW i \in Ids, Work(i) PROVE pc'[id] = pc[id] /\ bytes'[id] = bytes[id]
    <2>1. i # id
      BY <1>2
    <2>2. bytes'[id] = bytes[id]
      BY <1>2, <2>1 DEF Work, Begin, Respond, RequestFails, CreateTemp, Copy, EndOfBody, CopyFails,
           StopCheck, FinishFile, Publish, RemoveTemp, Unreserve, ReleaseSlot, WorkerDone,
           NetworkError, Abort, taskVars, TypeOK
    <2>3. pc'[id] = pc[id]
      BY <1>2, <2>1 DEF Work, Begin, Respond, RequestFails, CreateTemp, Copy, EndOfBody, CopyFails,
           StopCheck, FinishFile, Publish, RemoveTemp, Unreserve, ReleaseSlot, WorkerDone,
           NetworkError, Abort, Advance, Return, Goto, TypeOK
    <2> QED BY <2>2, <2>3
  <1>3. CASE UNCHANGED <<pc, bytes>>
    BY <1>3
  <1>4. CASE UNCHANGED vars
    BY <1>3, <1>4 DEF vars, taskVars, workVars
  <1>5. ASSUME NEW c \in Starters, TakeSlot(c) \/ GiveBack(c) \/ \E name \in Names : Refuse(c, name)
        PROVE  UNCHANGED <<pc, bytes>>
    BY <1>5 DEF TakeSlot, GiveBack, Refuse, taskVars, workVars
  <1>6. ASSUME NEW i \in Ids, Cancel(i) \/ FireCancel(i) PROVE UNCHANGED <<pc, bytes>>
    BY <1>6 DEF Cancel, FireCancel, taskVars
  <1>7. ASSUME RecordSubmitted \/ Close \/ CancelAll \/ Drained \/ \E p \in Paths : Elsewhere(p)
        PROVE  UNCHANGED <<pc, bytes>>
    BY <1>7 DEF RecordSubmitted, Close, CancelAll, Drained, Elsewhere, taskVars, workVars
  <1> QED BY <1>1, <1>2, <1>3, <1>4, <1>5, <1>6, <1>7 DEF Next, Proceed

\* No goroutine goes round in circles, and nobody else sets one back: fairness of
\* its own steps is all that its end takes.
THEOREM NoGoroutineCircles == Spec => GoroutinesMoveOn
  <1>1. TaskInvariant /\ [Next]_vars =>
          [\A id \in Ids : pc[id] # "none" =>
              \/ Nearer(id)
              \/ ~Work(id) /\ pc'[id] = pc[id] /\ bytes'[id].copied = bytes[id].copied]_vars
    BY WorkNears, OthersLeave DEF TaskInvariant
  <1> QED BY <1>1, TaskInvariantHolds, PTL DEF Spec, GoroutinesMoveOn
=============================================================================
