------------------------------ MODULE StateFile ------------------------------
(***************************************************************************)
(* How a store replaces its file: writeDiskState, replaceFile and load of  *)
(* internal/licensing, atomicWrite and Open of internal/downloaderconfig.  *)
(* The new state is written aside and renamed over the old file; where the *)
(* file system refuses that, the old file is first moved to ".previous".   *)
(* The two stores differ in what a start does when only the backup is      *)
(* left: licensing restores it, downloaderconfig does not look at it.      *)
(*                                                                         *)
(* A rename onto an existing file may be refused at any time: it is what   *)
(* the fallback is for.  Every other operation fails only as a fault, and  *)
(* MaxFaults of them happen.  The caller holds the lock of the store.      *)
(***************************************************************************)
EXTENDS Naturals

CONSTANTS
    Values,     \* states that are saved
    None,
    Recovers,   \* a start restores the backup
    MaxFaults   \* operations that fail for no reason of the store's

ASSUME StateFileAssumption ==
    /\ None \notin Values
    /\ Recovers \in BOOLEAN
    /\ MaxFaults \in Nat

VARIABLES
    main,    \* the file
    prev,    \* the file with the suffix .previous
    memory,  \* the state the store works with; None: nothing saved
    pc,      \* the next operation of the save in progress
    new,     \* its temporary file
    faults   \* operations that have failed

vars == <<main, prev, memory, pc, new, faults>>

Init ==
    /\ main = None /\ prev = None /\ memory = None
    /\ pc = "idle" /\ new = None /\ faults = 0

Fault == faults < MaxFaults /\ faults' = faults + 1
Works == faults' = faults

\* commit or SaveVerified with the next state.
Begin(v) ==
    /\ pc = "idle"
    /\ pc' = "write" /\ new' = v
    /\ UNCHANGED <<main, prev, memory, faults>>

\* The error is returned, with memory as it was; the temporary file is removed.
Fail == pc' = "idle" /\ new' = None

\* Making, writing, syncing and closing the temporary file.
Write ==
    /\ pc = "write"
    /\ \/ pc' = "rename" /\ Works /\ UNCHANGED new
       \/ Fault /\ Fail
    /\ UNCHANGED <<main, prev, memory>>

\* The first rename, which is all there is in the usual case.
Rename ==
    /\ pc = "rename"
    /\ main' = new /\ pc' = "commit"
    /\ UNCHANGED <<prev, memory, new, faults>>

Refused ==
    /\ pc = "rename"
    /\ IF main # None THEN Works ELSE Fault
    /\ pc' = "clear"
    /\ UNCHANGED <<main, prev, memory, new>>

\* An old backup is removed, an error ignored.
Clear ==
    /\ pc = "clear"
    /\ \/ prev' = None /\ Works
       \/ Fault /\ UNCHANGED prev
    /\ pc' = "retire"
    /\ UNCHANGED <<main, memory, new>>

\* The file becomes the backup; that there is none is no error.
Retire ==
    /\ pc = "retire"
    /\ pc' = "replace"
    /\ prev' = IF main # None THEN main ELSE prev
    /\ main' = None
    /\ UNCHANGED <<memory, new, faults>>

RetireFails ==
    /\ pc = "retire" /\ main # None
    /\ IF prev # None THEN Works ELSE Fault
    /\ Fail
    /\ UNCHANGED <<main, prev, memory>>

Replace ==
    /\ pc = "replace"
    /\ \/ main' = new /\ pc' = "tidy" /\ Works
       \/ Fault /\ pc' = "putback" /\ UNCHANGED main
    /\ UNCHANGED <<prev, memory, new>>

\* ... when the error is returned without restoring the old file
NoPutBack ==
    /\ pc = "putback"
    /\ Fail
    /\ UNCHANGED <<main, prev, memory, faults>>

\* The backup is renamed back, an error ignored.
PutBack ==
    /\ pc = "putback"
    /\ \/ main' = prev /\ prev' = None /\ Works
       \/ prev # None /\ Fault /\ UNCHANGED <<main, prev>>
    /\ Fail
    /\ UNCHANGED memory

\* The backup is removed, an error ignored.
Tidy ==
    /\ pc = "tidy"
    /\ \/ prev' = None /\ Works
       \/ Fault /\ UNCHANGED prev
    /\ pc' = "commit"
    /\ UNCHANGED <<main, memory, new>>

\* The store takes the new state over.
Commit ==
    /\ pc = "commit"
    /\ memory' = new /\ new' = None /\ pc' = "idle"
    /\ UNCHANGED <<main, prev, faults>>

\* The process ends, at any point.
Crash ==
    /\ pc # "down"
    /\ pc' = "down" /\ memory' = None /\ new' = None
    /\ UNCHANGED <<main, prev, faults>>

\* A start.  Without a file licensing renames the backup back; if it cannot,
\* the process does not start.
Load(recovers) ==
    /\ pc = "down"
    /\ LET restores == main = None /\ recovers /\ prev # None
       IN  \/ /\ ~restores
              /\ memory' = main /\ pc' = "idle"
              /\ UNCHANGED <<main, prev, faults>>
           \/ /\ restores
              /\ main' = prev /\ prev' = None /\ memory' = prev /\ pc' = "idle"
              /\ Works
           \/ /\ restores
              /\ Fault
              /\ UNCHANGED <<main, prev, memory, pc>>
    /\ UNCHANGED new

Saving ==
    \/ Write \/ Rename \/ Refused \/ Clear \/ Retire \/ RetireFails
    \/ Replace \/ PutBack \/ Tidy \/ Commit

Next == (\E v \in Values : Begin(v)) \/ Saving \/ Crash \/ Load(Recovers)

Spec == Init /\ [][Next]_vars

-----------------------------------------------------------------------------
(* Properties *)

Steps == {"write", "rename", "clear", "retire", "replace", "putback", "tidy", "commit"}

TypeOK ==
    /\ {main, prev, memory, new} \subseteq Values \cup {None}
    /\ pc \in Steps \cup {"idle", "down"}
    /\ faults \in 0..MaxFaults

\* What a start would find.
Stored == IF main = None /\ Recovers THEN prev ELSE main

\* With at most two faults each save is atomic, and its answer true, through
\* refused renames and crashes at any point: what a start would find changes
\* only when a save takes effect, and an error leaves it as it was.  That is
\* what the licensing store's commit relies on.
Abstract == INSTANCE AtomicFile WITH
    file    <- Stored,
    memory  <- IF pc = "down" THEN Stored ELSE memory,
    pending <- new

SavesAtomically == Abstract!Spec
=============================================================================
