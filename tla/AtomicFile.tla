----------------------------- MODULE AtomicFile -----------------------------
(***************************************************************************)
(* What a store asks of its file: a save takes effect at one instant or    *)
(* not at all, the answer says which, and after a crash the program starts *)
(* with what the file holds.                                               *)
(***************************************************************************)
CONSTANTS Values, None

VARIABLES
    file,     \* what a start would load
    memory,   \* what the program works with
    pending   \* the value being saved, or None

vars == <<file, memory, pending>>

Init == file = None /\ memory = None /\ pending = None

Begin ==
    /\ pending = None
    /\ pending' \in Values
    /\ UNCHANGED <<file, memory>>

TakeEffect ==
    /\ pending # None /\ file # pending
    /\ file' = pending
    /\ UNCHANGED <<memory, pending>>

Succeed ==
    /\ pending # None /\ file = pending
    /\ memory' = pending /\ pending' = None
    /\ UNCHANGED file

Fail ==
    /\ pending # None /\ file = memory
    /\ pending' = None
    /\ UNCHANGED <<file, memory>>

Crash ==
    /\ memory' = file /\ pending' = None
    /\ UNCHANGED file

Next == Begin \/ TakeEffect \/ Succeed \/ Fail \/ Crash

Spec == Init /\ [][Next]_vars
=============================================================================
