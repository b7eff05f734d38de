--------------------------- MODULE DownloadContract ---------------------------
(***************************************************************************)
(* What the transfer service promises of its remote downloads, without     *)
(* tables, goroutines, contexts or temporary files: a download is accepted *)
(* while the service is open and fewer than Slots are in progress; in one  *)
(* step it then either appears whole at a destination that holds no other  *)
(* download, or is cancelled, or fails; and that outcome is final.         *)
(***************************************************************************)
EXTENDS FiniteSets, Naturals

CONSTANTS Ids, Paths, Slots, NoFile, Foreign

VARIABLES outcome, shelf, accepting
contractVars == <<outcome, shelf, accepting>>

InProgress == {id \in Ids : outcome[id] = "active"}

Init ==
    /\ outcome = [id \in Ids |-> "none"]
    /\ shelf = [p \in Paths |-> NoFile]
    /\ accepting = TRUE

Accept(id) ==
    /\ accepting
    /\ outcome[id] = "none"
    /\ Cardinality(InProgress) < Slots
    /\ outcome' = [outcome EXCEPT ![id] = "active"]
    /\ UNCHANGED <<shelf, accepting>>

\* A task another downloader works on is only recorded.
Note(id) ==
    /\ outcome[id] = "none"
    /\ outcome' = [outcome EXCEPT ![id] = "submitted"]
    /\ UNCHANGED <<shelf, accepting>>

Deliver(id, p) ==
    /\ outcome[id] = "active"
    /\ shelf[p] \notin Ids
    /\ outcome' = [outcome EXCEPT ![id] = "published"]
    /\ shelf' = [shelf EXCEPT ![p] = id]
    /\ UNCHANGED accepting

Drop(id, how) ==
    /\ outcome[id] = "active"
    /\ how \in {"cancelled", "failed"}
    /\ outcome' = [outcome EXCEPT ![id] = how]
    /\ UNCHANGED <<shelf, accepting>>

StopAccepting ==
    /\ accepting
    /\ accepting' = FALSE
    /\ UNCHANGED <<outcome, shelf>>

\* The target directory belongs to the customer.
Rearrange(p) ==
    /\ shelf' = [shelf EXCEPT ![p] = IF @ = NoFile THEN Foreign ELSE NoFile]
    /\ UNCHANGED <<outcome, accepting>>

Next ==
    \/ \E id \in Ids :
          \/ Accept(id)
          \/ Note(id)
          \/ \E p \in Paths : Deliver(id, p)
          \/ \E how \in {"cancelled", "failed"} : Drop(id, how)
    \/ StopAccepting
    \/ \E p \in Paths : Rearrange(p)

Spec == Init /\ [][Next]_contractVars
=============================================================================
