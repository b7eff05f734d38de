--------------------------- MODULE AccountContract ---------------------------
(***************************************************************************)
(* What the local account promises those who log in, without hashes,       *)
(* generations, locks or restarts: a login and a change of the credentials *)
(* each happen at one instant.  A login adds a session of the account of   *)
(* that instant, under a token never used before; the account changes only *)
(* at the hands of somebody with a live session, and then all of them end. *)
(***************************************************************************)
EXTENDS Integers, FiniteSets

CONSTANTS Accounts, Bootstrap, NoFile, Tokens, TTL, MaxSessions

VARIABLES
    account,  \* the account of this data volume, or NoFile
    live,     \* sessions, by token, user and end
    used,     \* tokens given out so far
    now
contractVars == <<account, live, used, now>>

Init == account = NoFile /\ live = {} /\ used = {} /\ now = 0

Create ==
    /\ account = NoFile
    /\ account' \in Bootstrap
    /\ UNCHANGED <<live, used, now>>

LogIn(token) ==
    /\ account # NoFile
    /\ token \notin used
    /\ used' = used \cup {token}
    /\ \E kept \in SUBSET live :
          live' = kept \cup {[token |-> token, user |-> account.user, expires |-> now + TTL]}
    /\ Cardinality(live') <= MaxSessions
    /\ UNCHANGED <<account, now>>

\* What follows does not ask for a new password again.
Change(s) ==
    /\ now < s.expires /\ s.user = account.user
    /\ account' \in Accounts /\ ~account'.mustChange
    /\ live' = {}
    /\ UNCHANGED <<used, now>>

\* Sessions end by a logout, by their age, or with the process.
End ==
    /\ live' \in SUBSET live
    /\ UNCHANGED <<account, used, now>>

Pass ==
    /\ now' = now + 1
    /\ UNCHANGED <<account, live, used>>

Next ==
    \/ Create \/ End \/ Pass
    \/ \E token \in Tokens : LogIn(token)
    \/ \E s \in live : Change(s)

Spec == Init /\ [][Next]_contractVars
=============================================================================
