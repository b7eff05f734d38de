----------------------------- MODULE SeatContract -----------------------------
(***************************************************************************)
(* What the manager's store promises its customers, without tokens,        *)
(* leases, clocks, files or crashes: a license is a number of seats.  Each *)
(* code seats one installation once; an installation stays with the key it *)
(* was first seated with; a revoked license has no seat and gets none.     *)
(***************************************************************************)
EXTENDS Naturals, FiniteSets

CONSTANTS Licenses, Codes, Devices, Limits

VARIABLES
    status,  \* of each license: "none", "active" or "revoked"
    limit,   \* its number of seats
    code,    \* of each code: "none", "available" or "consumed", and its license
    seated,  \* the devices that have a seat, <<license, installation, key>>
    known    \* the devices that ever had one
contractVars == <<status, limit, code, seated, known>>

Init ==
    /\ status = [l \in Licenses |-> "none"] /\ limit = [l \in Licenses |-> 0]
    /\ code = [c \in Codes |-> <<"none", "none">>]
    /\ seated = {} /\ known = {}

Seats(l) == {d \in seated : d[1] = l}

Sell(l, n, c) ==
    /\ status[l] = "none" /\ code[c][1] = "none"
    /\ status' = [status EXCEPT ![l] = "active"]
    /\ limit' = [limit EXCEPT ![l] = n]
    /\ code' = [code EXCEPT ![c] = <<"available", l>>]
    /\ UNCHANGED <<seated, known>>

\* Nobody loses a seat by a lower limit.
Resize(l, n) ==
    /\ status[l] = "active"
    /\ Cardinality(Seats(l)) <= n
    /\ limit' = [limit EXCEPT ![l] = n]
    /\ UNCHANGED <<status, code, seated, known>>

Offer(l, c) ==
    /\ status[l] = "active" /\ code[c][1] = "none"
    /\ code' = [code EXCEPT ![c] = <<"available", l>>]
    /\ UNCHANGED <<status, limit, seated, known>>

Take(c, d) ==
    /\ code[c] = <<"available", d[1]>>
    /\ status[d[1]] = "active"
    /\ \A e \in known : e[2] = d[2] => e[3] = d[3]
    /\ d \notin seated => Cardinality(Seats(d[1])) < limit[d[1]]
    /\ code' = [code EXCEPT ![c] = <<"consumed", d[1]>>]
    /\ seated' = seated \cup {d}
    /\ known' = known \cup {d}
    /\ UNCHANGED <<status, limit>>

Leave(d) ==
    /\ seated' = seated \ {d}
    /\ UNCHANGED <<status, limit, code, known>>

Revoke(l) ==
    /\ status[l] = "active"
    /\ status' = [status EXCEPT ![l] = "revoked"]
    /\ seated' = seated \ Seats(l)
    /\ UNCHANGED <<limit, code, known>>

Next ==
    \/ \E l \in Licenses, n \in Limits, c \in Codes : Sell(l, n, c)
    \/ \E l \in Licenses, n \in Limits : Resize(l, n)
    \/ \E l \in Licenses, c \in Codes : Offer(l, c)
    \/ \E c \in Codes, d \in Devices : Take(c, d)
    \/ \E d \in Devices : Leave(d)
    \/ \E l \in Licenses : Revoke(l)

Spec == Init /\ [][Next]_contractVars
=============================================================================
