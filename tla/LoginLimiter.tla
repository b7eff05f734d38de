---------------------------- MODULE LoginLimiter ----------------------------
(***************************************************************************)
(* The limiter of failed logins in internal/websession/http.go.            *)
(*                                                                         *)
(* LoginHandler asks the limiter, then checks the password, which takes    *)
(* long, and tells the limiter afterwards; each of the two is a critical   *)
(* section of Auth.mu.  Whether the password is right is up to the client. *)
(***************************************************************************)
EXTENDS Integers, FiniteSets

CONSTANTS
    Requests,     \* goroutines inside LoginHandler at one time
    Remotes,      \* addresses requests come from
    MaxFailures,  \* maxLoginFailures
    MaxEntries,   \* maxLoginFailureEntries
    Window,       \* loginFailureWindow
    MaxNow        \* bound: how far the clock runs (the code has none)

ASSUME ConstantsAssumption ==
    /\ IsFiniteSet(Requests) /\ Requests # {}
    /\ MaxFailures \in Nat \ {0}
    /\ MaxEntries \in Nat \ {0}
    /\ Window \in Nat \ {0}
    /\ MaxNow \in Nat

NoEntry == [count |-> 0, since |-> 0]
Nobody  == "nobody"

ASSUME NobodyAssumption == Nobody \notin Remotes

VARIABLES
    failures,  \* Auth.failures, NoEntry for a remote that has none
    checking,  \* the remote whose password a request is checking
    now        \* Auth.now()

vars == <<failures, checking, now>>

Init ==
    /\ failures = [a \in Remotes |-> NoEntry]
    /\ checking = [r \in Requests |-> Nobody]
    /\ now = 0

Entries(f)  == {a \in Remotes : f[a].count > 0}
InFlight(a) == {r \in Requests : checking[r] = a}

-----------------------------------------------------------------------------
\* A window that ends a step early.
PrunedEarly(f) ==
    [a \in Remotes |-> IF f[a].count > 0 /\ now >= f[a].since + Window - 1
                       THEN NoEntry ELSE f[a]]

\* pruneFailuresLocked
Pruned(f) ==
    [a \in Remotes |-> IF f[a].count > 0 /\ now >= f[a].since + Window
                       THEN NoEntry ELSE f[a]]

\* A threshold that is off by one.
LimitedLate(f, a) == f[a].count > MaxFailures

Limited(f, a) == f[a].count >= MaxFailures

\* rateLimited lets the request through to the password check.
Admit(r, a) ==
    /\ checking[r] = Nobody
    /\ ~Limited(Pruned(failures), a)
    /\ failures' = Pruned(failures)
    /\ checking' = [checking EXCEPT ![r] = a]
    /\ UNCHANGED now

\* ... or turns it away.
TurnAway(r, a) ==
    /\ checking[r] = Nobody
    /\ Limited(Pruned(failures), a)
    /\ failures' = Pruned(failures)
    /\ UNCHANGED <<checking, now>>

\* evictOldestFailureLocked, which breaks ties by the remotes' names.
MadeRoom(f, a) ==
    IF f[a].count > 0 \/ Cardinality(Entries(f)) < MaxEntries
    THEN {f}
    ELSE {[f EXCEPT ![b] = NoEntry] :
              b \in {b \in Entries(f) : \A c \in Entries(f) : f[b].since <= f[c].since}}

\* recordFailure
RecordFailure(r) ==
    LET a == checking[r]
    IN  /\ a # Nobody
        /\ \E f \in MadeRoom(Pruned(failures), a) :
              failures' = [f EXCEPT ![a] =
                  [count |-> @.count + 1, since |-> IF @.count = 0 THEN now ELSE @.since]]
        /\ checking' = [checking EXCEPT ![r] = Nobody]
        /\ UNCHANGED now

\* clearFailures, after a login that succeeded.
Succeed(r) ==
    /\ checking[r] # Nobody
    /\ failures' = [failures EXCEPT ![checking[r]] = NoEntry]
    /\ checking' = [checking EXCEPT ![r] = Nobody]
    /\ UNCHANGED now

\* The body is no login, or the process of the request ends.
Abandon(r) ==
    /\ checking[r] # Nobody
    /\ checking' = [checking EXCEPT ![r] = Nobody]
    /\ UNCHANGED <<failures, now>>

Tick ==
    /\ now < MaxNow
    /\ now' = now + 1
    /\ UNCHANGED <<failures, checking>>

Next ==
    \/ \E r \in Requests :
          \/ \E a \in Remotes : Admit(r, a) \/ TurnAway(r, a)
          \/ RecordFailure(r) \/ Succeed(r) \/ Abandon(r)
    \/ Tick

Spec == Init /\ [][Next]_vars

-----------------------------------------------------------------------------
(* Properties. *)

\* The state is well typed.
TypeOK ==
    /\ failures \in [Remotes -> [count : Nat, since : 0 .. MaxNow]]
    /\ checking \in [Requests -> Remotes \cup {Nobody}]
    /\ now \in 0 .. MaxNow

\* A remote exceeds the threshold by no more than the requests that were
\* admitted together before the last of the failures that count was recorded.
OvershootBounded ==
    \A a \in Remotes :
        failures[a].count + Cardinality(InFlight(a))
            <= MaxFailures - 1 + Cardinality(Requests)

\* A remote that is over the threshold is let in again only when its window has
\* ended, by a login of its own that succeeds, or because the table is full.
LockedForWindow ==
    [][\A a \in Remotes :
          /\ failures[a].count >= MaxFailures
          /\ failures'[a].count < MaxFailures
          => \/ now >= failures[a].since + Window
             \/ \E r \in InFlight(a) : checking'[r] = Nobody
             \/ Cardinality(Entries(failures)) >= MaxEntries]_vars
=============================================================================
