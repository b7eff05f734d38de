------------------------------ MODULE Licensing ------------------------------
(***************************************************************************)
(* The manager's authorisation store, internal/licensing/store.go:         *)
(* licenses, one-time authorisation codes and the devices they activate.   *)
(*                                                                         *)
(* Every call holds Store.mu from its first check to its return, so a call *)
(* is one step: it computes the next contents of the store from the        *)
(* present ones and commits them, to the file first and to memory then.    *)
(* The process can die at any moment, between those two writes included.   *)
(* A rejected call, and one whose file cannot be written, change nothing   *)
(* and are stuttering steps.                                               *)
(***************************************************************************)
EXTENDS Integers, FiniteSets

CONSTANTS
    Licenses,       \* license ids
    Codes,          \* authorisation codes, by their digests
    Installations,  \* installation ids clients present
    Keys,           \* public keys clients present
    Lease,          \* Store.leaseDuration
    Limits,         \* device limits a manager may ask for
    MaxTokens,      \* bound: device tokens ever generated (the code has none)
    MaxNow          \* bound: how far the clock runs (the code has none)

ASSUME ConstantsAssumption ==
    /\ IsFiniteSet(Licenses) /\ IsFiniteSet(Installations) /\ IsFiniteSet(Keys)
    /\ Lease \in Nat \ {0}
    /\ Limits \subseteq Nat \ {0}
    /\ MaxTokens \in Nat /\ MaxNow \in Nat

Never    == -1                \* a nil ExpiresAt
NoToken  == 0                 \* an empty TokenDigest
NoDevice == << >>              \* an empty DeviceID
Times    == 0 .. MaxNow
Expiries == {Never} \cup Times

\* findLicenseDevice identifies a device by these three fields, and Activate
\* creates a record only where it finds none.
Devices == Licenses \X Installations \X Keys
LicenseOf(d)      == d[1]
InstallationOf(d) == d[2]
KeyOf(d)          == d[3]

VARIABLES
    store,   \* Store.state
    disk,    \* the contents of the store's file
    up,      \* the process runs
    issued,  \* tokens 1 .. issued have been generated
    now      \* Store.now()

vars == <<store, disk, up, issued, now>>

EmptyStore ==
    [licenses |-> [l \in Licenses |->
                     [status |-> "none", expires |-> Never, limit |-> 0]],
     codes    |-> [c \in Codes |->
                     [status |-> "none", license |-> "none", device |-> NoDevice]],
     devices  |-> [d \in Devices |->
                     [status |-> "none", token |-> NoToken, lease |-> 0]]]

Init ==
    /\ store = EmptyStore
    /\ disk = EmptyStore
    /\ up = TRUE
    /\ issued = 0
    /\ now = 0

-----------------------------------------------------------------------------
(* What the calls read: all of it from the store s they are given.         *)

\* validateLicenseUsable, of a license that exists.
Usable(s, l) ==
    /\ s.licenses[l].status = "active"
    /\ s.licenses[l].expires = Never \/ now < s.licenses[l].expires

ActiveDevices(s, l) ==
    {d \in Devices : LicenseOf(d) = l /\ s.devices[d].status = "active"}

\* A conflict check that forgets devices once they are released.
ActiveConflict(s, i, k) ==
    \E d \in Devices :
        /\ s.devices[d].status = "active"
        /\ InstallationOf(d) = i /\ KeyOf(d) # k

\* findInstallationConflict looks at every record, of whatever status.
InstallationConflict(s, i, k) ==
    \E d \in Devices :
        /\ s.devices[d].status # "none"
        /\ InstallationOf(d) = i /\ KeyOf(d) # k

\* A limit check that is off by one.
HasRoomForOneMore(s, d) ==
    \/ s.devices[d].status = "active"
    \/ Cardinality(ActiveDevices(s, LicenseOf(d))) <= s.licenses[LicenseOf(d)].limit

\* Activating an active device again takes no further slot of its license.
HasRoom(s, d) ==
    \/ s.devices[d].status = "active"
    \/ Cardinality(ActiveDevices(s, LicenseOf(d))) < s.licenses[LicenseOf(d)].limit

LeaseExpiry(expires) ==
    IF expires # Never /\ expires < now + Lease THEN expires ELSE now + Lease

\* validateDeviceCredentialLocked.
CredentialValid(s, d, t) ==
    /\ s.devices[d].token = t /\ t # NoToken
    /\ Usable(s, LicenseOf(d))
    /\ s.devices[d].status = "active"

\* AuthorizeDevice, the read-only check of every catalogue request.
Authorizes(s, d, t) == CredentialValid(s, d, t) /\ now < s.devices[d].lease

-----------------------------------------------------------------------------
(* What the calls write: the next store, computed from a clone of s.       *)

WithCode(s, l, c) ==
    [s EXCEPT !.codes[c] = [status |-> "available", license |-> l, device |-> NoDevice]]

Created(s, l, expires, limit, c) ==
    WithCode([s EXCEPT !.licenses[l] =
                 [status |-> "active", expires |-> expires, limit |-> limit]], l, c)

\* A new expiry that reaches the devices with their next heartbeat only.
UpdatedLazily(s, l, expires, limit) ==
    [s EXCEPT !.licenses[l] = [@ EXCEPT !.expires = expires, !.limit = limit]]

\* UpdateLicense renews the lease of every active device of the license.
Updated(s, l, expires, limit) ==
    [s EXCEPT
        !.licenses[l] = [@ EXCEPT !.expires = expires, !.limit = limit],
        !.devices = [d \in Devices |->
            IF d \in ActiveDevices(s, l)
            THEN [s.devices[d] EXCEPT !.lease = LeaseExpiry(expires)]
            ELSE s.devices[d]]]

Activated(s, d, t, c) ==
    [s EXCEPT
        !.devices[d] = [status |-> "active", token |-> t,
                        lease |-> LeaseExpiry(s.licenses[LicenseOf(d)].expires)],
        !.codes[c] = [@ EXCEPT !.status = "consumed", !.device = d]]

Renewed(s, d) ==
    [s EXCEPT !.devices[d].lease = LeaseExpiry(s.licenses[LicenseOf(d)].expires)]

\* Revocation of the license alone.
RevokedLicenseOnly(s, l) == [s EXCEPT !.licenses[l].status = "revoked"]

Revoked(s, l) ==
    [s EXCEPT
        !.licenses[l].status = "revoked",
        !.devices = [d \in Devices |->
            IF d \in ActiveDevices(s, l)
            THEN [s.devices[d] EXCEPT !.status = "revoked"]
            ELSE s.devices[d]]]

\* A release that clears the token of a device that stays active.
TokenCleared(s, d) == [s EXCEPT !.devices[d].token = NoToken]

Released(s, d) ==
    [s EXCEPT !.devices[d] = [@ EXCEPT !.status = "released", !.token = NoToken]]

-----------------------------------------------------------------------------
\* A commit that keeps in memory what it failed to write.
CommitToMemory(next) ==
    /\ store' = next
    /\ disk' \in {next, disk}
    /\ up' = TRUE

\* commit: the file is replaced, then memory; a crash in between loses the
\* second and the answer with it.  The replacement is one rename; what
\* replaceFile does where a rename over an existing file fails is left out.
Commit(next) ==
    /\ disk' = next
    /\ \/ store' = next /\ up' = TRUE
       \/ store' = store /\ up' = FALSE

FreshExpiry(expires) == expires = Never \/ now < expires

CreateLicense(l, expires, limit, c) ==
    /\ up
    /\ FreshExpiry(expires)
    /\ store.licenses[l].status = "none"
    /\ store.codes[c].status = "none"
    /\ Commit(Created(store, l, expires, limit, c))
    /\ UNCHANGED <<issued, now>>

\* Also of a license that has expired: that is how it is prolonged.
UpdateLicense(l, expires, limit) ==
    /\ up
    /\ store.licenses[l].status = "active"
    /\ limit >= Cardinality(ActiveDevices(store, l))
    /\ FreshExpiry(expires)
    /\ Commit(Updated(store, l, expires, limit))
    /\ UNCHANGED <<issued, now>>

IssueCode(l, c) ==
    /\ up
    /\ Usable(store, l)
    /\ store.codes[c].status = "none"
    /\ Commit(WithCode(store, l, c))
    /\ UNCHANGED <<issued, now>>

\* A code check that accepts a code its own device has spent.
CodeKnown(s, c) == s.codes[c].status # "none"

CodeAccepted(s, c) == s.codes[c].status = "available"

Activate(c, i, k) ==
    LET d == <<store.codes[c].license, i, k>>
    IN  /\ up
        /\ CodeAccepted(store, c)
        /\ Usable(store, LicenseOf(d))
        /\ ~InstallationConflict(store, i, k)
        /\ HasRoom(store, d)
        /\ issued < MaxTokens
        /\ issued' = issued + 1
        /\ Commit(Activated(store, d, issued', c))
        /\ UNCHANGED now

\* Whether or not the lease has run out.
Heartbeat(d, t) ==
    /\ up
    /\ CredentialValid(store, d, t)
    /\ Commit(Renewed(store, d))
    /\ UNCHANGED <<issued, now>>

RevokeLicense(l) ==
    /\ up
    /\ store.licenses[l].status = "active"
    /\ Commit(Revoked(store, l))
    /\ UNCHANGED <<issued, now>>

ReleaseDevice(d) ==
    /\ up
    /\ store.devices[d].status \in {"active", "revoked"}
    /\ Commit(Released(store, d))
    /\ UNCHANGED <<issued, now>>

\* validateDiskState, and the tokens of active devices that NewStore decrypts:
\* a file that fails it keeps the manager from starting.
Loadable(s) ==
    /\ \A l \in Licenses : s.licenses[l].status # "none" => s.licenses[l].limit > 0
    /\ \A c \in Codes : s.codes[c].status # "none" =>
          /\ s.codes[c].license \in Licenses
          /\ s.licenses[s.codes[c].license].status # "none"
          /\ s.codes[c].status = "consumed" =>
                /\ s.codes[c].device \in Devices
                /\ s.devices[s.codes[c].device].status # "none"
                /\ LicenseOf(s.codes[c].device) = s.codes[c].license
    /\ \A d \in Devices :
          /\ s.devices[d].status # "none" => s.licenses[LicenseOf(d)].status # "none"
          /\ s.devices[d].status = "active" => s.devices[d].token # NoToken

Crash ==
    /\ up
    /\ up' = FALSE
    /\ UNCHANGED <<store, disk, issued, now>>

\* NewStore and load.
Restart ==
    /\ ~up
    /\ Loadable(disk)
    /\ store' = disk
    /\ up' = TRUE
    /\ UNCHANGED <<disk, issued, now>>

Tick ==
    /\ now < MaxNow
    /\ now' = now + 1
    /\ UNCHANGED <<store, disk, up, issued>>

Manage ==
    \/ \E l \in Licenses, e \in Expiries, n \in Limits, c \in Codes :
          CreateLicense(l, e, n, c)
    \/ \E l \in Licenses, e \in Expiries, n \in Limits : UpdateLicense(l, e, n)
    \/ \E l \in Licenses, c \in Codes : IssueCode(l, c)
    \/ \E l \in Licenses : RevokeLicense(l)
    \/ \E d \in Devices : ReleaseDevice(d)

Serve ==
    \/ \E c \in Codes, i \in Installations, k \in Keys : Activate(c, i, k)
    \/ \E d \in Devices, t \in 1 .. MaxTokens : Heartbeat(d, t)

Next == Manage \/ Serve \/ Crash \/ Restart \/ Tick

Spec == Init /\ [][Next]_vars

-----------------------------------------------------------------------------
(* Properties.  Those of a store hold of what is in memory and, so that no *)
(* crash can bring something else back, of what is in the file.            *)

LicenseRecords == [status  : {"none", "active", "revoked"},
                   expires : Expiries,
                   limit   : Nat]
CodeRecords    == [status  : {"none", "available", "consumed"},
                   license : Licenses \cup {"none"},
                   device  : Devices \cup {NoDevice}]
DeviceRecords  == [status : {"none", "active", "released", "revoked"},
                   token  : 0 .. MaxTokens,
                   lease  : 0 .. MaxNow + Lease]
StoreType      == [licenses : [Licenses -> LicenseRecords],
                   codes    : [Codes -> CodeRecords],
                   devices  : [Devices -> DeviceRecords]]

\* The store, in memory and in the file, is well typed.
TypeOK ==
    /\ store \in StoreType
    /\ disk \in StoreType
    /\ up \in BOOLEAN
    /\ issued \in 0 .. MaxTokens
    /\ now \in Times

\* A license never has more active devices than its limit, whatever order
\* activations, releases and changes of the limit come in.
LimitKept(s) ==
    \A l \in Licenses : Cardinality(ActiveDevices(s, l)) <= s.licenses[l].limit
WithinLimit == LimitKept(store) /\ LimitKept(disk)

\* A revoked license has no active device left.
RevocationReaches(s) ==
    \A l \in Licenses : s.licenses[l].status # "active" => ActiveDevices(s, l) = {}
RevokedHasNoDevice == RevocationReaches(store) /\ RevocationReaches(disk)

\* No active device holds a lease that runs past its license's expiry, also
\* after the expiry has been brought forward.
LeaseBounded(s) ==
    \A d \in Devices :
        LET e == s.licenses[LicenseOf(d)].expires
        IN  s.devices[d].status = "active" /\ e # Never => s.devices[d].lease <= e
LeaseWithinExpiry == LeaseBounded(store) /\ LeaseBounded(disk)

\* An installation id stays bound to the first key that activated it, in all
\* licenses and after its devices are released.
OneKey(s) ==
    \A d, e \in Devices :
        /\ s.devices[d].status # "none" /\ s.devices[e].status # "none"
        /\ InstallationOf(d) = InstallationOf(e)
        => KeyOf(d) = KeyOf(e)
OneKeyPerInstallation == OneKey(store) /\ OneKey(disk)

\* Whatever commit has written, NewStore accepts: a restart always succeeds.
RestartSucceeds == Loadable(disk)

\* Between two calls the file holds what memory holds: what a call has
\* acknowledged survives a crash.
DurableWhenAnswered == up => disk = store

\* The licenses, codes and seats that the file holds.
Status == [l \in Licenses |-> disk.licenses[l].status]
Limit  == [l \in Licenses |-> disk.licenses[l].limit]
Code   == [c \in Codes |-> <<disk.codes[c].status, disk.codes[c].license>>]
Seated == {d \in Devices : disk.devices[d].status = "active"}
Known  == {d \in Devices : disk.devices[d].status # "none"}

Contract == INSTANCE SeatContract WITH
    status <- Status, limit <- Limit, code <- Code, seated <- Seated, known <- Known

\* Every call takes effect at one instant, when its file is replaced, and as
\* the contract of seats and codes says; heartbeats, prolongations, crashes at
\* any moment and restarts have no effect of their own on seats and codes.
ImplementsContract == Contract!Spec

\* A code that has been spent stays spent, for the device it activated.
CodeSpentOnce ==
    [][\A c \in Codes :
          disk.codes[c].status = "consumed" => disk'.codes[c] = disk.codes[c]]_vars

\* A device becomes active, or gets another token, only in a step that spends
\* an available code of its license on it.
ActivationSpendsCode ==
    [][\A d \in Devices :
          /\ disk'.devices[d].status = "active"
          /\ \/ disk.devices[d].status # "active"
             \/ disk'.devices[d].token # disk.devices[d].token
          => \E c \in Codes :
                /\ disk.codes[c].status = "available"
                /\ disk.codes[c].license = LicenseOf(d)
                /\ disk'.codes[c].status = "consumed"
                /\ disk'.codes[c].device = d]_vars

\* A revoked license is revoked for good: its devices are never active again.
RevokedForGood ==
    [][\A l \in Licenses :
          disk.licenses[l].status = "revoked" =>
             /\ disk'.licenses[l].status = "revoked"
             /\ ActiveDevices(disk', l) = {}]_vars

\* A credential that was refused for its lease alone is accepted again only
\* once its own heartbeat has renewed the lease.
LeaseRenewedByDevice ==
    [][\A d \in Devices, t \in 1 .. MaxTokens :
          /\ CredentialValid(store, d, t)
          /\ ~Authorizes(store, d, t)
          /\ Authorizes(store', d, t)
          => Heartbeat(d, t) \/ Restart]_vars
=============================================================================
