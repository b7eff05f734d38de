----------------------------- MODULE QBSettings -----------------------------
(***************************************************************************)
(* The qBittorrent settings of a client: the requests that test and save   *)
(* them and the one that deletes them (apps/client/qbittorrent_handlers),  *)
(* over the store of internal/downloaderconfig and its file.               *)
(*                                                                         *)
(* A password or an API key is known by the address and the mode it was    *)
(* typed for and by its version; a save path by its address.  Leaving the  *)
(* mode out of a request means the one it would name, so it always names   *)
(* one.  Store.mu is held from SaveVerified's or Delete's first operation  *)
(* to its last; `holder' is the request that holds it.                     *)
(*                                                                         *)
(* The file, the memory of the store and each operation of a save are      *)
(* those of StateFile, here with configurations as the states; `Recovers'  *)
(* is not used, since Open never looks at a backup.                        *)
(***************************************************************************)
EXTENDS StateFile

CONSTANTS
    Requests,   \* HTTP requests that may be in progress together
    Endpoints,  \* normalised qBittorrent addresses
    Versions    \* passwords, or keys, typed for one address

ASSUME QBSettingsAssumption == None \notin Requests \cup Endpoints

Modes   == {"password", "api_key"}
Secrets == Endpoints \X Modes \X Versions
Configs == [addr : Endpoints, mode : Modes, secret : Secrets,
            path : Endpoints \cup {None}]

ASSUME NoneIsNoConfig == None \notin Configs

VARIABLES
    key,     \* downloader-config.key exists
    holder,  \* the request that holds Store.mu for writing, or None
    req,     \* the requests
    tested,  \* history: configurations whose Test has succeeded
    known,   \* history: secrets typed since the last Delete, and those that
             \* requests in progress still had when it took effect
    owed,    \* history: what a start should find by the answers given, with
             \* calls that ended unanswered both what was before and after
    cut      \* history: the number of faults whenever the fallback was cut
             \* short between its renames, since the promise was last met

settingsVars == <<vars, key, holder, req, tested, known, owed, cut>>

Idle == [pc |-> "idle", cfg |-> None]

SettingsInit ==
    /\ Init
    /\ key = FALSE /\ holder = None
    /\ req = [r \in Requests |-> Idle]
    /\ tested = {} /\ known = {} /\ owed = {None} /\ cut = {}

\* The store is open and no one is inside SaveVerified or Delete.
Unlocked == holder = None /\ pc = "idle"

\* What a start may find now: a call in progress may or may not have had its
\* effect.
Promised ==
    owed \cup ({new} \ {None})
         \cup {None : r \in {x \in Requests : req[x].pc = "forget"}}

Set(r, state) == req' = [req EXCEPT ![r] = state]

-----------------------------------------------------------------------------

\* validateConfig: the secret of the mode is there.
Valid(c) == c.secret # None

\* What NewClient makes of a configuration, redirects not followed: the secret
\* goes to the address.
Login(c) == <<c.addr, c.mode, c.secret>>

\* The file of a start is opened with the key of a start (decrypt).
Opens == main # None => key

\* Resolve when a blank secret is taken over whatever the address.
ResolveAnyAddress(e, m, secret, path) ==
    LET same == memory # None /\ memory.addr = e
    IN  [addr |-> e, mode |-> m,
         secret |-> IF secret # None THEN <<e, m, secret>>
                    ELSE IF memory # None /\ memory.mode = m THEN memory.secret ELSE None,
         path |-> IF path # None THEN path ELSE IF same THEN memory.path ELSE None]

\* Resolve: blank secrets are the current ones only for the same address and
\* mode, a blank path the current one for the same address.
Resolve(e, m, secret, path) ==
    LET same == memory # None /\ memory.addr = e
    IN  [addr |-> e, mode |-> m,
         secret |-> IF secret # None THEN <<e, m, secret>>
                    ELSE IF same /\ memory.mode = m THEN memory.secret ELSE None,
         path |-> IF path # None THEN path ELSE IF same THEN memory.path ELSE None]

StartUpdate(r, e, m, secret, path) ==
    LET cfg == Resolve(e, m, secret, path)
    IN  /\ req[r] = Idle
        /\ Unlocked
        /\ Valid(cfg)
        /\ Set(r, [pc |-> "test", cfg |-> cfg])
        /\ known' = known \cup {cfg.secret}
        /\ UNCHANGED <<vars, key, holder, tested, owed, cut>>

\* Test logs in with a password, reads the version and the default save path,
\* which a configuration without a path takes over.
TestSucceeds(r) ==
    LET cfg == req[r].cfg
    IN  /\ req[r].pc = "test"
        /\ Set(r, [pc |-> "save",
                   cfg |-> [cfg EXCEPT !.path = IF @ = None THEN cfg.addr ELSE @]])
        /\ tested' = tested \cup {Login(cfg)}
        /\ UNCHANGED <<vars, key, holder, known, owed, cut>>

\* ... when the error is only reported
TestIgnored(r) ==
    /\ req[r].pc = "test"
    /\ Set(r, [req[r] EXCEPT !.pc = "save"])
    /\ UNCHANGED <<vars, key, holder, tested, known, owed, cut>>

TestFails(r) ==
    /\ req[r].pc = "test"
    /\ Set(r, Idle)
    /\ UNCHANGED <<vars, key, holder, tested, known, owed, cut>>

\* SaveVerified takes the lock; the key that seals the secret is read or made,
\* which may fail.
Save(r) ==
    /\ req[r].pc = "save"
    /\ Unlocked
    /\ holder' = r
    /\ key' = TRUE
    /\ Begin(req[r].cfg)
    /\ UNCHANGED <<req, tested, known, owed, cut>>

NoKey(r) ==
    /\ req[r].pc = "save"
    /\ Unlocked /\ ~key
    /\ Fault
    /\ Set(r, Idle)
    /\ UNCHANGED <<main, prev, memory, pc, new, key, holder, tested, known, owed, cut>>

\* The operations on the file, to the end of SaveVerified and its answer.
SaveStep(r) ==
    /\ holder = r
    /\ Saving
    /\ IF pc' = "idle" THEN holder' = None /\ Set(r, Idle)
       ELSE UNCHANGED <<holder, req>>
    /\ owed' = IF pc = "commit" THEN {new} ELSE owed
    /\ cut' = IF pc = "commit" THEN {}
              ELSE IF pc = "putback" /\ faults' > faults THEN cut \cup {faults'} ELSE cut
    /\ UNCHANGED <<key, tested, known>>

\* Delete removes the file and then forgets the settings; the key stays.
StartDelete(r) ==
    /\ req[r] = Idle
    /\ Unlocked
    /\ \/ /\ main' = None /\ holder' = r /\ UNCHANGED faults
          /\ Set(r, [pc |-> "forget", cfg |-> None])
       \/ Fault /\ UNCHANGED <<main, holder, req>>
    /\ UNCHANGED <<prev, memory, pc, new, key, tested, known, owed, cut>>

\* ... when only the state is cleared and not the configuration
FinishDeleteHalf(r) ==
    /\ holder = r /\ req[r].pc = "forget"
    /\ holder' = None
    /\ Set(r, Idle)
    /\ known' = {req[q].cfg.secret : q \in {x \in Requests : req[x].cfg # None}}
    /\ owed' = {None} /\ cut' = {}
    /\ UNCHANGED <<vars, key, tested>>

FinishDelete(r) ==
    /\ holder = r /\ req[r].pc = "forget"
    /\ memory' = None
    /\ holder' = None
    /\ Set(r, Idle)
    /\ known' = {req[q].cfg.secret : q \in {x \in Requests : req[x].cfg # None}}
    /\ owed' = {None} /\ cut' = {}
    /\ UNCHANGED <<main, prev, pc, new, faults, key, tested>>

\* The process ends at any point.
ProcessEnds ==
    /\ Crash
    /\ holder' = None
    /\ req' = [r \in Requests |-> Idle]
    /\ owed' = Promised
    /\ cut' = IF pc \in {"replace", "putback"} THEN cut \cup {faults} ELSE cut
    /\ UNCHANGED <<key, tested, known>>

\* Open, without a file or with one that the key opens; it never looks at a
\* backup.
Open ==
    /\ Opens
    /\ Load(FALSE)
    /\ IF main \in owed THEN owed' = {main} /\ cut' = {}
       ELSE UNCHANGED <<owed, cut>>
    /\ UNCHANGED <<key, holder, req, tested, known>>

SettingsNext ==
    \/ \E r \in Requests :
          \/ \E e \in Endpoints, m \in Modes, secret \in Versions \cup {None} :
                \E path \in {e, None} : StartUpdate(r, e, m, secret, path)
          \/ TestSucceeds(r) \/ TestFails(r) \/ Save(r) \/ NoKey(r) \/ SaveStep(r)
          \/ StartDelete(r) \/ FinishDelete(r)
    \/ ProcessEnds \/ Open

SettingsSpec == SettingsInit /\ [][SettingsNext]_settingsVars

-----------------------------------------------------------------------------
(* Properties *)

Held == {memory, main, prev, new} \cup {req[r].cfg : r \in Requests}

SettingsTypeOK ==
    /\ {memory, main, prev, new} \subseteq Configs \cup {None}
    /\ pc \in Steps \cup {"idle", "down"} /\ faults \in 0..MaxFaults
    /\ key \in BOOLEAN /\ holder \in Requests \cup {None}
    /\ req \in [Requests -> [pc : {"idle", "test", "save", "forget"},
                             cfg : Configs \cup {None}]]
    /\ tested \subseteq Endpoints \X Modes \X Secrets
    /\ known \subseteq Secrets
    /\ owed \subseteq Configs \cup {None} /\ cut \subseteq 0..MaxFaults

\* Every configuration that is saved, loaded or about to be tested carries a
\* secret typed for its own address and mode, whichever requests overlap:
\* "Blank secrets are reused only for the exact same normalized BaseURL and
\* auth mode" (Resolve).
AtHome(c) ==
    /\ c.secret[1] = c.addr /\ c.secret[2] = c.mode
    /\ c.path \in {c.addr, None}

SecretsStayHome == \A c \in Held \ {None} : AtHome(c)

\* What the client offers as available, now or after a restart, has passed Test
\* with exactly this address and secret (SaveVerified).
SavedWasTested ==
    \A c \in {memory, main} \ {None} : Login(c) \in tested

\* A start finds the settings that the last answered save or delete left, or
\* those of a call that ended unanswered.  The store never reads its backup, so
\* this does not hold once the fallback has been cut short between its renames,
\* by a crash or because putting the file back failed too.  Then no start finds
\* them, but they are in the backup until a further operation fails: a save
\* whose first rename fails removes it.
SettingsKept ==
    \/ main \in Promised
    \/ prev \in owed /\ (pc \in {"replace", "putback"} \/ cut # {})
    \/ \E n \in cut : faults > n

\* Settings that were deleted stay deleted: a secret from before comes back
\* neither by a blank field, nor from a backup that the fallback left behind,
\* nor at a restart, but only by a request that had already read it.
DeletedForgotten ==
    /\ memory # None => holder # None \/ memory.secret \in known
    /\ pc = "down" /\ main # None => main.secret \in known
=============================================================================
