--------------------------- MODULE StateFile_proofs ---------------------------
(***************************************************************************)
(* That a save is atomic, for any set of states and any number of saves    *)
(* and crashes: StateFile implements AtomicFile when at most two           *)
(* operations fail and a start restores the backup; and what QBSettings,   *)
(* which saves this way but restores no backup, promises about secrets and *)
(* about what a start finds.                                               *)
(***************************************************************************)
EXTENDS QBSettings, TLAPS

-----------------------------------------------------------------------------
(* The invariants of the file. *)

\* A save is in progress exactly when its temporary file is.
PendingInv == new = None <=> pc \in {"idle", "down"}

\* Where the file is while the fallback runs.
FallbackInv ==
    /\ pc \in {"replace", "putback"} => main = None
    /\ pc = "putback" => faults >= 1
    /\ pc \in {"tidy", "commit"} => main = new

Shape ==
    /\ pc \in Steps \cup {"idle", "down"}
    /\ faults \in 0..MaxFaults
    /\ PendingInv /\ FallbackInv

\* The store works with what a start would find.  Only the backup is left when
\* the fallback has failed and its undoing too, and then the next save cannot
\* come as far as removing it.
StoredInv ==
    /\ pc \notin {"tidy", "commit", "down"} => memory = Stored
    /\ pc \in {"idle", "write", "rename"} /\ main = None /\ prev # None => faults >= 2
    /\ pc \in {"clear", "retire"} /\ main = None => prev = None

AtomicInv == TypeOK /\ Shape /\ StoredInv

-----------------------------------------------------------------------------
(* A save: what its operations move, and the invariants of the file. *)

\* The operations write nothing but what is there, or remove it.
LEMMA SavingMoves ==
    Saving => {main', prev', memory', new'} \subseteq {main, prev, memory, new, None}
  <1> SUFFICES ASSUME Saving
               PROVE  {main', prev', memory', new'} \subseteq {main, prev, memory, new, None}
    OBVIOUS
  <1> USE DEF Fail
  <1>1. CASE Write
    BY <1>1 DEF Write
  <1>2. CASE Rename
    BY <1>2 DEF Rename
  <1>3. CASE Refused
    BY <1>3 DEF Refused
  <1>4. CASE Clear
    BY <1>4 DEF Clear
  <1>5. CASE Retire
    BY <1>5 DEF Retire
  <1>6. CASE RetireFails
    BY <1>6 DEF RetireFails
  <1>7. CASE Replace
    BY <1>7 DEF Replace
  <1>8. CASE PutBack
    BY <1>8 DEF PutBack
  <1>9. CASE Tidy
    BY <1>9 DEF Tidy
  <1>10. CASE Commit
    BY <1>10 DEF Commit
  <1> QED BY <1>1, <1>2, <1>3, <1>4, <1>5, <1>6, <1>7, <1>8, <1>9, <1>10 DEF Saving

LEMMA SavingKeepsShape ==
    ASSUME Shape, Saving PROVE Shape'
  <1> USE StateFileAssumption
      DEF Shape, PendingInv, FallbackInv, Steps, Works, Fault, Fail
  <1>1. CASE Write
    BY <1>1 DEF Write
  <1>2. CASE Rename
    BY <1>2 DEF Rename
  <1>3. CASE Refused
    BY <1>3 DEF Refused
  <1>4. CASE Clear
    BY <1>4 DEF Clear
  <1>5. CASE Retire
    BY <1>5 DEF Retire
  <1>6. CASE RetireFails
    BY <1>6 DEF RetireFails
  <1>7. CASE Replace
    BY <1>7 DEF Replace
  <1>8. CASE PutBack
    BY <1>8 DEF PutBack
  <1>9. CASE Tidy
    BY <1>9 DEF Tidy
  <1>10. CASE Commit
    BY <1>10 DEF Commit
  <1> QED BY <1>1, <1>2, <1>3, <1>4, <1>5, <1>6, <1>7, <1>8, <1>9, <1>10 DEF Saving

LEMMA BeginKeeps ==
    ASSUME Shape, NEW v, v # None, Begin(v) PROVE Shape'
  BY DEF Shape, PendingInv, FallbackInv, Steps, Begin

LEMMA CrashKeeps ==
    ASSUME Shape, Crash PROVE Shape'
  BY DEF Shape, PendingInv, FallbackInv, Steps, Crash

LEMMA LoadKeeps ==
    ASSUME Shape, NEW recovers, Load(recovers) PROVE Shape'
  BY StateFileAssumption DEF Shape, PendingInv, FallbackInv, Steps, Load, Works, Fault

LEMMA UnchangedKeeps ==
    ASSUME Shape, UNCHANGED vars PROVE Shape'
  BY DEF Shape, PendingInv, FallbackInv, Steps, vars

LEMMA ShapeInitially == Init => TypeOK /\ Shape
  BY StateFileAssumption DEF Init, TypeOK, Shape, PendingInv, FallbackInv

LEMMA ShapePreserved == Shape /\ [Next]_vars => Shape'
  <1> SUFFICES ASSUME Shape, [Next]_vars PROVE Shape'
    OBVIOUS
  <1>1. ASSUME NEW v \in Values, Begin(v) PROVE Shape'
    BY <1>1, BeginKeeps, StateFileAssumption
  <1> QED BY <1>1, SavingKeepsShape, CrashKeeps, LoadKeeps, UnchangedKeeps DEF Next

LEMMA TypePreserved == TypeOK /\ Shape /\ [Next]_vars => TypeOK'
  <1> SUFFICES ASSUME TypeOK, Shape, [Next]_vars
               PROVE  {main', prev', memory', new'} \subseteq Values \cup {None}
    BY ShapePreserved DEF TypeOK, Shape
  <1>1. ASSUME NEW v \in Values, Begin(v)
        PROVE  {main', prev', memory', new'} \subseteq Values \cup {None}
    BY <1>1 DEF Begin, TypeOK
  <1>2. CASE Saving
    BY <1>2, SavingMoves DEF TypeOK
  <1>3. CASE Crash
    BY <1>3 DEF Crash, TypeOK
  <1>4. CASE Load(Recovers)
    BY <1>4 DEF Load, TypeOK
  <1>5. CASE UNCHANGED vars
    BY <1>5 DEF vars, TypeOK
  <1> QED BY <1>1, <1>2, <1>3, <1>4, <1>5 DEF Next

\* The variables keep their types, whatever fails.
THEOREM TypeCorrect == Spec => []TypeOK
  BY ShapeInitially, ShapePreserved, TypePreserved, PTL DEF Spec

-----------------------------------------------------------------------------
(* A save is atomic. *)

LEMMA StoredPreserved ==
    Recovers /\ MaxFaults <= 2 /\ AtomicInv /\ [Next]_vars => StoredInv'
  <1> SUFFICES ASSUME Recovers, MaxFaults <= 2, AtomicInv, [Next]_vars PROVE StoredInv'
    OBVIOUS
  <1> USE StateFileAssumption
      DEF AtomicInv, TypeOK, Shape, PendingInv, FallbackInv, StoredInv, Steps, Works, Fault, Fail, Stored
  <1>1. ASSUME NEW v \in Values, Begin(v) PROVE StoredInv'
    BY <1>1 DEF Begin
  <1>2. CASE Write
    BY <1>2 DEF Write
  <1>3. CASE Rename
    BY <1>3 DEF Rename
  <1>4. CASE Refused
    BY <1>4 DEF Refused
  <1>5. CASE Clear
    BY <1>5 DEF Clear
  <1>6. CASE Retire
    BY <1>6 DEF Retire
  <1>7. CASE RetireFails
    BY <1>7 DEF RetireFails
  <1>8. CASE Replace
    BY <1>8 DEF Replace
  <1>9. CASE PutBack
    BY <1>9 DEF PutBack
  <1>10. CASE Tidy
    BY <1>10 DEF Tidy
  <1>11. CASE Commit
    BY <1>11 DEF Commit
  <1>12. CASE Crash
    BY <1>12 DEF Crash
  <1>13. CASE Load(Recovers)
    BY <1>13 DEF Load
  <1>14. CASE UNCHANGED vars
    BY <1>14 DEF vars
  <1> QED
    BY <1>1, <1>2, <1>3, <1>4, <1>5, <1>6, <1>7, <1>8, <1>9, <1>10, <1>11, <1>12, <1>13, <1>14
       DEF Next, Saving

LEMMA AtomicInitially == Init => AtomicInv /\ Abstract!Init
  BY ShapeInitially DEF Init, AtomicInv, StoredInv, Stored, Abstract!Init

\* Every step is a step of the atomic file, or none.
LEMMA AtomicStep ==
    Recovers /\ AtomicInv /\ [Next]_vars => [Abstract!Next]_Abstract!vars
  <1> SUFFICES ASSUME Recovers, AtomicInv, [Next]_vars PROVE [Abstract!Next]_Abstract!vars
    OBVIOUS
  <1> USE StateFileAssumption
      DEF AtomicInv, TypeOK, Shape, PendingInv, FallbackInv, StoredInv, Works, Fault, Fail, Stored,
          Abstract!vars
  <1>1. ASSUME NEW v \in Values, Begin(v) PROVE Abstract!Begin
    BY <1>1 DEF Begin, Abstract!Begin
  <1>2. CASE Write
    BY <1>2 DEF Write, Abstract!Fail, Abstract!Next
  <1>3. CASE Rename
    BY <1>3 DEF Rename, Abstract!TakeEffect, Abstract!Next
  <1>4. CASE Refused
    BY <1>4 DEF Refused
  <1>5. CASE Clear
    BY <1>5 DEF Clear
  <1>6. CASE Retire
    BY <1>6 DEF Retire
  <1>7. CASE RetireFails
    BY <1>7 DEF RetireFails, Abstract!Fail, Abstract!Next
  <1>8. CASE Replace
    BY <1>8 DEF Replace, Abstract!TakeEffect, Abstract!Next
  <1>9. CASE PutBack
    BY <1>9 DEF PutBack, Abstract!Fail, Abstract!Next
  <1>10. CASE Tidy
    BY <1>10 DEF Tidy
  <1>11. CASE Commit
    BY <1>11 DEF Commit, Abstract!Succeed, Abstract!Next
  <1>12. CASE Crash
    BY <1>12 DEF Crash, Abstract!Crash, Abstract!Next
  <1>13. CASE Load(Recovers)
    BY <1>13 DEF Load
  <1>14. CASE UNCHANGED vars
    BY <1>14 DEF vars
  <1> QED
    BY <1>1, <1>2, <1>3, <1>4, <1>5, <1>6, <1>7, <1>8, <1>9, <1>10, <1>11, <1>12, <1>13, <1>14
       DEF Next, Saving, Abstract!Next

\* A save takes effect at one instant or not at all, and its answer is true.
THEOREM AtomicReplace == Recovers /\ MaxFaults <= 2 /\ Spec => SavesAtomically
  <1>1. Recovers /\ MaxFaults <= 2 /\ AtomicInv /\ [Next]_vars => AtomicInv'
    BY ShapePreserved, TypePreserved, StoredPreserved DEF AtomicInv
  <1>2. CASE Recovers /\ MaxFaults <= 2
    BY <1>1, <1>2, AtomicInitially, AtomicStep, PTL DEF Spec, SavesAtomically, Abstract!Spec
  <1> QED BY <1>2

-----------------------------------------------------------------------------
(* QBSettings: the invariants. *)

\* Who holds Store.mu, and what for.
HolderInv ==
    /\ holder = None => pc \in {"idle", "down"}
    /\ holder # None =>
           \/ pc \in Steps /\ req[holder].pc = "save"
           \/ pc = "idle" /\ req[holder].pc = "forget" /\ main = None
    /\ \A r \in Requests : req[r].pc = "forget" => holder = r

\* A request holds a configuration while it updates.
RequestInv ==
    \A r \in Requests : req[r].cfg # None <=> req[r].pc \in {"test", "save"}

SettingsInv == SettingsTypeOK /\ Shape /\ HolderInv /\ RequestInv /\ SecretsStayHome

\* What is saved, or on its way to be, was tested, backups included.
TestedInv ==
    /\ \A c \in {memory, main, prev, new} \ {None} : Login(c) \in tested
    /\ \A r \in Requests : req[r].pc = "save" => Login(req[r].cfg) \in tested

\* Secrets from before the last Delete are in a backup at most, and that one
\* cannot be renamed back: the fallback gets to it without a file only after
\* two failures.
Known(c) == c # None => c.secret \in known

KnownInv ==
    /\ Known(memory) /\ Known(main) /\ Known(new)
    /\ \A r \in Requests : Known(req[r].cfg)
    /\ pc = "clear" /\ main = None => faults >= 1
    /\ pc = "retire" /\ main = None /\ prev # None => faults >= 2
    /\ pc = "replace" => Known(prev) \/ faults >= 2
    /\ pc = "putback" => Known(prev)

\* Where what the answers promised is.  Until the fallback is cut short it is
\* the file, but between the renames, when it is the backup.  Cut short, it is
\* the backup as long as nothing more fails, for the next save gets past its
\* first rename then.
Forgetting == \E r \in Requests : req[r].pc = "forget"

InPlaceInv ==
    /\ cut = {}
    /\ pc \in {"idle", "write", "rename", "clear", "retire", "down"} =>
           main \in owed \/ Forgetting
    /\ pc = "clear" /\ main = None => faults >= 1
    /\ pc = "retire" /\ main = None => prev = None \/ faults >= 2
    /\ pc = "replace" => prev \in owed \/ (None \in owed /\ (prev = None \/ faults >= 2))
    /\ pc = "putback" => prev \in owed \/ (None \in owed /\ prev = None)

InBackupInv ==
    /\ cut # {}
    /\ pc \in {"idle", "write", "rename", "commit", "down"}
    /\ pc \in {"idle", "write", "rename"} => main = None
    /\ pc # "commit" => main \in owed \/ (main = None /\ prev \in owed) \/ Forgetting

PromiseInv ==
    /\ \A n \in cut : n <= faults
    /\ InPlaceInv \/ InBackupInv \/ \E n \in cut : faults > n

-----------------------------------------------------------------------------
(* QBSettings: types, the lock and the requests. *)

Records == [pc : {"idle", "test", "save", "forget"}, cfg : Configs \cup {None}]

\* Resolve gives a configuration with secrets of its own address and mode, and
\* blank secrets only from settings that had them there.
LEMMA ResolveGives ==
    ASSUME memory \in Configs \cup {None}, memory # None => AtHome(memory),
           NEW e \in Endpoints, NEW m \in Modes, NEW secret \in Versions \cup {None},
           NEW path \in {e, None}, Valid(Resolve(e, m, secret, path))
    PROVE  /\ Resolve(e, m, secret, path) \in Configs
           /\ AtHome(Resolve(e, m, secret, path))
  <1>1. CASE secret # None
    BY <1>1, QBSettingsAssumption DEF Resolve, Configs, Secrets, Valid, AtHome
  <1>2. CASE secret = None
    <2>1. memory # None /\ memory.addr = e /\ memory.mode = m
      BY <1>2 DEF Resolve, Valid
    <2>2. memory.secret \in Secrets /\ memory.path \in Endpoints \cup {None}
      BY <2>1 DEF Configs
    <2> QED BY <1>2, <2>1, <2>2 DEF Resolve, Configs, AtHome
  <1> QED BY <1>1, <1>2

\* One request becomes another record.
LEMMA SetTyped ==
    ASSUME SettingsTypeOK, NEW r \in Requests, NEW state \in Records, Set(r, state)
    PROVE  /\ req' \in [Requests -> Records]
           /\ req'[r] = state
           /\ \A q \in Requests \ {r} : req'[q] = req[q]
  BY DEF SettingsTypeOK, Set, Records

\* The configurations that are held, when only those change.
LEMMA HeldKept ==
    ASSUME SettingsTypeOK, SecretsStayHome, Held' \subseteq Held \cup {None}
    PROVE  /\ SecretsStayHome'
           /\ {memory', main', prev', new'} \subseteq Configs \cup {None}
  <1>1. SecretsStayHome'
    BY DEF SecretsStayHome
  <1>2. Held \subseteq Configs \cup {None}
    BY DEF Held, SettingsTypeOK
  <1> QED BY <1>1, <1>2 DEF Held

LEMMA SettingsInitially == SettingsInit => SettingsInv
  <1> SUFFICES ASSUME SettingsInit PROVE SettingsInv
    OBVIOUS
  <1> USE DEF SettingsInit, Idle
  <1>1. Shape
    BY ShapeInitially
  <1>2. SettingsTypeOK
    BY <1>1 DEF Shape, SettingsTypeOK, Init
  <1>3. HolderInv /\ RequestInv
    BY DEF HolderInv, RequestInv, Init
  <1>4. SecretsStayHome
    BY DEF SecretsStayHome, Held, Init
  <1> QED BY <1>1, <1>2, <1>3, <1>4 DEF SettingsInv

LEMMA SettingsPreserved == SettingsInv /\ [SettingsNext]_settingsVars => SettingsInv'
  <1> SUFFICES ASSUME SettingsInv, [SettingsNext]_settingsVars PROVE SettingsInv'
    OBVIOUS
  <1>t. SettingsTypeOK /\ Shape /\ HolderInv /\ RequestInv /\ SecretsStayHome
    BY DEF SettingsInv
  <1>i. Idle \in Records
    BY DEF Idle, Records
  <1>1. ASSUME NEW r \in Requests, NEW e \in Endpoints, NEW m \in Modes,
               NEW secret \in Versions \cup {None}, NEW path \in {e, None},
               StartUpdate(r, e, m, secret, path)
        PROVE  SettingsInv'
    <2> DEFINE cfg == Resolve(e, m, secret, path)
    <2>1. cfg \in Configs /\ AtHome(cfg)
      BY <1>1, <1>t, ResolveGives DEF StartUpdate, SettingsTypeOK, SecretsStayHome, Held
    <2>2. cfg.secret \in Secrets
      BY <2>1 DEF Configs
    <2> HIDE DEF cfg
    <2>3. /\ Set(r, [pc |-> "test", cfg |-> cfg]) /\ req[r] = Idle /\ holder = None
          /\ known' = known \cup {cfg.secret}
          /\ UNCHANGED <<vars, key, holder, tested, owed, cut>>
      BY <1>1 DEF StartUpdate, Unlocked, cfg
    <2>4. /\ req' \in [Requests -> Records] /\ req'[r] = [pc |-> "test", cfg |-> cfg]
          /\ \A q \in Requests \ {r} : req'[q] = req[q]
      BY <2>1, <2>3, <1>t, SetTyped DEF Records
    <2>5. SettingsTypeOK' /\ Shape'
      BY <2>2, <2>3, <2>4, <1>t DEF SettingsTypeOK, Records, Shape, PendingInv, FallbackInv, vars
    <2>6. HolderInv' /\ RequestInv'
      BY <2>1, <2>3, <2>4, <1>t, NoneIsNoConfig DEF HolderInv, RequestInv, vars
    <2>7. SecretsStayHome'
      BY <2>1, <2>3, <2>4, <1>t DEF SecretsStayHome, Held, vars
    <2> QED BY <2>5, <2>6, <2>7 DEF SettingsInv
  <1>2. ASSUME NEW r \in Requests, TestSucceeds(r) PROVE SettingsInv'
    <2> DEFINE old == req[r].cfg
               cfg == [old EXCEPT !.path = IF @ = None THEN old.addr ELSE @]
    <2>1. old \in Configs /\ AtHome(old)
      BY <1>2, <1>t DEF TestSucceeds, RequestInv, SettingsTypeOK, SecretsStayHome, Held
    <2>2. cfg \in Configs /\ AtHome(cfg) /\ Login(old) \in Endpoints \X Modes \X Secrets
      BY <2>1 DEF Configs, AtHome, Login
    <2>3. /\ Set(r, [pc |-> "save", cfg |-> cfg]) /\ req[r].pc = "test"
          /\ tested' = tested \cup {Login(old)}
          /\ UNCHANGED <<vars, key, holder, known, owed, cut>>
      BY <1>2 DEF TestSucceeds
    <2> HIDE DEF old, cfg
    <2>4. /\ req' \in [Requests -> Records] /\ req'[r] = [pc |-> "save", cfg |-> cfg]
          /\ \A q \in Requests \ {r} : req'[q] = req[q]
      BY <2>2, <2>3, <1>t, SetTyped DEF Records
    <2>5. SettingsTypeOK' /\ Shape'
      BY <2>2, <2>3, <2>4, <1>t DEF SettingsTypeOK, Records, Shape, PendingInv, FallbackInv, vars
    <2>6. HolderInv' /\ RequestInv'
      <3>1. HolderInv'
        BY <2>3, <2>4, <1>t DEF HolderInv, SettingsTypeOK, vars
      <3>2. RequestInv'
        BY <2>2, <2>3, <2>4, <1>t, NoneIsNoConfig DEF RequestInv
      <3> QED BY <3>1, <3>2
    <2>7. SecretsStayHome'
      BY <2>2, <2>3, <2>4, <1>t DEF SecretsStayHome, Held, vars
    <2> QED BY <2>5, <2>6, <2>7 DEF SettingsInv
  <1>3. ASSUME NEW r \in Requests, Set(r, Idle), UNCHANGED <<main, prev, memory, pc, new, key, holder, tested, known, owed, cut>>,
               req[r].pc \in {"test", "save"}, holder # r, faults' \in {faults} \cup 1 .. MaxFaults, faults' >= faults
        PROVE  SettingsInv'
    <2>1. /\ req' \in [Requests -> Records] /\ req'[r] = Idle
          /\ \A q \in Requests \ {r} : req'[q] = req[q]
      BY <1>3, <1>t, <1>i, SetTyped
    <2>2. SettingsTypeOK' /\ Shape'
      BY <2>1, <1>3, <1>t, StateFileAssumption DEF SettingsTypeOK, Records, Shape, PendingInv, FallbackInv
    <2>3. HolderInv' /\ RequestInv'
      <3>1. HolderInv'
        BY <2>1, <1>3, <1>t DEF HolderInv, Idle, SettingsTypeOK
      <3>2. RequestInv'
        BY <2>1, <1>3, <1>t DEF RequestInv, Idle
      <3> QED BY <3>1, <3>2
    <2>4. SecretsStayHome'
      BY <2>1, <1>3, <1>t, HeldKept DEF Held, Idle
    <2> QED BY <2>2, <2>3, <2>4 DEF SettingsInv
  <1>4. ASSUME NEW r \in Requests, TestFails(r) PROVE SettingsInv'
    <2>1. holder # r
      BY <1>4, <1>t, QBSettingsAssumption DEF TestFails, HolderInv
    <2> QED BY <2>1, <1>3, <1>4, <1>t DEF TestFails, vars, SettingsTypeOK
  <1>5. ASSUME NEW r \in Requests, NoKey(r) PROVE SettingsInv'
    BY <1>3, <1>5, <1>t, StateFileAssumption, QBSettingsAssumption
       DEF NoKey, Unlocked, Fault, SettingsTypeOK
  <1>6. ASSUME NEW r \in Requests, Save(r) PROVE SettingsInv'
    <2>1. req[r].cfg \in Configs /\ req[r].cfg # None
      BY <1>6, <1>t DEF Save, RequestInv, SettingsTypeOK
    <2>2. Shape'
      BY <1>6, <1>t, <2>1, BeginKeeps DEF Save
    <2>3. SettingsTypeOK'
      BY <1>6, <1>t, <2>1, <2>2 DEF Save, Begin, SettingsTypeOK, Shape
    <2>4. HolderInv' /\ RequestInv'
      BY <1>6, <1>t, QBSettingsAssumption DEF Save, Begin, Unlocked, HolderInv, RequestInv, Steps
    <2>5. SecretsStayHome'
      BY <1>6, <1>t, HeldKept DEF Save, Begin, Held
    <2> QED BY <2>2, <2>3, <2>4, <2>5 DEF SettingsInv
  <1>7. ASSUME NEW r \in Requests, SaveStep(r) PROVE SettingsInv'
    <2>1. Shape'
      BY <1>7, <1>t, SavingKeepsShape DEF SaveStep
    <2>2. {main', prev', memory', new'} \subseteq {main, prev, memory, new, None}
      BY <1>7, SavingMoves DEF SaveStep
    <2>3. pc \in Steps /\ pc' # "down" /\ req[r].pc = "save" /\ holder = r
      <3>1. pc \in Steps /\ pc' # "down"
        BY <1>7 DEF SaveStep, Saving, Write, Rename, Refused, Clear, Retire, RetireFails,
                    Replace, PutBack, Tidy, Commit, Fail, Steps
      <3> QED BY <3>1, <1>7, <1>t, QBSettingsAssumption DEF SaveStep, HolderInv, Steps
    <2>6. owed' \subseteq Configs \cup {None} /\ cut' \subseteq 0 .. MaxFaults
      BY <2>1, <1>7, <1>t DEF SaveStep, SettingsTypeOK, Shape
    <2>4. CASE pc' = "idle"
      <3>1. /\ req' \in [Requests -> Records] /\ req'[r] = Idle
            /\ \A q \in Requests \ {r} : req'[q] = req[q]
        BY <2>4, <1>7, <1>t, <1>i, SetTyped DEF SaveStep
      <3>2. SettingsTypeOK'
        <4>1. {main', prev', memory', new'} \subseteq Configs \cup {None}
          BY <2>2, <1>t DEF SettingsTypeOK
        <4> QED BY <4>1, <3>1, <2>1, <2>4, <2>6, <1>7, <1>t DEF SaveStep, SettingsTypeOK, Records, Shape
      <3>3. HolderInv' /\ RequestInv'
        BY <3>1, <2>3, <2>4, <1>7, <1>t DEF SaveStep, HolderInv, RequestInv, Idle
      <3>4. SecretsStayHome'
        BY <3>1, <2>2, <1>t, HeldKept DEF Held, Idle
      <3> QED BY <2>1, <3>2, <3>3, <3>4 DEF SettingsInv
    <2>5. CASE pc' # "idle"
      <3>1. UNCHANGED <<holder, req, key, tested, known>>
        BY <2>5, <1>7 DEF SaveStep
      <3>2. SettingsTypeOK'
        <4>1. {main', prev', memory', new'} \subseteq Configs \cup {None}
          BY <2>2, <1>t DEF SettingsTypeOK
        <4> QED BY <4>1, <3>1, <2>1, <2>6, <1>t DEF SettingsTypeOK, Shape
      <3>3. HolderInv' /\ RequestInv'
        BY <3>1, <2>1, <2>3, <2>5, <1>t, QBSettingsAssumption DEF HolderInv, RequestInv, Shape
      <3>4. SecretsStayHome'
        BY <3>1, <2>2, <1>t, HeldKept DEF Held
      <3> QED BY <2>1, <3>2, <3>3, <3>4 DEF SettingsInv
    <2> QED BY <2>4, <2>5
  <1>8. ASSUME NEW r \in Requests, StartDelete(r) PROVE SettingsInv'
    <2>1. CASE Fault /\ UNCHANGED <<main, holder, req>>
      BY <1>8, <2>1, <1>t, StateFileAssumption
         DEF StartDelete, Fault, SettingsInv, SettingsTypeOK, Shape, PendingInv, FallbackInv,
             HolderInv, RequestInv, SecretsStayHome, Held
    <2>2. CASE main' = None /\ holder' = r /\ UNCHANGED faults /\ Set(r, [pc |-> "forget", cfg |-> None])
      <3>1. /\ req' \in [Requests -> Records] /\ req'[r] = [pc |-> "forget", cfg |-> None]
            /\ \A q \in Requests \ {r} : req'[q] = req[q]
        BY <2>2, <1>t, SetTyped DEF Records
      <3>2. SettingsTypeOK' /\ Shape'
        BY <1>8, <2>2, <3>1, <1>t
           DEF StartDelete, Unlocked, SettingsTypeOK, Records, Shape, PendingInv, FallbackInv
      <3>3. HolderInv' /\ RequestInv'
        BY <1>8, <2>2, <3>1, <1>t, QBSettingsAssumption
           DEF StartDelete, Unlocked, HolderInv, RequestInv
      <3>4. SecretsStayHome'
        BY <1>8, <2>2, <3>1, <1>t, HeldKept DEF StartDelete, Held
      <3> QED BY <3>2, <3>3, <3>4 DEF SettingsInv
    <2> QED BY <1>8, <2>1, <2>2 DEF StartDelete
  <1>9. ASSUME NEW r \in Requests, FinishDelete(r) PROVE SettingsInv'
    <2>1. /\ req' \in [Requests -> Records] /\ req'[r] = Idle
          /\ \A q \in Requests \ {r} : req'[q] = req[q]
      BY <1>9, <1>t, <1>i, SetTyped DEF FinishDelete
    <2>2. known' \subseteq Secrets
      BY <1>9, <1>t DEF FinishDelete, SettingsTypeOK, Configs
    <2>3. pc = "idle"
      BY <1>9, <1>t, QBSettingsAssumption DEF FinishDelete, HolderInv
    <2>4. SettingsTypeOK' /\ Shape'
      BY <1>9, <2>1, <2>2, <1>t
         DEF FinishDelete, SettingsTypeOK, Records, Shape, PendingInv, FallbackInv
    <2>5. HolderInv' /\ RequestInv'
      BY <1>9, <2>1, <2>3, <1>t DEF FinishDelete, HolderInv, RequestInv, Idle
    <2>6. SecretsStayHome'
      BY <1>9, <2>1, <1>t, HeldKept DEF FinishDelete, Held, Idle
    <2> QED BY <2>4, <2>5, <2>6 DEF SettingsInv
  <1>10. CASE ProcessEnds
    <2>1. Shape'
      BY <1>10, <1>t, CrashKeeps DEF ProcessEnds
    <2>2. SettingsTypeOK'
      <3>1. owed' \subseteq Configs \cup {None} /\ cut' \subseteq 0 .. MaxFaults
        BY <1>10, <1>t DEF ProcessEnds, Promised, SettingsTypeOK
      <3> QED BY <1>10, <1>t, <2>1, <3>1, <1>i DEF ProcessEnds, Crash, SettingsTypeOK, Records, Shape
    <2>3. HolderInv' /\ RequestInv'
      BY <1>10 DEF ProcessEnds, Crash, HolderInv, RequestInv, Idle
    <2>4. SecretsStayHome'
      BY <1>10, <1>t, HeldKept DEF ProcessEnds, Crash, Held, Idle
    <2> QED BY <2>1, <2>2, <2>3, <2>4 DEF SettingsInv
  <1>11. CASE Open
    <2>1. Shape'
      BY <1>11, <1>t, LoadKeeps DEF Open
    <2>2. SettingsTypeOK'
      BY <1>11, <1>t, <2>1 DEF Open, Load, SettingsTypeOK, Shape
    <2>3. HolderInv' /\ RequestInv'
      BY <1>11, <1>t DEF Open, Load, HolderInv, RequestInv, Steps
    <2>4. SecretsStayHome'
      BY <1>11, <1>t, HeldKept DEF Open, Load, Held
    <2> QED BY <2>1, <2>2, <2>3, <2>4 DEF SettingsInv
  <1>12. CASE UNCHANGED settingsVars
    BY <1>12, <1>t
       DEF settingsVars, vars, SettingsInv, SettingsTypeOK, Shape, PendingInv, FallbackInv,
           HolderInv, RequestInv, SecretsStayHome, Held
  <1> QED
    BY <1>1, <1>2, <1>4, <1>5, <1>6, <1>7, <1>8, <1>9, <1>10, <1>11, <1>12 DEF SettingsNext

\* The variables keep their types, whatever overlaps or fails.
THEOREM SettingsTypeCorrect == SettingsSpec => []SettingsTypeOK
  BY SettingsInitially, SettingsPreserved, PTL DEF SettingsSpec, SettingsInv

\* Whichever requests overlap, a secret stays with the address and the mode it
\* was typed for: Resolve reuses it for nothing else, and what it has made of a
\* form is what is tested, saved and loaded.
THEOREM SecretsConfined == SettingsSpec => []SecretsStayHome
  BY SettingsInitially, SettingsPreserved, PTL DEF SettingsSpec, SettingsInv

-----------------------------------------------------------------------------
(* QBSettings: what was tested, and what was deleted. *)

\* A step that only moves what is there, and ends requests.
Moved ==
    /\ {main', prev', memory', new'} \subseteq {main, prev, memory, new, None}
    /\ \A r \in Requests : req'[r] = req[r] \/ req'[r].cfg = None

LEMMA StepMoves ==
    ASSUME SettingsInv,
           \/ \E r \in Requests :
                 TestFails(r) \/ NoKey(r) \/ SaveStep(r) \/ StartDelete(r) \/ FinishDelete(r)
           \/ ProcessEnds \/ Open \/ UNCHANGED settingsVars
    PROVE  Moved
  <1>t. req \in [Requests -> Records]
    BY DEF SettingsInv, SettingsTypeOK, Records
  <1> USE DEF Moved, Set, Idle
  <1>1. ASSUME NEW r \in Requests, TestFails(r) PROVE Moved
    BY <1>1, <1>t DEF TestFails, vars
  <1>2. ASSUME NEW r \in Requests, NoKey(r) PROVE Moved
    BY <1>2, <1>t DEF NoKey
  <1>3. ASSUME NEW r \in Requests, SaveStep(r) PROVE Moved
    BY <1>3, <1>t, SavingMoves DEF SaveStep
  <1>4. ASSUME NEW r \in Requests, StartDelete(r) PROVE Moved
    BY <1>4, <1>t DEF StartDelete
  <1>5. ASSUME NEW r \in Requests, FinishDelete(r) PROVE Moved
    BY <1>5, <1>t DEF FinishDelete
  <1>6. CASE ProcessEnds
    BY <1>6 DEF ProcessEnds, Crash
  <1>7. CASE Open
    BY <1>7 DEF Open, Load
  <1>8. CASE UNCHANGED settingsVars
    BY <1>8 DEF settingsVars, vars
  <1> QED BY <1>1, <1>2, <1>3, <1>4, <1>5, <1>6, <1>7, <1>8

\* A test that has succeeded stays so.
LEMMA TestedGrows ==
    ASSUME [SettingsNext]_settingsVars PROVE tested \subseteq tested'
  BY DEF SettingsNext, settingsVars, StartUpdate, TestSucceeds, TestFails, Save, NoKey, SaveStep,
         StartDelete, FinishDelete, ProcessEnds, Open

LEMMA TestedPreserved ==
    SettingsInv /\ TestedInv /\ [SettingsNext]_settingsVars => TestedInv'
  <1> SUFFICES ASSUME SettingsInv, TestedInv, [SettingsNext]_settingsVars PROVE TestedInv'
    OBVIOUS
  <1>t. req \in [Requests -> Records] /\ tested \subseteq tested' /\ SettingsInv'
    BY TestedGrows, SettingsPreserved DEF SettingsInv, SettingsTypeOK, Records
  <1>1. ASSUME NEW r \in Requests, NEW e \in Endpoints, NEW m \in Modes,
               NEW secret \in Versions \cup {None}, NEW path \in {e, None},
               StartUpdate(r, e, m, secret, path)
        PROVE  TestedInv'
    BY <1>1, <1>t DEF StartUpdate, Set, TestedInv, vars, Login
  <1>2. ASSUME NEW r \in Requests, TestSucceeds(r) PROVE TestedInv'
    <2>1. req[r].cfg \in Configs
      BY <1>2 DEF TestSucceeds, SettingsInv, RequestInv, SettingsTypeOK
    <2>2. Login(req'[r].cfg) = Login(req[r].cfg) /\ Login(req[r].cfg) \in tested'
      BY <1>2, <2>1, <1>t DEF TestSucceeds, Set, Configs, Login
    <2>3. \A q \in Requests \ {r} : req'[q] = req[q]
      BY <1>2, <1>t DEF TestSucceeds, Set
    <2>4. UNCHANGED <<memory, main, prev, new>>
      BY <1>2 DEF TestSucceeds, vars
    <2> QED BY <2>2, <2>3, <2>4, <1>t DEF TestedInv, Login
  <1>3. ASSUME NEW r \in Requests, Save(r) PROVE TestedInv'
    BY <1>3, <1>t DEF Save, Begin, TestedInv, Login
  <1>4. CASE \/ \E r \in Requests :
                   TestFails(r) \/ NoKey(r) \/ SaveStep(r) \/ StartDelete(r) \/ FinishDelete(r)
             \/ ProcessEnds \/ Open \/ UNCHANGED settingsVars
    <2>1. Moved
      BY <1>4, StepMoves
    <2>2. \A r \in Requests : req'[r].pc = "save" => req'[r] = req[r]
      BY <2>1, <1>t DEF Moved, SettingsInv, RequestInv
    <2> QED BY <2>1, <2>2, <1>t DEF Moved, TestedInv, Login
  <1> QED BY <1>1, <1>2, <1>3, <1>4 DEF SettingsNext

\* What the client offers as available has passed the test with exactly this
\* address and secret, also after a restart and after the fallback of the file.
THEOREM TestedBeforeSaved == SettingsSpec => []SavedWasTested
  <1>1. SettingsInit => TestedInv
    BY DEF SettingsInit, Init, Idle, TestedInv
  <1>2. TestedInv => SavedWasTested
    BY DEF TestedInv, SavedWasTested, Login
  <1> QED
    BY <1>1, <1>2, SettingsInitially, SettingsPreserved, TestedPreserved, PTL DEF SettingsSpec

LEMMA KnownPreserved ==
    MaxFaults <= 2 /\ SettingsInv /\ KnownInv /\ [SettingsNext]_settingsVars => KnownInv'
  <1> SUFFICES ASSUME MaxFaults <= 2, SettingsInv, KnownInv, [SettingsNext]_settingsVars
               PROVE  KnownInv'
    OBVIOUS
  <1>t. /\ req \in [Requests -> Records] /\ faults \in 0 .. MaxFaults
        /\ PendingInv /\ HolderInv
    BY DEF SettingsInv, SettingsTypeOK, Shape, Records
  <1>1. ASSUME NEW r \in Requests, NEW e \in Endpoints, NEW m \in Modes,
               NEW secret \in Versions \cup {None}, NEW path \in {e, None},
               StartUpdate(r, e, m, secret, path)
        PROVE  KnownInv'
    <2> DEFINE cfg == Resolve(e, m, secret, path)
    <2> HIDE DEF cfg
    <2>1. /\ req' = [req EXCEPT ![r] = [pc |-> "test", cfg |-> cfg]]
          /\ known' = known \cup {cfg.secret} /\ UNCHANGED vars
      BY <1>1 DEF StartUpdate, Set, cfg
    <2> QED BY <2>1, <1>t DEF KnownInv, Known, vars
  <1>2. ASSUME NEW r \in Requests, TestSucceeds(r) PROVE KnownInv'
    <2>1. req[r].cfg \in Configs /\ req[r].cfg # None
      BY <1>2 DEF TestSucceeds, SettingsInv, RequestInv, SettingsTypeOK
    <2>2. req'[r].cfg.secret = req[r].cfg.secret
      BY <1>2, <2>1, <1>t DEF TestSucceeds, Set, Configs
    <2>3. /\ \A q \in Requests \ {r} : req'[q] = req[q]
          /\ UNCHANGED <<vars, known>>
      BY <1>2, <1>t DEF TestSucceeds, Set
    <2> QED BY <2>1, <2>2, <2>3 DEF KnownInv, Known, vars
  <1>3. ASSUME NEW r \in Requests, Save(r) PROVE KnownInv'
    BY <1>3 DEF Save, Begin, KnownInv, Known
  <1>4. ASSUME NEW r \in Requests, TestFails(r) \/ NoKey(r) PROVE KnownInv'
    <2>1. /\ UNCHANGED <<main, prev, memory, pc, new, known>>
          /\ faults' >= faults /\ faults' \in Nat
          /\ \A q \in Requests : req'[q] = req[q] \/ req'[q].cfg = None
      BY <1>4, <1>t, StateFileAssumption DEF TestFails, NoKey, Fault, Set, Idle, vars
    <2> QED BY <2>1, <1>t DEF KnownInv, Known
  <1>5. ASSUME NEW r \in Requests, SaveStep(r) PROVE KnownInv'
    <2>1. /\ known' = known
          /\ \A q \in Requests : req'[q] = req[q] \/ req'[q].cfg = None
      BY <1>5, <1>t DEF SaveStep, Set, Idle
    <2>2. \A q \in Requests : Known(req[q].cfg) => Known(req[q].cfg)'
      BY <2>1 DEF Known
    <2> USE <1>t, <2>1, <2>2, StateFileAssumption DEF KnownInv, Known, Works, Fault, Fail
    <2>3. CASE Write
      BY <2>3 DEF Write
    <2>4. CASE Rename
      BY <2>4 DEF Rename
    <2>5. CASE Refused
      BY <2>5 DEF Refused
    <2>6. CASE Clear
      BY <2>6 DEF Clear
    <2>7. CASE Retire
      BY <2>7 DEF Retire
    <2>8. CASE RetireFails
      BY <2>8 DEF RetireFails
    <2>9. CASE Replace
      BY <2>9 DEF Replace
    <2>10. CASE PutBack
      BY <2>10 DEF PutBack
    <2>11. CASE Tidy
      BY <2>11 DEF Tidy
    <2>12. CASE Commit
      BY <2>12 DEF Commit
    <2> QED BY <1>5, <2>3, <2>4, <2>5, <2>6, <2>7, <2>8, <2>9, <2>10, <2>11, <2>12
            DEF SaveStep, Saving
  <1>6. ASSUME NEW r \in Requests, StartDelete(r) PROVE KnownInv'
    <2>1. /\ UNCHANGED <<prev, memory, pc, new, known>> /\ pc = "idle"
          /\ main' \in {main, None}
          /\ \A q \in Requests : req'[q] = req[q] \/ req'[q].cfg = None
      BY <1>6, <1>t DEF StartDelete, Unlocked, Set
    <2> QED BY <2>1, <1>t DEF KnownInv, Known
  <1>7. ASSUME NEW r \in Requests, FinishDelete(r) PROVE KnownInv'
    <2>1. pc = "idle" /\ main = None /\ new = None
      BY <1>7, <1>t, QBSettingsAssumption DEF FinishDelete, HolderInv, PendingInv
    <2>2. /\ UNCHANGED <<main, prev, pc, new>> /\ memory' = None
          /\ known' = {req[q].cfg.secret : q \in {x \in Requests : req[x].cfg # None}}
          /\ \A q \in Requests : req'[q] = req[q] \/ req'[q].cfg = None
      BY <1>7, <1>t DEF FinishDelete, Set, Idle
    <2> QED BY <2>1, <2>2 DEF KnownInv, Known
  <1>8. CASE ProcessEnds
    BY <1>8 DEF ProcessEnds, Crash, KnownInv, Known, Idle
  <1>9. CASE Open
    BY <1>9 DEF Open, Load, KnownInv, Known
  <1>10. CASE UNCHANGED settingsVars
    BY <1>10 DEF settingsVars, vars, KnownInv, Known
  <1> QED BY <1>1, <1>2, <1>3, <1>4, <1>5, <1>6, <1>7, <1>8, <1>9, <1>10 DEF SettingsNext

\* Deleted settings stay deleted: a secret from before comes back neither by a
\* blank field nor from a backup nor at a restart, but only by a request that
\* had already read it.
THEOREM DeletedForGood == MaxFaults <= 2 /\ SettingsSpec => []DeletedForgotten
  <1>1. SettingsInit => KnownInv
    BY DEF SettingsInit, Init, Idle, KnownInv, Known
  <1>2. KnownInv => DeletedForgotten
    BY DEF KnownInv, Known, DeletedForgotten
  <1>3. CASE MaxFaults <= 2
    BY <1>1, <1>2, <1>3, SettingsInitially, SettingsPreserved, KnownPreserved, PTL
       DEF SettingsSpec
  <1> QED BY <1>3

-----------------------------------------------------------------------------
(* QBSettings: what a start finds. *)

\* With nothing done to the file, the promise is where it was; a fault can only
\* add to what it needs no longer be.
LEMMA FileUntouched ==
    ASSUME cut \subseteq Nat, faults \in Nat, faults' \in Nat, faults' >= faults,
           PromiseInv, UNCHANGED <<main, prev, pc, owed, cut>>,
           Forgetting => Forgetting'
    PROVE  PromiseInv'
  BY DEF PromiseInv, InPlaceInv, InBackupInv

\* The operations of a save.
LEMMA SavingKeepsPromise ==
    ASSUME MaxFaults <= 2, Shape, PromiseInv, cut \subseteq Nat, Saving, ~Forgetting,
           owed' = IF pc = "commit" THEN {new} ELSE owed,
           cut' = IF pc = "commit" THEN {}
                  ELSE IF pc = "putback" /\ faults' > faults THEN cut \cup {faults'} ELSE cut
    PROVE  PromiseInv'
  <1>f. /\ faults \in Nat /\ faults' \in Nat
        /\ faults' = faults \/ faults' = faults + 1
    BY StateFileAssumption
       DEF Shape, Saving, Write, Rename, Refused, Clear, Retire, RetireFails, Replace, PutBack,
           Tidy, Commit, Works, Fault
  <1>n. \A n \in cut' : n <= faults'
    <2> TAKE n \in cut'
    <2>1. CASE n \in cut
      <3>1. n \in Nat /\ n <= faults
        BY <2>1 DEF PromiseInv
      <3> QED BY <3>1, <1>f
    <2>2. CASE n = faults'
      BY <2>2, <1>f
    <2> QED BY <2>1, <2>2
  <1>1. CASE InPlaceInv
    <2> SUFFICES ASSUME TRUE PROVE InPlaceInv' \/ InBackupInv'
      BY <1>n DEF PromiseInv
    <2> USE <1>1, <1>f, StateFileAssumption
        DEF Shape, PendingInv, FallbackInv, InPlaceInv, InBackupInv, Steps, Works, Fault, Fail
    <2>1. CASE Write
      BY <2>1 DEF Write
    <2>2. CASE Rename
      BY <2>2 DEF Rename
    <2>3. CASE Refused
      BY <2>3 DEF Refused
    <2>4. CASE Clear
      BY <2>4 DEF Clear
    <2>5. CASE Retire
      BY <2>5 DEF Retire
    <2>6. CASE RetireFails
      BY <2>6 DEF RetireFails
    <2>7. CASE Replace
      BY <2>7 DEF Replace
    <2>8. CASE PutBack
      BY <2>8 DEF PutBack
    <2>9. CASE Tidy
      BY <2>9 DEF Tidy
    <2>10. CASE Commit
      BY <2>10 DEF Commit
    <2> QED BY <2>1, <2>2, <2>3, <2>4, <2>5, <2>6, <2>7, <2>8, <2>9, <2>10 DEF Saving
  <1>2. CASE pc = "commit"
    <2>1. main' = new /\ pc' = "idle" /\ cut' = {} /\ owed' = {new}
      BY <1>2 DEF Shape, FallbackInv, Saving, Write, Rename, Refused, Clear, Retire, RetireFails,
                  Replace, PutBack, Tidy, Commit
    <2> QED BY <2>1 DEF PromiseInv, InPlaceInv
  <1>3. CASE pc # "commit" /\ \E n \in cut : faults > n
    <2>1. cut \subseteq cut'
      BY <1>3
    <2> QED BY <1>3, <2>1, <1>f, <1>n DEF PromiseInv
  <1>4. CASE pc # "commit" /\ InBackupInv
    <2>1. cut' = cut /\ owed' = owed
      BY <1>4 DEF InBackupInv
    <2>2. CASE faults' = faults + 1
      <3>1. PICK n \in cut : n \in Nat /\ n <= faults
        BY <1>4 DEF InBackupInv, PromiseInv
      <3>2. n \in cut' /\ faults' > n
        BY <3>1, <2>1, <2>2, <1>f
      <3> QED BY <3>2, <1>n DEF PromiseInv
    <2>3. CASE faults' = faults
      <3>1. Write \/ Rename
        BY <1>4, <1>f, <2>3
           DEF InBackupInv, Saving, Write, Rename, Refused, Clear, Retire, RetireFails, Replace,
               PutBack, Tidy, Commit, Fault
      <3>2. InBackupInv'
        BY <3>1, <2>1, <2>3, <1>4, <1>f DEF InBackupInv, Write, Rename, Works, Fault, Fail
      <3> QED BY <3>2, <1>n DEF PromiseInv
    <2> QED BY <2>2, <2>3, <1>f
  <1> QED BY <1>1, <1>2, <1>3, <1>4 DEF PromiseInv

LEMMA PromisePreserved ==
    MaxFaults <= 2 /\ SettingsInv /\ PromiseInv /\ [SettingsNext]_settingsVars => PromiseInv'
  <1> SUFFICES ASSUME MaxFaults <= 2, SettingsInv, PromiseInv, [SettingsNext]_settingsVars
               PROVE  PromiseInv'
    OBVIOUS
  <1>t. /\ req \in [Requests -> Records] /\ Shape /\ HolderInv
        /\ cut \subseteq Nat /\ faults \in Nat
    BY StateFileAssumption DEF SettingsInv, SettingsTypeOK, Records
  <1>1. ASSUME NEW r \in Requests, NEW e \in Endpoints, NEW m \in Modes,
               NEW secret \in Versions \cup {None}, NEW path \in {e, None},
               StartUpdate(r, e, m, secret, path)
        PROVE  PromiseInv'
    <2>1. /\ \A q \in Requests : req[q].pc # "forget"
          /\ UNCHANGED <<vars, owed, cut>>
      BY <1>1, <1>t, QBSettingsAssumption DEF StartUpdate, Unlocked, HolderInv
    <2> QED BY <2>1, <1>t, FileUntouched DEF vars, Forgetting
  <1>2. ASSUME NEW r \in Requests, TestSucceeds(r) \/ TestFails(r) \/ NoKey(r) PROVE PromiseInv'
    <2>1. /\ UNCHANGED <<main, prev, pc, owed, cut>> /\ req[r].pc # "forget"
          /\ faults' \in Nat /\ faults' >= faults
          /\ \A q \in Requests \ {r} : req'[q] = req[q]
      BY <1>2, <1>t DEF TestSucceeds, TestFails, NoKey, Fault, Set, vars
    <2> QED BY <2>1, <1>t, FileUntouched DEF Forgetting
  <1>3. ASSUME NEW r \in Requests, Save(r) PROVE PromiseInv'
    <2>1. /\ pc = "idle" /\ pc' = "write" /\ ~Forgetting
          /\ UNCHANGED <<main, prev, faults, owed, cut>>
      BY <1>3, <1>t, QBSettingsAssumption DEF Save, Begin, Unlocked, HolderInv, Forgetting
    <2> QED BY <2>1 DEF PromiseInv, InPlaceInv, InBackupInv
  <1>4. ASSUME NEW r \in Requests, SaveStep(r) PROVE PromiseInv'
    <2>1. pc # "idle"
      BY <1>4 DEF SaveStep, Saving, Write, Rename, Refused, Clear, Retire, RetireFails,
                  Replace, PutBack, Tidy, Commit
    <2>2. ~Forgetting
      BY <2>1, <1>4, <1>t, QBSettingsAssumption DEF SaveStep, HolderInv, Forgetting
    <2> QED BY <2>2, <1>4, <1>t, SavingKeepsPromise DEF SaveStep
  <1>5. ASSUME NEW r \in Requests, StartDelete(r) PROVE PromiseInv'
    <2>1. CASE Fault /\ UNCHANGED <<main, holder, req>>
      <3>1. faults' \in Nat /\ faults' >= faults /\ UNCHANGED <<main, prev, pc, owed, cut>>
        BY <1>5, <2>1, <1>t DEF StartDelete, Fault
      <3> QED BY <3>1, <2>1, <1>t, FileUntouched DEF Forgetting
    <2>2. CASE main' = None /\ Set(r, [pc |-> "forget", cfg |-> None]) /\ UNCHANGED faults
      <3>1. Forgetting' /\ pc = "idle" /\ UNCHANGED <<prev, pc, owed, cut>>
        BY <1>5, <2>2, <1>t DEF StartDelete, Unlocked, Set, Forgetting
      <3> QED BY <3>1, <2>2 DEF PromiseInv, InPlaceInv, InBackupInv
    <2> QED BY <1>5, <2>1, <2>2 DEF StartDelete
  <1>6. ASSUME NEW r \in Requests, FinishDelete(r) PROVE PromiseInv'
    <2>1. pc = "idle" /\ main = None
      BY <1>6, <1>t, QBSettingsAssumption DEF FinishDelete, HolderInv
    <2> QED BY <1>6, <2>1 DEF FinishDelete, PromiseInv, InPlaceInv
  <1>7. CASE ProcessEnds
    <2>1. /\ pc' = "down" /\ UNCHANGED <<main, prev, faults>>
          /\ owed' = Promised /\ owed \subseteq Promised
          /\ cut' = IF pc \in {"replace", "putback"} THEN cut \cup {faults} ELSE cut
      BY <1>7 DEF ProcessEnds, Crash, Promised
    <2>2. Forgetting => main \in Promised
      BY <1>t, QBSettingsAssumption DEF HolderInv, Forgetting, Promised
    <2>3. pc \in {"tidy", "commit"} => main \in Promised
      BY <1>t DEF Shape, PendingInv, FallbackInv, Promised
    <2> QED
      BY <2>1, <2>2, <2>3, <1>t
         DEF PromiseInv, InPlaceInv, InBackupInv, Shape, FallbackInv, Steps
  <1>8. CASE Open
    <2>1. /\ pc = "down" /\ pc' = "idle" /\ UNCHANGED <<main, prev, faults, req>>
          /\ IF main \in owed THEN owed' = {main} /\ cut' = {} ELSE UNCHANGED <<owed, cut>>
      BY <1>8 DEF Open, Load
    <2>2. ~Forgetting
      BY <2>1, <1>t, QBSettingsAssumption DEF HolderInv, Forgetting, Steps
    <2> QED BY <2>1, <2>2, <1>t DEF PromiseInv, InPlaceInv, InBackupInv
  <1>9. CASE UNCHANGED settingsVars
    BY <1>9, <1>t, FileUntouched DEF settingsVars, vars, Forgetting
  <1> QED BY <1>1, <1>2, <1>3, <1>4, <1>5, <1>6, <1>7, <1>8, <1>9 DEF SettingsNext

\* A start finds what the answers promised until the fallback is cut short
\* between its renames; then the settings are in the backup, which no start
\* reads, until a further operation fails.
THEOREM SettingsFound == MaxFaults <= 2 /\ SettingsSpec => []SettingsKept
  <1>1. SettingsInit => PromiseInv
    BY DEF SettingsInit, Init, PromiseInv, InPlaceInv
  <1>2. SettingsInv /\ PromiseInv => SettingsKept
    <2> SUFFICES ASSUME SettingsInv, PromiseInv PROVE SettingsKept
      OBVIOUS
    <2>1. Shape /\ (Forgetting => main = None)
      BY QBSettingsAssumption DEF SettingsInv, HolderInv, Forgetting
    <2>2. /\ owed \subseteq Promised /\ (Forgetting => None \in Promised)
          /\ new # None => new \in Promised
      BY DEF Promised, Forgetting
    <2> QED
      BY <2>1, <2>2
         DEF SettingsKept, PromiseInv, InPlaceInv, InBackupInv, Shape, PendingInv, FallbackInv, Steps
  <1>3. CASE MaxFaults <= 2
    BY <1>1, <1>2, <1>3, SettingsInitially, SettingsPreserved, PromisePreserved, PTL
       DEF SettingsSpec
  <1> QED BY <1>3
=============================================================================
