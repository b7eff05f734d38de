-------------------------- MODULE ClientSetup_proofs --------------------------
(***************************************************************************)
(* The properties of ClientSetup for any number of requests, endpoints and *)
(* directories.                                                            *)
(***************************************************************************)
EXTENDS ClientSetup, TLAPS

-----------------------------------------------------------------------------
(* The invariants. *)

Critical == {"newkey", "write", "commit"}
Saving   == {"save"} \cup Critical

\* A request is inside Store.Update's critical section when it holds the lock.
LockInv == \A r \in Requests : lock = r <=> req[r].pc \in Critical

\* Where a request of each kind can be.
KindInv ==
    \A r \in Requests :
        /\ req[r].pc = "inspect" => req[r].kind = "connect"
        /\ req[r].pc \in {"chosen", "link"} => req[r].kind = "fetch"
        /\ req[r].pc \in {"validate", "dirs", "merge", "rollback"} => req[r].kind = "apply"
        /\ req[r].pc \in Saving => req[r].kind # "browse"
        /\ req[r].kind = "apply" =>
               req[r].pc \in {"validate", "dirs", "merge", "rollback"} \cup Saving

\* A key is only made when there is none, and a secret only sealed with the one
\* that there is.
KeyInv ==
    /\ KeyFits
    /\ \A r \in Requests :
           /\ req[r].pc = "newkey" => keyFile = None /\ req[r].key = r
           /\ req[r].pc = "write" /\ HasSecret(req[r].cfg) =>
                  keyFile # None /\ req[r].key = keyFile

\* What a restart would load is what is in memory, but for the update that has
\* written its file.
DiskInv ==
    /\ \A r \in Requests : req[r].pc = "commit" => Load = req[r].cfg
    /\ (\A r \in Requests : req[r].pc # "commit") => Load = setup

\* new differs from old in what a request of that kind may change.
Fits(kind, old, new) ==
    /\ kind = "connect" =>
           /\ new.dir = old.dir
           /\ new.mount = IF old.endpoint = new.endpoint /\ old.mode = new.mode
                          THEN old.mount ELSE None
    /\ kind = "apply" =>
           /\ old.endpoint = new.endpoint /\ old.mode = new.mode
           /\ new.login = old.login /\ new.token = old.token
    /\ kind = "fetch" => new = [old EXCEPT !.token = new.token]

\* The request has made its configuration from the setup.
Made(r) ==
    \/ req[r].pc \in Saving
    \/ req[r].pc = "inspect"
    \/ req[r].pc = "link"

\* A request that is not stale still fits the setup.
FreshInv == \A r \in Requests \ stale : Made(r) => Fits(req[r].kind, setup, req[r].cfg)

\* How far the directory of the transfer service has come.  An apply that has
\* overlapped no other is alone, and leaves it where it is about to say; until
\* one of those that run has changed it, it is where the setup says.
DirInv ==
    /\ \A r \in Applying \ crossed :
           /\ Applying = {r}
           /\ req[r].pc \in {"merge"} \cup Saving => transferDir = req[r].cfg.dir
           /\ ~drifted => req[r].old = setup.dir
    /\ ~drifted /\ (\A r \in Applying : req[r].pc = "dirs") => transferDir = setup.dir

SetupInv ==
    TypeOK /\ LockInv /\ KindInv /\ KeyInv /\ DiskInv /\ FreshInv /\ DirInv

-----------------------------------------------------------------------------
(* Types. *)

Records == [pc : Pcs, kind : Kinds, cfg : Configs,
            key : Requests \cup {None}, old : Dirs]

LEMMA IdleTyped == Idle \in Records /\ Defaults \in Configs
  BY SetupAssumption DEF Idle, Records, Defaults, Configs, Pcs, Kinds

LEMMA TypeInitially == Init => TypeOK
  <1> SUFFICES ASSUME Init PROVE TypeOK
    OBVIOUS
  <1>1. disk \in [saved : BOOLEAN, cfg : Configs, key : Requests \cup {None}]
    BY IdleTyped DEF Init
  <1>2. req \in [Requests -> Records]
    BY IdleTyped DEF Init
  <1> QED BY <1>1, <1>2, IdleTyped, SetupAssumption DEF Init, TypeOK, Records

LEMMA CrossedTyped ==
    ASSUME crossed \subseteq Requests, NEW r \in Requests, Cross(r)
    PROVE  crossed' \subseteq Requests
  BY DEF Cross, Applying

LEMMA CandidateTyped ==
    ASSUME setup \in Configs, NEW e \in Endpoints, NEW m \in {"password", "token"},
           NEW typed \in BOOLEAN
    PROVE  Candidate(e, m, typed) \in Configs
  BY DEF Candidate, Configs

\* Every step keeps the types.
LEMMA TypePreserved == TypeOK /\ [Next]_vars => TypeOK'
  <1> SUFFICES ASSUME TypeOK, [Next]_vars PROVE TypeOK'
    OBVIOUS
  <1> USE SetupAssumption, IdleTyped DEF Records, TypeOK, unsaved
  <1>1. CASE UNCHANGED vars
    BY <1>1 DEF vars
  <1>2. ASSUME NEW r \in Requests, Start(r) PROVE TypeOK'
    <2>1. ASSUME NEW e \in Endpoints, NEW m \in {"password", "token"}, NEW typed \in BOOLEAN,
                 StartConnect(r, e, m, typed)
          PROVE  TypeOK'
      <3>1. Candidate(e, m, typed) \in Configs
        BY CandidateTyped
      <3> QED BY <2>1, <3>1 DEF StartConnect, Begin, Set, Idle, Pcs, Kinds
    <2>2. CASE StartBrowse(r)
      BY <2>2 DEF StartBrowse, Begin, Set, Idle, Pcs, Kinds
    <2>3. ASSUME NEW d \in Dirs, StartApply(r, d) PROVE TypeOK'
      <3>1. [Defaults EXCEPT !.dir = d] \in Configs
        BY DEF Configs
      <3> QED BY <2>3, <3>1, CrossedTyped DEF StartApply, Set, Idle, Pcs, Kinds
    <2>4. ASSUME NEW d \in Dirs, StartApplyMount(r, d) PROVE TypeOK'
      <3>1. [setup EXCEPT !.mount = None, !.dir = d] \in Configs
        BY DEF Configs
      <3> QED BY <2>4, <3>1 DEF StartApplyMount, Begin, Set, Idle, Pcs, Kinds
    <2>5. CASE Choose(r)
      BY <2>5 DEF Choose, Begin, Set, Idle, Pcs, Kinds
    <2> QED BY <1>2, <2>1, <2>2, <2>3, <2>4, <2>5 DEF Start
  <1>3. ASSUME NEW r \in Requests, Step(r) PROVE TypeOK'
    <2>0. req[r] \in Records
      OBVIOUS
    <2>1. CASE GiveUp(r)
      BY <2>1 DEF GiveUp, End, Set
    <2>2. CASE Inspected(r)
      <3>1. [req[r] EXCEPT !.pc = "save",
                !.cfg.token = IF req[r].cfg.mode = "password" THEN Session(req[r].cfg) ELSE @]
            \in Records
        BY <2>0 DEF Configs, Session, Pcs
      <3> QED BY <2>2, <3>1 DEF Inspected, Set
    <2>3. CASE Validated(r)
      <3>1. [req[r] EXCEPT !.pc = "dirs", !.cfg.mount = Mount(req[r].cfg), !.old = transferDir]
            \in Records
        BY <2>0 DEF Configs, Mount, Pcs
      <3> QED BY <2>3, <3>1, CrossedTyped DEF Validated, Set
    <2>4. CASE ChangeDirectory(r)
      BY <2>0, <2>4 DEF ChangeDirectory, Goto, Set, Configs, Pcs
    <2>5. CASE Merge(r)
      <3>1. [setup EXCEPT !.mount = req[r].cfg.mount, !.dir = req[r].cfg.dir] \in Configs
        BY <2>0 DEF Configs
      <3> QED BY <2>0, <2>5, <3>1 DEF Merge, Set, Pcs
    <2>6. CASE ReadSetup(r)
      BY <2>0, <2>6 DEF ReadSetup, Set, Pcs
    <2>7. CASE Relogin(r)
      <3>1. [req[r] EXCEPT !.pc = "save", !.cfg.token = Session(req[r].cfg)] \in Records
        BY <2>0 DEF Configs, Session, Pcs
      <3> QED BY <2>7, <3>1 DEF Relogin, Set
    <2>8. CASE Reject(r)
      BY <2>0, <2>8 DEF Reject, Unsuccessful, End, Goto, Set, Pcs
    <2>9. CASE Lock(r)
      BY <2>0, <2>9 DEF Lock, Set, Pcs
    <2>10. CASE WriteKey(r)
      BY <2>0, <2>10 DEF WriteKey, Goto, Set, Pcs
    <2>11. CASE WriteFile(r)
      BY <2>0, <2>11 DEF WriteFile, Goto, Set, Pcs
    <2>12. CASE WriteFails(r)
      BY <2>0, <2>12 DEF WriteFails, Unsuccessful, End, Goto, Set, Pcs
    <2>13. CASE Commit(r)
      <3>0. crossed' = crossed \ {r} /\ stale' = Reading \ {r} /\ Reading \subseteq Requests
        BY <2>13 DEF Commit, Reading
      <3>a. drifted' \in BOOLEAN
        <4>1. CASE req[r].kind = "apply"
          BY <2>13, <4>1 DEF Commit
        <4>2. CASE req[r].kind # "apply"
          BY <2>13, <4>2 DEF Commit
        <4> QED BY <4>1, <4>2
      <3>1. stale' \subseteq Requests /\ crossed' \subseteq Requests /\ drifted' \in BOOLEAN
        BY <3>0, <3>a
      <3>2. setup' \in Configs /\ req' \in [Requests -> Records] /\ lock' = None
        BY <2>0, <2>13 DEF Commit, Set
      <3> QED BY <2>13, <3>1, <3>2 DEF Commit
    <2>14. CASE Rollback(r)
      BY <2>0, <2>14 DEF Rollback, End, Set
    <2> QED
      BY <1>3, <2>1, <2>2, <2>3, <2>4, <2>5, <2>6, <2>7, <2>8, <2>9, <2>10, <2>11,
         <2>12, <2>13, <2>14 DEF Step
  <1>4. CASE Restart
    <2>1. Load \in Configs
      BY DEF Load
    <2>2. Load.dir \in Dirs
      BY <2>1 DEF Configs
    <2> QED BY <1>4, <2>1, <2>2 DEF Restart
  <1> QED BY <1>1, <1>2, <1>3, <1>4 DEF Next

\* The variables keep their types.
THEOREM TypeCorrect == Spec => []TypeOK
  BY TypeInitially, TypePreserved, PTL DEF Spec

-----------------------------------------------------------------------------
(* The start of a request. *)

LEMMA CandidateFits ==
    ASSUME setup \in Configs, NEW e \in Endpoints, NEW m \in {"password", "token"},
           NEW typed \in BOOLEAN
    PROVE  /\ Fits("connect", setup, Candidate(e, m, typed))
           /\ AtHome(setup) => AtHome(Candidate(e, m, typed))
  <1> DEFINE c == Candidate(e, m, typed)
  <1>1. /\ c.endpoint = e /\ c.mode = m /\ c.dir = setup.dir
        /\ c.mount = IF e = setup.endpoint /\ m = setup.mode THEN setup.mount ELSE None
        /\ c.login \in {e, None} \/ (e = setup.endpoint /\ c.login = setup.login)
        /\ c.token \in {e, None} \/ (e = setup.endpoint /\ c.token = setup.token)
    BY DEF Candidate, Configs
  <1>2. Fits("connect", setup, c)
    BY <1>1 DEF Fits
  <1>3. AtHome(setup) => AtHome(c)
    BY <1>1 DEF AtHome
  <1> QED BY <1>2, <1>3

\* Request r, which was idle, starts as new, and nothing else changes.
Started(r, new) ==
    /\ req[r] = Idle
    /\ req' = [req EXCEPT ![r] = new]
    /\ UNCHANGED <<setup, disk, keyFile, lock, transferDir, stale, drifted>>
    /\ AtHome(setup) => AtHome(new.cfg)
    /\ \/ /\ new.pc = "inspect" /\ new.kind = "connect"
          /\ Fits("connect", setup, new.cfg) /\ UNCHANGED crossed
       \/ new.pc = "browse" /\ new.kind = "browse" /\ UNCHANGED crossed
       \/ new.pc = "chosen" /\ new.kind = "fetch" /\ UNCHANGED crossed
       \/ new.pc = "validate" /\ new.kind = "apply" /\ UNCHANGED crossed
       \/ /\ new.pc = "dirs" /\ new.kind = "apply" /\ new.old = transferDir
          /\ Cross(r)

LEMMA StartCases ==
    ASSUME TypeOK, NEW r \in Requests, Start(r)
    PROVE  \E new \in Records : Started(r, new)
  <1> USE IdleTyped DEF TypeOK, unsaved, Set, Begin
  <1>1. ASSUME NEW e \in Endpoints, NEW m \in {"password", "token"}, NEW typed \in BOOLEAN,
               StartConnect(r, e, m, typed)
        PROVE  \E new \in Records : Started(r, new)
    <2> DEFINE new == [Idle EXCEPT !.pc = "inspect", !.kind = "connect",
                                   !.cfg = Candidate(e, m, typed)]
    <2>1. Candidate(e, m, typed) \in Configs
      BY CandidateTyped
    <2>2. /\ new \in Records /\ new.pc = "inspect" /\ new.kind = "connect"
          /\ new.cfg = Candidate(e, m, typed)
      BY <2>1 DEF Records, Idle, Pcs, Kinds
    <2>3. Fits("connect", setup, new.cfg) /\ (AtHome(setup) => AtHome(new.cfg))
      BY <2>2, CandidateFits
    <2>4. Started(r, new)
      BY <1>1, <2>2, <2>3 DEF StartConnect, Started
    <2> QED BY <2>2, <2>4
  <1>2. CASE StartBrowse(r)
    <2> DEFINE new == [Idle EXCEPT !.pc = "browse", !.cfg = setup]
    <2>1. new \in Records /\ new.pc = "browse" /\ new.kind = "browse" /\ new.cfg = setup
      BY DEF Records, Idle, Pcs, Kinds
    <2>2. Started(r, new)
      BY <1>2, <2>1 DEF StartBrowse, Started
    <2> QED BY <2>1, <2>2
  <1>3. ASSUME NEW d \in Dirs, StartApply(r, d) PROVE \E new \in Records : Started(r, new)
    <2> DEFINE new == [Idle EXCEPT !.pc = "dirs", !.kind = "apply", !.old = transferDir,
                                   !.cfg = [Defaults EXCEPT !.dir = d]]
    <2>1. [Defaults EXCEPT !.dir = d] \in Configs /\ AtHome([Defaults EXCEPT !.dir = d])
      BY DEF Configs, AtHome, Defaults
    <2>2. /\ new \in Records /\ new.pc = "dirs" /\ new.kind = "apply"
          /\ new.old = transferDir /\ new.cfg = [Defaults EXCEPT !.dir = d]
      BY <2>1 DEF Records, Idle, Pcs, Kinds
    <2>3. Started(r, new)
      BY <1>3, <2>1, <2>2 DEF StartApply, Started
    <2> QED BY <2>2, <2>3
  <1>4. ASSUME NEW d \in Dirs, StartApplyMount(r, d) PROVE \E new \in Records : Started(r, new)
    <2> DEFINE new == [Idle EXCEPT !.pc = "validate", !.kind = "apply",
                                   !.cfg = [setup EXCEPT !.mount = None, !.dir = d]]
    <2>1. /\ [setup EXCEPT !.mount = None, !.dir = d] \in Configs
          /\ AtHome(setup) => AtHome([setup EXCEPT !.mount = None, !.dir = d])
      BY DEF Configs, AtHome
    <2>2. /\ new \in Records /\ new.pc = "validate" /\ new.kind = "apply"
          /\ new.cfg = [setup EXCEPT !.mount = None, !.dir = d]
      BY <2>1 DEF Records, Idle, Pcs, Kinds
    <2>3. Started(r, new)
      BY <1>4, <2>1, <2>2 DEF StartApplyMount, Started
    <2> QED BY <2>2, <2>3
  <1>5. CASE Choose(r)
    <2> DEFINE new == [Idle EXCEPT !.pc = "chosen", !.kind = "fetch"]
    <2>1. /\ new \in Records /\ new.pc = "chosen" /\ new.kind = "fetch"
          /\ new.cfg = Defaults /\ AtHome(Defaults)
      BY DEF Records, Idle, Pcs, Kinds, AtHome, Defaults
    <2>2. Started(r, new)
      BY <1>5, <2>1 DEF Choose, Started
    <2> QED BY <2>1, <2>2
  <1> QED BY <1>1, <1>2, <1>3, <1>4, <1>5 DEF Start

-----------------------------------------------------------------------------
(* The step of a request. *)

\* What every step but the last keeps of a request.
Keeps(r, new) == new.kind = req[r].kind /\ new.cfg = req[r].cfg /\ new.old = req[r].old

\* The step that takes request r to new, with the fields of new.
Stepped(r, new) ==
    \/ /\ \/ GiveUp(r) \/ Commit(r) \/ Rollback(r)
          \/ req[r].kind # "apply" /\ (Reject(r) \/ WriteFails(r))
       /\ new = Idle
    \/ /\ Reject(r) \/ WriteFails(r)
       /\ req[r].kind = "apply" /\ new.pc = "rollback" /\ Keeps(r, new)
    \/ /\ Inspected(r) \/ Relogin(r)
       /\ new.pc = "save" /\ new.kind = req[r].kind /\ new.old = req[r].old
       /\ new.cfg = [req[r].cfg EXCEPT !.token = new.cfg.token]
    \/ Validated(r) /\ new.pc = "dirs" /\ new.kind = req[r].kind /\ new.old = transferDir
    \/ ChangeDirectory(r) /\ new.pc = "merge" /\ Keeps(r, new)
    \/ /\ Merge(r) /\ new.pc = "save" /\ new.kind = req[r].kind /\ new.old = req[r].old
       /\ new.cfg = [setup EXCEPT !.mount = new.cfg.mount, !.dir = req[r].cfg.dir]
    \/ ReadSetup(r) /\ new.pc = "link" /\ new.kind = req[r].kind /\ new.cfg = setup
    \/ /\ Lock(r) /\ Keeps(r, new)
       /\ \/ /\ new.pc = "write"
             /\ HasSecret(new.cfg) => keyFile # None /\ new.key = keyFile
          \/ new.pc = "newkey" /\ keyFile = None /\ new.key = r
    \/ WriteKey(r) /\ new.pc = "write" /\ new.key = req[r].key /\ Keeps(r, new)
    \/ WriteFile(r) /\ new.pc = "commit" /\ new.key = req[r].key /\ Keeps(r, new)

LEMMA StepCases ==
    ASSUME TypeOK, NEW r \in Requests, Step(r)
    PROVE  \E new \in Records : req' = [req EXCEPT ![r] = new] /\ Stepped(r, new)
  <1> USE DEF Set, End, Goto
  <1>0. req \in [Requests -> Records] /\ req[r] \in Records /\ Idle \in Records
    BY IdleTyped DEF TypeOK, Records
  <1>1. CASE \/ GiveUp(r) \/ Commit(r) \/ Rollback(r)
             \/ req[r].kind # "apply" /\ (Reject(r) \/ WriteFails(r))
    <2>1. req' = [req EXCEPT ![r] = Idle]
      BY <1>1 DEF GiveUp, Commit, Rollback, Reject, WriteFails, Unsuccessful
    <2> QED BY <1>0, <1>1, <2>1 DEF Stepped
  <1>2. CASE req[r].kind = "apply" /\ (Reject(r) \/ WriteFails(r))
    <2> DEFINE new == [req[r] EXCEPT !.pc = "rollback"]
    <2>1. new \in Records /\ new.pc = "rollback" /\ Keeps(r, new)
      BY <1>0 DEF Records, Pcs, Keeps
    <2>2. req' = [req EXCEPT ![r] = new]
      BY <1>2 DEF Reject, WriteFails, Unsuccessful
    <2> QED BY <1>2, <2>1, <2>2 DEF Stepped
  <1>3. CASE Inspected(r)
    <2> DEFINE new == [req[r] EXCEPT !.pc = "save",
                 !.cfg.token = IF req[r].cfg.mode = "password" THEN Session(req[r].cfg) ELSE @]
    <2>1. /\ new \in Records /\ new.pc = "save" /\ new.kind = req[r].kind
          /\ new.old = req[r].old
      BY <1>0 DEF Records, Configs, Session, Pcs
    <2>2. new.cfg = [req[r].cfg EXCEPT !.token = new.cfg.token]
      BY <1>0 DEF Records, Configs
    <2>3. req' = [req EXCEPT ![r] = new]
      BY <1>3 DEF Inspected
    <2> QED BY <1>3, <2>1, <2>2, <2>3 DEF Stepped
  <1>4. CASE Relogin(r)
    <2> DEFINE new == [req[r] EXCEPT !.pc = "save", !.cfg.token = Session(req[r].cfg)]
    <2>1. /\ new \in Records /\ new.pc = "save" /\ new.kind = req[r].kind
          /\ new.old = req[r].old
      BY <1>0 DEF Records, Configs, Session, Pcs
    <2>2. new.cfg = [req[r].cfg EXCEPT !.token = new.cfg.token]
      BY <1>0 DEF Records, Configs
    <2>3. req' = [req EXCEPT ![r] = new]
      BY <1>4 DEF Relogin
    <2> QED BY <1>4, <2>1, <2>2, <2>3 DEF Stepped
  <1>5. CASE Validated(r)
    <2> DEFINE new == [req[r] EXCEPT !.pc = "dirs", !.cfg.mount = Mount(req[r].cfg),
                                     !.old = transferDir]
    <2>1. /\ new \in Records /\ new.pc = "dirs" /\ new.kind = req[r].kind
          /\ new.old = transferDir
      BY <1>0 DEF Records, Configs, Mount, Pcs, TypeOK
    <2>2. req' = [req EXCEPT ![r] = new]
      BY <1>5 DEF Validated
    <2> QED BY <1>5, <2>1, <2>2 DEF Stepped
  <1>6. CASE ChangeDirectory(r)
    <2> DEFINE new == [req[r] EXCEPT !.pc = "merge"]
    <2>1. new \in Records /\ new.pc = "merge" /\ Keeps(r, new)
      BY <1>0 DEF Records, Pcs, Keeps
    <2>2. req' = [req EXCEPT ![r] = new]
      BY <1>6 DEF ChangeDirectory
    <2> QED BY <1>6, <2>1, <2>2 DEF Stepped
  <1>7. CASE Merge(r)
    <2> DEFINE c == [setup EXCEPT !.mount = req[r].cfg.mount, !.dir = req[r].cfg.dir]
               new == [req[r] EXCEPT !.pc = "save", !.cfg = c]
    <2>1. c \in Configs /\ c.mount = req[r].cfg.mount
      BY <1>0 DEF Records, Configs, TypeOK
    <2>2. /\ new \in Records /\ new.pc = "save" /\ new.kind = req[r].kind
          /\ new.old = req[r].old /\ new.cfg = c
      BY <1>0, <2>1 DEF Records, Pcs
    <2>3. req' = [req EXCEPT ![r] = new]
      BY <1>7 DEF Merge
    <2> HIDE DEF new
    <2> QED BY <1>7, <2>1, <2>2, <2>3 DEF Stepped
  <1>8. CASE ReadSetup(r)
    <2> DEFINE new == [req[r] EXCEPT !.pc = "link", !.cfg = setup]
    <2>1. new \in Records /\ new.pc = "link" /\ new.kind = req[r].kind /\ new.cfg = setup
      BY <1>0 DEF Records, Pcs, TypeOK
    <2>2. req' = [req EXCEPT ![r] = new]
      BY <1>8 DEF ReadSetup
    <2> QED BY <1>8, <2>1, <2>2 DEF Stepped
  <1>9. CASE Lock(r)
    <2> DEFINE new == IF ~HasSecret(req[r].cfg) THEN [req[r] EXCEPT !.pc = "write"]
              ELSE IF keyFile # None THEN [req[r] EXCEPT !.pc = "write", !.key = keyFile]
              ELSE [req[r] EXCEPT !.pc = "newkey", !.key = r]
    <2>1. /\ new \in Records /\ Keeps(r, new)
          /\ \/ /\ new.pc = "write"
                /\ HasSecret(new.cfg) => keyFile # None /\ new.key = keyFile
             \/ new.pc = "newkey" /\ keyFile = None /\ new.key = r
      BY <1>0 DEF Records, Pcs, TypeOK, Keeps
    <2>2. req' = [req EXCEPT ![r] = new]
      BY <1>9 DEF Lock
    <2> QED BY <1>9, <2>1, <2>2 DEF Stepped
  <1>10. CASE WriteKey(r)
    <2> DEFINE new == [req[r] EXCEPT !.pc = "write"]
    <2>1. new \in Records /\ new.pc = "write" /\ new.key = req[r].key /\ Keeps(r, new)
      BY <1>0 DEF Records, Pcs, Keeps
    <2>2. req' = [req EXCEPT ![r] = new]
      BY <1>10 DEF WriteKey
    <2> QED BY <1>10, <2>1, <2>2 DEF Stepped
  <1>11. CASE WriteFile(r)
    <2> DEFINE new == [req[r] EXCEPT !.pc = "commit"]
    <2>1. new \in Records /\ new.pc = "commit" /\ new.key = req[r].key /\ Keeps(r, new)
      BY <1>0 DEF Records, Pcs, Keeps
    <2>2. req' = [req EXCEPT ![r] = new]
      BY <1>11 DEF WriteFile
    <2> QED BY <1>11, <2>1, <2>2 DEF Stepped
  <1>12. CASE Reject(r) \/ WriteFails(r)
    BY <1>1, <1>2, <1>12
  <1>13. CASE GiveUp(r) \/ Commit(r) \/ Rollback(r)
    BY <1>1, <1>13
  <1> QED
    BY <1>3, <1>4, <1>5, <1>6, <1>7, <1>8, <1>9, <1>10, <1>11, <1>12, <1>13 DEF Step

-----------------------------------------------------------------------------
(* Credentials. *)

LEMMA CredentialsInitially == Init => CredentialsStayHome
  BY DEF Init, CredentialsStayHome, AtHome, Idle, Defaults

\* No step moves a credential to another endpoint.
LEMMA CredentialsPreserved ==
    TypeOK /\ CredentialsStayHome /\ [Next]_vars => CredentialsStayHome'
  <1> SUFFICES ASSUME TypeOK, CredentialsStayHome, [Next]_vars PROVE CredentialsStayHome'
    OBVIOUS
  <1> USE DEF CredentialsStayHome, unsaved
  <1>0. AtHome(Defaults) /\ AtHome(Idle.cfg)
    BY DEF AtHome, Defaults, Idle
  <1>1. CASE UNCHANGED vars
    BY <1>1 DEF vars
  <1>2. ASSUME NEW r \in Requests, Start(r) PROVE CredentialsStayHome'
    <2>0. req \in [Requests -> Records] /\ setup \in Configs
      BY DEF TypeOK, Records
    <2>1. PICK new \in Records : Started(r, new)
      BY <1>2, StartCases
    <2>2. AtHome(new.cfg)
      BY <2>1 DEF Started
    <2> QED BY <2>0, <2>1, <2>2 DEF Started
  <1>3. ASSUME NEW r \in Requests, Step(r) PROVE CredentialsStayHome'
    <2>0. req \in [Requests -> Records] /\ setup \in Configs /\ req[r].cfg \in Configs
      BY DEF TypeOK, Records
    <2>1. CASE Inspected(r)
      <3>1. AtHome([req[r] EXCEPT !.pc = "save",
                !.cfg.token = IF req[r].cfg.mode = "password" THEN Session(req[r].cfg) ELSE @].cfg)
        BY <2>0 DEF AtHome, Session, Configs, Records
      <3> QED BY <2>0, <2>1, <3>1 DEF Inspected, Set
    <2>2. CASE Validated(r)
      <3>1. AtHome([req[r] EXCEPT !.pc = "dirs", !.cfg.mount = Mount(req[r].cfg),
                                  !.old = transferDir].cfg)
        BY <2>0 DEF AtHome, Configs, Records
      <3> QED BY <2>0, <2>2, <3>1 DEF Validated, Set
    <2>3. CASE Merge(r)
      <3>1. AtHome([setup EXCEPT !.mount = req[r].cfg.mount, !.dir = req[r].cfg.dir])
        BY <2>0 DEF AtHome, Configs
      <3> QED BY <2>0, <2>3, <3>1 DEF Merge, Set, Records
    <2>4. CASE ReadSetup(r)
      BY <2>0, <2>4 DEF ReadSetup, Set, Records
    <2>5. CASE Relogin(r)
      <3>1. AtHome([req[r] EXCEPT !.pc = "save", !.cfg.token = Session(req[r].cfg)].cfg)
        BY <2>0 DEF AtHome, Session, Configs, Records
      <3> QED BY <2>0, <2>5, <3>1 DEF Relogin, Set
    <2>6. CASE GiveUp(r) \/ ChangeDirectory(r) \/ Reject(r) \/ Lock(r) \/ WriteKey(r)
               \/ WriteFails(r) \/ Rollback(r)
      BY <1>0, <2>0, <2>6
         DEF GiveUp, ChangeDirectory, Reject, Lock, WriteKey, WriteFails, Rollback,
             Unsuccessful, End, Goto, Set, Records
    <2>7. CASE WriteFile(r) \/ Commit(r)
      BY <1>0, <2>0, <2>7 DEF WriteFile, Commit, Goto, Set, Records
    <2> QED
      BY <1>3, <2>1, <2>2, <2>3, <2>4, <2>5, <2>6, <2>7 DEF Step
  <1>4. CASE Restart
    BY <1>0, <1>4 DEF Restart, Load
  <1> QED BY <1>1, <1>2, <1>3, <1>4 DEF Next

\* A login or a token is only ever held together with its own endpoint.
THEOREM CredentialsConfined == Spec => []CredentialsStayHome
  BY TypeInitially, TypePreserved, CredentialsInitially, CredentialsPreserved, PTL DEF Spec

-----------------------------------------------------------------------------
(* The lock, the key and the file. *)

LEMMA LockInitially == Init => LockInv
  <1> SUFFICES ASSUME Init, NEW r \in Requests PROVE lock = r <=> req[r].pc \in Critical
    BY DEF LockInv
  <1>1. lock = None /\ req[r] = Idle
    BY DEF Init
  <1> QED BY <1>1, SetupAssumption DEF Critical, Idle

LEMMA LockPreserved == TypeOK /\ LockInv /\ [Next]_vars => LockInv'
  <1> SUFFICES ASSUME TypeOK, LockInv, [Next]_vars PROVE LockInv'
    OBVIOUS
  <1> USE SetupAssumption DEF LockInv, Critical
  <1>1. CASE UNCHANGED vars
    BY <1>1 DEF vars
  <1>2. ASSUME NEW r \in Requests, Start(r) PROVE LockInv'
    <2>1. PICK new \in Records : Started(r, new)
      BY <1>2, StartCases
    <2>2. req[r].pc \notin Critical /\ new.pc \notin Critical
      BY <2>1 DEF Started, Idle
    <2> QED BY <2>1, <2>2 DEF Started, TypeOK
  <1>3. ASSUME NEW r \in Requests, Step(r) PROVE LockInv'
    <2>1. PICK new \in Records : req' = [req EXCEPT ![r] = new] /\ Stepped(r, new)
      BY <1>3, StepCases
    <2>2. req \in [Requests -> Records]
      BY DEF TypeOK, Records
    <2>3. CASE Commit(r) \/ WriteFails(r)
      <3>1. req[r].pc \in Critical /\ lock' = None /\ new.pc \notin Critical
        BY <2>1, <2>3 DEF Commit, WriteFails, Stepped, Idle, GiveUp, Rollback, Reject, Inspected,
                          Relogin, Validated, ChangeDirectory, Merge, ReadSetup, Lock, WriteKey,
                          WriteFile
      <3> QED BY <2>1, <2>2, <3>1
    <2>4. CASE Lock(r)
      <3>1. lock = None /\ lock' = r /\ new.pc \in Critical
        BY <2>1, <2>4 DEF Lock, Unlocked, Stepped, Idle, GiveUp, Rollback, Reject, Inspected,
                          Relogin, Validated, ChangeDirectory, Merge, ReadSetup, Commit,
                          WriteFails, WriteKey, WriteFile
      <3> QED BY <2>1, <2>2, <3>1
    <2>5. CASE ~(Commit(r) \/ WriteFails(r) \/ Lock(r))
      <3>1. lock' = lock /\ (req[r].pc \in Critical <=> new.pc \in Critical)
        BY <2>1, <2>5 DEF Stepped, Idle, GiveUp, Rollback, Reject, Inspected, Relogin, Validated,
                          ChangeDirectory, Merge, ReadSetup, WriteKey, WriteFile, unsaved
      <3> QED BY <2>1, <2>2, <3>1
    <2> QED BY <2>3, <2>4, <2>5
  <1>4. CASE Restart
    BY <1>4 DEF Restart, Idle
  <1> QED BY <1>1, <1>2, <1>3, <1>4 DEF Next

LEMMA KindInitially == Init => KindInv
  <1> SUFFICES ASSUME Init, NEW r \in Requests
      PROVE  req[r].pc = "idle" /\ req[r].kind = "browse"
    BY DEF KindInv, Saving, Critical
  <1> QED BY DEF Init, Idle

LEMMA KindPreserved == TypeOK /\ KindInv /\ [Next]_vars => KindInv'
  <1> SUFFICES ASSUME TypeOK, KindInv, [Next]_vars PROVE KindInv'
    OBVIOUS
  <1> USE DEF KindInv, Saving, Critical
  <1>1. CASE UNCHANGED vars
    BY <1>1 DEF vars
  <1>2. ASSUME NEW r \in Requests, Start(r) PROVE KindInv'
    <2>1. PICK new \in Records : Started(r, new)
      BY <1>2, StartCases
    <2> QED BY <2>1 DEF Started, TypeOK
  <1>3. ASSUME NEW r \in Requests, Step(r) PROVE KindInv'
    <2>1. PICK new \in Records : req' = [req EXCEPT ![r] = new] /\ Stepped(r, new)
      BY <1>3, StepCases
    <2>2. req \in [Requests -> Records]
      BY DEF TypeOK, Records
    <2>3. /\ new.kind = req[r].kind \/ new = Idle
          /\ new.pc = "link" => req[r].pc = "chosen"
          /\ new.pc = "dirs" => req[r].pc = "validate"
          /\ new.pc = "merge" => req[r].pc = "dirs"
          /\ new.pc = "rollback" => req[r].kind = "apply"
          /\ new.pc = "save" => req[r].pc \in {"inspect", "link", "merge"}
          /\ new.pc \in Critical => req[r].pc \in Saving
          /\ new = Idle \/ new.pc \in {"link", "dirs", "merge", "rollback"} \cup Saving
      BY <2>1 DEF Stepped, Idle, Keeps, Inspected, Relogin, Validated, ChangeDirectory, Merge,
                  ReadSetup, Lock, WriteKey, WriteFile
    <2>4. CASE new = Idle
      BY <2>1, <2>2, <2>4 DEF Idle
    <2>5. CASE new # Idle
      BY <2>1, <2>2, <2>3, <2>5
    <2> QED BY <2>4, <2>5
  <1>4. CASE Restart
    BY <1>4 DEF Restart, Idle
  <1> QED BY <1>1, <1>2, <1>3, <1>4 DEF Next

LEMMA KeyInitially == Init => KeyInv
  <1> SUFFICES ASSUME Init PROVE KeyInv
    OBVIOUS
  <1>1. \A r \in Requests : req[r].pc = "idle"
    BY DEF Init, Idle
  <1> QED BY <1>1 DEF Init, KeyInv, KeyFits, Opens

\* Only the request inside the critical section can make a key or seal with it.
LEMMA KeyPreserved == TypeOK /\ LockInv /\ KeyInv /\ [Next]_vars => KeyInv'
  <1> SUFFICES ASSUME TypeOK, LockInv, KeyInv, [Next]_vars PROVE KeyInv'
    OBVIOUS
  <1> USE SetupAssumption DEF KeyInv, KeyFits
  <1>0. \A q, r \in Requests : req[q].pc \in Critical /\ req[r].pc \in Critical => q = r
    BY DEF LockInv
  <1>1. CASE UNCHANGED vars
    BY <1>1 DEF vars, Opens, HasSecret
  <1>2. ASSUME NEW r \in Requests, Start(r) PROVE KeyInv'
    <2>1. PICK new \in Records : Started(r, new)
      BY <1>2, StartCases
    <2> QED BY <2>1 DEF Started, TypeOK, Opens, HasSecret
  <1>3. ASSUME NEW r \in Requests, Step(r) PROVE KeyInv'
    <2>0. req \in [Requests -> Records] /\ req[r] \in Records
      BY DEF TypeOK, Records
    <2>1. PICK new \in Records : req' = [req EXCEPT ![r] = new] /\ Stepped(r, new)
      BY <1>3, StepCases
    <2>2. CASE ~WriteKey(r) /\ ~WriteFile(r)
      <3>1. UNCHANGED <<disk, keyFile>>
        BY <2>1, <2>2
           DEF Stepped, GiveUp, Inspected, Validated, ChangeDirectory, Merge, ReadSetup, Relogin,
               Reject, Lock, WriteFails, Commit, Rollback, unsaved
      <3>2. /\ new.pc = "newkey" => keyFile = None /\ new.key = r
            /\ new.pc = "write" /\ HasSecret(new.cfg) => keyFile # None /\ new.key = keyFile
        BY <2>1, <2>2 DEF Stepped, Idle
      <3> QED BY <2>0, <2>1, <3>1, <3>2 DEF Opens, HasSecret
    <2>3. CASE WriteKey(r)
      <3>1. keyFile = None /\ req[r].key = r /\ keyFile' = r
        BY <2>3 DEF WriteKey
      <3>2. \A q \in Requests \ {r} : req[q].pc \notin {"newkey", "write"}
        BY <1>0, <2>3 DEF WriteKey, Critical
      <3>3. Opens(disk, keyFile)'
        BY <2>3, <3>1 DEF WriteKey, Opens, HasSecret
      <3> QED BY <2>0, <2>3, <3>1, <3>2, <3>3 DEF WriteKey, Goto, Set, Records, HasSecret
    <2>4. CASE WriteFile(r)
      <3>1. Opens(disk, keyFile)'
        BY <2>4 DEF WriteFile, Opens, HasSecret
      <3> QED BY <2>0, <2>4, <3>1 DEF WriteFile, Goto, Set, Records, HasSecret
    <2> QED BY <2>2, <2>3, <2>4
  <1>4. CASE Restart
    BY <1>4 DEF Restart, Idle, Opens, HasSecret
  <1> QED BY <1>1, <1>2, <1>3, <1>4 DEF Next

\* The saved secrets can always be opened with the saved key.
THEOREM KeyNeverLost == Spec => []KeyFits
  <1>1. KeyInv => KeyFits
    BY DEF KeyInv
  <1> QED
    BY <1>1, TypeInitially, TypePreserved, LockInitially, LockPreserved, KeyInitially,
       KeyPreserved, PTL DEF Spec

-----------------------------------------------------------------------------
(* What is written and what is in memory. *)

LEMMA DiskInitially == Init => DiskInv
  <1> SUFFICES ASSUME Init PROVE DiskInv
    OBVIOUS
  <1>1. \A r \in Requests : req[r].pc = "idle"
    BY DEF Init, Idle
  <1> QED BY <1>1 DEF Init, DiskInv, Load

LEMMA DiskPreserved == TypeOK /\ LockInv /\ DiskInv /\ [Next]_vars => DiskInv'
  <1> SUFFICES ASSUME TypeOK, LockInv, DiskInv, [Next]_vars PROVE DiskInv'
    OBVIOUS
  <1> USE DEF DiskInv
  <1>0. \A q, r \in Requests : req[q].pc \in Critical /\ req[r].pc \in Critical => q = r
    BY DEF LockInv
  <1>1. CASE UNCHANGED vars
    BY <1>1 DEF vars, Load
  <1>2. ASSUME NEW r \in Requests, Start(r) PROVE DiskInv'
    <2>1. PICK new \in Records : Started(r, new)
      BY <1>2, StartCases
    <2>2. req[r].pc # "commit" /\ new.pc # "commit"
      BY <2>1 DEF Started, Idle
    <2> QED BY <2>1, <2>2 DEF Started, TypeOK, Load
  <1>3. ASSUME NEW r \in Requests, Step(r) PROVE DiskInv'
    <2>0. req \in [Requests -> Records]
      BY DEF TypeOK, Records
    <2>1. PICK new \in Records : req' = [req EXCEPT ![r] = new] /\ Stepped(r, new)
      BY <1>3, StepCases
    <2>2. CASE WriteFile(r)
      <3>1. Load' = req[r].cfg /\ new.pc = "commit" /\ new.cfg = req[r].cfg
        BY <2>0, <2>1, <2>2 DEF WriteFile, Goto, Set, Load, Records
      <3>2. \A q \in Requests \ {r} : req[q].pc # "commit"
        BY <1>0, <2>2 DEF WriteFile, Critical
      <3> QED BY <2>0, <2>1, <3>1, <3>2
    <2>3. CASE Commit(r)
      <3>1. setup' = req[r].cfg /\ Load' = Load /\ Load = req[r].cfg
        BY <2>3 DEF Commit, Load
      <3>2. \A q \in Requests \ {r} : req[q].pc # "commit"
        BY <1>0, <2>3 DEF Commit, Critical
      <3>3. new.pc # "commit"
        BY <2>0, <2>1, <2>3 DEF Commit, Set, Idle
      <3> QED BY <2>0, <2>1, <3>1, <3>2, <3>3
    <2>4. CASE ~WriteFile(r) /\ ~Commit(r)
      <3>1. UNCHANGED <<disk, setup>> /\ req[r].pc # "commit" /\ new.pc # "commit"
        BY <2>1, <2>4 DEF Stepped, Idle, GiveUp, Rollback, Reject, Inspected, Relogin, Validated,
             ChangeDirectory, Merge, ReadSetup, WriteFails, WriteKey, Lock, unsaved
      <3> QED BY <2>0, <2>1, <3>1 DEF Load
    <2> QED BY <2>2, <2>3, <2>4
  <1>4. CASE Restart
    BY <1>4 DEF Restart, Idle, Load
  <1> QED BY <1>1, <1>2, <1>3, <1>4 DEF Next

-----------------------------------------------------------------------------
(* What a request changes. *)

LEMMA FreshInitially == Init => FreshInv
  <1> SUFFICES ASSUME Init PROVE FreshInv
    OBVIOUS
  <1>1. \A r \in Requests : req[r].pc = "idle"
    BY DEF Init, Idle
  <1> QED BY <1>1 DEF FreshInv, Made, Saving, Critical

\* A request that was overtaken is stale; the others still fit the setup.
LEMMA FreshPreserved == TypeOK /\ KindInv /\ FreshInv /\ [Next]_vars => FreshInv'
  <1> SUFFICES ASSUME TypeOK, KindInv, FreshInv, [Next]_vars PROVE FreshInv'
    OBVIOUS
  <1> USE DEF FreshInv, Made, Saving, Critical
  <1>1. CASE UNCHANGED vars
    BY <1>1 DEF vars, Fits
  <1>2. ASSUME NEW r \in Requests, Start(r) PROVE FreshInv'
    <2>1. PICK new \in Records : Started(r, new)
      BY <1>2, StartCases
    <2>2. Made(r)' => Fits(new.kind, setup, new.cfg)
      BY <2>1 DEF Started, TypeOK
    <2> QED BY <2>1, <2>2 DEF Started, TypeOK, Fits
  <1>3. ASSUME NEW r \in Requests, Step(r) PROVE FreshInv'
    <2>0. req \in [Requests -> Records] /\ setup \in Configs /\ req[r].cfg \in Configs
      BY DEF TypeOK, Records
    <2>1. PICK new \in Records : req' = [req EXCEPT ![r] = new] /\ Stepped(r, new)
      BY <1>3, StepCases
    <2>2. CASE Commit(r)
      <3>1. new.pc = "idle"
        BY <2>0, <2>1, <2>2 DEF Commit, Set, Idle
      <3>2. \A q \in Requests \ stale' : q = r \/ req[q].pc \in {"idle", "chosen"}
        BY <2>2 DEF Commit, Reading
      <3> QED BY <2>0, <2>1, <3>1, <3>2
    <2>3. CASE ~Commit(r)
      <3>1. setup' = setup /\ stale \ stale' \subseteq {r}
        BY <2>1, <2>3 DEF Stepped, GiveUp, Rollback, Reject, Inspected, Relogin, Validated,
             ChangeDirectory, Merge, ReadSetup, WriteFails, WriteKey, WriteFile, Lock, unsaved,
             Unsuccessful, End, Goto
      <3>2. (r \notin stale' /\ Made(r)') => Fits(new.kind, setup, new.cfg)
        <4>1. CASE Merge(r)
          <5> DEFINE c == [setup EXCEPT !.mount = req[r].cfg.mount, !.dir = req[r].cfg.dir]
          <5>1. req[r].kind = "apply"
            BY <4>1 DEF Merge, KindInv
          <5>2. new = [req[r] EXCEPT !.pc = "save", !.cfg = c]
            BY <2>0, <2>1, <4>1 DEF Merge, Set
          <5>3. new.kind = "apply" /\ new.cfg = c
            BY <2>0, <5>1, <5>2 DEF Records
          <5>4. Fits("apply", setup, c)
            BY <2>0 DEF Fits, Configs
          <5> QED BY <5>3, <5>4
        <4>2. CASE ReadSetup(r)
          <5>1. new = [req[r] EXCEPT !.pc = "link", !.cfg = setup]
            BY <2>0, <2>1, <4>2 DEF ReadSetup, Set
          <5>2. new.kind = "fetch" /\ new.cfg = setup
            BY <2>0, <4>2, <5>1 DEF Records, ReadSetup, KindInv
          <5>3. Fits("fetch", setup, setup)
            BY <2>0 DEF Fits, Configs
          <5> QED BY <5>2, <5>3
        <4>3. CASE Inspected(r) \/ Relogin(r)
          <5>1. (r \in stale' <=> r \in stale) /\ Made(r)
            BY <4>3 DEF Inspected, Relogin
          <5>2. req[r].kind # "apply"
            BY <4>3 DEF Inspected, Relogin, KindInv
          <5>3. \E t : new = [req[r] EXCEPT !.pc = "save", !.cfg.token = t]
            <6>1. CASE Inspected(r)
              <7>1. req'[r] = [req[r] EXCEPT !.pc = "save",
                         !.cfg.token = IF req[r].cfg.mode = "password"
                                       THEN Session(req[r].cfg) ELSE req[r].cfg.token]
                BY <2>0, <6>1 DEF Inspected, Set
              <7> QED BY <2>0, <2>1, <7>1
            <6>2. CASE Relogin(r)
              <7>1. req'[r] = [req[r] EXCEPT !.pc = "save", !.cfg.token = Session(req[r].cfg)]
                BY <2>0, <6>2 DEF Relogin, Set
              <7> QED BY <2>0, <2>1, <7>1
            <6> QED BY <4>3, <6>1, <6>2
          <5>4. /\ new.kind = req[r].kind
                /\ new.cfg = [req[r].cfg EXCEPT !.token = new.cfg.token]
            BY <2>0, <5>3 DEF Records, Configs
          <5>5. r \notin stale => Fits(req[r].kind, setup, req[r].cfg)
            BY <5>1
          <5>6. Fits(req[r].kind, setup, req[r].cfg) => Fits(new.kind, setup, new.cfg)
            <6> DEFINE t == new.cfg.token
            <6>1. new.cfg = [req[r].cfg EXCEPT !.token = t]
              BY <5>4
            <6> HIDE DEF t
            <6>2. /\ new.cfg.endpoint = req[r].cfg.endpoint /\ new.cfg.mode = req[r].cfg.mode
                  /\ new.cfg.mount = req[r].cfg.mount /\ new.cfg.dir = req[r].cfg.dir
                  /\ new.cfg.token = t
              BY <2>0, <6>1 DEF Configs
            <6>3. req[r].cfg = [setup EXCEPT !.token = req[r].cfg.token] =>
                      new.cfg = [setup EXCEPT !.token = new.cfg.token]
              BY <2>0, <6>1, <6>2 DEF Configs
            <6> QED BY <5>2, <5>4, <6>2, <6>3 DEF Fits
          <5> QED BY <5>1, <5>5, <5>6
        <4>4. CASE ~Merge(r) /\ ~ReadSetup(r) /\ ~Inspected(r) /\ ~Relogin(r)
          <5>1. \/ new.pc \in {"idle", "rollback", "dirs", "merge"}
                \/ /\ Made(r) /\ Keeps(r, new) /\ (r \in stale' <=> r \in stale)
            BY <2>1, <2>3, <4>4 DEF Stepped, Idle, WriteKey, WriteFile, Lock
          <5> QED BY <2>0, <2>1, <5>1 DEF Keeps
        <4> QED BY <4>1, <4>2, <4>3, <4>4
      <3> QED BY <2>0, <2>1, <3>1, <3>2
    <2> QED BY <2>2, <2>3
  <1>4. CASE Restart
    BY <1>4 DEF Restart, Idle
  <1> QED BY <1>1, <1>2, <1>3, <1>4 DEF Next

\* A step that changes the setup while an up-to-date request holds the lock is
\* the commit of that request, or the restart that loads what it has written.
LEMMA OwnStep ==
    TypeOK /\ LockInv /\ DiskInv /\ FreshInv /\ [Next]_vars
    => [\A r \in Requests : lock = r /\ r \notin stale /\ setup' # setup => Own(r)]_vars
  <1> SUFFICES ASSUME TypeOK, LockInv, DiskInv, FreshInv, [Next]_vars, NEW r \in Requests,
                      lock = r, r \notin stale, setup' # setup
               PROVE  Own(r)
    OBVIOUS
  <1> USE DEF Critical
  <1>0. \A q \in Requests : req[q].pc \in Critical => q = r
    BY DEF LockInv
  <1>1. setup' = req[r].cfg /\ req[r].pc = "commit"
    <2>1. CASE Restart
      BY <1>0, <2>1 DEF Restart, Load, DiskInv
    <2>2. ASSUME NEW q \in Requests, Start(q) PROVE FALSE
      BY <2>2, StartCases DEF Started
    <2>3. ASSUME NEW q \in Requests, Step(q) PROVE setup' = req[r].cfg /\ req[r].pc = "commit"
      <3>1. CASE Commit(q)
        BY <1>0, <3>1 DEF Commit
      <3>2. CASE ~Commit(q)
        BY <2>3, <3>2 DEF Step, GiveUp, Rollback, Reject, Inspected, Relogin, Validated,
             ChangeDirectory, Merge, ReadSetup, WriteFails, WriteKey, WriteFile, Lock, unsaved
      <3> QED BY <3>1, <3>2
    <2>4. CASE UNCHANGED vars
      BY <2>4 DEF vars
    <2> QED BY <2>1, <2>2, <2>3, <2>4 DEF Next
  <1>2. Fits(req[r].kind, setup, setup')
    BY <1>1 DEF FreshInv, Made, Saving
  <1> QED BY <1>2 DEF Own, Fits

\* A request that no other one has overtaken changes its own part only.
THEOREM OwnPart == Spec => OwnPartOnly
  BY TypeInitially, TypePreserved, LockInitially, LockPreserved, KindInitially, KindPreserved,
     DiskInitially, DiskPreserved, FreshInitially, FreshPreserved, OwnStep, PTL
  DEF Spec, OwnPartOnly

-----------------------------------------------------------------------------
(* The directory of the transfer service. *)

LEMMA DirInitially == Init => DirInv
  <1> SUFFICES ASSUME Init PROVE DirInv
    OBVIOUS
  <1>1. \A r \in Requests : req[r].kind = "browse"
    BY DEF Init, Idle
  <1>2. Applying = {}
    BY <1>1 DEF Applying
  <1> QED BY <1>2 DEF DirInv, Init, Defaults

\* Whether a request is among those that hold a directory to save or restore.
Applies(new) == new.kind = "apply" /\ new.pc # "validate"

LEMMA ApplyingOne ==
    ASSUME TypeOK, NEW r \in Requests, NEW new, req' = [req EXCEPT ![r] = new]
    PROVE  Applying' = IF Applies(new) THEN Applying \cup {r} ELSE Applying \ {r}
  BY DEF TypeOK, Applying, Applies

\* What an apply that has crossed no other leaves behind, and when all of those
\* that run have yet to change the directory.
Alone(r) ==
    /\ Applying = {r}
    /\ req[r].pc \in {"merge"} \cup Saving => transferDir = req[r].cfg.dir
    /\ ~drifted => req[r].old = setup.dir
Settled == \A r \in Applying : req[r].pc = "dirs"

LEMMA DirParts ==
    DirInv => /\ \A r \in Applying \ crossed : Alone(r)
              /\ ~drifted /\ Settled => transferDir = setup.dir
  BY DEF DirInv, Alone, Settled

\* A request that joins those that apply is alone, or crosses them all.
LEMMA Joining ==
    ASSUME TypeOK, DirInv, NEW r \in Requests, NEW new,
           req' = [req EXCEPT ![r] = new], r \notin Applying,
           Applies(new), new.pc = "dirs", new.old = transferDir, Cross(r),
           UNCHANGED <<setup, transferDir, drifted>>
    PROVE  DirInv'
  <1>0. req \in [Requests -> Records] /\ Applying \subseteq Requests
    BY DEF TypeOK, Records, Applying
  <1>1. Applying' = Applying \cup {r} /\ req'[r] = new
    BY <1>0, ApplyingOne
  <1>2. ASSUME NEW q \in Applying' \ crossed' PROVE Alone(q)'
    <2>1. Applying = {} /\ q = r
      BY <1>1, <1>2 DEF Cross
    <2>2. ~drifted => transferDir = setup.dir
      BY <2>1, DirParts DEF Settled
    <2> QED BY <1>1, <2>1, <2>2 DEF Alone, Saving, Critical
  <1>3. Settled' => Settled
    BY <1>0, <1>1 DEF Settled
  <1>4. ~drifted' /\ Settled' => transferDir' = setup'.dir
    BY <1>3, DirParts
  <1> QED BY <1>2, <1>4 DEF DirInv, Alone, Settled

\* One that applies goes on, with the directory where it has brought it.
LEMMA Moving ==
    ASSUME TypeOK, DirInv, NEW r \in Requests, NEW new,
           req' = [req EXCEPT ![r] = new], r \in Applying,
           Applies(new), new.pc # "dirs", new.old = req[r].old,
           Alone(r) /\ new.pc \in {"merge"} \cup Saving => transferDir' = new.cfg.dir,
           UNCHANGED <<setup, crossed, drifted>>
    PROVE  DirInv'
  <1>0. req \in [Requests -> Records] /\ Applying \subseteq Requests
    BY DEF TypeOK, Records, Applying
  <1>1. Applying' = Applying /\ req'[r] = new
    BY <1>0, ApplyingOne
  <1>2. ~Settled'
    BY <1>1 DEF Settled
  <1>3. ASSUME NEW q \in Applying' \ crossed' PROVE Alone(q)'
    <2>1. Alone(q) /\ q = r
      BY <1>1, <1>3, DirParts DEF Alone
    <2> QED BY <1>1, <2>1 DEF Alone
  <1> QED BY <1>2, <1>3 DEF DirInv, Alone, Settled

\* One that applies ends.
LEMMA Leaving ==
    ASSUME TypeOK, DirInv, NEW r \in Requests, NEW new,
           req' = [req EXCEPT ![r] = new], r \in Applying, ~Applies(new),
           crossed' = crossed \ {r},
           ~drifted' /\ Settled' => transferDir' = setup'.dir
    PROVE  DirInv'
  <1>1. Applying' = Applying \ {r}
    BY ApplyingOne
  <1>2. ASSUME NEW q \in Applying' \ crossed' PROVE FALSE
    <2>1. Alone(q) /\ q # r
      BY <1>1, <1>2, DirParts
    <2> QED BY <2>1 DEF Alone
  <1> QED BY <1>2 DEF DirInv, Settled

\* A request that does not apply leaves the directory of the setup as it is, or
\* it is known to have moved it.
LEMMA Bystanding ==
    ASSUME TypeOK, DirInv, NEW r \in Requests, NEW new,
           req' = [req EXCEPT ![r] = new], r \notin Applying, ~Applies(new),
           crossed \ crossed' \subseteq {r}, UNCHANGED transferDir,
           ~drifted' => ~drifted /\ setup'.dir = setup.dir
    PROVE  DirInv'
  <1>0. req \in [Requests -> Records] /\ Applying \subseteq Requests
    BY DEF TypeOK, Records, Applying
  <1>1. Applying' = Applying /\ \A q \in Applying : q # r /\ req'[q] = req[q]
    BY <1>0, ApplyingOne
  <1>2. ASSUME NEW q \in Applying' \ crossed' PROVE Alone(q)'
    <2>1. Alone(q)
      BY <1>1, <1>2, DirParts
    <2> QED BY <1>1, <1>2, <2>1 DEF Alone
  <1>3. Settled' => Settled
    BY <1>1 DEF Settled
  <1>4. ~drifted' /\ Settled' => transferDir' = setup'.dir
    BY <1>3, DirParts
  <1> QED BY <1>2, <1>4 DEF DirInv, Alone, Settled

\* Every step keeps the invariant.
LEMMA DirPreserved ==
    TypeOK /\ KindInv /\ FreshInv /\ DirInv /\ [Next]_vars => DirInv'
  <1> SUFFICES ASSUME TypeOK, KindInv, FreshInv, DirInv, [Next]_vars PROVE DirInv'
    OBVIOUS
  <1>0. req \in [Requests -> Records] /\ Applying \subseteq Requests /\ ~Applies(Idle)
    BY DEF TypeOK, Records, Applying, Applies, Idle
  <1>1. CASE UNCHANGED vars
    BY <1>1 DEF vars, DirInv, Applying
  <1>2. ASSUME NEW r \in Requests, Start(r) PROVE DirInv'
    <2>1. PICK new \in Records : Started(r, new)
      BY <1>2, StartCases
    <2>2. r \notin Applying
      BY <2>1 DEF Started, Idle, Applying
    <2>3. CASE Applies(new)
      <3>1. new.pc = "dirs" /\ new.old = transferDir /\ Cross(r)
        BY <2>1, <2>3 DEF Started, Applies
      <3> QED BY <2>1, <2>2, <2>3, <3>1, Joining DEF Started
    <2>4. CASE ~Applies(new)
      <3>1. crossed' = crossed
        BY <2>1, <2>4 DEF Started, Applies
      <3> QED BY <2>1, <2>2, <2>4, <3>1, Bystanding DEF Started
    <2> QED BY <2>3, <2>4
  <1>3. ASSUME NEW r \in Requests, Step(r) PROVE DirInv'
    <2>1. PICK new \in Records : req' = [req EXCEPT ![r] = new] /\ Stepped(r, new)
      BY <1>3, StepCases
    <2>2. req'[r] = new
      BY <1>0, <2>1
    <2>3. CASE Commit(r)
      <3>1. /\ setup' = req[r].cfg /\ transferDir' = transferDir /\ new = Idle
            /\ crossed' = crossed \ {r} /\ req[r].pc = "commit"
        BY <1>0, <2>2, <2>3 DEF Commit, Set
      <3>2. CASE req[r].kind = "apply"
        <4>1. r \in Applying /\ drifted' = (r \in crossed)
          BY <2>3, <3>1, <3>2 DEF Commit, Applying
        <4>2. ~drifted' => transferDir' = setup'.dir
          BY <3>1, <4>1, DirParts DEF Alone, Saving, Critical
        <4> QED BY <1>0, <2>1, <3>1, <4>1, <4>2, Leaving
      <3>3. CASE req[r].kind # "apply"
        <4>1. r \notin Applying /\ drifted' = (drifted \/ r \in stale)
          BY <2>3, <3>3 DEF Commit, Applying
        <4>2. r \notin stale => setup'.dir = setup.dir
          <5>1. r \notin stale => Fits(req[r].kind, setup, setup') /\ req[r].kind # "browse"
            BY <3>1 DEF FreshInv, Made, Saving, Critical, KindInv
          <5>2. req[r].kind = "connect" /\ r \notin stale => setup'.dir = setup.dir
            BY <5>1 DEF Fits
          <5>3. req[r].kind = "fetch" /\ r \notin stale => setup'.dir = setup.dir
            BY <5>1 DEF Fits, TypeOK, Configs
          <5> QED BY <1>0, <3>3, <5>1, <5>2, <5>3 DEF Records, Kinds
        <4> QED BY <1>0, <2>1, <3>1, <4>1, <4>2, Bystanding
      <3> QED BY <3>2, <3>3
    <2>4. CASE Rollback(r)
      <3>1. /\ r \in Applying /\ new = Idle /\ setup' = setup /\ crossed' = crossed \ {r}
            /\ ~drifted' => ~drifted /\ r \notin crossed /\ transferDir' = req[r].old
        BY <1>0, <2>2, <2>4 DEF Rollback, End, Set, KindInv, Applying, unsaved, TypeOK
      <3>2. ~drifted' => transferDir' = setup'.dir
        BY <3>1, DirParts DEF Alone
      <3> QED BY <1>0, <2>1, <3>1, <3>2, Leaving
    <2>5. CASE Validated(r)
      <3>1. /\ r \notin Applying /\ req[r].kind = "apply" /\ Cross(r)
            /\ UNCHANGED <<setup, transferDir, drifted>>
        BY <2>5 DEF Validated, KindInv, Applying, unsaved
      <3>2. new.pc = "dirs" /\ new.old = transferDir /\ Applies(new)
        <4>1. new = [req[r] EXCEPT !.pc = "dirs", !.cfg.mount = Mount(req[r].cfg),
                                   !.old = transferDir]
          BY <1>0, <2>2, <2>5 DEF Validated, Set
        <4> QED BY <1>0, <3>1, <4>1 DEF Records, Applies
      <3> QED BY <2>1, <3>1, <3>2, Joining
    <2>6. CASE GiveUp(r)
      <3>1. /\ new = Idle /\ crossed' = crossed \ {r}
            /\ UNCHANGED <<setup, transferDir, drifted>>
        BY <1>0, <2>2, <2>6 DEF GiveUp, End, Set, unsaved
      <3>2. CASE r \in Applying
        <4>1. req[r].pc = "dirs"
          BY <2>6, <3>2 DEF GiveUp, KindInv, Applying, Saving, Critical
        <4>2. Settled' => Settled
          <5>1. \A q \in Applying : q = r \/ (q \in Applying' /\ req'[q] = req[q])
            BY <1>0, <2>1, ApplyingOne
          <5> QED BY <4>1, <5>1 DEF Settled
        <4>3. ~drifted' /\ Settled' => transferDir' = setup'.dir
          BY <3>1, <4>2, DirParts
        <4> QED BY <1>0, <2>1, <3>1, <3>2, <4>3, Leaving
      <3>3. CASE r \notin Applying
        BY <1>0, <2>1, <3>1, <3>3, Bystanding
      <3> QED BY <3>2, <3>3
    <2>7. CASE ChangeDirectory(r)
      <3>1. /\ r \in Applying /\ req[r].kind = "apply" /\ transferDir' = req[r].cfg.dir
            /\ UNCHANGED <<setup, crossed, drifted>>
        BY <2>7 DEF ChangeDirectory, KindInv, Applying, unsaved
      <3>2. new.pc = "merge" /\ Keeps(r, new)
        BY <1>0, <2>2, <2>7 DEF ChangeDirectory, Goto, Set, Records, Keeps
      <3> QED BY <2>1, <3>1, <3>2, Moving DEF Keeps, Applies
    <2>8. CASE Merge(r)
      <3> DEFINE c == [setup EXCEPT !.mount = req[r].cfg.mount, !.dir = req[r].cfg.dir]
      <3>1. /\ r \in Applying /\ req[r].kind = "apply" /\ req[r].pc = "merge"
            /\ UNCHANGED <<setup, transferDir, crossed, drifted>>
        BY <2>8 DEF Merge, KindInv, Applying, unsaved
      <3>2. new = [req[r] EXCEPT !.pc = "save", !.cfg = c]
        BY <1>0, <2>2, <2>8 DEF Merge, Set
      <3>3. c.dir = req[r].cfg.dir
        BY DEF TypeOK, Configs
      <3> HIDE DEF c
      <3>4. /\ new.pc = "save" /\ new.kind = "apply" /\ new.old = req[r].old
            /\ new.cfg.dir = req[r].cfg.dir
        BY <1>0, <3>1, <3>2, <3>3 DEF Records
      <3>5. Alone(r) => transferDir' = new.cfg.dir
        BY <3>1, <3>4 DEF Alone
      <3> QED BY <2>1, <3>1, <3>4, <3>5, Moving DEF Applies
    <2>9. CASE Lock(r) \/ WriteKey(r) \/ WriteFile(r)
      <3>1. /\ Keeps(r, new) /\ new.pc \in Critical /\ req[r].pc \in Saving
            /\ UNCHANGED <<setup, transferDir, crossed, drifted>>
        <4>1. CASE Lock(r)
          <5>1. \/ new = [req[r] EXCEPT !.pc = "write"]
                \/ new = [req[r] EXCEPT !.pc = "write", !.key = keyFile]
                \/ new = [req[r] EXCEPT !.pc = "newkey", !.key = r]
            BY <1>0, <2>2, <4>1 DEF Lock, Set
          <5>2. Keeps(r, new) /\ new.pc \in Critical
            BY <1>0, <5>1 DEF Records, Keeps, Critical
          <5> QED BY <4>1, <5>2 DEF Lock, Saving
        <4>2. CASE WriteKey(r)
          <5>1. new = [req[r] EXCEPT !.pc = "write"]
            BY <1>0, <2>2, <4>2 DEF WriteKey, Goto, Set
          <5> QED BY <1>0, <4>2, <5>1 DEF WriteKey, Records, Keeps, Critical, Saving
        <4>3. CASE WriteFile(r)
          <5>1. new = [req[r] EXCEPT !.pc = "commit"]
            BY <1>0, <2>2, <4>3 DEF WriteFile, Goto, Set
          <5> QED BY <1>0, <4>3, <5>1 DEF WriteFile, Records, Keeps, Critical, Saving
        <4> QED BY <2>9, <4>1, <4>2, <4>3
      <3>2. CASE r \in Applying
        <4>1. Alone(r) => transferDir' = new.cfg.dir
          BY <3>1 DEF Alone, Keeps
        <4> QED BY <2>1, <3>1, <3>2, <4>1, Moving DEF Applies, Applying, Keeps, Critical
      <3>3. CASE r \notin Applying
        BY <2>1, <3>1, <3>3, Bystanding DEF Applies, Applying, Keeps, Critical, Saving
      <3> QED BY <3>2, <3>3
    <2>10. CASE Reject(r) \/ WriteFails(r)
      <3>1. /\ UNCHANGED <<setup, transferDir, drifted>>
            /\ Unsuccessful(r) /\ req[r].pc \in Saving
        BY <2>10 DEF Reject, WriteFails, unsaved, Saving, Critical
      <3>2. CASE req[r].kind = "apply"
        <4>1. r \in Applying /\ crossed' = crossed
          BY <3>1, <3>2 DEF Unsuccessful, Applying, Saving, Critical
        <4>2. new.pc = "rollback" /\ Keeps(r, new)
          BY <1>0, <2>2, <3>1, <3>2 DEF Unsuccessful, Goto, Set, Records, Keeps
        <4> QED BY <2>1, <3>1, <3>2, <4>1, <4>2, Moving DEF Applies, Keeps, Saving, Critical
      <3>3. CASE req[r].kind # "apply"
        <4>1. r \notin Applying /\ new = Idle /\ crossed' = crossed \ {r}
          BY <1>0, <2>2, <3>1, <3>3 DEF Unsuccessful, End, Set, Applying
        <4> QED BY <1>0, <2>1, <3>1, <4>1, Bystanding
      <3> QED BY <3>2, <3>3
    <2>11. CASE Inspected(r) \/ Relogin(r) \/ ReadSetup(r)
      <3>1. /\ req[r].kind # "apply"
            /\ UNCHANGED <<setup, transferDir, crossed, drifted>>
        BY <2>11 DEF Inspected, Relogin, ReadSetup, KindInv, unsaved
      <3>2. new.kind = req[r].kind
        BY <1>0, <2>2, <2>11 DEF Inspected, Relogin, ReadSetup, Set, Records
      <3> QED BY <2>1, <3>1, <3>2, Bystanding DEF Applies, Applying
    <2> QED
      BY <1>3, <2>3, <2>4, <2>5, <2>6, <2>7, <2>8, <2>9, <2>10, <2>11 DEF Step
  <1>4. CASE Restart
    <2>1. Applying' = {}
      BY <1>4 DEF Restart, Applying, Idle
    <2> QED BY <1>4, <2>1 DEF Restart, DirInv
  <1> QED BY <1>1, <1>2, <1>3, <1>4 DEF Next

\* With no selection being applied the transfer service saves where the setup
\* says, unless the last change was by a request whose copy was out of date, by an
\* apply that overlapped another, or by a roll-back whose directory is gone: then
\* until the next apply that overlaps no other has succeeded, or a restart.
THEOREM DirectoryFollows == Spec => []DirectoryAsSaved
  <1>1. KindInv /\ DirInv => DirectoryAsSaved
    BY DEF DirInv, DirectoryAsSaved
  <1> QED
    BY <1>1, TypeInitially, TypePreserved, KindInitially, KindPreserved, FreshInitially,
       FreshPreserved, DirInitially, DirPreserved, PTL DEF Spec
=============================================================================
