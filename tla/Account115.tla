----------------------------- MODULE Account115 -----------------------------
(***************************************************************************)
(* The 115 account of a client or manager: internal/account115, with the   *)
(* calls that its handlers make.                                           *)
(*                                                                         *)
(* The configuration is read and written under Store.mu, but never both    *)
(* under one hold of it: every change is a read, a copy that is altered,   *)
(* and a write of the whole copy, with calls to 115 in front of the read.  *)
(* Nothing but the refresh of tokens excludes another call.                *)
(*                                                                         *)
(* The selected folder is left out; that selecting one writes everything   *)
(* else back as well is not.  When tokens expire and what 115 answers is a *)
(* free choice.                                                            *)
(***************************************************************************)

CONSTANTS
    Calls,  \* goroutines that serve HTTP requests
    Apps,   \* application ids
    Users   \* 115 users

NoApp  == "no app"
Nobody == "nobody"

ASSUME NamesAssumption == NoApp \notin Apps /\ Nobody \notin Users

\* A pair of tokens belongs to the application it was issued to and its user.
NoTokens == [app |-> NoApp, user |-> Nobody]
Tokens   == [app : Apps, user : Users]

Unbound(app) == [app |-> app, tokens |-> NoTokens, user |-> Nobody]

VARIABLES
    cfg,         \* Store.cfg, which save makes equal to the file
    auth,        \* Service.auth: the application of the QR session, or NoApp
    refreshing,  \* the calls that hold Service.refresh
    call,        \* where each call is, and what it has read
    unbinding,   \* history: an unbinding has "begun", is "done", or "no": there
                 \* is none, or a new QR code was asked for since
    late,        \* history: the QR session was begun by a call that overlapped
                 \* the unbinding
    lingering    \* history: calls in progress that were there when it was done,
                 \* or that poll such a session

vars == <<cfg, auth, refreshing, call, unbinding, late, lingering>>

Idle == [at |-> "idle"]

Init ==
    /\ cfg \in {Unbound(app) : app \in Apps \cup {NoApp}}
    /\ auth = NoApp
    /\ refreshing = {}
    /\ call = [p \in Calls |-> Idle]
    /\ unbinding = "no" /\ late = FALSE /\ lingering = {}

At(p, place)   == call[p].at = place
Goto(p, state) == call' = [call EXCEPT ![p] = state]

\* On the way to Store.save of a copy of the configuration.
Save(p, config, next) == Goto(p, [at |-> "save", config |-> config, next |-> next])

\* SaveAccount alters the copy that it has just read.
Altered(tokens, user) == [cfg EXCEPT !.tokens = tokens, !.user = user]

-----------------------------------------------------------------------------
(* Binding with a QR code. *)

\* SetClientID, when it is called with another application.
SetClientID(p, next) ==
    \E app \in Apps \ {cfg.app} : Save(p, Unbound(app), next)

ChangeApp(p) ==
    /\ At(p, "idle")
    /\ SetClientID(p, Idle)
    /\ UNCHANGED <<cfg, auth, refreshing, unbinding>>

StartAuth(p) ==
    /\ At(p, "idle")
    /\ SetClientID(p, [at |-> "ask"]) \/ Goto(p, [at |-> "ask"])
    /\ unbinding' = IF unbinding = "begun" THEN "begun" ELSE "no"
    /\ UNCHANGED <<cfg, auth, refreshing>>

\* The application is read again for StartDeviceAuth ...
Ask(p) ==
    /\ At(p, "ask")
    /\ cfg.app # NoApp
    /\ Goto(p, [at |-> "asking", app |-> cfg.app])
    /\ UNCHANGED <<cfg, auth, refreshing, unbinding>>

\* ... whose answer begins a QR session and replaces any other.
BeginSession(p) ==
    /\ At(p, "asking")
    /\ auth' = call[p].app
    /\ Goto(p, Idle)
    /\ UNCHANGED <<cfg, refreshing, unbinding>>

Poll(p) ==
    /\ At(p, "idle")
    /\ auth # NoApp
    /\ Goto(p, [at |-> "polling", app |-> auth])
    /\ UNCHANGED <<cfg, auth, refreshing, unbinding>>

\* The code has run out: clearAuth, whatever session there is by now.
Expired(p) ==
    /\ At(p, "polling")
    /\ auth' = NoApp
    /\ Goto(p, Idle)
    /\ UNCHANGED <<cfg, refreshing, unbinding>>

\* Somebody has confirmed the login: ExchangeDeviceCode, UserInfo, SaveAccount.
Confirmed(p) ==
    /\ At(p, "polling")
    /\ cfg.app # NoApp
    /\ \E user \in Users :
          Save(p, Altered([app |-> call[p].app, user |-> user], user), [at |-> "clear"])
    /\ UNCHANGED <<cfg, auth, refreshing, unbinding>>

ClearAuth(p) ==
    /\ At(p, "clear")
    /\ auth' = NoApp
    /\ Goto(p, Idle)
    /\ UNCHANGED <<cfg, refreshing, unbinding>>

-----------------------------------------------------------------------------
(* Unbinding: Service.ClearAccount. *)

\* An unbinding that leaves the QR session alone.
SessionKept == auth

SessionCleared == NoApp

Unbind(p) ==
    /\ At(p, "idle")
    /\ auth' = SessionCleared
    /\ Goto(p, [at |-> "unbind"])
    /\ unbinding' = "begun"
    /\ UNCHANGED <<cfg, refreshing>>

\* Store.ClearAccount
ClearAccount(p) ==
    /\ At(p, "unbind")
    /\ Save(p, Unbound(cfg.app), [at |-> "unbound"])
    /\ UNCHANGED <<cfg, auth, refreshing, unbinding>>

\* The handler answers.
Unbinds(p) ==
    /\ At(p, "unbound")
    /\ Goto(p, Idle)
    /\ UNCHANGED <<cfg, auth, refreshing, unbinding>>

-----------------------------------------------------------------------------
(* Calls that need a token: callWithToken and accessToken. *)

\* The call waits for Service.refresh.
NeedToken(p) ==
    /\ At(p, "idle")
    /\ Goto(p, [at |-> "token", again |-> FALSE])
    /\ UNCHANGED <<cfg, auth, refreshing, unbinding>>

\* accessToken, up to Refresh or the end.
GetToken(p) ==
    /\ At(p, "token")
    /\ refreshing = {}
    /\ LET use == [at |-> "use", again |-> call[p].again]
       IN  \/ cfg.tokens = NoTokens /\ Goto(p, Idle) /\ UNCHANGED refreshing
           \/ cfg.tokens # NoTokens /\ ~call[p].again /\ Goto(p, use) /\ UNCHANGED refreshing
           \/ /\ cfg.tokens # NoTokens
              /\ Goto(p, [at |-> "refresh", tokens |-> cfg.tokens, user |-> cfg.user,
                          next |-> use])
              /\ refreshing' = {p}
    /\ UNCHANGED <<cfg, auth, unbinding>>

\* A refresh that keeps the user whom the configuration names by then.
OwnerNow(p) == cfg.user

\* The user of the tokens that were refreshed.
Owner(p) == call[p].user

\* New tokens of the same application and user: SaveAccount.
Refreshed(p) ==
    /\ At(p, "refresh")
    /\ cfg.app # NoApp
    /\ Save(p, Altered(call[p].tokens, Owner(p)), call[p].next)
    /\ UNCHANGED <<cfg, auth, refreshing, unbinding>>

\* 115 answers; a token that it does not accept is refreshed, once.
Answered(p) ==
    /\ At(p, "use")
    /\ \/ Goto(p, Idle)
       \/ ~call[p].again /\ Goto(p, [at |-> "token", again |-> TRUE])
       \/ Goto(p, [at |-> "select"])
    /\ UNCHANGED <<cfg, auth, refreshing, unbinding>>

\* Store.SelectFolder, the root folder's without a call to 115 before.
SelectFolder(p) ==
    /\ At(p, "select") \/ At(p, "idle")
    /\ cfg.tokens # NoTokens
    /\ Save(p, cfg, Idle)
    /\ UNCHANGED <<cfg, auth, refreshing, unbinding>>

-----------------------------------------------------------------------------
\* A failed refresh that does not unlock Service.refresh.
LockKept(p) == refreshing

\* The deferred unlock, if there is anything to unlock.
Unlocked(p) == refreshing \ {p}

\* What a write makes of an unbinding: it is done, or an account is bound again.
Noted(p) ==
    CASE unbinding = "begun" /\ call[p].next.at = "unbound"      -> "done"
      [] unbinding = "done" /\ call[p].config.tokens # NoTokens -> "no"
      [] OTHER                                                  -> unbinding

\* Store.save: the file, then memory, in one hold of Store.mu.
Write(p) ==
    /\ At(p, "save")
    /\ cfg' = call[p].config
    /\ Goto(p, call[p].next)
    /\ refreshing' = refreshing \ {p}
    /\ unbinding' = Noted(p)
    /\ UNCHANGED auth

\* 115 refuses or has nothing new, the network or a write fails, the browser
\* goes away.
Fail(p) ==
    /\ call[p].at \notin {"idle", "token", "clear", "unbound"}
    /\ Goto(p, Idle)
    /\ refreshing' = Unlocked(p)
    /\ UNCHANGED <<cfg, auth, unbinding>>

\* The process starts again; the file has what memory had.
Restart ==
    /\ auth' = NoApp
    /\ refreshing' = {}
    /\ call' = [p \in Calls |-> Idle]
    /\ UNCHANGED <<cfg, unbinding>>

Begin(p) ==
    ChangeApp(p) \/ StartAuth(p) \/ Poll(p) \/ Unbind(p) \/ NeedToken(p)
    \/ (At(p, "idle") /\ SelectFolder(p))

Continue(p) ==
    \/ Ask(p) \/ BeginSession(p) \/ Expired(p) \/ Confirmed(p) \/ ClearAuth(p)
    \/ ClearAccount(p) \/ Unbinds(p)
    \/ Refreshed(p) \/ Answered(p) \/ (At(p, "select") /\ SelectFolder(p))
    \/ Write(p) \/ Fail(p)

Step == Restart \/ \E p \in Calls : Begin(p) \/ GetToken(p) \/ Continue(p)

\* A call lingers until it ends.  Unless a new code has been asked for since, it is
\* a call that was there before the unbinding was done that begins a QR session.
History ==
    LET busy    == {p \in Calls : call'[p] # Idle}
        polling == {p \in Calls : call[p] = Idle /\ call'[p].at = "polling"}
    IN  /\ late' = /\ unbinding' # "no" /\ auth' # NoApp
                   /\ late \/ \E p \in Calls : BeginSession(p)
        /\ lingering' = IF unbinding' # "done" THEN {}
                        ELSE IF unbinding # "done" THEN busy
                        ELSE busy \cap (lingering \cup IF late THEN polling ELSE {})

Next == Step /\ History

Spec == Init /\ [][Next]_vars

\* Every exchange with 115 ends by its timeout, and a waiter for Service.refresh
\* gets it in the end, because sync.Mutex hands over to a starving one.
Fairness == \A p \in Calls : WF_vars(Continue(p) /\ History) /\ SF_vars(GetToken(p) /\ History)

FairSpec == Spec /\ Fairness

-----------------------------------------------------------------------------
(* Properties. *)

\* The user that is shown as bound is the one whose tokens are used, also when
\* the tokens are refreshed while another user is being bound.
UserMatchesTokens == cfg.user = cfg.tokens.user

\* Once an unbinding is done only calls that overlapped it can bring an account
\* back, or the QR code that one of them was asking for: a code that was shown
\* before cannot, and neither can any other call that begins afterwards, until
\* somebody asks for a new code.
UnbindingHolds ==
    [][unbinding = "done" /\ cfg.tokens = NoTokens /\ cfg'.tokens # NoTokens =>
          \E p \in lingering : call'[p] # call[p]]_vars

\* Every call ends: none waits for Service.refresh for ever.
EveryCallEnds == \A p \in Calls : call[p] # Idle ~> call[p] = Idle

\* The tokens belong to the application that is configured
\* (the comment in Store.SetClientID).
OneScope == cfg.tokens # NoTokens => cfg.tokens.app = cfg.app
=============================================================================
