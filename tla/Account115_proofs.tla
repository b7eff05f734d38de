--------------------------- MODULE Account115_proofs ---------------------------
(***************************************************************************)
(* The safety properties of Account115 for any calls, applications and     *)
(* users.                                                                  *)
(***************************************************************************)
EXTENDS Account115, Integers, TLAPS

Configs == [app : Apps \cup {NoApp}, tokens : Tokens \cup {NoTokens}, user : Users \cup {Nobody}]

\* Configurations that name the user of their tokens.
Matched == {c \in Configs : c.user = c.tokens.user}

\* Where a call can be, apart from on its way to a write.
Places ==
    [at : {"idle", "ask", "clear", "unbind", "unbound", "select"}]
    \cup [at : {"asking", "polling"}, app : Apps]
    \cup [at : {"token", "use"}, again : BOOLEAN]

\* Where a write leads to.
Afters == [at : {"idle", "ask", "clear", "unbound"}] \cup [at : {"use"}, again : BOOLEAN]

Refreshes == {s \in [at : {"refresh"}, tokens : Tokens, user : Users, next : Afters] :
                 s.user = s.tokens.user /\ s.next.at = "use"}

Saves == [at : {"save"}, config : Matched, next : Afters]

CallStates == Places \cup Refreshes \cup Saves

Inv ==
    /\ cfg \in Matched
    /\ auth \in Apps \cup {NoApp}
    /\ call \in [Calls -> CallStates]

-----------------------------------------------------------------------------
(* Operators. *)

LEMMA UnboundMatched == \A app \in Apps \cup {NoApp} : Unbound(app) \in Matched
  BY DEF Unbound, Matched, Configs, NoTokens

LEMMA AlteredMatched ==
    ASSUME Inv, NEW tokens \in Tokens
    PROVE  /\ Altered(tokens, tokens.user) \in Matched
           /\ Altered(tokens, tokens.user).tokens = tokens
  BY DEF Inv, Altered, Matched, Configs, Tokens

\* A token of the configuration has an application and a user.
LEMMA BoundTokens ==
    ASSUME Inv, cfg.tokens # NoTokens
    PROVE  cfg.tokens \in Tokens /\ cfg.user = cfg.tokens.user /\ cfg.user \in Users
  BY DEF Inv, Matched, Configs, Tokens

\* A call that moves leaves the others where they are.
LEMMA Moves ==
    ASSUME Inv, NEW p \in Calls, NEW s \in CallStates, Goto(p, s)
    PROVE  /\ call' \in [Calls -> CallStates]
           /\ call'[p] = s
           /\ \A q \in Calls : q # p => call'[q] = call[q]
  BY DEF Inv, Goto

LEMMA PlaceFields ==
    ASSUME Inv, NEW p \in Calls
    PROVE  /\ call[p].at \in {"asking", "polling"} => call[p].app \in Apps
           /\ call[p].at \in {"token", "use"} => call[p].again \in BOOLEAN
           /\ call[p].at = "refresh" =>
                 /\ call[p].tokens \in Tokens /\ call[p].user = call[p].tokens.user
                 /\ call[p].next \in Afters /\ call[p].next.at = "use"
           /\ call[p].at = "save" => call[p].config \in Matched /\ call[p].next \in Afters
<1>1. call[p] \in CallStates
  BY DEF Inv
<1>2. CASE call[p] \in Places
  BY <1>2 DEF Places
<1>3. CASE call[p] \in Refreshes
  BY <1>3 DEF Refreshes
<1>4. CASE call[p] \in Saves
  BY <1>4 DEF Saves
<1> QED BY <1>1, <1>2, <1>3, <1>4 DEF CallStates

LEMMA NamedPlaces ==
    /\ \A place \in {"idle", "ask", "clear", "unbind", "unbound", "select"} :
          [at |-> place] \in Places
    /\ \A place \in {"asking", "polling"}, app \in Apps : [at |-> place, app |-> app] \in Places
    /\ \A place \in {"token", "use"}, again \in BOOLEAN :
          [at |-> place, again |-> again] \in Places
    /\ \A place \in {"idle", "ask", "clear", "unbound"} : [at |-> place] \in Afters
    /\ \A again \in BOOLEAN : [at |-> "use", again |-> again] \in Afters
    /\ Idle \in Places /\ Idle \in Afters
    /\ Afters \subseteq Places /\ Places \subseteq CallStates
  BY DEF Places, Afters, Idle, CallStates

LEMMA SaveState ==
    ASSUME NEW config \in Matched, NEW next \in Afters
    PROVE  [at |-> "save", config |-> config, next |-> next] \in CallStates
  BY DEF CallStates, Saves

-----------------------------------------------------------------------------
(* The invariant. *)

LEMMA InvInit == Init => Inv
  BY UnboundMatched, NamedPlaces DEF Init, Inv

\* Where the steps of one call lead it.
LEMMA NextState ==
    ASSUME Inv, NEW p \in Calls, Begin(p) \/ GetToken(p) \/ Continue(p)
    PROVE  \E s \in CallStates : Goto(p, s)
<1>1. CASE ChangeApp(p)
  BY <1>1, UnboundMatched, NamedPlaces, SaveState DEF ChangeApp, SetClientID, Save
<1>2. CASE StartAuth(p)
  BY <1>2, UnboundMatched, NamedPlaces, SaveState DEF StartAuth, SetClientID, Save
<1>3. CASE Poll(p)
  BY <1>3, NamedPlaces DEF Poll, Inv
<1>4. CASE Unbind(p) \/ NeedToken(p) \/ BeginSession(p) \/ Expired(p) \/ ClearAuth(p)
           \/ Unbinds(p) \/ Fail(p) \/ Answered(p)
  BY <1>4, NamedPlaces DEF Unbind, NeedToken, BeginSession, Expired, ClearAuth, Unbinds, Fail,
                           Answered
<1>5. CASE SelectFolder(p)
  BY <1>5, NamedPlaces, SaveState DEF SelectFolder, Save, Inv
<1>6. CASE GetToken(p)
  <2> DEFINE use == [at |-> "use", again |-> call[p].again]
  <2>1. use \in Afters /\ use.at = "use"
    BY <1>6, PlaceFields, NamedPlaces DEF GetToken, At
  <2>2. CASE Goto(p, Idle) \/ Goto(p, use)
    BY <2>1, <2>2, NamedPlaces
  <2>3. CASE /\ cfg.tokens # NoTokens
             /\ Goto(p, [at |-> "refresh", tokens |-> cfg.tokens, user |-> cfg.user, next |-> use])
    <3>1. [at |-> "refresh", tokens |-> cfg.tokens, user |-> cfg.user, next |-> use] \in CallStates
      BY <2>1, <2>3, BoundTokens DEF CallStates, Refreshes
    <3> QED BY <2>3, <3>1
  <2> QED BY <1>6, <2>2, <2>3 DEF GetToken
<1>7. CASE Ask(p)
  BY <1>7, NamedPlaces DEF Ask, Inv, Matched, Configs
<1>8. CASE Confirmed(p)
  <2>1. call[p].app \in Apps
    BY <1>8, PlaceFields DEF Confirmed, At
  <2>2. PICK user \in Users :
           Save(p, Altered([app |-> call[p].app, user |-> user], user), [at |-> "clear"])
    BY <1>8 DEF Confirmed
  <2> DEFINE tokens == [app |-> call[p].app, user |-> user]
  <2>3. tokens \in Tokens /\ tokens.user = user
    BY <2>1 DEF Tokens
  <2>4. Altered(tokens, user) \in Matched
    BY <2>3, AlteredMatched
  <2> QED BY <2>2, <2>4, NamedPlaces, SaveState DEF Save
<1>9. CASE ClearAccount(p)
  <2>1. Unbound(cfg.app) \in Matched
    BY UnboundMatched DEF Inv, Matched, Configs
  <2> QED BY <1>9, <2>1, NamedPlaces, SaveState DEF ClearAccount, Save
<1>10. CASE Refreshed(p)
  BY <1>10, PlaceFields, AlteredMatched, SaveState DEF Refreshed, At, Owner, Save
<1>11. CASE Write(p)
  BY <1>11, PlaceFields, NamedPlaces DEF Write, At
<1> QED
  BY <1>1, <1>2, <1>3, <1>4, <1>5, <1>6, <1>7, <1>8, <1>9, <1>10, <1>11 DEF Begin, Continue

LEMMA InvPreserved == Inv /\ [Next]_vars => Inv'
<1> SUFFICES ASSUME Inv, [Next]_vars PROVE Inv'
  OBVIOUS
<1>1. CASE Restart
  BY <1>1, NamedPlaces DEF Restart, Inv
<1>2. ASSUME NEW p \in Calls, Begin(p) \/ GetToken(p) \/ Continue(p)
      PROVE  Inv'
  <2>1. call' \in [Calls -> CallStates]
    BY <1>2, NextState, Moves
  <2>2. auth' \in Apps \cup {NoApp}
    <3>1. auth' \in {auth, NoApp} \/ (At(p, "asking") /\ auth' = call[p].app)
      BY <1>2 DEF Begin, Continue, ChangeApp, StartAuth, Poll, Unbind, SessionCleared, NeedToken,
                  SelectFolder, GetToken, Ask, BeginSession, Expired, Confirmed, ClearAuth,
                  ClearAccount, Unbinds, Refreshed, Answered, Write, Fail
    <3> QED BY <3>1, PlaceFields DEF At, Inv
  <2>3. cfg' \in Matched
    <3>1. cfg' = cfg \/ (At(p, "save") /\ cfg' = call[p].config)
      BY <1>2 DEF Begin, Continue, ChangeApp, StartAuth, Poll, Unbind, NeedToken, SelectFolder,
                  GetToken, Ask, BeginSession, Expired, Confirmed, ClearAuth, ClearAccount,
                  Unbinds, Refreshed, Answered, Write, Fail
    <3> QED BY <3>1, PlaceFields DEF At, Inv
  <2> QED BY <2>1, <2>2, <2>3 DEF Inv
<1>3. CASE UNCHANGED vars
  BY <1>3 DEF vars, Inv
<1> QED BY <1>1, <1>2, <1>3 DEF Next, Step

LEMMA InvHolds == Spec => []Inv
  BY InvInit, InvPreserved, PTL DEF Spec

\* Whoever is shown as bound is the user of the tokens in use.
THEOREM OneUser == Spec => []UserMatchesTokens
<1>1. Inv => UserMatchesTokens
  BY DEF Inv, Matched, UserMatchesTokens
<1> QED BY <1>1, InvHolds, PTL

-----------------------------------------------------------------------------
(* Unbinding.  A call that does not linger has nothing in its hands that   *)
(* could bind an account, and any QR session is one that came too late.    *)

Harmless(p) ==
    /\ call[p].at \notin {"polling", "refresh"}
    /\ call[p].at = "save" => call[p].config.tokens = NoTokens

Unbinding ==
    /\ unbinding # "no" /\ auth # NoApp => late
    /\ \A p \in Calls : call[p].at = "save" /\ call[p].next.at = "unbound"
                         => call[p].config.tokens = NoTokens
    /\ unbinding = "done" =>
          /\ cfg.tokens = NoTokens
          /\ \A p \in Calls \ lingering : Harmless(p)

\* The steps that write, and what the others leave alone.
LEMMA WhoWrites ==
    ASSUME NEW p \in Calls, Begin(p) \/ GetToken(p) \/ Continue(p)
    PROVE  \/ Write(p)
           \/ /\ cfg' = cfg
              /\ \/ unbinding' = unbinding /\ (auth' \in {auth, NoApp} \/ BeginSession(p))
                 \/ unbinding' = "no"
                 \/ unbinding' = "begun" /\ auth' = NoApp
  BY DEF Begin, Continue, ChangeApp, StartAuth, Poll, Unbind, SessionCleared, NeedToken,
         SelectFolder, GetToken, Ask, BeginSession, Expired, Confirmed, ClearAuth, ClearAccount,
         Unbinds, Refreshed, Answered, Fail

LEMMA NotedCases ==
    ASSUME NEW p \in Calls
    PROVE  /\ Noted(p) = "done" =>
                 \/ unbinding = "begun" /\ call[p].next.at = "unbound"
                 \/ unbinding = "done" /\ call[p].config.tokens = NoTokens
           /\ Noted(p) # "no" => unbinding # "no"
  BY DEF Noted

\* A write is on its way to the configuration that was prepared for it.
LEMMA PreparedWrite ==
    ASSUME Inv, NEW p \in Calls, Begin(p) \/ GetToken(p) \/ Continue(p),
           call'[p].at = "save", call'[p].next.at = "unbound"
    PROVE  call'[p].config.tokens = NoTokens
<1>3. ASSUME NEW config, NEW next, Save(p, config, next)
      PROVE  call'[p].config = config /\ call'[p].next = next
  BY <1>3 DEF Save, Goto, Inv
<1>4. ASSUME NEW t, Goto(p, t) PROVE call'[p] = t
  BY <1>4 DEF Goto, Inv
<1>5. ASSUME ChangeApp(p) PROVE call'[p].config.tokens = NoTokens
  BY <1>3, <1>5 DEF ChangeApp, SetClientID, Unbound
<1>6. ASSUME StartAuth(p) PROVE FALSE
  BY <1>3, <1>4, <1>6 DEF StartAuth, SetClientID
<1>7. ASSUME ClearAccount(p) PROVE call'[p].config.tokens = NoTokens
  BY <1>3, <1>7 DEF ClearAccount, Unbound
<1>8. ASSUME Confirmed(p) PROVE FALSE
  BY <1>3, <1>8 DEF Confirmed
<1>9. ASSUME Refreshed(p) PROVE FALSE
  <2>1. call[p].next.at = "use"
    BY <1>9, PlaceFields DEF Refreshed, At
  <2> QED BY <1>3, <1>9, <2>1 DEF Refreshed
<1>10. ASSUME SelectFolder(p) PROVE FALSE
  BY <1>3, <1>10 DEF SelectFolder, Idle
<1>11. ASSUME Write(p) PROVE FALSE
  <2>1. call[p].next.at # "save"
    BY <1>11, PlaceFields DEF Write, At, Afters
  <2> QED BY <1>4, <1>11, <2>1 DEF Write
<1>12. ASSUME GetToken(p) PROVE FALSE
  BY <1>4, <1>12 DEF GetToken, Idle
<1>13. ASSUME \/ Poll(p) \/ Unbind(p) \/ NeedToken(p) \/ Ask(p) \/ BeginSession(p) \/ Expired(p)
              \/ ClearAuth(p) \/ Unbinds(p) \/ Answered(p) \/ Fail(p)
       PROVE  FALSE
  BY <1>4, <1>13 DEF Poll, Unbind, NeedToken, Ask, BeginSession, Expired, ClearAuth, Unbinds,
                     Answered, Fail, Idle
<1> QED
  BY <1>5, <1>6, <1>7, <1>8, <1>9, <1>10, <1>11, <1>12, <1>13 DEF Begin, Continue

LEMMA IdleCalls == Inv => \A p \in Calls : call[p].at = "idle" => call[p] = Idle
  BY DEF Inv, CallStates, Places, Refreshes, Saves, Idle

\* While an unbinding is done a call that does not linger stays harmless.
LEMMA StaysHarmless ==
    ASSUME Inv, Unbinding, unbinding = "done", unbinding' = "done", History,
           NEW p \in Calls \ lingering, p \notin lingering', call'[p] # Idle,
           Begin(p) \/ GetToken(p) \/ Continue(p)
    PROVE  Harmless(p)'
<1>1. cfg.tokens = NoTokens /\ (auth # NoApp => late) /\ Harmless(p)
  BY DEF Unbinding
<1>2. ASSUME NEW config, NEW next, Save(p, config, next), config.tokens = NoTokens
      PROVE  Harmless(p)'
  BY <1>2 DEF Save, Goto, Inv, Harmless
<1>3. ASSUME NEW t, Goto(p, t), t.at \notin {"polling", "refresh", "save"} PROVE Harmless(p)'
  BY <1>3 DEF Goto, Inv, Harmless
<1>4. CASE ChangeApp(p)
  BY <1>2, <1>4 DEF ChangeApp, SetClientID, Unbound
<1>5. CASE StartAuth(p) \/ Unbind(p)
  BY <1>5 DEF StartAuth, Unbind
<1>6. CASE Expired(p) \/ Confirmed(p) \/ Refreshed(p)
  BY <1>1, <1>6 DEF Expired, Confirmed, Refreshed, At, Harmless
<1>12. CASE Poll(p)
  <2>1. call[p] = Idle /\ late
    BY <1>1, <1>12, IdleCalls DEF Poll, At
  <2>2. call'[p].at = "polling"
    BY <1>12 DEF Poll, Goto, Inv
  <2>3. p \in lingering'
    BY <2>1, <2>2 DEF History
  <2> QED BY <2>3
<1>13. CASE BeginSession(p)
  BY <1>3, <1>13 DEF BeginSession, Idle
<1>7. CASE NeedToken(p) \/ Ask(p) \/ ClearAuth(p) \/ Unbinds(p) \/ Answered(p) \/ Fail(p)
  BY <1>3, <1>7 DEF NeedToken, Ask, ClearAuth, Unbinds, Answered, Fail, Idle
<1>8. CASE GetToken(p)
  BY <1>1, <1>3, <1>8 DEF GetToken, Idle
<1>9. CASE SelectFolder(p)
  BY <1>1, <1>9 DEF SelectFolder
<1>10. CASE ClearAccount(p)
  BY <1>2, <1>10 DEF ClearAccount, Unbound
<1>11. CASE Write(p)
  <2>1. call[p].next.at \notin {"polling", "refresh", "save"}
    BY <1>11, PlaceFields DEF Write, At, Afters
  <2> QED BY <1>3, <1>11, <2>1 DEF Write
<1> QED
  BY <1>4, <1>5, <1>6, <1>7, <1>8, <1>9, <1>10, <1>11, <1>12, <1>13 DEF Begin, Continue

LEMMA UnbindingPreserved == Inv /\ Unbinding /\ [Next]_vars => Unbinding'
<1> SUFFICES ASSUME Inv, Unbinding, [Next]_vars PROVE Unbinding'
  OBVIOUS
<1>1. CASE Restart /\ History
  <2>1. \A p \in Calls : call'[p] = Idle
    BY <1>1 DEF Restart
  <2> QED BY <1>1, <2>1 DEF Restart, Unbinding, Harmless, Idle
<1>2. ASSUME NEW p \in Calls, Begin(p) \/ GetToken(p) \/ Continue(p), History
      PROVE  Unbinding'
  <2>1. \A q \in Calls : q # p => call'[q] = call[q]
    BY <1>2, NextState, Moves
  <2>2. unbinding' # "no" /\ auth' # NoApp => late'
    <3> SUFFICES ASSUME unbinding' # "no", auth' # NoApp PROVE late'
      OBVIOUS
    <3>1. CASE Write(p)
      <4>1. unbinding # "no" /\ auth # NoApp
        BY <3>1, NotedCases DEF Write
      <4> QED BY <1>2, <4>1 DEF History, Unbinding
    <3>2. CASE BeginSession(p)
      BY <1>2, <3>2 DEF History
    <3>3. CASE ~Write(p) /\ ~BeginSession(p)
      <4>1. unbinding # "no" /\ auth # NoApp
        BY <1>2, <3>3, WhoWrites
      <4> QED BY <1>2, <4>1 DEF History, Unbinding
    <3> QED BY <3>1, <3>2, <3>3
  <2>3. ASSUME NEW q \in Calls, call'[q].at = "save", call'[q].next.at = "unbound"
        PROVE  call'[q].config.tokens = NoTokens
    BY <1>2, <2>1, <2>3, PreparedWrite DEF Unbinding
  <2>4. ASSUME unbinding' = "done"
        PROVE  cfg'.tokens = NoTokens /\ \A q \in Calls \ lingering' : Harmless(q)'
    <3>1. cfg'.tokens = NoTokens
      <4>1. CASE Write(p)
        <5>1. call[p].config.tokens = NoTokens
          BY <2>4, <4>1, NotedCases DEF Write, At, Unbinding
        <5> QED BY <4>1, <5>1 DEF Write
      <4>2. CASE ~Write(p)
        BY <1>2, <2>4, <4>2, WhoWrites DEF Unbinding
      <4> QED BY <4>1, <4>2
    <3>2. ASSUME NEW q \in Calls, call'[q] = Idle PROVE Harmless(q)'
      BY <3>2 DEF Harmless, Idle
    <3>3. ASSUME NEW q \in Calls \ lingering', call'[q] # Idle PROVE Harmless(q)'
      <4>1. unbinding = "done" /\ q \notin lingering
        BY <1>2, <2>4, <3>3 DEF History
      <4>2. CASE q = p
        BY <1>2, <2>4, <3>3, <4>1, <4>2, StaysHarmless
      <4>3. CASE q # p
        BY <2>1, <4>1, <4>3 DEF Unbinding, Harmless
      <4> QED BY <4>2, <4>3
    <3> QED BY <3>1, <3>2, <3>3
  <2> QED BY <2>2, <2>3, <2>4 DEF Unbinding
<1>3. CASE UNCHANGED vars
  BY <1>3 DEF vars, Unbinding, Harmless
<1> QED BY <1>1, <1>2, <1>3 DEF Next, Step

\* After an unbinding only calls that overlapped it, or the QR code that one of
\* them was asking for, can bring an account back.
THEOREM UnboundForGood == Spec => UnbindingHolds
<1>1. Init => Unbinding
  BY DEF Init, Unbinding, Idle
<1>2. Inv /\ Unbinding /\ [Next]_vars =>
        [unbinding = "done" /\ cfg.tokens = NoTokens /\ cfg'.tokens # NoTokens =>
            \E p \in lingering : call'[p] # call[p]]_vars
  <2> SUFFICES ASSUME Inv, Unbinding, [Next]_vars,
                      unbinding = "done", cfg.tokens = NoTokens, cfg'.tokens # NoTokens
               PROVE  \E p \in lingering : call'[p] # call[p]
    OBVIOUS
  <2>1. ~Restart /\ ~UNCHANGED vars
    BY DEF Restart, vars
  <2>2. PICK p \in Calls : Begin(p) \/ GetToken(p) \/ Continue(p)
    BY <2>1 DEF Next, Step
  <2>3. Write(p)
    BY <2>2, WhoWrites
  <2>4. call[p].at = "save" /\ call[p].config.tokens # NoTokens
    BY <2>3 DEF Write, At
  <2>5. p \in lingering
    BY <2>4 DEF Unbinding, Harmless
  <2>6. call'[p].at # "save"
    BY <2>3, PlaceFields DEF Write, At, Goto, Inv, Afters
  <2> QED BY <2>4, <2>5, <2>6
<1> QED BY <1>1, <1>2, UnbindingPreserved, InvHolds, PTL DEF Spec, UnbindingHolds

-----------------------------------------------------------------------------
(* What EveryCallEnds rests on: the lock of the refresh has one holder, who *)
(* is refreshing, and no call goes round in circles.                       *)

\* The calls between the start of a refresh and the write that ends it.
Refreshing(p) ==
    \/ call[p].at = "refresh"
    \/ call[p].at = "save" /\ call[p].next.at = "use"

\* Service.refresh is held exactly by the call that refreshes: it is never left
\* locked, and no two calls are between reading a refresh token and writing the
\* new tokens at the same time.  (Binding and selecting a folder write tokens
\* without it; which of a user's tokens is the newest is not modelled.)
RefreshExcludes ==
    /\ refreshing = {p \in Calls : Refreshing(p)}
    /\ \A p, q \in refreshing : p = q

\* The steps that a call has left at most, apart from those of a write.
Rest(s) ==
    CASE s.at \in {"clear", "unbound", "asking"} -> 1
      [] s.at \in {"ask", "select"}              -> 2
      [] s.at \in {"polling", "unbind"}          -> 3
      [] s.at = "use"                            -> IF s.again THEN 3 ELSE 7
      [] s.at = "token"                          -> IF s.again THEN 6 ELSE 10
      [] OTHER                                   -> 0

Left(s) ==
    CASE s.at = "save"    -> 1 + Rest(s.next)
      [] s.at = "refresh" -> 2 + Rest(s.next)
      [] OTHER            -> Rest(s)

\* Whatever a call in progress does ends it or brings it nearer to its end: the
\* token that 115 refuses is refreshed once, however often it refuses.
NearsItsEnd ==
    [][\A p \in Calls : call'[p] # call[p] =>
          \/ call[p] = Idle
          \/ call'[p] = Idle
          \/ Left(call'[p]) < Left(call[p])]_vars

\* What a step of a call makes of its place and of the lock.
LEMMA RefreshSteps ==
    ASSUME Inv, RefreshExcludes, NEW p \in Calls, Begin(p) \/ GetToken(p) \/ Continue(p)
    PROVE  /\ p \in refreshing' <=> Refreshing(p)'
           /\ refreshing' \ {p} = refreshing \ {p}
           /\ p \in refreshing' => p \in refreshing \/ refreshing = {}
<1>1. ASSUME NEW config, NEW next, Save(p, config, next)
      PROVE  call'[p].at = "save" /\ call'[p].next = next
  BY <1>1 DEF Save, Goto, Inv
<1>2. ASSUME NEW t, Goto(p, t) PROVE call'[p] = t
  BY <1>2 DEF Goto, Inv
<1>3. p \in refreshing <=> Refreshing(p)
  BY DEF RefreshExcludes
<1>4. ASSUME ~Refreshing(p), refreshing' = refreshing, ~Refreshing(p)'
      PROVE  /\ p \in refreshing' <=> Refreshing(p)'
             /\ refreshing' \ {p} = refreshing \ {p}
             /\ p \in refreshing' => p \in refreshing \/ refreshing = {}
  BY <1>3, <1>4
<1>5. CASE Begin(p)
  <2>1. call[p].at = "idle" /\ refreshing' = refreshing
    BY <1>5 DEF Begin, ChangeApp, StartAuth, Poll, Unbind, NeedToken, SelectFolder, At
  <2>2. ~Refreshing(p)'
    <3>1. CASE ChangeApp(p)
      BY <1>1, <3>1 DEF ChangeApp, SetClientID, Refreshing, Idle
    <3>2. CASE StartAuth(p)
      BY <1>1, <1>2, <3>2 DEF StartAuth, SetClientID, Refreshing
    <3>3. CASE Poll(p) \/ Unbind(p) \/ NeedToken(p)
      BY <1>2, <3>3 DEF Poll, Unbind, NeedToken, Refreshing
    <3>4. CASE SelectFolder(p)
      BY <1>1, <3>4 DEF SelectFolder, Refreshing, Idle
    <3> QED BY <1>5, <3>1, <3>2, <3>3, <3>4 DEF Begin
  <2> QED BY <1>4, <2>1, <2>2 DEF Refreshing
<1>6. CASE GetToken(p)
  <2>1. ~Refreshing(p) /\ refreshing = {}
    BY <1>6 DEF GetToken, At, Refreshing
  <2>2. CASE refreshing' = {p} /\ call'[p].at = "refresh"
    BY <2>1, <2>2 DEF Refreshing
  <2>3. CASE refreshing' = refreshing /\ call'[p].at \in {"idle", "use"}
    BY <1>4, <2>1, <2>3 DEF Refreshing
  <2> QED BY <1>2, <1>6, <2>2, <2>3 DEF GetToken, Idle
<1>7. CASE \/ Ask(p) \/ BeginSession(p) \/ Expired(p) \/ ClearAuth(p) \/ Unbinds(p)
           \/ Answered(p)
  <2>1. ~Refreshing(p) /\ refreshing' = refreshing
    BY <1>7 DEF Ask, BeginSession, Expired, ClearAuth, Unbinds, Answered, At, Refreshing
  <2>2. ~Refreshing(p)'
    BY <1>2, <1>7 DEF Ask, BeginSession, Expired, ClearAuth, Unbinds, Answered, Refreshing, Idle
  <2> QED BY <1>4, <2>1, <2>2
<1>8. CASE Confirmed(p) \/ ClearAccount(p) \/ (At(p, "select") /\ SelectFolder(p))
  <2>1. ~Refreshing(p) /\ refreshing' = refreshing
    BY <1>8 DEF Confirmed, ClearAccount, SelectFolder, At, Refreshing
  <2>2. ~Refreshing(p)'
    <3>1. CASE Confirmed(p)
      BY <1>1, <3>1 DEF Confirmed, Refreshing
    <3>2. CASE ClearAccount(p)
      BY <1>1, <3>2 DEF ClearAccount, Refreshing
    <3>3. CASE SelectFolder(p)
      BY <1>1, <3>3 DEF SelectFolder, Refreshing, Idle
    <3> QED BY <1>8, <3>1, <3>2, <3>3
  <2> QED BY <1>4, <2>1, <2>2
<1>9. CASE Refreshed(p)
  <2>1. Refreshing(p) /\ refreshing' = refreshing /\ call[p].next.at = "use"
    BY <1>9, PlaceFields DEF Refreshed, At, Refreshing
  <2>2. Refreshing(p)'
    BY <1>1, <1>9, <2>1 DEF Refreshed, Refreshing
  <2> QED BY <1>3, <2>1, <2>2
<1>10. CASE Write(p)
  <2>1. call'[p].at # "refresh" /\ call'[p].at # "save"
    BY <1>2, <1>10, PlaceFields DEF Write, At, Afters
  <2> QED BY <1>10, <2>1 DEF Write, Refreshing
<1>11. CASE Fail(p)
  BY <1>2, <1>11 DEF Fail, Unlocked, Refreshing, Idle
<1> QED BY <1>5, <1>6, <1>7, <1>8, <1>9, <1>10, <1>11 DEF Continue

LEMMA RefreshPreserved == Inv /\ RefreshExcludes /\ [Next]_vars => RefreshExcludes'
<1> SUFFICES ASSUME Inv, RefreshExcludes, [Next]_vars PROVE RefreshExcludes'
  OBVIOUS
<1>1. CASE Restart
  BY <1>1 DEF Restart, RefreshExcludes, Refreshing, Idle
<1>2. ASSUME NEW p \in Calls, Begin(p) \/ GetToken(p) \/ Continue(p)
      PROVE  RefreshExcludes'
  <2>1. \A q \in Calls : q # p => call'[q] = call[q]
    BY <1>2, NextState, Moves
  <2>2. /\ p \in refreshing' <=> Refreshing(p)'
        /\ refreshing' \ {p} = refreshing \ {p}
        /\ p \in refreshing' => p \in refreshing \/ refreshing = {}
    BY <1>2, RefreshSteps
  <2>3. refreshing = {q \in Calls : Refreshing(q)} /\ \A q, r \in refreshing : q = r
    BY DEF RefreshExcludes
  <2>4. \A q \in Calls : q # p => (Refreshing(q)' <=> Refreshing(q))
    BY <2>1 DEF Refreshing
  <2>5. refreshing' = {q \in Calls : Refreshing(q)'}
    BY <2>2, <2>3, <2>4
  <2>6. \A q, r \in refreshing' : q = r
    BY <2>2, <2>3
  <2> QED BY <2>5, <2>6 DEF RefreshExcludes, Refreshing
<1>3. CASE UNCHANGED vars
  BY <1>3 DEF vars, RefreshExcludes, Refreshing
<1> QED BY <1>1, <1>2, <1>3 DEF Next, Step

\* The token is refreshed by one call at a time, which always gives the lock back.
THEOREM OneRefresh == Spec => []RefreshExcludes
<1>1. Init => RefreshExcludes
  BY DEF Init, RefreshExcludes, Refreshing, Idle
<1> QED BY <1>1, RefreshPreserved, InvHolds, PTL DEF Spec

LEMMA RestBound == \A s \in Afters : Rest(s) \in Nat
  BY DEF Rest, Afters

\* Every step of a call that has begun lowers its rank, or ends it.
LEMMA StepsLeft ==
    ASSUME Inv, NEW p \in Calls, GetToken(p) \/ Continue(p)
    PROVE  call'[p] = Idle \/ Left(call'[p]) < Left(call[p])
<1>1. ASSUME NEW config, NEW next \in Afters, Save(p, config, next)
      PROVE  Left(call'[p]) = 1 + Rest(next)
  <2>1. call'[p] = [at |-> "save", config |-> config, next |-> next]
    BY <1>1 DEF Save, Goto, Inv
  <2> QED BY <2>1 DEF Left
<1>2. ASSUME NEW t, Goto(p, t) PROVE call'[p] = t
  BY <1>2 DEF Goto, Inv
<1>3. CASE GetToken(p)
  <2> DEFINE use == [at |-> "use", again |-> call[p].again]
  <2>1. call[p].again \in BOOLEAN /\ Left(call[p]) = IF call[p].again THEN 6 ELSE 10
    BY <1>3, PlaceFields DEF GetToken, At, Left, Rest
  <2>2. Rest(use) = (IF call[p].again THEN 3 ELSE 7) /\ Left(use) = Rest(use)
    BY DEF Rest, Left
  <2>3. CASE Goto(p, Idle)
    BY <1>2, <2>3
  <2>4. CASE ~call[p].again /\ Goto(p, use)
    BY <1>2, <2>1, <2>2, <2>4
  <2>5. CASE Goto(p, [at |-> "refresh", tokens |-> cfg.tokens, user |-> cfg.user, next |-> use])
    <3>1. call'[p] = [at |-> "refresh", tokens |-> cfg.tokens, user |-> cfg.user, next |-> use]
      BY <1>2, <2>5
    <3>2. Left(call'[p]) = 2 + Rest(use)
      BY <3>1 DEF Left
    <3> QED BY <2>1, <2>2, <3>2
  <2> QED BY <1>3, <2>3, <2>4, <2>5 DEF GetToken
<1>4. CASE Ask(p)
  BY <1>2, <1>4 DEF Ask, At, Left, Rest
<1>5. CASE \/ BeginSession(p) \/ Expired(p) \/ ClearAuth(p) \/ Unbinds(p) \/ Fail(p)
  BY <1>2, <1>5 DEF BeginSession, Expired, ClearAuth, Unbinds, Fail
<1>6. CASE Confirmed(p)
  <2>1. Left(call'[p]) = 1 + Rest([at |-> "clear"])
    BY <1>1, <1>6, NamedPlaces DEF Confirmed
  <2> QED BY <1>6, <2>1 DEF Confirmed, At, Left, Rest
<1>7. CASE ClearAccount(p)
  <2>1. Left(call'[p]) = 1 + Rest([at |-> "unbound"])
    BY <1>1, <1>7, NamedPlaces DEF ClearAccount
  <2> QED BY <1>7, <2>1 DEF ClearAccount, At, Left, Rest
<1>8. CASE Refreshed(p)
  <2>1. call[p].next \in Afters
    BY <1>8, PlaceFields DEF Refreshed, At
  <2>2. Left(call'[p]) = 1 + Rest(call[p].next)
    BY <1>1, <1>8, <2>1 DEF Refreshed
  <2>3. Left(call[p]) = 2 + Rest(call[p].next)
    BY <1>8 DEF Refreshed, At, Left
  <2> QED BY <2>1, <2>2, <2>3, RestBound
<1>9. CASE Answered(p)
  <2>1. call[p].again \in BOOLEAN /\ Left(call[p]) = IF call[p].again THEN 3 ELSE 7
    BY <1>9, PlaceFields DEF Answered, At, Left, Rest
  <2> QED BY <1>2, <1>9, <2>1 DEF Answered, Left, Rest
<1>10. CASE At(p, "select") /\ SelectFolder(p)
  <2>1. Left(call'[p]) = 1 + Rest(Idle)
    BY <1>1, <1>10, NamedPlaces DEF SelectFolder
  <2> QED BY <1>10, <2>1 DEF At, Left, Rest, Idle
<1>11. CASE Write(p)
  <2>1. call[p].next \in Afters /\ Left(call[p]) = 1 + Rest(call[p].next)
    BY <1>11, PlaceFields DEF Write, At, Left
  <2>2. Left(call[p].next) = Rest(call[p].next)
    BY <2>1 DEF Left, Afters
  <2> QED BY <1>2, <1>11, <2>1, <2>2, RestBound DEF Write
<1> QED
  BY <1>3, <1>4, <1>5, <1>6, <1>7, <1>8, <1>9, <1>10, <1>11 DEF Continue

\* No call goes round in circles: all that can hold one up is the wait for the
\* lock, which OneRefresh says is free or held by a call that can go on.
THEOREM NoCallCircles == Spec => NearsItsEnd
<1>1. Inv /\ [Next]_vars =>
        [\A p \in Calls : call'[p] # call[p] =>
            \/ call[p] = Idle
            \/ call'[p] = Idle
            \/ Left(call'[p]) < Left(call[p])]_vars
  <2> SUFFICES ASSUME Inv, Next, NEW p \in Calls, call'[p] # call[p],
                      call[p] # Idle, call'[p] # Idle
               PROVE  Left(call'[p]) < Left(call[p])
    OBVIOUS
  <2>1. ~Restart
    BY DEF Restart
  <2>2. PICK q \in Calls : Begin(q) \/ GetToken(q) \/ Continue(q)
    BY <2>1 DEF Next, Step
  <2>3. q = p
    BY <2>2, NextState, Moves
  <2>4. ~Begin(p)
    <3>1. Begin(p) => call[p].at = "idle"
      BY DEF Begin, ChangeApp, StartAuth, Poll, Unbind, NeedToken, At
    <3> QED BY <3>1, IdleCalls
  <2> QED BY <2>2, <2>3, <2>4, StepsLeft
<1> QED BY <1>1, InvHolds, PTL DEF Spec, NearsItsEnd
=============================================================================
