------------------------- MODULE LoginLimiter_proofs -------------------------
(***************************************************************************)
(* The limiter for every number of requests, remotes, failures and entries. *)
(***************************************************************************)
EXTENDS LoginLimiter, FiniteSetTheorems, TLAPS

\* Pruning keeps an entry or drops it.
LEMMA PrunedType ==
    ASSUME NEW f \in [Remotes -> [count : Nat, since : 0 .. MaxNow]]
    PROVE  /\ Pruned(f) \in [Remotes -> [count : Nat, since : 0 .. MaxNow]]
           /\ \A a \in Remotes : Pruned(f)[a] \in {f[a], NoEntry}
           /\ \A a \in Remotes : Pruned(f)[a].count <= f[a].count
  BY ConstantsAssumption DEF Pruned, NoEntry

\* So does making room for an entry.
LEMMA MadeRoomType ==
    ASSUME NEW f \in [Remotes -> [count : Nat, since : 0 .. MaxNow]],
           NEW a \in Remotes, NEW g \in MadeRoom(f, a)
    PROVE  /\ g \in [Remotes -> [count : Nat, since : 0 .. MaxNow]]
           /\ \A b \in Remotes : g[b].count <= f[b].count
  <1>1. NoEntry \in [count : Nat, since : 0 .. MaxNow]
    BY ConstantsAssumption DEF NoEntry
  <1>2. CASE g = f
    BY <1>2
  <1>3. CASE \E b \in Entries(f) : g = [f EXCEPT ![b] = NoEntry]
    BY <1>1, <1>3 DEF Entries, NoEntry
  <1> QED BY <1>2, <1>3 DEF MadeRoom

\* The state is always well typed.
THEOREM TypeCorrect == Spec => []TypeOK
<1>1. Init => TypeOK
  BY ConstantsAssumption DEF Init, TypeOK, NoEntry
<1>2. TypeOK /\ [Next]_vars => TypeOK'
  <2> SUFFICES ASSUME TypeOK, [Next]_vars PROVE TypeOK'
    OBVIOUS
  <2> USE ConstantsAssumption DEF TypeOK
  <2>1. ASSUME NEW r \in Requests, NEW a \in Remotes, Admit(r, a) \/ TurnAway(r, a)
        PROVE  TypeOK'
    BY <2>1, PrunedType DEF Admit, TurnAway
  <2>2. ASSUME NEW r \in Requests, RecordFailure(r) PROVE TypeOK'
    <3>1. checking[r] \in Remotes
      BY <2>2 DEF RecordFailure
    <3>2. PICK f \in MadeRoom(Pruned(failures), checking[r]) :
             failures' = [f EXCEPT ![checking[r]] =
                  [count |-> @.count + 1, since |-> IF @.count = 0 THEN now ELSE @.since]]
      BY <2>2 DEF RecordFailure
    <3>3. f \in [Remotes -> [count : Nat, since : 0 .. MaxNow]]
      BY <3>1, PrunedType, MadeRoomType
    <3>4. f[checking[r]].count \in Nat /\ f[checking[r]].since \in 0 .. MaxNow
      BY <3>1, <3>3
    <3>5. failures' \in [Remotes -> [count : Nat, since : 0 .. MaxNow]]
      BY <3>1, <3>2, <3>3, <3>4
    <3> QED BY <2>2, <3>5 DEF RecordFailure
  <2>3. ASSUME NEW r \in Requests, Succeed(r) PROVE TypeOK'
    BY <2>3 DEF Succeed, NoEntry
  <2>4. ASSUME NEW r \in Requests, Abandon(r) PROVE TypeOK'
    BY <2>4 DEF Abandon
  <2>5. CASE Tick \/ UNCHANGED vars
    BY <2>5 DEF Tick, vars
  <2> QED BY <2>1, <2>2, <2>3, <2>4, <2>5 DEF Next
<1> QED BY <1>1, <1>2, PTL DEF Spec

-----------------------------------------------------------------------------
(* The overshoot.                                                          *)

\* A set of requests is finite, and losing or gaining one changes its size so.
LEMMA Sizes ==
    ASSUME TypeOK, TypeOK', NEW r \in Requests, NEW a \in Remotes
    PROVE  /\ Cardinality(InFlight(a)) \in Nat
           /\ Cardinality(InFlight(a)) <= Cardinality(Requests)
           /\ Cardinality(InFlight(a))' \in Nat
           /\ Cardinality(InFlight(a))' <= Cardinality(Requests)
           /\ Cardinality(Requests) \in Nat
  <1>1. InFlight(a) \subseteq Requests /\ InFlight(a)' \subseteq Requests
    BY DEF InFlight
  <1> QED BY <1>1, FS_Subset, FS_CardinalityType, ConstantsAssumption

\* A request that ends is no longer in flight for its remote.
LEMMA Ending ==
    ASSUME TypeOK, NEW r \in Requests, NEW a \in Remotes,
           checking[r] \in Remotes, checking' = [checking EXCEPT ![r] = Nobody]
    PROVE  /\ a = checking[r] => Cardinality(InFlight(a))' = Cardinality(InFlight(a)) - 1
           /\ a # checking[r] => Cardinality(InFlight(a))' = Cardinality(InFlight(a))
  <1>1. IsFiniteSet(InFlight(a))
    <2>1. InFlight(a) \subseteq Requests
      BY DEF InFlight
    <2> QED BY <2>1, FS_Subset, ConstantsAssumption
  <1>2. CASE a = checking[r]
    <2>1. InFlight(a)' = InFlight(a) \ {r} /\ r \in InFlight(a)
      BY <1>2, NobodyAssumption DEF InFlight, TypeOK
    <2> QED BY <1>1, <1>2, <2>1, FS_RemoveElement
  <1>3. CASE a # checking[r]
    <2>1. InFlight(a)' = InFlight(a)
      BY <1>3, NobodyAssumption DEF InFlight, TypeOK
    <2> QED BY <1>3, <2>1
  <1> QED BY <1>2, <1>3

\* No remote ever has more failures, recorded and still being checked, than the
\* threshold and the number of simultaneous requests allow.
THEOREM OvershootIsBounded == Spec => []OvershootBounded
<1>1. Init => OvershootBounded
  <2> SUFFICES ASSUME Init, NEW a \in Remotes
               PROVE  failures[a].count + Cardinality(InFlight(a))
                        <= MaxFailures - 1 + Cardinality(Requests)
    BY DEF OvershootBounded
  <2>1. InFlight(a) = {}
    BY NobodyAssumption DEF Init, InFlight
  <2>2. Cardinality(Requests) \in Nat /\ Cardinality({}) = 0
    BY FS_CardinalityType, FS_EmptySet, ConstantsAssumption
  <2> QED BY <2>1, <2>2, ConstantsAssumption DEF Init, NoEntry
<1>2. TypeOK /\ TypeOK' /\ OvershootBounded /\ [Next]_vars => OvershootBounded'
  <2> SUFFICES ASSUME TypeOK, TypeOK', OvershootBounded, [Next]_vars, NEW b \in Remotes
               PROVE  failures'[b].count + Cardinality(InFlight(b))'
                        <= MaxFailures - 1 + Cardinality(Requests)
    BY DEF OvershootBounded
  <2>0. /\ failures[b].count + Cardinality(InFlight(b))
             <= MaxFailures - 1 + Cardinality(Requests)
        /\ failures[b].count \in Nat /\ failures'[b].count \in Nat
        /\ MaxFailures \in Nat \ {0}
    BY ConstantsAssumption DEF OvershootBounded, TypeOK
  <2>1. ASSUME NEW r \in Requests, NEW a \in Remotes, Admit(r, a)
        PROVE  failures'[b].count + Cardinality(InFlight(b))'
                        <= MaxFailures - 1 + Cardinality(Requests)
    <3>1. failures'[b].count <= failures[b].count
      BY <2>1, PrunedType DEF Admit, TypeOK
    <3>2. CASE a = b
      <4>1. failures'[b].count < MaxFailures
        BY <2>0, <2>1, <3>2 DEF Admit, Limited
      <4> QED BY <2>0, <4>1, Sizes
    <3>3. CASE a # b
      <4>1. InFlight(b)' = InFlight(b)
        BY <2>1, <3>3, NobodyAssumption DEF Admit, InFlight, TypeOK
      <4> QED BY <2>0, <3>1, <4>1, Sizes
    <3> QED BY <3>2, <3>3
  <2>2. ASSUME NEW r \in Requests, NEW a \in Remotes, TurnAway(r, a)
        PROVE  failures'[b].count + Cardinality(InFlight(b))'
                        <= MaxFailures - 1 + Cardinality(Requests)
    <3>1. failures'[b].count <= failures[b].count
      BY <2>2, PrunedType DEF TurnAway, TypeOK
    <3>2. InFlight(b)' = InFlight(b)
      BY <2>2 DEF TurnAway, InFlight
    <3> QED BY <2>0, <3>1, <3>2, Sizes
  <2>3. ASSUME NEW r \in Requests, RecordFailure(r)
        PROVE  failures'[b].count + Cardinality(InFlight(b))'
                        <= MaxFailures - 1 + Cardinality(Requests)
    <3>1. checking[r] \in Remotes /\ checking' = [checking EXCEPT ![r] = Nobody]
      BY <2>3 DEF RecordFailure, TypeOK
    <3>2. PICK f \in MadeRoom(Pruned(failures), checking[r]) :
             failures' = [f EXCEPT ![checking[r]] =
                  [count |-> @.count + 1, since |-> IF @.count = 0 THEN now ELSE @.since]]
      BY <2>3 DEF RecordFailure
    <3>3. /\ f \in [Remotes -> [count : Nat, since : 0 .. MaxNow]]
          /\ f[b].count <= failures[b].count
      <4>1. /\ Pruned(failures) \in [Remotes -> [count : Nat, since : 0 .. MaxNow]]
            /\ Pruned(failures)[b].count <= failures[b].count
        BY PrunedType DEF TypeOK
      <4>2. /\ f \in [Remotes -> [count : Nat, since : 0 .. MaxNow]]
            /\ f[b].count <= Pruned(failures)[b].count
        BY <3>1, <3>2, <4>1, MadeRoomType
      <4> QED BY <2>0, <4>1, <4>2
    <3>4. CASE b = checking[r]
      <4>1. failures'[b].count = f[b].count + 1
        BY <3>1, <3>2, <3>3, <3>4
      <4>2. Cardinality(InFlight(b))' = Cardinality(InFlight(b)) - 1
        BY <3>1, <3>4, Ending
      <4> QED BY <2>0, <3>3, <4>1, <4>2, Sizes
    <3>5. CASE b # checking[r]
      <4>1. failures'[b].count = f[b].count
        BY <3>1, <3>2, <3>3, <3>5
      <4>2. Cardinality(InFlight(b))' = Cardinality(InFlight(b))
        BY <3>1, <3>5, Ending
      <4> QED BY <2>0, <3>3, <4>1, <4>2, Sizes
    <3> QED BY <3>4, <3>5
  <2>4. ASSUME NEW r \in Requests, Succeed(r) \/ Abandon(r)
        PROVE  failures'[b].count + Cardinality(InFlight(b))'
                        <= MaxFailures - 1 + Cardinality(Requests)
    <3>1. checking[r] \in Remotes /\ checking' = [checking EXCEPT ![r] = Nobody]
      BY <2>4 DEF Succeed, Abandon, TypeOK
    <3>2. failures'[b].count <= failures[b].count
      BY <2>0, <2>4, <3>1 DEF Succeed, Abandon, NoEntry, TypeOK
    <3>3. Cardinality(InFlight(b))' <= Cardinality(InFlight(b))
      <4>1. Cardinality(InFlight(b)) \in Nat
        BY <2>4, Sizes
      <4>2. CASE b = checking[r]
        <5>1. Cardinality(InFlight(b))' = Cardinality(InFlight(b)) - 1
          BY <3>1, <4>2, Ending
        <5> QED BY <4>1, <5>1
      <4>3. CASE b # checking[r]
        <5>1. Cardinality(InFlight(b))' = Cardinality(InFlight(b))
          BY <3>1, <4>3, Ending
        <5> QED BY <4>1, <5>1
      <4> QED BY <4>2, <4>3
    <3> QED BY <2>0, <2>4, <3>2, <3>3, Sizes
  <2>5. CASE Tick \/ UNCHANGED vars
    <3>1. InFlight(b)' = InFlight(b) /\ failures' = failures
      BY <2>5 DEF Tick, vars, InFlight
    <3> QED BY <2>0, <3>1
  <2> QED BY <2>1, <2>2, <2>3, <2>4, <2>5 DEF Next
<1> QED BY <1>1, <1>2, TypeCorrect, PTL DEF Spec

-----------------------------------------------------------------------------
(* The lock.                                                               *)

\* The table is finite, whatever addresses there are.
TableFinite == IsFiniteSet(Entries(failures))

\* Pruning and making room add no entry, and a recorded failure adds one.
LEMMA TablePreserved == TypeOK /\ TableFinite /\ [Next]_vars => TableFinite'
  <1> SUFFICES ASSUME TypeOK, TableFinite, [Next]_vars PROVE TableFinite'
    OBVIOUS
  <1>1. ASSUME NEW x \in Remotes, Entries(failures') \subseteq Entries(failures) \cup {x}
        PROVE  TableFinite'
    BY <1>1, FS_AddElement, FS_Subset DEF TableFinite
  <1>2. ASSUME Entries(failures') \subseteq Entries(failures) PROVE TableFinite'
    BY <1>2, FS_Subset DEF TableFinite
  <1>3. Entries(Pruned(failures)) \subseteq Entries(failures)
    BY DEF Entries, Pruned, NoEntry
  <1>4. ASSUME NEW r \in Requests, NEW a \in Remotes, Admit(r, a) \/ TurnAway(r, a)
        PROVE  TableFinite'
    BY <1>2, <1>3, <1>4 DEF Admit, TurnAway
  <1>5. ASSUME NEW r \in Requests, RecordFailure(r) PROVE TableFinite'
    <2>1. checking[r] \in Remotes
      BY <1>5 DEF RecordFailure, TypeOK
    <2>2. PICK f \in MadeRoom(Pruned(failures), checking[r]) :
             failures' = [f EXCEPT ![checking[r]] =
                  [count |-> @.count + 1, since |-> IF @.count = 0 THEN now ELSE @.since]]
      BY <1>5 DEF RecordFailure
    <2>3. /\ Pruned(failures) \in [Remotes -> [count : Nat, since : 0 .. MaxNow]]
          /\ f \in [Remotes -> [count : Nat, since : 0 .. MaxNow]]
          /\ \A b \in Remotes : f[b].count <= Pruned(failures)[b].count
      BY <2>1, <2>2, PrunedType, MadeRoomType DEF TypeOK
    <2>4. Entries(f) \subseteq Entries(Pruned(failures))
      BY <2>3 DEF Entries
    <2>5. Entries(failures') \subseteq Entries(f) \cup {checking[r]}
      BY <2>2, <2>3 DEF Entries
    <2> QED BY <1>1, <1>3, <2>1, <2>4, <2>5
  <1>6. ASSUME NEW r \in Requests, Succeed(r) \/ Abandon(r) PROVE TableFinite'
    BY <1>2, <1>6 DEF Succeed, Abandon, Entries, NoEntry, TypeOK
  <1>7. CASE Tick \/ UNCHANGED vars
    BY <1>2, <1>7 DEF Tick, vars
  <1> QED BY <1>4, <1>5, <1>6, <1>7 DEF Next

\* A remote over the threshold gets out of it by the end of its window, by a
\* login of its own, or because the table is full.
LEMMA Unlocking ==
    ASSUME TypeOK, TableFinite, [Next]_vars, NEW a \in Remotes,
           failures[a].count >= MaxFailures, failures'[a].count < MaxFailures
    PROVE  \/ now >= failures[a].since + Window
           \/ \E r \in InFlight(a) : checking'[r] = Nobody
           \/ Cardinality(Entries(failures)) >= MaxEntries
  <1>0. failures'[a] # failures[a]
    BY ConstantsAssumption DEF TypeOK
  <1>1. Pruned(failures)[a] # failures[a] => now >= failures[a].since + Window
    BY DEF Pruned
  <1>2. ASSUME NEW r \in Requests, NEW b \in Remotes, Admit(r, b) \/ TurnAway(r, b)
        PROVE  now >= failures[a].since + Window
    BY <1>0, <1>1, <1>2 DEF Admit, TurnAway
  <1>3. ASSUME NEW r \in Requests, checking[r] = a, checking' = [checking EXCEPT ![r] = Nobody]
        PROVE  \E q \in InFlight(a) : checking'[q] = Nobody
    BY <1>3 DEF InFlight, TypeOK
  <1>4. ASSUME NEW r \in Requests, RecordFailure(r), checking[r] # a,
               Pruned(failures)[a] = failures[a]
        PROVE  Cardinality(Entries(failures)) >= MaxEntries
    <2> DEFINE p == Pruned(failures)
    <2>1. checking[r] \in Remotes
      BY <1>4 DEF RecordFailure, TypeOK
    <2>2. PICK f \in MadeRoom(p, checking[r]) :
             failures' = [f EXCEPT ![checking[r]] =
                  [count |-> @.count + 1, since |-> IF @.count = 0 THEN now ELSE @.since]]
      BY <1>4 DEF RecordFailure
    <2>3. f \in [Remotes -> [count : Nat, since : 0 .. MaxNow]]
      BY <2>1, <2>2, PrunedType, MadeRoomType DEF TypeOK
    <2>4. f # p
      BY <1>0, <1>4, <2>2, <2>3
    <2>5. Entries(p) \subseteq Entries(failures)
      BY DEF Entries, Pruned, NoEntry
    <2> HIDE DEF p
    <2>6. ~(Cardinality(Entries(p)) < MaxEntries)
      BY <2>2, <2>4 DEF MadeRoom
    <2>7. /\ Cardinality(Entries(p)) <= Cardinality(Entries(failures))
          /\ Cardinality(Entries(p)) \in Nat /\ Cardinality(Entries(failures)) \in Nat
      BY <2>5, FS_Subset, FS_CardinalityType DEF TableFinite
    <2> QED BY <2>6, <2>7, ConstantsAssumption
  <1>5. ASSUME NEW r \in Requests, RecordFailure(r)
        PROVE  \/ now >= failures[a].since + Window
               \/ \E q \in InFlight(a) : checking'[q] = Nobody
               \/ Cardinality(Entries(failures)) >= MaxEntries
    BY <1>1, <1>3, <1>4, <1>5 DEF RecordFailure
  <1>6. ASSUME NEW r \in Requests, Succeed(r) \/ Abandon(r)
        PROVE  \E q \in InFlight(a) : checking'[q] = Nobody
    BY <1>0, <1>3, <1>6 DEF Succeed, Abandon, TypeOK
  <1>7. CASE Tick \/ UNCHANGED vars
    BY <1>0, <1>7 DEF Tick, vars
  <1> QED BY <1>2, <1>5, <1>6, <1>7 DEF Next

\* A remote is locked out for its window, unless one of its own logins succeeds
\* or the table is full.
THEOREM LockHolds == Spec => LockedForWindow
  <1>1. Init => TableFinite
    <2>1. Init => Entries(failures) = {}
      BY DEF Init, Entries, NoEntry
    <2> QED BY <2>1, FS_EmptySet DEF TableFinite
  <1> DEFINE Kept == \A a \in Remotes :
                /\ failures[a].count >= MaxFailures
                /\ failures'[a].count < MaxFailures
                => \/ now >= failures[a].since + Window
                   \/ \E r \in InFlight(a) : checking'[r] = Nobody
                   \/ Cardinality(Entries(failures)) >= MaxEntries
  <1>2. TypeOK /\ TableFinite /\ [Next]_vars => [Kept]_vars
    BY Unlocking
  <1> QED BY <1>1, <1>2, TablePreserved, TypeCorrect, PTL DEF Spec, LockedForWindow
=============================================================================
