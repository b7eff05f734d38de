--------------------------- MODULE Licensing_proofs ---------------------------
(***************************************************************************)
(* Proofs about Licensing and about the clients of LicenseClient, for any  *)
(* number of licenses, codes, installations, keys and tokens.              *)
(*                                                                         *)
(* Every call computes a whole next store, so the argument has two halves: *)
(* each computed store is sound when the present one is (one lemma for     *)
(* each operator), and Commit, Crash and Restart only move sound stores    *)
(* between memory and the file.                                            *)
(***************************************************************************)
EXTENDS LicenseClient, FiniteSetTheorems, TLAPS

Sound(s) ==
    /\ s \in StoreType
    /\ LimitKept(s)
    /\ RevocationReaches(s)
    /\ LeaseBounded(s)
    /\ OneKey(s)
    /\ Loadable(s)

\* What every reachable state satisfies: the inductive invariant.
Inv ==
    /\ TypeOK
    /\ DurableWhenAnswered
    /\ Sound(store)
    /\ Sound(disk)

-----------------------------------------------------------------------------
(* Sets of devices.                                                        *)

\* There are finitely many devices.
LEMMA DevicesFinite == IsFiniteSet(Devices)
<1>1. IsFiniteSet(Licenses \X Installations)
  BY FS_Product, ConstantsAssumption
<1>2. IsFiniteSet((Licenses \X Installations) \X Keys)
  BY <1>1, FS_Product, ConstantsAssumption
<1> DEFINE f == [x \in (Licenses \X Installations) \X Keys |-> <<x[1][1], x[1][2], x[2]>>]
<1>3. f \in Surjection((Licenses \X Installations) \X Keys, Devices)
  <2>1. f \in [(Licenses \X Installations) \X Keys -> Devices]
    BY DEF Devices
  <2>2. \A d \in Devices : \E x \in (Licenses \X Installations) \X Keys : f[x] = d
    <3> TAKE d \in Devices
    <3>1. PICK l \in Licenses, i \in Installations, k \in Keys : d = <<l, i, k>>
      BY DEF Devices
    <3>2. <<<<l, i>>, k>> \in (Licenses \X Installations) \X Keys
      BY <3>1
    <3>3. f[<<<<l, i>>, k>>] = d
      BY <3>1, <3>2
    <3> QED BY <3>2, <3>3
  <2> QED BY <2>1, <2>2 DEF Surjection
<1> QED BY <1>2, <1>3, FS_Surjection

\* The active devices of a license are finitely many, so they can be counted.
LEMMA ActiveFinite ==
    ASSUME NEW s, NEW l
    PROVE  /\ IsFiniteSet(ActiveDevices(s, l))
           /\ Cardinality(ActiveDevices(s, l)) \in Nat
<1>1. ActiveDevices(s, l) \subseteq Devices
  BY DEF ActiveDevices
<1> QED BY <1>1, DevicesFinite, FS_Subset, FS_CardinalityType

\* Fewer active devices are counted as no more.
LEMMA ActiveSubset ==
    ASSUME NEW s, NEW n, NEW l, ActiveDevices(n, l) \subseteq ActiveDevices(s, l)
    PROVE  Cardinality(ActiveDevices(n, l)) <= Cardinality(ActiveDevices(s, l))
BY ActiveFinite, FS_Subset

\* The parts of a device.
LEMMA DeviceParts ==
    ASSUME NEW d \in Devices
    PROVE  /\ LicenseOf(d) \in Licenses
           /\ InstallationOf(d) \in Installations
           /\ KeyOf(d) \in Keys
BY DEF Devices, LicenseOf, InstallationOf, KeyOf

\* A lease granted now is a time, and never outlives the license.
LEMMA LeaseExpiryBounds ==
    ASSUME now \in Times, NEW e \in Expiries
    PROVE  /\ LeaseExpiry(e) \in 0 .. MaxNow + Lease
           /\ e # Never => LeaseExpiry(e) <= e
BY ConstantsAssumption DEF LeaseExpiry, Times, Expiries, Never

-----------------------------------------------------------------------------
(* Each operation computes a sound store from a sound one.                 *)

\* Stores whose devices and licenses have the same status, token, expiry and
\* limit agree on everything but codes.
LEMMA SameActive ==
    ASSUME NEW s, NEW n, n.devices = s.devices
    PROVE  \A l : ActiveDevices(n, l) = ActiveDevices(s, l)
BY DEF ActiveDevices

\* IssueCode, and the first code of a new license.
LEMMA WithCodeSound ==
    ASSUME NEW s, Sound(s), NEW l \in Licenses, NEW c \in Codes,
           s.licenses[l].status # "none", s.codes[c].status = "none"
    PROVE  Sound(WithCode(s, l, c))
<1> DEFINE n == WithCode(s, l, c)
           rec == [status |-> "available", license |-> l, device |-> NoDevice]
<1>1. /\ n.licenses = s.licenses /\ n.devices = s.devices
      /\ n.codes = [s.codes EXCEPT ![c] = rec]
      /\ n \in StoreType
  <2>1. rec \in CodeRecords BY DEF CodeRecords
  <2>2. s.codes \in [Codes -> CodeRecords] BY DEF Sound, StoreType
  <2>3. [s.codes EXCEPT ![c] = rec] \in [Codes -> CodeRecords] BY <2>1, <2>2
  <2> QED BY <2>1, <2>2, <2>3 DEF WithCode, StoreType, Sound
<1>2. \A x \in Codes : n.codes[x] = IF x = c THEN rec ELSE s.codes[x]
  BY <1>1 DEF Sound, StoreType
<1> HIDE DEF n
<1>3. LimitKept(n) /\ RevocationReaches(n)
  BY <1>1, SameActive DEF Sound, LimitKept, RevocationReaches
<1>4. LeaseBounded(n) /\ OneKey(n)
  BY <1>1 DEF Sound, LeaseBounded, OneKey
<1>5. Loadable(n)
  BY <1>1, <1>2 DEF Sound, Loadable
<1> QED BY <1>1, <1>3, <1>4, <1>5 DEF Sound, n

\* CreateLicense: no device can belong to a license that does not exist.
LEMMA CreatedSound ==
    ASSUME NEW s, Sound(s), NEW l \in Licenses, NEW e \in Expiries,
           NEW lim \in Limits, NEW c \in Codes,
           s.licenses[l].status = "none", s.codes[c].status = "none"
    PROVE  Sound(Created(s, l, e, lim, c))
<1> DEFINE rec == [status |-> "active", expires |-> e, limit |-> lim]
           n == [s EXCEPT !.licenses[l] = rec]
<1>1. /\ n.codes = s.codes /\ n.devices = s.devices
      /\ n.licenses = [s.licenses EXCEPT ![l] = rec]
      /\ n \in StoreType
  <2>1. rec \in LicenseRecords BY ConstantsAssumption DEF LicenseRecords
  <2>2. s.licenses \in [Licenses -> LicenseRecords] BY DEF Sound, StoreType
  <2>3. [s.licenses EXCEPT ![l] = rec] \in [Licenses -> LicenseRecords] BY <2>1, <2>2
  <2> QED BY <2>1, <2>2, <2>3 DEF StoreType, Sound
<1>2. \A x \in Licenses : n.licenses[x] = IF x = l THEN rec ELSE s.licenses[x]
  BY <1>1 DEF Sound, StoreType
<1>3. WithCode(n, l, c) = Created(s, l, e, lim, c)
  BY DEF Created
<1> HIDE DEF n
<1>4. ActiveDevices(s, l) = {}
  BY DeviceParts DEF Sound, Loadable, ActiveDevices
<1>5. LimitKept(n)
  <2> SUFFICES ASSUME NEW x \in Licenses
               PROVE  Cardinality(ActiveDevices(n, x)) <= n.licenses[x].limit
    BY DEF LimitKept
  <2>1. ActiveDevices(n, x) = ActiveDevices(s, x) BY <1>1, SameActive
  <2>2. CASE x = l
    BY <2>1, <2>2, <1>2, <1>4, FS_EmptySet, ConstantsAssumption
  <2>3. CASE x # l
    BY <2>1, <2>3, <1>2 DEF Sound, LimitKept
  <2> QED BY <2>2, <2>3
<1>6. RevocationReaches(n)
  BY <1>1, <1>2, SameActive DEF Sound, RevocationReaches
<1>7. LeaseBounded(n)
  <2> SUFFICES ASSUME NEW d \in Devices, n.devices[d].status = "active"
               PROVE  n.licenses[LicenseOf(d)].expires # Never
                         => n.devices[d].lease <= n.licenses[LicenseOf(d)].expires
    BY DEF LeaseBounded
  <2>1. LicenseOf(d) # l /\ LicenseOf(d) \in Licenses
    BY <1>1, <1>4, DeviceParts DEF ActiveDevices
  <2> QED BY <2>1, <1>1, <1>2 DEF Sound, LeaseBounded
<1>8. OneKey(n)
  BY <1>1 DEF Sound, OneKey
<1>9. Loadable(n)
  <2>1. \A x \in Licenses : s.licenses[x].status # "none" => n.licenses[x].status # "none"
    BY <1>2
  <2>2. \A x \in Licenses : n.licenses[x].status # "none" => n.licenses[x].limit > 0
    BY <1>2, ConstantsAssumption DEF Sound, Loadable
  <2> QED BY <1>1, <2>1, <2>2, DeviceParts DEF Sound, Loadable
<1>10. Sound(n) BY <1>1, <1>5, <1>6, <1>7, <1>8, <1>9 DEF Sound
<1>11. n.licenses[l].status # "none" /\ n.codes[c].status = "none"
  BY <1>1, <1>2
<1>12. Sound(WithCode(n, l, c)) BY <1>10, <1>11, WithCodeSound
<1> QED BY <1>3, <1>12 DEF n

\* UpdateLicense: the limit covers the devices that are active, and their
\* leases follow the new expiry.
LEMMA UpdatedSound ==
    ASSUME NEW s, Sound(s), NEW l \in Licenses, NEW e \in Expiries,
           NEW lim \in Limits, now \in Times,
           s.licenses[l].status = "active",
           lim >= Cardinality(ActiveDevices(s, l))
    PROVE  Sound(Updated(s, l, e, lim))
<1> DEFINE n == Updated(s, l, e, lim)
           lrec == [s.licenses[l] EXCEPT !.expires = e, !.limit = lim]
           drec(d) == [s.devices[d] EXCEPT !.lease = LeaseExpiry(e)]
           devs == [d \in Devices |->
                      IF d \in ActiveDevices(s, l) THEN drec(d) ELSE s.devices[d]]
<1>1. /\ s.licenses \in [Licenses -> LicenseRecords]
      /\ s.codes \in [Codes -> CodeRecords]
      /\ s.devices \in [Devices -> DeviceRecords]
      /\ s = [licenses |-> s.licenses, codes |-> s.codes, devices |-> s.devices]
  BY DEF Sound, StoreType
<1>2. /\ n.codes = s.codes
      /\ n.licenses = [s.licenses EXCEPT ![l] = lrec]
      /\ n.devices = devs
      /\ n = [licenses |-> n.licenses, codes |-> n.codes, devices |-> n.devices]
  <2>1. n = [[s EXCEPT !.licenses = [s.licenses EXCEPT ![l] = lrec]] EXCEPT !.devices = devs]
    BY <1>1 DEF Updated
  <2> HIDE DEF n, devs, lrec
  <2> QED BY <1>1, <2>1
<1>3. n \in StoreType
  <2>1. lrec \in LicenseRecords
    BY <1>1, ConstantsAssumption DEF LicenseRecords
  <2>2. \A d \in Devices : drec(d) \in DeviceRecords
    BY <1>1, LeaseExpiryBounds DEF DeviceRecords
  <2>3. devs \in [Devices -> DeviceRecords]
    BY <1>1, <2>2
  <2> HIDE DEF n, devs, lrec
  <2>4. [s.licenses EXCEPT ![l] = lrec] \in [Licenses -> LicenseRecords]
    BY <1>1, <2>1
  <2> QED BY <1>1, <1>2, <2>3, <2>4 DEF StoreType
<1>4. \A x \in Licenses :
          /\ n.licenses[x].status = s.licenses[x].status
          /\ n.licenses[x].expires = IF x = l THEN e ELSE s.licenses[x].expires
          /\ n.licenses[x].limit = IF x = l THEN lim ELSE s.licenses[x].limit
  BY <1>1, <1>2 DEF LicenseRecords
<1>5. \A d \in Devices :
          /\ n.devices[d].status = s.devices[d].status
          /\ n.devices[d].token = s.devices[d].token
          /\ n.devices[d].lease = IF d \in ActiveDevices(s, l)
                                  THEN LeaseExpiry(e) ELSE s.devices[d].lease
  BY <1>1, <1>2 DEF DeviceRecords
<1> HIDE DEF n
<1>6. \A x : ActiveDevices(n, x) = ActiveDevices(s, x)
  BY <1>5 DEF ActiveDevices
<1>7. LimitKept(n) /\ RevocationReaches(n)
  BY <1>4, <1>6, ActiveFinite, ConstantsAssumption DEF Sound, LimitKept, RevocationReaches
<1>8. LeaseBounded(n)
  <2> SUFFICES ASSUME NEW d \in Devices, n.devices[d].status = "active",
                      n.licenses[LicenseOf(d)].expires # Never
               PROVE  n.devices[d].lease <= n.licenses[LicenseOf(d)].expires
    BY DEF LeaseBounded
  <2>1. CASE LicenseOf(d) = l
    <3>1. d \in ActiveDevices(s, l) BY <2>1, <1>5 DEF ActiveDevices
    <3> QED BY <2>1, <3>1, <1>4, <1>5, LeaseExpiryBounds
  <2>2. CASE LicenseOf(d) # l
    BY <2>2, <1>4, <1>5, DeviceParts DEF Sound, LeaseBounded, ActiveDevices
  <2> QED BY <2>1, <2>2
<1>9. OneKey(n) BY <1>5 DEF Sound, OneKey
<1>10. Loadable(n)
  BY <1>2, <1>4, <1>5, DeviceParts, ConstantsAssumption DEF Sound, Loadable
<1> QED BY <1>3, <1>7, <1>8, <1>9, <1>10 DEF Sound, n

\* Activate: one device becomes active, or gets another token, where there was
\* room for it.
LEMMA ActivatedSound ==
    ASSUME NEW s, Sound(s), NEW d \in Devices, NEW c \in Codes,
           NEW t \in 1 .. MaxTokens, now \in Times,
           s.codes[c].status = "available", s.codes[c].license = LicenseOf(d),
           Usable(s, LicenseOf(d)),
           ~InstallationConflict(s, InstallationOf(d), KeyOf(d)),
           HasRoom(s, d)
    PROVE  Sound(Activated(s, d, t, c))
<1> DEFINE n == Activated(s, d, t, c)
           l == LicenseOf(d)
           lease == LeaseExpiry(s.licenses[l].expires)
           drec == [status |-> "active", token |-> t, lease |-> lease]
           crec == [s.codes[c] EXCEPT !.status = "consumed", !.device = d]
<1>1. /\ s.licenses \in [Licenses -> LicenseRecords]
      /\ s.codes \in [Codes -> CodeRecords]
      /\ s.devices \in [Devices -> DeviceRecords]
      /\ s = [licenses |-> s.licenses, codes |-> s.codes, devices |-> s.devices]
  BY DEF Sound, StoreType
<1>2. /\ n.licenses = s.licenses
      /\ n.codes = [s.codes EXCEPT ![c] = crec]
      /\ n.devices = [s.devices EXCEPT ![d] = drec]
      /\ n = [licenses |-> n.licenses, codes |-> n.codes, devices |-> n.devices]
  <2>1. n = [[s EXCEPT !.devices = [s.devices EXCEPT ![d] = drec]]
                EXCEPT !.codes = [s.codes EXCEPT ![c] = crec]]
    BY <1>1 DEF Activated
  <2> HIDE DEF n, drec, crec
  <2> QED BY <1>1, <2>1
<1>3. l \in Licenses /\ s.licenses[l].expires \in Expiries
  BY <1>1, DeviceParts DEF LicenseRecords
<1>4. n \in StoreType
  <2>1. drec \in DeviceRecords
    BY <1>3, LeaseExpiryBounds DEF DeviceRecords
  <2>2. crec \in CodeRecords
    BY <1>1 DEF CodeRecords
  <2> HIDE DEF n, drec, crec
  <2>3. /\ [s.devices EXCEPT ![d] = drec] \in [Devices -> DeviceRecords]
        /\ [s.codes EXCEPT ![c] = crec] \in [Codes -> CodeRecords]
    BY <1>1, <2>1, <2>2
  <2> QED BY <1>1, <1>2, <2>3 DEF StoreType
<1>5. \A x \in Devices : n.devices[x] = IF x = d THEN drec ELSE s.devices[x]
  BY <1>1, <1>2
<1>6. \A x \in Codes :
          /\ n.codes[x].license = s.codes[x].license
          /\ n.codes[x].status = IF x = c THEN "consumed" ELSE s.codes[x].status
          /\ n.codes[x].device = IF x = c THEN d ELSE s.codes[x].device
  BY <1>1, <1>2 DEF CodeRecords
<1> HIDE DEF n
<1>7. \A x : ActiveDevices(n, x) =
                IF x = l THEN ActiveDevices(s, x) \cup {d} ELSE ActiveDevices(s, x)
  BY <1>5 DEF ActiveDevices
<1>8. LimitKept(n)
  <2> SUFFICES ASSUME NEW x \in Licenses
               PROVE  Cardinality(ActiveDevices(n, x)) <= n.licenses[x].limit
    BY DEF LimitKept
  <2>1. CASE x = l /\ s.devices[d].status = "active"
    <3>1. d \in ActiveDevices(s, l) BY <2>1 DEF ActiveDevices
    <3>2. ActiveDevices(n, x) = ActiveDevices(s, x) BY <2>1, <3>1, <1>7
    <3> QED BY <3>2, <1>2 DEF Sound, LimitKept
  <2>2. CASE x = l /\ s.devices[d].status # "active"
    <3>1. d \notin ActiveDevices(s, l) BY <2>2 DEF ActiveDevices
    <3>2. Cardinality(ActiveDevices(n, x)) = Cardinality(ActiveDevices(s, l)) + 1
      BY <2>2, <3>1, <1>7, ActiveFinite, FS_AddElement
    <3>3. Cardinality(ActiveDevices(s, l)) < s.licenses[l].limit
      BY <2>2 DEF HasRoom
    <3>4. s.licenses[l].limit \in Nat BY <1>1, <1>3 DEF LicenseRecords
    <3> QED BY <2>2, <3>2, <3>3, <3>4, <1>2, ActiveFinite
  <2>3. CASE x # l
    BY <2>3, <1>2, <1>7 DEF Sound, LimitKept
  <2> QED BY <2>1, <2>2, <2>3
<1>9. RevocationReaches(n)
  BY <1>2, <1>7 DEF Sound, RevocationReaches, Usable
<1>10. LeaseBounded(n)
  BY <1>2, <1>3, <1>5, LeaseExpiryBounds DEF Sound, LeaseBounded
<1>11. OneKey(n)
  <2> SUFFICES ASSUME NEW x \in Devices, NEW y \in Devices,
                      n.devices[x].status # "none", n.devices[y].status # "none",
                      InstallationOf(x) = InstallationOf(y)
               PROVE  KeyOf(x) = KeyOf(y)
    BY DEF OneKey
  <2>1. \A z \in Devices : s.devices[z].status # "none"
                             /\ InstallationOf(z) = InstallationOf(d) => KeyOf(z) = KeyOf(d)
    BY DEF InstallationConflict
  <2>2. CASE x = d \/ y = d BY <2>1, <2>2, <1>5
  <2>3. CASE x # d /\ y # d BY <2>3, <1>5 DEF Sound, OneKey
  <2> QED BY <2>2, <2>3
<1>12. Loadable(n)
  <2>1. \A x \in Devices : s.devices[x].status # "none" => n.devices[x].status # "none"
    BY <1>5
  <2>2. ASSUME NEW x \in Codes, n.codes[x].status # "none"
        PROVE  /\ n.codes[x].license \in Licenses
               /\ n.licenses[n.codes[x].license].status # "none"
               /\ n.codes[x].status = "consumed" =>
                    /\ n.codes[x].device \in Devices
                    /\ n.devices[n.codes[x].device].status # "none"
                    /\ LicenseOf(n.codes[x].device) = n.codes[x].license
    BY <2>1, <2>2, <1>2, <1>5, <1>6 DEF Sound, Loadable
  <2>3. \A x \in Devices :
          /\ n.devices[x].status # "none" => n.licenses[LicenseOf(x)].status # "none"
          /\ n.devices[x].status = "active" => n.devices[x].token # NoToken
    BY <1>2, <1>5 DEF Sound, Loadable, Usable, NoToken
  <2> QED BY <2>2, <2>3, <1>2 DEF Sound, Loadable
<1> QED BY <1>4, <1>8, <1>9, <1>10, <1>11, <1>12 DEF Sound, n

\* Heartbeat renews a lease within the license's expiry.
LEMMA RenewedSound ==
    ASSUME NEW s, Sound(s), NEW d \in Devices, now \in Times
    PROVE  Sound(Renewed(s, d))
<1> DEFINE n == Renewed(s, d)
           l == LicenseOf(d)
           lease == LeaseExpiry(s.licenses[l].expires)
           drec == [s.devices[d] EXCEPT !.lease = lease]
<1>1. /\ s.licenses \in [Licenses -> LicenseRecords]
      /\ s.devices \in [Devices -> DeviceRecords]
  BY DEF Sound, StoreType
<1>2. /\ n.licenses = s.licenses /\ n.codes = s.codes
      /\ n.devices = [s.devices EXCEPT ![d] = drec]
      /\ n = [s EXCEPT !.devices = [s.devices EXCEPT ![d] = drec]]
  <2>1. n = [s EXCEPT !.devices = [s.devices EXCEPT ![d] = drec]]
    BY DEF Renewed
  <2> HIDE DEF n, drec
  <2> QED BY <2>1 DEF Sound, StoreType
<1>3. l \in Licenses /\ s.licenses[l].expires \in Expiries
  BY <1>1, DeviceParts DEF LicenseRecords
<1>4. n \in StoreType
  <2>1. drec \in DeviceRecords
    BY <1>1, <1>3, LeaseExpiryBounds DEF DeviceRecords
  <2> HIDE DEF n, drec
  <2>2. [s.devices EXCEPT ![d] = drec] \in [Devices -> DeviceRecords]
    BY <1>1, <2>1
  <2> QED BY <1>2, <2>2 DEF Sound, StoreType
<1>5. \A x \in Devices :
          /\ n.devices[x].status = s.devices[x].status
          /\ n.devices[x].token = s.devices[x].token
          /\ n.devices[x].lease = IF x = d THEN lease ELSE s.devices[x].lease
  BY <1>1, <1>2 DEF DeviceRecords
<1> HIDE DEF n
<1>6. \A x : ActiveDevices(n, x) = ActiveDevices(s, x)
  BY <1>5 DEF ActiveDevices
<1>7. LimitKept(n) /\ RevocationReaches(n)
  BY <1>2, <1>6 DEF Sound, LimitKept, RevocationReaches
<1>8. LeaseBounded(n)
  BY <1>2, <1>3, <1>5, LeaseExpiryBounds DEF Sound, LeaseBounded
<1>9. OneKey(n) BY <1>5 DEF Sound, OneKey
<1>10. Loadable(n) BY <1>2, <1>5, DeviceParts DEF Sound, Loadable
<1> QED BY <1>4, <1>7, <1>8, <1>9, <1>10 DEF Sound, n

\* RevokeLicense takes its active devices with it.
LEMMA RevokedSound ==
    ASSUME NEW s, Sound(s), NEW l \in Licenses, s.licenses[l].status = "active"
    PROVE  Sound(Revoked(s, l)) /\ ActiveDevices(Revoked(s, l), l) = {}
<1> DEFINE n == Revoked(s, l)
           lrec == [s.licenses[l] EXCEPT !.status = "revoked"]
           drec(d) == [s.devices[d] EXCEPT !.status = "revoked"]
           devs == [d \in Devices |->
                      IF d \in ActiveDevices(s, l) THEN drec(d) ELSE s.devices[d]]
<1>1. /\ s.licenses \in [Licenses -> LicenseRecords]
      /\ s.devices \in [Devices -> DeviceRecords]
  BY DEF Sound, StoreType
<1>2. /\ n.codes = s.codes
      /\ n.licenses = [s.licenses EXCEPT ![l] = lrec]
      /\ n.devices = devs
      /\ n \in StoreType
  <2>1. n = [[s EXCEPT !.licenses = [s.licenses EXCEPT ![l] = lrec]] EXCEPT !.devices = devs]
    BY <1>1 DEF Revoked
  <2>2. lrec \in LicenseRecords BY <1>1 DEF LicenseRecords
  <2>3. \A d \in Devices : drec(d) \in DeviceRecords BY <1>1 DEF DeviceRecords
  <2>4. devs \in [Devices -> DeviceRecords] BY <1>1, <2>3
  <2> HIDE DEF n, devs, lrec
  <2>5. [s.licenses EXCEPT ![l] = lrec] \in [Licenses -> LicenseRecords]
    BY <1>1, <2>2
  <2> QED BY <2>1, <2>4, <2>5 DEF Sound, StoreType
<1>3. \A x \in Licenses :
          /\ n.licenses[x].status = IF x = l THEN "revoked" ELSE s.licenses[x].status
          /\ n.licenses[x].expires = s.licenses[x].expires
          /\ n.licenses[x].limit = s.licenses[x].limit
  BY <1>1, <1>2 DEF LicenseRecords
<1>4. \A d \in Devices :
          /\ n.devices[d].status = IF d \in ActiveDevices(s, l)
                                   THEN "revoked" ELSE s.devices[d].status
          /\ n.devices[d].token = s.devices[d].token
          /\ n.devices[d].lease = s.devices[d].lease
  BY <1>1, <1>2 DEF DeviceRecords
<1> HIDE DEF n
<1>5. \A x \in Licenses : ActiveDevices(n, x) \subseteq ActiveDevices(s, x)
  BY <1>4 DEF ActiveDevices
<1>6. ActiveDevices(n, l) = {}
  BY <1>4 DEF ActiveDevices
<1>7. LimitKept(n)
  <2> SUFFICES ASSUME NEW x \in Licenses
               PROVE  Cardinality(ActiveDevices(n, x)) <= n.licenses[x].limit
    BY DEF LimitKept
  <2>1. s.licenses[x].limit \in Nat BY <1>1 DEF LicenseRecords
  <2>2. Cardinality(ActiveDevices(s, x)) <= s.licenses[x].limit BY DEF Sound, LimitKept
  <2> QED BY <2>1, <2>2, <1>3, <1>5, ActiveSubset, ActiveFinite
<1>8. RevocationReaches(n)
  BY <1>3, <1>5, <1>6 DEF Sound, RevocationReaches
<1>9. LeaseBounded(n)
  BY <1>3, <1>4, DeviceParts DEF Sound, LeaseBounded, ActiveDevices
<1>10. OneKey(n)
  BY <1>4 DEF Sound, OneKey, ActiveDevices
<1>11. Loadable(n)
  <2>1. \A x \in Licenses : /\ n.licenses[x].status # "none" <=> s.licenses[x].status # "none"
                            /\ n.licenses[x].limit = s.licenses[x].limit
    BY <1>3
  <2>2. \A d \in Devices : /\ n.devices[d].status # "none" <=> s.devices[d].status # "none"
                           /\ n.devices[d].status = "active" => s.devices[d].status = "active"
                           /\ n.devices[d].token = s.devices[d].token
    BY <1>4 DEF ActiveDevices
  <2> HIDE DEF devs
  <2> QED BY <1>2, <2>1, <2>2, DeviceParts DEF Sound, Loadable
<1> QED BY <1>2, <1>6, <1>7, <1>8, <1>9, <1>10, <1>11 DEF Sound, n

\* ReleaseDevice frees the slot of a device, and only that.
LEMMA ReleasedSound ==
    ASSUME NEW s, Sound(s), NEW d \in Devices, s.devices[d].status # "none"
    PROVE  Sound(Released(s, d))
<1> DEFINE n == Released(s, d)
           drec == [s.devices[d] EXCEPT !.status = "released", !.token = NoToken]
<1>1. /\ s.licenses \in [Licenses -> LicenseRecords]
      /\ s.devices \in [Devices -> DeviceRecords]
  BY DEF Sound, StoreType
<1>2. /\ n.licenses = s.licenses /\ n.codes = s.codes
      /\ n.devices = [s.devices EXCEPT ![d] = drec]
      /\ n \in StoreType
  <2>1. n = [s EXCEPT !.devices = [s.devices EXCEPT ![d] = drec]]
    BY DEF Released
  <2>2. drec \in DeviceRecords
    <3>1. NoToken \in 0 .. MaxTokens BY ConstantsAssumption DEF NoToken
    <3>2. s.devices[d] \in DeviceRecords BY <1>1
    <3> QED BY <3>1, <3>2 DEF DeviceRecords
  <2> HIDE DEF n, drec
  <2>3. [s.devices EXCEPT ![d] = drec] \in [Devices -> DeviceRecords]
    BY <1>1, <2>2
  <2> QED BY <2>1, <2>3 DEF Sound, StoreType
<1>3. \A x \in Devices :
          /\ n.devices[x].status = IF x = d THEN "released" ELSE s.devices[x].status
          /\ x # d => n.devices[x].token = s.devices[x].token
          /\ n.devices[x].lease = s.devices[x].lease
  BY <1>1, <1>2 DEF DeviceRecords
<1> HIDE DEF n
<1>4. \A x \in Licenses : ActiveDevices(n, x) \subseteq ActiveDevices(s, x)
  BY <1>3 DEF ActiveDevices
<1>5. LimitKept(n)
  <2> SUFFICES ASSUME NEW x \in Licenses
               PROVE  Cardinality(ActiveDevices(n, x)) <= n.licenses[x].limit
    BY DEF LimitKept
  <2>1. s.licenses[x].limit \in Nat BY <1>1 DEF LicenseRecords
  <2>2. Cardinality(ActiveDevices(s, x)) <= s.licenses[x].limit BY DEF Sound, LimitKept
  <2> QED BY <2>1, <2>2, <1>2, <1>4, ActiveSubset, ActiveFinite
<1>6. RevocationReaches(n)
  BY <1>2, <1>4 DEF Sound, RevocationReaches
<1>7. LeaseBounded(n)
  BY <1>2, <1>3 DEF Sound, LeaseBounded
<1>8. OneKey(n)
  BY <1>3 DEF Sound, OneKey
<1>9. Loadable(n)
  <2>1. \A x \in Devices : /\ n.devices[x].status # "none" <=> s.devices[x].status # "none"
                           /\ n.devices[x].status = "active" =>
                                 /\ s.devices[x].status = "active"
                                 /\ n.devices[x].token = s.devices[x].token
    BY <1>3
  <2> HIDE DEF drec
  <2> QED BY <1>2, <2>1, DeviceParts DEF Sound, Loadable
<1> QED BY <1>2, <1>5, <1>6, <1>7, <1>8, <1>9 DEF Sound, n

-----------------------------------------------------------------------------
(* The theorems.                                                           *)

\* A commit of a sound store keeps the invariant.
LEMMA CommitKeeps ==
    ASSUME Inv, NEW n, Sound(n), Commit(n), issued' \in 0 .. MaxTokens, now' = now
    PROVE  Inv'
<1>1. Sound(store') /\ Sound(disk')
  BY DEF Commit, Inv
<1>2. (up => disk = store)'
  BY DEF Commit
<1>3. TypeOK'
  BY <1>1 DEF TypeOK, Inv, Sound, Commit
<1>4. (Sound(store))' /\ (Sound(disk))'
  BY <1>1 DEF Sound, LimitKept, RevocationReaches, LeaseBounded, OneKey, Loadable,
              ActiveDevices
<1> QED BY <1>2, <1>3, <1>4 DEF Inv, DurableWhenAnswered

\* The empty store is sound.
LEMMA InitSound == Init => Inv
<1> SUFFICES ASSUME Init PROVE Inv
  OBVIOUS
<1>1. EmptyStore \in StoreType
  BY ConstantsAssumption DEF EmptyStore, StoreType, LicenseRecords, CodeRecords,
     DeviceRecords, Expiries, Never, NoToken
<1>2. \A d \in Devices : EmptyStore.devices[d].status = "none"
  BY DEF EmptyStore
<1>3. \A l \in Licenses : /\ EmptyStore.licenses[l].status = "none"
                          /\ EmptyStore.licenses[l].limit = 0
  BY DEF EmptyStore
<1>4. \A c \in Codes : EmptyStore.codes[c].status = "none"
  BY DEF EmptyStore
<1>5. \A l : ActiveDevices(EmptyStore, l) = {}
  BY <1>2 DEF ActiveDevices
<1>6. Sound(EmptyStore)
  <2>1. LimitKept(EmptyStore) BY <1>3, <1>5, FS_EmptySet DEF LimitKept
  <2>2. RevocationReaches(EmptyStore) BY <1>5 DEF RevocationReaches
  <2>3. LeaseBounded(EmptyStore) BY <1>2 DEF LeaseBounded
  <2>4. OneKey(EmptyStore) BY <1>2 DEF OneKey
  <2>5. Loadable(EmptyStore) BY <1>2, <1>3, <1>4 DEF Loadable
  <2> QED BY <1>1, <2>1, <2>2, <2>3, <2>4, <2>5 DEF Sound
<1> QED BY <1>1, <1>6, ConstantsAssumption DEF Init, Inv, TypeOK, DurableWhenAnswered, Times

\* Every step keeps the invariant.
LEMMA InvPreserved == Inv /\ [Next]_vars => Inv'
<1> SUFFICES ASSUME Inv, [Next]_vars PROVE Inv'
  OBVIOUS
<1>t. now \in Times /\ issued \in 0 .. MaxTokens /\ Sound(store)
  BY DEF Inv, TypeOK
<1>1. ASSUME NEW l \in Licenses, NEW e \in Expiries, NEW lim \in Limits, NEW c \in Codes,
             CreateLicense(l, e, lim, c)
      PROVE  Inv'
  <2>1. Sound(Created(store, l, e, lim, c)) BY <1>1, <1>t, CreatedSound DEF CreateLicense
  <2> QED BY <2>1, <1>1, <1>t, CommitKeeps DEF CreateLicense
<1>2. ASSUME NEW l \in Licenses, NEW e \in Expiries, NEW lim \in Limits,
             UpdateLicense(l, e, lim)
      PROVE  Inv'
  <2>1. Sound(Updated(store, l, e, lim)) BY <1>2, <1>t, UpdatedSound DEF UpdateLicense
  <2> QED BY <2>1, <1>2, <1>t, CommitKeeps DEF UpdateLicense
<1>3. ASSUME NEW l \in Licenses, NEW c \in Codes, IssueCode(l, c)
      PROVE  Inv'
  <2>1. Sound(WithCode(store, l, c)) BY <1>3, <1>t, WithCodeSound DEF IssueCode, Usable
  <2> QED BY <2>1, <1>3, <1>t, CommitKeeps DEF IssueCode
<1>4. ASSUME NEW l \in Licenses, RevokeLicense(l)
      PROVE  Inv'
  <2>1. Sound(Revoked(store, l)) BY <1>4, <1>t, RevokedSound DEF RevokeLicense
  <2> QED BY <2>1, <1>4, <1>t, CommitKeeps DEF RevokeLicense
<1>5. ASSUME NEW d \in Devices, ReleaseDevice(d)
      PROVE  Inv'
  <2>1. Sound(Released(store, d)) BY <1>5, <1>t, ReleasedSound DEF ReleaseDevice
  <2> QED BY <2>1, <1>5, <1>t, CommitKeeps DEF ReleaseDevice
<1>6. ASSUME NEW c \in Codes, NEW i \in Installations, NEW k \in Keys, Activate(c, i, k)
      PROVE  Inv'
  <2> DEFINE d == <<store.codes[c].license, i, k>>
  <2>1. store.codes[c].license \in Licenses
    BY <1>6, <1>t DEF Activate, CodeAccepted, Sound, Loadable
  <2>2. /\ d \in Devices /\ LicenseOf(d) = store.codes[c].license
        /\ InstallationOf(d) = i /\ KeyOf(d) = k
    BY <2>1 DEF Devices, LicenseOf, InstallationOf, KeyOf
  <2>3. issued' \in 1 .. MaxTokens /\ issued' \in 0 .. MaxTokens
    BY <1>6, <1>t, ConstantsAssumption DEF Activate
  <2>4. /\ CodeAccepted(store, c) /\ Usable(store, LicenseOf(d))
        /\ ~InstallationConflict(store, i, k) /\ HasRoom(store, d)
        /\ Commit(Activated(store, d, issued', c)) /\ now' = now
    BY <1>6 DEF Activate
  <2> HIDE DEF d
  <2>5. Sound(Activated(store, d, issued', c))
    BY <2>2, <2>3, <2>4, <1>t, ActivatedSound DEF CodeAccepted
  <2> QED BY <2>3, <2>4, <2>5, CommitKeeps
<1>7. ASSUME NEW d \in Devices, NEW t \in 1 .. MaxTokens, Heartbeat(d, t)
      PROVE  Inv'
  <2>1. Sound(Renewed(store, d)) BY <1>7, <1>t, RenewedSound
  <2> QED BY <2>1, <1>7, <1>t, CommitKeeps DEF Heartbeat
<1>8. CASE Crash
  BY <1>8 DEF Crash, Inv, TypeOK, DurableWhenAnswered, Sound, LimitKept,
     RevocationReaches, LeaseBounded, OneKey, Loadable, ActiveDevices
<1>9. CASE Restart
  BY <1>9 DEF Restart, Inv, TypeOK, DurableWhenAnswered, Sound, LimitKept,
     RevocationReaches, LeaseBounded, OneKey, Loadable, ActiveDevices
<1>10. CASE Tick
  <2>1. now' \in Times
    BY <1>10, <1>t, ConstantsAssumption DEF Tick, Times
  <2> QED BY <2>1, <1>10 DEF Tick, Inv, TypeOK, DurableWhenAnswered, Sound, LimitKept,
       RevocationReaches, LeaseBounded, OneKey, Loadable, ActiveDevices
<1>11. CASE UNCHANGED vars
  BY <1>11 DEF vars, Inv, TypeOK, DurableWhenAnswered, Sound, LimitKept,
     RevocationReaches, LeaseBounded, OneKey, Loadable, ActiveDevices
<1> QED
  BY <1>1, <1>2, <1>3, <1>4, <1>5, <1>6, <1>7, <1>8, <1>9, <1>10, <1>11
  DEF Next, Manage, Serve

\* Sound(store) and Sound(disk) hold in every reachable state.
LEMMA InvHolds == Spec => []Inv
BY InitSound, InvPreserved, PTL DEF Spec

\* The store, in memory and in the file, is well typed.
THEOREM TypeCorrect == Spec => []TypeOK
<1>1. Inv => TypeOK BY DEF Inv
<1> QED BY <1>1, InvHolds, PTL

\* No license ever has more active devices than its limit: Activate,
\* UpdateLicense, ReleaseDevice and RevokeLicense in any order, with any crash.
THEOREM LimitNeverExceeded == Spec => []WithinLimit
<1>1. Inv => WithinLimit BY DEF Inv, Sound, WithinLimit
<1> QED BY <1>1, InvHolds, PTL

\* A license that is not active has no active device.
THEOREM RevocationComplete == Spec => []RevokedHasNoDevice
<1>1. Inv => RevokedHasNoDevice BY DEF Inv, Sound, RevokedHasNoDevice
<1> QED BY <1>1, InvHolds, PTL

\* No active device's lease outlives its license.
THEOREM LeasesBounded == Spec => []LeaseWithinExpiry
<1>1. Inv => LeaseWithinExpiry BY DEF Inv, Sound, LeaseWithinExpiry
<1> QED BY <1>1, InvHolds, PTL

\* An installation id never changes its key.
THEOREM KeyPinned == Spec => []OneKeyPerInstallation
<1>1. Inv => OneKeyPerInstallation BY DEF Inv, Sound, OneKeyPerInstallation
<1> QED BY <1>1, InvHolds, PTL

\* The manager can always start from the file it wrote, and has in memory what
\* the file holds: no crash loses an acknowledged call.
THEOREM CrashSafe == Spec => [](RestartSucceeds /\ DurableWhenAnswered)
<1>1. Inv => RestartSucceeds /\ DurableWhenAnswered BY DEF Inv, Sound, RestartSucceeds
<1> QED BY <1>1, InvHolds, PTL

-----------------------------------------------------------------------------
(* What no step may do.                                                    *)

\* A running process changes the file from what memory holds.
LEMMA CommitFromDisk ==
    ASSUME Inv, up, NEW n, Commit(n)
    PROVE  disk = store /\ disk' = n
BY DEF Inv, DurableWhenAnswered, Commit

\* No step touches a code that has been spent.
LEMMA CodesKept ==
    ASSUME Inv, [Next]_vars, NEW x \in Codes, disk.codes[x].status = "consumed"
    PROVE  disk'.codes[x] = disk.codes[x]
<1>t. store.codes \in [Codes -> CodeRecords]
  BY DEF Inv, Sound, StoreType
<1>1. ASSUME NEW l, NEW e, NEW lim, NEW c \in Codes, CreateLicense(l, e, lim, c)
      PROVE  disk'.codes[x] = disk.codes[x]
  <2>1. disk = store /\ disk' = Created(store, l, e, lim, c)
    BY <1>1, CommitFromDisk DEF CreateLicense
  <2>2. Created(store, l, e, lim, c).codes[x] = store.codes[x]
    BY <1>t, <1>1, <2>1 DEF Created, WithCode, CreateLicense, Inv, Sound, StoreType
  <2> QED BY <2>1, <2>2
<1>2. ASSUME NEW l, NEW e, NEW lim, UpdateLicense(l, e, lim)
      PROVE  disk'.codes[x] = disk.codes[x]
  <2>1. disk = store /\ disk' = Updated(store, l, e, lim)
    BY <1>2, CommitFromDisk DEF UpdateLicense
  <2>2. Updated(store, l, e, lim).codes = store.codes
    BY DEF Updated, Inv, Sound, StoreType
  <2> QED BY <2>1, <2>2
<1>3. ASSUME NEW l, NEW c \in Codes, IssueCode(l, c)
      PROVE  disk'.codes[x] = disk.codes[x]
  <2>1. disk = store /\ disk' = WithCode(store, l, c)
    BY <1>3, CommitFromDisk DEF IssueCode
  <2>2. WithCode(store, l, c).codes[x] = store.codes[x]
    BY <1>t, <1>3, <2>1 DEF WithCode, IssueCode, Inv, Sound, StoreType
  <2> QED BY <2>1, <2>2
<1>4. ASSUME NEW l, RevokeLicense(l)
      PROVE  disk'.codes[x] = disk.codes[x]
  <2>1. disk = store /\ disk' = Revoked(store, l)
    BY <1>4, CommitFromDisk DEF RevokeLicense
  <2>2. Revoked(store, l).codes = store.codes
    BY DEF Revoked, Inv, Sound, StoreType
  <2> QED BY <2>1, <2>2
<1>5. ASSUME NEW d, ReleaseDevice(d)
      PROVE  disk'.codes[x] = disk.codes[x]
  <2>1. disk = store /\ disk' = Released(store, d)
    BY <1>5, CommitFromDisk DEF ReleaseDevice
  <2>2. Released(store, d).codes = store.codes
    BY DEF Released, Inv, Sound, StoreType
  <2> QED BY <2>1, <2>2
<1>6. ASSUME NEW c \in Codes, NEW i, NEW k, Activate(c, i, k)
      PROVE  disk'.codes[x] = disk.codes[x]
  <2> DEFINE d == <<store.codes[c].license, i, k>>
  <2>1. Commit(Activated(store, d, issued', c)) /\ up /\ store.codes[c].status = "available"
    BY <1>6 DEF Activate, CodeAccepted
  <2> HIDE DEF d
  <2>2. disk = store /\ disk' = Activated(store, d, issued', c)
    BY <2>1, CommitFromDisk
  <2>3. x # c BY <2>1, <2>2
  <2>4. Activated(store, d, issued', c).codes[x] = store.codes[x]
    BY <1>t, <2>3 DEF Activated, Inv, Sound, StoreType
  <2> QED BY <2>2, <2>4
<1>7. ASSUME NEW d, NEW t, Heartbeat(d, t)
      PROVE  disk'.codes[x] = disk.codes[x]
  <2>1. disk = store /\ disk' = Renewed(store, d)
    BY <1>7, CommitFromDisk DEF Heartbeat
  <2>2. Renewed(store, d).codes = store.codes
    BY DEF Renewed, Inv, Sound, StoreType
  <2> QED BY <2>1, <2>2
<1>8. CASE Crash \/ Restart \/ Tick \/ UNCHANGED vars
  BY <1>8 DEF Crash, Restart, Tick, vars
<1> QED
  BY <1>1, <1>2, <1>3, <1>4, <1>5, <1>6, <1>7, <1>8 DEF Next, Manage, Serve

\* A code buys one activation: once consumed it never changes again, through
\* every call, crash and restart.
THEOREM CodesAreOneTime == Spec => CodeSpentOnce
<1> DEFINE Kept == \A c \in Codes :
                      disk.codes[c].status = "consumed" => disk'.codes[c] = disk.codes[c]
<1>1. Inv /\ [Next]_vars => [Kept]_vars
  BY CodesKept
<1> QED BY <1>1, InvHolds, PTL DEF Spec, CodeSpentOnce

\* No step brings a revoked license back.
LEMMA RevocationKept ==
    ASSUME Inv, [Next]_vars, NEW x \in Licenses, disk.licenses[x].status = "revoked"
    PROVE  disk'.licenses[x].status = "revoked"
<1>t. store.licenses \in [Licenses -> LicenseRecords]
  BY DEF Inv, Sound, StoreType
<1>1. ASSUME NEW l \in Licenses, NEW e, NEW lim, NEW c, CreateLicense(l, e, lim, c)
      PROVE  disk'.licenses[x].status = "revoked"
  <2>1. disk = store /\ disk' = Created(store, l, e, lim, c) /\ x # l
    BY <1>1, CommitFromDisk DEF CreateLicense
  <2>2. Created(store, l, e, lim, c).licenses[x] = store.licenses[x]
    BY <1>t, <2>1 DEF Created, WithCode, Inv, Sound, StoreType
  <2> QED BY <2>1, <2>2
<1>2. ASSUME NEW l \in Licenses, NEW e, NEW lim, UpdateLicense(l, e, lim)
      PROVE  disk'.licenses[x].status = "revoked"
  <2>1. disk = store /\ disk' = Updated(store, l, e, lim) /\ x # l
    BY <1>2, CommitFromDisk DEF UpdateLicense
  <2>2. Updated(store, l, e, lim).licenses[x] = store.licenses[x]
    BY <1>t, <2>1 DEF Updated, Inv, Sound, StoreType
  <2> QED BY <2>1, <2>2
<1>3. ASSUME NEW l, NEW c, IssueCode(l, c)
      PROVE  disk'.licenses[x].status = "revoked"
  <2>1. disk = store /\ disk' = WithCode(store, l, c)
    BY <1>3, CommitFromDisk DEF IssueCode
  <2>2. WithCode(store, l, c).licenses = store.licenses
    BY DEF WithCode, Inv, Sound, StoreType
  <2> QED BY <2>1, <2>2
<1>4. ASSUME NEW l \in Licenses, RevokeLicense(l)
      PROVE  disk'.licenses[x].status = "revoked"
  <2>1. disk = store /\ disk' = Revoked(store, l) /\ x # l
    BY <1>4, CommitFromDisk DEF RevokeLicense
  <2>2. Revoked(store, l).licenses[x] = store.licenses[x]
    BY <1>t, <2>1 DEF Revoked, Inv, Sound, StoreType
  <2> QED BY <2>1, <2>2
<1>5. ASSUME NEW d, ReleaseDevice(d)
      PROVE  disk'.licenses[x].status = "revoked"
  <2>1. disk = store /\ disk' = Released(store, d)
    BY <1>5, CommitFromDisk DEF ReleaseDevice
  <2>2. Released(store, d).licenses = store.licenses
    BY DEF Released, Inv, Sound, StoreType
  <2> QED BY <2>1, <2>2
<1>6. ASSUME NEW c, NEW i, NEW k, Activate(c, i, k)
      PROVE  disk'.licenses[x].status = "revoked"
  <2> DEFINE d == <<store.codes[c].license, i, k>>
  <2>1. Commit(Activated(store, d, issued', c)) /\ up
    BY <1>6 DEF Activate
  <2> HIDE DEF d
  <2>2. disk = store /\ disk' = Activated(store, d, issued', c)
    BY <2>1, CommitFromDisk
  <2>3. Activated(store, d, issued', c).licenses = store.licenses
    BY DEF Activated, Inv, Sound, StoreType
  <2> QED BY <2>2, <2>3
<1>7. ASSUME NEW d, NEW t, Heartbeat(d, t)
      PROVE  disk'.licenses[x].status = "revoked"
  <2>1. disk = store /\ disk' = Renewed(store, d)
    BY <1>7, CommitFromDisk DEF Heartbeat
  <2>2. Renewed(store, d).licenses = store.licenses
    BY DEF Renewed, Inv, Sound, StoreType
  <2> QED BY <2>1, <2>2
<1>8. CASE Crash \/ Restart \/ Tick \/ UNCHANGED vars
  BY <1>8 DEF Crash, Restart, Tick, vars
<1> QED
  BY <1>1, <1>2, <1>3, <1>4, <1>5, <1>6, <1>7, <1>8 DEF Next, Manage, Serve

\* A revoked license stays revoked and without active devices for ever.
THEOREM RevocationFinal == Spec => RevokedForGood
<1> DEFINE Kept == \A l \in Licenses :
                      disk.licenses[l].status = "revoked" =>
                         /\ disk'.licenses[l].status = "revoked"
                         /\ ActiveDevices(disk', l) = {}
<1>1. Inv /\ [Next]_vars => [Kept]_vars
  <2> SUFFICES ASSUME Inv, [Next]_vars, NEW l \in Licenses,
                      disk.licenses[l].status = "revoked"
               PROVE  /\ disk'.licenses[l].status = "revoked"
                      /\ ActiveDevices(disk', l) = {}
    OBVIOUS
  <2>1. disk'.licenses[l].status = "revoked" BY RevocationKept
  <2>2. Inv' BY InvPreserved
  <2>3. (RevocationReaches(disk))' BY <2>2 DEF Inv, Sound
  <2> QED BY <2>1, <2>3 DEF RevocationReaches, ActiveDevices
<1> QED BY <1>1, InvHolds, PTL DEF Spec, RevokedForGood

\* A device that is active in n was active in s, with the token it has in n.
NoNewActive(s, n) ==
    \A d \in Devices :
        n.devices[d].status = "active" =>
            /\ s.devices[d].status = "active"
            /\ s.devices[d].token = n.devices[d].token

\* Of all steps only Activate makes a device active or gives it another token,
\* and it spends an available code of the device's license on that.
LEMMA ActivationPaid ==
    ASSUME Inv, [Next]_vars, NEW x \in Devices,
           disk'.devices[x].status = "active",
           \/ disk.devices[x].status # "active"
           \/ disk'.devices[x].token # disk.devices[x].token
    PROVE  \E c \in Codes :
              /\ disk.codes[c].status = "available"
              /\ disk.codes[c].license = LicenseOf(x)
              /\ disk'.codes[c].status = "consumed"
              /\ disk'.codes[c].device = x
<1>t. /\ store.devices \in [Devices -> DeviceRecords]
      /\ store.codes \in [Codes -> CodeRecords]
  BY DEF Inv, Sound, StoreType
<1>n. ~NoNewActive(disk, disk')
  BY DEF NoNewActive
<1>1. ASSUME NEW l, NEW e, NEW lim, NEW c, CreateLicense(l, e, lim, c) PROVE FALSE
  <2>1. disk = store /\ disk' = Created(store, l, e, lim, c)
    BY <1>1, CommitFromDisk DEF CreateLicense
  <2>2. Created(store, l, e, lim, c).devices = store.devices
    BY DEF Created, WithCode, Inv, Sound, StoreType
  <2> QED BY <2>1, <2>2, <1>n DEF NoNewActive
<1>2. ASSUME NEW l, NEW e, NEW lim, UpdateLicense(l, e, lim) PROVE FALSE
  <2>1. disk = store /\ disk' = Updated(store, l, e, lim)
    BY <1>2, CommitFromDisk DEF UpdateLicense
  <2>2. \A d \in Devices :
          /\ Updated(store, l, e, lim).devices[d].status = store.devices[d].status
          /\ Updated(store, l, e, lim).devices[d].token = store.devices[d].token
    BY <1>t DEF Updated, Inv, Sound, StoreType, DeviceRecords
  <2> QED BY <2>1, <2>2, <1>n DEF NoNewActive
<1>3. ASSUME NEW l, NEW c, IssueCode(l, c) PROVE FALSE
  <2>1. disk = store /\ disk' = WithCode(store, l, c)
    BY <1>3, CommitFromDisk DEF IssueCode
  <2>2. WithCode(store, l, c).devices = store.devices
    BY DEF WithCode, Inv, Sound, StoreType
  <2> QED BY <2>1, <2>2, <1>n DEF NoNewActive
<1>4. ASSUME NEW l, RevokeLicense(l) PROVE FALSE
  <2>1. disk = store /\ disk' = Revoked(store, l)
    BY <1>4, CommitFromDisk DEF RevokeLicense
  <2>2. \A d \in Devices :
          Revoked(store, l).devices[d].status = "active" =>
             /\ store.devices[d].status = "active"
             /\ Revoked(store, l).devices[d].token = store.devices[d].token
    BY <1>t DEF Revoked, ActiveDevices, Inv, Sound, StoreType, DeviceRecords
  <2> QED BY <2>1, <2>2, <1>n DEF NoNewActive
<1>5. ASSUME NEW d \in Devices, ReleaseDevice(d) PROVE FALSE
  <2>1. disk = store /\ disk' = Released(store, d)
    BY <1>5, CommitFromDisk DEF ReleaseDevice
  <2>2. \A y \in Devices :
          Released(store, d).devices[y].status = "active" =>
             Released(store, d).devices[y] = store.devices[y]
    BY <1>t DEF Released, Inv, Sound, StoreType, DeviceRecords
  <2> QED BY <2>1, <2>2, <1>n DEF NoNewActive
<1>6. ASSUME NEW c \in Codes, NEW i \in Installations, NEW k \in Keys, Activate(c, i, k)
      PROVE  \E a \in Codes :
                /\ disk.codes[a].status = "available"
                /\ disk.codes[a].license = LicenseOf(x)
                /\ disk'.codes[a].status = "consumed"
                /\ disk'.codes[a].device = x
  <2> DEFINE d == <<store.codes[c].license, i, k>>
  <2>1. /\ Commit(Activated(store, d, issued', c)) /\ up
        /\ store.codes[c].status = "available"
    BY <1>6 DEF Activate, CodeAccepted
  <2>2. LicenseOf(d) = store.codes[c].license BY DEF LicenseOf
  <2> HIDE DEF d
  <2>3. disk = store /\ disk' = Activated(store, d, issued', c)
    BY <2>1, CommitFromDisk
  <2> DEFINE n == Activated(store, d, issued', c)
  <2>4. \A y \in Devices : y # d => n.devices[y] = store.devices[y]
    BY <1>t DEF Activated, Inv, Sound, StoreType
  <2>5. n.codes[c].status = "consumed" /\ n.codes[c].device = d
    BY <1>t DEF Activated, Inv, Sound, StoreType, CodeRecords
  <2> HIDE DEF n
  <2>6. x = d BY <2>3, <2>4 DEF n
  <2> QED BY <2>1, <2>2, <2>3, <2>5, <2>6 DEF n
<1>7. ASSUME NEW d \in Devices, NEW t, Heartbeat(d, t) PROVE FALSE
  <2>1. disk = store /\ disk' = Renewed(store, d)
    BY <1>7, CommitFromDisk DEF Heartbeat
  <2>2. \A y \in Devices :
          /\ Renewed(store, d).devices[y].status = store.devices[y].status
          /\ Renewed(store, d).devices[y].token = store.devices[y].token
    BY <1>t DEF Renewed, Inv, Sound, StoreType, DeviceRecords
  <2> QED BY <2>1, <2>2, <1>n DEF NoNewActive
<1>8. CASE Crash \/ Restart \/ Tick \/ UNCHANGED vars
  <2>1. disk' = disk BY <1>8 DEF Crash, Restart, Tick, vars
  <2> QED BY <2>1, <1>n DEF NoNewActive
<1> QED
  BY <1>1, <1>2, <1>3, <1>4, <1>5, <1>6, <1>7, <1>8 DEF Next, Manage, Serve

\* No device is activated, and none is given a new token, for free: a lost
\* answer, a crash or a replayed request never activates twice for one code.
THEOREM ActivationsArePaid == Spec => ActivationSpendsCode
<1> DEFINE Paid == \A d \in Devices :
              /\ disk'.devices[d].status = "active"
              /\ \/ disk.devices[d].status # "active"
                 \/ disk'.devices[d].token # disk.devices[d].token
              => \E c \in Codes :
                    /\ disk.codes[c].status = "available"
                    /\ disk.codes[c].license = LicenseOf(d)
                    /\ disk'.codes[c].status = "consumed"
                    /\ disk'.codes[c].device = d
<1>1. Inv /\ [Next]_vars => [Paid]_vars
  BY ActivationPaid
<1> QED BY <1>1, InvHolds, PTL DEF Spec, ActivationSpendsCode

-----------------------------------------------------------------------------
(* The store implements SeatContract: what each operator does to licenses, *)
(* codes and seats, and then each action as a step of the contract.        *)

LEMMA CreatedEffect ==
    ASSUME NEW s \in StoreType, NEW l \in Licenses, NEW e, NEW lim, NEW c \in Codes
    PROVE  LET n == Created(s, l, e, lim, c)
           IN  /\ n.devices = s.devices
               /\ \A x \in Licenses :
                     /\ n.licenses[x].status = IF x = l THEN "active" ELSE s.licenses[x].status
                     /\ n.licenses[x].limit = IF x = l THEN lim ELSE s.licenses[x].limit
               /\ \A y \in Codes :
                     /\ n.codes[y].status = IF y = c THEN "available" ELSE s.codes[y].status
                     /\ n.codes[y].license = IF y = c THEN l ELSE s.codes[y].license
<1> DEFINE n == Created(s, l, e, lim, c)
           lrec == [status |-> "active", expires |-> e, limit |-> lim]
           crec == [status |-> "available", license |-> l, device |-> NoDevice]
<1>1. /\ n.devices = s.devices
      /\ n.licenses = [s.licenses EXCEPT ![l] = lrec]
      /\ n.codes = [s.codes EXCEPT ![c] = crec]
  BY DEF Created, WithCode, StoreType
<1> QED BY <1>1 DEF StoreType

LEMMA WithCodeEffect ==
    ASSUME NEW s \in StoreType, NEW l \in Licenses, NEW c \in Codes
    PROVE  LET n == WithCode(s, l, c)
           IN  /\ n.devices = s.devices /\ n.licenses = s.licenses
               /\ \A y \in Codes :
                     /\ n.codes[y].status = IF y = c THEN "available" ELSE s.codes[y].status
                     /\ n.codes[y].license = IF y = c THEN l ELSE s.codes[y].license
<1> DEFINE n == WithCode(s, l, c)
           crec == [status |-> "available", license |-> l, device |-> NoDevice]
<1>1. /\ n.devices = s.devices /\ n.licenses = s.licenses
      /\ n.codes = [s.codes EXCEPT ![c] = crec]
  BY DEF WithCode, StoreType
<1> QED BY <1>1 DEF StoreType

LEMMA UpdatedEffect ==
    ASSUME NEW s \in StoreType, NEW l \in Licenses, NEW e, NEW lim
    PROVE  LET n == Updated(s, l, e, lim)
           IN  /\ n.codes = s.codes
               /\ \A d \in Devices : n.devices[d].status = s.devices[d].status
               /\ \A x \in Licenses :
                     /\ n.licenses[x].status = s.licenses[x].status
                     /\ n.licenses[x].limit = IF x = l THEN lim ELSE s.licenses[x].limit
<1> DEFINE n == Updated(s, l, e, lim)
           lrec == [s.licenses[l] EXCEPT !.expires = e, !.limit = lim]
           devs == [d \in Devices |->
                      IF d \in ActiveDevices(s, l)
                      THEN [s.devices[d] EXCEPT !.lease = LeaseExpiry(e)] ELSE s.devices[d]]
<1>1. /\ n.codes = s.codes /\ n.devices = devs
      /\ n.licenses = [s.licenses EXCEPT ![l] = lrec]
  BY DEF Updated, StoreType
<1>2. \A x \in Licenses : s.licenses[x] \in LicenseRecords
  BY DEF StoreType
<1>3. \A d \in Devices : s.devices[d] \in DeviceRecords
  BY DEF StoreType
<1>4. lrec.status = s.licenses[l].status /\ lrec.limit = lim
  BY <1>2 DEF LicenseRecords
<1>5. \A d \in Devices : devs[d].status = s.devices[d].status
  BY <1>3 DEF DeviceRecords
<1> HIDE DEF lrec, devs, n
<1>6. \A x \in Licenses : n.licenses[x] = IF x = l THEN lrec ELSE s.licenses[x]
  BY <1>1 DEF StoreType
<1> QED BY <1>1, <1>4, <1>5, <1>6 DEF n

LEMMA ActivatedEffect ==
    ASSUME NEW s \in StoreType, NEW d \in Devices, NEW t, NEW c \in Codes
    PROVE  LET n == Activated(s, d, t, c)
           IN  /\ n.licenses = s.licenses
               /\ \A x \in Devices :
                     n.devices[x].status = IF x = d THEN "active" ELSE s.devices[x].status
               /\ \A y \in Codes :
                     /\ n.codes[y].status = IF y = c THEN "consumed" ELSE s.codes[y].status
                     /\ n.codes[y].license = s.codes[y].license
<1> DEFINE n == Activated(s, d, t, c)
           drec == [status |-> "active", token |-> t,
                    lease |-> LeaseExpiry(s.licenses[LicenseOf(d)].expires)]
           crec == [s.codes[c] EXCEPT !.status = "consumed", !.device = d]
<1>1. /\ n.licenses = s.licenses
      /\ n.devices = [s.devices EXCEPT ![d] = drec]
      /\ n.codes = [s.codes EXCEPT ![c] = crec]
  BY DEF Activated, StoreType
<1>2. crec.status = "consumed" /\ crec.license = s.codes[c].license
  BY DEF StoreType, CodeRecords
<1>3. drec.status = "active"
  OBVIOUS
<1> HIDE DEF n, drec, crec
<1>4. /\ \A x \in Devices : n.devices[x] = IF x = d THEN drec ELSE s.devices[x]
      /\ \A y \in Codes : n.codes[y] = IF y = c THEN crec ELSE s.codes[y]
  BY <1>1 DEF StoreType
<1> QED BY <1>1, <1>2, <1>3, <1>4 DEF n

LEMMA RevokedEffect ==
    ASSUME NEW s \in StoreType, NEW l \in Licenses
    PROVE  LET n == Revoked(s, l)
           IN  /\ n.codes = s.codes
               /\ \A d \in Devices :
                     n.devices[d].status = IF d \in ActiveDevices(s, l) THEN "revoked"
                                           ELSE s.devices[d].status
               /\ \A x \in Licenses :
                     /\ n.licenses[x].status = IF x = l THEN "revoked" ELSE s.licenses[x].status
                     /\ n.licenses[x].limit = s.licenses[x].limit
<1> DEFINE n == Revoked(s, l)
           lrec == [s.licenses[l] EXCEPT !.status = "revoked"]
           devs == [d \in Devices |->
                      IF d \in ActiveDevices(s, l)
                      THEN [s.devices[d] EXCEPT !.status = "revoked"] ELSE s.devices[d]]
<1>1. /\ n.codes = s.codes /\ n.devices = devs
      /\ n.licenses = [s.licenses EXCEPT ![l] = lrec]
  BY DEF Revoked, StoreType
<1>2. lrec.status = "revoked" /\ lrec.limit = s.licenses[l].limit
  BY DEF StoreType, LicenseRecords
<1>3. \A d \in Devices : devs[d].status = IF d \in ActiveDevices(s, l) THEN "revoked"
                                          ELSE s.devices[d].status
  BY DEF StoreType, DeviceRecords
<1> HIDE DEF lrec, devs, n
<1>4. \A x \in Licenses : n.licenses[x] = IF x = l THEN lrec ELSE s.licenses[x]
  BY <1>1 DEF StoreType
<1> QED BY <1>1, <1>2, <1>3, <1>4 DEF n

LEMMA ReleasedEffect ==
    ASSUME NEW s \in StoreType, NEW d \in Devices
    PROVE  LET n == Released(s, d)
           IN  /\ n.licenses = s.licenses /\ n.codes = s.codes
               /\ \A x \in Devices :
                     n.devices[x].status = IF x = d THEN "released" ELSE s.devices[x].status
<1> DEFINE n == Released(s, d)
           drec == [s.devices[d] EXCEPT !.status = "released", !.token = NoToken]
<1>1. /\ n.licenses = s.licenses /\ n.codes = s.codes
      /\ n.devices = [s.devices EXCEPT ![d] = drec]
  BY DEF Released, StoreType
<1>2. drec.status = "released"
  BY DEF StoreType, DeviceRecords
<1> HIDE DEF n, drec
<1>3. \A x \in Devices : n.devices[x] = IF x = d THEN drec ELSE s.devices[x]
  BY <1>1 DEF StoreType
<1> QED BY <1>1, <1>2, <1>3 DEF n

LEMMA RenewedEffect ==
    ASSUME NEW s \in StoreType, NEW d \in Devices
    PROVE  LET n == Renewed(s, d)
           IN  /\ n.licenses = s.licenses /\ n.codes = s.codes
               /\ \A x \in Devices : n.devices[x].status = s.devices[x].status
<1> DEFINE n == Renewed(s, d)
           drec == [s.devices[d] EXCEPT
                      !.lease = LeaseExpiry(s.licenses[LicenseOf(d)].expires)]
<1>1. /\ n.licenses = s.licenses /\ n.codes = s.codes
      /\ n.devices = [s.devices EXCEPT ![d] = drec]
  BY DEF Renewed, StoreType
<1>2. drec.status = s.devices[d].status
  BY DEF StoreType, DeviceRecords
<1> HIDE DEF n, drec
<1>3. \A x \in Devices : n.devices[x] = IF x = d THEN drec ELSE s.devices[x]
  BY <1>1 DEF StoreType
<1> QED BY <1>1, <1>2, <1>3 DEF n

\* The seats of a license are its active devices.
LEMMA SeatsAreActive ==
    ASSUME NEW l PROVE Contract!Seats(l) = ActiveDevices(disk, l)
BY DEF Contract!Seats, Seated, ActiveDevices, LicenseOf

LEMMA CountSeats ==
    ASSUME NEW l
    PROVE  Contract!Cardinality(Contract!Seats(l)) = Cardinality(ActiveDevices(disk, l))
<1>1. Contract!Cardinality(ActiveDevices(disk, l)) = Cardinality(ActiveDevices(disk, l))
  BY DEF Cardinality, Contract!Cardinality
<1> QED BY <1>1, SeatsAreActive

LEMMA SellStep ==
    ASSUME Inv, NEW l \in Licenses, NEW e, NEW lim \in Limits, NEW c \in Codes,
           CreateLicense(l, e, lim, c)
    PROVE  Contract!Sell(l, lim, c)
<1>1. disk \in StoreType /\ disk = store /\ disk' = Created(disk, l, e, lim, c)
  BY CommitFromDisk DEF CreateLicense, Inv, TypeOK
<1>2. disk.licenses[l].status = "none" /\ disk.codes[c].status = "none"
  BY <1>1 DEF CreateLicense
<1> HIDE DEF CreateLicense
<1>3. /\ disk'.devices = disk.devices
      /\ \A x \in Licenses :
            /\ disk'.licenses[x].status = IF x = l THEN "active" ELSE disk.licenses[x].status
            /\ disk'.licenses[x].limit = IF x = l THEN lim ELSE disk.licenses[x].limit
      /\ \A y \in Codes :
            /\ disk'.codes[y].status = IF y = c THEN "available" ELSE disk.codes[y].status
            /\ disk'.codes[y].license = IF y = c THEN l ELSE disk.codes[y].license
  BY <1>1, CreatedEffect
<1> QED BY <1>2, <1>3 DEF Contract!Sell, Status, Limit, Code, Seated, Known

LEMMA OfferStep ==
    ASSUME Inv, NEW l \in Licenses, NEW c \in Codes, IssueCode(l, c)
    PROVE  Contract!Offer(l, c)
<1>1. disk \in StoreType /\ disk = store /\ disk' = WithCode(disk, l, c)
  BY CommitFromDisk DEF IssueCode, Inv, TypeOK
<1>2. disk.licenses[l].status = "active" /\ disk.codes[c].status = "none"
  BY <1>1 DEF IssueCode, Usable
<1>3. /\ disk'.devices = disk.devices /\ disk'.licenses = disk.licenses
      /\ \A y \in Codes :
            /\ disk'.codes[y].status = IF y = c THEN "available" ELSE disk.codes[y].status
            /\ disk'.codes[y].license = IF y = c THEN l ELSE disk.codes[y].license
  BY <1>1, WithCodeEffect
<1> QED BY <1>2, <1>3 DEF Contract!Offer, Status, Limit, Code, Seated, Known

LEMMA ResizeStep ==
    ASSUME Inv, NEW l \in Licenses, NEW e, NEW lim \in Limits, UpdateLicense(l, e, lim)
    PROVE  Contract!Resize(l, lim)
<1>1. disk \in StoreType /\ disk = store /\ disk' = Updated(disk, l, e, lim)
  BY CommitFromDisk DEF UpdateLicense, Inv, TypeOK
<1>2. disk.licenses[l].status = "active" /\ Cardinality(ActiveDevices(disk, l)) <= lim
  BY <1>1, ActiveFinite, ConstantsAssumption DEF UpdateLicense
<1>3. /\ disk'.codes = disk.codes
      /\ \A d \in Devices : disk'.devices[d].status = disk.devices[d].status
      /\ \A x \in Licenses :
            /\ disk'.licenses[x].status = disk.licenses[x].status
            /\ disk'.licenses[x].limit = IF x = l THEN lim ELSE disk.licenses[x].limit
  BY <1>1, UpdatedEffect
<1>4. Contract!Cardinality(Contract!Seats(l)) <= lim
  BY <1>2, CountSeats
<1> QED BY <1>2, <1>3, <1>4 DEF Contract!Resize, Status, Limit, Code, Seated, Known

LEMMA RevokeStep ==
    ASSUME Inv, NEW l \in Licenses, RevokeLicense(l)
    PROVE  Contract!Revoke(l)
<1>1. disk \in StoreType /\ disk = store /\ disk' = Revoked(disk, l)
  BY CommitFromDisk DEF RevokeLicense, Inv, TypeOK
<1>2. disk.licenses[l].status = "active"
  BY <1>1 DEF RevokeLicense
<1>3. /\ disk'.codes = disk.codes
      /\ \A d \in Devices :
            disk'.devices[d].status = IF d \in ActiveDevices(disk, l) THEN "revoked"
                                      ELSE disk.devices[d].status
      /\ \A x \in Licenses :
            /\ disk'.licenses[x].status = IF x = l THEN "revoked" ELSE disk.licenses[x].status
            /\ disk'.licenses[x].limit = disk.licenses[x].limit
  BY <1>1, RevokedEffect
<1>4. Seated' = Seated \ Contract!Seats(l) /\ Known' = Known
  BY <1>3, SeatsAreActive DEF Seated, Known, ActiveDevices
<1> QED BY <1>2, <1>3, <1>4 DEF Contract!Revoke, Status, Limit, Code

LEMMA LeaveStep ==
    ASSUME Inv, NEW d \in Devices, ReleaseDevice(d)
    PROVE  Contract!Leave(d)
<1>1. disk \in StoreType /\ disk = store /\ disk' = Released(disk, d)
  BY CommitFromDisk DEF ReleaseDevice, Inv, TypeOK
<1>2. disk.devices[d].status # "none"
  BY <1>1 DEF ReleaseDevice
<1>3. /\ disk'.licenses = disk.licenses /\ disk'.codes = disk.codes
      /\ \A x \in Devices :
            disk'.devices[x].status = IF x = d THEN "released" ELSE disk.devices[x].status
  BY <1>1, ReleasedEffect
<1> QED BY <1>2, <1>3 DEF Contract!Leave, Status, Limit, Code, Seated, Known

LEMMA TakeStep ==
    ASSUME Inv, NEW c \in Codes, NEW i \in Installations, NEW k \in Keys, Activate(c, i, k)
    PROVE  Contract!Take(c, <<disk.codes[c].license, i, k>>)
           /\ <<disk.codes[c].license, i, k>> \in Devices
<1> DEFINE d == <<disk.codes[c].license, i, k>>
<1>1. disk \in StoreType /\ disk = store /\ Sound(disk)
  BY CommitFromDisk DEF Activate, Inv, TypeOK
<1>2. /\ disk' = Activated(disk, d, issued', c)
      /\ disk.codes[c].status = "available"
      /\ Usable(disk, LicenseOf(d)) /\ HasRoom(disk, d)
      /\ ~InstallationConflict(disk, i, k)
  BY <1>1, CommitFromDisk DEF Activate, CodeAccepted
<1>3. d \in Devices
  BY <1>1, <1>2 DEF Sound, Loadable, Devices
<1>4. d[1] = disk.codes[c].license /\ d[2] = i /\ d[3] = k /\ LicenseOf(d) = d[1]
  BY DEF LicenseOf
<1> HIDE DEF d
<1>5. /\ disk'.licenses = disk.licenses
      /\ \A x \in Devices :
            disk'.devices[x].status = IF x = d THEN "active" ELSE disk.devices[x].status
      /\ \A y \in Codes :
            /\ disk'.codes[y].status = IF y = c THEN "consumed" ELSE disk.codes[y].status
            /\ disk'.codes[y].license = disk.codes[y].license
  BY <1>1, <1>2, <1>3, ActivatedEffect
<1>6. Code[c] = <<"available", d[1]>> /\ Status[d[1]] = "active"
  <2>1. d[1] \in Licenses
    BY <1>3 DEF Devices
  <2> QED BY <1>2, <1>4, <2>1 DEF Code, Status, Usable
<1>7. \A x \in Known : x[2] = d[2] => x[3] = d[3]
  BY <1>2, <1>4 DEF Known, InstallationConflict, InstallationOf, KeyOf
<1>8. d \notin Seated => Contract!Cardinality(Contract!Seats(d[1])) < Limit[d[1]]
  <2>1. d[1] \in Licenses
    BY <1>3 DEF Devices
  <2> QED BY <1>2, <1>3, <1>4, <2>1, CountSeats DEF HasRoom, Seated, Limit
<1>9. /\ Code' = [Code EXCEPT ![c] = <<"consumed", d[1]>>]
      /\ Seated' = Seated \cup {d} /\ Known' = Known \cup {d}
      /\ UNCHANGED <<Status, Limit>>
  <2>1. Seated' = Seated \cup {d} /\ Known' = Known \cup {d}
    BY <1>3, <1>5 DEF Seated, Known
  <2>2. Code' = [Code EXCEPT ![c] = <<"consumed", d[1]>>]
    BY <1>4, <1>5 DEF Code
  <2> QED BY <1>5, <2>1, <2>2 DEF Status, Limit
<1>10. Contract!Take(c, d)
  BY <1>6, <1>7, <1>8, <1>9 DEF Contract!Take
<1> QED BY <1>3, <1>10 DEF d

\* A step that leaves the seats and codes of the file alone.
LEMMA NoSeatMoves ==
    ASSUME disk'.licenses = disk.licenses, disk'.codes = disk.codes,
           \A x \in Devices : disk'.devices[x].status = disk.devices[x].status
    PROVE  UNCHANGED Contract!contractVars
BY DEF Contract!contractVars, Status, Limit, Code, Seated, Known

LEMMA StepImplements ==
    ASSUME Inv, [Next]_vars PROVE [Contract!Next]_Contract!contractVars
<1>1. ASSUME NEW l \in Licenses, NEW e \in Expiries, NEW lim \in Limits, NEW c \in Codes,
             CreateLicense(l, e, lim, c)
      PROVE  Contract!Next
  BY <1>1, SellStep DEF Contract!Next
<1>2. ASSUME NEW l \in Licenses, NEW e \in Expiries, NEW lim \in Limits,
             UpdateLicense(l, e, lim)
      PROVE  Contract!Next
  BY <1>2, ResizeStep DEF Contract!Next
<1>3. ASSUME NEW l \in Licenses, NEW c \in Codes, IssueCode(l, c) PROVE Contract!Next
  BY <1>3, OfferStep DEF Contract!Next
<1>4. ASSUME NEW l \in Licenses, RevokeLicense(l) PROVE Contract!Next
  BY <1>4, RevokeStep DEF Contract!Next
<1>5. ASSUME NEW d \in Devices, ReleaseDevice(d) PROVE Contract!Next
  BY <1>5, LeaveStep DEF Contract!Next
<1>6. ASSUME NEW c \in Codes, NEW i \in Installations, NEW k \in Keys, Activate(c, i, k)
      PROVE  Contract!Next
  BY <1>6, TakeStep DEF Contract!Next
<1>7. ASSUME NEW d \in Devices, NEW t \in 1 .. MaxTokens, Heartbeat(d, t)
      PROVE  UNCHANGED Contract!contractVars
  <2>1. disk \in StoreType /\ disk' = Renewed(disk, d)
    BY <1>7, CommitFromDisk DEF Heartbeat, Inv, TypeOK
  <2> QED BY <2>1, RenewedEffect, NoSeatMoves
<1>8. CASE Crash \/ Restart \/ Tick \/ UNCHANGED vars
  <2>1. disk' = disk
    BY <1>8 DEF Crash, Restart, Tick, vars
  <2> QED BY <2>1, NoSeatMoves
<1> QED
  BY <1>1, <1>2, <1>3, <1>4, <1>5, <1>6, <1>7, <1>8 DEF Next, Manage, Serve

\* Every call of the store takes effect at one instant, as the contract of
\* seats and codes allows, whenever the process dies and starts again.
THEOREM KeepsContract == Spec => ImplementsContract
<1>1. Init => Contract!Init
  BY DEF Init, EmptyStore, Contract!Init, Status, Limit, Code, Seated, Known
<1>2. Inv /\ [Next]_vars => [Contract!Next]_Contract!contractVars
  BY StepImplements
<1> QED BY <1>1, <1>2, InvHolds, PTL DEF Spec, ImplementsContract, Contract!Spec

-----------------------------------------------------------------------------
(* The clients.  Whatever credential a client has saved, or is about to    *)
(* save, was written by the manager, and its lease is at most one lease    *)
(* away from now or, once the credential is lost, from that moment.        *)

\* Of the store s with tokens 1 .. given at a time, where lost tells when each
\* device last lost its credential.
Held(s, given, time, lost, i, d, t, lease) ==
    /\ d \in Devices /\ InstallationOf(d) = i /\ t \in 1 .. given
    /\ s.devices[d].status # "none"
    /\ lease <= time + Lease
    /\ \/ s.devices[d].status = "active" /\ s.devices[d].token = t
       \/ lease <= lost[d] + Lease

HeldNow(i, d, t, lease) == Held(disk, issued, now, lostAt, i, d, t, lease)

\* A client and the call it has in progress.
ClientHolds(i) ==
    /\ saved[i].device # NoDevice =>
          HeldNow(i, saved[i].device, saved[i].token, saved[i].lease)
    /\ answer[i].op = "granted" =>
          HeldNow(i, answer[i].device, answer[i].token, answer[i].lease)
    /\ answer[i].op = "renewed" =>
          /\ saved[i].device # NoDevice
          /\ HeldNow(i, saved[i].device, saved[i].token, answer[i].lease)
    /\ pending[i] # Nothing => answer[i] = Nothing /\ pending[i].from = i
    /\ pending[i].op = "heartbeat" =>
          /\ saved[i].device # NoDevice
          /\ pending[i].device = saved[i].device /\ pending[i].token = saved[i].token

CredentialsHeld ==
    /\ \A d \in Devices : lostAt[d] <= now
    /\ \A i \in Installations : ClientHolds(i)

ClientInv == Inv /\ ClientTypeOK /\ CredentialsHeld

\* No step takes a device off the file.
LEMMA DevicesKept ==
    ASSUME Inv, [Next]_vars, NEW x \in Devices, disk.devices[x].status # "none"
    PROVE  disk'.devices[x].status # "none"
<1>t. store.devices \in [Devices -> DeviceRecords]
  BY DEF Inv, Sound, StoreType
<1>1. ASSUME NEW l, NEW e, NEW lim, NEW c, CreateLicense(l, e, lim, c)
      PROVE  disk'.devices[x].status # "none"
  <2>1. disk = store /\ disk' = Created(store, l, e, lim, c)
    BY <1>1, CommitFromDisk DEF CreateLicense
  <2>2. Created(store, l, e, lim, c).devices = store.devices
    BY DEF Created, WithCode, Inv, Sound, StoreType
  <2> QED BY <2>1, <2>2
<1>2. ASSUME NEW l, NEW e, NEW lim, UpdateLicense(l, e, lim)
      PROVE  disk'.devices[x].status # "none"
  <2>1. disk = store /\ disk' = Updated(store, l, e, lim)
    BY <1>2, CommitFromDisk DEF UpdateLicense
  <2>2. Updated(store, l, e, lim).devices[x].status = store.devices[x].status
    BY <1>t DEF Updated, Inv, Sound, StoreType, DeviceRecords
  <2> QED BY <2>1, <2>2
<1>3. ASSUME NEW l, NEW c, IssueCode(l, c)
      PROVE  disk'.devices[x].status # "none"
  <2>1. disk = store /\ disk' = WithCode(store, l, c)
    BY <1>3, CommitFromDisk DEF IssueCode
  <2>2. WithCode(store, l, c).devices = store.devices
    BY DEF WithCode, Inv, Sound, StoreType
  <2> QED BY <2>1, <2>2
<1>4. ASSUME NEW l, RevokeLicense(l)
      PROVE  disk'.devices[x].status # "none"
  <2>1. disk = store /\ disk' = Revoked(store, l)
    BY <1>4, CommitFromDisk DEF RevokeLicense
  <2>2. Revoked(store, l).devices[x].status \in {store.devices[x].status, "revoked"}
    BY <1>t DEF Revoked, Inv, Sound, StoreType, DeviceRecords
  <2> QED BY <2>1, <2>2
<1>5. ASSUME NEW d \in Devices, ReleaseDevice(d)
      PROVE  disk'.devices[x].status # "none"
  <2>1. disk = store /\ disk' = Released(store, d)
    BY <1>5, CommitFromDisk DEF ReleaseDevice
  <2>2. Released(store, d).devices[x].status \in {store.devices[x].status, "released"}
    BY <1>t DEF Released, Inv, Sound, StoreType, DeviceRecords
  <2> QED BY <2>1, <2>2
<1>6. ASSUME NEW c \in Codes, NEW i, NEW k, Activate(c, i, k)
      PROVE  disk'.devices[x].status # "none"
  <2> DEFINE d == <<store.codes[c].license, i, k>>
  <2>1. Commit(Activated(store, d, issued', c)) /\ up
    BY <1>6 DEF Activate
  <2> HIDE DEF d
  <2>2. disk = store /\ disk' = Activated(store, d, issued', c)
    BY <2>1, CommitFromDisk
  <2>3. Activated(store, d, issued', c).devices[x].status \in {store.devices[x].status, "active"}
    BY <1>t DEF Activated, Inv, Sound, StoreType, DeviceRecords
  <2> QED BY <2>2, <2>3
<1>7. ASSUME NEW d \in Devices, NEW t, Heartbeat(d, t)
      PROVE  disk'.devices[x].status # "none"
  <2>1. disk = store /\ disk' = Renewed(store, d)
    BY <1>7, CommitFromDisk DEF Heartbeat
  <2>2. Renewed(store, d).devices[x].status = store.devices[x].status
    BY <1>t DEF Renewed, Inv, Sound, StoreType, DeviceRecords
  <2> QED BY <2>1, <2>2
<1>8. CASE Crash \/ Restart \/ Tick \/ UNCHANGED vars
  BY <1>8 DEF Crash, Restart, Tick, vars
<1> QED
  BY <1>1, <1>2, <1>3, <1>4, <1>5, <1>6, <1>7, <1>8 DEF Next, Manage, Serve

\* Tokens and time only grow.
LEMMA CountersGrow ==
    ASSUME Inv, [Next]_vars
    PROVE  issued <= issued' /\ now <= now'
<1>1. issued \in Nat /\ now \in Nat
  BY DEF Inv, TypeOK, Times
<1>2. ASSUME Manage PROVE UNCHANGED <<issued, now>>
  BY <1>2 DEF Manage, CreateLicense, UpdateLicense, IssueCode, RevokeLicense, ReleaseDevice
<1>3. ASSUME Serve PROVE issued' \in {issued, issued + 1} /\ UNCHANGED now
  BY <1>3 DEF Serve, Activate, Heartbeat
<1>4. ASSUME Crash \/ Restart \/ Tick \/ UNCHANGED vars
      PROVE  UNCHANGED issued /\ now' \in {now, now + 1}
  BY <1>4 DEF Crash, Restart, Tick, vars
<1> QED BY <1>1, <1>2, <1>3, <1>4 DEF Next

LEMMA LaterBound ==
    \A x, y, z, w \in Int : w <= x + z /\ x <= y => w <= y + z
  OBVIOUS

\* What ManagerStep adds to a step of the store.
LossNoted ==
    lostAt' = [d \in Devices |->
          IF /\ disk.devices[d].status = "active"
             /\ \/ disk'.devices[d].status # "active"
                \/ disk'.devices[d].token # disk.devices[d].token
          THEN now ELSE lostAt[d]]

\* A step of the store leaves a held credential held: if it is lost, then now.
LEMMA StaysHeld ==
    ASSUME ClientInv, Inv', [Next]_vars, LossNoted,
           NEW i, NEW d, NEW t, NEW lease \in Int, HeldNow(i, d, t, lease)
    PROVE  Held(disk', issued', now', lostAt', i, d, t, lease)
<1>1. /\ d \in Devices /\ InstallationOf(d) = i /\ t \in 1 .. issued
      /\ disk.devices[d].status # "none" /\ lease <= now + Lease
      /\ \/ disk.devices[d].status = "active" /\ disk.devices[d].token = t
         \/ lease <= lostAt[d] + Lease
  BY DEF HeldNow, Held
<1>2. /\ issued \in Nat /\ issued' \in Nat /\ now \in Nat /\ now' \in Nat
      /\ issued <= issued' /\ now <= now' /\ Lease \in Nat
  BY CountersGrow, ConstantsAssumption DEF ClientInv, Inv, TypeOK, Times
<1>3. t \in 1 .. issued' /\ lease <= now' + Lease
  <2>1. t \in 1 .. issued'
    <3>1. t \in Int /\ 1 <= t /\ t <= issued
      BY <1>1, <1>2
    <3> QED BY <3>1, <1>2
  <2>2. lease <= now' + Lease
    <3>1. lease <= now + Lease
      BY <1>1
    <3>2. now \in Int /\ now' \in Int /\ Lease \in Int /\ now <= now'
      BY <1>2
    <3> QED BY <3>1, <3>2, LaterBound
  <2> QED BY <2>1, <2>2
<1>4. disk'.devices[d].status # "none"
  BY <1>1, DevicesKept DEF ClientInv
<1>5. lostAt[d] \in Int /\ lostAt[d] <= now
  BY <1>1 DEF ClientInv, ClientTypeOK, CredentialsHeld, Expiries, Times, Never
<1>6. lostAt'[d] = IF /\ disk.devices[d].status = "active"
                      /\ \/ disk'.devices[d].status # "active"
                         \/ disk'.devices[d].token # disk.devices[d].token
                   THEN now ELSE lostAt[d]
  BY <1>1 DEF LossNoted
<1>7. \/ disk'.devices[d].status = "active" /\ disk'.devices[d].token = t
      \/ lease <= lostAt'[d] + Lease
  BY <1>1, <1>2, <1>5, <1>6
<1> QED BY <1>1, <1>3, <1>4, <1>7 DEF Held

\* Times of losses stay times that have passed.
LEMMA LossesPassed ==
    ASSUME ClientInv, Inv', [Next]_vars, LossNoted
    PROVE  lostAt' \in [Devices -> Expiries] /\ \A d \in Devices : lostAt'[d] <= now'
<1>1. now \in Times /\ now \in Nat /\ now' \in Nat /\ now <= now'
  BY CountersGrow DEF ClientInv, Inv, TypeOK, Times
<1>2. \A d \in Devices : lostAt[d] \in Expiries /\ lostAt[d] \in Int /\ lostAt[d] <= now
  BY DEF ClientInv, ClientTypeOK, CredentialsHeld, Expiries, Times, Never
<1> QED BY <1>1, <1>2 DEF LossNoted, Expiries

\* A client none of whose variables change.
LEMMA ClientKept ==
    ASSUME ClientInv, Inv', [Next]_vars, LossNoted \/ UNCHANGED <<vars, lostAt>>,
           NEW i \in Installations,
           saved'[i] = saved[i], answer'[i] = answer[i], pending'[i] = pending[i]
    PROVE  ClientHolds(i)'
<1>1. /\ ClientHolds(i) /\ saved[i].lease \in Int
      /\ answer[i].op \in {"granted", "renewed"} => answer[i].lease \in Int
  BY ConstantsAssumption DEF ClientInv, CredentialsHeld, ClientTypeOK, Answers, Nothing, Error, Leases
<1>2. CASE LossNoted
  BY <1>1, <1>2, StaysHeld DEF ClientHolds, HeldNow
<1>3. CASE UNCHANGED <<vars, lostAt>>
  BY <1>1, <1>3 DEF ClientHolds, HeldNow, Held, vars
<1> QED BY <1>2, <1>3

\* The calls that a client's request leads to are calls of the store.
LEMMA AcceptIsStep ==
    ASSUME ClientInv, NEW r \in Requests, Accept(r)
    PROVE  Next /\ LossNoted
<1>1. CASE r.op = "activate"
  <2>1. Activate(r.code, r.from, KeyFor[r.from]) /\ LossNoted
    BY <1>1 DEF Accept, ManagerStep, LossNoted
  <2>2. r.code \in Codes /\ r.from \in Installations /\ KeyFor[r.from] \in Keys
    BY <1>1, ClientAssumption DEF Requests
  <2> QED BY <2>1, <2>2 DEF Next, Serve
<1>2. CASE r.op = "heartbeat"
  <2>1. Heartbeat(r.device, r.token) /\ LossNoted
    BY <1>2 DEF Accept, ManagerStep, LossNoted
  <2>2. r.device \in Devices /\ r.token \in 1 .. MaxTokens
    BY <1>2 DEF Requests
  <2> QED BY <2>1, <2>2 DEF Next, Serve
<1> QED BY <1>1, <1>2 DEF Requests

\* Every step of the clients and the manager is one of the store, or none.
LEMMA ClientStep ==
    ASSUME ClientInv, [ClientNext]_allVars
    PROVE  [Next]_vars /\ (LossNoted \/ UNCHANGED <<vars, lostAt>>)
<1>1. ASSUME Manager PROVE Next /\ LossNoted
  BY <1>1 DEF Manager, ManagerStep, LossNoted, Next
<1>2. ASSUME NEW i \in Installations, AcceptRequest(i) PROVE Next /\ LossNoted
  <2>1. pending[i] \in Requests
    BY <1>2 DEF AcceptRequest, ClientInv, ClientTypeOK
  <2> QED BY <1>2, <2>1, AcceptIsStep DEF AcceptRequest
<1>3. ASSUME NEW i \in Installations, NEW c \in Codes, StartActivate(i, c)
      PROVE  UNCHANGED <<vars, lostAt>>
  BY <1>3 DEF StartActivate, Ask
<1>4. ASSUME NEW i \in Installations,
             \/ StartHeartbeat(i) \/ RefuseHeartbeat(i) \/ AnswerError(i)
             \/ Receive(i) \/ LoseAnswer(i) \/ GiveUp(i)
      PROVE  UNCHANGED <<vars, lostAt>>
  BY <1>4 DEF StartHeartbeat, Ask, RefuseHeartbeat, AnswerError, Receive, LoseAnswer, GiveUp
<1>5. ASSUME NEW r \in orphans, ServeOrphan(r) PROVE Next /\ LossNoted
  <2>1. r \in Requests
    BY DEF ClientInv, ClientTypeOK
  <2> QED BY <1>5, <2>1, AcceptIsStep DEF ServeOrphan
<1>6. CASE UNCHANGED allVars
  BY <1>6 DEF allVars
<1> QED BY <1>1, <1>2, <1>3, <1>4, <1>5, <1>6 DEF ClientNext, Client

\* What an activation grants: its own device, a new token, one lease.
LEMMA GrantHeld ==
    ASSUME ClientInv, Inv', NEW i \in Installations, NEW c \in Codes,
           Activate(c, i, KeyFor[i]), up',
           NEW d, d = <<store.codes[c].license, i, KeyFor[i]>>
    PROVE  /\ d \in Devices /\ issued' \in 1 .. MaxTokens
           /\ store'.devices[d].lease \in Leases
           /\ store'.licenses[LicenseOf(d)].expires \in Expiries
           /\ Held(disk', issued', now', lostAt', i, d, issued', store'.devices[d].lease)
<1>t. /\ store.devices \in [Devices -> DeviceRecords] /\ store' \in StoreType
      /\ store.licenses \in [Licenses -> LicenseRecords]
      /\ issued \in 0 .. MaxTokens /\ now \in Times
  BY DEF ClientInv, Inv, Sound, StoreType, TypeOK
<1>1. /\ up /\ store.codes[c].status = "available" /\ issued' = issued + 1
      /\ issued < MaxTokens /\ now' = now /\ Commit(Activated(store, d, issued', c))
  BY DEF Activate, CodeAccepted
<1>2. store.codes[c].license \in Licenses
  BY <1>1 DEF ClientInv, Inv, Sound, Loadable
<1>3. d \in Devices /\ InstallationOf(d) = i /\ LicenseOf(d) \in Licenses
  BY <1>2, ClientAssumption DEF Devices, InstallationOf, LicenseOf
<1>4. store' = Activated(store, d, issued', c) /\ disk' = store'
  BY <1>1 DEF Commit
<1>5. issued' \in 1 .. MaxTokens /\ issued' \in 1 .. issued'
  BY <1>t, <1>1, ConstantsAssumption
<1> DEFINE e == store.licenses[LicenseOf(d)].expires
           rec == [status |-> "active", token |-> issued', lease |-> LeaseExpiry(e)]
<1>6. store'.devices = [store.devices EXCEPT ![d] = rec]
  BY <1>4 DEF Activated, ClientInv, Inv, Sound, StoreType
<1>7. store'.devices[d] = rec
  BY <1>t, <1>3, <1>6
<1>8. e \in Expiries
  BY <1>t, <1>3 DEF LicenseRecords
<1>9. LeaseExpiry(e) \in Leases /\ LeaseExpiry(e) <= now + Lease
  BY <1>t, <1>8, ConstantsAssumption DEF LeaseExpiry, Leases, Expiries, Times, Never
<1>10. store'.licenses[LicenseOf(d)].expires \in Expiries
  BY <1>t, <1>3 DEF StoreType, LicenseRecords
<1> QED BY <1>1, <1>3, <1>4, <1>5, <1>7, <1>9, <1>10 DEF Held

\* What a heartbeat renews: the credential it was sent with, by one lease.
LEMMA RenewalHeld ==
    ASSUME ClientInv, Inv', NEW d \in Devices, NEW t \in 1 .. issued, Heartbeat(d, t), up'
    PROVE  /\ store'.devices[d].lease \in Leases
           /\ store'.licenses[LicenseOf(d)].expires \in Expiries
           /\ Held(disk', issued', now', lostAt', InstallationOf(d), d, t,
                   store'.devices[d].lease)
<1>t. /\ store.devices \in [Devices -> DeviceRecords] /\ store' \in StoreType
      /\ store.licenses \in [Licenses -> LicenseRecords] /\ now \in Times
      /\ LicenseOf(d) \in Licenses
  BY DeviceParts DEF ClientInv, Inv, Sound, StoreType, TypeOK
<1>1. /\ store.devices[d].token = t /\ store.devices[d].status = "active"
      /\ issued' = issued /\ now' = now /\ Commit(Renewed(store, d))
  BY DEF Heartbeat, CredentialValid
<1>2. store' = Renewed(store, d) /\ disk' = store'
  BY <1>1 DEF Commit
<1> DEFINE e == store.licenses[LicenseOf(d)].expires
<1>3. store'.devices = [store.devices EXCEPT ![d].lease = LeaseExpiry(e)]
  BY <1>2 DEF Renewed, ClientInv, Inv, Sound, StoreType
<1>4. /\ store'.devices[d].lease = LeaseExpiry(e)
      /\ store'.devices[d].status = "active" /\ store'.devices[d].token = t
  BY <1>t, <1>1, <1>3 DEF DeviceRecords
<1>5. e \in Expiries
  BY <1>t DEF LicenseRecords
<1>6. LeaseExpiry(e) \in Leases /\ LeaseExpiry(e) <= now + Lease
  BY <1>t, <1>5, ConstantsAssumption DEF LeaseExpiry, Leases, Expiries, Times, Never
<1>7. store'.licenses[LicenseOf(d)].expires \in Expiries
  BY <1>t DEF StoreType, LicenseRecords
<1> QED BY <1>1, <1>2, <1>4, <1>6, <1>7 DEF Held

\* A step that keeps what every client holds.
LEMMA AllClients ==
    ASSUME ClientInv, Inv', [Next]_vars, LossNoted \/ UNCHANGED <<vars, lostAt>>,
           \A j \in Installations : ClientHolds(j)', ClientTypeOK'
    PROVE  ClientInv'
<1>1. \A d \in Devices : lostAt'[d] <= now'
  <2>1. CASE LossNoted
    BY <2>1, LossesPassed
  <2>2. CASE UNCHANGED <<vars, lostAt>>
    BY <2>2 DEF vars, ClientInv, CredentialsHeld
  <2> QED BY <2>1, <2>2
<1> QED BY <1>1 DEF ClientInv, CredentialsHeld

\* A step of one client.
LEMMA OneClient ==
    ASSUME ClientInv, Inv', [Next]_vars, LossNoted \/ UNCHANGED <<vars, lostAt>>,
           NEW i \in Installations, ClientHolds(i)', ClientTypeOK',
           \A j \in Installations \ {i} :
              saved'[j] = saved[j] /\ answer'[j] = answer[j] /\ pending'[j] = pending[j]
    PROVE  ClientInv'
<1>1. ASSUME NEW j \in Installations PROVE ClientHolds(j)'
  <2>1. CASE j = i
    BY <2>1
  <2>2. CASE j # i
    BY <2>2, ClientKept
  <2> QED BY <2>1, <2>2
<1> QED BY <1>1, AllClients

\* Times of losses keep their type.
LEMMA LostTyped ==
    ASSUME ClientInv, Inv', [Next]_vars, LossNoted \/ UNCHANGED <<vars, lostAt>>
    PROVE  lostAt' \in [Devices -> Expiries]
BY LossesPassed DEF ClientInv, ClientTypeOK

\* The parts of a request and of an answer.
LEMMA Shapes ==
    /\ \A r \in Requests : r # Nothing /\ r.op \in {"activate", "heartbeat"}
    /\ \A a \in Answers : a.op \in {"none", "error", "granted", "renewed", "refused"}
    /\ Nothing.op = "none" /\ Error.op = "error" /\ Error # Nothing
BY DEF Requests, Answers, Nothing, Error

LEMMA AskPreserves ==
    ASSUME ClientInv, Inv', [Next]_vars, NEW i \in Installations, NEW r \in Requests, Ask(i, r),
           r.from = i,
           r.op = "heartbeat" =>
              /\ saved[i].device # NoDevice
              /\ r.device = saved[i].device /\ r.token = saved[i].token
    PROVE  ClientInv'
<1>1. /\ pending' = [pending EXCEPT ![i] = r] /\ pending[i] = Nothing /\ answer[i] = Nothing
      /\ UNCHANGED <<vars, saved, answer, orphans, lostAt>>
  BY DEF Ask, Idle
<1>2. ClientTypeOK'
  BY <1>1 DEF ClientInv, ClientTypeOK
<1>3. pending'[i] = r
  BY <1>1 DEF ClientInv, ClientTypeOK
<1>4. ClientHolds(i)
  BY DEF ClientInv, CredentialsHeld
<1>5. ClientHolds(i)'
  BY <1>1, <1>3, <1>4 DEF ClientHolds, HeldNow, Held, vars
<1>6. \A j \in Installations \ {i} :
         saved'[j] = saved[j] /\ answer'[j] = answer[j] /\ pending'[j] = pending[j]
  BY <1>1 DEF ClientInv, ClientTypeOK
<1> QED BY <1>1, <1>2, <1>5, <1>6, OneClient

\* A request that is answered without a step of the store.
LEMMA AnswerPreserves ==
    ASSUME ClientInv, Inv', [Next]_vars, NEW i \in Installations, NEW a \in Answers,
           a.op \in {"error", "refused"}, Answered(i, a), UNCHANGED <<vars, lostAt>>
    PROVE  ClientInv'
<1>1. /\ pending' = [pending EXCEPT ![i] = Nothing] /\ answer' = [answer EXCEPT ![i] = a]
      /\ UNCHANGED <<saved, orphans>>
  BY DEF Answered
<1>2. ClientTypeOK'
  BY <1>1 DEF ClientInv, ClientTypeOK
<1>3. pending'[i] = Nothing /\ answer'[i] = a
  BY <1>1 DEF ClientInv, ClientTypeOK
<1>4. ClientHolds(i)
  BY DEF ClientInv, CredentialsHeld
<1>5. ClientHolds(i)'
  BY <1>1, <1>3, <1>4, Shapes DEF ClientHolds, HeldNow, Held, vars
<1>6. \A j \in Installations \ {i} :
         saved'[j] = saved[j] /\ answer'[j] = answer[j] /\ pending'[j] = pending[j]
  BY <1>1 DEF ClientInv, ClientTypeOK
<1> QED BY <1>2, <1>5, <1>6, OneClient

LEMMA AcceptPreserves ==
    ASSUME ClientInv, Inv', [Next]_vars, LossNoted, NEW i \in Installations, AcceptRequest(i)
    PROVE  ClientInv'
<1>0. PICK r \in Requests : r = pending[i]
  BY DEF AcceptRequest, ClientInv, ClientTypeOK
<1> DEFINE a == Reply(r)
<1>1. /\ Accept(r) /\ pending' = [pending EXCEPT ![i] = Nothing]
      /\ answer' = [answer EXCEPT ![i] = a] /\ UNCHANGED <<saved, orphans>>
  BY <1>0 DEF AcceptRequest, Answered
<1>2. /\ r.from = i /\ ClientHolds(i)
      /\ r.op = "heartbeat" => /\ saved[i].device # NoDevice
                               /\ r.device = saved[i].device /\ r.token = saved[i].token
  BY <1>0, Shapes DEF ClientInv, CredentialsHeld, ClientHolds
<1>3. saved[i].device # NoDevice =>
          Held(disk', issued', now', lostAt', i, saved[i].device, saved[i].token, saved[i].lease)
  <2>1. saved[i].lease \in Int
    BY ConstantsAssumption DEF ClientInv, ClientTypeOK, Leases
  <2> QED BY <1>2, <2>1, StaysHeld DEF ClientHolds
<1>4. /\ a \in Answers
      /\ a.op = "granted" => Held(disk', issued', now', lostAt', i, a.device, a.token, a.lease)
      /\ a.op = "renewed" => /\ saved[i].device # NoDevice
                             /\ Held(disk', issued', now', lostAt', i, saved[i].device,
                                     saved[i].token, a.lease)
  <2>1. CASE ~up'
    BY <2>1, Shapes DEF Reply, Answers
  <2>2. CASE up' /\ r.op = "activate"
    <3>1. r.code \in Codes /\ Activate(r.code, i, KeyFor[i])
      BY <1>1, <1>2, <2>2 DEF Requests, Accept, ManagerStep
    <3>2. PICK d : d = <<store.codes[r.code].license, i, KeyFor[i]>>
      OBVIOUS
    <3>3. a = [op |-> "granted", device |-> d, token |-> issued',
               lease |-> store'.devices[d].lease,
               expires |-> store'.licenses[LicenseOf(d)].expires]
      BY <1>2, <2>2, <3>2 DEF Reply
    <3> QED BY <2>2, <3>1, <3>2, <3>3, GrantHeld DEF Answers
  <2>3. CASE up' /\ r.op = "heartbeat"
    <3>1. PICK d, t : d = r.device /\ t = r.token
      OBVIOUS
    <3>2. d \in Devices /\ Heartbeat(d, t)
      BY <1>1, <2>3, <3>1 DEF Requests, Accept, ManagerStep
    <3>3. t \in 1 .. issued /\ InstallationOf(d) = i
      BY <1>2, <2>3, <3>1 DEF ClientHolds, HeldNow, Held
    <3>4. a = [op |-> "renewed", lease |-> store'.devices[d].lease,
               expires |-> store'.licenses[LicenseOf(d)].expires]
      BY <2>3, <3>1 DEF Reply
    <3> QED BY <1>2, <2>3, <3>1, <3>2, <3>3, <3>4, RenewalHeld DEF Answers
  <2> QED BY <2>1, <2>2, <2>3, Shapes
<1> HIDE DEF a
<1>5. pending'[i] = Nothing /\ answer'[i] = a
  BY <1>1 DEF ClientInv, ClientTypeOK
<1>6. ClientHolds(i)'
  BY <1>1, <1>3, <1>4, <1>5, Shapes DEF ClientHolds, HeldNow
<1>7. ClientTypeOK'
  BY <1>1, <1>4, LostTyped DEF ClientInv, ClientTypeOK
<1>8. \A j \in Installations \ {i} :
         saved'[j] = saved[j] /\ answer'[j] = answer[j] /\ pending'[j] = pending[j]
  BY <1>1 DEF ClientInv, ClientTypeOK
<1> QED BY <1>6, <1>7, <1>8, OneClient

LEMMA ReceivePreserves ==
    ASSUME ClientInv, Inv', [Next]_vars, NEW i \in Installations, Receive(i)
    PROVE  ClientInv'
<1> DEFINE a == answer[i]
           s == saved[i]
<1>1. /\ saved' = [saved EXCEPT ![i] = Learn(s, a)]
      /\ answer' = [answer EXCEPT ![i] = Nothing] /\ a # Nothing
      /\ UNCHANGED <<vars, pending, orphans, lostAt>>
  BY DEF Receive
<1>2. /\ saved'[i] = Learn(s, a) /\ answer'[i] = Nothing /\ pending'[i] = Nothing
  BY <1>1 DEF ClientInv, ClientTypeOK, CredentialsHeld, ClientHolds
<1>3. ClientHolds(i) /\ a \in Answers
  BY DEF ClientInv, CredentialsHeld, ClientTypeOK
<1>t. s \in [device : Devices \cup {NoDevice}, token : 0 .. MaxTokens,
             status : {"none", "active"} \cup RefusedStatuses,
             lease : Leases, expires : Expiries]
  BY DEF ClientInv, ClientTypeOK
<1>4. /\ Learn(s, a) \in [device : Devices \cup {NoDevice}, token : 0 .. MaxTokens,
                          status : {"none", "active"} \cup RefusedStatuses,
                          lease : Leases, expires : Expiries]
      /\ Learn(s, a).device # NoDevice =>
            HeldNow(i, Learn(s, a).device, Learn(s, a).token, Learn(s, a).lease)
  <2>1. CASE a.op = "granted"
    <3>1. Learn(s, a) = [device |-> a.device, token |-> a.token, status |-> "active",
                         lease |-> a.lease, expires |-> a.expires]
      BY <2>1 DEF Learn
    <3>2. a.device \in Devices /\ a.token \in 1 .. MaxTokens /\ a.lease \in Leases
          /\ a.expires \in Expiries
      BY <1>3, <2>1 DEF Answers, Nothing, Error
    <3>3. HeldNow(i, a.device, a.token, a.lease)
      BY <1>3, <2>1 DEF ClientHolds
    <3> QED BY <3>1, <3>2, <3>3, ConstantsAssumption
  <2>2. CASE a.op = "renewed"
    <3>1. Learn(s, a) = [s EXCEPT !.status = "active", !.lease = a.lease, !.expires = a.expires]
      BY <2>2 DEF Learn
    <3>2. a.lease \in Leases /\ a.expires \in Expiries
      BY <1>3, <2>2 DEF Answers, Nothing, Error
    <3>3. HeldNow(i, s.device, s.token, a.lease)
      BY <1>3, <2>2 DEF ClientHolds
    <3> QED BY <1>t, <3>1, <3>2, <3>3
  <2>3. CASE a.op = "refused"
    <3>1. Learn(s, a) = [s EXCEPT !.status = a.status]
      BY <2>3 DEF Learn, Mark
    <3>2. a.status \in RefusedStatuses
      BY <1>3, <2>3 DEF Answers, Nothing, Error
    <3> QED BY <1>3, <1>t, <3>1, <3>2 DEF ClientHolds
  <2>4. CASE a.op = "error"
    <3>1. Learn(s, a) = s
      BY <2>4 DEF Learn
    <3> QED BY <1>3, <1>t, <3>1 DEF ClientHolds
  <2>5. a.op # "none"
    BY <1>1, <1>3 DEF Answers, Nothing, Error
  <2> QED BY <1>3, <2>1, <2>2, <2>3, <2>4, <2>5, Shapes
<1> HIDE DEF a, s
<1>5. ClientTypeOK'
  BY <1>1, <1>4 DEF ClientInv, ClientTypeOK, Answers
<1>6. ClientHolds(i)'
  BY <1>1, <1>2, <1>4, Shapes DEF ClientHolds, HeldNow, Held, vars
<1>7. \A j \in Installations \ {i} :
         saved'[j] = saved[j] /\ answer'[j] = answer[j] /\ pending'[j] = pending[j]
  BY <1>1 DEF ClientInv, ClientTypeOK
<1> QED BY <1>1, <1>5, <1>6, <1>7, OneClient

\* An answer or a request of the client that is dropped.
LEMMA DropPreserves ==
    ASSUME ClientInv, Inv', [Next]_vars, NEW i \in Installations, LoseAnswer(i) \/ GiveUp(i)
    PROVE  ClientInv'
<1>1. /\ UNCHANGED <<vars, saved, lostAt>>
      /\ \/ answer' = [answer EXCEPT ![i] = Nothing] /\ UNCHANGED <<pending, orphans>>
         \/ /\ pending' = [pending EXCEPT ![i] = Nothing] /\ UNCHANGED answer
            /\ pending[i] # Nothing /\ orphans' \in {orphans, orphans \cup {pending[i]}}
  BY DEF LoseAnswer, GiveUp
<1>2. ClientTypeOK'
  BY <1>1 DEF ClientInv, ClientTypeOK, Answers
<1>3. ClientHolds(i)
  BY DEF ClientInv, CredentialsHeld
<1>4. /\ answer'[i] \in {answer[i], Nothing} /\ pending'[i] \in {pending[i], Nothing}
  BY <1>1 DEF ClientInv, ClientTypeOK
<1>5. ClientHolds(i)'
  BY <1>1, <1>3, <1>4, Shapes DEF ClientHolds, HeldNow, Held, vars
<1>6. \A j \in Installations \ {i} :
         saved'[j] = saved[j] /\ answer'[j] = answer[j] /\ pending'[j] = pending[j]
  BY <1>1 DEF ClientInv, ClientTypeOK
<1> QED BY <1>1, <1>2, <1>5, <1>6, OneClient

LEMMA ClientPreserved == ClientInv /\ [ClientNext]_allVars => ClientInv'
<1> SUFFICES ASSUME ClientInv, [ClientNext]_allVars PROVE ClientInv'
  OBVIOUS
<1>0. /\ [Next]_vars /\ (LossNoted \/ UNCHANGED <<vars, lostAt>>) /\ Inv'
  BY ClientStep, InvPreserved DEF ClientInv
<1>1. ASSUME UNCHANGED <<saved, pending, answer>>, orphans' \subseteq orphans PROVE ClientInv'
  <2>1. \A j \in Installations : ClientHolds(j)'
    BY <1>0, <1>1, ClientKept
  <2>2. ClientTypeOK'
    BY <1>0, <1>1, LostTyped DEF ClientInv, ClientTypeOK
  <2> QED BY <1>0, <2>1, <2>2, AllClients
<1>2. CASE Manager \/ UNCHANGED allVars
  BY <1>1, <1>2 DEF Manager, clientVars, allVars
<1>3. ASSUME NEW r \in orphans, ServeOrphan(r) PROVE ClientInv'
  BY <1>1, <1>3 DEF ServeOrphan
<1>4. ASSUME NEW i \in Installations, NEW c \in Codes, StartActivate(i, c) PROVE ClientInv'
  <2> DEFINE r == [op |-> "activate", from |-> i, code |-> c]
  <2>1. r \in Requests /\ r.from = i /\ r.op # "heartbeat" /\ Ask(i, r)
    BY <1>4 DEF Requests, StartActivate
  <2> HIDE DEF r
  <2> QED BY <1>0, <2>1, AskPreserves
<1>5. ASSUME NEW i \in Installations, StartHeartbeat(i) PROVE ClientInv'
  <2>1. /\ saved[i].device # NoDevice
        /\ Ask(i, [op |-> "heartbeat", from |-> i,
                   device |-> saved[i].device, token |-> saved[i].token])
    BY <1>5 DEF StartHeartbeat
  <2>2. HeldNow(i, saved[i].device, saved[i].token, saved[i].lease)
    BY <2>1 DEF ClientInv, CredentialsHeld, ClientHolds
  <2>3. issued \in 0 .. MaxTokens
    BY DEF ClientInv, Inv, TypeOK
  <2>4. saved[i].device \in Devices /\ saved[i].token \in 1 .. MaxTokens
    BY <2>2, <2>3, ConstantsAssumption DEF HeldNow, Held
  <2>5. PICK r \in Requests : r = [op |-> "heartbeat", from |-> i,
                                   device |-> saved[i].device, token |-> saved[i].token]
    BY <2>4 DEF Requests
  <2> QED BY <1>0, <2>1, <2>5, AskPreserves
<1>6. ASSUME NEW i \in Installations, AcceptRequest(i) PROVE ClientInv'
  <2>1. pending[i] \in Requests
    BY <1>6 DEF AcceptRequest, ClientInv, ClientTypeOK
  <2>2. LossNoted
    BY <1>6, <2>1, AcceptIsStep DEF AcceptRequest
  <2> QED BY <1>0, <1>6, <2>2, AcceptPreserves
<1>7. ASSUME NEW i \in Installations, RefuseHeartbeat(i) PROVE ClientInv'
  <2>1. PICK a : a = [op |-> "refused", status |-> Refusal(pending[i].device, pending[i].token)]
    OBVIOUS
  <2>2. a \in Answers /\ a.op = "refused"
    BY <2>1 DEF Answers, Refusal, RefusedStatuses
  <2>3. Answered(i, a) /\ UNCHANGED <<vars, lostAt>>
    BY <1>7, <2>1 DEF RefuseHeartbeat
  <2> QED BY <1>0, <2>2, <2>3, AnswerPreserves
<1>8. ASSUME NEW i \in Installations, AnswerError(i) PROVE ClientInv'
  <2>1. Answered(i, Error) /\ UNCHANGED <<vars, lostAt>>
    BY <1>8 DEF AnswerError
  <2> QED BY <1>0, <2>1, Shapes, AnswerPreserves DEF Answers
<1>9. ASSUME NEW i \in Installations, Receive(i) PROVE ClientInv'
  BY <1>0, <1>9, ReceivePreserves
<1>10. ASSUME NEW i \in Installations, LoseAnswer(i) \/ GiveUp(i) PROVE ClientInv'
  BY <1>0, <1>10, DropPreserves
<1> QED BY <1>2, <1>3, <1>4, <1>5, <1>6, <1>7, <1>8, <1>9, <1>10 DEF ClientNext, Client

LEMMA ClientInitially == ClientInit => ClientInv
<1> SUFFICES ASSUME ClientInit PROVE ClientInv
  OBVIOUS
<1>1. Inv
  BY InitSound DEF ClientInit
<1>2. NotActivated \in [device : Devices \cup {NoDevice}, token : 0 .. MaxTokens,
                        status : {"none", "active"} \cup RefusedStatuses,
                        lease : Leases, expires : Expiries]
  BY ConstantsAssumption DEF NotActivated, NoToken, Leases, Expiries
<1>3. ClientTypeOK
  BY <1>2 DEF ClientInit, ClientTypeOK, Answers, Expiries
<1>4. CredentialsHeld
  BY Shapes DEF ClientInit, Init, CredentialsHeld, ClientHolds, NotActivated, Never
<1> QED BY <1>1, <1>3, <1>4 DEF ClientInv

LEMMA ClientInvHolds == ClientSpec => []ClientInv
BY ClientInitially, ClientPreserved, PTL DEF ClientSpec

\* What the clients save, ask and are told is always well typed.
THEOREM ClientTypeCorrect == ClientSpec => []ClientTypeOK
<1>1. ClientInv => ClientTypeOK BY DEF ClientInv
<1> QED BY <1>1, ClientInvHolds, PTL

\* Whatever the clients, their lost calls and their crashes do, the manager's
\* store goes through steps of its own only: what is proved of it holds.
THEOREM StoreUnderClients == ClientSpec => Spec
<1>1. ClientInit => Init BY DEF ClientInit
<1>2. ClientInv /\ [ClientNext]_allVars => [Next]_vars BY ClientStep
<1> QED BY <1>1, <1>2, ClientInvHolds, PTL DEF ClientSpec, Spec

\* A client whose credential is gone works on for less than one lease.
THEOREM StaleIsBounded == ClientSpec => []StaleForOneLease
<1>1. ClientInv => StaleForOneLease
  <2> SUFFICES ASSUME ClientInv, NEW i \in Installations, ClientActive(i), ~CredentialStands(i)
               PROVE  now < lostAt[saved[i].device] + Lease
    BY DEF StaleForOneLease
  <2>1. saved[i].device # NoDevice /\ now < saved[i].lease
    BY DEF ClientActive
  <2>2. HeldNow(i, saved[i].device, saved[i].token, saved[i].lease)
    BY <2>1 DEF ClientInv, CredentialsHeld, ClientHolds
  <2>3. saved[i].lease <= lostAt[saved[i].device] + Lease /\ saved[i].device \in Devices
    BY <2>2 DEF HeldNow, Held, CredentialStands
  <2>4. /\ lostAt[saved[i].device] \in Int /\ saved[i].lease \in Int
        /\ now \in Int /\ Lease \in Int
    BY <2>3, ConstantsAssumption
       DEF ClientInv, ClientTypeOK, Inv, TypeOK, Expiries, Times, Never, Leases
  <2> QED BY <2>1, <2>3, <2>4
<1> QED BY <1>1, ClientInvHolds, PTL

\* The manager has written every credential that a client saves.
THEOREM SavedWasWritten == ClientSpec => []CredentialWasWritten
<1>1. ClientInv => CredentialWasWritten
  <2> SUFFICES ASSUME ClientInv, NEW i \in Installations, saved[i].device # NoDevice
               PROVE  /\ disk.devices[saved[i].device].status # "none"
                      /\ saved[i].token <= issued
                      /\ InstallationOf(saved[i].device) = i
    BY DEF CredentialWasWritten
  <2>1. HeldNow(i, saved[i].device, saved[i].token, saved[i].lease)
    BY DEF ClientInv, CredentialsHeld, ClientHolds
  <2> QED BY <2>1 DEF HeldNow, Held
<1> QED BY <1>1, ClientInvHolds, PTL
=============================================================================
