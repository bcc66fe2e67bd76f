-------------------------- MODULE InventoryProofs --------------------------
(***************************************************************************)
(* Theorems about matching, for all lists of VMs and devices and every     *)
(* configuration.                                                          *)
(***************************************************************************)
EXTENDS Inventory, TLAPS

ByName(v, d, c) == MatchByHostname(v, d, c)

\* m shares neither its VM id nor its device id with another match of the set.
Alone(m, set, v, d) ==
    \A n \in set : n # m => v[n.vm].id # v[m.vm].id /\ d[n.device].id # d[m.device].id

\* A host name match is kept iff no other host name match contradicts it: what
\* addresses say has no part in it.
LEMMA HostnameMatchKept ==
    ASSUME NEW v, NEW d, NEW c \in Config, NEW m
    PROVE  (m \in Match(v, d, c) /\ m.on = "hostname") <=>
             (/\ c.strategy \in {"hostname", "hostname-then-ip"}
              /\ m \in ByName(v, d, c)
              /\ c.allowMultipleMatches \/ Alone(m, ByName(v, d, c), v, d))
<1>1. \A n \in MatchByIp(v, d, c) : n.on = "ip"
  BY DEF MatchByIp, Pairs
<1>2. \A n \in MatchByCompound(v, d, c) : n.on = "both"
  BY DEF MatchByCompound, Pairs
<1>3. \A n \in ByName(v, d, c) : n.on = "hostname"
  BY DEF ByName, MatchByHostname, Pairs
<1>4. MatchByIpRest(v, d, c) \subseteq MatchByIp(v, d, c)
  BY DEF MatchByIpRest
<1>5. \A n \in MatchByIpRest(v, d, c) : \A h \in ByName(v, d, c) :
          v[n.vm].id # v[h.vm].id /\ d[n.device].id # d[h.device].id
  BY DEF MatchByIpRest, ByName
<1>6. c.strategy \in Strategy
  BY DEF Config
<1>7. CASE c.strategy = "hostname"
  <2>1. RawMatches(v, d, c) = ByName(v, d, c)
    BY <1>7 DEF RawMatches, ByName
  <2> QED  BY <2>1, <1>3, <1>7 DEF Match, ResolveConflicts, Alone
<1>8. CASE c.strategy = "hostname-then-ip"
  <2>1. RawMatches(v, d, c) = ByName(v, d, c) \cup MatchByIpRest(v, d, c)
    BY <1>8 DEF RawMatches, ByName
  <2>2. \A h \in ByName(v, d, c) :
          Alone(h, ByName(v, d, c), v, d) <=> Alone(h, RawMatches(v, d, c), v, d)
    BY <2>1, <1>5 DEF Alone
  <2>3. m \in Match(v, d, c) <=>
          (m \in RawMatches(v, d, c)
           /\ (c.allowMultipleMatches \/ Alone(m, RawMatches(v, d, c), v, d)))
    BY DEF Match, ResolveConflicts, Alone
  <2>4. (m \in RawMatches(v, d, c) /\ m.on = "hostname") <=> m \in ByName(v, d, c)
    BY <2>1, <1>1, <1>3, <1>4
  <2> QED  BY <2>2, <2>3, <2>4, <1>8
<1>9. CASE c.strategy \in {"ip", "compound"}
  <2>1. \A n \in RawMatches(v, d, c) : n.on # "hostname"
    BY <1>9, <1>1, <1>2 DEF RawMatches
  <2> QED  BY <2>1, <1>9 DEF Match, ResolveConflicts
<1> QED  BY <1>6, <1>7, <1>8, <1>9 DEF Strategy

\* A match of two lists is of positions of theirs, and none is of an override.
LEMMA MatchOfLists ==
    ASSUME NEW v, NEW d, NEW c \in Config, NEW m \in Match(v, d, c)
    PROVE  m.vm \in DOMAIN v /\ m.device \in DOMAIN d /\ m.on \in {"hostname", "ip", "both"}
<1>1. m \in RawMatches(v, d, c)
  BY DEF Match, ResolveConflicts
<1>2. c.strategy \in Strategy
  BY DEF Config
<1>3. m \in MatchByHostname(v, d, c) \/ m \in MatchByIp(v, d, c) \/ m \in MatchByCompound(v, d, c)
  BY <1>1, <1>2 DEF RawMatches, Strategy, MatchByIpRest
<1> QED  BY <1>3 DEF MatchByHostname, MatchByIp, MatchByCompound, Pairs

\* A host name match survives in lists that lack other positions.
LEMMA SurvivesInParts ==
    ASSUME NEW v, NEW d, NEW c \in Config, NEW I \in SUBSET DOMAIN v, NEW J \in SUBSET DOMAIN d,
           NEW m \in Match(v, d, c), m.on = "hostname", m.vm \in I, m.device \in J
    PROVE  m \in Match(Only(v, I), Only(d, J), c)
<1> DEFINE v2 == Only(v, I)
           d2 == Only(d, J)
<1>1. /\ c.strategy \in {"hostname", "hostname-then-ip"}
      /\ m \in ByName(v, d, c)
      /\ c.allowMultipleMatches \/ Alone(m, ByName(v, d, c), v, d)
  BY HostnameMatchKept
<1>2. ByName(v2, d2, c) = {n \in ByName(v, d, c) : n.vm \in I /\ n.device \in J}
  BY DEF ByName, MatchByHostname, Pairs, Only
<1>3. \A n \in ByName(v2, d2, c) : v2[n.vm] = v[n.vm] /\ d2[n.device] = d[n.device]
  BY <1>2 DEF Only
<1>4. m \in ByName(v2, d2, c)
  BY <1>1, <1>2
<1> HIDE DEF v2, d2
<1>5. c.allowMultipleMatches \/ Alone(m, ByName(v2, d2, c), v2, d2)
  BY <1>1, <1>2, <1>3, <1>4 DEF Alone
<1>6. m \in Match(v2, d2, c)
  BY <1>1, <1>4, <1>5, HostnameMatchKept
<1> QED  BY <1>6 DEF v2, d2

-----------------------------------------------------------------------------
(* What the overrides leave to the automatic matching.                     *)

restVms == RemainingVms(vms, devices, overrides)
restDevices == RemainingDevices(vms, devices, overrides)
Forced == OverrideMatches(vms, devices, overrides)

LEMMA RestIsPart ==
    /\ DOMAIN restVms \subseteq DOMAIN vms
    /\ \A i \in DOMAIN restVms :
          restVms[i] = vms[i] /\ \A m \in Forced : vms[m.vm].id # vms[i].id
    /\ DOMAIN restDevices \subseteq DOMAIN devices
    /\ \A j \in DOMAIN restDevices :
          restDevices[j] = devices[j] /\ \A m \in Forced : devices[m.device].id # devices[j].id
BY DEF restVms, restDevices, RemainingVms, RemainingDevices, Only, Forced

\* A match is forced, or it is an automatic one of what is left.
LEMMA MatchesSplit ==
    ASSUME TypeOK, NEW m \in Matched
    PROVE  /\ m.on = "override" => m \in Forced
           /\ m.on # "override" => /\ m \in Match(restVms, restDevices, config)
                                   /\ m.vm \in DOMAIN restVms /\ m.device \in DOMAIN restDevices
<1>1. m \in Forced \/ m \in Match(restVms, restDevices, config)
  BY DEF Matched, AllMatches, Forced, restVms, restDevices
<1>2. m \in Forced => m.on = "override"
  BY DEF Forced, OverrideMatches, Pairs
<1>3. m \in Match(restVms, restDevices, config) =>
        m.vm \in DOMAIN restVms /\ m.device \in DOMAIN restDevices /\ m.on # "override"
  BY MatchOfLists DEF TypeOK
<1> QED  BY <1>1, <1>2, <1>3

LEMMA TypeCorrect == Spec => []TypeOK
<1>1. Init => TypeOK
  BY InventoryAssumption DEF Init, TypeOK
<1>2. TypeOK /\ [Next]_vars => TypeOK'
  <2> SUFFICES ASSUME TypeOK, [Next]_vars PROVE TypeOK'
    OBVIOUS
  <2>1. ASSUME NEW i \in DOMAIN vms, VmUnlisted(i) PROVE TypeOK'
    BY <2>1 DEF VmUnlisted, Without, TypeOK, IsList
  <2>2. ASSUME NEW j \in DOMAIN devices, DeviceUnlisted(j) PROVE TypeOK'
    BY <2>2 DEF DeviceUnlisted, Without, TypeOK, IsList
  <2>3. ASSUME NEW i \in DOMAIN vms, GuestInfoLost(i) PROVE TypeOK'
    BY <2>3 DEF GuestInfoLost, TypeOK, IsList
  <2>4. CASE UNCHANGED vars
    BY <2>4 DEF vars, TypeOK, IsList
  <2> QED  BY <2>1, <2>2, <2>3, <2>4 DEF Next
<1> QED  BY <1>1, <1>2, PTL DEF Spec

-----------------------------------------------------------------------------
\* Automatic matches pair VM ids and device ids one to one, and with none of an override.
THEOREM MatchIsOneToOne == Spec => []OneToOne
<1>1. ASSUME TypeOK, NEW m \in Matched, NEW n \in Matched, m.on # "override",
             vms[m.vm].id = vms[n.vm].id \/ devices[m.device].id = devices[n.device].id
      PROVE  m = n \/ (config.allowMultipleMatches /\ n.on # "override")
  <2>1. /\ m \in Match(restVms, restDevices, config)
        /\ m.vm \in DOMAIN restVms /\ m.device \in DOMAIN restDevices
    BY <1>1, MatchesSplit
  <2>2. n.on # "override"
    BY <1>1, <2>1, MatchesSplit, RestIsPart
  <2>3. /\ n \in Match(restVms, restDevices, config)
        /\ n.vm \in DOMAIN restVms /\ n.device \in DOMAIN restDevices
    BY <2>2, <1>1, MatchesSplit
  <2>4. restVms[m.vm].id = restVms[n.vm].id \/ restDevices[m.device].id = restDevices[n.device].id
    BY <1>1, <2>1, <2>3, RestIsPart
  <2> QED  BY <2>1, <2>2, <2>3, <2>4 DEF Match, ResolveConflicts
<1>2. TypeOK => OneToOne
  BY <1>1 DEF OneToOne
<1> QED  BY <1>2, TypeCorrect, PTL

\* What the cycle makes of the matches: pairs of a VM and a device.
MatchedIds == {<<vms[m.vm].id, devices[m.device].id>> : m \in Matched}

\* The overrides of two VMs do not name one device.
OneOverridePerDevice ==
    \A i, j \in DOMAIN vms :
        overrides[vms[i].id] = overrides[vms[j].id] =>
            vms[i].id = vms[j].id \/ overrides[vms[i].id] \in {NoOverride, Suppressed}

\* What OneMatching of ConvergenceProofs asks of the matching.
OneVmPerDevice ==
    (~config.allowMultipleMatches /\ OneOverridePerDevice) =>
        \A p, q \in MatchedIds : p[2] = q[2] => p = q

\* No device gets the tags of two VMs, whichever way they were matched, when multiple
\* matches are off and the overrides agree.
THEOREM MatchingIsFunctional == Spec => []OneVmPerDevice
<1>1. ASSUME TypeOK, OneToOne, ~config.allowMultipleMatches, OneOverridePerDevice,
             NEW m \in Matched, NEW n \in Matched, devices[m.device].id = devices[n.device].id
      PROVE  vms[m.vm].id = vms[n.vm].id
  <2>1. CASE m.on # "override" \/ n.on # "override"
    BY <1>1, <2>1 DEF OneToOne
  <2>2. CASE m.on = "override" /\ n.on = "override"
    <3>1. m \in Forced /\ n \in Forced
      BY <1>1, <2>2, MatchesSplit
    <3>2. /\ m.vm \in DOMAIN vms /\ n.vm \in DOMAIN vms
          /\ overrides[vms[m.vm].id] \notin {NoOverride, Suppressed}
          /\ overrides[vms[m.vm].id] = overrides[vms[n.vm].id]
      BY <1>1, <3>1 DEF Forced, OverrideMatches, Pairs
    <3> QED  BY <1>1, <3>2 DEF OneOverridePerDevice
  <2> QED  BY <2>1, <2>2
<1>2. TypeOK /\ OneToOne => OneVmPerDevice
  BY <1>1 DEF OneVmPerDevice, MatchedIds
<1> QED  BY <1>2, TypeCorrect, MatchIsOneToOne, PTL

\* A VM and a device with a host name of their own, reported by the guest, are matched.
THEOREM UniqueHostnameIsMatched == Spec => []UniqueHostnameMatches
<1>1. ASSUME TypeOK, config.strategy \in {"hostname", "hostname-then-ip"},
             NEW m \in NameMatches, vms[m.vm].guestHostname # NoHostname,
             \A n \in NameMatches : n # m => /\ vms[n.vm].id # vms[m.vm].id
                                             /\ devices[n.device].id # devices[m.device].id
      PROVE  m \in Matched
  <2>1. NameMatches = ByName(restVms, restDevices, config)
    BY DEF NameMatches, ByName, restVms, restDevices
  <2>2. \A n \in NameMatches : n.vm \in DOMAIN restVms /\ n.device \in DOMAIN restDevices
    BY <2>1 DEF ByName, MatchByHostname, Pairs
  <2>3. Alone(m, ByName(restVms, restDevices, config), restVms, restDevices)
    BY <1>1, <2>1, <2>2, RestIsPart DEF Alone
  <2>4. m \in Match(restVms, restDevices, config)
    BY <1>1, <2>1, <2>3, HostnameMatchKept DEF TypeOK
  <2> QED  BY <2>4 DEF Matched, AllMatches, restVms, restDevices
<1>2. TypeOK => UniqueHostnameMatches
  BY <1>1 DEF UniqueHostnameMatches
<1> QED  BY <1>2, TypeCorrect, PTL

\* Host name matches outlive the loss of other VMs and devices that have no override.
THEOREM HostnameMatchesOutlive == Spec => HostnameMatchesSurvive
<1>1. TypeOK /\ [Next]_vars =>
        [\A m \in Matched :
          (/\ m.on = "hostname"
           /\ m.vm \in DOMAIN vms' /\ m.device \in DOMAIN devices'
           /\ DOMAIN vms' # DOMAIN vms \/ DOMAIN devices' # DOMAIN devices
           /\ OverrideMatches(vms, devices, overrides)' = OverrideMatches(vms, devices, overrides))
             => m \in Matched']_vars
  <2> SUFFICES ASSUME TypeOK, [Next]_vars,
                      NEW m \in Matched, m.on = "hostname",
                      m.vm \in DOMAIN vms', m.device \in DOMAIN devices',
                      DOMAIN vms' # DOMAIN vms \/ DOMAIN devices' # DOMAIN devices,
                      OverrideMatches(vms', devices', overrides') = Forced
               PROVE  m \in Matched'
    BY DEF Forced, OverrideMatches, Pairs
  <2>1. /\ m \in Match(restVms, restDevices, config)
        /\ m.vm \in DOMAIN restVms /\ m.device \in DOMAIN restDevices
    BY MatchesSplit
  <2>2. \A n \in Forced : n.vm \in DOMAIN vms' /\ n.device \in DOMAIN devices'
    BY DEF OverrideMatches, Pairs
  <2> DEFINE rv == RemainingVms(vms', devices', overrides')
             rd == RemainingDevices(vms', devices', overrides')
             I == DOMAIN rv
             J == DOMAIN rd
  <2>3. ASSUME UNCHANGED <<config, overrides>>,
               DOMAIN vms' \subseteq DOMAIN vms, DOMAIN devices' \subseteq DOMAIN devices,
               \A i \in DOMAIN vms' : vms'[i] = vms[i],
               \A j \in DOMAIN devices' : devices'[j] = devices[j]
        PROVE  m \in Matched'
    <3>1. I = {i \in DOMAIN vms' : i \in DOMAIN restVms} /\ rv = Only(restVms, I)
      BY <2>2, <2>3 DEF RemainingVms, Only, restVms, Forced
    <3>2. J = {j \in DOMAIN devices' : j \in DOMAIN restDevices} /\ rd = Only(restDevices, J)
      BY <2>2, <2>3 DEF RemainingDevices, Only, restDevices, Forced
    <3>3. I \in SUBSET DOMAIN restVms /\ J \in SUBSET DOMAIN restDevices /\ m.vm \in I /\ m.device \in J
      BY <2>1, <3>1, <3>2
    <3> HIDE DEF I, J
    <3>4. m \in Match(Only(restVms, I), Only(restDevices, J), config)
      BY <2>1, <3>3, SurvivesInParts DEF TypeOK
    <3>5. m \in Match(rv, rd, config')
      BY ZenonT(20), <2>3, <3>1, <3>2, <3>4
    <3> QED  BY <3>5 DEF Matched, AllMatches
  <2>4. ASSUME NEW i \in DOMAIN vms, VmUnlisted(i) PROVE m \in Matched'
    BY <2>3, <2>4 DEF VmUnlisted, Without
  <2>5. ASSUME NEW j \in DOMAIN devices, DeviceUnlisted(j) PROVE m \in Matched'
    BY <2>3, <2>5 DEF DeviceUnlisted, Without
  <2>6. CASE UNCHANGED vars \/ \E i \in DOMAIN vms : GuestInfoLost(i)
    <3>1. DOMAIN vms' = DOMAIN vms /\ DOMAIN devices' = DOMAIN devices
      BY <2>6 DEF GuestInfoLost, vars
    <3> QED  BY <3>1
  <2> QED  BY <2>4, <2>5, <2>6 DEF Next
<1> QED  BY <1>1, TypeCorrect, PTL DEF Spec, HostnameMatchesSurvive

-----------------------------------------------------------------------------
\* Host names that are equal as the configuration compares them begin with equal labels.
LEMMA SameFirstLabel ==
    ASSUME NEW c \in Config, NEW g, NEW h, NormalizeHostname(g, c) = NormalizeHostname(h, c)
    PROVE  FirstLabel(g) = FirstLabel(h)
<1>1. c.hostnameNormalization \in Normalization
  BY DEF Config
<1>2. CASE c.hostnameNormalization = "lowercase-no-domain"
  BY <1>2 DEF NormalizeHostname, FirstLabel
<1>3. CASE c.hostnameNormalization = "lowercase"
  <2> DEFINE Lower(host) == [host EXCEPT !.upper = FALSE]
  <2>1. Lower(g) = Lower(h)
    BY <1>3 DEF NormalizeHostname
  <2>2. /\ DOMAIN Lower(g) = DOMAIN g /\ \A f \in DOMAIN g : f # "upper" => Lower(g)[f] = g[f]
        /\ DOMAIN Lower(h) = DOMAIN h /\ \A f \in DOMAIN h : f # "upper" => Lower(h)[f] = h[f]
    OBVIOUS
  <2> HIDE DEF Lower
  <2>3. DOMAIN g = DOMAIN h /\ \A f \in DOMAIN g : f # "upper" => g[f] = h[f]
    BY <2>1, <2>2
  <2> QED  BY <2>3 DEF FirstLabel
<1>4. CASE c.hostnameNormalization = "exact"
  BY <1>4 DEF NormalizeHostname, FirstLabel
<1> QED  BY <1>1, <1>2, <1>3, <1>4 DEF Normalization

\* A VM reported as having no matching device shares its host name with none that is listed.
THEOREM AbsencesAreReal == Spec => []ReportedAbsenceIsReal
<1>1. ASSUME TypeOK, NEW vm, Diagnosis(vm, devices) = "no device", NEW j \in DOMAIN devices,
             SameHostname(vm, devices[j], config)
      PROVE  FALSE
  <2>1. HasHostname(vm) /\ PartialMatches(vm, devices) = {}
    BY <1>1 DEF Diagnosis
  <2>2. HostnameOf(vm) = vm.guestHostname
    BY <2>1 DEF HasHostname, HostnameOf
  <2>3. NormalizeHostname(vm.guestHostname, config) = NormalizeHostname(devices[j].deviceName, config)
    BY <1>1, <2>2 DEF SameHostname
  <2>4. FirstLabel(vm.guestHostname) = FirstLabel(devices[j].deviceName)
    BY Zenon, <1>1, <2>3, SameFirstLabel DEF TypeOK
  <2>5. Includes(FirstLabel(devices[j].deviceName), FirstLabel(vm.guestHostname))
    BY <2>4 DEF Includes
  <2> QED  BY <2>1, <2>5 DEF PartialMatches
<1>2. TypeOK => ReportedAbsenceIsReal
  BY <1>1 DEF ReportedAbsenceIsReal
<1> QED  BY <1>2, TypeCorrect, PTL
=============================================================================
