-------------------------- MODULE MatchingService --------------------------
(***************************************************************************)
(* Matching VMs to Vision One devices,                                     *)
(* src/domain/service/MatchingService.ts.                                  *)
(*                                                                         *)
(* The lists of VMs and of devices are functions from list positions to    *)
(* records: two positions may hold the same id (a device that two pages    *)
(* both return), and conflicts are counted by id over positions, as in the *)
(* code.  A match is a record of the two positions and of what matched.    *)
(*                                                                         *)
(* A host name is a record: its first label, whether any letter of it is   *)
(* upper case, and its domain ("" when there is none).                     *)
(***************************************************************************)
EXTENDS Naturals, Sequences

CONSTANT NoHostname    \* guestHostname is null

Blank == [short |-> "", upper |-> FALSE, domain |-> ""]

Strategy      == {"hostname", "ip", "hostname-then-ip", "compound"}
Normalization == {"lowercase-no-domain", "lowercase", "exact"}
IpMode        == {"primary", "any"}

Config == [strategy : Strategy, hostnameNormalization : Normalization,
           ipMatchMode : IpMode, allowMultipleMatches : BOOLEAN]

NormalizeHostname(host, config) ==
    CASE config.hostnameNormalization = "lowercase-no-domain" ->
            [host EXCEPT !.upper = FALSE, !.domain = ""]
      [] config.hostnameNormalization = "lowercase" -> [host EXCEPT !.upper = FALSE]
      [] config.hostnameNormalization = "exact" -> host

\* vm.guestHostname ?? vm.name: an empty guest host name is not replaced.
HostnameOf(vm) == IF vm.guestHostname = NoHostname THEN vm.name ELSE vm.guestHostname

SameHostname(vm, device, config) ==
    LET host == NormalizeHostname(HostnameOf(vm), config) IN
    host # Blank /\ host = NormalizeHostname(device.deviceName, config)

Addresses(ips) == {ips[i] : i \in DOMAIN ips}

IpsOverlap(vmIps, deviceIps, config) ==
    /\ vmIps # <<>>
    /\ deviceIps # <<>>
    /\ IF config.ipMatchMode = "primary" THEN vmIps[1] = deviceIps[1]
       ELSE Addresses(vmIps) \cap Addresses(deviceIps) # {}

Pairs(vms, devices, on) == [vm : DOMAIN vms, device : DOMAIN devices, on : {on}]

MatchByHostname(vms, devices, config) ==
    {m \in Pairs(vms, devices, "hostname") : SameHostname(vms[m.vm], devices[m.device], config)}

MatchByIp(vms, devices, config) ==
    {m \in Pairs(vms, devices, "ip") :
        IpsOverlap(vms[m.vm].ipAddresses, devices[m.device].ipAddresses, config)}

\* The key of buildIpMatchSet is made of the two ids, so an address of one of two
\* records with the same id counts for both.
MatchByCompound(vms, devices, config) ==
    {m \in Pairs(vms, devices, "both") :
        /\ SameHostname(vms[m.vm], devices[m.device], config)
        /\ \E n \in MatchByIp(vms, devices, config) :
              vms[n.vm].id = vms[m.vm].id /\ devices[n.device].id = devices[m.device].id}

\* Mutants of MatchByIpRest: it is not told which devices, or which VMs, have a
\* host name match.
IpOfAnyDevice(vms, devices, config) ==
    LET byHostname == MatchByHostname(vms, devices, config) IN
    {m \in MatchByIp(vms, devices, config) :
        \A n \in byHostname : vms[n.vm].id # vms[m.vm].id}
IpOfAnyVm(vms, devices, config) ==
    LET byHostname == MatchByHostname(vms, devices, config) IN
    {m \in MatchByIp(vms, devices, config) :
        \A n \in byHostname : devices[n.device].id # devices[m.device].id}

\* Addresses are compared only between VMs and devices without any host name match,
\* an ambiguous one included.
MatchByIpRest(vms, devices, config) ==
    LET byHostname == MatchByHostname(vms, devices, config) IN
    {m \in MatchByIp(vms, devices, config) :
        \A n \in byHostname : /\ vms[n.vm].id # vms[m.vm].id
                              /\ devices[n.device].id # devices[m.device].id}

RawMatches(vms, devices, config) ==
    CASE config.strategy = "hostname" -> MatchByHostname(vms, devices, config)
      [] config.strategy = "ip" -> MatchByIp(vms, devices, config)
      [] config.strategy = "compound" -> MatchByCompound(vms, devices, config)
      [] config.strategy = "hostname-then-ip" ->
            MatchByHostname(vms, devices, config) \cup MatchByIpRest(vms, devices, config)

\* Mutant of ResolveConflicts: only the VM is looked at.
ResolveVmConflicts(raw, vms, devices, config) ==
    {m \in raw : config.allowMultipleMatches \/
        \A n \in raw : n # m => vms[n.vm].id # vms[m.vm].id}

\* A VM or a device in more than one raw match loses all of them.
ResolveConflicts(raw, vms, devices, config) ==
    {m \in raw : config.allowMultipleMatches \/
        \A n \in raw : n # m => /\ vms[n.vm].id # vms[m.vm].id
                                /\ devices[n.device].id # devices[m.device].id}

Match(vms, devices, config) ==
    ResolveConflicts(RawMatches(vms, devices, config), vms, devices, config)
=============================================================================
