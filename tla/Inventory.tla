----------------------------- MODULE Inventory -----------------------------
(***************************************************************************)
(* The two inventories a sequence of cycles matches, and how they change   *)
(* from one cycle to the next: a vCenter, or a page, that does not answer  *)
(* takes VMs out of the list, and a VM whose guest details cannot be read  *)
(* is matched on its display name alone.  The overrides are those of a     *)
(* file that does not change.                                              *)
(***************************************************************************)
EXTENDS MatchStep

CONSTANTS Configs,           \* the matching configurations
          Vms, Devices,      \* the lists that may be fetched first
          Overrides          \* the overrides that may be in force

\* A list: a function from some positions to records.
IsList(list) == list = [i \in DOMAIN list |-> list[i]]

ASSUME InventoryAssumption ==
    /\ Configs \subseteq Config
    /\ \A list \in Vms \cup Devices : IsList(list)

VARIABLES vms, devices, config, overrides

vars == <<vms, devices, config, overrides>>

TypeOK == overrides \in Overrides /\ config \in Config /\ IsList(vms) /\ IsList(devices)

Init ==
    /\ vms \in Vms
    /\ devices \in Devices
    /\ config \in Configs
    /\ overrides \in Overrides

Without(list, i) == [j \in DOMAIN list \ {i} |-> list[j]]

\* The vCenter of the VM is left out of listVms.
VmUnlisted(i) ==
    /\ vms' = Without(vms, i)
    /\ UNCHANGED <<devices, config, overrides>>

\* The device leaves Vision One.
DeviceUnlisted(j) ==
    /\ devices' = Without(devices, j)
    /\ UNCHANGED <<vms, config, overrides>>

\* The guest's addresses cannot be read, or neither they nor its host name.
GuestInfoLost(i) ==
    /\ \E host \in {vms[i].guestHostname, NoHostname} :
          vms' = [vms EXCEPT ![i].guestHostname = host, ![i].ipAddresses = <<>>]
    /\ UNCHANGED <<devices, config, overrides>>

Next ==
    \/ \E i \in DOMAIN vms : VmUnlisted(i) \/ GuestInfoLost(i)
    \/ \E j \in DOMAIN devices : DeviceUnlisted(j)

Spec == Init /\ [][Next]_vars

Matched == AllMatches(vms, devices, overrides, config)

\* The host name matches of what the overrides leave.
NameMatches ==
    MatchByHostname(RemainingVms(vms, devices, overrides),
                    RemainingDevices(vms, devices, overrides), config)

\* No VM and no device of an automatic match is in any other match, however many records
\* carry its id and whatever the overrides say: unless an administrator asks for it, a
\* device never gets the tags of two VMs.
OneToOne ==
    \A m, n \in Matched :
        /\ m.on # "override"
        /\ vms[m.vm].id = vms[n.vm].id \/ devices[m.device].id = devices[n.device].id
        => m = n \/ (config.allowMultipleMatches /\ n.on # "override")

\* A VM whose guest reports a host name and a device that share it with nobody else, of
\* those without an override, are matched, whatever addresses they and others have, unless
\* addresses are required.  (Nothing is claimed of a VM that is known by its display name
\* only: README.md:820-822 of the repository ranks addresses before that.)
UniqueHostnameMatches ==
    config.strategy \in {"hostname", "hostname-then-ip"} =>
        \A m \in NameMatches :
            (/\ vms[m.vm].guestHostname # NoHostname
             /\ \A n \in NameMatches :
                   n # m => /\ vms[n.vm].id # vms[m.vm].id
                            /\ devices[n.device].id # devices[m.device].id)
                => m \in Matched

\* A host name match survives the absence of any other VM or device that is not of an
\* override: an outage of one vCenter does not change the device of a VM of another that
\* has one by name.  (The absence of a VM with an override frees its device for others.)
HostnameMatchesSurvive ==
    [][\A m \in Matched :
          (/\ m.on = "hostname"
           /\ m.vm \in DOMAIN vms' /\ m.device \in DOMAIN devices'
           /\ DOMAIN vms' # DOMAIN vms \/ DOMAIN devices' # DOMAIN devices
           /\ OverrideMatches(vms, devices, overrides)' = OverrideMatches(vms, devices, overrides))
             => m \in Matched']_vars

\* "No matching device" in the report is right about host names: when a device with the
\* host name of the VM is listed, then the VM, which lost it because the name was
\* ambiguous, or to an override, gets another reason.  (Of addresses the reason says more
\* than is known: a VM that lost an ambiguous address match is reported like this too.)
ReportedAbsenceIsReal ==
    \A i \in UnmatchedVms(vms, Matched, overrides) :
        Diagnosis(vms[i], devices) = "no device" =>
            \A j \in DOMAIN devices : ~SameHostname(vms[i], devices[j], config)
=============================================================================
