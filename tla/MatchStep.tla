------------------------------ MODULE MatchStep ------------------------------
(***************************************************************************)
(* Steps 3 to 5 of execute(): the mapping overrides, the automatic         *)
(* matching of the VMs and devices they leave, and the report on the VMs   *)
(* that stay without a device.                                             *)
(***************************************************************************)
EXTENDS MatchingService

CONSTANTS
    NoOverride,    \* the overrides file does not name the VM
    Suppressed,    \* the deviceId of its override is null
    PartOf         \* pairs of labels: the first is part of the second

ASSUME MatchStepAssumption == NoOverride # Suppressed

-----------------------------------------------------------------------------
(* applyOverrides: overrides gives each VM id a device id or one of the    *)
(* two values above.                                                       *)

\* An override of a device that is not listed counts for nothing; of two records with
\* the same device id the later one is taken.  The code says these matched on the host
\* name, which nothing looks at.
OverrideMatches(vms, devices, overrides) ==
    {m \in Pairs(vms, devices, "override") :
        /\ overrides[vms[m.vm].id] \notin {NoOverride, Suppressed}
        /\ devices[m.device].id = overrides[vms[m.vm].id]
        /\ \A j \in DOMAIN devices : devices[j].id = devices[m.device].id => j <= m.device}

Only(list, positions) == [i \in positions |-> list[i]]

Listed(vms, overrides) ==
    Only(vms, {i \in DOMAIN vms : overrides[vms[i].id] # Suppressed})

RemainingVms(vms, devices, overrides) ==
    Only(vms, {i \in DOMAIN vms :
        /\ overrides[vms[i].id] # Suppressed
        /\ \A m \in OverrideMatches(vms, devices, overrides) : vms[m.vm].id # vms[i].id})

\* Mutant of RemainingDevices: a device with an override can be matched once more.
AllDevices(vms, devices, overrides) == devices

RemainingDevices(vms, devices, overrides) ==
    Only(devices, {j \in DOMAIN devices :
        \A m \in OverrideMatches(vms, devices, overrides) : devices[m.device].id # devices[j].id})

AllMatches(vms, devices, overrides, config) ==
    OverrideMatches(vms, devices, overrides)
    \cup Match(RemainingVms(vms, devices, overrides), RemainingDevices(vms, devices, overrides), config)

-----------------------------------------------------------------------------
(* UnmatchedReporter                                                       *)

UnmatchedVms(vms, matches, overrides) ==
    {i \in DOMAIN Listed(vms, overrides) : \A m \in matches : vms[m.vm].id # vms[i].id}

\* Mutant of FirstLabel: case is kept.
FirstLabelAsIs(host) == [host EXCEPT !.domain = ""]

FirstLabel(host) == [host EXCEPT !.upper = FALSE, !.domain = ""]

\* String.includes, on first labels.
Includes(long, part) ==
    \/ part.short = ""
    \/ /\ long.upper = part.upper
       /\ part.short = long.short \/ <<part.short, long.short>> \in PartOf

PartialMatches(vm, devices) ==
    {j \in DOMAIN devices :
        LET host == FirstLabel(vm.guestHostname)
            name == FirstLabel(devices[j].deviceName)
        IN  Includes(name, host) \/ Includes(host, name)}

HasHostname(vm) == vm.guestHostname \notin {NoHostname, Blank}

Diagnosis(vm, devices) ==
    CASE ~HasHostname(vm) /\ vm.ipAddresses = <<>> -> "no host name, no addresses"
      [] ~HasHostname(vm) /\ vm.ipAddresses # <<>> -> "no host name"
      [] HasHostname(vm) /\ vm.ipAddresses = <<>> -> "no addresses"
      [] OTHER -> IF PartialMatches(vm, devices) # {} THEN "partial host name" ELSE "no device"
=============================================================================
