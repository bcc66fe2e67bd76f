---------------------------- MODULE MCInventory ----------------------------
(***************************************************************************)
(* Two VMs and two devices that share host names up to case and domain,    *)
(* and addresses; the two device records may be of one device.             *)
(***************************************************************************)
EXTENDS Inventory

Web  == [short |-> "web", upper |-> FALSE, domain |-> ""]
WebD == [short |-> "web", upper |-> TRUE, domain |-> "corp"]
Db   == [short |-> "webdb", upper |-> FALSE, domain |-> ""]
Mail == [short |-> "mail", upper |-> FALSE, domain |-> ""]

MCPartOf == {<<"web", "webdb">>}

IpLists == {<<>>, <<"ip1">>, <<"ip2", "ip1">>}

MCVms ==
    {v \in [1..2 -> [id : 1..2, guestHostname : {NoHostname, Blank, Web}, name : {WebD, Db},
                     ipAddresses : IpLists]] :
        v[1].id = 1 /\ v[2].id = 2 /\ v[2].name = Db}

MCDevices ==
    {d \in [1..2 -> [id : 1..2, deviceName : {Web, WebD, Mail, Blank}, ipAddresses : IpLists]] :
        d[1].id = 1 /\ d[1].deviceName # Blank}

\* None, one of the second VM on the second device, both VMs on it, and one suppressed.
MCOverrides ==
    {[i \in 1..2 |-> NoOverride], [i \in 1..2 |-> IF i = 1 THEN NoOverride ELSE 2],
     [i \in 1..2 |-> 2], [i \in 1..2 |-> IF i = 1 THEN Suppressed ELSE NoOverride]}

MCConfigs ==
    {[strategy |-> s, hostnameNormalization |-> "lowercase-no-domain", ipMatchMode |-> "any",
      allowMultipleMatches |-> FALSE] : s \in Strategy}
    \cup {[strategy |-> "hostname-then-ip", hostnameNormalization |-> n, ipMatchMode |-> "primary",
           allowMultipleMatches |-> n = "exact"] : n \in {"lowercase", "exact"}}
=============================================================================
