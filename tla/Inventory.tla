------------------------------ MODULE Inventory ------------------------------
(* The inventory cache of DIS as a value: the records, the two indices into *)
(* them and the owners of hostnames, with one operator for each method that *)
(* takes the lock.                                                          *)
(*                                                                          *)
(* Data: of a record what the methods and the correlation engine look at.   *)
(* PendingOnlineObs is a flag, because only netlink is ever added to it     *)
(* without the device going online at once; LastSeen is an age.             *)
EXTENDS Integers

CONSTANTS
    PDIDs,          \* the identities NewPermanentIdentity can return
    MACs,
    Private,        \* the locally administered MACs
    IPs,
    Hosts,          \* canonical hostnames
    None

ASSUME PrivateAssumption == Private \subseteq MACs
ASSUME NoneAssumption == None \notin PDIDs \cup MACs \cup IPs \cup Hosts

OrNone(S) == S \cup {None}

Tiers == {"tentative", "l7", "bia"}
\* Seen within staleThreshold, within offlineTTL, or before.
Ages == {"now", "stale", "old"}

\* models.Device
Records == [macs : SUBSET MACs, mac : OrNone(MACs), ips : SUBSET IPs, ip : OrNone(IPs),
            name : OrNone(Hosts), host : OrNone(Hosts), tier : Tiers,
            infra : BOOLEAN, online : BOOLEAN, waiting : BOOLEAN, age : Ages]
Absent == [absent |-> TRUE]

Inventories == [devices : [PDIDs -> Records \cup {Absent}],
                byMAC : [MACs -> OrNone(PDIDs)],
                byIP : [IPs -> OrNone(PDIDs)],
                owners : [Hosts -> OrNone(PDIDs)]]

Cached(inv) == {p \in PDIDs : inv.devices[p] # Absent}

Empty == [devices |-> [p \in PDIDs |-> Absent], byMAC |-> [m \in MACs |-> None],
          byIP |-> [i \in IPs |-> None], owners |-> [h \in Hosts |-> None]]

-----------------------------------------------------------------------------
(* Records                                                                 *)

\* DeriveTierAndAnchor
Tier(mac, host) ==
    IF mac \in MACs \ Private THEN "bia" ELSE IF host \in Hosts THEN "l7" ELSE "tentative"

CanPromote(from, to) ==
    \/ from = "tentative" /\ to \in {"l7", "bia"}
    \/ from = "l7" /\ to = "bia"

AddMAC(r, mac) ==
    IF mac = None THEN r ELSE [r EXCEPT !.macs = @ \cup {mac}, !.mac = mac]

AddIP(r, ip) ==
    IF ip = None THEN r ELSE [r EXCEPT !.ips = @ \cup {ip}, !.ip = ip]

-----------------------------------------------------------------------------
(* Methods                                                                 *)

\* Mutant of Reindexed: the entry of the previous key stays.
Reindexed_Added(index, p, old, new) == [k \in DOMAIN index |-> IF k = new THEN p ELSE index[k]]

\* p is found under its new key and no more under its previous one, unless the
\* entry of that one is another device's by now.
Reindexed(index, p, old, new) ==
    [k \in DOMAIN index |->
        IF k = new THEN p ELSE IF k = old /\ index[k] = p THEN None ELSE index[k]]

Upsert(inv, p, r) ==
    LET old == inv.devices[p]
        oldMAC == IF old = Absent THEN None ELSE old.mac
        oldIP == IF old = Absent THEN None ELSE old.ip
    IN [devices |-> [inv.devices EXCEPT ![p] = r],
        byMAC |-> Reindexed(inv.byMAC, p, oldMAC, r.mac),
        byIP |-> Reindexed(inv.byIP, p, oldIP, r.ip),
        owners |-> inv.owners]

\* The devices in gone lose their record, and the entries of their current
\* keys go whoever they name.
Removed(inv, gone) ==
    [devices |-> [p \in PDIDs |-> IF p \in gone THEN Absent ELSE inv.devices[p]],
     byMAC |-> [m \in MACs |->
         IF \E p \in gone : inv.devices[p].mac = m THEN None ELSE inv.byMAC[m]],
     byIP |-> [i \in IPs |->
         IF \E p \in gone : inv.devices[p].ip = i THEN None ELSE inv.byIP[i]],
     owners |-> [h \in Hosts |->
         IF inv.owners[h] \in gone /\ inv.devices[inv.owners[h]].host = h THEN None
         ELSE inv.owners[h]]]

Delete(inv, p) == Removed(inv, {p} \cap Cached(inv))

PurgeOffline(inv) ==
    Removed(inv, {p \in Cached(inv) : ~inv.devices[p].online /\ inv.devices[p].age = "old"})

DemoteStale(inv) ==
    [inv EXCEPT !.devices = [p \in PDIDs |->
        IF inv.devices[p] # Absent /\ inv.devices[p].age # "now"
        THEN [inv.devices[p] EXCEPT !.online = FALSE] ELSE inv.devices[p]]]

\* The device found under ip goes back to one of its other addresses, which is
\* not indexed.
RemoveIPIndex(inv, ip) ==
    LET p == inv.byIP[ip]
        rest == inv.devices[p].ips \ {ip}
    IN {[inv EXCEPT !.devices[p] = [@ EXCEPT !.ips = rest, !.ip = other], !.byIP[ip] = None] :
           other \in IF rest = {} THEN {None} ELSE rest}

\* An owner that is online keeps its hostname.
Rejected(inv, host, p) ==
    /\ inv.owners[host] \notin {None, p}
    /\ inv.devices[inv.owners[host]] # Absent
    /\ inv.devices[inv.owners[host]].online

AcquireHostname(inv, host, p) ==
    IF Rejected(inv, host, p) THEN inv ELSE [inv EXCEPT !.owners[host] = p]

ReleaseHostname(inv, host, p) ==
    IF host # None /\ inv.owners[host] = p THEN [inv EXCEPT !.owners[host] = None] ELSE inv

IsHostnameActivelyOwned(inv, host) ==
    /\ inv.owners[host] # None
    /\ inv.devices[inv.owners[host]] # Absent
    /\ inv.devices[inv.owners[host]].online

-----------------------------------------------------------------------------
\* What an index names is in the cache and has the key for its current one.
Indexed(inv) ==
    /\ \A m \in MACs : inv.byMAC[m] # None =>
          inv.byMAC[m] \in Cached(inv) /\ inv.devices[inv.byMAC[m]].mac = m
    /\ \A i \in IPs : inv.byIP[i] # None =>
          inv.byIP[i] \in Cached(inv) /\ inv.devices[inv.byIP[i]].ip = i
=============================================================================
