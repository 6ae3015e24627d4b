---------------------------- MODULE MCNftables ----------------------------
(* A kid's phone and a router that was tagged late; both have used the     *)
(* address ip1.  The phone is known offline or online, the router joins as *)
(* an ordinary device before it is tagged infrastructure.  The runs with   *)
(* faults have one device that is each of these in turn.                   *)
EXTENDS Nftables

CONSTANTS phone, router, mp, mr, ip1, ip2

MCDevices == {phone, router}
MCMACs == {mp, mr}
MCIPs == {ip1, ip2}
Rec(online, infra, mac, ips) == [online |-> online, infra |-> infra, macs |-> {mac}, ips |-> ips]
MCRecords == [d \in MCDevices |->
    IF d = phone THEN {NoRecord, Rec(TRUE, FALSE, mp, {ip1}), Rec(FALSE, FALSE, mp, {ip1})}
    ELSE {NoRecord, Rec(TRUE, FALSE, mr, {ip1}), Rec(FALSE, TRUE, mr, {ip1})}]

OneDevice == {router}
OneMAC == {mr}
OneIP == {ip1}
OneDeviceRecords == [d \in OneDevice |->
    {NoRecord, Rec(FALSE, FALSE, mr, {ip1}), Rec(TRUE, FALSE, mr, {}), Rec(FALSE, TRUE, mr, {})}]
===========================================================================
