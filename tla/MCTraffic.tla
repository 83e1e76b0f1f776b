------------------------------ MODULE MCTraffic ------------------------------
(***************************************************************************)
(* What decides which way a connection goes, model checked side by side:   *)
(* the racer, the split-horizon resolver and its list of the name servers  *)
(* the VPN pushed, and the address direct traffic leaves from.  A query    *)
(* reads that list once; nothing else is shared.  `moving` says which of   *)
(* them a behaviour is about.                                              *)
(***************************************************************************)
EXTENDS Racer

CONSTANTS Servers, Timeout, Grace, Slack            \* of DnsRouter and VpnDns
CONSTANTS LocalAddrs, None, Debounce, MaxMsgs       \* of NetMon

VARIABLES online, q, reply
VARIABLES known, list, script, inside, shared, mounted, found
VARIABLES local, held, dirty, apps, open, msgs, notify, started, armed, left, due, doing, read
VARIABLE moving

Dns   == INSTANCE DnsRouter
Known == INSTANCE VpnDns
Net   == INSTANCE NetMon WITH Addrs <- LocalAddrs, addr <- local, at <- doing

dns    == <<online, q, reply>>
pushed == <<known, list, script, inside, shared, mounted, found>>
net    == <<local, held, dirty, apps, open, msgs, notify, started, armed, left, due, doing, read>>

ASSUME TrafficAssumption == Net!NetMonAssumption /\ Dns!DnsAssumption

\* The others stay in one of their initial states, where nothing is promised.
TrafficInit ==
    /\ Init /\ Dns!Init /\ Known!Init /\ Net!Init
    /\ moving \in {"racer", "dns", "pushed", "net"}
    /\ moving # "racer" => link = "good" /\ \A k, l \in Dialers : addr[k] = addr[l]
    /\ moving # "dns" => online
    /\ moving # "pushed" => mounted
    /\ moving # "net" => local = None /\ ~apps

TrafficNext ==
    \/ moving = "racer" /\ Next /\ UNCHANGED <<dns, pushed, net, moving>>
    \/ moving = "dns" /\ Dns!Next /\ UNCHANGED <<vars, pushed, net, moving>>
    \/ moving = "pushed" /\ Known!Next /\ UNCHANGED <<vars, dns, net, moving>>
    \/ moving = "net" /\ Net!Next /\ UNCHANGED <<vars, dns, pushed, moving>>

TrafficSpec ==
    /\ TrafficInit /\ [][TrafficNext]_<<vars, dns, pushed, net, moving>>
    /\ \/ moving = "racer" /\ Fairness
       \/ moving = "dns"
       \/ moving = "pushed" /\ Known!Fairness
       \/ moving = "net" /\ Net!Fairness

\* DnsRouter's properties.
PrivateWins == Dns!PrivateWins
InTime == Dns!InTime
FailsOpen == Dns!FailsOpen

\* VpnDns's property.
Follows == Known!Follows

\* NetMon's properties.
Invalidated == Net!Invalidated
CaughtUp == Net!CaughtUp
=============================================================================
