------------------------------- MODULE MCPeers -------------------------------
(***************************************************************************)
(* Pairs of which one side may go away, model checked side by side: the    *)
(* daemon and its shims and sing-boxes, the container's tunnel and its     *)
(* proxy, the daemon and who streams its status, the page and its browser. *)
(* They share no state; `moving` says which of them a behaviour is about.  *)
(***************************************************************************)
EXTENDS RouteGuard

CONSTANTS
    Setters, Clients, Buffer, Wire, MaxChanges, Restarts,               \* of StatusStream
    Conns, Timers, Wait                                                 \* of WebPage

VARIABLES pc, inputs, rules, vpn, ovpn, stale, socks, signal, reachable
VARIABLES state, setter, snap, up, handler, queue, wire, client, shown, missed, crossed
VARIABLES srv, idle, timer, active, watching, conn, closing, old, trace, looked
VARIABLE moving

Container == INSTANCE Entrypoint WITH old <- stale
Stream    == INSTANCE StatusStream WITH Faults <- Restarts
Page      == INSTANCE WebPage

container == <<pc, inputs, rules, vpn, ovpn, stale, socks, signal, reachable>>
stream    == <<state, setter, snap, up, handler, queue, wire, client, shown, missed, crossed>>
page      == <<srv, idle, timer, active, watching, conn, closing, old, trace, looked>>

ASSUME PeersAssumption == GuardAssumption /\ Stream!StreamAssumption

\* The others stay in one of their initial states.
PeersInit ==
    /\ Init /\ Container!Init /\ Stream!Init /\ Page!Init
    /\ moving \in {"guard", "container", "stream", "page"}
    /\ moving # "container" => inputs /\ ~reachable

PeersNext ==
    \/ moving = "guard" /\ Next /\ UNCHANGED <<container, stream, page, moving>>
    \/ moving = "container" /\ Container!Next /\ UNCHANGED <<vars, stream, page, moving>>
    \/ moving = "stream" /\ Stream!Next /\ UNCHANGED <<vars, container, page, moving>>
    \/ moving = "page" /\ Page!Next /\ UNCHANGED <<vars, container, stream, moving>>

PeersSpec ==
    /\ PeersInit /\ [][PeersNext]_<<vars, container, stream, page, moving>>
    /\ \/ moving = "guard" /\ Fairness
       \/ moving = "container" /\ Container!Fairness
       \/ moving = "stream" /\ Stream!Fairness
       \/ moving = "page" /\ Page!Fairness

\* Entrypoint's properties.
SocksNeedsTunnel == Container!SocksNeedsTunnel
Recovers == Container!Recovers

\* StatusStream's properties.
NeverBack == Stream!NeverBack
FollowsLater == Stream!FollowsLater

\* WebPage's property.
GivesBack == Page!GivesBack
=============================================================================
