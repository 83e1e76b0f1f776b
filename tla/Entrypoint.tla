------------------------------- MODULE Entrypoint -------------------------------
(***************************************************************************)
(* Process 1 of the VPN container (container/context/entrypoint.sh): it    *)
(* installs the SOCKS rules, then keeps vpn.exp, the expect script around  *)
(* openvpn, and danted running.  The shell looks at the world once a       *)
(* second; processes and the tunnel come and go in between.                *)
(***************************************************************************)

VARIABLES
    pc,         \* where the shell is
    inputs,     \* the device, the profile, the auth file and the secret are there
    rules,      \* the rules are in place
    vpn,        \* vpn.exp, VPN_PID
    ovpn,       \* the openvpn it spawned
    old,        \* an openvpn whose vpn.exp was killed
    socks,      \* danted, SOCKS_PID
    signal,     \* INT or TERM has arrived
    reachable   \* the VPN server answers

kids == <<vpn, ovpn, old, socks>>
vars == <<pc, inputs, rules, kids, signal, reachable>>

TypeOK ==
    /\ pc \in {"checks", "rules", "loop", "connecting", "watching", "ending", "delay", "cleanup", "exited"}
    /\ vpn \in {"none", "alive", "dead"} /\ {ovpn, old} \subseteq {"none", "starting", "up"}
    /\ socks \in {"none", "alive", "dead"}
    /\ {inputs, rules, signal, reachable} \subseteq BOOLEAN

Init ==
    /\ pc = "checks" /\ inputs \in BOOLEAN /\ rules = FALSE /\ signal = FALSE
    /\ vpn = "none" /\ ovpn = "none" /\ old = "none" /\ socks = "none" /\ reachable \in BOOLEAN

Tun0 == "up" \in {ovpn, old}

\* healthcheck.sh.
Healthy == Tun0 /\ {ovpn, old} # {"none"} /\ socks = "alive"

----------------------------------------------------------------------------
(* The shell.  A signal is taken between two commands.                     *)

Shell(from, to) ==
    /\ pc = from /\ ~signal /\ pc' = to
    /\ UNCHANGED <<inputs, signal, reachable>>

Checks ==
    /\ Shell("checks", IF inputs THEN "rules" ELSE "cleanup") /\ UNCHANGED <<rules, kids>>

InstallRules ==
    /\ Shell("rules", "loop") /\ rules' = TRUE /\ UNCHANGED kids

\* cleanup_socks kills danted and waits for it.
CleanupSocks == socks' = "none"

\* Killing vpn.exp leaves its openvpn to find its terminal gone, which may take
\* it long enough to bring tun0 up once more.
KillVpn ==
    /\ vpn' = "none" /\ ovpn' = "none"
    /\ old' = IF vpn = "alive" /\ old = "none" THEN ovpn ELSE old

StartVpn ==
    /\ Shell("loop", "connecting") /\ CleanupSocks
    /\ vpn' = "alive" /\ ovpn' = "starting" /\ UNCHANGED <<old, rules>>

ExitedEarly ==
    /\ Shell("connecting", "delay") /\ vpn = "dead" /\ vpn' = "none"
    /\ UNCHANGED <<ovpn, old, socks, rules>>

StartSocks ==
    /\ Shell("connecting", "watching") /\ vpn = "alive" /\ Tun0 /\ socks' = "alive"
    /\ UNCHANGED <<vpn, ovpn, old, rules>>

\* Mutant: only the end of vpn.exp is noticed.
TunGoneUnnoticed == FALSE /\ UNCHANGED vars

TunGone ==
    /\ Shell("watching", "ending") /\ vpn = "alive" /\ ~Tun0 /\ CleanupSocks /\ KillVpn
    /\ UNCHANGED rules

\* Mutant: a danted that dies is left for the next connection.
RestartSocksLater == FALSE /\ UNCHANGED vars

RestartSocks ==
    /\ Shell("watching", "watching") /\ vpn = "alive" /\ Tun0 /\ socks = "dead"
    /\ socks' = "alive" /\ UNCHANGED <<vpn, ovpn, old, rules>>

VpnGone ==
    /\ Shell("watching", "ending") /\ vpn # "alive" /\ UNCHANGED <<rules, kids>>

Disconnected ==
    /\ Shell("ending", "delay") /\ CleanupSocks /\ KillVpn /\ UNCHANGED rules

Retry == Shell("delay", "loop") /\ UNCHANGED <<rules, kids>>

\* trap 'exit 0' INT TERM.
Leave ==
    /\ signal /\ pc \notin {"cleanup", "exited"} /\ pc' = "cleanup"
    /\ UNCHANGED <<inputs, rules, kids, signal, reachable>>

\* trap cleanup_all EXIT; what is left ends with process 1.
CleanupAll ==
    /\ pc = "cleanup" /\ pc' = "exited" /\ CleanupSocks
    /\ vpn' = "none" /\ ovpn' = "none" /\ old' = "none" /\ signal' = FALSE /\ rules' = FALSE
    /\ UNCHANGED <<inputs, reachable>>

Script ==
    \/ Checks \/ InstallRules \/ StartVpn \/ ExitedEarly \/ StartSocks \/ TunGone
    \/ RestartSocks \/ VpnGone \/ Disconnected \/ Retry \/ Leave \/ CleanupAll

----------------------------------------------------------------------------
(* The processes, the server and the engine.                               *)

Openvpn(was, is) ==
    /\ ovpn = was /\ ovpn' = is
    /\ UNCHANGED <<pc, inputs, rules, vpn, old, socks, signal, reachable>>

\* The one-time code is accepted and the tunnel comes up.
Connect == reachable /\ Openvpn("starting", "up")

\* openvpn takes the tunnel down to reconnect, without ending.
Reconnect == ~reachable /\ Openvpn("up", "starting")

OldConnects ==
    /\ reachable /\ old = "starting" /\ old' = "up"
    /\ UNCHANGED <<pc, inputs, rules, vpn, ovpn, socks, signal, reachable>>

\* openvpn ends, and vpn.exp with it.
Ends ==
    /\ ~reachable /\ ovpn # "none" /\ vpn = "alive" /\ vpn' = "dead" /\ ovpn' = "none"
    /\ UNCHANGED <<pc, inputs, rules, old, socks, signal, reachable>>

OldEnds ==
    /\ old # "none" /\ old' = "none" /\ UNCHANGED <<pc, inputs, rules, vpn, ovpn, socks, signal, reachable>>

SocksDies ==
    /\ socks = "alive" /\ socks' = "dead"
    /\ UNCHANGED <<pc, inputs, rules, vpn, ovpn, old, signal, reachable>>

Server ==
    /\ reachable' = ~reachable /\ UNCHANGED <<pc, inputs, rules, kids, signal>>

\* docker stop, docker start.
Stop ==
    /\ ~signal /\ pc # "exited" /\ signal' = TRUE
    /\ UNCHANGED <<pc, inputs, rules, kids, reachable>>

Start ==
    /\ pc = "exited" /\ pc' = "checks" /\ inputs' \in BOOLEAN
    /\ UNCHANGED <<rules, kids, signal, reachable>>

Next ==
    \/ Script \/ Connect \/ Reconnect \/ OldConnects \/ Ends \/ OldEnds \/ SocksDies \/ Server \/ Stop \/ Start

Spec == Init /\ [][Next]_vars

\* The shell's loops sleep and go on; not every connection to a reachable server
\* comes too late; an openvpn without a terminal ends.
Fairness == WF_vars(Script) /\ SF_vars(Connect) /\ WF_vars(OldEnds)

FairSpec == Spec /\ Fairness

----------------------------------------------------------------------------

\* "VPN up -> SOCKS traffic via tun0; VPN down -> SOCKS traffic blocked"
\* (entrypoint.sh:148-149): danted only runs behind the rules, and never for
\* long without a tunnel.
SocksNeedsTunnel ==
    /\ [](socks = "alive" => rules)
    /\ (socks = "alive" /\ ~Tun0) ~> (socks # "alive" \/ Tun0)

\* Once the server stays reachable and danted does not die by itself, the
\* container becomes healthy and stays so, unless it is told to stop: wherever
\* openvpn, the tunnel or danted went before.
Recovers ==
    <>[](reachable /\ inputs /\ ~signal) /\ <>[](pc # "exited") /\ <>[][~SocksDies]_vars
        => <>[]Healthy
=============================================================================
