------------------------------ MODULE DnsRouter ------------------------------
(***************************************************************************)
(* The split-horizon resolver (resolver.resolve, internal/dnsrouter): a    *)
(* query is raced to a public resolver and to the name servers the VPN     *)
(* pushed, and the address that wins is all that sing-box's route rules    *)
(* (internal/singbox/generate.go) decide from.                             *)
(*                                                                         *)
(* Queries share nothing but the list of servers (VpnDns), which each      *)
(* reads once, so there is one at a time.  Ticks pass only when the        *)
(* program has nothing left to do.                                         *)
(***************************************************************************)
EXTENDS Naturals

CONSTANTS
    Servers,                    \* name servers the VPN may push
    Timeout, Grace, Slack       \* queryTimeout, graceWindow, 200ms

DnsAssumption == Timeout \in Nat /\ Grace \in Nat /\ Slack \in Nat \ {0}

VARIABLES
    online,     \* the public resolver answers
    q,          \* the query
    reply       \* to the last one

vars == <<online, q, reply>>

Branches == {"public", "internal"}

\* What a message says: an address in 10/8, 100.64/10 or fc00::/7, one in
\* 172.16/12 or 192.168/16, another one, none, or another code than NOERROR.
Success == {"corporate", "lan", "world", "empty"}
Messages == Success \cup {"failed"}
\* What an exchange over the proxy's UDP association yields: an answer, or an
\* error at one of its steps.
Exchanged == Messages \cup {"error"}
IsPrivate(m) == m \in {"corporate", "lan"}

\* asked: servers that have not answered yet; firstOK: the answer queryInternal
\* holds back; chan: what the two branches sent; got, done: what resolve received,
\* and from whom it expects nothing more; left: ticks to its deadline; pubAge:
\* the age of the query when resolve had the public answer; steady: the public
\* branch ended while the resolver answered; heard: what the servers answered.
Queries ==
    [name : {"none", "public", "corporate"}, asked : SUBSET Servers,
     firstOK : Messages \cup {"none"}, chan : [Branches -> Messages \cup {"none", "error"}],
     got : [Branches -> Messages \cup {"none", "error"}], done : [Branches -> BOOLEAN],
     left : Nat, age : Nat, pubAge : Nat, steady : BOOLEAN, heard : SUBSET Exchanged]

Replies == [by : Branches \cup {"nobody"}, says : Messages]

TypeOK == online \in BOOLEAN /\ q \in Queries /\ reply \in Replies

Unheard == [b \in Branches |-> "none"]

NoQuery ==
    [name |-> "none", asked |-> {}, firstOK |-> "none", chan |-> Unheard, got |-> Unheard,
     done |-> [b \in Branches |-> FALSE], left |-> 0, age |-> 0, pubAge |-> 0, steady |-> TRUE, heard |-> {}]

Init == online \in BOOLEAN /\ q = NoQuery /\ reply = [by |-> "nobody", says |-> "failed"]

----------------------------------------------------------------------------
(* Routing.  The first rule that matches decides, and the racer if none    *)
(* does; sniffing decides nothing by itself.                               *)

Connections ==
    [process : {"vpnctl", "app"}, dns : BOOLEAN, forced : BOOLEAN,
     dest : {"corporate", "lan", "world"}, network : {"tcp", "udp"}]

OwnTraffic == [to |-> "direct", for |-> {c \in Connections : c.process = "vpnctl"}]
HijackDns  == [to |-> "hijack-dns", for |-> {c \in Connections : c.dns}]
ForceVpn   == [to |-> "vpn-direct", for |-> {c \in Connections : c.forced}]
Lan        == [to |-> "direct", for |-> {c \in Connections : c.dest = "lan"}]
Corporate  == [to |-> "vpn-direct", for |-> {c \in Connections : c.dest = "corporate"}]
OtherUdp   == [to |-> "direct", for |-> {c \in Connections : c.network = "udp"}]

\* Mutant: the router's own queries are hijacked, too.
RulesHijackFirst == <<HijackDns, OwnTraffic, ForceVpn, Lan, Corporate, OtherUdp>>

Rules == <<OwnTraffic, HijackDns, ForceVpn, Lan, Corporate, OtherUdp>>

Outbound(c) ==
    LET matching == {i \in DOMAIN Rules : c \in Rules[i].for}
    IN  IF matching = {} THEN "racer"
        ELSE Rules[CHOOSE i \in matching : \A j \in matching : i <= j].to

OwnQuery == [process |-> "vpnctl", dns |-> TRUE, forced |-> FALSE, dest |-> "world", network |-> "udp"]

----------------------------------------------------------------------------
(* The two branches of a query.                                            *)

Ask(n, servers) ==
    /\ q.name = "none"
    /\ q' = [q EXCEPT !.name = n, !.left = Timeout + Slack, !.asked = servers,
                      !.chan["internal"] = IF servers = {} THEN "error" ELSE "none"]
    /\ UNCHANGED <<online, reply>>

PublicReply(m) ==
    /\ q.name # "none" /\ q.chan["public"] = "none" /\ ~q.done["public"]
    /\ IF online /\ Outbound(OwnQuery) = "direct"
          THEN m = IF q.name = "corporate" THEN "failed" ELSE "world"
          ELSE m = "error"
    /\ q' = [q EXCEPT !.chan["public"] = m, !.steady = online]
    /\ UNCHANGED <<online, reply>>

\* Mutant: the first answer wins, whatever it says.
CollectedFirst(rest, ok) == IF ok # "none" THEN ok ELSE IF rest # {} THEN "none" ELSE "error"

Collected(rest, ok) ==
    IF rest # {} THEN "none" ELSE IF ok = "none" THEN "error" ELSE ok

\* A private answer wins at once, another waits for the rest.
ServerReply(s, m) ==
    /\ s \in q.asked /\ ~q.done["internal"] /\ q.chan["internal"] = "none"
    /\ LET ok == IF q.firstOK = "none" /\ m # "error" THEN m ELSE q.firstOK
           rest == q.asked \ {s}
       IN  q' = [q EXCEPT !.asked = rest, !.firstOK = ok, !.heard = @ \cup {m},
                          !.chan["internal"] = IF IsPrivate(m) THEN m ELSE Collected(rest, ok)]
    /\ UNCHANGED <<online, reply>>

----------------------------------------------------------------------------
(* resolve.                                                                *)

Decided == (q.done["public"] /\ q.done["internal"]) \/ IsPrivate(q.got["internal"])

\* Mutant: a public answer does not shorten the wait.
LeftUnshortened(b) == q.left

LeftAfter(b) ==
    IF b = "public" /\ q.chan[b] \in Success /\ ~q.done["internal"] THEN Grace ELSE q.left

Receivable(b) == ~Decided /\ ~q.done[b] /\ q.chan[b] # "none"

Receive(b) ==
    /\ Receivable(b)
    /\ q' = [q EXCEPT !.got[b] = q.chan[b], !.done[b] = TRUE, !.left = LeftAfter(b),
                      !.pubAge = IF b = "public" THEN q.age ELSE @]
    /\ UNCHANGED <<online, reply>>

Expired == q.name # "none" /\ ~Decided /\ q.left = 0

Expire ==
    /\ Expired /\ q' = [q EXCEPT !.done = [b \in Branches |-> TRUE]]
    /\ UNCHANGED <<online, reply>>

Decision ==
    IF IsPrivate(q.got["internal"]) THEN [by |-> "internal", says |-> q.got["internal"]]
    ELSE IF q.got["public"] \in Success THEN [by |-> "public", says |-> q.got["public"]]
    ELSE IF q.got["internal"] \in Success THEN [by |-> "internal", says |-> q.got["internal"]]
    ELSE [by |-> "nobody", says |-> "failed"]

Answer == Decided /\ reply' = Decision /\ q' = NoQuery /\ UNCHANGED online

Resolve == (\E b \in Branches : Receive(b)) \/ Expire \/ Answer

\* The public branch gives up after Timeout.
Tick ==
    /\ q.name # "none" /\ ~Decided /\ ~Expired /\ \A b \in Branches : ~Receivable(b)
    /\ q.age < Timeout \/ q.done["public"]
    /\ q' = [q EXCEPT !.age = @ + 1, !.left = @ - 1]
    /\ UNCHANGED <<online, reply>>

Network == online' = ~online /\ UNCHANGED <<q, reply>>

Next ==
    \/ \E n \in {"corporate", "public"}, servers \in SUBSET Servers : Ask(n, servers)
    \/ \E m \in Exchanged : PublicReply(m) \/ \E s \in Servers : ServerReply(s, m)
    \/ Resolve \/ Tick \/ Network

Spec == Init /\ [][Next]_vars

----------------------------------------------------------------------------

\* A private answer wins (dnsrouter.go:11): the client is only told something
\* else when every name server has answered and none of them privately, or when
\* there was no more time for them.
PrivateWins ==
    [][Answer /\ ~IsPrivate(reply'.says) =>
        q.left = 0 \/ (q.asked = {} /\ \A m \in q.heard : ~IsPrivate(m))]_vars

\* An ordinary lookup is not stalled by silent name servers, and no lookup waits
\* for longer than the deadline, or a grace window begun just before it.
InTime ==
    /\ q.age <= Timeout + (IF Slack > Grace THEN Slack ELSE Grace)
    /\ q.got["public"] \in Success => q.age <= q.pubAge + Grace

\* "With the VPN down, the resolver falls back to public DNS" (README.md:329):
\* while the public resolver answers, a public name resolves whatever the name
\* servers do; the router's own query does not come back to it.
FailsOpen == [][Answer /\ q.name = "public" /\ q.steady => reply'.says \in Success]_vars
=============================================================================
