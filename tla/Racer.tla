-------------------------------- MODULE Racer --------------------------------
(***************************************************************************)
(* The TCP racer (internal/racer/racer.go): every connection through the   *)
(* proxy is dialled over the path learned for its address, or raced over   *)
(* both; the winner is learned, bound to a generation of the network and   *)
(* to a time limit.                                                        *)
(*                                                                         *)
(* A dialer is a connection's goroutine with the two dial goroutines and   *)
(* the closers of its last race.  The table is a sync.Map: loading,        *)
(* deleting and storing an entry are separate steps.                       *)
(***************************************************************************)
EXTENDS Naturals, FiniteSets

CONSTANTS
    Dialers,    \* connections being dialled at once
    Addrs,      \* destinations
    Nothing,    \* no entry
    TTL,        \* LearnedTTL in ticks; 0: no limit
    ProvTTL,    \* ProvisionalTTL in ticks; 0: as LearnedTTL
    HeadStart,  \* whether DirectHeadStart > 0
    MaxGen      \* bound: how often the network changes

ASSUME RacerAssumption ==
    /\ TTL \in Nat /\ ProvTTL \in Nat /\ HeadStart \in BOOLEAN /\ MaxGen \in Nat

VARIABLES
    gen,        \* the supervisor's network generation
    link,       \* "good": direct dials connect, within the head start
    learned,    \* r.learned
    at,         \* where each dialer is
    addr,       \* the address it dials
    seen,       \* the entry it loaded
    conn,       \* its two dials: goroutine, result, connection
    over,       \* headStartOver
    closing     \* dials whose result a closeLate goroutine waits for

dial == <<at, addr, seen, conn, over, closing>>
vars == <<gen, link, learned, dial>>

Paths   == {"direct", "socks"}
Max2(m, n) == IF m > n THEN m ELSE n
Ages    == 0 .. Max2(TTL, ProvTTL)

\* `beaten` is history: whether direct had failed.
Entries == [via : Paths, gen : Nat, age : Ages, slow : BOOLEAN, beaten : BOOLEAN]

\* "up" and "down" are results in the channel; "held" (a socks connection) and
\* "failed" are results the race has received.
Results == {"none", "dialling", "up", "down", "held", "failed", "returned"}
Idle    == [p \in Paths |-> "none"]

TypeOK ==
    /\ gen \in Nat /\ link \in {"bad", "good"}
    /\ learned \in [Addrs -> Entries \cup {Nothing}]
    /\ at \in [Dialers -> {"idle", "load", "check", "learned", "race"}]
    /\ addr \in [Dialers -> Addrs] /\ seen \in [Dialers -> Entries \cup {Nothing}]
    /\ conn \in [Dialers -> [Paths -> Results]]
    /\ over \in [Dialers -> BOOLEAN] /\ closing \in [Dialers -> SUBSET Paths]

Init ==
    /\ gen = 0 /\ link \in {"bad", "good"} /\ learned = [a \in Addrs |-> Nothing]
    /\ at = [d \in Dialers |-> "idle"] /\ addr \in [Dialers -> Addrs]
    /\ seen = [d \in Dialers |-> Nothing] /\ conn = [d \in Dialers |-> Idle]
    /\ over = [d \in Dialers |-> FALSE] /\ closing = [d \in Dialers |-> {}]

Set(f, d, v) == [f EXCEPT ![d] = v]

----------------------------------------------------------------------------
(* dialLocked: the learned path first.                                     *)

\* The slot of an earlier connection is free once its closers are done.
Call(d, a) ==
    /\ at[d] = "idle" /\ closing[d] = {}
    /\ at' = Set(at, d, "load") /\ addr' = Set(addr, d, a)
    /\ conn' = Set(conn, d, Idle)
    /\ UNCHANGED <<gen, link, learned, seen, over, closing>>

Load(d) ==
    /\ at[d] = "load"
    /\ at' = Set(at, d, "check") /\ seen' = Set(seen, d, learned[addr[d]])
    /\ UNCHANGED <<gen, link, learned, addr, conn, over, closing>>

\* Mutant: the time limits are not applied.
StaleNetworkOnly(e) == e.gen # gen

\* stale: another network, or past its limit.
Limit(e) == IF e.slow /\ ProvTTL > 0 THEN ProvTTL ELSE TTL
Stale(e) == e.gen # gen \/ (Limit(e) > 0 /\ e.age >= Limit(e))

\* The start of race: both dials go off.
BeginRace(d) ==
    /\ at' = Set(at, d, "race") /\ over' = Set(over, d, ~HeadStart)
    /\ conn' = Set(conn, d, [p \in Paths |-> "dialling"])
    /\ seen' = Set(seen, d, Nothing)
    /\ UNCHANGED <<gen, link, addr, closing>>

RaceUnknown(d) ==
    /\ at[d] = "check" /\ seen[d] = Nothing
    /\ BeginRace(d) /\ learned' = learned

\* Whatever the table holds by now is deleted.
RaceStale(d) ==
    /\ at[d] = "check" /\ seen[d] # Nothing /\ Stale(seen[d])
    /\ BeginRace(d) /\ learned' = Set(learned, addr[d], Nothing)

DialLearned(d) ==
    /\ at[d] = "check" /\ seen[d] # Nothing /\ ~Stale(seen[d])
    /\ at' = Set(at, d, "learned")
    /\ UNCHANGED <<gen, link, learned, addr, seen, conn, over, closing>>

LearnedConnects(d) ==
    /\ at[d] = "learned"
    /\ at' = Set(at, d, "idle") /\ seen' = Set(seen, d, Nothing)
    /\ conn' = [conn EXCEPT ![d][seen[d].via] = "returned"]
    /\ UNCHANGED <<gen, link, learned, addr, over, closing>>

LearnedFails(d) ==
    /\ at[d] = "learned" /\ ~(seen[d].via = "direct" /\ link = "good")
    /\ BeginRace(d) /\ learned' = Set(learned, addr[d], Nothing)

----------------------------------------------------------------------------
(* The dial goroutines and the closers.                                    *)

Connects(d, p) ==
    /\ conn[d][p] = "dialling" /\ conn' = [conn EXCEPT ![d][p] = "up"]
    /\ UNCHANGED <<gen, link, learned, at, addr, seen, over, closing>>

\* Also by the dial timeout, or because the race is over (its context is
\* cancelled).
Fails(d, p) ==
    /\ conn[d][p] = "dialling" /\ ~(p = "direct" /\ link = "good" /\ at[d] = "race")
    /\ conn' = [conn EXCEPT ![d][p] = "down"]
    /\ UNCHANGED <<gen, link, learned, at, addr, seen, over, closing>>

CloseLate(d, p) ==
    /\ p \in closing[d] /\ conn[d][p] \in {"up", "down"}
    /\ conn' = [conn EXCEPT ![d][p] = "none"] /\ closing' = [closing EXCEPT ![d] = @ \ {p}]
    /\ UNCHANGED <<gen, link, learned, at, addr, seen, over>>

----------------------------------------------------------------------------
(* race: the select over both results and the head start.                  *)

Learn(d, p, slow) ==
    learned' = Set(learned, addr[d],
        [via |-> p, gen |-> gen, age |-> 0, slow |-> slow,
         beaten |-> conn[d]["direct"] \in {"down", "failed"}])

\* The race is over: p's connection goes to the caller, `late` to a closer.
Win(d, p, slow, other, late) ==
    /\ Learn(d, p, slow) /\ at' = Set(at, d, "idle") /\ closing' = Set(closing, d, late)
    /\ conn' = Set(conn, d, [q \in Paths |-> IF q = p THEN "returned" ELSE other])
    /\ UNCHANGED <<gen, link, addr, seen>>

\* Mutant: the loser of a race that direct wins is left to itself.
DirectWinsAlone(d) ==
    /\ at[d] = "race" /\ conn[d]["direct"] = "up"
    /\ Win(d, "direct", FALSE, conn[d]["socks"], {}) /\ over' = over

\* A held socks connection is closed, a pending one when it comes.
DirectWins(d) ==
    /\ at[d] = "race" /\ conn[d]["direct"] = "up"
    /\ IF conn[d]["socks"] \in {"held", "failed"}
          THEN Win(d, "direct", FALSE, "none", {})
          ELSE Win(d, "direct", FALSE, conn[d]["socks"], {"socks"})
    /\ over' = over

\* Mutant: a socks win over a slow direct dial is trusted in full.
SocksWinsFully(d) == Win(d, "socks", FALSE, conn[d]["direct"], {"direct"})

\* socksWins: direct is still pending.
SocksWins(d) == Win(d, "socks", TRUE, conn[d]["direct"], {"direct"})

BothFailed(d) ==
    /\ at' = Set(at, d, "idle") /\ conn' = Set(conn, d, Idle)
    /\ UNCHANGED <<gen, link, learned, addr, seen, over, closing>>

DirectFails(d) ==
    /\ at[d] = "race" /\ conn[d]["direct"] = "down"
    /\ CASE conn[d]["socks"] = "held"   -> Win(d, "socks", FALSE, "none", {}) /\ over' = over
         [] conn[d]["socks"] = "failed" -> BothFailed(d)
         [] OTHER -> /\ conn' = [conn EXCEPT ![d]["direct"] = "failed"]
                     /\ UNCHANGED <<gen, link, learned, at, addr, seen, over, closing>>

SocksConnects(d) ==
    /\ at[d] = "race" /\ conn[d]["socks"] = "up" /\ over' = over
    /\ CASE conn[d]["direct"] = "failed" -> Win(d, "socks", FALSE, "none", {})
         [] conn[d]["direct"] # "failed" /\ over[d] -> SocksWins(d)
         [] OTHER -> /\ conn' = [conn EXCEPT ![d]["socks"] = "held"]
                     /\ UNCHANGED <<gen, link, learned, at, addr, seen, closing>>

SocksFails(d) ==
    /\ at[d] = "race" /\ conn[d]["socks"] = "down"
    /\ IF conn[d]["direct"] = "failed" THEN BothFailed(d)
       ELSE /\ conn' = [conn EXCEPT ![d]["socks"] = "failed"]
            /\ UNCHANGED <<gen, link, learned, at, addr, seen, over, closing>>

\* On a good link direct has connected by now.
HeadStartOver(d) ==
    /\ at[d] = "race" /\ ~over[d]
    /\ ~(link = "good" /\ conn[d]["direct"] \in {"dialling", "up"})
    /\ over' = Set(over, d, TRUE)
    /\ IF conn[d]["socks"] = "held" /\ conn[d]["direct"] # "failed" THEN SocksWins(d)
       ELSE UNCHANGED <<gen, link, learned, at, addr, seen, conn, closing>>

----------------------------------------------------------------------------
(* Time, the network, and the specification.                               *)

Older(e) == IF e = Nothing THEN e
            ELSE [e EXCEPT !.age = IF @ + 1 \in Ages THEN @ + 1 ELSE @]

Tick ==
    /\ learned' = [a \in Addrs |-> Older(learned[a])]
    /\ seen' = [d \in Dialers |-> Older(seen[d])]
    /\ UNCHANGED <<gen, link, at, addr, conn, over, closing>>

\* bumpGeneration: a network change, or the container came and went.
Bump == gen < MaxGen /\ gen' = gen + 1 /\ UNCHANGED <<link, learned, dial>>

LinkChanges == link' \in {"bad", "good"} \ {link} /\ UNCHANGED <<gen, learned, dial>>

Lookup(d) ==
    \/ Load(d) \/ RaceUnknown(d) \/ RaceStale(d) \/ DialLearned(d)
    \/ LearnedConnects(d) \/ LearnedFails(d)
Race(d) ==
    \/ DirectWins(d) \/ DirectFails(d) \/ SocksConnects(d) \/ SocksFails(d) \/ HeadStartOver(d)
Answer(d, p) == Connects(d, p) \/ Fails(d, p) \/ CloseLate(d, p)

Next ==
    \/ \E d \in Dialers : \/ Lookup(d) \/ Race(d)
                          \/ \E a \in Addrs : Call(d, a)
                          \/ \E p \in Paths : Answer(d, p)
    \/ Tick \/ Bump \/ LinkChanges

Spec == Init /\ [][Next]_vars

\* A dial ends within its timeout, whatever waits in a channel is received,
\* and time passes.
Fairness ==
    /\ \A d \in Dialers : /\ WF_vars(Lookup(d)) /\ WF_vars(Race(d))
                          /\ \A p \in Paths : WF_vars(Answer(d, p))
    /\ WF_vars(Tick)

FairSpec == Spec /\ Fairness

----------------------------------------------------------------------------

\* "Direct was slow is a much weaker claim than direct does not work"
\* (racer.go:222-226): a socks path trusted for the whole LearnedTTL was learned
\* in a race whose direct dial had failed.
FullTrustEarned ==
    \A a \in Addrs : learned[a] # Nothing /\ learned[a].via = "socks" /\ ~learned[a].slow
                        => learned[a].beaten

\* Every connection a race opens is returned or closed: what is still pending
\* or unread when the race is over has a closer, nothing is held, and the
\* caller never gets two (racer.go:261-269).
NothingLeaks ==
    \A d \in Dialers : at[d] = "idle" =>
        /\ \A p \in Paths : conn[d][p] \in {"dialling", "up", "down"} => p \in closing[d]
        /\ \A p \in Paths : conn[d][p] # "held"
        /\ ~(conn[d]["direct"] = "returned" /\ conn[d]["socks"] = "returned")

\* "The destination should get another chance to go direct once the link
\* recovers rather than staying on the tunnel" (racer.go:86-90): while direct
\* works again for good, an address that keeps being dialled is not left on
\* socks.
DirectAgain ==
    <>[](link = "good") =>
        \A a \in Addrs : []<><<\E d \in Dialers : Call(d, a)>>_vars =>
            []<>(learned[a] = Nothing \/ learned[a].via = "direct")
=============================================================================
