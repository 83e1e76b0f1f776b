----------------------------- MODULE RacerProofs -----------------------------
(***************************************************************************)
(* For any number of connections, destinations and network changes, and    *)
(* any time limits of Racer: full trust is earned, and every connection a  *)
(* race opens is returned or closed.                                       *)
(***************************************************************************)
EXTENDS Racer, TLAPS

Trusted(e) == e # Nothing /\ e.via = "socks" /\ ~e.slow => e.beaten

\* The strengthening of FullTrustEarned: the table and what is stored into it.
Table ==
    /\ addr \in [Dialers -> Addrs]
    /\ learned \in [Addrs -> Entries \cup {Nothing}]
    /\ \A a \in Addrs : Trusted(learned[a])

\* What a race stores is an entry; full trust in socks needs a direct dial that
\* had failed by then.
LEMMA LearnTable ==
    ASSUME Table, gen \in Nat, NEW d \in Dialers, NEW p \in Paths, NEW slow \in BOOLEAN,
           Learn(d, p, slow), addr' = addr,
           p = "direct" \/ slow \/ conn[d]["direct"] \in {"down", "failed"}
    PROVE  Table'
<1> DEFINE e == [via |-> p, gen |-> gen, age |-> 0, slow |-> slow,
                 beaten |-> conn[d]["direct"] \in {"down", "failed"}]
<1>1. 0 \in Ages
  BY RacerAssumption DEF Ages, Max2
<1>2. e \in Entries
  BY <1>1 DEF Entries
<1>3. Trusted(e)
  BY DEF Trusted, Paths
<1>4. learned' = [learned EXCEPT ![addr[d]] = e]
  BY DEF Learn, Set
<1>5. addr[d] \in Addrs
  BY DEF Table
<1>6. QED
  <2> HIDE DEF e
  <2>1. learned' \in [Addrs -> Entries \cup {Nothing}]
    BY <1>2, <1>4 DEF Table
  <2>2. \A a \in Addrs : learned'[a] = learned[a] \/ learned'[a] = e
    BY <1>4 DEF Table
  <2>3. \A a \in Addrs : Trusted(learned'[a])
    BY <1>3, <2>2 DEF Table
  <2>4. QED
    BY <2>1, <2>3 DEF Table, Trusted

\* Growing older leaves an entry an entry, and its trust as it was.
LEMMA OlderEntry ==
    ASSUME NEW x \in Entries \cup {Nothing}, Trusted(x)
    PROVE  Older(x) \in Entries \cup {Nothing} /\ Trusted(Older(x))
<1>1. CASE x = Nothing
  BY <1>1 DEF Older, Trusted
<1>2. CASE x # Nothing
  <2> DEFINE y == [x EXCEPT !.age = IF @ + 1 \in Ages THEN @ + 1 ELSE @]
  <2>1. y \in Entries
    BY <1>2 DEF Entries
  <2>2. y.via = x.via /\ y.slow = x.slow /\ y.beaten = x.beaten
    BY <1>2 DEF Entries
  <2>3. Older(x) = y
    BY <1>2 DEF Older
  <2> HIDE DEF y
  <2>4. QED BY <1>2, <2>1, <2>2, <2>3 DEF Trusted
<1>3. QED BY <1>1, <1>2

\* Deleting an entry, or changing nothing.
LEMMA ForgetTable ==
    ASSUME Table, addr' = addr,
           learned' = learned \/ \E a \in Addrs : learned' = Set(learned, a, Nothing)
    PROVE  Table'
BY DEF Table, Set, Trusted

\* The generation is a number.
Numbered == gen \in Nat

\* Every step keeps it one.
LEMMA GenStep == Numbered /\ [Next]_vars => Numbered'
<1> SUFFICES ASSUME Numbered, [Next]_vars PROVE Numbered'
  OBVIOUS
<1> USE DEF Numbered
<1>1. CASE Bump
  BY <1>1 DEF Bump
<1>2. CASE gen' = gen
  BY <1>2
<1>3. ASSUME NEW d \in Dialers, Lookup(d) PROVE gen' = gen
  BY <1>3 DEF Lookup, Load, RaceUnknown, RaceStale, DialLearned, LearnedConnects, LearnedFails,
              BeginRace
<1>4. ASSUME NEW d \in Dialers, Race(d) PROVE gen' = gen
  BY <1>4 DEF Race, DirectWins, DirectFails, SocksConnects, SocksFails, HeadStartOver, SocksWins,
              BothFailed, Win
<1>5. CASE Tick \/ LinkChanges \/ UNCHANGED vars
  BY <1>5 DEF Tick, LinkChanges, vars
<1>6. ASSUME NEW d \in Dialers, NEW a \in Addrs, Call(d, a) PROVE gen' = gen
  BY <1>6 DEF Call
<1>7. ASSUME NEW d \in Dialers, NEW p \in Paths, Answer(d, p) PROVE gen' = gen
  BY <1>7 DEF Answer, Connects, Fails, CloseLate
<1>8. QED BY <1>1, <1>2, <1>3, <1>4, <1>5, <1>6, <1>7 DEF Next

\* Every step keeps the table trustworthy.
LEMMA TableStep == Numbered /\ Table /\ [Next]_vars => Table'
<1> SUFFICES ASSUME Numbered, Table, [Next]_vars PROVE Table'
  OBVIOUS
<1> USE DEF Numbered
<1>1. ASSUME NEW d \in Dialers, Lookup(d) PROVE Table'
  <2>1. addr[d] \in Addrs
    BY DEF Table
  <2>2. addr' = addr
    BY <1>1 DEF Lookup, Load, RaceUnknown, RaceStale, DialLearned, LearnedConnects, LearnedFails,
                BeginRace
  <2>3. learned' = learned \/ learned' = Set(learned, addr[d], Nothing)
    BY <1>1 DEF Lookup, Load, RaceUnknown, RaceStale, DialLearned, LearnedConnects, LearnedFails
  <2>4. QED BY <2>1, <2>2, <2>3, ForgetTable
<1>2. ASSUME NEW d \in Dialers, Race(d) PROVE Table'
  <2>1. CASE DirectWins(d)
    BY <2>1, LearnTable DEF DirectWins, Win, Paths
  <2>2. CASE DirectFails(d)
    BY <2>2, LearnTable, ForgetTable DEF DirectFails, Win, BothFailed, Paths
  <2>3. CASE SocksConnects(d)
    BY <2>3, LearnTable, ForgetTable DEF SocksConnects, SocksWins, Win, Paths
  <2>4. CASE SocksFails(d)
    BY <2>4, ForgetTable DEF SocksFails, BothFailed
  <2>5. CASE HeadStartOver(d)
    BY <2>5, LearnTable, ForgetTable DEF HeadStartOver, SocksWins, Win, Paths
  <2>6. QED BY <1>2, <2>1, <2>2, <2>3, <2>4, <2>5 DEF Race
<1>3. ASSUME NEW d \in Dialers, NEW a \in Addrs, Call(d, a) PROVE Table'
  BY <1>3 DEF Call, Table, Set, Trusted
<1>4. ASSUME NEW d \in Dialers, NEW p \in Paths, Answer(d, p) PROVE Table'
  BY <1>4, ForgetTable DEF Answer, Connects, Fails, CloseLate
<1>5. CASE Tick
  <2>1. learned' = [a \in Addrs |-> Older(learned[a])] /\ addr' = addr
    BY <1>5 DEF Tick
  <2>2. \A a \in Addrs : Older(learned[a]) \in Entries \cup {Nothing} /\ Trusted(Older(learned[a]))
    BY OlderEntry DEF Table
  <2>3. learned' \in [Addrs -> Entries \cup {Nothing}]
    BY <2>1, <2>2
  <2>4. \A a \in Addrs : Trusted(learned'[a])
    BY <2>1, <2>2
  <2>5. QED BY <2>1, <2>3, <2>4 DEF Table, Trusted
<1>6. CASE Bump \/ LinkChanges \/ UNCHANGED vars
  BY <1>6, ForgetTable DEF Bump, LinkChanges, vars, dial
<1>7. QED BY <1>1, <1>2, <1>3, <1>4, <1>5, <1>6 DEF Next

\* A socks path trusted for the whole LearnedTTL was learned in a race whose direct
\* dial had failed (FullTrustEarned, racer.go:222-226).
THEOREM TrustEarned == Spec => []FullTrustEarned
<1>1. Init => Numbered /\ Table
  BY DEF Init, Numbered, Table, Trusted
<1>2. Table => FullTrustEarned
  BY DEF Table, Trusted, FullTrustEarned
<1>3. QED BY <1>1, <1>2, GenStep, TableStep, PTL DEF Spec

Pending == {"dialling", "up", "down"}
Places  == {"idle", "load", "check", "learned", "race"}

\* One connection, whose dials are at d and s, with what closers wait for: while
\* it looks up its path it has nothing open; while it races it has two dials and
\* nothing to close; afterwards there is nothing left behind.
Tended(place, d, s, late) ==
    /\ place \in {"load", "check", "learned"} => d = "none" /\ s = "none" /\ late = {}
    /\ place = "race" => d \in Pending \cup {"failed"} /\ s \in Pending \cup {"held", "failed"} /\ late = {}
    /\ place = "idle" =>
        /\ d \in Pending => "direct" \in late
        /\ s \in Pending => "socks" \in late
        /\ d # "held" /\ s # "held" /\ ~(d = "returned" /\ s = "returned")

\* The strengthening of NothingLeaks.
AllTended ==
    /\ at \in [Dialers -> Places]
    /\ conn \in [Dialers -> [Paths -> Results]] /\ closing \in [Dialers -> SUBSET Paths]
    /\ \A k \in Dialers : Tended(at[k], conn[k]["direct"], conn[k]["socks"], closing[k])

\* A step of one connection leaves the others alone.
LEMMA OneMoves ==
    ASSUME AllTended, NEW k \in Dialers, NEW place \in Places, NEW dials \in [Paths -> Results],
           NEW late \in SUBSET Paths,
           at' = [at EXCEPT ![k] = place], conn' = [conn EXCEPT ![k] = dials],
           closing' = [closing EXCEPT ![k] = late],
           Tended(place, dials["direct"], dials["socks"], late)
    PROVE  AllTended'
<1>1. /\ at' \in [Dialers -> Places] /\ conn' \in [Dialers -> [Paths -> Results]]
      /\ closing' \in [Dialers -> SUBSET Paths]
  BY DEF AllTended
<1>2. ASSUME NEW j \in Dialers
      PROVE  Tended(at'[j], conn'[j]["direct"], conn'[j]["socks"], closing'[j])
  <2>1. CASE j = k
    BY <2>1 DEF AllTended
  <2>2. CASE j # k
    <3>1. at'[j] = at[j] /\ conn'[j] = conn[j] /\ closing'[j] = closing[j]
      BY <2>2 DEF AllTended
    <3>2. Tended(at[j], conn[j]["direct"], conn[j]["socks"], closing[j])
      BY DEF AllTended
    <3>3. QED BY <3>1, <3>2
  <2>3. QED BY <2>1, <2>2
<1>3. QED BY <1>1, <1>2 DEF AllTended, Tended

\* One dial of a connection changes, and perhaps where it is and what is waited for.
LEMMA OneDial ==
    ASSUME AllTended, NEW k \in Dialers, NEW p \in Paths, NEW r \in Results,
           NEW place \in Places, NEW late \in SUBSET Paths,
           at' = [at EXCEPT ![k] = place], closing' = [closing EXCEPT ![k] = late],
           conn' = [conn EXCEPT ![k][p] = r],
           Tended(place, IF p = "direct" THEN r ELSE conn[k]["direct"],
                         IF p = "socks" THEN r ELSE conn[k]["socks"], late)
    PROVE  AllTended'
<1> DEFINE dials == [conn[k] EXCEPT ![p] = r]
<1>1. conn[k] \in [Paths -> Results]
  BY DEF AllTended
<1>2. dials \in [Paths -> Results]
  BY <1>1
<1>3. /\ dials["direct"] = IF p = "direct" THEN r ELSE conn[k]["direct"]
      /\ dials["socks"] = IF p = "socks" THEN r ELSE conn[k]["socks"]
  <2> HIDE DEF Results
  <2>1. "direct" \in Paths /\ "socks" \in Paths
    BY DEF Paths
  <2>2. QED BY <1>1, <2>1
<1>4. conn' = [conn EXCEPT ![k] = dials]
  BY DEF AllTended
<1> HIDE DEF dials
<1>5. Tended(place, dials["direct"], dials["socks"], late)
  BY <1>3
<1>6. QED BY <1>2, <1>4, <1>5, OneMoves

\* Assigning what is there changes nothing.
LEMMA Same ==
    ASSUME AllTended, NEW k \in Dialers
    PROVE  /\ at = [at EXCEPT ![k] = at[k]] /\ conn = [conn EXCEPT ![k] = conn[k]]
           /\ closing = [closing EXCEPT ![k] = closing[k]]
           /\ at[k] \in Places /\ conn[k] \in [Paths -> Results] /\ closing[k] \in SUBSET Paths
           /\ conn[k]["direct"] \in Results /\ conn[k]["socks"] \in Results
           /\ Tended(at[k], conn[k]["direct"], conn[k]["socks"], closing[k])
<1>1. "direct" \in Paths /\ "socks" \in Paths
  BY DEF Paths
<1>2. QED BY <1>1 DEF AllTended

\* A race that is won returns the winner's connection; what is still pending is
\* waited for, what is held is closed.
LEMMA WinTends ==
    ASSUME AllTended, NEW k \in Dialers, NEW p \in Paths, NEW slow, NEW other \in Results,
           NEW late \in SUBSET Paths, Win(k, p, slow, other, late),
           other \notin {"held", "returned"}, other \in Pending => late = Paths \ {p}
    PROVE  AllTended'
<1> DEFINE dials == [q \in Paths |-> IF q = p THEN "returned" ELSE other]
<1>1. dials \in [Paths -> Results]
  BY DEF Results
<1>2. p = "direct" \/ p = "socks"
  BY DEF Paths
<1>3. CASE p = "direct"
  <2>1. dials["direct"] = "returned" /\ dials["socks"] = other
    BY <1>3 DEF Paths
  <2>2. other \in Pending => "socks" \in late
    BY <1>3 DEF Paths
  <2>3. Tended("idle", dials["direct"], dials["socks"], late)
    BY <2>1, <2>2 DEF Tended, Pending
  <2> HIDE DEF dials
  <2>4. QED BY <1>1, <2>3, OneMoves DEF Win, Set, Places, dials
<1>4. CASE p = "socks"
  <2>1. dials["direct"] = other /\ dials["socks"] = "returned"
    BY <1>4 DEF Paths
  <2>2. other \in Pending => "direct" \in late
    BY <1>4 DEF Paths
  <2>3. Tended("idle", dials["direct"], dials["socks"], late)
    BY <2>1, <2>2 DEF Tended, Pending
  <2> HIDE DEF dials
  <2>4. QED BY <1>1, <2>3, OneMoves DEF Win, Set, Places, dials
<1>5. QED BY <1>2, <1>3, <1>4

\* Both dials of a race go off.
LEMMA BeginTends ==
    ASSUME AllTended, NEW k \in Dialers, BeginRace(k), closing[k] = {}
    PROVE  AllTended'
<1> DEFINE dials == [p \in Paths |-> "dialling"]
<1>1. dials \in [Paths -> Results] /\ dials["direct"] = "dialling" /\ dials["socks"] = "dialling"
  BY DEF Paths, Results
<1>2. Tended("race", dials["direct"], dials["socks"], closing[k])
  BY <1>1 DEF Tended, Pending
<1>3. at' = [at EXCEPT ![k] = "race"] /\ conn' = [conn EXCEPT ![k] = dials] /\ closing' = closing
  BY DEF BeginRace, Set
<1>4. "race" \in Places
  BY DEF Places
<1> HIDE DEF dials
<1>5. QED BY <1>1, <1>2, <1>3, <1>4, Same, OneMoves

\* A connection that looks up its path has nothing open until it dials.
LEMMA LookupTends ==
    ASSUME AllTended, NEW k \in Dialers, Lookup(k)
    PROVE  AllTended'
<1>1. Tended(at[k], conn[k]["direct"], conn[k]["socks"], closing[k])
  BY Same
<1>2. at[k] \in {"load", "check", "learned"}
  BY DEF Lookup, Load, RaceUnknown, RaceStale, DialLearned, LearnedConnects, LearnedFails
<1>3. conn[k]["direct"] = "none" /\ conn[k]["socks"] = "none" /\ closing[k] = {}
  BY <1>1, <1>2 DEF Tended
<1>4. ASSUME NEW place \in {"check", "learned"}, at' = [at EXCEPT ![k] = place],
             conn' = conn, closing' = closing
      PROVE  AllTended'
  <2>1. Tended(place, conn[k]["direct"], conn[k]["socks"], closing[k])
    BY <1>3 DEF Tended
  <2>2. place \in Places
    BY DEF Places
  <2>3. QED BY <1>4, <2>1, <2>2, Same, OneMoves
<1>5. CASE Load(k) \/ DialLearned(k)
  BY <1>4, <1>5 DEF Load, DialLearned, Set
<1>6. CASE BeginRace(k)
  BY <1>3, <1>6, BeginTends
<1>7. CASE LearnedConnects(k)
  <2> DEFINE dials == [conn[k] EXCEPT ![seen[k].via] = "returned"]
  <2>1. conn' = [conn EXCEPT ![k] = dials] /\ at' = [at EXCEPT ![k] = "idle"] /\ closing' = closing
    BY <1>7 DEF LearnedConnects, Set, AllTended
  <2>2. "returned" \in Results
    BY DEF Results
  <2>3. dials \in [Paths -> Results]
    BY <2>2, Same
  <2>4. /\ dials["direct"] \in {"none", "returned"} /\ dials["socks"] \in {"none", "returned"}
        /\ ~(dials["direct"] = "returned" /\ dials["socks"] = "returned")
    <3>1. "direct" \in Paths /\ "socks" \in Paths
      BY DEF Paths
    <3>2. QED BY <1>3, <3>1, Same
  <2> HIDE DEF dials
  <2>5. Tended("idle", dials["direct"], dials["socks"], closing[k])
    BY <2>4 DEF Tended, Pending
  <2>6. "idle" \in Places
    BY DEF Places
  <2>7. QED BY <2>1, <2>3, <2>5, <2>6, Same, OneMoves
<1>8. QED BY <1>5, <1>6, <1>7 DEF Lookup, RaceUnknown, RaceStale, LearnedFails

\* The dial goroutines and the closers.
LEMMA AnswerTends ==
    ASSUME AllTended, NEW k \in Dialers, NEW p \in Paths, Answer(k, p)
    PROVE  AllTended'
<1>1. Tended(at[k], conn[k]["direct"], conn[k]["socks"], closing[k])
  BY Same
<1>2. p = "direct" \/ p = "socks"
  BY DEF Paths
<1>3. ASSUME NEW r \in {"up", "down"}, conn[k][p] = "dialling",
             conn' = [conn EXCEPT ![k][p] = r], at' = at, closing' = closing
      PROVE  AllTended'
  <2>1. Tended(at[k], IF p = "direct" THEN r ELSE conn[k]["direct"],
                      IF p = "socks" THEN r ELSE conn[k]["socks"], closing[k])
    BY <1>1, <1>2, <1>3 DEF Tended, Pending
  <2>2. r \in Results
    BY DEF Results
  <2>3. QED BY <1>3, <2>1, <2>2, Same, OneDial
<1>4. CASE CloseLate(k, p)
  <2>1. at[k] = "idle"
    BY <1>1, <1>4, Same DEF Tended, CloseLate, Places
  <2>2. "none" \in Results /\ closing[k] \ {p} \in SUBSET Paths
    BY Same DEF Results
  <2>3. Tended(at[k], IF p = "direct" THEN "none" ELSE conn[k]["direct"],
                      IF p = "socks" THEN "none" ELSE conn[k]["socks"], closing[k] \ {p})
    BY <1>1, <1>2, <2>1 DEF Tended, Pending
  <2>4. /\ conn' = [conn EXCEPT ![k][p] = "none"] /\ at' = at
        /\ closing' = [closing EXCEPT ![k] = closing[k] \ {p}]
    BY <1>4 DEF CloseLate
  <2>5. QED BY <2>2, <2>3, <2>4, Same, OneDial
<1>5. QED BY <1>3, <1>4 DEF Answer, Connects, Fails

\* A race: the first result, the second, or the end of the head start.
LEMMA RaceTends ==
    ASSUME AllTended, NEW k \in Dialers, Race(k)
    PROVE  AllTended'
<1>1. Tended(at[k], conn[k]["direct"], conn[k]["socks"], closing[k])
  BY Same
<1>2. at[k] = "race"
  BY DEF Race, DirectWins, DirectFails, SocksConnects, SocksFails, HeadStartOver
<1>3. /\ conn[k]["direct"] \in Pending \cup {"failed"}
      /\ conn[k]["socks"] \in Pending \cup {"held", "failed"} /\ closing[k] = {}
  BY <1>1, <1>2 DEF Tended
<1>4. "direct" \in Paths /\ "socks" \in Paths /\ Paths \ {"direct"} = {"socks"} /\ Paths \ {"socks"} = {"direct"}
  BY DEF Paths
<1>5. "none" \in Results /\ "failed" \in Results /\ "held" \in Results
  BY DEF Results
<1>6. conn[k]["direct"] \in Results /\ conn[k]["socks"] \in Results
  BY Same
<1>7. CASE BothFailed(k)
  <2>1. Idle \in [Paths -> Results] /\ Idle["direct"] = "none" /\ Idle["socks"] = "none"
    BY <1>4, <1>5 DEF Idle
  <2>2. Tended("idle", Idle["direct"], Idle["socks"], closing[k])
    BY <2>1 DEF Tended, Pending
  <2>3. "idle" \in Places
    BY DEF Places
  <2>4. QED BY <1>7, <2>1, <2>2, <2>3, Same, OneMoves DEF BothFailed, Set
<1>8. ASSUME NEW p \in Paths, NEW slow, Win(k, p, slow, "none", {})
      PROVE  AllTended'
  BY <1>5, <1>8, WinTends DEF Pending
<1>9. CASE SocksWins(k) /\ conn[k]["direct"] # "failed"
  BY <1>3, <1>4, <1>6, <1>9, WinTends DEF SocksWins, Pending
<1>10. ASSUME NEW p \in Paths, NEW r \in {"failed", "held"}, p = "direct" => r = "failed",
              conn' = [conn EXCEPT ![k][p] = r], at' = at, closing' = closing
       PROVE  AllTended'
  <2>1. Tended(at[k], IF p = "direct" THEN r ELSE conn[k]["direct"],
                      IF p = "socks" THEN r ELSE conn[k]["socks"], closing[k])
    BY <1>2, <1>3, <1>10 DEF Tended, Pending, Paths
  <2>2. r \in Results
    BY <1>5
  <2>3. QED BY <1>10, <2>1, <2>2, Same, OneDial
<1>11. CASE DirectWins(k)
  <2>1. CASE conn[k]["socks"] \in {"held", "failed"}
    BY <1>4, <1>8, <1>11, <2>1 DEF DirectWins
  <2>2. CASE conn[k]["socks"] \notin {"held", "failed"}
    <3>1. Win(k, "direct", FALSE, conn[k]["socks"], {"socks"})
      BY <1>11, <2>2 DEF DirectWins
    <3>2. conn[k]["socks"] \in Pending
      BY <1>3, <2>2
    <3>3. conn[k]["socks"] \notin {"held", "returned"}
      BY <3>2 DEF Pending
    <3>4. {"socks"} \in SUBSET Paths
      BY <1>4
    <3>5. QED BY <1>4, <1>6, <3>1, <3>3, <3>4, WinTends
  <2>3. QED BY <2>1, <2>2
<1>12. CASE DirectFails(k)
  <2>1. CASE conn[k]["socks"] = "held"
    BY <1>4, <1>8, <1>12, <2>1 DEF DirectFails
  <2>2. CASE conn[k]["socks"] = "failed"
    BY <1>7, <1>12, <2>2 DEF DirectFails
  <2>3. CASE conn[k]["socks"] \notin {"held", "failed"}
    BY <1>4, <1>10, <1>12, <2>3 DEF DirectFails
  <2>4. QED BY <2>1, <2>2, <2>3
<1>13. CASE SocksConnects(k)
  <2>1. CASE conn[k]["direct"] = "failed"
    BY <1>4, <1>8, <1>13, <2>1 DEF SocksConnects
  <2>2. CASE conn[k]["direct"] # "failed" /\ over[k]
    BY <1>9, <1>13, <2>2 DEF SocksConnects
  <2>3. CASE conn[k]["direct"] # "failed" /\ ~over[k]
    BY <1>4, <1>10, <1>13, <2>3 DEF SocksConnects
  <2>4. QED BY <2>1, <2>2, <2>3
<1>14. CASE SocksFails(k)
  BY <1>4, <1>7, <1>10, <1>14 DEF SocksFails
<1>15. CASE HeadStartOver(k)
  <2>1. CASE conn[k]["socks"] = "held" /\ conn[k]["direct"] # "failed"
    BY <1>9, <1>15, <2>1 DEF HeadStartOver
  <2>2. CASE ~(conn[k]["socks"] = "held" /\ conn[k]["direct"] # "failed")
    BY <1>15, <2>2 DEF HeadStartOver, AllTended, Tended
  <2>3. QED BY <2>1, <2>2
<1>16. QED BY <1>11, <1>12, <1>13, <1>14, <1>15 DEF Race

\* Every step leaves every connection tended.
LEMMA TendedStep == AllTended /\ [Next]_vars => AllTended'
<1> SUFFICES ASSUME AllTended, [Next]_vars PROVE AllTended'
  OBVIOUS
<1>1. ASSUME NEW k \in Dialers, NEW a \in Addrs, Call(k, a) PROVE AllTended'
  <2>1. Idle \in [Paths -> Results] /\ Idle["direct"] = "none" /\ Idle["socks"] = "none"
    BY DEF Idle, Paths, Results
  <2>2. Tended("load", Idle["direct"], Idle["socks"], closing[k])
    BY <1>1, <2>1 DEF Tended, Call
  <2>3. "load" \in Places
    BY DEF Places
  <2>4. QED BY <1>1, <2>1, <2>2, <2>3, Same, OneMoves DEF Call, Set
<1>2. CASE at' = at /\ conn' = conn /\ closing' = closing
  BY <1>2 DEF AllTended, Tended
<1>3. CASE Tick \/ Bump \/ LinkChanges \/ UNCHANGED vars
  BY <1>2, <1>3 DEF Tick, Bump, LinkChanges, vars, dial
<1>4. QED BY <1>1, <1>3, LookupTends, RaceTends, AnswerTends DEF Next

\* Every connection a race opens is returned or closed (NothingLeaks,
\* racer.go:261-269), however many run at once and whatever order their results
\* and head starts come in.
THEOREM NothingLeft == Spec => []NothingLeaks
<1>1. Init => AllTended
  <2> SUFFICES ASSUME Init PROVE AllTended
    OBVIOUS
  <2>1. Idle \in [Paths -> Results] /\ Idle["direct"] = "none" /\ Idle["socks"] = "none"
    BY DEF Idle, Paths, Results
  <2>2. Tended("idle", "none", "none", {})
    BY DEF Tended, Pending
  <2> HIDE DEF Idle
  <2>3. QED BY <2>1, <2>2 DEF Init, AllTended, Places
<1>2. AllTended => NothingLeaks
  <2> SUFFICES ASSUME AllTended, NEW k \in Dialers, at[k] = "idle"
               PROVE  /\ \A p \in Paths : conn[k][p] \in {"dialling", "up", "down"} => p \in closing[k]
                      /\ \A p \in Paths : conn[k][p] # "held"
                      /\ ~(conn[k]["direct"] = "returned" /\ conn[k]["socks"] = "returned")
    BY DEF NothingLeaks
  <2>1. Tended(at[k], conn[k]["direct"], conn[k]["socks"], closing[k])
    BY Same
  <2>2. QED BY <2>1 DEF Tended, Pending, Paths
<1>3. QED BY <1>1, <1>2, TendedStep, PTL DEF Spec
=============================================================================
