---------------------------- MODULE TrafficProofs ----------------------------
(***************************************************************************)
(* What MCTraffic checks of a name query and of the address direct traffic *)
(* binds to, proved of DnsRouter and NetMon for any name servers, times    *)
(* and addresses: a private answer wins, a public name resolves while the  *)
(* public resolver does, nobody waits too long, and no path learned on     *)
(* another address stays in use.                                           *)
(***************************************************************************)
EXTENDS MCTraffic, TLAPS

(* The address direct traffic binds to.                                    *)

Steps == {"idle", "compare", "set", "bump"}

Bumped == doing \in [Net!Writers -> Steps] /\ Net!Invalidated

\* For any addresses, debounce and number of route messages: whichever of the two goroutines
\* stored another address, a bump of the generation is still to come.
THEOREM AlwaysInvalidated == Net!Spec => []Invalidated
<1>1. Net!Init => Bumped
  BY DEF Net!Init, Bumped, Net!Invalidated, Net!Writers, Steps
<1>2. Bumped /\ [Net!Next]_(Net!vars) => Bumped'
  <2> SUFFICES ASSUME Bumped, [Net!Next]_(Net!vars) PROVE Bumped'
    OBVIOUS
  <2>1. doing \in [Net!Writers -> Steps] /\ (dirty => \E w \in Net!Writers : doing[w] = "bump")
    BY DEF Bumped, Net!Invalidated
  <2>2. CASE UNCHANGED <<doing, dirty>>
    BY <2>1, <2>2 DEF Bumped, Net!Invalidated
  <2>3. ASSUME NEW w \in Net!Writers, NEW p \in {"idle", "compare"}, doing[w] = "idle",
               doing' = [doing EXCEPT ![w] = p], dirty' = dirty
        PROVE  Bumped'
    BY <2>1, <2>3 DEF Bumped, Net!Invalidated, Steps
  <2>4. CASE Net!Recheck
    BY <2>3, <2>4 DEF Net!Recheck, Net!Writers, Net!world, Net!holder
  <2>5. CASE Net!Refresh
    BY <2>3, <2>5 DEF Net!Refresh, Net!Writers, Net!world, Net!holder
  <2>6. ASSUME NEW w \in Net!Writers, Net!Compare(w) PROVE Bumped'
    BY <2>1, <2>6 DEF Net!Compare, Net!holder, Bumped, Net!Invalidated, Steps
  <2>7. ASSUME NEW w \in Net!Writers, Net!Set(w) PROVE Bumped'
    BY <2>1, <2>7 DEF Net!Set, Bumped, Net!Invalidated, Steps
  <2>8. ASSUME NEW w \in Net!Writers, Net!BumpGeneration(w) PROVE Bumped'
    BY <2>1, <2>8 DEF Net!BumpGeneration, Bumped, Net!Invalidated, Steps
  <2>9. CASE Net!OpenSocket \/ Net!Receive \/ Net!Debounced \/ Net!Noise \/ Net!Works \/ Net!Tick
    BY <2>2, <2>9 DEF Net!OpenSocket, Net!Receive, Net!Debounced, Net!Noise, Net!Works, Net!Tick,
                      Net!holder, Net!book
  <2>10. ASSUME NEW a, Net!Change(a) PROVE Bumped'
    BY <2>2, <2>10 DEF Net!Change, Net!holder, Net!book
  <2>11. CASE UNCHANGED Net!vars
    BY <2>2, <2>11 DEF Net!vars, Net!holder, Net!book
  <2>12. QED BY <2>4, <2>5, <2>6, <2>7, <2>8, <2>9, <2>10, <2>11 DEF Net!Next, Net!Write
<1>3. Bumped => Invalidated
  BY DEF Bumped, Invalidated
<1>4. QED BY <1>1, <1>2, <1>3, PTL DEF Net!Spec

----------------------------------------------------------------------------
(* A query.                                                                *)

\* resolve has what a branch sent, and the deadline is the query's until a public answer
\* replaces it by a grace window; before the public branch ended there is more time than
\* it takes.
Timed ==
    /\ q.done["public"] => q.got["public"] = q.chan["public"] /\ q.chan["public"] # "none"
    /\ ~q.done["public"] => q.got["public"] = "none" /\ q.age <= Timeout
    /\ IF q.got["public"] \in Dns!Success
       THEN /\ q.pubAge <= Timeout
            /\ q.age + q.left = q.pubAge + Grace \/ (q.age = q.pubAge /\ q.done["internal"])
       ELSE q.age + q.left = Timeout + Slack

\* The servers' branch sends something else than a private answer only when all of them
\* answered, none privately; the public one finds the public names.
Honest ==
    /\ q.done["internal"] =>
          q.left = 0 \/ (q.got["internal"] = q.chan["internal"] /\ q.chan["internal"] # "none")
    /\ \/ Dns!IsPrivate(q.chan["internal"])
       \/ /\ \A m \in q.heard : ~Dns!IsPrivate(m)
          /\ q.chan["internal"] = "none" \/ q.asked = {}
    /\ q.steady /\ q.name = "public" /\ q.chan["public"] # "none" => q.chan["public"] = "world"

Consulted ==
    /\ q \in Dns!Queries /\ online \in BOOLEAN
    /\ q.name = "none" => q = Dns!NoQuery
    /\ q.name # "none" => Timed /\ Honest

\* The router's own query is sent directly: its rule comes first.
LEMMA OwnIsDirect == Dns!Outbound(Dns!OwnQuery) = "direct"
<1> DEFINE matching == {i \in DOMAIN Dns!Rules : Dns!OwnQuery \in Dns!Rules[i].for}
<1>1. DOMAIN Dns!Rules = 1 .. 6 /\ Dns!Rules[1] = Dns!OwnTraffic
  BY DEF Dns!Rules
<1>2. Dns!OwnQuery \in Dns!OwnTraffic.for
  BY DEF Dns!OwnQuery, Dns!OwnTraffic, Dns!Connections
<1>3. 1 \in matching /\ \A i \in matching : i \in Nat /\ 1 <= i
  BY <1>1, <1>2
<1> HIDE DEF matching
<1>4. (CHOOSE i \in matching : \A j \in matching : i <= j) = 1
  <2>1. ASSUME NEW i \in matching PROVE (\A j \in matching : i <= j) <=> i = 1
    BY <1>3
  <2>2. QED BY <1>3, <2>1
<1>5. QED BY <1>1, <1>3, <1>4 DEF Dns!Outbound, Dns!OwnTraffic, matching

\* What a query is asked with, and what is heard of it.
LEMMA AskStep ==
    ASSUME Consulted, NEW n \in {"corporate", "public"}, NEW servers \in SUBSET Servers,
           Dns!Ask(n, servers)
    PROVE  Consulted'
<1>1. q = Dns!NoQuery
  BY DEF Dns!Ask, Consulted
<1>2. q' = [Dns!NoQuery EXCEPT !.name = n, !.left = Timeout + Slack, !.asked = servers,
                !.chan = [Dns!Unheard EXCEPT !["internal"] = IF servers = {} THEN "error" ELSE "none"]]
  BY <1>1 DEF Dns!Ask, Dns!NoQuery
<1>3. /\ q'.name = n /\ q'.left = Timeout + Slack /\ q'.asked = servers /\ q'.age = 0
      /\ q'.chan["internal"] \in {"error", "none"} /\ q'.chan["public"] = "none"
      /\ q'.chan["internal"] # "none" => servers = {}
      /\ q'.got["public"] = "none" /\ q'.heard = {} /\ q'.done["public"] = FALSE /\ q'.done["internal"] = FALSE
  BY <1>2 DEF Dns!NoQuery, Dns!Unheard, Dns!Branches
<1>4. q' \in Dns!Queries /\ online' \in BOOLEAN
  <2>1. Dns!NoQuery \in Dns!Queries
    BY DEF Dns!Queries, Dns!NoQuery, Dns!Unheard, Dns!Branches, Dns!Messages, Dns!Success
  <2>2. [Dns!Unheard EXCEPT !["internal"] = IF servers = {} THEN "error" ELSE "none"]
            \in [Dns!Branches -> Dns!Messages \cup {"none", "error"}]
    BY DEF Dns!Unheard, Dns!Branches
  <2>3. Timeout + Slack \in Nat
    BY TrafficAssumption DEF Dns!DnsAssumption
  <2> DEFINE chan == [Dns!Unheard EXCEPT !["internal"] = IF servers = {} THEN "error" ELSE "none"]
  <2>4. q' = [Dns!NoQuery EXCEPT !.name = n, !.left = Timeout + Slack, !.asked = servers, !.chan = chan]
    BY <1>2
  <2> HIDE DEF chan
  <2>5. q' \in Dns!Queries
    BY <2>1, <2>2, <2>3, <2>4 DEF Dns!Queries, chan
  <2>6. QED BY <2>5 DEF Dns!Ask, Consulted
<1>5. Timed'
  BY <1>3, TrafficAssumption DEF Timed, Dns!Success, Dns!DnsAssumption
<1>6. Honest'
  BY <1>3 DEF Honest, Dns!IsPrivate
<1>7. QED BY <1>3, <1>4, <1>5, <1>6 DEF Consulted
\* The public branch ends.
LEMMA PublicStep ==
    ASSUME Consulted, NEW m \in Dns!Exchanged, Dns!PublicReply(m)
    PROVE  Consulted'
<1>1. q' = [q EXCEPT !.chan = [q.chan EXCEPT !["public"] = m], !.steady = online]
  BY DEF Dns!PublicReply, Consulted, Dns!Queries
<1>2. /\ q.name # "none" /\ ~q.done["public"] /\ Timed /\ Honest /\ q \in Dns!Queries
      /\ online => m = IF q.name = "corporate" THEN "failed" ELSE "world"
      /\ online' = online
  BY OwnIsDirect DEF Dns!PublicReply, Consulted
<1>3. q.chan \in [Dns!Branches -> Dns!Messages \cup {"none", "error"}]
  BY <1>2 DEF Dns!Queries
<1>4. /\ q'.name = q.name /\ q'.left = q.left /\ q'.asked = q.asked /\ q'.age = q.age
      /\ q'.got = q.got /\ q'.heard = q.heard /\ q'.done = q.done /\ q'.pubAge = q.pubAge
      /\ q'.chan["public"] = m /\ q'.chan["internal"] = q.chan["internal"] /\ q'.steady = online
  BY <1>1, <1>2, <1>3 DEF Dns!Queries, Dns!Branches
<1>5. q' \in Dns!Queries
  <2>1. [q.chan EXCEPT !["public"] = m] \in [Dns!Branches -> Dns!Messages \cup {"none", "error"}]
    BY <1>3 DEF Dns!Exchanged, Dns!Branches
  <2>2. QED BY <1>1, <1>2, <2>1 DEF Dns!Queries, Consulted
<1>6. Timed'
  BY <1>2, <1>4 DEF Timed
<1>7. Honest'
  BY <1>2, <1>4 DEF Honest
<1>8. QED BY <1>2, <1>4, <1>5, <1>6, <1>7 DEF Consulted
\* A name server answers.
LEMMA ServerStep ==
    ASSUME Consulted, NEW s \in Servers, NEW m \in Dns!Exchanged, Dns!ServerReply(s, m)
    PROVE  Consulted'
<1> DEFINE rest == q.asked \ {s}
           ok == IF q.firstOK = "none" /\ m # "error" THEN m ELSE q.firstOK
           sent == IF Dns!IsPrivate(m) THEN m ELSE Dns!Collected(rest, ok)
           chan == [q.chan EXCEPT !["internal"] = sent]
<1>1. q' = [q EXCEPT !.asked = rest, !.firstOK = ok, !.heard = q.heard \cup {m}, !.chan = chan]
  BY DEF Dns!ServerReply, Consulted, Dns!Queries
<1>2. /\ s \in q.asked /\ ~q.done["internal"] /\ q.chan["internal"] = "none"
      /\ q \in Dns!Queries /\ UNCHANGED online
  BY DEF Dns!ServerReply, Consulted
<1>3. q.name # "none" /\ Timed /\ Honest
  BY <1>2 DEF Consulted, Dns!NoQuery
<1>4. /\ q.chan \in [Dns!Branches -> Dns!Messages \cup {"none", "error"}]
      /\ q.firstOK \in Dns!Messages \cup {"none"} /\ q.asked \subseteq Servers /\ q.heard \subseteq Dns!Exchanged
  BY <1>2 DEF Dns!Queries
<1>5. /\ ok \in Dns!Messages \cup {"none"} /\ sent \in Dns!Messages \cup {"none", "error"}
      /\ Dns!IsPrivate(m) => Dns!IsPrivate(sent)
      /\ ~Dns!IsPrivate(m) => sent = "none" \/ rest = {}
  BY <1>4 DEF Dns!Exchanged, Dns!Messages, Dns!Success, Dns!Collected, Dns!IsPrivate
<1> HIDE DEF ok, sent, rest
<1>6. chan \in [Dns!Branches -> Dns!Messages \cup {"none", "error"}] /\ rest \subseteq Servers
  BY <1>4, <1>5 DEF rest
<1>7. chan["public"] = q.chan["public"] /\ chan["internal"] = sent
  BY <1>4 DEF Dns!Branches
<1> HIDE DEF chan
<1>8. /\ q'.name = q.name /\ q'.left = q.left /\ q'.asked = rest /\ q'.age = q.age
      /\ q'.got = q.got /\ q'.heard = q.heard \cup {m} /\ q'.done = q.done /\ q'.pubAge = q.pubAge
      /\ q'.chan = chan /\ q'.steady = q.steady
  BY <1>1, <1>2 DEF Dns!Queries
<1>9. q' \in Dns!Queries
  BY <1>1, <1>2, <1>4, <1>5, <1>6 DEF Dns!Queries
<1>10. Timed'
  BY <1>3, <1>7, <1>8 DEF Timed
<1>11. Honest'
  BY <1>2, <1>3, <1>5, <1>7, <1>8 DEF Honest, Dns!IsPrivate
<1>12. QED BY <1>2, <1>3, <1>8, <1>9, <1>10, <1>11 DEF Consulted

\* resolve receives what a branch sent.
LEMMA ReceiveStep ==
    ASSUME Consulted, NEW b \in Dns!Branches, Dns!Receive(b)
    PROVE  Consulted'
<1> DEFINE rest == Dns!LeftAfter(b)
           got == [q.got EXCEPT ![b] = q.chan[b]]
           done == [q.done EXCEPT ![b] = TRUE]
           pubAge == IF b = "public" THEN q.age ELSE q.pubAge
<1>1. q' = [q EXCEPT !.got = got, !.done = done, !.left = rest, !.pubAge = pubAge]
  BY DEF Dns!Receive, Consulted, Dns!Queries
<1>2. /\ ~Dns!Decided /\ ~q.done[b] /\ q.chan[b] # "none" /\ q \in Dns!Queries /\ UNCHANGED online
  BY DEF Dns!Receive, Dns!Receivable, Consulted
<1>3. q.name # "none" /\ Timed /\ Honest
  BY <1>2 DEF Consulted, Dns!NoQuery, Dns!Unheard
<1>4. /\ q.chan \in [Dns!Branches -> Dns!Messages \cup {"none", "error"}]
      /\ q.got \in [Dns!Branches -> Dns!Messages \cup {"none", "error"}]
      /\ q.done \in [Dns!Branches -> BOOLEAN] /\ q.left \in Nat /\ q.age \in Nat /\ q.pubAge \in Nat
  BY <1>2 DEF Dns!Queries
<1>5. /\ got \in [Dns!Branches -> Dns!Messages \cup {"none", "error"}]
      /\ done \in [Dns!Branches -> BOOLEAN] /\ rest \in Nat /\ pubAge \in Nat
      /\ got[b] = q.chan[b] /\ done[b] = TRUE
      /\ \A d \in Dns!Branches \ {b} : got[d] = q.got[d] /\ done[d] = q.done[d]
  BY <1>4, TrafficAssumption DEF Dns!LeftAfter, Dns!DnsAssumption
<1>6. b = "internal" => rest = q.left /\ pubAge = q.pubAge
  BY DEF Dns!LeftAfter
<1>7. b = "public" =>
        /\ q.done["internal"] => rest = q.left
        /\ q.chan["public"] \notin Dns!Success => rest = q.left
        /\ q.chan["public"] \in Dns!Success /\ ~q.done["internal"] => rest = Grace
        /\ pubAge = q.age
  BY DEF Dns!LeftAfter
<1> HIDE DEF rest, got, done, pubAge
<1>8. /\ q'.name = q.name /\ q'.left = rest /\ q'.asked = q.asked /\ q'.age = q.age
      /\ q'.got = got /\ q'.heard = q.heard /\ q'.done = done /\ q'.pubAge = pubAge
      /\ q'.chan = q.chan /\ q'.steady = q.steady
  BY <1>1, <1>2 DEF Dns!Queries
<1>9. q' \in Dns!Queries
  BY <1>1, <1>2, <1>5 DEF Dns!Queries
<1>10. CASE b = "internal"
  <2>1. /\ got["internal"] = q.chan["internal"] /\ done["internal"] = TRUE
        /\ got["public"] = q.got["public"] /\ done["public"] = q.done["public"]
    BY <1>5, <1>10 DEF Dns!Branches
  <2>2. ~q.done["internal"] /\ rest = q.left /\ pubAge = q.pubAge
    BY <1>2, <1>6, <1>10
  <2>3. Timed'
    BY <1>3, <1>8, <2>1, <2>2 DEF Timed
  <2>4. Honest'
    BY <1>2, <1>3, <1>8, <1>10, <2>1, <2>2 DEF Honest
  <2>5. QED BY <1>2, <1>3, <1>8, <1>9, <2>3, <2>4 DEF Consulted
<1>11. CASE b = "public"
  <2>1. /\ got["public"] = q.chan["public"] /\ done["public"] = TRUE
        /\ got["internal"] = q.got["internal"] /\ done["internal"] = q.done["internal"]
    BY <1>5, <1>11 DEF Dns!Branches
  <2>2. ~q.done["public"] /\ q.chan["public"] # "none"
    BY <1>2, <1>11
  <2>3. q.age <= Timeout /\ q.age + q.left = Timeout + Slack
    BY <1>3, <2>2 DEF Timed, Dns!Success
  <2>4. Timed'
    BY <1>3, <1>4, <1>7, <1>8, <1>11, <2>1, <2>2, <2>3 DEF Timed
  <2>5. Honest'
    BY <1>3, <1>7, <1>8, <1>11, <2>1 DEF Honest
  <2>6. QED BY <1>2, <1>3, <1>8, <1>9, <2>4, <2>5 DEF Consulted
<1>12. QED BY <1>10, <1>11 DEF Dns!Branches

\* resolve gives up, which it does only once the public branch has ended.
LEMMA ExpireStep ==
    ASSUME Consulted, Dns!Expire
    PROVE  Consulted'
<1> DEFINE done == [b \in Dns!Branches |-> TRUE]
<1>1. /\ q' = [q EXCEPT !.done = done] /\ q.name # "none" /\ q.left = 0 /\ UNCHANGED online
      /\ q \in Dns!Queries /\ Timed /\ Honest
  BY DEF Dns!Expire, Dns!Expired, Consulted
<1>2. done["public"] = TRUE /\ done["internal"] = TRUE /\ done \in [Dns!Branches -> BOOLEAN]
  BY DEF Dns!Branches
<1> HIDE DEF done
<1>3. /\ q'.name = q.name /\ q'.left = q.left /\ q'.asked = q.asked /\ q'.age = q.age
      /\ q'.got = q.got /\ q'.heard = q.heard /\ q'.done = done /\ q'.pubAge = q.pubAge
      /\ q'.chan = q.chan /\ q'.steady = q.steady /\ q' \in Dns!Queries
  BY <1>1, <1>2 DEF Dns!Queries
<1>4. q.done["public"]
  BY <1>1, TrafficAssumption DEF Timed, Dns!DnsAssumption, Dns!Success, Dns!Queries
<1>5. Timed' /\ Honest'
  BY <1>1, <1>2, <1>3, <1>4 DEF Timed, Honest
<1>6. QED BY <1>1, <1>3, <1>5 DEF Consulted

\* Time passes while there is some left and resolve waits for a branch.
LEMMA TickStep ==
    ASSUME Consulted, Dns!Tick
    PROVE  Consulted'
<1>1. /\ q' = [q EXCEPT !.age = q.age + 1, !.left = q.left - 1] /\ q.name # "none" /\ UNCHANGED online
      /\ q \in Dns!Queries /\ Timed /\ Honest /\ ~Dns!Decided /\ q.left # 0
      /\ q.age < Timeout \/ q.done["public"]
  BY DEF Dns!Tick, Dns!Expired, Consulted
<1>2. q.age \in Nat /\ q.left \in Nat /\ q.pubAge \in Nat /\ Timeout \in Nat /\ Slack \in Nat /\ Grace \in Nat
  BY <1>1, TrafficAssumption DEF Dns!Queries, Dns!DnsAssumption
<1>3. /\ q'.name = q.name /\ q'.left = q.left - 1 /\ q'.asked = q.asked /\ q'.age = q.age + 1
      /\ q'.got = q.got /\ q'.heard = q.heard /\ q'.done = q.done /\ q'.pubAge = q.pubAge
      /\ q'.chan = q.chan /\ q'.steady = q.steady /\ q' \in Dns!Queries
  <2>1. q.age + 1 \in Nat /\ q.left - 1 \in Nat
    BY <1>1, <1>2
  <2>2. QED BY <1>1, <2>1 DEF Dns!Queries
<1>4. ~(q.done["public"] /\ q.done["internal"])
  BY <1>1 DEF Dns!Decided
<1>5. Timed'
  BY <1>1, <1>2, <1>3, <1>4 DEF Timed, Dns!Success
<1>6. Honest'
  BY <1>1, <1>3 DEF Honest
<1>7. QED BY <1>1, <1>3, <1>5, <1>6 DEF Consulted

\* Every step of a query, with the one that answers it.
LEMMA ConsultedStep == Consulted /\ [Dns!Next]_(Dns!vars) => Consulted'
<1> SUFFICES ASSUME Consulted, [Dns!Next]_(Dns!vars) PROVE Consulted'
  OBVIOUS
<1>1. Dns!NoQuery \in Dns!Queries
  BY DEF Dns!Queries, Dns!NoQuery, Dns!Unheard, Dns!Branches, Dns!Messages, Dns!Success
<1>2. CASE Dns!Answer
  BY <1>1, <1>2 DEF Dns!Answer, Consulted, Dns!NoQuery
<1>3. CASE Dns!Network
  BY <1>3 DEF Dns!Network, Consulted, Timed, Honest
<1>4. CASE UNCHANGED Dns!vars
  BY <1>4 DEF Dns!vars, Consulted, Timed, Honest
<1>5. QED BY <1>2, <1>3, <1>4, AskStep, PublicStep, ServerStep, ReceiveStep, ExpireStep, TickStep
          DEF Dns!Next, Dns!Resolve

\* Before the first query.
LEMMA ConsultedFirst == Dns!Init => Consulted
BY DEF Dns!Init, Consulted, Dns!Queries, Dns!NoQuery, Dns!Unheard, Dns!Branches, Dns!Messages, Dns!Success

\* For any name servers and times: an ordinary lookup is not stalled by silent name servers, and
\* none waits longer than the deadline or a grace window begun before it.
THEOREM AlwaysInTime == Dns!Spec => []InTime
<1>1. Consulted => InTime
  <2> SUFFICES ASSUME Consulted PROVE Dns!InTime
    BY DEF InTime
  <2>1. q.age \in Nat /\ q.left \in Nat /\ q.pubAge \in Nat /\ Timeout \in Nat /\ Slack \in Nat /\ Grace \in Nat
    BY TrafficAssumption DEF Consulted, Dns!Queries, Dns!DnsAssumption
  <2>2. CASE q.name = "none"
    BY <2>1, <2>2 DEF Consulted, Dns!NoQuery, Dns!Unheard, Dns!Branches, Dns!InTime, Dns!Success
  <2>3. CASE q.name # "none"
    BY <2>1, <2>3 DEF Consulted, Timed, Dns!InTime
  <2>4. QED BY <2>2, <2>3
<1>2. QED BY <1>1, ConsultedFirst, ConsultedStep, PTL DEF Dns!Spec

\* For any name servers and times: the client is only told something else than a private answer
\* when every name server has answered and none of them privately, or when there was no more time.
THEOREM AlwaysPrivateWins == Dns!Spec => PrivateWins
<1>1. Consulted =>
        (Dns!Answer /\ ~Dns!IsPrivate(reply'.says) =>
            q.left = 0 \/ (q.asked = {} /\ \A m \in q.heard : ~Dns!IsPrivate(m)))
  <2> SUFFICES ASSUME Consulted, Dns!Answer, ~Dns!IsPrivate(reply'.says), q.left # 0
               PROVE  q.asked = {} /\ \A m \in q.heard : ~Dns!IsPrivate(m)
    OBVIOUS
  <2>1. ~Dns!IsPrivate(q.got["internal"])
    BY DEF Dns!Answer, Dns!Decision
  <2>2. q.done["internal"]
    BY <2>1 DEF Dns!Answer, Dns!Decided
  <2>3. q.name # "none" /\ Honest
    BY <2>2 DEF Consulted, Dns!NoQuery, Dns!Branches
  <2>4. QED BY <2>1, <2>2, <2>3 DEF Honest
<1>2. QED BY <1>1, ConsultedFirst, ConsultedStep, PTL DEF Dns!Spec, PrivateWins, Dns!PrivateWins

\* For any name servers and times: while the public resolver answers, a public name resolves.
THEOREM AlwaysFailsOpen == Dns!Spec => FailsOpen
<1>1. Consulted => (Dns!Answer /\ q.name = "public" /\ q.steady => reply'.says \in Dns!Success)
  <2> SUFFICES ASSUME Consulted, Dns!Answer, q.name = "public", q.steady
               PROVE  reply'.says \in Dns!Success
    OBVIOUS
  <2>1. Dns!Decided /\ reply' = Dns!Decision /\ Timed /\ Honest
    BY DEF Dns!Answer, Consulted
  <2>2. CASE Dns!IsPrivate(q.got["internal"])
    BY <2>1, <2>2 DEF Dns!Decision, Dns!IsPrivate, Dns!Success
  <2>3. CASE ~Dns!IsPrivate(q.got["internal"])
    <3>1. q.got["public"] = "world"
      BY <2>1, <2>3 DEF Dns!Decided, Timed, Honest
    <3>2. QED BY <2>1, <2>3, <3>1 DEF Dns!Decision, Dns!Success
  <2>4. QED BY <2>2, <2>3
<1>2. QED BY <1>1, ConsultedFirst, ConsultedStep, PTL DEF Dns!Spec, FailsOpen, Dns!FailsOpen
=============================================================================
