----------------------------- MODULE PeersProofs -----------------------------
(***************************************************************************)
(* What MCPeers checks of the daemon with its shims and sing-boxes, of a   *)
(* status stream and of the container's shell, proved of RouteGuard for    *)
(* any runs and faults, of StatusStream for any clients and buffers, and   *)
(* of Entrypoint.                                                          *)
(***************************************************************************)
EXTENDS MCPeers, Sequences, TLAPS

(* RouteGuard.                                                             *)

GuardOK ==
    /\ daemon \in {"down", "shim", "shimgrace", "child", "childgrace", "up"}
    /\ own \in Runs \cup {None} /\ (daemon # "up" => own = None)
    /\ shim \in [Runs -> ShimStates] /\ child \subseteq Runs /\ orderly \in BOOLEAN

Preparing == daemon \notin {"down", "up"}

Held(r) == shim[r] # "none" \/ r \in child

\* As long as no shim was killed or late there is one run at most, and whatever sing-box a daemon
\* that is starting can find, the pid file names.
OneHeld ==
    /\ \A r, s \in Runs : Held(r) /\ Held(s) => r = s
    /\ \A r \in child : shim[r] = "none" => daemon # "up"
    /\ \A r \in child : shim[r] \in {"none", "watching", "stopping"} => childFile = r
    /\ \A r \in Runs : shim[r] \in {"starting", "started"} => ~Preparing /\ (daemon = "up" => r = own)
    /\ daemon = "up" => child \subseteq {own}

Named == orderly => OneHeld

\* Every step keeps the types.
LEMMA GuardStep == GuardOK /\ [Next]_vars => GuardOK'
<1> SUFFICES ASSUME GuardOK, [Next]_vars PROVE GuardOK'
  OBVIOUS
<1> USE DEF GuardOK
<1>1. CASE UNCHANGED vars
  BY <1>1 DEF vars
<1>2. ASSUME ShimsPrompt PROVE orderly' \in BOOLEAN
  BY <1>2 DEF ShimsPrompt
<1>3. CASE DaemonStarts \/ WriteShimPid \/ RunEnds \/ StopRun \/ DaemonDies
  BY <1>2, <1>3 DEF DaemonStarts, WriteShimPid, RunEnds, StopRun, DaemonDies, procs, files
<1>4. CASE ShimGone \/ ChildGone \/ ChildSignalled \/ ChildKilled
  BY <1>4 DEF ShimGone, ChildGone, ChildSignalled, ChildKilled, procs, files
<1>5. CASE ShimSignalled \/ ShimKilled
  BY <1>5 DEF ShimSignalled, ShimKilled, procs, files, ShimStates
<1>6. ASSUME NEW r \in Runs, Launch(r) PROVE GuardOK'
  BY <1>2, <1>6 DEF Launch, files, ShimStates
<1>7. ASSUME NEW r \in Runs, Shim(r) PROVE GuardOK'
  BY <1>7 DEF Shim, StartChild, WriteChildPid, ShimStops, ShimKills, ShimReaps, files, ShimStates
<1>8. ASSUME NEW r \in Runs, ShimDies(r) \/ ChildObeys(r) \/ ChildEnds(r) PROVE GuardOK'
  BY <1>8 DEF ShimDies, ChildObeys, ChildEnds, files, ShimStates
<1>9. QED BY <1>1, <1>3, <1>4, <1>5, <1>6, <1>7, <1>8 DEF Next, Daemon, Preflight

\* A shim's or a sing-box's own step, while no shim was killed or late.
LEMMA RunStep ==
    ASSUME GuardOK, OneHeld, NEW r \in Runs, Shim(r) \/ ChildObeys(r) \/ ChildEnds(r)
    PROVE  OneHeld'
<1> USE DEF GuardOK, OneHeld, Held, Preparing
<1>1. UNCHANGED <<daemon, own>> /\ None \notin Runs
  BY PeersAssumption DEF Shim, StartChild, WriteChildPid, ShimStops, ShimKills, ShimReaps, ChildObeys, ChildEnds,
                         GuardAssumption
<1>2. CASE StartChild(r)
  BY <1>1, <1>2 DEF StartChild, files
<1>3. CASE WriteChildPid(r)
  BY <1>1, <1>3 DEF WriteChildPid
<1>4. CASE ShimStops(r)
  BY <1>1, <1>4 DEF ShimStops, files
<1>5. CASE ShimKills(r)
  BY <1>1, <1>5 DEF ShimKills
<1>6. CASE ShimReaps(r)
  BY <1>1, <1>6 DEF ShimReaps
<1>7. CASE ChildObeys(r) \/ ChildEnds(r)
  BY <1>1, <1>7 DEF ChildObeys, ChildEnds, files
<1>8. QED BY <1>2, <1>3, <1>4, <1>5, <1>6, <1>7 DEF Shim

\* Preflight: what it finds is what the pid files name.
LEMMA PreflightStep ==
    ASSUME GuardOK, OneHeld, Preflight
    PROVE  OneHeld'
<1> USE DEF GuardOK, OneHeld, Held, Preparing
<1>1. own = None /\ None \notin Runs /\ UNCHANGED own
  BY PeersAssumption DEF Preflight, ShimGone, ShimSignalled, ShimKilled, ChildGone, ChildSignalled, ChildKilled,
                         GuardAssumption
<1>2. child \subseteq {childFile} /\ \A r \in Runs : shim[r] \notin {"starting", "started"}
  BY DEF Preflight, ShimGone, ShimSignalled, ShimKilled, ChildGone, ChildSignalled, ChildKilled, ShimStates
<1>3. CASE ShimGone
  BY <1>1, <1>2, <1>3 DEF ShimGone, procs
<1>4. CASE ShimSignalled
  BY <1>1, <1>2, <1>4 DEF ShimSignalled, ShimAlive, files
<1>5. CASE ShimKilled
  BY <1>1, <1>2, <1>5 DEF ShimKilled, ShimAlive
<1>6. CASE ChildGone
  BY <1>1, <1>2, <1>6 DEF ChildGone, procs
<1>7. CASE ChildSignalled
  BY <1>1, <1>2, <1>7 DEF ChildSignalled, files
<1>8. CASE ChildKilled
  BY <1>1, <1>2, <1>8 DEF ChildKilled
<1>9. QED BY <1>3, <1>4, <1>5, <1>6, <1>7, <1>8 DEF Preflight

\* Every step, while no shim is killed or late.
LEMMA NamedStep == GuardOK /\ Named /\ [Next]_vars => Named'
<1> SUFFICES ASSUME GuardOK, Named, [Next]_vars, orderly' PROVE OneHeld'
  BY DEF Named
<1>1. CASE UNCHANGED vars
  BY <1>1 DEF vars, procs, files, Named, OneHeld, Held, Preparing
<1>2. ASSUME ShimsPrompt PROVE orderly /\ \A r \in Runs : ~Busy(r)
  BY <1>2 DEF ShimsPrompt, GuardOK
<1>3. ASSUME orderly' = orderly PROVE OneHeld
  BY <1>3 DEF Named
<1>4. CASE DaemonStarts
  <2>1. OneHeld /\ \A r \in Runs : shim[r] \notin {"starting", "started"}
    BY <1>2, <1>4 DEF DaemonStarts, Busy, Named
  <2>2. QED BY <1>4, <2>1 DEF DaemonStarts, procs, files, OneHeld, Held, Preparing
<1>5. CASE Preflight
  <2>1. orderly' = orderly
    BY <1>5 DEF Preflight, ShimGone, ShimSignalled, ShimKilled, ChildGone, ChildSignalled, ChildKilled
  <2>2. QED BY <1>3, <1>5, <2>1, PreflightStep
<1>6. ASSUME NEW r \in Runs, Launch(r) PROVE OneHeld'
  <2>1. OneHeld /\ \A s \in Runs : ~Busy(s)
    BY <1>2, <1>6 DEF Launch, Named
  <2>2. child = {}
    BY <1>6, <2>1, PeersAssumption DEF Launch, OneHeld, GuardOK, GuardAssumption
  <2>3. \A s \in Runs : shim[s] = "none"
    BY <2>1, <2>2 DEF Busy, GuardOK, ShimStates
  <2>4. QED BY <1>6, <2>2, <2>3 DEF Launch, files, OneHeld, Held, Preparing, GuardOK
<1>7. CASE WriteShimPid \/ StopRun
  BY <1>3, <1>7 DEF WriteShimPid, StopRun, procs, files, OneHeld, Held, Preparing
<1>8. CASE RunEnds
  <2>1. OneHeld /\ shim[own] = "none" /\ daemon = "up" /\ own \in Runs
    BY <1>3, <1>8 DEF RunEnds, ShimAlive, GuardOK
  <2>2. child = {} /\ \A s \in Runs : shim[s] \notin {"starting", "started"}
    BY <2>1 DEF OneHeld, GuardOK
  <2>3. QED BY <1>8, <2>1, <2>2 DEF RunEnds, procs, OneHeld, Held, Preparing
<1>9. CASE DaemonDies
  BY <1>3, <1>9 DEF DaemonDies, procs, files, OneHeld, Held, Preparing
<1>10. ASSUME NEW r \in Runs, Shim(r) \/ ChildObeys(r) \/ ChildEnds(r) PROVE OneHeld'
  <2>1. orderly' = orderly
    BY <1>10 DEF Shim, StartChild, WriteChildPid, ShimStops, ShimKills, ShimReaps, ChildObeys, ChildEnds
  <2>2. QED BY <1>3, <1>10, <2>1, RunStep
<1>11. ASSUME NEW r \in Runs, ShimDies(r) PROVE FALSE
  BY <1>11 DEF ShimDies
<1>12. QED BY <1>1, <1>4, <1>5, <1>6, <1>7, <1>8, <1>9, <1>10, <1>11 DEF Next, Daemon

\* For any runs and faults: when a daemon launches a run, no sing-box of an earlier run or an
\* earlier daemon still holds the TUN, unless a shim was killed or late.
THEOREM AlwaysFreshStart == Spec => FreshStart
<1>1. Init => GuardOK /\ Named
  BY DEF Init, GuardOK, Named, OneHeld, Held, Preparing, ShimStates
<1>2. GuardOK /\ Named => \A r \in Runs : Launch(r) /\ orderly' => child = {}
  <2> SUFFICES ASSUME GuardOK, Named, NEW r \in Runs, Launch(r), orderly' PROVE child = {}
    OBVIOUS
  <2>1. OneHeld
    BY DEF Launch, ShimsPrompt, Named
  <2>2. QED BY <2>1, PeersAssumption DEF Launch, OneHeld, GuardOK, GuardAssumption
<1>3. QED BY <1>1, <1>2, GuardStep, NamedStep, PTL DEF Spec, FreshStart

----------------------------------------------------------------------------
(* StatusStream.                                                           *)

StreamTypes ==
    /\ state \in Nat /\ setter \in [Setters -> {"idle", "changed", "send"}]
    /\ snap \in [Setters \cup Clients -> Nat]
    /\ handler \in [Clients -> {"none", "snapshot", "first", "subscribe", "loop"}]
    /\ queue \in [Clients -> Seq(Nat)] /\ wire \in [Clients -> Seq(Nat)]
    /\ client \in [Clients -> {"off", "reading", "closed"}] /\ shown \in [Clients -> Nat]

Marks == crossed \in [Clients -> SUBSET Nat]

\* In a line read after a, only the snapshots of S are older than the one before them.
Forward(a, q, S) == \A i \in 1 .. Len(q) : (IF i = 1 THEN a ELSE q[i - 1]) <= q[i] \/ q[i] \in S

\* What is on its way to a display follows what it shows; before the first snapshot there is
\* nothing on its way.
InStep(c) ==
    /\ client[c] = "off" => shown[c] = 0 /\ wire[c] = << >>
    /\ handler[c] # "loop" => queue[c] = << >>
    /\ client[c] = "reading" =>
        /\ handler[c] \in {"snapshot", "first"} => shown[c] = 0 /\ wire[c] = << >>
        /\ Forward(shown[c], wire[c], crossed[c])
        /\ Forward(Stream!After(shown[c], wire[c]), queue[c], crossed[c])

StreamOK == StreamTypes /\ Marks /\ \A c \in Clients : InStep(c)

\* What happens at the end of a line: something newer, or something marked, is put there.
LEMMA AtTheEnd ==
    ASSUME NEW a \in Nat, NEW q \in Seq(Nat), NEW S, NEW v \in Nat,
           Forward(a, q, S), Stream!After(a, q) <= v \/ v \in S
    PROVE  /\ Append(q, v) \in Seq(Nat) /\ Forward(a, Append(q, v), S) /\ Stream!After(a, Append(q, v)) = v
<1>1. /\ Append(q, v) \in Seq(Nat) /\ Len(Append(q, v)) = Len(q) + 1 /\ Len(q) \in Nat
      /\ Append(q, v)[Len(q) + 1] = v /\ Len(q) + 1 # 0
      /\ \A i \in 1 .. Len(q) : Append(q, v)[i] = q[i]
  OBVIOUS
<1>2. Forward(a, Append(q, v), S)
  <2>1. ASSUME NEW i \in 1 .. Len(q)
        PROVE  (IF i = 1 THEN a ELSE Append(q, v)[i - 1]) <= Append(q, v)[i] \/ Append(q, v)[i] \in S
    <3>1. i = 1 \/ i - 1 \in 1 .. Len(q)
      BY <1>1
    <3>2. QED BY <1>1, <2>1, <3>1 DEF Forward
  <2>2. (IF Len(q) + 1 = 1 THEN a ELSE Append(q, v)[Len(q) + 1 - 1]) <= v \/ v \in S
    BY <1>1 DEF Stream!After
  <2>3. \A i \in 1 .. Len(Append(q, v)) : i \in 1 .. Len(q) \/ i = Len(q) + 1
    BY <1>1
  <2>4. QED BY <1>1, <2>1, <2>2, <2>3 DEF Forward
<1>3. QED BY <1>1, <1>2 DEF Stream!After

\* What happens at the head of a line: the first is taken, and is what the others follow.
LEMMA AtTheHead ==
    ASSUME NEW a \in Nat, NEW q \in Seq(Nat), NEW S, Forward(a, q, S), q # << >>
    PROVE  /\ Tail(q) \in Seq(Nat) /\ Head(q) \in Nat /\ (a <= Head(q) \/ Head(q) \in S)
           /\ Forward(Head(q), Tail(q), S) /\ Stream!After(Head(q), Tail(q)) = Stream!After(a, q)
<1>1. /\ Tail(q) \in Seq(Nat) /\ Len(Tail(q)) = Len(q) - 1 /\ Len(q) \in Nat \ {0}
      /\ Head(q) \in Nat /\ Head(q) = q[1]
  OBVIOUS
<1>2. \A i \in 1 .. Len(Tail(q)) : Tail(q)[i] = q[i + 1] /\ i + 1 \in 1 .. Len(q)
  BY <1>1
<1>3. a <= q[1] \/ q[1] \in S
  BY <1>1 DEF Forward
<1>4. Forward(Head(q), Tail(q), S)
  <2>1. ASSUME NEW i \in 1 .. Len(Tail(q))
        PROVE  (IF i = 1 THEN Head(q) ELSE Tail(q)[i - 1]) <= Tail(q)[i] \/ Tail(q)[i] \in S
    <3>1. i + 1 # 1 /\ i + 1 - 1 = i /\ (i = 1 \/ i - 1 \in 1 .. Len(Tail(q)))
      BY <1>1
    <3>2. (IF i = 1 THEN Head(q) ELSE Tail(q)[i - 1]) = q[i]
      BY <1>1, <1>2, <3>1
    <3>3. q[i] <= q[i + 1] \/ q[i + 1] \in S
      BY <1>2, <3>1 DEF Forward
    <3>4. QED BY <1>2, <3>2, <3>3
  <2>2. QED BY <2>1 DEF Forward
<1>5. Stream!After(Head(q), Tail(q)) = Stream!After(a, q)
  <2> DEFINE t == Tail(q)
  <2>1. /\ Len(t) = Len(q) - 1 /\ Len(q) \in Nat \ {0} /\ Head(q) = q[1]
        /\ \A i \in 1 .. Len(t) : t[i] = q[i + 1]
    BY <1>1, <1>2
  <2> HIDE DEF t
  <2>2. Stream!After(Head(q), t) = Stream!After(a, q)
    <3>1. Len(q) # 0 /\ (Len(t) = 0 => q[Len(q)] = Head(q)) /\ (Len(t) # 0 => t[Len(t)] = q[Len(q)])
      <4>1. CASE Len(t) = 0
        <5>1. Len(q) = 1
          BY <2>1, <4>1
        <5>2. QED BY <2>1, <4>1, <5>1
      <4>2. CASE Len(t) # 0
        <5>1. Len(t) \in 1 .. Len(t) /\ Len(t) + 1 = Len(q)
          BY <2>1, <4>2
        <5>2. QED BY <2>1, <4>2, <5>1
      <4>3. QED BY <4>1, <4>2
    <3>2. QED BY <3>1 DEF Stream!After
  <2>3. QED BY <2>2 DEF t
<1>6. QED BY <1>1, <1>3, <1>4, <1>5

\* More marks do no harm.
LEMMA MoreMarks ==
    ASSUME NEW a, NEW q, NEW S, NEW T, Forward(a, q, S), S \subseteq T
    PROVE  Forward(a, q, T)
BY DEF Forward

\* Nothing is in an empty line.
LEMMA EmptyLine == ASSUME NEW a, NEW S PROVE Forward(a, << >>, S) /\ Stream!After(a, << >>) = a
BY DEF Forward, Stream!After

\* A display nothing happens to stays in step.
LEMMA OthersInStep ==
    ASSUME NEW c \in Clients, InStep(c),
           UNCHANGED <<shown[c], wire[c], queue[c], handler[c], client[c], crossed[c]>>
    PROVE  InStep(c)'
BY DEF InStep, Forward, Stream!After

\* Every step keeps the types.
LEMMA StreamTypesStep == StreamTypes /\ [Stream!Next]_Stream!vars => StreamTypes'
<1> SUFFICES ASSUME StreamTypes, [Stream!Next]_Stream!vars PROVE StreamTypes'
  OBVIOUS
<1> USE DEF StreamTypes, Stream!daemon, Stream!conns, Stream!users, Stream!notes
<1>1. CASE UNCHANGED Stream!vars
  BY <1>1 DEF Stream!vars
<1>2. ASSUME NEW s \in Setters, Stream!SetComp(s) \/ Stream!Snapshot(s) PROVE StreamTypes'
  <2>1. CASE Stream!SetComp(s)
    BY <2>1 DEF Stream!SetComp
  <2>2. CASE Stream!Snapshot(s)
    BY <2>2 DEF Stream!Snapshot
  <2>3. QED BY <1>2, <2>1, <2>2
<1>3. ASSUME NEW s \in Setters, Stream!Send(s) PROVE StreamTypes'
  <2>1. snap[s] \in Nat
    OBVIOUS
  <2>2. queue' \in [Clients -> Seq(Nat)]
    <3>1. \A c \in Clients : Stream!Offer(queue[c], snap[s]) \in Seq(Nat)
      BY <2>1 DEF Stream!Offer
    <3>2. QED BY <1>3, <3>1 DEF Stream!Send
  <2>3. QED BY <1>3, <2>2 DEF Stream!Send
<1>4. CASE Stream!StopDaemon \/ Stream!StartDaemon
  <2>1. CASE Stream!StopDaemon
    BY <2>1 DEF Stream!StopDaemon
  <2>2. CASE Stream!StartDaemon
    BY <2>2 DEF Stream!StartDaemon
  <2>3. QED BY <1>4, <2>1, <2>2
<1>5. ASSUME NEW c \in Clients, Stream!Handle(c) PROVE StreamTypes'
  <2>1. CASE Stream!FirstSnapshot(c) \/ Stream!SubscribeStatus(c)
    BY <2>1 DEF Stream!FirstSnapshot, Stream!SubscribeStatus
  <2>2. CASE Stream!First(c)
    <3>1. CASE Stream!Encode(c, snap[c]) /\ handler' = [handler EXCEPT ![c] = "subscribe"] /\ UNCHANGED queue
      BY <2>2, <3>1 DEF Stream!First, Stream!Encode
    <3>2. CASE Stream!Leave(c)
      BY <2>2, <3>2 DEF Stream!First, Stream!Leave
    <3>3. QED BY <2>2, <3>1, <3>2 DEF Stream!First
  <2>3. CASE Stream!Loop(c)
    <3>1. Tail(queue[c]) \in Seq(Nat) /\ Head(queue[c]) \in Nat
      BY <2>3 DEF Stream!Loop
    <3>2. CASE Stream!Encode(c, Head(queue[c])) /\ queue' = [queue EXCEPT ![c] = Tail(@)] /\ UNCHANGED handler
      BY <2>3, <3>1, <3>2 DEF Stream!Loop, Stream!Encode
    <3>3. CASE Stream!Leave(c)
      BY <2>3, <3>3 DEF Stream!Loop, Stream!Leave
    <3>4. QED BY <2>3, <3>2, <3>3 DEF Stream!Loop
  <2>4. QED BY <1>5, <2>1, <2>2, <2>3 DEF Stream!Handle
<1>6. ASSUME NEW c \in Clients, Stream!Follow(c) \/ Stream!Close(c) PROVE StreamTypes'
  <2>1. CASE Stream!Dial(c) \/ Stream!EndOfStream(c) \/ Stream!Close(c)
    <3>1. CASE Stream!Dial(c)
      BY <3>1 DEF Stream!Dial
    <3>2. CASE Stream!EndOfStream(c)
      BY <3>2 DEF Stream!EndOfStream
    <3>3. CASE Stream!Close(c)
      BY <3>3 DEF Stream!Close
    <3>4. QED BY <2>1, <3>1, <3>2, <3>3
  <2>2. CASE Stream!Read(c)
    <3>1. Tail(wire[c]) \in Seq(Nat) /\ Head(wire[c]) \in Nat
      BY <2>2 DEF Stream!Read
    <3>2. QED BY <2>2, <3>1 DEF Stream!Read
  <2>3. QED BY <1>6, <2>1, <2>2 DEF Stream!Follow
<1>7. QED BY <1>1, <1>2, <1>3, <1>4, <1>5, <1>6 DEF Stream!Next, Stream!Broadcast

\* Only the setters mark, and what they mark is a snapshot of theirs.
LEMMA MarksStep == StreamTypes /\ Marks /\ [Stream!Next]_Stream!vars => Marks'
<1> SUFFICES ASSUME StreamTypes, Marks, [Stream!Next]_Stream!vars PROVE Marks'
  OBVIOUS
<1>1. CASE UNCHANGED crossed
  BY <1>1 DEF Marks
<1>2. ASSUME NEW s \in Setters, Stream!Send(s) PROVE Marks'
  <2>1. snap[s] \in Nat
    BY DEF StreamTypes
  <2>2. \A c \in Clients : (IF c \in Stream!Crossing(s) THEN crossed[c] \cup {snap[s]} ELSE crossed[c]) \in SUBSET Nat
    BY <2>1 DEF Marks
  <2>3. QED BY <1>2, <2>2 DEF Stream!Send, Marks
<1>3. ASSUME NEW c \in Clients, Stream!Dial(c) PROVE Marks'
  BY <1>3 DEF Stream!Dial, Marks
<1>4. ASSUME NEW s \in Setters, Stream!SetComp(s) \/ Stream!Snapshot(s) PROVE UNCHANGED crossed
  BY <1>4 DEF Stream!SetComp, Stream!Snapshot, Stream!notes
<1>5. ASSUME NEW c \in Clients, Stream!Handle(c) \/ Stream!Read(c) \/ Stream!EndOfStream(c) \/ Stream!Close(c)
      PROVE  UNCHANGED crossed
  BY <1>5 DEF Stream!Handle, Stream!FirstSnapshot, Stream!First, Stream!SubscribeStatus, Stream!Loop, Stream!Read,
              Stream!EndOfStream, Stream!Close, Stream!notes
<1>6. ASSUME Stream!StopDaemon \/ Stream!StartDaemon \/ UNCHANGED Stream!vars PROVE UNCHANGED crossed
  BY <1>6 DEF Stream!StopDaemon, Stream!StartDaemon, Stream!vars, Stream!notes
<1>7. QED BY <1>1, <1>2, <1>3, <1>4, <1>5, <1>6 DEF Stream!Next, Stream!Broadcast, Stream!Follow

\* What a setter sends goes behind what is on its way, marked if that is newer.
LEMMA SendStep ==
    ASSUME StreamOK, NEW s \in Setters, Stream!Send(s), NEW c \in Clients
    PROVE  InStep(c)'
<1>1. /\ UNCHANGED <<handler, wire, client, shown>> /\ InStep(c) /\ snap[s] \in Nat /\ shown[c] \in Nat
      /\ wire[c] \in Seq(Nat) /\ queue[c] \in Seq(Nat)
  BY DEF Stream!Send, Stream!users, StreamOK, StreamTypes
<1>2. /\ queue'[c] = IF c \in Stream!Subscribed THEN Stream!Offer(queue[c], snap[s]) ELSE queue[c]
      /\ crossed'[c] = IF c \in Stream!Crossing(s) THEN crossed[c] \cup {snap[s]} ELSE crossed[c]
  BY DEF Stream!Send
<1>3. CASE UNCHANGED queue[c]
  <2>1. crossed[c] \subseteq crossed'[c]
    BY <1>2
  <2>2. QED BY <1>1, <1>3, <2>1 DEF InStep, Forward, Stream!After
<1>4. CASE ~ (UNCHANGED queue[c])
  <2>1. handler[c] = "loop" /\ Len(queue[c]) < Buffer /\ queue'[c] = Append(queue[c], snap[s])
    BY <1>2, <1>4 DEF Stream!Offer, Stream!Subscribed
  <2> DEFINE a == Stream!After(shown[c], wire[c])
  <2>2. a \in Nat
    BY <1>1 DEF Stream!After
  <2>3. crossed[c] \subseteq crossed'[c] /\ (Stream!After(a, queue[c]) <= snap[s] \/ snap[s] \in crossed'[c])
    <3>1. Stream!After(a, queue[c]) \in Nat
      BY <1>1, <2>2 DEF Stream!After
    <3>2. Stream!Newest(c) = Stream!After(a, queue[c]) /\ c \in Stream!Subscribed
      BY <2>1 DEF Stream!Newest, Stream!Subscribed
    <3>3. QED BY <1>1, <1>2, <2>1, <3>1, <3>2 DEF Stream!Crossing
  <2> HIDE DEF a
  <2>4. ASSUME client[c] = "reading" PROVE Forward(a, queue'[c], crossed'[c])
    <3>1. Forward(a, queue[c], crossed'[c])
      BY <1>1, <2>3, <2>4, MoreMarks DEF InStep, a
    <3>2. QED BY <1>1, <2>1, <2>2, <2>3, <3>1, AtTheEnd
  <2>5. ASSUME client[c] = "reading" PROVE Forward(shown[c], wire[c], crossed'[c])
    BY <1>1, <2>3, <2>5 DEF InStep, Forward
  <2>6. a = Stream!After(shown[c], wire[c])' /\ (client[c] = "off" => shown[c] = 0 /\ wire[c] = << >>)
    BY <1>1 DEF InStep, a, Stream!After
  <2>7. QED BY <1>1, <2>1, <2>4, <2>5, <2>6 DEF InStep
<1>5. QED BY <1>3, <1>4

\* A handler's step, for its own display.
LEMMA HandleStep ==
    ASSUME StreamOK, NEW c \in Clients, Stream!Handle(c)
    PROVE  InStep(c)'
<1>1. /\ UNCHANGED <<client, shown, crossed>> /\ InStep(c) /\ snap[c] \in Nat /\ shown[c] \in Nat
      /\ wire[c] \in Seq(Nat) /\ queue[c] \in Seq(Nat)
  BY DEF Stream!Handle, Stream!FirstSnapshot, Stream!First, Stream!SubscribeStatus, Stream!Loop, Stream!users,
         Stream!notes, StreamOK, StreamTypes
<1>2. CASE Stream!FirstSnapshot(c) \/ Stream!SubscribeStatus(c)
  <2>1. UNCHANGED <<queue, wire>> /\ handler[c] # "loop" /\ queue[c] = << >>
    BY <1>1, <1>2 DEF Stream!FirstSnapshot, Stream!SubscribeStatus, InStep
  <2>2. handler[c] = "snapshot" \/ handler'[c] \notin {"snapshot", "first"}
    BY <1>2 DEF Stream!FirstSnapshot, Stream!SubscribeStatus, StreamOK, StreamTypes
  <2>3. QED BY <1>1, <2>1, <2>2 DEF InStep, Forward, Stream!After
<1>3. ASSUME Stream!Leave(c), client[c] # "reading" PROVE InStep(c)'
  <2>1. UNCHANGED wire /\ queue'[c] = << >>
    BY <1>3 DEF Stream!Leave, StreamOK, StreamTypes
  <2>2. QED BY <1>1, <1>3, <2>1 DEF InStep
<1>4. CASE Stream!First(c)
  <2>1. CASE Stream!Encode(c, snap[c]) /\ handler' = [handler EXCEPT ![c] = "subscribe"] /\ UNCHANGED queue
    <3>1. shown[c] = 0 /\ wire[c] = << >> /\ queue[c] = << >> /\ client[c] = "reading"
      BY <1>1, <1>4, <2>1 DEF Stream!First, Stream!Encode, InStep
    <3>2. wire'[c] = Append(wire[c], snap[c]) /\ handler'[c] = "subscribe"
      BY <2>1 DEF Stream!Encode, StreamOK, StreamTypes
    <3>3. Forward(shown[c], wire'[c], crossed[c])
      <4>1. Forward(shown[c], wire[c], crossed[c]) /\ Stream!After(shown[c], wire[c]) <= snap[c]
        BY <1>1, <3>1, EmptyLine
      <4>2. QED BY <1>1, <3>2, <4>1, AtTheEnd
    <3>4. Forward(Stream!After(shown[c], wire[c])', queue'[c], crossed[c])
      BY <2>1, <3>1, EmptyLine
    <3>5. QED BY <1>1, <2>1, <3>1, <3>2, <3>3, <3>4 DEF InStep
  <2>2. QED BY <1>3, <1>4, <2>1 DEF Stream!First
<1>5. CASE Stream!Loop(c)
  <2>1. CASE Stream!Encode(c, Head(queue[c])) /\ queue' = [queue EXCEPT ![c] = Tail(@)] /\ UNCHANGED handler
    <3> DEFINE q == queue[c]
               w == wire[c]
               S == crossed[c]
               a == shown[c]
    <3>1. /\ client[c] = "reading" /\ handler[c] = "loop" /\ q # << >> /\ Forward(a, w, S)
          /\ Forward(Stream!After(a, w), q, S) /\ q \in Seq(Nat) /\ w \in Seq(Nat) /\ a \in Nat
      BY <1>1, <1>5, <2>1 DEF Stream!Loop, Stream!Encode, InStep
    <3>2. wire'[c] = Append(w, Head(q)) /\ queue'[c] = Tail(q)
      BY <2>1 DEF Stream!Encode, StreamOK, StreamTypes
    <3> HIDE DEF q, w, S, a
    <3>3. Stream!After(a, w) \in Nat
      BY <3>1 DEF Stream!After
    <3>4. /\ Head(q) \in Nat /\ (Stream!After(a, w) <= Head(q) \/ Head(q) \in S)
          /\ Forward(Head(q), Tail(q), S)
      BY <3>1, <3>3, AtTheHead
    <3>5. Forward(a, Append(w, Head(q)), S) /\ Stream!After(a, Append(w, Head(q))) = Head(q)
      BY <3>1, <3>4, AtTheEnd
    <3>6. /\ Forward(shown[c], wire[c], crossed[c])'
          /\ Forward(Stream!After(shown[c], wire[c])', queue'[c], crossed[c])
      <4>1. Stream!After(shown[c], wire[c])' = Stream!After(a, Append(w, Head(q)))
        BY <1>1, <3>2 DEF a, Stream!After
      <4>2. QED BY <1>1, <3>2, <3>4, <3>5, <4>1 DEF a, S, Forward
    <3>7. QED BY <1>1, <2>1, <3>1, <3>6 DEF InStep
  <2>2. QED BY <1>3, <1>5, <2>1 DEF Stream!Loop
<1>6. QED BY <1>2, <1>4, <1>5 DEF Stream!Handle

\* A client's own step, for its display: what it shows goes back only at a marked snapshot.
LEMMA FollowStep ==
    ASSUME StreamOK, NEW c \in Clients, Stream!Follow(c) \/ Stream!Close(c)
    PROVE  InStep(c)' /\ (shown'[c] # 0 => shown'[c] >= shown[c] \/ shown'[c] \in crossed[c])
<1>1. /\ UNCHANGED queue /\ InStep(c) /\ shown[c] \in Nat /\ wire[c] \in Seq(Nat) /\ queue[c] \in Seq(Nat)
  BY DEF Stream!Follow, Stream!Dial, Stream!Read, Stream!EndOfStream, Stream!Close, Stream!conns, StreamOK,
         StreamTypes
<1>2. CASE Stream!Dial(c)
  <2>1. UNCHANGED <<wire, shown>> /\ shown[c] = 0 /\ wire[c] = << >> /\ queue[c] = << >>
    BY <1>1, <1>2 DEF Stream!Dial, InStep
  <2>2. client'[c] = "reading" /\ handler'[c] = "snapshot"
    BY <1>2 DEF Stream!Dial, StreamOK, StreamTypes
  <2>3. /\ Forward(shown[c], wire[c], crossed[c])'
        /\ Forward(Stream!After(shown[c], wire[c])', queue'[c], crossed'[c])
    BY <1>1, <2>1, EmptyLine
  <2>4. QED BY <1>1, <2>1, <2>2, <2>3 DEF InStep
<1>3. CASE Stream!Read(c)
  <2> DEFINE w == wire[c]
             a == shown[c]
             S == crossed[c]
  <2>1. /\ UNCHANGED <<handler, client, crossed>> /\ client[c] = "reading" /\ w # << >> /\ w \in Seq(Nat)
        /\ a \in Nat /\ Forward(a, w, S) /\ Forward(Stream!After(a, w), queue[c], S)
    BY <1>1, <1>3 DEF Stream!Read, Stream!notes, InStep
  <2>2. shown'[c] = Head(w) /\ wire'[c] = Tail(w) /\ handler[c] \notin {"snapshot", "first"}
    BY <1>1, <1>3 DEF Stream!Read, StreamOK, StreamTypes, InStep
  <2> HIDE DEF w, a, S
  <2>3. /\ Tail(w) \in Seq(Nat) /\ Head(w) \in Nat /\ (a <= Head(w) \/ Head(w) \in S)
        /\ Forward(Head(w), Tail(w), S) /\ Stream!After(Head(w), Tail(w)) = Stream!After(a, w)
    BY <2>1, AtTheHead
  <2>4. /\ Forward(shown[c], wire[c], crossed[c])'
        /\ Forward(Stream!After(shown[c], wire[c])', queue'[c], crossed'[c])
    <3>1. Stream!After(shown[c], wire[c])' = Stream!After(a, w) /\ crossed'[c] = S
      BY <2>1, <2>2, <2>3 DEF S, Stream!After
    <3>2. QED BY <1>1, <2>1, <2>2, <2>3, <3>1 DEF Forward
  <2>5. shown'[c] >= shown[c] \/ shown'[c] \in crossed[c]
    BY <2>1, <2>2, <2>3 DEF a, S
  <2>6. QED BY <1>1, <2>1, <2>2, <2>4, <2>5 DEF InStep
<1>4. CASE Stream!EndOfStream(c)
  <2>1. /\ UNCHANGED <<wire, handler>> /\ wire[c] = << >> /\ queue[c] = << >> /\ client'[c] = "off" /\ shown'[c] = 0
    BY <1>1, <1>4 DEF Stream!EndOfStream, Stream!conns, InStep, StreamOK, StreamTypes
  <2>2. QED BY <1>1, <2>1 DEF InStep
<1>5. CASE Stream!Close(c)
  <2>1. UNCHANGED <<handler, shown>> /\ client'[c] = "closed"
    BY <1>5 DEF Stream!Close, StreamOK, StreamTypes
  <2>2. QED BY <1>1, <2>1 DEF InStep
<1>6. QED BY <1>2, <1>3, <1>4, <1>5 DEF Stream!Follow

\* What the handler or the client of another display leaves alone.
LEMMA Apart ==
    ASSUME StreamOK, NEW c \in Clients, NEW d \in Clients \ {c},
           Stream!Handle(c) \/ Stream!Follow(c) \/ Stream!Close(c)
    PROVE  UNCHANGED <<shown[d], wire[d], queue[d], handler[d], client[d], crossed[d]>>
<1> USE DEF StreamOK, StreamTypes, Marks, Stream!conns, Stream!users, Stream!notes
<1>1. CASE Stream!Handle(c)
  BY <1>1 DEF Stream!Handle, Stream!FirstSnapshot, Stream!First, Stream!SubscribeStatus, Stream!Loop, Stream!Leave,
              Stream!Encode
<1>2. CASE Stream!Dial(c) \/ Stream!Read(c)
  BY <1>2 DEF Stream!Dial, Stream!Read
<1>3. CASE Stream!EndOfStream(c) \/ Stream!Close(c)
  BY <1>3 DEF Stream!EndOfStream, Stream!Close
<1>4. QED BY <1>1, <1>2, <1>3 DEF Stream!Follow

\* No display goes back in this step but at a marked snapshot.
Ahead == \A c \in Clients : shown'[c] # 0 => shown'[c] >= shown[c] \/ shown'[c] \in crossed[c]

\* Every step.
LEMMA StreamStep ==
    ASSUME StreamOK, [Stream!Next]_Stream!vars
    PROVE  StreamOK' /\ Ahead
<1>1. StreamTypes' /\ Marks'
  BY StreamTypesStep, MarksStep DEF StreamOK
<1>2. ASSUME UNCHANGED shown PROVE Ahead
  BY <1>2 DEF Ahead, StreamOK, StreamTypes
<1>3. CASE UNCHANGED Stream!vars
  BY <1>1, <1>2, <1>3, OthersInStep DEF Stream!vars, Stream!conns, Stream!users, Stream!notes, StreamOK
<1>4. ASSUME NEW s \in Setters, Stream!SetComp(s) \/ Stream!Snapshot(s) PROVE StreamOK' /\ Ahead
  <2>1. UNCHANGED <<shown, wire, queue, handler, client, crossed>>
    BY <1>4 DEF Stream!SetComp, Stream!Snapshot, Stream!conns, Stream!users, Stream!notes
  <2>2. QED BY <1>1, <1>2, <2>1, OthersInStep DEF StreamOK
<1>5. ASSUME NEW s \in Setters, Stream!Send(s) PROVE StreamOK' /\ Ahead
  <2>1. UNCHANGED shown
    BY <1>5 DEF Stream!Send, Stream!users
  <2>2. QED BY <1>1, <1>2, <1>5, <2>1, SendStep DEF StreamOK
<1>6. CASE Stream!StopDaemon \/ Stream!StartDaemon
  <2>1. UNCHANGED <<shown, wire, client, crossed>>
    BY <1>6 DEF Stream!StopDaemon, Stream!StartDaemon, Stream!conns, Stream!users, Stream!notes
  <2>2. ASSUME NEW c \in Clients PROVE InStep(c)'
    <3>1. CASE Stream!StopDaemon
      <4>1. handler'[c] = "none" /\ queue'[c] = << >> /\ InStep(c)
        BY <3>1 DEF Stream!StopDaemon, StreamOK
      <4>2. Forward(Stream!After(shown[c], wire[c]), queue'[c], crossed[c])
        BY <4>1, EmptyLine
      <4>3. QED BY <2>1, <4>1, <4>2 DEF InStep, Forward, Stream!After
    <3>2. CASE Stream!StartDaemon
      BY <2>1, <3>2, OthersInStep DEF Stream!StartDaemon, Stream!conns, StreamOK
    <3>3. QED BY <1>6, <3>1, <3>2
  <2>3. QED BY <1>1, <1>2, <2>1, <2>2 DEF StreamOK
<1>7. ASSUME NEW c \in Clients, Stream!Handle(c) \/ Stream!Follow(c) \/ Stream!Close(c) PROVE StreamOK' /\ Ahead
  <2>1. ASSUME NEW d \in Clients \ {c} PROVE InStep(d)' /\ UNCHANGED shown[d]
    BY <1>7, Apart, OthersInStep DEF StreamOK
  <2>2. InStep(c)' /\ (shown'[c] # 0 => shown'[c] >= shown[c] \/ shown'[c] \in crossed[c])
    <3>1. CASE Stream!Handle(c)
      <4>1. UNCHANGED shown /\ shown[c] \in Nat
        BY <3>1 DEF Stream!Handle, Stream!FirstSnapshot, Stream!First, Stream!SubscribeStatus, Stream!Loop,
                    Stream!users, StreamOK, StreamTypes
      <4>2. QED BY <3>1, <4>1, HandleStep
    <3>2. QED BY <1>7, <3>1, FollowStep
  <2>3. Ahead
    <3>1. \A d \in Clients \ {c} : shown'[d] = shown[d] /\ shown[d] \in Nat
      BY <2>1 DEF StreamOK, StreamTypes
    <3>2. QED BY <2>2, <3>1 DEF Ahead
  <2>4. QED BY <1>1, <2>1, <2>2, <2>3 DEF StreamOK
<1>8. QED BY <1>3, <1>4, <1>5, <1>6, <1>7 DEF Stream!Next, Stream!Broadcast

\* For any number of goroutines that change the state, any clients, buffers and restarts of the
\* daemon: a display goes back to an earlier state, while it stays connected, only where two
\* broadcasts crossed, at the very snapshot that was sent behind a newer one.
THEOREM AlwaysForward == Stream!Spec => NeverBack
<1>1. Stream!Init => StreamOK
  BY EmptyLine DEF Stream!Init, StreamOK, StreamTypes, Marks, InStep
<1>2. StreamOK /\ [Stream!Next]_Stream!vars => StreamOK' /\ Ahead
  BY StreamStep
<1>3. QED BY <1>1, <1>2, PTL DEF Stream!Spec, NeverBack, Stream!NeverBack, Ahead

----------------------------------------------------------------------------
(* Entrypoint.                                                             *)

Behind == socks = "alive" => rules

\* The rules are there before the shell's loop, and whatever stops it takes danted along with them.
RulesFirst == Behind /\ (pc \in {"loop", "connecting", "watching", "ending", "delay"} => rules)

\* Whatever the shell does.
LEMMA ScriptStep == RulesFirst /\ Container!Script => RulesFirst'
<1> SUFFICES ASSUME RulesFirst, Container!Script PROVE RulesFirst'
  OBVIOUS
<1> USE DEF RulesFirst, Behind, Container!Shell, Container!kids, Container!CleanupSocks
<1>1. CASE Container!Checks \/ Container!InstallRules \/ Container!StartVpn \/ Container!ExitedEarly
  BY <1>1 DEF Container!Checks, Container!InstallRules, Container!StartVpn, Container!ExitedEarly
<1>2. CASE Container!StartSocks \/ Container!TunGone \/ Container!RestartSocks \/ Container!VpnGone
  BY <1>2 DEF Container!StartSocks, Container!TunGone, Container!RestartSocks, Container!VpnGone
<1>3. CASE Container!Disconnected \/ Container!Retry \/ Container!Leave \/ Container!CleanupAll
  BY <1>3 DEF Container!Disconnected, Container!Retry, Container!Leave, Container!CleanupAll
<1>4. QED BY <1>1, <1>2, <1>3 DEF Container!Script

\* Every step.
LEMMA RulesStep == RulesFirst /\ [Container!Next]_Container!vars => RulesFirst'
<1> SUFFICES ASSUME RulesFirst, [Container!Next]_Container!vars PROVE RulesFirst'
  OBVIOUS
<1> USE DEF RulesFirst, Behind
<1>1. CASE UNCHANGED Container!vars
  BY <1>1 DEF Container!vars, Container!kids
<1>2. CASE Container!Connect \/ Container!Reconnect \/ Container!OldConnects \/ Container!Ends \/ Container!OldEnds
  BY <1>2 DEF Container!Connect, Container!Reconnect, Container!Openvpn, Container!OldConnects, Container!Ends,
              Container!OldEnds
<1>3. CASE Container!SocksDies \/ Container!Server \/ Container!Stop \/ Container!Start
  BY <1>3 DEF Container!SocksDies, Container!Server, Container!Stop, Container!Start, Container!kids
<1>4. QED BY <1>1, <1>2, <1>3, ScriptStep DEF Container!Next

\* The first half of SocksNeedsTunnel: danted runs only while the rules that block its traffic
\* without a tunnel are in place, through signals, restarts and any end of openvpn.
THEOREM SocksBehindRules == Container!Spec => [](socks = "alive" => rules)
<1>1. Container!Init => RulesFirst
  BY DEF Container!Init, RulesFirst, Behind
<1>2. RulesFirst => Behind
  BY DEF RulesFirst
<1>3. QED BY <1>1, <1>2, RulesStep, PTL DEF Container!Spec, Behind
=============================================================================
