----------------------------- MODULE StatusStream -----------------------------
(***************************************************************************)
(* How a change of state reaches a display: setComp and its kind change    *)
(* the state and broadcast (internal/supervisor/supervisor.go), handle     *)
(* streams to one client (internal/ipc/ipc.go), and the client shows what  *)
(* it reads and dials again when the stream ends                           *)
(* (internal/ui/menubar/menubar.go).                                       *)
(*                                                                         *)
(* A snapshot is the number of changes made before it was taken; 0 on a    *)
(* display stands for "disconnected".                                      *)
(***************************************************************************)
EXTENDS Naturals, Sequences

CONSTANTS
    Setters,    \* goroutines that change the state
    Clients,    \* clients that stream, and may stop caring
    Buffer,     \* the subscription's buffer
    Wire,       \* bound: replies the socket holds before a write blocks
    MaxChanges, \* bound: changes of the state
    Faults      \* "restart": the daemon may be restarted

StreamAssumption ==
    /\ Setters # {} /\ Clients # {} /\ Setters \cap Clients = {}
    /\ Buffer \in Nat \ {0} /\ Wire \in Nat \ {0} /\ MaxChanges \in Nat \ {0}
    /\ Faults \subseteq {"restart"}

VARIABLES
    state,      \* changes made, plus one
    setter,     \* where each setter is
    snap,       \* the snapshot each setter or handler holds
    up,         \* the daemon runs
    handler,    \* where the handler of each client's connection is
    queue,      \* the subscription's channel
    wire,       \* replies on their way
    client,     \* where each client is
    shown,      \* what each client displays
    missed,     \* history: clients whose subscription had no room for a snapshot
    crossed     \* history: the snapshots each client was sent behind a newer one

daemon == <<state, setter, up>>
conns  == <<handler, queue, wire>>
users  == <<client, shown>>
notes  == <<missed, crossed>>
vars   == <<daemon, snap, conns, users, notes>>

Subscribed == {c \in Clients : handler[c] = "loop"}

TypeOK ==
    /\ state \in 1 .. MaxChanges + 1 /\ up \in BOOLEAN
    /\ setter \in [Setters -> {"idle", "changed", "send"}]
    /\ snap \in [Setters \cup Clients -> 0 .. MaxChanges + 1]
    /\ handler \in [Clients -> {"none", "snapshot", "first", "subscribe", "loop"}]
    /\ client \in [Clients -> {"off", "reading", "closed"}]
    /\ shown \in [Clients -> 0 .. MaxChanges + 1]
    /\ missed \subseteq Clients /\ crossed \in [Clients -> SUBSET (1 .. MaxChanges + 1)]
    /\ \A c \in Clients :
        /\ queue[c] \in Seq(1 .. MaxChanges + 1) /\ Len(queue[c]) <= Buffer
        /\ wire[c] \in Seq(1 .. MaxChanges + 1) /\ Len(wire[c]) <= Wire
        /\ c \notin Subscribed => queue[c] = << >>

Init ==
    /\ state = 1 /\ setter = [s \in Setters |-> "idle"] /\ up = TRUE
    /\ snap = [x \in Setters \cup Clients |-> 0]
    /\ handler = [c \in Clients |-> "none"]
    /\ queue = [c \in Clients |-> << >>] /\ wire = [c \in Clients |-> << >>]
    /\ client = [c \in Clients |-> "off"] /\ shown = [c \in Clients |-> 0]
    /\ missed = {} /\ crossed = [c \in Clients |-> {}]

----------------------------------------------------------------------------
(* A change of state: setComp, bumpGeneration, SetPaused.                  *)

SetComp(s) ==
    /\ up /\ setter[s] = "idle" /\ state <= MaxChanges
    /\ state' = state + 1 /\ setter' = [setter EXCEPT ![s] = "changed"]
    /\ UNCHANGED <<up, snap, conns, users, notes>>

\* Mutant: the snapshot was taken before the change.
SnapshotEarly(s) ==
    /\ setter[s] = "changed"
    /\ snap' = [snap EXCEPT ![s] = state - 1] /\ setter' = [setter EXCEPT ![s] = "send"]
    /\ UNCHANGED <<state, up, conns, users, notes>>

\* broadcast: the snapshot first, under the lock of its own.
Snapshot(s) ==
    /\ setter[s] = "changed"
    /\ snap' = [snap EXCEPT ![s] = state] /\ setter' = [setter EXCEPT ![s] = "send"]
    /\ UNCHANGED <<state, up, conns, users, notes>>

\* Mutant: the newest snapshot comes first.
OfferFirst(q, v) == IF Len(q) < Buffer THEN <<v>> \o q ELSE q

\* A full channel: "a slow client gets the next one".
Offer(q, v) == IF Len(q) < Buffer THEN Append(q, v) ELSE q

\* What is shown once a line has been read, a being shown before it.
After(a, q) == IF Len(q) = 0 THEN a ELSE q[Len(q)]

\* What the client is shown last, as things stand.
Newest(c) == After(After(shown[c], wire[c]), queue[c])

\* Nothing keeps one setter from sending between the snapshot of another and its
\* sending.
Crossing(s) == {c \in Subscribed : Len(queue[c]) < Buffer /\ snap[s] < Newest(c)}

Send(s) ==
    /\ setter[s] = "send"
    /\ queue' = [c \in Clients |-> IF c \in Subscribed THEN Offer(queue[c], snap[s]) ELSE queue[c]]
    /\ missed' = missed \cup {c \in Subscribed : Len(queue[c]) = Buffer}
    /\ crossed' = [c \in Clients |-> IF c \in Crossing(s) THEN crossed[c] \cup {snap[s]} ELSE crossed[c]]
    /\ setter' = [setter EXCEPT ![s] = "idle"] /\ snap' = [snap EXCEPT ![s] = 0]
    /\ UNCHANGED <<state, up, handler, wire, users>>

Broadcast(s) == Snapshot(s) \/ Send(s)

----------------------------------------------------------------------------
(* handle, for status-stream.                                              *)

FirstSnapshot(c) ==
    /\ handler[c] = "snapshot"
    /\ handler' = [handler EXCEPT ![c] = "first"] /\ snap' = [snap EXCEPT ![c] = state]
    /\ UNCHANGED <<daemon, queue, wire, users, notes>>

\* A write blocks while the socket is full and fails once the client has closed.
\* A failed write ends the handler, which releases its subscription.
Leave(c) ==
    /\ handler' = [handler EXCEPT ![c] = "none"] /\ queue' = [queue EXCEPT ![c] = << >>]
    /\ UNCHANGED wire

Encode(c, v) == client[c] = "reading" /\ Len(wire[c]) < Wire /\ wire' = [wire EXCEPT ![c] = Append(@, v)]

First(c) ==
    /\ handler[c] = "first"
    /\ \/ Encode(c, snap[c]) /\ handler' = [handler EXCEPT ![c] = "subscribe"] /\ UNCHANGED queue
       \/ client[c] # "reading" /\ Leave(c)
    /\ snap' = [snap EXCEPT ![c] = 0]
    /\ UNCHANGED <<daemon, users, notes>>

SubscribeStatus(c) ==
    /\ handler[c] = "subscribe" /\ handler' = [handler EXCEPT ![c] = "loop"]
    /\ UNCHANGED <<daemon, snap, queue, wire, users, notes>>

Loop(c) ==
    /\ handler[c] = "loop" /\ queue[c] # << >>
    /\ \/ Encode(c, Head(queue[c])) /\ queue' = [queue EXCEPT ![c] = Tail(@)] /\ UNCHANGED handler
       \/ client[c] # "reading" /\ Leave(c)
    /\ UNCHANGED <<daemon, snap, users, notes>>

Handle(c) == FirstSnapshot(c) \/ First(c) \/ SubscribeStatus(c) \/ Loop(c)

----------------------------------------------------------------------------
(* Client.Stream and followStatus.                                         *)

Dial(c) ==
    /\ client[c] = "off" /\ up /\ handler[c] = "none"
    /\ client' = [client EXCEPT ![c] = "reading"] /\ handler' = [handler EXCEPT ![c] = "snapshot"]
    /\ missed' = missed \ {c} /\ crossed' = [crossed EXCEPT ![c] = {}]
    /\ UNCHANGED <<daemon, snap, queue, wire, shown>>

Read(c) ==
    /\ client[c] = "reading" /\ wire[c] # << >>
    /\ shown' = [shown EXCEPT ![c] = Head(wire[c])] /\ wire' = [wire EXCEPT ![c] = Tail(@)]
    /\ UNCHANGED <<daemon, snap, handler, queue, client, notes>>

EndOfStream(c) ==
    /\ client[c] = "reading" /\ wire[c] = << >> /\ handler[c] = "none"
    /\ client' = [client EXCEPT ![c] = "off"] /\ shown' = [shown EXCEPT ![c] = 0]
    /\ UNCHANGED <<daemon, snap, conns, notes>>

Follow(c) == Dial(c) \/ Read(c) \/ EndOfStream(c)

\* The context ends: Stream closes the connection under its read.
Close(c) ==
    /\ client[c] = "reading"
    /\ client' = [client EXCEPT ![c] = "closed"] /\ wire' = [wire EXCEPT ![c] = << >>]
    /\ UNCHANGED <<daemon, snap, handler, queue, shown, notes>>

----------------------------------------------------------------------------
(* The daemon is restarted: every connection ends, what was sent is read.  *)

StopDaemon ==
    /\ "restart" \in Faults /\ up /\ up' = FALSE
    /\ setter' = [s \in Setters |-> "idle"] /\ snap' = [x \in Setters \cup Clients |-> 0]
    /\ handler' = [c \in Clients |-> "none"] /\ queue' = [c \in Clients |-> << >>]
    /\ UNCHANGED <<state, wire, users, notes>>

StartDaemon ==
    /\ ~up /\ up' = TRUE
    /\ UNCHANGED <<state, setter, snap, conns, users, notes>>

Next ==
    \/ \E s \in Setters : SetComp(s) \/ Broadcast(s)
    \/ \E c \in Clients : Handle(c) \/ Follow(c) \/ Close(c)
    \/ StopDaemon \/ StartDaemon

Spec == Init /\ [][Next]_vars

\* Goroutines and clients run; a setter completes what it began.
Fairness ==
    /\ \A s \in Setters : WF_vars(Broadcast(s))
    /\ \A c \in Clients : WF_vars(Handle(c)) /\ WF_vars(Follow(c))

FairSpec == Spec /\ Fairness

----------------------------------------------------------------------------

\* A display goes back to an earlier state of a daemon it stays connected to only
\* where two broadcasts crossed, at the very snapshot that was sent behind a newer
\* one: followStatus "keeps the menu in step with the daemon" (menubar.go:214), and
\* neither the first snapshot, nor the subscription behind it, nor a buffer, nor
\* the wire puts an older state behind a newer one, however many goroutines change
\* the state.
NeverBack == [][\A c \in Clients : shown'[c] # 0 => shown'[c] >= shown[c] \/ shown'[c] \in crossed[c]]_vars

\* Whatever changes once a client has subscribed, its display comes to show the
\* state there is by then (supervisor.go:1079-1089), however slowly the client
\* reads and whatever crossed before, unless it leaves or its buffer overflowed. (A
\* snapshot sent behind that one takes the display back until the next change.)
FollowsLater ==
    \A c \in Clients :
        c \in Subscribed /\ (\E s \in Setters : setter[s] = "changed")
            ~> shown[c] = state \/ client[c] # "reading" \/ c \notin Subscribed \/ c \in missed
=============================================================================
