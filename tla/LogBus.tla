-------------------------------- MODULE LogBus --------------------------------
(***************************************************************************)
(* The log bus (internal/logbus/logbus.go): a ring of numbered entries, in  *)
(* which a repeated message is counted instead of added, and subscribers.  *)
(* Publish takes the lock three times: to read the tap, to record the      *)
(* entry and to broadcast it.                                              *)
(***************************************************************************)
EXTENDS Naturals, Integers, Sequences, FiniteSets

CONSTANTS
    Publishers, \* goroutines
    Keys,       \* dedupe keys
    Traced,     \* those of messages a running trace consumes
    Cap,        \* the ring's capacity
    Window,     \* dedupeWindow, in ticks
    Buffer,     \* the subscription's buffer
    MaxSeq,     \* bound: entries
    MaxCount    \* bound: repeats of an entry

ASSUME LogBusAssumption ==
    /\ Publishers # {} /\ Keys # {} /\ Traced \subseteq Keys
    /\ {Cap, Window, Buffer, MaxSeq, MaxCount} \subseteq Nat \ {0}

VARIABLES
    tracing,    \* the tap consumes messages
    seq, ring,  \* b.seq, b.ring
    recent,     \* b.recent; 0 for an absent key
    since,      \* time since b.recentAt, at most Window
    at,         \* where each publisher is
    held,       \* the key it publishes, then the entry it broadcasts
    sub,        \* the subscriber's channel
    follower    \* where `logs -f` is

book == <<seq, ring, recent, since>>
tail == <<sub, follower>>
vars == <<tracing, book, at, held, tail>>

Entries == [seq : 1 .. MaxSeq, key : Keys, count : 1 .. MaxCount]

TypeOK ==
    /\ tracing \in BOOLEAN /\ seq \in 0 .. MaxSeq
    /\ ring \in Seq(Entries) /\ Len(ring) <= Cap
    /\ recent \in [Keys -> 0 .. MaxSeq] /\ since \in [Keys -> 0 .. Window]
    /\ at \in [Publishers -> {"idle", "offered", "send"}]
    /\ Len(sub) <= Buffer
    /\ follower \in {"off", "read", "following"}

NoEntry == <<0, 0>>

Init ==
    /\ tracing = FALSE /\ seq = 0 /\ ring = << >>
    /\ recent = [k \in Keys |-> 0] /\ since = [k \in Keys |-> Window]
    /\ at = [p \in Publishers |-> "idle"] /\ held = [p \in Publishers |-> NoEntry]
    /\ sub = << >> /\ follower = "off"

----------------------------------------------------------------------------
(* Publish.                                                                *)

Tapped(k) == tracing /\ k \in Traced

\* The tap runs without the lock.
Offer(p, k) ==
    /\ at[p] = "idle" /\ ~Tapped(k)
    /\ at' = [at EXCEPT ![p] = "offered"] /\ held' = [held EXCEPT ![p] = <<k, 0>>]
    /\ UNCHANGED <<tracing, book, tail>>

Consume(p, k) == at[p] = "idle" /\ Tapped(k) /\ UNCHANGED vars

Index(k) == recent[k] - ring[1].seq + 1

\* find: the position is a subtraction, for numbers are contiguous.
Found(k) == recent[k] # 0 /\ since[k] < Window /\ ring # << >> /\ Index(k) \in 1 .. Len(ring)

Repeat(p) ==
    /\ at[p] = "offered"
    /\ LET k == held[p][1] IN
        /\ Found(k) /\ ring[Index(k)].count < MaxCount
        /\ ring' = [ring EXCEPT ![Index(k)].count = @ + 1]
        /\ since' = [since EXCEPT ![k] = 0]
        /\ held' = [held EXCEPT ![p] = <<recent[k], ring[Index(k)].count + 1>>]
    /\ at' = [at EXCEPT ![p] = "send"]
    /\ UNCHANGED <<tracing, seq, recent, tail>>

\* pruneRecent, once the map has outgrown the ring.
Pruned(r, s, k) ==
    IF Cardinality({x \in Keys : r[x] # 0}) <= Cap THEN r
    ELSE [x \in Keys |-> IF s[x] >= Window THEN 0 ELSE r[x]]

\* Mutant: a full ring drops its newest entry.
AppendedLast(e) == IF Len(ring) = Cap THEN Append(SubSeq(ring, 1, Cap - 1), e) ELSE Append(ring, e)

Appended(e) == IF Len(ring) = Cap THEN Append(Tail(ring), e) ELSE Append(ring, e)

Record(p) ==
    /\ at[p] = "offered" /\ seq < MaxSeq
    /\ LET k == held[p][1] IN
        /\ ~Found(k)
        /\ ring' = Appended([seq |-> seq + 1, key |-> k, count |-> 1])
        /\ since' = [since EXCEPT ![k] = 0]
        /\ recent' = Pruned([recent EXCEPT ![k] = seq + 1], since', k)
    /\ seq' = seq + 1
    /\ held' = [held EXCEPT ![p] = <<seq + 1, 1>>] /\ at' = [at EXCEPT ![p] = "send"]
    /\ UNCHANGED <<tracing, tail>>

\* broadcast: "drop rather than stall a producer".
Broadcast(p) ==
    /\ at[p] = "send"
    /\ sub' = IF follower = "following" /\ Len(sub) < Buffer THEN Append(sub, held[p]) ELSE sub
    /\ held' = [held EXCEPT ![p] = NoEntry] /\ at' = [at EXCEPT ![p] = "idle"]
    /\ UNCHANGED <<tracing, book, follower>>

Publish(p) == (\E k \in Keys : Offer(p, k) \/ Consume(p, k)) \/ Repeat(p) \/ Record(p) \/ Broadcast(p)

----------------------------------------------------------------------------
(* A client's `logs -f`: the ring, then a subscription.                    *)

Snapshot ==
    /\ follower = "off" /\ follower' = "read"
    /\ UNCHANGED <<tracing, book, at, held, sub>>

Subscribe ==
    /\ follower = "read" /\ follower' = "following"
    /\ UNCHANGED <<tracing, book, at, held, sub>>

Receive ==
    /\ follower = "following" /\ sub # << >> /\ sub' = Tail(sub)
    /\ UNCHANGED <<tracing, book, at, held, follower>>

Release ==
    /\ follower = "following" /\ follower' = "off" /\ sub' = << >>
    /\ UNCHANGED <<tracing, book, at, held>>

----------------------------------------------------------------------------

\* A trace starts and stops consuming lines.
SetTracing ==
    /\ tracing' = ~tracing
    /\ UNCHANGED <<book, at, held, tail>>

Tick ==
    /\ since' = [k \in Keys |-> IF since[k] < Window THEN since[k] + 1 ELSE since[k]]
    /\ UNCHANGED <<tracing, seq, ring, recent, at, held, tail>>

Next ==
    \/ \E p \in Publishers : Publish(p)
    \/ Snapshot \/ Subscribe \/ Receive \/ Release
    \/ SetTracing \/ Tick

Spec == Init /\ [][Next]_vars

----------------------------------------------------------------------------

\* "Seq is contiguous across the ring" (logbus.go:169-171): the ring holds the last
\* entries recorded, each at the position find computes, and a live key is
\* mapped to the newest entry of that key or to one that has been evicted.  What
\* a subscriber gets is an entry as it was at some time: never one with a count
\* its entry in the ring has not reached.
Located ==
    /\ ring # << >> => ring[Len(ring)].seq = seq
    /\ \A i \in DOMAIN ring :
        /\ ring[i].seq = ring[1].seq + i - 1
        /\ recent[ring[i].key] = 0 \/ recent[ring[i].key] >= ring[i].seq
        /\ recent[ring[i].key] = ring[i].seq \/ \A k \in Keys : recent[k] # ring[i].seq
        /\ \A j \in DOMAIN sub : ring[i].seq = sub[j][1] => sub[j][2] <= ring[i].count
=============================================================================
