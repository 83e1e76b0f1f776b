-------------------------------- MODULE NetMon --------------------------------
(***************************************************************************)
(* The address direct traffic binds to: netmon.Watch, which re-reads it    *)
(* when the kernel reports a change (internal/netmon/watch.go), and the    *)
(* health loop's refreshBindAddress (internal/supervisor/supervisor.go),   *)
(* two goroutines that write one Holder.                                   *)
(*                                                                         *)
(* The route socket's messages are a counter, for Watch reads nothing in   *)
(* them.  The health loop is reduced to what HealthLoop shows of it: it    *)
(* refreshes while applications work and the direct probe fails.           *)
(***************************************************************************)
EXTENDS Naturals

CONSTANTS
    Addrs,      \* IPv4 addresses the interface may have
    None,       \* no address
    Debounce,   \* the debounce, in ticks
    MaxMsgs     \* bound: messages waiting in the route socket

NetMonAssumption ==
    Addrs # {} /\ None \notin Addrs /\ Debounce \in Nat \ {0} /\ MaxMsgs \in Nat \ {0}

VARIABLES
    addr,       \* the interface's address
    held,       \* the Holder
    dirty,      \* history: held changed since the generation was last bumped
    apps,       \* applications reach the network
    open,       \* the route socket is open
    msgs,       \* messages waiting in it
    notify,     \* a token waits in the channel
    started,    \* timer # nil
    armed,      \* timerC # nil
    left,       \* what is left of the debounce
    due,        \* the timer runs, or its tick waits
    at,         \* where each writer is
    read        \* what each writer read

Writers == {"watch", "health"}

kernel == <<open, msgs, notify>>
timer  == <<started, armed, left, due>>
book   == <<at, read>>
holder == <<held, dirty>>
world  == <<addr, apps>>
vars   == <<world, holder, kernel, timer, book>>

TypeOK ==
    /\ addr \in Addrs \cup {None} /\ held \in Addrs \cup {None}
    /\ msgs \in 0 .. MaxMsgs /\ left \in 0 .. Debounce
    /\ at \in [Writers -> {"idle", "compare", "set", "bump"}]
    /\ read \in [Writers -> Addrs \cup {None}] /\ \A w \in Writers : at[w] = "set" => read[w] # None
    /\ {dirty, apps, open, notify, started, armed, due} \subseteq BOOLEAN

\* New read the address, if there was one; Watch opens the socket later.
Init ==
    /\ addr \in Addrs \cup {None} /\ held = addr /\ dirty = FALSE
    /\ apps \in BOOLEAN
    /\ open = FALSE /\ msgs = 0 /\ notify = FALSE
    /\ started = FALSE /\ armed = FALSE /\ left = 0 /\ due = FALSE
    /\ at = [w \in Writers |-> "idle"] /\ read = [w \in Writers |-> None]

----------------------------------------------------------------------------
(* netmon.Watch and its reader goroutine.                                  *)

OpenSocket ==
    /\ ~open /\ open' = TRUE
    /\ UNCHANGED <<world, holder, msgs, notify, timer, book>>

\* The reader: one token is enough, "a re-check is already pending".
Receive ==
    /\ open /\ msgs > 0
    /\ msgs' = msgs - 1 /\ notify' = TRUE
    /\ UNCHANGED <<world, holder, open, timer, book>>

\* Only the first message sets timerC.
Debounced ==
    /\ at["watch"] = "idle" /\ notify
    /\ notify' = FALSE /\ left' = Debounce /\ due' = TRUE
    /\ started' = TRUE /\ armed' = (armed \/ ~started)
    /\ UNCHANGED <<world, holder, open, msgs, book>>

\* timerC delivers and recheck reads the interface.
Recheck ==
    /\ at["watch"] = "idle" /\ armed /\ due /\ left = 0
    /\ armed' = FALSE /\ due' = FALSE
    /\ at' = [at EXCEPT !["watch"] = IF addr = None THEN "idle" ELSE "compare"]
    /\ read' = [read EXCEPT !["watch"] = addr]
    /\ UNCHANGED <<world, holder, kernel, started, left>>

----------------------------------------------------------------------------
(* refreshBindAddress, on a bind-stale verdict: the direct probe binds the  *)
(* held address.  With none held it follows the default route and succeeds. *)

\* Mutant: the verdicts are swapped.
BindStaleOffline == ~apps /\ held # None /\ held # addr

BindStale == apps /\ held # None /\ held # addr

Refresh ==
    /\ at["health"] = "idle" /\ BindStale
    /\ at' = [at EXCEPT !["health"] = IF addr = None THEN "idle" ELSE "compare"]
    /\ read' = [read EXCEPT !["health"] = addr]
    /\ UNCHANGED <<world, holder, kernel, timer>>

----------------------------------------------------------------------------
(* What both do with the address they read.                                *)

Compare(w) ==
    /\ at[w] = "compare"
    /\ at' = [at EXCEPT ![w] = IF held = read[w] THEN "idle" ELSE "set"]
    /\ UNCHANGED <<world, holder, kernel, timer, read>>

\* Mutant: the generation is bumped before the address is stored.
SetLate(w) ==
    /\ at[w] = "set" /\ at' = [at EXCEPT ![w] = "idle"]
    /\ held' = read[w] /\ dirty' = (held # read[w])
    /\ UNCHANGED <<world, kernel, timer, read>>

Set(w) ==
    /\ at[w] = "set" /\ at' = [at EXCEPT ![w] = "bump"]
    /\ held' = read[w] /\ dirty' = (dirty \/ held # read[w])
    /\ UNCHANGED <<world, kernel, timer, read>>

BumpGeneration(w) ==
    /\ at[w] = "bump" /\ at' = [at EXCEPT ![w] = "idle"]
    /\ dirty' = FALSE
    /\ UNCHANGED <<world, held, kernel, timer, read>>

Write(w) == Compare(w) \/ Set(w) \/ BumpGeneration(w)

----------------------------------------------------------------------------
(* The machine.                                                            *)

Reported == IF open /\ msgs < MaxMsgs THEN msgs + 1 ELSE msgs

Change(a) ==
    /\ addr # a /\ addr' = a /\ msgs' = Reported
    /\ UNCHANGED <<apps, holder, open, notify, timer, book>>

\* Any other routing message.
Noise ==
    /\ open /\ msgs < MaxMsgs /\ msgs' = msgs + 1
    /\ UNCHANGED <<world, holder, open, notify, timer, book>>

Works ==
    /\ apps' = ~apps
    /\ UNCHANGED <<addr, holder, kernel, timer, book>>

Tick ==
    /\ left > 0 /\ left' = left - 1
    /\ UNCHANGED <<world, holder, kernel, started, armed, due, book>>

Next ==
    \/ OpenSocket \/ Receive \/ Debounced \/ Recheck \/ Refresh
    \/ \E w \in Writers : Write(w)
    \/ (\E a \in Addrs \cup {None} : Change(a)) \/ Noise \/ Works \/ Tick

Spec == Init /\ [][Next]_vars

\* Goroutines run, time passes, and the health loop keeps probing.
Fairness ==
    /\ WF_vars(OpenSocket) /\ WF_vars(Receive) /\ WF_vars(Debounced) /\ WF_vars(Recheck)
    /\ WF_vars(Refresh) /\ WF_vars(Tick) /\ \A w \in Writers : WF_vars(Write(w))

FairSpec == Spec /\ Fairness

----------------------------------------------------------------------------

\* A path learned on one address must not outlive it: whichever goroutine
\* stored another one, a bump of the network generation, which is what empties
\* the racer's table, is still to come (supervisor.go:527-529, 625-628).
Invalidated == dirty => \E w \in Writers : at[w] = "bump"

\* The messages stop for good.
Settles(a) == <>[](addr = a) /\ <>[][~Noise]_vars

\* While applications work the health loop catches up with an address Watch
\* missed, whatever was held before (supervisor.go:584-587).
CaughtUp ==
    \A a \in Addrs : Settles(a) /\ <>[](apps /\ held # None) => <>[](held = a)
=============================================================================
