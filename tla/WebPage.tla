------------------------------- MODULE WebPage -------------------------------
(***************************************************************************)
(* The lifetime of the local page (internal/ui/web/server.go): URL starts  *)
(* a server when somebody asks for the page, requests in flight keep it    *)
(* open, and a timer closes it when there have been none for a while,      *)
(* ending a trace nobody is left to stop.                                  *)
(*                                                                         *)
(* A timer that has gone off is a goroutine that may wait for the lock; a  *)
(* tick passes only when none does.                                        *)
(***************************************************************************)
EXTENDS Naturals, FiniteSets

CONSTANTS
    Conns,      \* the browser's connections
    Timers,     \* time.AfterFunc timers
    Wait,       \* IdleTimeout, in ticks
    None

VARIABLES
    srv,            \* a server is listening
    idle,           \* the timer s.idle holds
    timer,          \* of each timer: the ticks left, none when it has gone off; or Off
    active,         \* s.active
    watching,       \* s.watching
    conn,           \* what each connection is doing
    closing, old,   \* where the last closeIfUnwatched is, and what it still has to close
    trace,          \* the daemon is tracing
    looked          \* history: the page was looked at since it was asked for

vars == <<srv, idle, timer, active, watching, conn, closing, old, trace, looked>>

Off == Wait + 1

TypeOK ==
    /\ {srv, trace, looked} \subseteq BOOLEAN /\ idle \in Timers \cup {None}
    /\ timer \in [Timers -> 0..Off] /\ active \subseteq Conns /\ watching \in 0..Cardinality(Conns)
    /\ conn \in [Conns -> {"none", "active", "idle"}]
    /\ closing \in {"no", "close", "ask", "stop"} /\ old \subseteq Conns

Init ==
    /\ srv = FALSE /\ idle = None /\ timer = [t \in Timers |-> Off]
    /\ active = {} /\ watching = 0 /\ conn = [c \in Conns |-> "none"]
    /\ closing = "no" /\ old = {} /\ trace = FALSE /\ looked = FALSE

----------------------------------------------------------------------------

\* armIdleLocked: nothing if it is counting down already.
Arm ==
    IF idle # None THEN UNCHANGED <<idle, timer>>
    ELSE \E t \in Timers :
            timer[t] = Off /\ idle' = t /\ timer' = [timer EXCEPT ![t] = Wait]

\* A timer that has gone off cannot be stopped.
Disarm ==
    /\ idle' = None
    /\ timer' = IF idle = None \/ timer[idle] = 0 THEN timer ELSE [timer EXCEPT ![idle] = Off]

\* URL, when no server runs; otherwise it returns the same address.
Open ==
    /\ ~srv /\ srv' = TRUE /\ Arm /\ looked' = FALSE
    /\ UNCHANGED <<active, watching, conn, closing, old, trace>>

\* trackConn, StateActive: a request begins.
Active(c) ==
    /\ IF c \in old THEN closing = "close" ELSE srv
    /\ conn[c] # "active" /\ conn' = [conn EXCEPT ![c] = "active"]
    /\ active' = active \cup {c} /\ watching' = watching + 1 /\ Disarm /\ looked' = TRUE
    /\ UNCHANGED <<srv, closing, old, trace>>

\* Mutant: only a connection that closes stops being watched.
LetGoClosed(c, to) ==
    IF to = "none" THEN active' = active \ {c} /\ watching' = watching - (IF c \in active THEN 1 ELSE 0)
    ELSE UNCHANGED <<active, watching>>

LetGo(c, to) ==
    active' = active \ {c} /\ watching' = watching - (IF c \in active THEN 1 ELSE 0)

\* trackConn, StateIdle and StateClosed: it ends, or the connection does.
Ends(c, to) ==
    /\ conn[c] # "none" /\ conn[c] # to /\ conn' = [conn EXCEPT ![c] = to]
    /\ LetGo(c, to) /\ old' = IF to = "none" THEN old \ {c} ELSE old
    /\ IF watching' = 0 THEN Arm ELSE UNCHANGED <<idle, timer>>
    /\ UNCHANGED <<srv, closing, trace, looked>>

\* The lock is free, the timer has gone off: closeIfUnwatched.
Due(t) == timer[t] = 0

StaysOpen(t) ==
    /\ Due(t) /\ (watching > 0 \/ ~srv) /\ timer' = [timer EXCEPT ![t] = Off]
    /\ UNCHANGED <<srv, idle, active, watching, conn, closing, old, trace, looked>>

Closes(t) ==
    /\ Due(t) /\ watching = 0 /\ srv /\ closing = "no" /\ srv' = FALSE
    /\ timer' = [timer EXCEPT ![t] = Off] /\ idle' = None /\ active' = {} /\ closing' = "close"
    /\ old' = {c \in Conns : conn[c] # "none"}
    /\ UNCHANGED <<watching, conn, trace, looked>>

\* srv.Close closes the connections there are, and trackConn hears of each.
CloseConns ==
    /\ closing = "close"
    /\ IF old # {} THEN \E c \in old : Ends(c, "none")
       ELSE closing' = "ask" /\ UNCHANGED <<srv, idle, timer, active, watching, conn, old, trace, looked>>

\* stopTraceQuietly asks whether there is a trace, then stops it.
AskTrace ==
    /\ closing = "ask" /\ closing' = IF trace THEN "stop" ELSE "no"
    /\ UNCHANGED <<srv, idle, timer, active, watching, conn, old, trace, looked>>

StopTrace ==
    /\ closing = "stop" /\ closing' = "no" /\ trace' = FALSE
    /\ UNCHANGED <<srv, idle, timer, active, watching, conn, old, looked>>

Closing == CloseConns \/ AskTrace \/ StopTrace \/ \E t \in Timers : StaysOpen(t) \/ Closes(t)

\* The page starts a trace.
StartTrace ==
    /\ (\E c \in Conns : conn[c] = "active") /\ ~trace /\ trace' = TRUE
    /\ UNCHANGED <<srv, idle, timer, active, watching, conn, closing, old, looked>>

Running == {t \in Timers : timer[t] \notin {0, Off}}

Tick ==
    /\ Running # {} /\ closing = "no" /\ \A t \in Timers : ~Due(t)
    /\ timer' = [t \in Timers |-> IF t \in Running THEN timer[t] - 1 ELSE timer[t]]
    /\ UNCHANGED <<srv, idle, active, watching, conn, closing, old, trace, looked>>

Next ==
    \/ Open \/ StartTrace \/ Closing \/ Tick
    \/ \E c \in Conns : Active(c) \/ \E to \in {"idle", "none"} : Ends(c, to)

\* Timers go off and goroutines run.
Fairness == WF_vars(Closing) /\ WF_vars(Tick)

Spec == Init /\ [][Next]_vars /\ Fairness

----------------------------------------------------------------------------

Unasked ==
    /\ <>[][~Open /\ ~\E c \in Conns : Active(c)]_vars /\ <>[](\A c \in Conns : conn[c] # "active")

Gone == ~srv /\ ~trace

\* "It is the prompt one: the page closing is the moment the person went away"
\* (server.go:648-652): once nobody asks for anything any more, a page that was
\* looked at and its trace are gone, whatever the timers and connections did.
GivesBack == Unasked /\ <>[]looked => <>[]Gone

\* "A page that was opened and never looked at should not hold the port either"
\* (server.go:138-139).
GivesBackUnseen == Unasked => <>[]Gone
=============================================================================
