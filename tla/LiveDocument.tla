---------------------------- MODULE LiveDocument ----------------------------
(***************************************************************************)
(* The sing-box document and what decides it: the live configuration,      *)
(* which Reload replaces, and whether a trace is running, which StartTrace,*)
(* StopTrace and the trace's own time limit change                         *)
(* (internal/supervisor/reload.go and trace.go).                           *)
(*                                                                         *)
(* Rendering reads the configuration and then the trace; staging and       *)
(* restarting come later, without a lock.  sing-box itself is what         *)
(* SingboxRunner promises (DocumentApplied): some time after Restart it    *)
(* runs what is staged then.                                               *)
(***************************************************************************)
EXTENDS Naturals, FiniteSets

CONSTANTS
    Callers,    \* connections of the control socket
    Timers,     \* goroutines of expired time limits
    Configs,    \* what sing-box's part of a configuration can be
    None        \* nothing yet

DocumentAssumption ==
    Callers \cap Timers = {} /\ Configs # {}

VARIABLES
    cfg,        \* s.current
    active,     \* trace.active
    armed,      \* s.traceTimer is set and has not fired
    staged,     \* the runner's document
    restart,    \* a Restart waits for sing-box
    applied,    \* the document sing-box runs with
    call,       \* per goroutine: where it is, in which call, the configuration
                \* it read and the document it rendered
    overlapped  \* history: some call began while another was in progress

vars == <<cfg, active, armed, staged, restart, applied, call, overlapped>>

Threads   == Callers \cup Timers
Documents == [from : Configs, debug : BOOLEAN]
Jobs      == {"reload", "start", "stop"}

TypeOK ==
    /\ cfg \in Configs /\ active \in BOOLEAN /\ armed \in BOOLEAN
    /\ restart \in BOOLEAN /\ overlapped \in BOOLEAN
    /\ staged \in Documents /\ applied \in Documents
    /\ \A t \in Threads :
        /\ call[t].at \in {"idle", "begin", "render", "level", "validate", "arm", "disarm",
                           "deactivate", "swap", "store", "stage", "restart"}
        /\ call[t].job \in Jobs \cup {None} /\ call[t].conf \in Configs \cup {None}
        /\ call[t].doc \in Documents \cup {None}
        /\ call[t].doc # None => call[t].doc.from = call[t].conf

Idle == [at |-> "idle", job |-> None, conf |-> None, doc |-> None]

Init ==
    /\ cfg \in Configs /\ active = FALSE /\ armed = FALSE
    /\ staged = [from |-> cfg, debug |-> FALSE] /\ applied = staged /\ restart = FALSE
    /\ call = [t \in Threads |-> Idle] /\ overlapped = FALSE

At(t, place)   == call[t].at = place
Goto(t, place) == call' = [call EXCEPT ![t].at = place]
Return(t)      == call' = [call EXCEPT ![t] = Idle]

Settled == \A t \in Threads : call[t] = Idle

\* A call begins, whatever else is in progress.
Begin(t, j, place) ==
    /\ call[t] = Idle /\ call' = [call EXCEPT ![t].job = j, ![t].at = place]
    /\ overlapped' = (overlapped \/ ~Settled)
    /\ UNCHANGED <<cfg, active, staged, restart, applied>>

----------------------------------------------------------------------------
(* The first steps of each call.                                           *)

\* Reload reads the configuration file, whatever it holds by then.
CallReload(t) == Begin(t, "reload", "begin") /\ armed' = armed

LoadConfig(t, c) ==
    /\ At(t, "begin") /\ call[t].job = "reload"
    /\ call' = [call EXCEPT ![t].at = "level", ![t].conf = c]
    /\ UNCHANGED <<cfg, active, armed, staged, restart, applied, overlapped>>

\* StartTrace refuses while a trace runs, and while the stack is paused, which
\* it may be at any time.
CallStartTrace(t) ==
    /\ ~active /\ Begin(t, "start", "begin") /\ armed' = armed

Activate(t) ==
    /\ At(t, "begin") /\ call[t].job = "start"
    /\ \/ Return(t) /\ active' = active
       \/ Goto(t, "render") /\ active' = TRUE
    /\ UNCHANGED <<cfg, armed, staged, restart, applied, overlapped>>

\* StopTrace does nothing without a trace; it takes the timer first.
CallStopTrace(t) == active /\ Begin(t, "stop", "disarm") /\ armed' = armed

Disarm(t) ==
    /\ At(t, "disarm") /\ armed' = FALSE /\ Goto(t, "deactivate")
    /\ UNCHANGED <<cfg, active, staged, restart, applied, overlapped>>

Deactivate(t) ==
    /\ At(t, "deactivate") /\ active' = FALSE /\ Goto(t, "render")
    /\ UNCHANGED <<cfg, armed, staged, restart, applied, overlapped>>

\* time.AfterFunc: 30 minutes are over; the goroutine calls StopTrace.
Limit(t) ==
    /\ armed /\ armed' = FALSE
    /\ IF active THEN Begin(t, "stop", "disarm")
       ELSE call[t] = Idle /\ UNCHANGED <<cfg, active, staged, restart, applied,
                                          call, overlapped>>

----------------------------------------------------------------------------
(* document(cfg): the configuration, then the level the trace calls for.   *)

ReadConfig(t) ==
    /\ At(t, "render") /\ call' = [call EXCEPT ![t].at = "level", ![t].conf = cfg]
    /\ UNCHANGED <<cfg, active, armed, staged, restart, applied, overlapped>>

\* Mutant: Reload renders at the configured level.
LevelConfigured(t) == active /\ call[t].job # "reload"

Level(t) == active

Render(t) ==
    /\ At(t, "level")
    /\ call' = [call EXCEPT ![t].doc = [from |-> call[t].conf, debug |-> Level(t)],
                            ![t].at = IF call[t].job = "stop" THEN "stage" ELSE "validate"]
    /\ UNCHANGED <<cfg, active, armed, staged, restart, applied, overlapped>>

\* Mutant: a trace that cannot start is left active.
RefuseOnly(t) ==
    /\ At(t, "validate") /\ Return(t)
    /\ UNCHANGED <<cfg, active, armed, staged, restart, applied, overlapped>>

\* sing-box checks the document.  A trace that cannot start is undone.
Refuse(t) ==
    /\ At(t, "validate") /\ Return(t)
    /\ active' = (active /\ call[t].job # "start")
    /\ UNCHANGED <<cfg, armed, staged, restart, applied, overlapped>>

Accept(t) ==
    /\ At(t, "validate")
    /\ Goto(t, IF call[t].job = "start" THEN "arm"
               ELSE IF staged = call[t].doc THEN "swap" ELSE "store")
    /\ UNCHANGED <<cfg, active, armed, staged, restart, applied, overlapped>>

ArmLimit(t) ==
    /\ At(t, "arm") /\ armed' = TRUE /\ Goto(t, "stage")
    /\ UNCHANGED <<cfg, active, staged, restart, applied, overlapped>>

\* Reload keeps the configuration; an unchanged document restarts nothing.
StoreConfig(t) ==
    /\ call[t].at \in {"swap", "store"} /\ cfg' = call[t].conf
    /\ IF At(t, "store") THEN Goto(t, "stage") ELSE Return(t)
    /\ UNCHANGED <<active, armed, staged, restart, applied, overlapped>>

SetDocument(t) ==
    /\ At(t, "stage") /\ staged' = call[t].doc
    /\ call' = [call EXCEPT ![t] = [Idle EXCEPT !.at = "restart"]]
    /\ UNCHANGED <<cfg, active, armed, restart, applied, overlapped>>

Restart(t) ==
    /\ At(t, "restart") /\ restart' = TRUE /\ Return(t)
    /\ UNCHANGED <<cfg, active, armed, staged, applied, overlapped>>

----------------------------------------------------------------------------

\* What SingboxRunner promises.
Relaunch ==
    /\ restart /\ restart' = FALSE /\ applied' = staged
    /\ UNCHANGED <<cfg, active, armed, staged, call, overlapped>>

Steps(t) ==
    \/ (\E c \in Configs : LoadConfig(t, c)) \/ Activate(t) \/ Disarm(t) \/ Deactivate(t)
    \/ ReadConfig(t) \/ Render(t) \/ Refuse(t) \/ Accept(t) \/ ArmLimit(t)
    \/ StoreConfig(t) \/ SetDocument(t) \/ Restart(t)

Next ==
    \/ \E t \in Callers : CallReload(t) \/ CallStartTrace(t) \/ CallStopTrace(t)
    \/ \E t \in Timers : Limit(t)
    \/ \E t \in Threads : Steps(t)
    \/ Relaunch

Spec == Init /\ [][Next]_vars

----------------------------------------------------------------------------

Wanted  == [from |-> cfg, debug |-> active]

\* trace.go:39-41, "reloading during a trace does not quietly drop the
\* configuration back to its usual log level and end the trace's supply of lines
\* while the trace still says it is running": between calls the staged document
\* is the live configuration's, at the level the trace calls for, as long as no
\* two calls overlapped.  And, overlap or not, sing-box runs what was staged last
\* once it has seen the last Restart: no call changes the document without one.
DocumentMatches ==
    /\ Settled /\ ~overlapped => staged = Wanted
    /\ Settled /\ ~restart => applied = staged

\* trace.go:32-33, "the daemon keeps its own limit rather than trusting a caller
\* to come back": no trace runs without a time limit once calls are
\* through, however starts, stops and refusals overlap: the timer and the flag
\* change separately, and a stop takes the timer before the flag.
TraceLimited == Settled /\ active => armed
=============================================================================
