------------------------------- MODULE Service -------------------------------
(***************************************************************************)
(* An in-process service (the DNS router, the racer) under runService and  *)
(* runServiceOnce (internal/supervisor/supervisor.go): a goroutine that    *)
(* starts the service's own goroutine, which reads the configuration,      *)
(* binds its port and serves until it is cancelled or fails.               *)
(*                                                                         *)
(* A run of the service is a slot, taken until its goroutine has returned  *)
(* and its port is free.                                                   *)
(***************************************************************************)
EXTENDS Naturals, FiniteSets

CONSTANTS
    Runs,       \* slots for the service's goroutine
    Configs,    \* configurations
    MaxDelay,   \* ContainerBackoff.Max in units of its Min
    Faults      \* "port": somebody else may hold the port; "fail": the service
                \* ends by itself, or cannot start

ASSUME ServiceAssumption ==
    /\ Runs # {} /\ Configs # {} /\ MaxDelay \in Nat \ {0} /\ Faults \subseteq {"port", "fail"}

VARIABLES
    pc,         \* where runService is
    phase,      \* the component's phase, as the status shows it
    run,        \* the run runServiceOnce waits for
    fn,         \* where each run's goroutine is
    bound,      \* runs that hold the port
    used,       \* the configuration each run read
    cancelled,  \* runs whose context is cancelled
    why,        \* how runServiceOnce ended
    cfg,        \* s.current
    token,      \* a restart waits in the channel
    calls,      \* what each Reload under way found live, and compares with
    reload,     \* a Reload is between storing the configuration and asking
    undone,     \* history: since the service read its configuration, a Reload has
                \* put back what it had found live over what another had stored
    paused,     \* the pause switch
    fired,      \* the channel captured by the current select is closed
    taken,      \* another process holds the port
    delay, timer,   \* the backoff
    done        \* ctx is cancelled

loop  == <<pc, phase, run, why, delay, timer>>
procs == <<fn, bound, used, cancelled>>
reloads == <<calls, reload, undone>>
env   == <<cfg, token, reloads, paused, taken, done>>
vars  == <<loop, procs, env, fired>>

FlagsOK ==
    /\ token \in BOOLEAN /\ reload \in BOOLEAN /\ undone \in BOOLEAN /\ paused \in BOOLEAN
    /\ fired \in BOOLEAN /\ taken \in BOOLEAN /\ done \in BOOLEAN

DataOK ==
    /\ pc \in {"top", "paused", "serving", "stopping", "after", "failed", "backoff", "returned"}
    /\ phase \in {"stopped", "running", "failed", "backoff"}
    /\ run \in Runs /\ fn \in [Runs -> {"none", "config", "listen", "serve", "ended", "port"}]
    /\ bound \subseteq {r \in Runs : fn[r] = "serve"} /\ cancelled \subseteq Runs
    /\ used \in [Runs -> Configs] /\ cfg \in Configs /\ calls \subseteq Configs
    /\ why \in {"restart", "pause", "done", "port", "error"}
    /\ delay \in 1 .. MaxDelay /\ timer \in 0 .. MaxDelay

TypeOK == FlagsOK /\ DataOK

Init ==
    /\ pc = "top" /\ phase = "stopped" /\ run \in Runs /\ why = "done"
    /\ fn = [r \in Runs |-> "none"] /\ bound = {} /\ cancelled = {}
    /\ cfg \in Configs /\ used = [r \in Runs |-> cfg]
    /\ token = FALSE /\ calls = {} /\ reload = FALSE /\ undone = FALSE /\ paused \in BOOLEAN /\ fired = FALSE
    /\ taken = FALSE /\ delay = 1 /\ timer = 0 /\ done = FALSE

----------------------------------------------------------------------------
(* runService.                                                             *)

ShutDown ==
    /\ pc \in {"top", "after"} /\ done
    /\ pc' = "returned" /\ phase' = "stopped"
    /\ UNCHANGED <<run, why, delay, timer, procs, env, fired>>

HoldForPause ==
    /\ pc = "top" /\ ~done /\ paused
    /\ pc' = "paused" /\ phase' = "stopped" /\ fired' = FALSE
    /\ UNCHANGED <<run, why, delay, timer, procs, env>>

\* Mutant: the wait is for the next flip, not for the state.
ResumeHeld ==
    /\ pc = "paused" /\ fired /\ paused
    /\ pc' = "top" /\ delay' = 1 /\ fired' = FALSE
    /\ UNCHANGED <<phase, run, why, timer, procs, env>>

Resume ==
    /\ pc = "paused" /\ fired
    /\ pc' = "top" /\ delay' = 1 /\ fired' = FALSE
    /\ UNCHANGED <<phase, run, why, timer, procs, env>>

\* Any free slot will do.
Slot == CHOOSE r \in Runs : fn[r] = "none"

\* runServiceOnce: the goroutine starts, the status says "listening", and the
\* select captures the pause channel.
Serve(r) ==
    /\ pc = "top" /\ ~done /\ ~paused /\ fn[r] = "none" /\ r = Slot
    /\ pc' = "serving" /\ phase' = "running" /\ run' = r /\ fired' = FALSE
    /\ fn' = [fn EXCEPT ![r] = "config"] /\ cancelled' = cancelled \ {r}
    /\ UNCHANGED <<why, delay, timer, bound, used, env>>

\* The select of runServiceOnce.
Ends ==
    /\ pc = "serving" /\ fn[run] \in {"ended", "port"}
    /\ pc' = "after" /\ why' = IF fn[run] = "port" THEN "port" ELSE "error"
    /\ fn' = [fn EXCEPT ![run] = "none"] /\ fired' = FALSE
    /\ UNCHANGED <<phase, run, delay, timer, bound, used, cancelled, env>>

\* Several cases of the select may be ready at once.
Interrupts ==
    {w \in {"restart", "pause", "done"} :
        (w = "restart" /\ token) \/ (w = "pause" /\ (paused \/ fired)) \/ (w = "done" /\ done)}

Interrupt(w) ==
    /\ pc = "serving" /\ w \in Interrupts
    /\ pc' = "stopping" /\ why' = w /\ token' = (token /\ w # "restart") /\ fired' = FALSE
    /\ cancelled' = cancelled \cup {run}
    /\ UNCHANGED <<phase, run, delay, timer, fn, bound, used, cfg, reloads, paused, taken, done>>

\* Mutant: the end of a cancelled service is not waited for.
StoppedAtOnce ==
    /\ pc = "stopping" /\ pc' = "after"
    /\ UNCHANGED <<phase, run, why, delay, timer, procs, env, fired>>

Stopped ==
    /\ pc = "stopping" /\ fn[run] \in {"ended", "port"}
    /\ pc' = "after" /\ fn' = [fn EXCEPT ![run] = "none"]
    /\ UNCHANGED <<phase, run, why, delay, timer, bound, used, cancelled, env, fired>>

Again ==
    /\ pc = "after" /\ ~done /\ why = "restart"
    /\ pc' = "top" /\ delay' = 1
    /\ UNCHANGED <<phase, run, why, timer, procs, env, fired>>

PortInUse ==
    /\ pc = "after" /\ ~done /\ why = "port"
    /\ pc' = "failed" /\ phase' = "failed"
    /\ UNCHANGED <<run, why, delay, timer, procs, env, fired>>

\* Only a restart is waited for.
LeaveFailed ==
    /\ pc = "failed" /\ token
    /\ pc' = "top" /\ token' = FALSE
    /\ UNCHANGED <<phase, run, why, delay, timer, procs, cfg, reloads, paused, taken, done, fired>>

EnterBackoff ==
    /\ pc = "after" /\ ~done /\ why \notin {"restart", "port"}
    /\ pc' = "backoff" /\ phase' = "backoff" /\ timer' = delay
    /\ UNCHANGED <<run, why, delay, procs, env, fired>>

\* Mutant: the doubled delay is not capped.
DoubledUncapped == 2 * delay

Doubled == IF 2 * delay > MaxDelay THEN MaxDelay ELSE 2 * delay

LeaveBackoff ==
    /\ pc = "backoff"
    /\ \/ timer = 0 /\ token' = token
       \/ token /\ token' = FALSE
    /\ pc' = "top" /\ timer' = 0 /\ delay' = Doubled
    /\ UNCHANGED <<phase, run, why, procs, cfg, reloads, paused, taken, done, fired>>

LeaveWaiting ==
    /\ pc \in {"paused", "failed", "backoff"} /\ done
    /\ pc' = "returned"
    /\ UNCHANGED <<phase, run, why, delay, timer, procs, env, fired>>

RunService ==
    \/ ShutDown \/ HoldForPause \/ Resume \/ (\E r \in Runs : Serve(r)) \/ Ends
    \/ (\E w \in {"restart", "pause", "done"} : Interrupt(w)) \/ Stopped \/ Again
    \/ PortInUse \/ LeaveFailed \/ EnterBackoff \/ LeaveBackoff \/ LeaveWaiting

----------------------------------------------------------------------------
(* The service's goroutine.                                                *)

ReadConfig(r) ==
    /\ fn[r] = "config"
    /\ fn' = [fn EXCEPT ![r] = "listen"] /\ used' = [used EXCEPT ![r] = cfg] /\ undone' = FALSE
    /\ UNCHANGED <<loop, bound, cancelled, cfg, token, calls, reload, paused, taken, done, fired>>

Listen(r) ==
    /\ fn[r] = "listen"
    /\ IF taken \/ bound # {} THEN fn' = [fn EXCEPT ![r] = "port"] /\ bound' = bound
       ELSE fn' = [fn EXCEPT ![r] = "serve"] /\ bound' = bound \cup {r}
    /\ UNCHANGED <<loop, used, cancelled, env, fired>>

\* Start returns once it is cancelled, closing its listener.
Leave(r) ==
    /\ fn[r] = "serve" /\ r \in cancelled
    /\ fn' = [fn EXCEPT ![r] = "ended"] /\ bound' = bound \ {r}
    /\ UNCHANGED <<loop, used, cancelled, env, fired>>

Fail(r) ==
    /\ "fail" \in Faults /\ fn[r] \in {"listen", "serve"}
    /\ fn' = [fn EXCEPT ![r] = "ended"] /\ bound' = bound \ {r}
    /\ UNCHANGED <<loop, used, cancelled, env, fired>>

Goroutine(r) == ReadConfig(r) \/ Listen(r) \/ Leave(r)

----------------------------------------------------------------------------
(* Callers, the switch, other processes, and time.                         *)

\* Reload takes no lock, and every connection has a goroutine of its own: any
\* number of them are under way.  Each reads what is live, then the file.
BeginReload ==
    /\ calls' = calls \cup {cfg}
    /\ UNCHANGED <<loop, procs, fired, cfg, token, reload, undone, paused, taken, done>>

Affected(old, fresh) == fresh # old

\* Mutant: Reload compares with what it has just stored.
StoreConfigFirst(old, fresh) ==
    /\ old \in calls /\ calls' \in {calls, calls \ {old}}
    /\ cfg' = fresh /\ reload' = reload
    /\ undone' = (undone \/ (~Affected(old, fresh) /\ fresh # cfg))
    /\ UNCHANGED <<loop, procs, fired, token, paused, taken, done>>

\* The file is stored over whatever is live by now, and whom it affects decided
\* by what was live at the start, which others may have found as well.
StoreConfig(old, fresh) ==
    /\ old \in calls /\ calls' \in {calls, calls \ {old}}
    /\ cfg' = fresh /\ reload' = (reload \/ Affected(old, fresh))
    /\ undone' = (undone \/ (~Affected(old, fresh) /\ fresh # cfg))
    /\ UNCHANGED <<loop, procs, fired, token, paused, taken, done>>

\* One of those that have stored asks.
SignalReload ==
    /\ reload /\ reload' \in BOOLEAN /\ token' = TRUE
    /\ UNCHANGED <<loop, procs, fired, cfg, calls, undone, paused, taken, done>>

\* A restart command, or the health loop.
SignalRestart ==
    /\ ~token /\ token' = TRUE
    /\ UNCHANGED <<loop, procs, fired, cfg, reloads, paused, taken, done>>

SetPaused(on) ==
    /\ paused # on /\ paused' = on
    /\ fired' = (fired \/ (on /\ pc = "serving") \/ (~on /\ pc = "paused"))
    /\ UNCHANGED <<loop, procs, cfg, token, reloads, taken, done>>

TakePort ==
    /\ "port" \in Faults /\ bound = {} /\ taken' = ~taken
    /\ UNCHANGED <<loop, procs, fired, cfg, token, reloads, paused, done>>

Cancel ==
    /\ ~done /\ done' = TRUE
    /\ cancelled' = IF pc \in {"serving", "stopping"} THEN cancelled \cup {run} ELSE cancelled
    /\ UNCHANGED <<loop, fn, bound, used, fired, cfg, token, reloads, paused, taken>>

Tick ==
    /\ timer > 0 /\ timer' = timer - 1
    /\ UNCHANGED <<pc, phase, run, why, delay, procs, env, fired>>

Next ==
    \/ RunService
    \/ \E r \in Runs : Goroutine(r) \/ Fail(r)
    \/ BeginReload \/ (\E old, fresh \in Configs : StoreConfig(old, fresh)) \/ SignalReload \/ SignalRestart
    \/ (\E on \in BOOLEAN : SetPaused(on)) \/ TakePort \/ Cancel \/ Tick

Spec == Init /\ [][Next]_vars

\* Goroutines run, Reload completes and time passes.
Fairness ==
    /\ WF_vars(RunService) /\ WF_vars(SignalReload /\ ~reload') /\ WF_vars(Tick)
    /\ \A r \in Runs : WF_vars(Goroutine(r))

FairSpec == Spec /\ Fairness

----------------------------------------------------------------------------

\* runServiceOnce waits for the service before it returns (supervisor.go:346-360):
\* outside it no goroutine of the service lives and its port is free, so no run
\* can find the port in use because of an earlier one.
GoneOutsideRun == pc \notin {"serving", "stopping"} => \A r \in Runs : fn[r] = "none"

\* "Components whose settings did not change are left alone" (reload.go:17): the
\* others end up on the new ones.  A service that has read an older
\* configuration still has the restart that applies the new one ahead of it
\* (supervisor.go:222-223), wherever any number of Reloads met it and each other,
\* except where one of them put back what it had found over what another stored.
ConfigApplied ==
    pc = "serving" /\ fn[run] \in {"listen", "serve"} /\ used[run] # cfg => token \/ reload \/ undone

\* Once the stack stays on, the port is free and the service does not fail by
\* itself, it serves again (runService, supervisor.go:267-269): no wait is
\* missed, whatever pauses, restarts and reloads came before.
ServesAgain ==
    <>[](~paused /\ ~done /\ ~taken /\ pc # "failed") /\ <>[][\A r \in Runs : ~Fail(r)]_vars
        => []<>(bound # {})
=============================================================================
