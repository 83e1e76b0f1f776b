---------------------------- MODULE SingboxRunner ----------------------------
(***************************************************************************)
(* The supervision loop of sing-box: Runner.Run, Runner.runOnce,           *)
(* watchReadiness, Restart, Retry and SetDocument of                       *)
(* internal/singbox/supervise.go, with the pause gate it selects on        *)
(* (internal/supervisor/pause.go).                                         *)
(*                                                                         *)
(* Goroutines: the runner, one readiness watcher per run of sing-box (a    *)
(* watcher may outlive its run), and the callers of Restart, Retry and     *)
(* SetDocument (status commands, Reload, the health loop, traces).         *)
(*                                                                         *)
(* A run is the shim with the sing-box it guards.  Runs are slots: a slot  *)
(* is taken until its process is dead and its watcher has returned.        *)
(***************************************************************************)
EXTENDS Integers

CONSTANTS
    Runs,       \* slots for runs of sing-box
    Callers,    \* goroutines that call Restart, Retry or SetDocument
    Docs,       \* sing-box documents
    Failures,   \* BreakerSpec.Failures
    Window,     \* BreakerSpec.Window, in ticks
    MinDelay,   \* BackoffSpec.Min, in ticks
    MaxDelay,   \* BackoffSpec.Max, in ticks
    Faults      \* what may go wrong: "start" (the run never starts), "crash"
                \* (sing-box exits by itself), "hang" (a stop takes over 10s)

ASSUME RunnerAssumption ==
    /\ Runs # {} /\ Docs # {}
    /\ Failures \in Nat /\ Window \in Nat \ {0}
    /\ MinDelay \in Nat \ {0} /\ MaxDelay \in Nat /\ MinDelay <= MaxDelay
    /\ Faults \subseteq {"start", "crash", "hang"}

VARIABLES
    pc,         \* where the runner goroutine is
    phase,      \* r.phase
    run,        \* the run runOnce works on (meaningful in InRunOnce)
    age,        \* time since `start`, saturating just above 2 * Window
    alive,      \* runs whose process exists
    tun,        \* runs whose sing-box holds the TUN interface
    shut,       \* runs whose guard pipe was closed by stop()
    hung,       \* runs whose process outlasts the 10s of its stop
    exited,     \* runs whose exit value is waiting in waitCh
    watching,   \* runs whose readiness watcher has not returned
    failures,   \* r.failures: how many were recorded within the last a ticks
    delay,      \* the next backoff delay
    timer,      \* what is left of time.After(delay)
    restartCh, retryCh,     \* a token waits in the channel
    paused,     \* pauseState.paused
    fired,      \* the gate channel captured by the runner's select is closed
    done,       \* ctx is cancelled
    staged,     \* r.document
    applied,    \* the document the last sing-box was started with
    caller,     \* how far each caller got in Restart
    launches    \* history: launches within the last a ticks, since safe mode was left

loop    == <<pc, phase, run, age, failures, delay, timer>>
procs   == <<alive, tun, shut, hung, exited, watching>>
tokens  == <<restartCh, retryCh>>
gate    == <<paused, fired>>
docs    == <<staged, applied>>
vars    == <<loop, procs, tokens, gate, done, docs, caller, launches>>

Ages  == 0 .. Window - 1
Never == [a \in Ages |-> 0]
Total(counts) == counts[Window - 1]
Once(counts)  == [a \in Ages |-> counts[a] + 1]
Older(counts) == [a \in Ages |-> IF a = 0 THEN 0 ELSE counts[a - 1]]

LongRun  == 2 * Window + 1
InRunOnce == {"launch", "running", "stopping"}

FlagsOK ==
    /\ restartCh \in BOOLEAN /\ retryCh \in BOOLEAN
    /\ paused \in BOOLEAN /\ fired \in BOOLEAN /\ done \in BOOLEAN

DataOK ==
    /\ pc \in {"top", "paused", "ended", "safe", "backoff", "returned"} \cup InRunOnce
    /\ phase \in {"stopped", "starting", "running", "degraded", "failed", "backoff", "safemode"}
    /\ run \in Runs /\ age \in 0 .. LongRun
    /\ alive \subseteq Runs /\ tun \subseteq alive /\ shut \subseteq Runs /\ hung \subseteq Runs
    /\ exited \subseteq Runs /\ watching \subseteq Runs
    /\ failures \in [Ages -> Nat] /\ launches \in [Ages -> Nat]
    /\ delay \in MinDelay .. MaxDelay /\ timer \in 0 .. MaxDelay
    /\ staged \in Docs /\ applied \in Docs
    /\ caller \in [Callers -> {"idle", "retry", "restart"}]

\* Every variable has the type its Go counterpart has; a TUN belongs to a
\* process that exists.
TypeOK == DataOK /\ FlagsOK

\* The daemon's start, after preflight: the pause switch comes from the pause
\* file, the document on disk is whatever an earlier daemon wrote.
Init ==
    /\ pc = "top" /\ phase = "stopped" /\ run \in Runs /\ age = 0
    /\ alive = {} /\ tun = {} /\ shut = {} /\ hung = {} /\ exited = {} /\ watching = {}
    /\ failures = Never /\ delay = MinDelay /\ timer = 0
    /\ restartCh = FALSE /\ retryCh = FALSE
    /\ paused \in BOOLEAN /\ fired = FALSE /\ done = FALSE
    /\ staged \in Docs /\ applied \in Docs
    /\ caller = [c \in Callers |-> "idle"]
    /\ launches = Never

----------------------------------------------------------------------------
(* The head of Run's loop: shut down, wait out a pause, or start a run.    *)

Return(to) ==
    /\ done /\ pc' = "returned" /\ phase' = to
    /\ UNCHANGED <<run, age, failures, delay, timer, procs, tokens, gate, done, docs, caller, launches>>

ShutDown == pc = "top" /\ Return("stopped")

HoldForPause ==
    /\ pc = "top" /\ ~done /\ paused
    /\ pc' = "paused" /\ phase' = "stopped" /\ fired' = FALSE
    /\ UNCHANGED <<run, age, failures, delay, timer, procs, tokens, paused, done, docs, caller, launches>>

Resume ==
    /\ pc = "paused" /\ fired
    /\ pc' = "top" /\ delay' = MinDelay /\ fired' = FALSE
    /\ UNCHANGED <<phase, run, age, failures, timer, procs, tokens, paused, done, docs, caller, launches>>

BeginRun ==
    /\ pc = "top" /\ ~done /\ ~paused
    /\ pc' = "launch" /\ age' = 0
    /\ UNCHANGED <<phase, run, failures, delay, timer, procs, tokens, gate, done, docs, caller, launches>>

----------------------------------------------------------------------------
(* runOnce.                                                                *)

\* An unsafe binary or an unwritable document (Failed), a pipe or a process
\* that cannot be made (the phase is the old one, or already Starting).
LaunchFails ==
    /\ pc = "launch" /\ "start" \in Faults
    /\ pc' = "ended" /\ phase' \in {"failed", phase, "starting"}
    /\ UNCHANGED <<run, age, failures, delay, timer, procs, tokens, gate, done, docs, caller, launches>>

\* The document is read and written now; the select then captures the gate's
\* paused channel, which is closed already if a pause came in since the check.
Launch(r) ==
    /\ pc = "launch" /\ r \notin alive \cup watching
    /\ pc' = "running" /\ phase' = "starting" /\ run' = r
    /\ alive' = alive \cup {r} /\ watching' = watching \cup {r}
    /\ shut' = shut \ {r} /\ exited' = exited \ {r}
    /\ applied' = staged /\ fired' = paused
    /\ launches' = Once(launches)
    /\ UNCHANGED <<age, failures, delay, timer, tun, hung, tokens, paused, done, staged, caller>>

\* case err := <-waitCh, here and after a stop; the deferred cleanup closes
\* the guard.
TakeExit ==
    /\ pc \in {"running", "stopping"} /\ run \in exited
    /\ pc' = "ended" /\ fired' = FALSE
    /\ exited' = exited \ {run} /\ shut' = shut \cup {run}
    /\ UNCHANGED <<phase, run, age, failures, delay, timer, alive, tun, hung, watching, tokens,
                   paused, done, docs, caller, launches>>

\* Mutant: the gate is only looked at between runs.
InterruptedByShutdown == done

Interrupted == done \/ fired

\* ctx.Done, the gate's paused channel or restartCh: close the guard and wait.
StopRun ==
    /\ pc = "running"
    /\ \/ Interrupted /\ restartCh' = restartCh
       \/ restartCh /\ restartCh' = FALSE
    /\ pc' = "stopping" /\ fired' = FALSE /\ shut' = shut \cup {run}
    /\ UNCHANGED <<phase, run, age, failures, delay, timer, alive, tun, hung, exited, watching,
                   retryCh, paused, done, docs, caller, launches>>

\* Mutant: a stop that does not wait for the shim.
StopOverAtOnce == TRUE

StopOver == run \notin alive \ hung

\* "shim did not exit within 10s": the shim kills sing-box after 5s, so only a
\* hang leaves the process alive; otherwise somebody else took the exit value.
StopTimeout ==
    /\ pc = "stopping" /\ StopOver
    /\ pc' = "ended"
    /\ UNCHANGED <<phase, run, age, failures, delay, timer, procs, tokens, gate, done, docs, caller, launches>>

----------------------------------------------------------------------------
(* The rest of Run's loop: count the failure, give up or back off.         *)

\* `ran > 2*Window` forgives the past; trimming keeps ages below Window,
\* which Older does as time passes.
Counted == Once(IF age = LongRun THEN Never ELSE failures)
Forgiven == IF age = LongRun THEN MinDelay ELSE delay

\* Mutant: one failure more than configured.
TooManyLate == Failures > 0 /\ Total(Counted) > Failures

TooMany == Failures > 0 /\ Total(Counted) >= Failures

EndedByShutdown == pc = "ended" /\ Return("stopped")

EnterSafeMode ==
    /\ pc = "ended" /\ ~done /\ TooMany
    /\ pc' = "safe" /\ phase' = "safemode" /\ failures' = Counted /\ delay' = Forgiven
    /\ age' = 0
    /\ UNCHANGED <<run, timer, procs, tokens, gate, done, docs, caller, launches>>

LeaveSafeMode ==
    /\ pc = "safe" /\ retryCh
    /\ pc' = "top" /\ retryCh' = FALSE /\ failures' = Never /\ delay' = MinDelay
    /\ launches' = Never
    /\ UNCHANGED <<phase, run, age, timer, procs, restartCh, gate, done, docs, caller>>

EnterBackoff ==
    /\ pc = "ended" /\ ~done /\ ~TooMany
    /\ pc' = "backoff" /\ phase' = "backoff" /\ failures' = Counted /\ delay' = Forgiven
    /\ timer' = Forgiven /\ age' = 0
    /\ UNCHANGED <<run, procs, tokens, gate, done, docs, caller, launches>>

\* Mutant: the cap of the delay is forgotten.
DoubledUncapped == 2 * delay

Doubled == IF 2 * delay > MaxDelay THEN MaxDelay ELSE 2 * delay

LeaveBackoff ==
    /\ pc = "backoff"
    /\ \/ timer = 0 /\ restartCh' = restartCh
       \/ restartCh /\ restartCh' = FALSE
    /\ pc' = "top" /\ timer' = 0
    /\ delay' = Doubled
    /\ UNCHANGED <<phase, run, age, failures, procs, retryCh, gate, done, docs, caller, launches>>

\* ctx.Done while waiting: Run returns and leaves the phase as it was.
LeaveWaiting == pc \in {"paused", "safe", "backoff"} /\ Return(phase)

Runner ==
    \/ ShutDown \/ HoldForPause \/ Resume \/ BeginRun
    \/ LaunchFails \/ (\E r \in Runs : Launch(r)) \/ TakeExit \/ StopRun \/ StopTimeout
    \/ EndedByShutdown \/ EnterSafeMode \/ LeaveSafeMode \/ EnterBackoff \/ LeaveBackoff
    \/ LeaveWaiting

----------------------------------------------------------------------------
(* watchReadiness, one per run: four cases of a select.                    *)

\* case <-ctx.Done() and case <-done: the latter takes the exit value, which
\* the runner's select waits for too.
WatchEnds(r) ==
    /\ r \in watching
    /\ \/ done /\ exited' = exited
       \/ r \in exited /\ exited' = exited \ {r}
    /\ watching' = watching \ {r}
    /\ UNCHANGED <<loop, alive, tun, shut, hung, tokens, gate, done, docs, caller, launches>>

\* The tick finds the interface (whoever holds it), or 15s have passed.
WatchReports(r) ==
    /\ r \in watching
    /\ phase' \in {"degraded"} \cup (IF tun # {} THEN {"running"} ELSE {})
    /\ watching' = watching \ {r}
    /\ UNCHANGED <<pc, run, age, failures, delay, timer, alive, tun, shut, hung, exited, tokens,
                   gate, done, docs, caller, launches>>

----------------------------------------------------------------------------
(* The processes: sing-box under its shim.                                 *)

ComeUp(r) ==
    /\ r \in alive /\ tun = {}
    /\ tun' = {r}
    /\ UNCHANGED <<loop, alive, shut, hung, exited, watching, tokens, gate, done, docs, caller, launches>>

\* The shim stops sing-box once the guard is closed; cmd.Wait then delivers
\* the exit value.  A crash delivers it the same way.
Exit(r) ==
    /\ r \in alive
    /\ alive' = alive \ {r} /\ tun' = tun \ {r} /\ exited' = exited \cup {r}
    /\ hung' = hung \ {r}
    /\ UNCHANGED <<loop, shut, watching, tokens, gate, done, docs, caller, launches>>

ShimStops(r) == r \in shut /\ Exit(r)
Crash(r)     == "crash" \in Faults /\ Exit(r)

\* The shim's SIGKILL takes effect only after runOnce gave up waiting.
Hang ==
    /\ "hang" \in Faults /\ pc = "stopping" /\ run \in alive \ hung
    /\ hung' = hung \cup {run}
    /\ UNCHANGED <<loop, alive, tun, shut, exited, watching, tokens, gate, done, docs, caller, launches>>

----------------------------------------------------------------------------
(* The callers, the pause switch, the end of the daemon, and time.         *)

SetDocument(c, d) ==
    /\ caller[c] = "idle" /\ staged' = d
    /\ caller' = [caller EXCEPT ![c] = "retry"]
    /\ UNCHANGED <<loop, procs, tokens, gate, done, applied, launches>>

\* Restart posts to retryCh first, then to restartCh; a full channel keeps its
\* token.
CallRestart(c) ==
    /\ caller[c] = "idle" /\ caller' = [caller EXCEPT ![c] = "retry"]
    /\ UNCHANGED <<loop, procs, tokens, gate, done, docs, launches>>

\* Mutant: Restart does not clear a safe-mode hold.
PostNoRetry(c) ==
    /\ caller[c] = "retry" /\ caller' = [caller EXCEPT ![c] = "restart"]
    /\ UNCHANGED <<loop, procs, tokens, gate, done, docs, launches>>

PostRetry(c) ==
    /\ caller[c] = "retry" /\ caller' = [caller EXCEPT ![c] = "restart"]
    /\ retryCh' = TRUE
    /\ UNCHANGED <<loop, procs, restartCh, gate, done, docs, launches>>

PostRestart(c) ==
    /\ caller[c] = "restart" /\ caller' = [caller EXCEPT ![c] = "idle"]
    /\ restartCh' = TRUE
    /\ UNCHANGED <<loop, procs, retryCh, gate, done, docs, launches>>

Retry(c) ==
    /\ caller[c] = "idle" /\ retryCh' = TRUE
    /\ UNCHANGED <<loop, procs, restartCh, gate, done, docs, caller, launches>>

\* pauseState.Set closes the channel of the state it enters: the runner's
\* select on that channel fires even if the switch is flipped back at once.
SetPaused(on) ==
    /\ paused # on /\ paused' = on
    /\ fired' = (fired \/ (on /\ pc = "running") \/ (~on /\ pc = "paused"))
    /\ UNCHANGED <<loop, procs, tokens, done, docs, caller, launches>>

Cancel ==
    /\ ~done /\ done' = TRUE
    /\ UNCHANGED <<loop, procs, tokens, gate, docs, caller, launches>>

Tick ==
    /\ pc # "returned"
    /\ failures' = Older(failures) /\ launches' = Older(launches)
    /\ age' = IF pc \in InRunOnce /\ age < LongRun THEN age + 1 ELSE age
    /\ timer' = IF timer > 0 THEN timer - 1 ELSE 0
    /\ UNCHANGED <<pc, phase, run, delay, procs, tokens, gate, done, docs, caller>>

Environment ==
    \/ \E r \in Runs : WatchEnds(r) \/ WatchReports(r) \/ ComeUp(r) \/ ShimStops(r) \/ Crash(r)
    \/ \E c \in Callers, d \in Docs : SetDocument(c, d)
    \/ \E c \in Callers : CallRestart(c) \/ PostRetry(c) \/ PostRestart(c) \/ Retry(c)
    \/ \E on \in BOOLEAN : SetPaused(on)
    \/ Hang \/ Cancel \/ Tick

Next == Runner \/ Environment

Spec == Init /\ [][Next]_vars

\* Goroutines that can run do run, a closed guard stops the process, a call in
\* progress completes, and time passes.  Nobody has to call anything, to flip
\* the switch or to crash.
Fairness ==
    /\ WF_vars(Runner) /\ WF_vars(Tick)
    /\ \A r \in Runs : WF_vars(WatchEnds(r) \/ WatchReports(r)) /\ WF_vars(ShimStops(r))
    /\ \A c \in Callers : WF_vars(PostRetry(c)) /\ WF_vars(PostRestart(c))

FairSpec == Spec /\ Fairness

----------------------------------------------------------------------------
(* Safety.                                                                 *)

\* No sing-box process exists outside runOnce: while the stack is paused,
\* backing off, in safe mode, about to launch or shut down, nothing of an
\* earlier run still owns the TUN and its routes, but for a process that
\* outlasted its stop.  Fails if runOnce could
\* return without waiting for the shim it told to stop, also when the
\* readiness watcher took the exit value it waits for (supervise.go:376-408).
DownOutsideRun == pc \notin {"running", "stopping"} => alive \subseteq hung

\* Two sing-box processes never overlap across restarts, pauses and crashes,
\* unless one of them outlasted its stop.
OneSingBox == \A r, s \in alive \ hung : r = s

\* The breaker's promise (supervise.go:228-231): between two explicit requests
\* that end a safe mode, sing-box is never launched more than Failures times
\* within one Window, however runs end and whatever callers do.
FlapBound == Failures > 0 => Total(launches) <= Failures

\* How a state of the runner looks to the rest of the machine.
Seen ==
    INSTANCE OneRun WITH
        holder <- alive \ hung,
        place  <- CASE pc = "running" -> "on" [] pc = "stopping" -> "ending" [] OTHER -> "off"

\* runOnce, its select, the shim, the watchers and every order of calls together
\* implement OneRun: a run begins only when the last is over for good, with the
\* document staged by then, and is over only when its sing-box is gone or hangs.
Promise == Seen!Spec

----------------------------------------------------------------------------
(* Liveness.                                                               *)

\* A pause that lasts takes sing-box down for good, from wherever the runner
\* was when it came (pause.go:13-16, supervise.go:392).
PauseTakesDown == (<>[]paused) => <>[](alive = {})

\* A staged document reaches a running sing-box: once the callers of
\* SetDocument and Restart are through, the runner launches with it, out of
\* backoff or safe mode if need be (SetDocument, supervise.go:112-114, and
\* Restart, supervise.go:149-151), unless the stack stays off.
DocumentApplied ==
    <>[](~paused /\ ~done) =>
        ((applied # staged /\ \A c \in Callers : caller[c] = "idle")
            ~> (applied = staged \/ \E c \in Callers : caller[c] # "idle"))

----------------------------------------------------------------------------
(* What the documentation says and the code does not do.                   *)

\* README.md:351, "sing-box crashes ... The daemon restarts it with backoff":
\* the runner notices that its process is gone.  It does not once the
\* readiness watcher has taken the only exit value out of waitCh.
CrashNoticed == (pc = "running" /\ run \notin alive) ~> (pc # "running")
=============================================================================
