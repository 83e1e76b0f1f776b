------------------------------ MODULE RouteGuard ------------------------------
(***************************************************************************)
(* Who may own the TUN and its routes: the daemon, the shim it starts for  *)
(* every run of sing-box (RunShim, internal/singbox/shim.go) and sing-box  *)
(* itself, across crashes of each, with the pid files and the preflight    *)
(* (internal/singbox/supervise.go) that clean up after a killed daemon.    *)
(*                                                                         *)
(* A run is the pid of a shim and of the sing-box it starts; a pid named   *)
(* by a pid file is not reused.  The daemon's own decisions (when to stop  *)
(* and start) are SingboxRunner's; here it may take any of them.           *)
(***************************************************************************)
EXTENDS Naturals, FiniteSets

CONSTANTS
    Runs,       \* pids for runs
    None,       \* no run, or no pid file
    Faults      \* "kill": the daemon dies without running code;
                \* "shimkill": a shim does; "stubborn": sing-box ignores
                \* SIGTERM; "slowshim": a shim with something to do at once has
                \* not done it by the next start of a daemon or a run

GuardAssumption ==
    /\ Runs # {} /\ None \notin Runs
    /\ Faults \subseteq {"kill", "shimkill", "stubborn", "slowshim"}

VARIABLES
    daemon,     \* "down", where preflight is, or "up"
    own,        \* the run runOnce waits for
    shim,       \* where each shim is
    child,      \* runs whose sing-box exists: it owns the TUN and the routes
    dying,      \* runs whose sing-box got a SIGTERM it obeys
    eof,        \* runs whose guard pipe has no writer left
    signalled,  \* shims that got a SIGTERM
    shimFile, childFile,    \* what the pid files name
    orderly     \* history: no shim was killed or late so far

vars == <<daemon, own, shim, child, dying, eof, signalled, shimFile, childFile, orderly>>
files == <<shimFile, childFile>>
procs == <<shim, child, dying, signalled>>

\* "started": sing-box runs, its pid file is not written and no signal handler
\* is installed; "stopping": the shim sent SIGTERM and waits 5s.
ShimStates == {"none", "starting", "started", "watching", "stopping"}
ShimAlive(r) == r \in Runs /\ shim[r] # "none"

TypeOK ==
    /\ daemon \in {"down", "shim", "shimgrace", "child", "childgrace", "up"}
    /\ own \in Runs \cup {None} /\ (daemon # "up" => own = None)
    /\ shim \in [Runs -> ShimStates]
    /\ child \subseteq Runs /\ dying \subseteq Runs
    /\ eof \subseteq Runs /\ signalled \subseteq Runs
    /\ shimFile \in Runs \cup {None} /\ childFile \in Runs \cup {None}
    /\ orderly \in BOOLEAN

Init ==
    /\ daemon = "down" /\ own = None
    /\ shim = [r \in Runs |-> "none"] /\ child = {} /\ dying = {}
    /\ eof = {} /\ signalled = {}
    /\ shimFile = None /\ childFile = None /\ orderly = TRUE

----------------------------------------------------------------------------
(* preflight: first the shim's pid file, then sing-box's.                  *)

\* Everything a shim does but waiting its 5s takes milliseconds.
Busy(r) ==
    \/ shim[r] \in {"starting", "started"}
    \/ shim[r] = "watching" /\ (r \in eof \cup signalled \/ r \notin child)
    \/ shim[r] = "stopping" /\ r \notin child

\* A new daemon, or a new run, finds the shims done: or one is late.
ShimsPrompt ==
    \/ (\A r \in Runs : ~Busy(r)) /\ orderly' = orderly
    \/ "slowshim" \in Faults /\ (\E r \in Runs : Busy(r)) /\ orderly' = FALSE

\* launchd starts the daemon (KeepAlive).
DaemonStarts ==
    /\ daemon = "down" /\ daemon' = "shim"
    /\ ShimsPrompt
    /\ UNCHANGED <<own, procs, eof, files>>

\* No pid file, or the process it names is gone: nothing to do but remove it.
ShimGone ==
    /\ daemon \in {"shim", "shimgrace"}
    /\ ~ShimAlive(shimFile)
    /\ daemon' = "child" /\ shimFile' = None
    /\ UNCHANGED <<own, procs, eof, childFile, orderly>>

\* terminatePid: SIGTERM.  A shim that has not installed its handler dies of it.
ShimSignalled ==
    /\ daemon = "shim" /\ ShimAlive(shimFile)
    /\ daemon' = "shimgrace"
    /\ IF shim[shimFile] \in {"starting", "started"}
          THEN shim' = [shim EXCEPT ![shimFile] = "none"] /\ signalled' = signalled
          ELSE signalled' = signalled \cup {shimFile} /\ shim' = shim
    /\ UNCHANGED <<own, child, dying, eof, files, orderly>>

\* Its 5s grace is over: Kill.
ShimKilled ==
    /\ daemon = "shimgrace" /\ ShimAlive(shimFile)
    /\ daemon' = "child" /\ shimFile' = None
    /\ shim' = [shim EXCEPT ![shimFile] = "none"]
    /\ UNCHANGED <<own, child, dying, eof, signalled, childFile, orderly>>

ChildGone ==
    /\ daemon \in {"child", "childgrace"} /\ childFile \notin child
    /\ daemon' = "up" /\ childFile' = None
    /\ UNCHANGED <<own, procs, eof, shimFile, orderly>>

ChildSignalled ==
    /\ daemon = "child" /\ childFile \in child
    /\ daemon' = "childgrace"
    /\ \/ dying' = dying \cup {childFile}
       \/ "stubborn" \in Faults /\ dying' = dying
    /\ UNCHANGED <<own, shim, child, eof, signalled, files, orderly>>

\* Mutant: preflight gives up on a sing-box that ignores SIGTERM.
ChildLeft ==
    /\ daemon = "childgrace" /\ childFile \in child
    /\ daemon' = "up" /\ childFile' = None
    /\ UNCHANGED <<own, procs, eof, shimFile, orderly>>

ChildKilled ==
    /\ daemon = "childgrace" /\ childFile \in child
    /\ daemon' = "up" /\ childFile' = None
    /\ child' = child \ {childFile} /\ dying' = dying \ {childFile}
    /\ UNCHANGED <<own, shim, eof, signalled, shimFile, orderly>>

Preflight ==
    \/ ShimGone \/ ShimSignalled \/ ShimKilled
    \/ ChildGone \/ ChildSignalled \/ ChildKilled

----------------------------------------------------------------------------
(* The daemon's side of a run.                                             *)

Launch(r) ==
    /\ daemon = "up" /\ own = None /\ ShimsPrompt
    /\ ~ShimAlive(r) /\ r \notin child /\ r # childFile /\ r # shimFile
    /\ own' = r /\ shim' = [shim EXCEPT ![r] = "starting"]
    /\ eof' = eof \ {r} /\ signalled' = signalled \ {r} /\ dying' = dying \ {r}
    /\ UNCHANGED <<daemon, child, files>>

WriteShimPid ==
    /\ daemon = "up" /\ own # None /\ shimFile # own
    /\ shimFile' = own
    /\ UNCHANGED <<daemon, own, procs, eof, childFile, orderly>>

\* stop(): close the guard.
StopRun ==
    /\ daemon = "up" /\ own # None /\ shimFile = own
    /\ eof' = eof \cup {own}
    /\ UNCHANGED <<daemon, own, procs, files, orderly>>

\* cmd.Wait returned; the deferred cleanup removes the shim's pid file.
RunEnds ==
    /\ daemon = "up" /\ own # None /\ shimFile = own /\ ~ShimAlive(own)
    /\ own' = None /\ shimFile' = None /\ eof' = eof \cup {own}
    /\ UNCHANGED <<daemon, procs, childFile, orderly>>

\* Mutant: the guard's write end survives the daemon.
PipeStaysOpen == eof

PipeClosed == eof \cup ({own} \ {None})

\* The process ends anywhere, and with it the only writer of its guard pipe.
DaemonDies ==
    /\ "kill" \in Faults /\ daemon # "down"
    /\ daemon' = "down" /\ own' = None /\ eof' = PipeClosed
    /\ UNCHANGED <<procs, files, orderly>>

----------------------------------------------------------------------------
(* RunShim.                                                                *)

StartChild(r) ==
    /\ shim[r] = "starting"
    /\ shim' = [shim EXCEPT ![r] = "started"] /\ child' = child \cup {r}
    /\ UNCHANGED <<daemon, own, dying, eof, signalled, files, orderly>>

WriteChildPid(r) ==
    /\ shim[r] = "started"
    /\ shim' = [shim EXCEPT ![r] = "watching"] /\ childFile' = r
    /\ UNCHANGED <<daemon, own, child, dying, eof, signalled, shimFile, orderly>>

\* The guard reader saw EOF, or a signal came: SIGTERM to sing-box.
ShimStops(r) ==
    /\ shim[r] = "watching" /\ r \in eof \cup signalled
    /\ shim' = [shim EXCEPT ![r] = "stopping"]
    /\ \/ dying' = dying \cup {r}
       \/ "stubborn" \in Faults /\ dying' = dying
    /\ UNCHANGED <<daemon, own, child, eof, signalled, files, orderly>>

\* 5s later: SIGKILL, wait, return (removing the pid file).
ShimKills(r) ==
    /\ shim[r] = "stopping" /\ r \in child
    /\ shim' = [shim EXCEPT ![r] = "none"] /\ child' = child \ {r} /\ childFile' = None
    /\ UNCHANGED <<daemon, own, dying, eof, signalled, shimFile, orderly>>

\* sing-box ended: RunShim returns and removes the pid file, or exits with its
\* exit code at once and leaves the file (exitWith).
ShimReaps(r) ==
    /\ shim[r] \in {"watching", "stopping"} /\ r \notin child
    /\ shim' = [shim EXCEPT ![r] = "none"] /\ childFile' \in {None, childFile}
    /\ UNCHANGED <<daemon, own, child, dying, eof, signalled, shimFile, orderly>>

ShimDies(r) ==
    /\ "shimkill" \in Faults /\ ShimAlive(r)
    /\ shim' = [shim EXCEPT ![r] = "none"]
    /\ orderly' = FALSE
    /\ UNCHANGED <<daemon, own, child, dying, eof, signalled, files>>

\* sing-box obeys a SIGTERM, or ends by itself.
ChildObeys(r) ==
    /\ r \in child \cap dying
    /\ child' = child \ {r}
    /\ UNCHANGED <<daemon, own, shim, dying, eof, signalled, files, orderly>>

ChildEnds(r) ==
    /\ r \in child /\ child' = child \ {r}
    /\ UNCHANGED <<daemon, own, shim, dying, eof, signalled, files, orderly>>

Shim(r) == StartChild(r) \/ WriteChildPid(r) \/ ShimStops(r) \/ ShimKills(r) \/ ShimReaps(r)

Daemon ==
    \/ DaemonStarts \/ Preflight
    \/ (\E r \in Runs : Launch(r)) \/ WriteShimPid \/ RunEnds

Next ==
    \/ Daemon \/ StopRun \/ DaemonDies
    \/ \E r \in Runs : Shim(r) \/ ShimDies(r) \/ ChildObeys(r) \/ ChildEnds(r)

Spec == Init /\ [][Next]_vars

\* Processes that exist run, and launchd restarts the daemon.
Fairness ==
    /\ WF_vars(Daemon)
    /\ \A r \in Runs : WF_vars(Shim(r)) /\ WF_vars(ChildObeys(r))

FairSpec == Spec /\ Fairness

----------------------------------------------------------------------------

\* shim.go:23-24, "sing-box must never outlive the supervisor": while its shim
\* lives, a sing-box whose daemon is gone, or that its daemon stopped, ends;
\* no later daemon has to find it.
ShimIsEnough ==
    \A r \in Runs : (r \in child /\ r # own) ~> (r \notin child \/ ~ShimAlive(r))

\* Preflight is enough (supervise.go:448-450): when a daemon launches its first
\* run, and every later one, no sing-box of an earlier run or an earlier daemon
\* still holds the TUN, unless a shim was killed or late.
FreshStart == [][\A r \in Runs : Launch(r) /\ orderly' => child = {}]_vars
=============================================================================
