------------------------------- MODULE Installer -------------------------------
(***************************************************************************)
(* vpnctl install, stop, start and uninstall (internal/installer) as far   *)
(* as they move the launchd job and the container, running beside the      *)
(* daemon whose container VpnContainer keeps.  One command at a time.      *)
(***************************************************************************)
EXTENDS VpnContainer

VARIABLES
    op,         \* the command
    job,        \* the daemon's launchd job
    disk,       \* the pause file
    off,        \* history: a stop or uninstall did all it had to, and nothing
                \* was started or installed since
    short       \* history: the last command fell short: the daemon was not gone
                \* in time, a container not stopped, or the daemon not reloaded

launchd == <<op, job, disk, off, short>>
vars == <<keeper, launchd>>

TypeOK ==
    /\ KeeperTypeOK
    /\ op \in {"none", "install", "start", "stop", "uninstall", "purge"}
    /\ job \in {"loaded", "leaving", "none"} /\ {disk, off, short} \subseteq BOOLEAN

Init == KeeperInit /\ op = "none" /\ job = "loaded" /\ disk = paused /\ off = FALSE /\ short = FALSE

Installing(where) == Goto("installer", where) /\ UNCHANGED <<want, daemon, asked, launchd>>
Nothing == UNCHANGED <<engine, todo, built>>

\* The command is over.
Gave(cut) ==
    /\ Goto("installer", "idle") /\ Forgets("installer") /\ op' = "none" /\ short' = cut
    /\ UNCHANGED <<engine, daemon, asked, built, job, disk, off>>

----------------------------------------------------------------------------
(* install, from the point where it has the configuration.                 *)

Install(c) ==
    /\ at["installer"] = "idle" /\ Goto("installer", "asked")
    /\ op' = "install" /\ off' = FALSE /\ want' = [want EXCEPT !["installer"] = c]
    /\ UNCHANGED <<engine, todo, daemon, asked, built, job, disk, short>>

\* A binary, a config or a sing-box that cannot be had ends it there.
Refused == at["installer"] = "asked" /\ Gave(short)

PausedOnDisk == disk

\* setUpContainer: no engine, or a stack that is switched off, is left alone.
SetUp ==
    /\ at["installer"] = "asked" /\ Nothing
    /\ Installing(IF up /\ ~PausedOnDisk THEN "legacy" ELSE "load")

\* StopLegacyContainers: compose's containers that run are stopped, and moved
\* aside when they hold our name.
Legacy ==
    /\ at["installer"] = "legacy" /\ UNCHANGED <<engine, built>>
    /\ \/ up /\ Takes("installer", {Shown(i) : i \in ListByLabel("compose") \cap Running})
             /\ Installing("stand")
       \/ ~up /\ UNCHANGED todo /\ Installing("image")

StandDown ==
    /\ at["installer"] = "stand" /\ UNCHANGED built
    /\ \/ todo["installer"] = {} /\ Installing("image") /\ UNCHANGED <<engine, todo>>
       \/ \E t \in todo["installer"] :
            \/ /\ up /\ t.id \in Running /\ StoppedBox(t.id) /\ Installing("stand")
               /\ Takes("installer", IF t.id \in Named THEN todo["installer"] ELSE todo["installer"] \ {t})
            \/ /\ up /\ t.id \in Live \ Running /\ Renamed(t.id) /\ Installing("stand")
               /\ Takes("installer", todo["installer"] \ {t})
            \/ /\ ~up \/ t.id \notin Live
               /\ UNCHANGED engine /\ Installing("image") /\ Takes("installer", {})

\* EnsureImage, which takes minutes when it has to build, and can fail;
\* EnsureContainer first builds the specification.
Image ==
    /\ at["installer"] = "image" /\ UNCHANGED <<engine, todo>>
    /\ \/ up /\ built' = TRUE
            /\ Installing(IF ~Buildable(want["installer"]) THEN "load" ELSE "list")
       \/ (~up \/ ~built) /\ UNCHANGED built /\ Installing("load")

Ensures == EnsureContainer("installer") /\ UNCHANGED launchd

\* --keep-stopped, used where no daemon is loaded.
KeepStopped ==
    /\ at["installer"] = "load" /\ op = "install" /\ job = "none" /\ Gave(short)

----------------------------------------------------------------------------
(* launchd.                                                                *)

\* launchctl returns before the job is gone, or fails and leaves it as it is;
\* until it is gone the daemon may take any of its steps.
Bootout(where, failed) ==
    /\ job' = IF job = "loaded" /\ ~failed THEN "leaving" ELSE job
    /\ Goto("installer", where) /\ Forgets("installer")
    /\ UNCHANGED <<engine, daemon, asked, built, disk, off>>

\* The process has ended, and with it its last request.
Unloaded ==
    /\ job = "leaving" /\ job' = "none" /\ Goto("daemon", "gone") /\ NewDaemon(disk)
    /\ UNCHANGED <<engine, built, op, disk, off, short>>

DaemonLoaded == job # "none"

\* bootstrapDaemon: unload, wait for that at most ten seconds, load.
Load ==
    /\ at["installer"] = "load" /\ (\E failed \in BOOLEAN : Bootout("wait", failed))
    /\ UNCHANGED <<op, short>>

WaitUntil ==
    /\ at["installer"] = "wait" /\ Nothing /\ Installing("bootstrap")

Loaded ==
    /\ job' = "loaded" /\ at' = [daemon |-> "top", installer |-> "idle"] /\ op' = "none"
    /\ NewDaemon(disk) /\ short' = FALSE /\ UNCHANGED <<engine, built, disk, off>>

\* It fails on a job that is still there, or for a reason of its own.
Bootstrap ==
    /\ at["installer"] = "bootstrap"
    /\ \/ job = "none" /\ Loaded
       \/ Nothing /\ Installing("check")

\* The bootstrap raced a slow unload: the job is restarted in place, if it is
\* still there to be.
Check ==
    /\ at["installer"] = "check"
    /\ \/ DaemonLoaded /\ Nothing /\ Installing("kick")
       \/ ~DaemonLoaded /\ Gave(TRUE)

Kickstart ==
    /\ at["installer"] = "kick"
    /\ \/ DaemonLoaded /\ Loaded
       \/ Gave(TRUE)

StartCommand ==
    /\ at["installer"] = "idle" /\ Goto("installer", "load") /\ op' = "start" /\ off' = FALSE
    /\ UNCHANGED <<engine, want, todo, daemon, asked, built, job, disk, short>>

----------------------------------------------------------------------------
(* stop, where the daemon does not answer, and uninstall.                  *)

\* Mutant: the daemon is not unloaded first.
StopUnderDaemon(o, failed) ==
    /\ at["installer"] = "idle" /\ op' = o /\ Goto("installer", "running") /\ short' = failed
    /\ UNCHANGED <<engine, want, todo, daemon, asked, built, job, disk, off>>

\* That the daemon could not be unloaded is only logged.
Stop(o, failed) ==
    /\ at["installer"] = "idle" /\ op' = o /\ short' = failed
    /\ Bootout(IF o = "stop" THEN "running" ELSE "state", failed)

\* Uninstall deletes the state directory, and the pause file in it.
ForgetState ==
    /\ at["installer"] = "state" /\ Nothing /\ Goto("installer", "running") /\ disk' = FALSE
    /\ paused' = (paused /\ Alive)
    /\ UNCHANGED <<want, daemon, cfg, reloads, token, fired, op, job, off, short>>

\* What is not running is left alone, but for a purge.
Targets == IF op = "purge" THEN ListByLabel("vpnctl") ELSE ListByLabel("vpnctl") \cap Running

\* stopContainer and uninstallContainer: nothing waits for the daemon to be gone.
ListOurs ==
    /\ at["installer"] = "running" /\ UNCHANGED <<engine, want, daemon, asked, built, job, disk>>
    /\ short' = (short \/ job = "leaving")
    /\ \/ /\ up /\ Targets # {} /\ Takes("installer", {Shown(i) : i \in Targets})
          /\ Goto("installer", "halt") /\ UNCHANGED <<op, off>>
       \/ /\ up => Targets = {}
          /\ Goto("installer", "idle") /\ op' = "none" /\ UNCHANGED todo
          /\ off' = IF up THEN ~short' ELSE off

\* A container that cannot be stopped does not keep the others from it.
HaltOne ==
    /\ at["installer"] = "halt"
    /\ UNCHANGED <<at, want, daemon, asked, built, op, job, disk, off>>
    /\ \E t \in todo["installer"] :
        /\ Takes("installer", todo["installer"] \ {t})
        /\ \/ /\ up /\ t.id \in Live /\ short' = short
              /\ IF op = "purge" THEN Removed(t.id) ELSE StoppedBox(t.id)
           \/ (~up \/ t.id \notin Live) /\ UNCHANGED engine /\ short' = TRUE

\* A purge takes the image too, unless the engine keeps it.
Halted ==
    /\ at["installer"] = "halt" /\ todo["installer"] = {}
    /\ Goto("installer", "idle") /\ op' = "none" /\ off' = ~short
    /\ built' \in IF op = "purge" /\ up THEN {built, FALSE} ELSE {built}
    /\ UNCHANGED <<engine, want, todo, daemon, asked, job, disk, short>>

Command ==
    \/ Refused \/ SetUp \/ Legacy \/ StandDown \/ Image \/ Ensures \/ KeepStopped
    \/ Load \/ WaitUntil \/ Bootstrap \/ Check \/ Kickstart
    \/ ForgetState \/ ListOurs \/ HaltOne \/ Halted

----------------------------------------------------------------------------

\* KeepAlive: a daemon that dies is started again.
Crash ==
    /\ job = "loaded" /\ Goto("daemon", "top") /\ NewDaemon(disk)
    /\ UNCHANGED <<engine, built, launchd>>

Beside(A) == A /\ UNCHANGED launchd

\* The switch is written down as it is flipped.
Switch(on) == SetPaused(on) /\ disk' = on /\ UNCHANGED <<op, job, off, short>>

\* What the programs do, and what is done to them.
Programs ==
    \/ Beside(WatchDocker) \/ Beside(SignalReload) \/ Command \/ Unloaded \/ Beside(EngineComesBack)

Reloaded == \E old, fresh \in Settings : Beside(StoreConfig(old, fresh))

World ==
    \/ Beside(EngineGoesAway) \/ Beside(RemovedByHand) \/ Beside(SignalRestart)
    \/ (\E on \in BOOLEAN : Switch(on)) \/ Crash \/ StartCommand
    \/ (\E c \in Settings : Install(c))
    \/ (\E o \in {"stop", "uninstall", "purge"}, failed \in BOOLEAN : Stop(o, failed))

Next == Programs \/ Reloaded \/ World

Spec == Init /\ [][Next]_vars

\* Go's select and its timers are fair to each case; commands and Reload end.
Fairness ==
    /\ WF_vars(Beside(WatchDocker)) /\ WF_vars(Beside(SignalReload /\ ~reload'))
    /\ WF_vars(Command) /\ WF_vars(Unloaded)
    /\ WF_vars(Beside(StreamEnds)) /\ WF_vars(Beside(NoticePause)) /\ WF_vars(Beside(Poll))
    /\ WF_vars(Beside(Recreate)) /\ WF_vars(Beside(AskRestart))

FairSpec == Spec /\ Fairness

----------------------------------------------------------------------------

\* "stop using vpnctl reasonably means the tunnel goes away" (runstate.go:89-91),
\* and leaving it up after an uninstall "would mean a VPN tunnel coming back at
\* every boot" (install.go:493-496): once such a command has stopped what it
\* found, and found it after the daemon was gone, no container of ours runs
\* until something is started or installed, whatever the daemon was doing with
\* it before and however often the engine restarts.
StoppedStaysStopped == off => ListByLabel("vpnctl") \cap Running = {}

Settled == up /\ job = "loaded" /\ at["installer"] = "idle"

\* "Leaving it up would keep a VPN connected and a port published for a stack
\* that is meant to be off" (supervisor.go:428-430): a pause that lasts leaves
\* no VPN container running, also one that an install or an earlier daemon
\* brought up, unless its attempt to stop it failed or met one that was
\* stopped already, or a command beside it fell short.
PauseStopsTunnel == <>[](Settled /\ paused /\ ~missed /\ ~short) => <>[](Running = {})

\* The container "is recreated by the watcher, which derives its specification
\* from these fields" (reload.go:115-116), and restarting alone "would report
\* success while changing nothing" (supervisor.go:722-724): wherever edits,
\* overlapping reloads, pauses, outages and installs met the watcher, a
\* container that runs from the current configuration is what it ends with, as
\* long as nobody takes the container it keeps away, stops it under it, has the
\* older setup hold the port, or puts back an earlier configuration unseen.
ConfigReaches ==
    <>[](Settled /\ ~paused /\ built /\ Buildable(cfg) /\ ~undone /\ ~short
           /\ (id = None \/ id \in Live) /\ Labelled("compose") \cap Running = {})
        => <>[](\E i \in ListByLabel("vpnctl") \cap Running : boxes[i].spec = cfg)
=============================================================================
