------------------------------ MODULE HealthLoop ------------------------------
(***************************************************************************)
(* The self-healing loop: Probe measures three paths at once               *)
(* (internal/health/health.go) and watchHealth acts on the verdict         *)
(* (internal/supervisor/supervisor.go), against a sing-box reduced to the  *)
(* part SingboxRunner shows of it: restart and retry tokens, exits within  *)
(* the breaker's window, safe mode.                                        *)
(*                                                                         *)
(* Each path is measured at an instant of its own while the world changes. *)
(* One tick is one health interval; a probe's timeout is shorter than one. *)
(***************************************************************************)
EXTENDS Naturals, FiniteSets, Sequences

CONSTANTS
    Failures,   \* BreakerSpec.Failures
    Window,     \* BreakerSpec.Window in health intervals
    Changing    \* what changes in the world, of Changes

Changes == {"wifi", "bind", "fault", "vpn", "pause"}

HealthAssumption ==
    Failures \in Nat \ {0} /\ Window \in Nat \ {0} /\ Changing \subseteq Changes

VARIABLES
    wifi,       \* the machine has a network
    bind,       \* the held address against the interface's: "right", "stale",
                \* or "none" held
    fault,      \* what is wrong with the stack: "none", "chain" (the resolver or
                \* the racer), "singbox"
    vpn,        \* the tunnel is up
    paused,     \* the pause switch
    sb,         \* sing-box: "up", "down", "safe"
    exits,      \* intervals since each exit the breaker remembers
    restartCh, retryCh,     \* tokens
    services,   \* a restart of the resolver and the racer is asked for
    measuring,  \* a probe is under way
    asked,      \* the paths not measured yet
    good,       \* the paths found to work
    strikes     \* consecutiveBroken

Paths == {"direct", "app", "chain"}

world  == <<wifi, bind, fault, vpn, paused>>
runner == <<sb, exits, restartCh, retryCh>>
probe  == <<measuring, asked, good>>
vars   == <<world, runner, services, probe, strikes>>

TypeOK ==
    /\ {wifi, vpn, paused, restartCh, retryCh, services, measuring} \subseteq BOOLEAN
    /\ bind \in {"right", "stale", "none"} /\ fault \in {"none", "chain", "singbox"}
    /\ sb \in {"up", "down", "safe"}
    /\ exits \in Seq(0 .. Window - 1) /\ (sb # "safe" => Len(exits) < Failures)
    /\ asked \subseteq Paths /\ good \subseteq Paths \ asked /\ (asked # {} => measuring)
    /\ strikes \in 0 .. 2

Init ==
    /\ wifi \in BOOLEAN /\ vpn \in BOOLEAN /\ bind \in {"right", "none"}
    /\ fault = "none" /\ paused \in {FALSE, "pause" \in Changing}
    /\ sb = "down" /\ exits = <<>> /\ restartCh = FALSE /\ retryCh = FALSE
    /\ services = FALSE /\ measuring = FALSE /\ asked = {} /\ good = {}
    /\ strikes = 0

----------------------------------------------------------------------------
(* What each path goes through.  The racer's direct dials and the          *)
(* resolver's public queries bind the held address; without sing-box an    *)
(* application uses the machine's own routing; unbound, the direct probe   *)
(* follows the default route.                                              *)

Carried == wifi /\ (bind # "stale" \/ vpn)

AppWorks == IF sb = "up" THEN Carried /\ fault = "none" ELSE wifi

Works(p) ==
    CASE p = "direct" -> IF bind = "none" THEN AppWorks ELSE wifi /\ bind = "right"
      [] p = "app"    -> AppWorks
      [] p = "chain"  -> Carried /\ fault # "chain" /\ ~paused

----------------------------------------------------------------------------
(* watchHealth.                                                            *)

\* The next interval; the breaker forgets exits that leave its window.
Tick ==
    /\ ~measuring
    /\ exits' = IF sb = "safe" THEN exits
                ELSE LET kept == SelectSeq(exits, LAMBDA a : a + 1 < Window)
                     IN [i \in DOMAIN kept |-> kept[i] + 1]
    /\ UNCHANGED <<world, sb, restartCh, retryCh, services, strikes>>

SkipPaused == paused /\ Tick /\ UNCHANGED probe

StartProbe == ~paused /\ Tick /\ measuring' = TRUE /\ asked' = Paths /\ good' = {}

Measure(p) ==
    /\ measuring /\ p \in asked
    /\ asked' = asked \ {p} /\ good' = IF Works(p) THEN good \cup {p} ELSE good
    /\ UNCHANGED <<world, runner, services, measuring, strikes>>

\* Probe's verdict, with the culprit for "stack-broken".
Verdict ==
    CASE {"app", "direct"} \subseteq good -> "healthy"
      [] "app" \in good /\ "direct" \notin good -> "bind-stale"
      [] "direct" \in good -> IF "chain" \in good THEN "singbox" ELSE "chain"
      [] OTHER -> "offline"

Judged(v) ==
    /\ measuring /\ asked = {} /\ Verdict = v
    /\ measuring' = FALSE /\ good' = {}
    /\ asked' = asked

Wait ==
    /\ Judged("healthy") \/ Judged("offline")
    /\ strikes' = 0
    /\ UNCHANGED <<world, runner, services>>

\* Mutant: a stale address counts against the stack.
RefreshBindStruck ==
    /\ Judged("bind-stale")
    /\ bind' = IF wifi THEN "right" ELSE bind
    /\ strikes' = (strikes + 1) % 3
    /\ IF strikes = 2 THEN retryCh' = TRUE /\ restartCh' = TRUE ELSE UNCHANGED <<retryCh, restartCh>>
    /\ UNCHANGED <<wifi, fault, vpn, paused, sb, exits, services>>

\* refreshBindAddress: nothing to read while the interface is down.
RefreshBind ==
    /\ Judged("bind-stale")
    /\ bind' = IF wifi THEN "right" ELSE bind
    /\ UNCHANGED <<wifi, fault, vpn, paused, runner, services, strikes>>

\* Mutant: restarting the services starts the count again.
StrikeForgotten ==
    /\ \E v \in {"chain", "singbox"} : Judged(v)
    /\ strikes < 2
    /\ services' = (services \/ (Verdict = "chain" /\ strikes = 1))
    /\ strikes' = IF Verdict = "chain" /\ strikes = 1 THEN 0 ELSE strikes + 1
    /\ UNCHANGED <<world, runner>>

Strike ==
    /\ \E v \in {"chain", "singbox"} : Judged(v)
    /\ strikes < 2 /\ strikes' = strikes + 1
    /\ services' = (services \/ (Verdict = "chain" /\ strikes = 1))
    /\ UNCHANGED <<world, runner>>

\* The third strike: sb.Restart().
RestartSingbox ==
    /\ \E v \in {"chain", "singbox"} : Judged(v)
    /\ strikes = 2 /\ strikes' = 0
    /\ retryCh' = TRUE /\ restartCh' = TRUE
    /\ UNCHANGED <<world, sb, exits, services>>

WatchHealth ==
    \/ SkipPaused \/ StartProbe \/ (\E p \in Paths : Measure(p))
    \/ Wait \/ RefreshBind \/ Strike \/ RestartSingbox

----------------------------------------------------------------------------
(* sing-box.                                                               *)

\* runOnce stops it for a restart or a pause; the breaker counts every exit.
SingboxStops ==
    /\ sb = "up" /\ (restartCh \/ paused)
    /\ \E r \in {FALSE} \cup IF paused THEN {restartCh} ELSE {} : restartCh' = r
    /\ exits' = Append(exits, 0)
    /\ sb' = IF Len(exits') >= Failures THEN "safe" ELSE "down"
    /\ UNCHANGED <<world, retryCh, services, probe, strikes>>

\* After the backoff, which a restart token cuts short.
SingboxStarts ==
    /\ sb = "down" /\ ~paused
    /\ sb' = "up" /\ restartCh' \in {FALSE, restartCh}
    /\ UNCHANGED <<world, exits, retryCh, services, probe, strikes>>

LeaveSafeMode ==
    /\ sb = "safe" /\ retryCh
    /\ sb' = "down" /\ retryCh' = FALSE /\ exits' = <<>>
    /\ UNCHANGED <<world, restartCh, services, probe, strikes>>

Singbox == SingboxStops \/ SingboxStarts \/ LeaveSafeMode

\* runService restarts the resolver and the racer.
ServicesRestart ==
    /\ services /\ services' = FALSE
    /\ fault' \in IF fault = "chain" THEN {"chain", "none"} ELSE {fault}
    /\ UNCHANGED <<wifi, bind, vpn, paused, runner, probe, strikes>>

----------------------------------------------------------------------------
(* The world.                                                              *)

Flip ==
    \/ "wifi" \in Changing /\ wifi' = ~wifi /\ UNCHANGED <<bind, fault, vpn, paused>>
    \/ "vpn" \in Changing /\ vpn' = ~vpn /\ UNCHANGED <<wifi, bind, fault, paused>>
    \/ "pause" \in Changing /\ paused' = ~paused /\ UNCHANGED <<wifi, bind, fault, vpn>>

\* The interface's address changes, or Watch stores the current one.
Rebind ==
    /\ "bind" \in Changing
    /\ \/ bind = "right" /\ bind' = "stale"
       \/ bind # "right" /\ wifi /\ bind' = "right"
    /\ UNCHANGED <<wifi, fault, vpn, paused>>

Break(f) ==
    "fault" \in Changing /\ fault # f /\ fault' = f /\ UNCHANGED <<wifi, bind, vpn, paused>>

World ==
    /\ Flip \/ Rebind \/ \E f \in {"none", "chain", "singbox"} : Break(f)
    /\ UNCHANGED <<runner, services, probe, strikes>>

Next == WatchHealth \/ Singbox \/ ServicesRestart \/ World

Spec == Init /\ [][Next]_vars

\* The loop sees every interval; the services and sing-box's runner run.
Fairness ==
    WF_vars(WatchHealth) /\ WF_vars(Singbox) /\ WF_vars(ServicesRestart)

FairSpec == Spec /\ Fairness

----------------------------------------------------------------------------

\* A stack that is broken for good, seen through a working direct path.
BrokenForGood ==
    <>[](wifi /\ bind = "right" /\ fault # "none" /\ ~paused)

\* sb.Restart() put a token in the channel.
Asked == ~restartCh /\ restartCh'

\* Sing-box is left alone when restarting it cannot help: "The machine has no
\* network at all.  Restarting our stack cannot help" (supervisor.go:579-581), and
\* applications that keep working are proof enough, whatever the direct probe
\* says and however often the bind address changes (health.go:70-72).
LeftAlone == <>[](~wifi) \/ <>[]AppWorks => <>[][~Asked]_vars

\* The loop acts on a stack that stays broken (supervisor.go:589-610), unless
\* the breaker keeps sing-box down: neither the cheap restart nor sing-box's own
\* short absences keep it from it.
BrokenIsActedOn == BrokenForGood /\ []<>(sb # "safe") => []<><<Asked>>_vars

\* "The daemon concludes its own stack is the problem and takes it down rather
\* than restarting it forever" (README.md:354; supervisor.go:604-606): a stack
\* that stays broken is down in the end.
TakenDown == BrokenForGood => <>[](sb # "up")
=============================================================================
