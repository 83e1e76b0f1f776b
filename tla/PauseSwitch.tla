----------------------------- MODULE PauseSwitch -----------------------------
(***************************************************************************)
(* The pause switch, the file that makes it outlive the daemon, and the    *)
(* resolver directory that follows it and the configuration: SetPaused,    *)
(* applyResolvers and the part of Reload that calls it                     *)
(* (internal/supervisor), over Apply and RemoveAll (internal/resolver).    *)
(*                                                                         *)
(* None of them holds a lock across its steps; the control socket serves   *)
(* every connection in a goroutine of its own, and the daemon's own start  *)
(* applies the resolvers while the socket is already open.  Reading and    *)
(* rewriting one resolver file is one step.                                *)
(***************************************************************************)
EXTENDS Naturals, FiniteSets

CONSTANTS
    Callers,    \* goroutines of the control socket
    Startup,    \* the daemon's main goroutine
    Domains,    \* suffixes
    Addresses,  \* values of dns_router.listen
    Elsewhere,  \* any other server a resolver file may name
    Configs,    \* configurations: what they listen on, list and enable
    None        \* no configuration read yet

PauseAssumption ==
    /\ Startup \notin Callers /\ Elsewhere \notin Addresses
    /\ Configs # {}
    /\ Configs \subseteq [listen : Addresses, listed : SUBSET Domains, enabled : SUBSET Domains]
    /\ \A c \in Configs : c.enabled \subseteq c.listed

VARIABLES
    up,         \* the daemon runs
    paused,     \* pauseState.paused
    file,       \* the pause file says "1"
    cfg,        \* s.current
    dir,        \* the resolver directory
    shown,      \* s.resolvers, as the status shows it
    at,         \* where each goroutine is
    want,       \* SetPaused's argument, "none" outside it
    conf,       \* the configuration each goroutine read
    todo,       \* the files it still has to look at
    promised,   \* history: the last answer to a pause or resume; "open" in such a call,
                \* "mixed" from when two of them overlap until one alone moves the switch
    touched,    \* history: a file was edited by hand since an apply began alone
    overlapped  \* history: a call began while another was in progress

calls == <<at, want, conf, todo>>
vars  == <<up, paused, file, cfg, dir, shown, calls, promised, touched, overlapped>>

Threads == Callers \cup {Startup}
Absent  == [owner |-> "none", to |-> Elsewhere]
Files   == {Absent} \cup [owner : {"vpnctl", "admin"}, to : Addresses \cup {Elsewhere}]
Places  == {"idle", "write", "config", "switch", "apply", "prune", "remove", "refresh",
            "load", "swap", "store"}

Call(on)      == IF on THEN "pause" ELSE "resume"
Managed       == {d \in Domains : dir[d].owner = "vpnctl"}
Written(c)    == [owner |-> "vpnctl", to |-> c.listen]
States(c)     == [d \in c.listed |-> dir[d].owner]

TypeOK ==
    /\ up \in BOOLEAN /\ paused \in BOOLEAN /\ file \in BOOLEAN /\ touched \in BOOLEAN
    /\ overlapped \in BOOLEAN
    /\ cfg \in Configs
    /\ dir \in [Domains -> Files] /\ \A d \in Managed : dir[d].to # Elsewhere
    /\ DOMAIN shown \subseteq Domains
    /\ at \in [Threads -> Places] /\ want \in [Threads -> {"pause", "resume", "none"}]
    /\ conf \in [Threads -> Configs \cup {None}] /\ todo \in [Threads -> SUBSET Domains]
    /\ promised \in {"pause", "resume", "open", "mixed"}

\* Before the daemon's first start: no pause, nothing of ours in the directory.
Init ==
    /\ up = FALSE /\ paused = FALSE /\ file = FALSE /\ promised = "resume" /\ touched = TRUE
    /\ overlapped = FALSE /\ cfg \in Configs
    /\ dir \in [Domains -> {f \in Files : f.owner # "vpnctl"}]
    /\ shown = [d \in {} |-> "none"]
    /\ at = [t \in Threads |-> "idle"] /\ want = [t \in Threads |-> "none"]
    /\ conf = [t \in Threads |-> None] /\ todo = [t \in Threads |-> {}]

Goto(t, place) == at' = [at EXCEPT ![t] = place]

\* A call may start whatever else is in progress.
Idle == \A t \in Threads : at[t] = "idle"
Free(t) == up /\ at[t] = "idle" /\ overlapped' = (overlapped \/ ~Idle)

\* The call is over.
Return(t) == Goto(t, "idle") /\ conf' = [conf EXCEPT ![t] = None]
Answer(t) ==
    /\ Return(t) /\ want' = [want EXCEPT ![t] = "none"]
    /\ promised' = IF promised = "open" /\ want[t] # "none" THEN want[t] ELSE promised

----------------------------------------------------------------------------
(* SetPaused.                                                              *)

Pausing == \E t \in Threads : want[t] # "none"

\* pause.Set; a switch that is already there returns at once.
CallSetPaused(t, on) ==
    /\ Free(t)
    /\ IF paused = on
       THEN /\ promised' = IF Pausing \/ promised = "mixed" THEN "mixed" ELSE Call(on)
            /\ UNCHANGED <<paused, at, want>>
       ELSE /\ paused' = on /\ promised' = IF Pausing THEN "mixed" ELSE "open"
            /\ want' = [want EXCEPT ![t] = Call(on)] /\ Goto(t, "write")
    /\ UNCHANGED <<up, file, cfg, dir, shown, conf, todo, touched>>

\* Mutant: resuming leaves the pause file behind.
WritePausedOnly(t) ==
    /\ at[t] = "write" /\ file' = (file \/ want[t] = "pause") /\ Goto(t, "config")
    /\ UNCHANGED <<up, paused, cfg, dir, shown, want, conf, todo, promised, touched, overlapped>>

WritePaused(t) ==
    /\ at[t] = "write" /\ file' = (want[t] = "pause") /\ Goto(t, "config")
    /\ UNCHANGED <<up, paused, cfg, dir, shown, want, conf, todo, promised, touched, overlapped>>

----------------------------------------------------------------------------
(* applyResolvers.                                                         *)

ReadConfig(t) ==
    /\ at[t] = "config" /\ conf' = [conf EXCEPT ![t] = cfg] /\ Goto(t, "switch")
    /\ touched' = (touched /\ \E u \in Threads \ {t} : at[u] # "idle")
    /\ UNCHANGED <<up, paused, file, cfg, dir, shown, want, todo, promised, overlapped>>

\* RemoveAll lists what is ours first; Apply goes through what is enabled.
ReadSwitch(t) ==
    /\ at[t] = "switch" /\ Goto(t, IF paused THEN "remove" ELSE "apply")
    /\ todo' = [todo EXCEPT ![t] = IF paused THEN Managed ELSE conf[t].enabled]
    /\ UNCHANGED <<up, paused, file, cfg, dir, shown, want, conf, promised, touched, overlapped>>

\* Mutant: a foreign file is taken over wherever it points.
TakesAll(f, c) == TRUE

\* Ours, or missing, or a foreign file that already points at the router.
Takes(f, c) == f.owner # "admin" \/ f.to = c.listen

ApplyFile(t, d) ==
    /\ at[t] = "apply" /\ d \in todo[t]
    /\ todo' = [todo EXCEPT ![t] = @ \ {d}]
    /\ dir' = IF Takes(dir[d], conf[t]) THEN [dir EXCEPT ![d] = Written(conf[t])] ELSE dir
    /\ UNCHANGED <<up, paused, file, cfg, shown, at, want, conf, promised, touched, overlapped>>

\* Then everything of ours that is not wanted goes.
Prune(t) ==
    /\ at[t] = "apply" /\ todo[t] = {} /\ Goto(t, "prune")
    /\ todo' = [todo EXCEPT ![t] = Managed \ conf[t].enabled]
    /\ UNCHANGED <<up, paused, file, cfg, dir, shown, want, conf, promised, touched, overlapped>>

\* A file that is gone already ends Apply with an error, and applyResolvers
\* with it; RemoveAll goes on.
RemoveFile(t, d) ==
    /\ at[t] \in {"prune", "remove"} /\ d \in todo[t]
    /\ dir' = [dir EXCEPT ![d] = Absent]
    /\ IF at[t] = "prune" /\ dir[d] = Absent
          THEN Answer(t) /\ todo' = [todo EXCEPT ![t] = {}]
          ELSE todo' = [todo EXCEPT ![t] = @ \ {d}] /\ UNCHANGED <<at, conf, want, promised>>
    /\ UNCHANGED <<up, paused, file, cfg, shown, touched, overlapped>>

Applied(t) ==
    /\ at[t] \in {"prune", "remove"} /\ todo[t] = {} /\ Goto(t, "refresh")
    /\ UNCHANGED <<up, paused, file, cfg, dir, shown, want, conf, todo, promised, touched, overlapped>>

\* refreshResolverState; the call is over and answers.
Refresh(t) ==
    /\ at[t] = "refresh" /\ Answer(t) /\ shown' = States(cfg)
    /\ UNCHANGED <<up, paused, file, cfg, dir, todo, touched, overlapped>>

ApplyResolvers(t) ==
    \/ ReadConfig(t) \/ ReadSwitch(t) \/ Prune(t) \/ Applied(t) \/ Refresh(t)
    \/ \E d \in Domains : ApplyFile(t, d) \/ RemoveFile(t, d)

----------------------------------------------------------------------------
(* Reload, as far as the resolvers go.                                     *)

CallReload(t) ==
    /\ Free(t) /\ conf' = [conf EXCEPT ![t] = cfg] /\ Goto(t, "load")
    /\ UNCHANGED <<up, paused, file, cfg, dir, shown, want, todo, promised, touched>>

\* Mutant: only the list of domains is compared.
NeedsApplyDomains(old, fresh) == old.listed # fresh.listed \/ old.enabled # fresh.enabled

NeedsApply(old, fresh) ==
    old.listed # fresh.listed \/ old.enabled # fresh.enabled \/ old.listen # fresh.listen

\* The file is read, whatever it holds by then; one that does not validate ends
\* the call.
LoadConfig(t) ==
    /\ at[t] = "load"
    /\ \/ Return(t)
       \/ \E c \in Configs :
            /\ Goto(t, IF NeedsApply(conf[t], c) THEN "store" ELSE "swap")
            /\ conf' = [conf EXCEPT ![t] = c]
    /\ UNCHANGED <<up, paused, file, cfg, dir, shown, want, todo, promised, touched, overlapped>>

StoreConfig(t) ==
    /\ at[t] \in {"swap", "store"} /\ cfg' = conf[t]
    /\ IF at[t] = "store" THEN Goto(t, "config") /\ conf' = conf ELSE Return(t)
    /\ UNCHANGED <<up, paused, file, dir, shown, want, todo, promised, touched, overlapped>>

----------------------------------------------------------------------------
(* The daemon's start and end, and the files' other writers.               *)

\* New reads the pause file; Run applies the resolvers.
Start ==
    /\ ~up /\ up' = TRUE /\ paused' = file /\ cfg' \in Configs /\ Goto(Startup, "config")
    /\ promised' = Call(file)
    /\ UNCHANGED <<file, dir, shown, want, conf, todo, touched, overlapped>>

Die ==
    /\ up /\ up' = FALSE
    /\ at' = [t \in Threads |-> "idle"] /\ todo' = [t \in Threads |-> {}]
    /\ want' = [t \in Threads |-> "none"] /\ conf' = [t \in Threads |-> None]
    /\ paused' = FALSE /\ shown' = [d \in {} |-> "none"] /\ overlapped' = FALSE
    /\ UNCHANGED <<file, cfg, dir, promised, touched>>

EditFile(d, f) ==
    /\ f.owner # "vpnctl" /\ f # dir[d]
    /\ dir' = [dir EXCEPT ![d] = f] /\ touched' = TRUE
    /\ UNCHANGED <<up, paused, file, cfg, shown, calls, promised, overlapped>>

Next ==
    \/ \E t \in Callers : CallReload(t) \/ \E on \in BOOLEAN : CallSetPaused(t, on)
    \/ \E t \in Threads : WritePaused(t) \/ ApplyResolvers(t) \/ LoadConfig(t) \/ StoreConfig(t)
    \/ Start \/ Die
    \/ (\E d \in Domains, f \in Files : EditFile(d, f))

Spec == Init /\ [][Next]_vars

----------------------------------------------------------------------------

Settled == up /\ Idle

Agrees ==
    IF paused THEN Managed = {}
    ELSE /\ Managed \subseteq cfg.enabled
         /\ \A d \in cfg.enabled :
                dir[d] = Written(cfg) \/ (dir[d].owner = "admin" /\ dir[d].to # cfg.listen)

\* supervisor.go:373-375, "every caller ... states the same rule and there is no
\* ordering in which the directory disagrees with the switch": when no call is
\* in progress, a paused stack has no file in the resolver directory, a running
\* one exactly those its live configuration enables, through reloads, crashes
\* and starts in any order.  True as long as no calls of this daemon overlap;
\* the status then shows just these files (refreshResolverState, 490-492).
DirectoryFollows == Settled /\ ~touched /\ ~overlapped => Agrees /\ shown = States(cfg)

\* A resolver somebody else wrote before the call is never removed, and never
\* overwritten while it sends its suffix anywhere but to the router
\* (resolver.go:175-178).  One written while the call runs may be.
ForeignKept ==
    [][\A t \in Threads, d \in Domains :
         ~touched /\ dir[d].owner = "admin" /\ dir'[d] # dir[d] /\ ApplyResolvers(t) =>
            dir[d].to = conf[t].listen /\ dir'[d] = Written(conf[t])]_vars

\* supervisor.go:155-156, "A pause outlives the daemon": a daemon starts with
\* the switch where the last answered call put it, wherever an earlier daemon
\* died, unless it died inside a call, or a pause and a resume had overlapped.
PauseSurvives == [][Start => promised \in {"open", "mixed"} \/ promised = Call(paused')]_vars
=============================================================================
