----------------------------- MODULE VpnContainer -----------------------------
(***************************************************************************)
(* The VPN container's keeper: watchDocker, ensureContainer and            *)
(* followContainer of internal/supervisor/supervisor.go, and               *)
(* EnsureContainer of internal/vpnbox, which the installer runs against    *)
(* the same engine.  `at` says where each of the two is; every request to  *)
(* the engine is a step of its own.                                        *)
(***************************************************************************)
EXTENDS Engine

CONSTANTS Unreadable    \* a configuration no specification can be built from

VARIABLES
    at,         \* where the daemon and the installer are
    want,       \* the configuration each of them read
    todo,       \* containers each still has to deal with, as it saw them
    id,         \* s.containerID
    stream,     \* the event stream is open
    cfg,        \* s.current
    reload,     \* a Reload is between storing the configuration and asking
    undone,     \* history: since the daemon last read it or was asked to restart,
                \* a Reload has put back what it had found over what another stored
    token,      \* a restart waits in the channel
    paused,     \* the pause switch
    fired,      \* the channel captured by the current wait is closed
    built,      \* the image this binary wants exists
    missed      \* history: this pause's attempt to stop the container failed, or
                \* met one that was stopped, while another runs

Actors == {"daemon", "installer"}

daemon == <<id, stream, missed>>
reloads == <<reload, undone>>
asked  == <<cfg, reloads, token, paused, fired>>
keeper == <<engine, at, want, todo, daemon, asked, built>>

\* A container as a listing shows it.
Shown(i) == [id |-> i, spec |-> boxes[i].spec, running |-> boxes[i].running]
Listed == [id : Ids, spec : Specs \cup {None}, running : BOOLEAN]

Settings == Specs \cup {Unreadable}

KeeperTypeOK ==
    /\ EngineTypeOK
    /\ at \in [Actors -> {"top", "find", "stop", "waitrun", "ping", "ensure", "list", "each", "name",
                          "drop", "create", "start", "watch", "follow", "restart", "sleep",
                          "gone", "idle", "asked", "legacy", "stand", "image", "load", "wait",
                          "bootstrap", "check", "kick", "state", "running", "halt"}]
    /\ want \in [Actors -> Settings \cup {None}] /\ todo \in [Actors -> SUBSET Listed]
    /\ id \in Ids \cup {None}
    /\ cfg \in Settings
    /\ {stream, reload, undone, token, paused, fired, built, missed} \subseteq BOOLEAN

KeeperInit ==
    /\ EngineInit
    /\ at = [a \in Actors |-> IF a = "daemon" THEN "top" ELSE "idle"]
    /\ cfg \in Specs /\ want = [a \in Actors |-> None] /\ todo = [a \in Actors |-> {}]
    /\ id = None /\ stream = FALSE /\ missed = FALSE
    /\ reload = FALSE /\ undone = FALSE /\ token = FALSE /\ paused \in BOOLEAN /\ fired = FALSE /\ built \in BOOLEAN

----------------------------------------------------------------------------
(* EnsureContainer, for either of them.                                    *)

Goto(a, where) == at' = [at EXCEPT ![a] = where]
Takes(a, boxset) == todo' = [todo EXCEPT ![a] = boxset]
Forgets(a) == want' = [want EXCEPT ![a] = None] /\ Takes(a, {})

\* The daemon retries in five seconds; the installer carries on without.
GiveUp(a) ==
    /\ Goto(a, IF a = "daemon" THEN "sleep" ELSE "load") /\ Forgets(a)
    /\ UNCHANGED <<engine, id, stream, missed, asked, built>>

\* EnsureContainer's answer: the daemon keeps it.
Settle(a, i) ==
    /\ Goto(a, IF a = "daemon" THEN "watch" ELSE "load") /\ Forgets(a)
    /\ id' = IF a = "daemon" THEN i ELSE id
    /\ UNCHANGED <<stream, missed, asked, built>>

Then(a, where, boxset) ==
    /\ Goto(a, where) /\ Takes(a, boxset)
    /\ UNCHANGED <<want, daemon, asked, built>>

List(a) ==
    /\ at[a] = "list"
    /\ \/ up /\ Then(a, "each", {Shown(i) : i \in ListByLabel("vpnctl")}) /\ UNCHANGED engine
       \/ ~up /\ GiveUp(a)

\* Spec can be built, and its hash tells two of them apart.
Buildable(c) == c # Unreadable
SameSpec(spec, c) == spec = c

Matches(a, t) == SameSpec(t.spec, want[a])

\* What matches is kept, and started if it does not run; the rest goes.
Each(a) ==
    /\ at[a] = "each"
    /\ \/ todo[a] = {} /\ Then(a, "name", {}) /\ UNCHANGED engine
       \/ \E t \in todo[a] :
            \/ Matches(a, t) /\ t.running /\ Settle(a, t.id) /\ UNCHANGED engine
            \/ Matches(a, t) /\ ~t.running /\ up /\ CanStart(t.id) /\ Started(t.id) /\ Settle(a, t.id)
            \/ Matches(a, t) /\ ~t.running /\ ~(up /\ CanStart(t.id)) /\ GiveUp(a)
            \/ ~Matches(a, t) /\ up /\ t.id \in Live
                 /\ Removed(t.id) /\ Then(a, "each", todo[a] \ {t})
            \/ ~Matches(a, t) /\ (~up \/ t.id \notin Live) /\ GiveUp(a)

\* Whatever holds the name goes; a failure to look counts as a free name.
Name(a) ==
    /\ at[a] = "name" /\ UNCHANGED engine
    /\ \/ up /\ \E i \in FindByName : Then(a, "drop", {Shown(i)})
       \/ (~up \/ FindByName = {}) /\ Then(a, "create", {})

Drop(a) ==
    /\ at[a] = "drop"
    /\ \E t \in todo[a] :
        \/ up /\ t.id \in Live /\ Removed(t.id) /\ Then(a, "create", {})
        \/ (~up \/ t.id \notin Live) /\ GiveUp(a)

\* Ids are never used twice while somebody remembers them.
Fresh == CHOOSE i \in Ids :
    i \notin Live \cup {id} \cup {t.id : t \in todo["daemon"] \cup todo["installer"]}

Create(a) ==
    /\ at[a] = "create"
    /\ \/ up /\ built /\ CanCreate /\ Created(Fresh, want[a])
             /\ Then(a, "start", {[id |-> Fresh, spec |-> want[a], running |-> FALSE]})
       \/ ~(up /\ built /\ CanCreate) /\ GiveUp(a)

Start(a) ==
    /\ at[a] = "start"
    /\ \E t \in todo[a] :
        \/ up /\ CanStart(t.id) /\ Started(t.id) /\ Settle(a, t.id)
        \/ ~(up /\ CanStart(t.id)) /\ GiveUp(a)

EnsureContainer(a) == List(a) \/ Each(a) \/ Name(a) \/ Drop(a) \/ Create(a) \/ Start(a)

----------------------------------------------------------------------------
(* watchDocker.                                                            *)

\* Leaving followContainer closes its stream.
Step(where) ==
    /\ Goto("daemon", where) /\ stream' = (stream /\ where \in {"follow", "restart"})
    /\ UNCHANGED <<want, id, built>>
Quietly == UNCHANGED <<engine, todo, missed, asked>>

\* A wait begins: the channel is captured as the switch stands now.
Capture == fired' = FALSE /\ UNCHANGED <<cfg, reloads, token, paused>>

Top ==
    /\ at["daemon"] = "top" /\ Quietly
    /\ Step(IF paused THEN "find" ELSE "ping")

\* What findExistingContainer returns, running or not: ours, else compose's,
\* else the one with our name.
Existing ==
    IF ListByLabel("vpnctl") # {} THEN ListByLabel("vpnctl")
    ELSE IF FindByComposeProject # {} THEN FindByComposeProject ELSE FindByName

\* The attempt is over; the pause goes on either way.
Waits(failed) ==
    /\ Step("waitrun") /\ missed' = (missed \/ failed) /\ Capture
    /\ Takes("daemon", {})

\* Mutant: a daemon that knows of no container has none to stop.
FindKnown ==
    /\ at["daemon"] = "find"
    /\ \/ id # None /\ Step("stop") /\ Takes("daemon", {[id |-> id, spec |-> None, running |-> TRUE]})
            /\ UNCHANGED <<engine, missed, asked>>
       \/ id = None /\ Waits(FALSE) /\ UNCHANGED engine

\* stopContainerForPause: which container, and the one request.  One that is
\* found stopped ends it.
Find ==
    /\ at["daemon"] = "find"
    /\ \/ id # None /\ Step("stop") /\ Takes("daemon", {[id |-> id, spec |-> None, running |-> TRUE]})
            /\ UNCHANGED <<engine, missed, asked>>
       \/ id = None /\ up /\ \E i \in Existing \cap Running :
            Step("stop") /\ Takes("daemon", {Shown(i)}) /\ UNCHANGED <<engine, missed, asked>>
       \/ id = None /\ up /\ Existing \ Running # {} /\ Waits(Running # {}) /\ UNCHANGED engine
       \/ id = None /\ (~up \/ Existing = {}) /\ Waits(~up) /\ UNCHANGED engine

StopForPause ==
    /\ at["daemon"] = "stop"
    /\ \E t \in todo["daemon"] :
        \/ up /\ t.id \in Live /\ StoppedBox(t.id) /\ Waits(FALSE)
        \/ (~up \/ t.id \notin Live) /\ UNCHANGED engine /\ Waits(TRUE)

Resume ==
    /\ at["daemon"] = "waitrun" /\ (~paused \/ fired)
    /\ Step("top") /\ UNCHANGED <<engine, todo, missed>> /\ Capture

\* sleepUnlessPauseChanges: five seconds, or less.
Wake ==
    /\ at["daemon"] = "sleep" /\ Quietly
    /\ Step("top")

Ping ==
    /\ at["daemon"] = "ping" /\ Quietly
    /\ Step(IF up THEN "ensure" ELSE "sleep")

\* ensureContainer, up to EnsureContainer: the configuration is read once.
Ensure ==
    /\ at["daemon"] = "ensure"
    /\ \/ (~up \/ (built /\ ~Buildable(cfg)) \/ (~built /\ Existing = {})) /\ GiveUp("daemon")
       \/ up /\ built /\ Buildable(cfg)
            /\ want' = [want EXCEPT !["daemon"] = cfg] /\ Goto("daemon", "list") /\ undone' = FALSE
            /\ UNCHANGED <<engine, todo, daemon, cfg, reload, token, paused, fired, built>>
       \/ up /\ ~built /\ UNCHANGED engine /\ \E i \in Existing : Settle("daemon", i)

\* followContainer opens the event stream first.
Watch ==
    /\ at["daemon"] = "watch" /\ UNCHANGED <<engine, todo, want, id, missed, built>>
    /\ stream' = up /\ Goto("daemon", IF up THEN "follow" ELSE "sleep") /\ Capture

----------------------------------------------------------------------------
(* The select of followContainer.  The stream is of compose's containers:  *)
(* ours never has an event.                                                *)

StreamEnds ==
    /\ at["daemon"] = "follow" /\ ~stream /\ Quietly
    /\ Step("sleep")

\* Every fifteen seconds the status is refreshed, and the select captures the
\* pause channel anew.
Poll ==
    /\ at["daemon"] = "follow" /\ Capture /\ UNCHANGED <<engine, todo, missed>>
    /\ Step("follow")

\* The container is stopped here, then once more after the next look.
NoticePause ==
    /\ at["daemon"] = "follow" /\ (paused \/ fired)
    /\ \/ up /\ id \in Live /\ StoppedBox(id) /\ missed' = missed
       \/ (~up \/ id \notin Live) /\ UNCHANGED engine /\ missed' = TRUE
    /\ Step("sleep") /\ UNCHANGED todo /\ Capture

\* containerMatchesConfig: cannot tell means it does.
Stale ==
    /\ Buildable(cfg) /\ up /\ id \in Live
    /\ ~SameSpec(boxes[id].spec, cfg)

TakeToken(where) ==
    /\ at["daemon"] = "follow" /\ token /\ token' = FALSE /\ fired' = FALSE /\ UNCHANGED <<cfg, reloads, paused>>
    /\ Step(where) /\ UNCHANGED <<engine, todo, missed>>

\* Mutant: a restart is always enough.
RecreateNever == Stale /\ TakeToken("restart")

Recreate == Stale /\ TakeToken("top")

AskRestart == ~Stale /\ TakeToken("restart")

RestartBox ==
    /\ at["daemon"] = "restart" /\ Step("follow") /\ UNCHANGED <<todo, missed, asked>>
    /\ \/ up /\ CanStart(id) /\ Started(id)
       \/ ~(up /\ CanStart(id)) /\ UNCHANGED engine

Follow == StreamEnds \/ Poll \/ NoticePause \/ Recreate \/ AskRestart \/ RestartBox

WatchDocker ==
    \/ Top \/ Find \/ StopForPause \/ Resume \/ Wake \/ Ping \/ Ensure
    \/ EnsureContainer("daemon") \/ Watch \/ Follow

----------------------------------------------------------------------------
(* Its surroundings.                                                       *)

\* A daemon that starts has no container and no token, whatever configuration
\* the file holds by now, and the switch as it was left on disk.
NewDaemon(left) ==
    /\ Forgets("daemon") /\ id' = None /\ stream' = FALSE /\ missed' = FALSE
    /\ cfg' \in Settings /\ reload' = FALSE /\ undone' = FALSE
    /\ token' = FALSE /\ fired' = FALSE /\ paused' = left

\* The stream breaks with the engine.
EngineGoesAway ==
    /\ GoAway /\ stream' = FALSE
    /\ UNCHANGED <<at, want, todo, id, missed, asked, built>>

EngineComesBack ==
    /\ ComeBack
    /\ UNCHANGED <<at, want, todo, daemon, asked, built>>

RemovedByHand ==
    /\ \E i \in Ids : RemoveByHand(i)
    /\ UNCHANGED <<at, want, todo, daemon, asked, built>>

Alive == at["daemon"] # "gone"

Affected(old, fresh) == fresh # old

\* Reload takes no lock, and every connection has a goroutine of its own: any
\* number of them are under way.  The file is stored over what is live by now,
\* and whether the container is affected decided by what the Reload found at its
\* start, which may be any earlier configuration by then.
StoreConfig(old, fresh) ==
    /\ Alive /\ cfg' = fresh /\ reload' = (reload \/ Affected(old, fresh))
    /\ undone' = (undone \/ (~Affected(old, fresh) /\ fresh # cfg))
    /\ UNCHANGED <<engine, at, want, todo, daemon, token, paused, fired, built>>

\* One of those that have stored asks.
SignalReload ==
    /\ reload /\ reload' \in BOOLEAN /\ token' = TRUE /\ undone' = FALSE
    /\ UNCHANGED <<engine, at, want, todo, daemon, cfg, paused, fired, built>>

SignalRestart ==
    /\ Alive /\ ~token /\ token' = TRUE /\ undone' = FALSE
    /\ UNCHANGED <<engine, at, want, todo, daemon, cfg, reload, paused, fired, built>>

SetPaused(on) ==
    /\ Alive /\ paused # on /\ paused' = on /\ missed' = FALSE
    /\ fired' = (fired \/ at["daemon"] \in {"follow", "waitrun"})
    /\ UNCHANGED <<engine, at, want, todo, id, stream, cfg, reloads, token, built>>
=============================================================================
