--------------------------- MODULE InstallerProofs ---------------------------
(***************************************************************************)
(* What the run container checks of a stop with four containers and three  *)
(* of the world's moves, proved of Installer for any number of either.     *)
(* Whether the daemon was gone when the containers were listed is what it  *)
(* turns on: the daemon may take any step until then.                      *)
(***************************************************************************)
EXTENDS Installer, TLAPS

Configs == Settings \cup {None}

\* A container's record, whatever its specification was built from.
Box ==
    [label : {"vpnctl", "compose", "other"}, name : {"vpn", "aside"}, spec : Configs,
     running : BOOLEAN]

BoxesOK == boxes \in [Live -> Box]

ActorsOK ==
    /\ DOMAIN at = Actors /\ DOMAIN todo = Actors
    /\ want \in [Actors -> Configs] /\ cfg \in Configs /\ off \in BOOLEAN /\ short \in BOOLEAN
    /\ job \in {"loaded", "leaving", "none"}

Switching == {"state", "running", "halt"}

\* Where a command is tells which one it is.  The daemon is gone once its job is, and stays so until
\* a command that is not a stop loads it; a stop that has not fallen short has asked launchd to
\* unload it, and has found it gone by the time it lists.
Stopping ==
    /\ at["daemon"] = "gone" <=> job = "none"
    /\ at["installer"] \in Switching /\ ~short => job # "loaded"
    /\ at["installer"] = "halt" /\ ~short => job = "none"
    /\ off => job = "none" /\ at["installer"] \in Switching \cup {"idle"}

Ours == ListByLabel("vpnctl") \cap Running

\* Whatever still runs is something the stop has listed and not yet come to.
Listing == at["installer"] = "halt" /\ ~short => Ours \subseteq {t.id : t \in todo["installer"]}

Stilled == BoxesOK /\ ActorsOK /\ Stopping /\ Listing /\ StoppedStaysStopped

\* What each request does to the containers of ours that run.
LEMMA Requests ==
    ASSUME BoxesOK, NEW i
    PROVE  /\ StoppedBox(i) => BoxesOK' /\ Ours' = Ours \ {i}
           /\ Removed(i) => BoxesOK' /\ Ours' = Ours \ {i}
           /\ Renamed(i) => BoxesOK' /\ Ours' = Ours
           /\ Started(i) => BoxesOK'
           /\ \A c \in Configs : Created(i, c) => BoxesOK'
<1> USE DEF BoxesOK, Live
<1>0. \A j : j \in Ours <=> j \in Live /\ boxes[j].label = "vpnctl" /\ boxes[j].running
  BY Zenon DEF Ours, ListByLabel, Labelled, Running
<1>a. \A j : (j \in Ours)' <=> (j \in Live)' /\ boxes'[j].label = "vpnctl" /\ boxes'[j].running
  BY Zenon DEF Ours, ListByLabel, Labelled, Running
<1>1. ASSUME StoppedBox(i) PROVE BoxesOK' /\ Ours' = Ours \ {i}
  <2> DEFINE b == [boxes[i] EXCEPT !.running = FALSE]
  <2>1. boxes' = [boxes EXCEPT ![i] = b]
    BY <1>1 DEF StoppedBox
  <2>2. i \in Live => b \in Box /\ b.running = FALSE
    BY DEF Box
  <2> HIDE DEF b
  <2>3. BoxesOK' /\ Live' = Live
    BY <2>1, <2>2
  <2>4. /\ \A j \in Live \ {i} : boxes'[j] = boxes[j]
        /\ i \in Live => boxes'[i].running = FALSE
    BY <2>1, <2>2
  <2>5. \A j : (j \in Ours)' <=> j \in Ours /\ j # i
    BY <1>0, <1>a, <2>3, <2>4, Zenon
  <2>6. QED BY <2>3, <2>5
<1>2. ASSUME Removed(i) PROVE BoxesOK' /\ Ours' = Ours \ {i}
  <2>1. BoxesOK' /\ Live' = Live \ {i} /\ \A j \in Live \ {i} : boxes'[j] = boxes[j]
    BY <1>2 DEF Removed
  <2>2. \A j : (j \in Ours)' <=> j \in Ours /\ j # i
    BY <1>0, <1>a, <2>1, Zenon
  <2>3. QED BY <2>1, <2>2
<1>3. ASSUME Renamed(i) PROVE BoxesOK' /\ Ours' = Ours
  <2> DEFINE b == [boxes[i] EXCEPT !.name = "aside"]
  <2>1. boxes' = [boxes EXCEPT ![i] = b]
    BY <1>3 DEF Renamed
  <2>2. i \in Live => b \in Box /\ b.label = boxes[i].label /\ b.running = boxes[i].running
    BY DEF Box
  <2> HIDE DEF b
  <2>3. BoxesOK' /\ Live' = Live
    BY <2>1, <2>2
  <2>4. \A j \in Live : boxes'[j].label = boxes[j].label /\ boxes'[j].running = boxes[j].running
    BY <2>1, <2>2
  <2>5. \A j : (j \in Ours)' <=> j \in Ours
    BY <1>0, <1>a, <2>3, <2>4, Zenon
  <2>6. QED BY <2>3, <2>5
<1>4. ASSUME Started(i) PROVE BoxesOK'
  <2> DEFINE b == [boxes[i] EXCEPT !.running = TRUE]
  <2>1. boxes' = [boxes EXCEPT ![i] = b]
    BY <1>4 DEF Started
  <2>2. i \in Live => b \in Box
    BY DEF Box
  <2> HIDE DEF b
  <2>3. QED BY <2>1, <2>2
<1>5. ASSUME NEW c \in Configs, Created(i, c) PROVE BoxesOK'
  BY <1>5 DEF Created, Box
<1>6. QED BY <1>1, <1>2, <1>3, <1>4, <1>5

Ensuring == {"list", "each", "name", "drop", "create", "start"}

\* One actor moves, and what the containers and the requests are made of stays what it is.
Moves(a, places) ==
    /\ BoxesOK' /\ DOMAIN todo' = Actors /\ want' \in [Actors -> Configs] /\ cfg' \in Configs
    /\ \E w \in places : at' = [at EXCEPT ![a] = w]

\* EnsureContainer stays inside or leaves for what its caller does next, whichever that is.
LEMMA EnsureStep ==
    ASSUME BoxesOK, ActorsOK, NEW a \in Actors, EnsureContainer(a)
    PROVE  at[a] \in Ensuring /\ Moves(a, Ensuring \cup {"watch", "sleep", "load"})
<1> USE DEF Moves, ActorsOK
<1>0. engine' = engine => BoxesOK'
  BY DEF engine, BoxesOK, Live, Box
<1>1. Forgets(a) => DOMAIN todo' = Actors /\ want' \in [Actors -> Configs]
  BY DEF Forgets, Takes, Configs
<1>2. GiveUp(a) => Moves(a, {"sleep", "load"})
  BY <1>0, <1>1, Zenon DEF GiveUp, Goto, asked
<1>3. ASSUME NEW i, Settle(a, i), BoxesOK' PROVE Moves(a, {"watch", "load"})
  BY <1>1, <1>3, Zenon DEF Settle, Goto, asked
<1>4. ASSUME NEW b, NEW w \in Ensuring, Then(a, w, b), BoxesOK' PROVE Moves(a, Ensuring)
  BY <1>4 DEF Then, Goto, Takes, asked
<1> HIDE DEF Moves, ActorsOK
<1>5. Moves(a, Ensuring) \/ Moves(a, {"watch", "load"}) \/ Moves(a, {"sleep", "load"})
        => Moves(a, Ensuring \cup {"watch", "sleep", "load"})
  BY DEF Moves
<1>6. \A w \in {"each", "name", "create", "drop", "start"} : w \in Ensuring
  BY DEF Ensuring
<1>7. CASE List(a)
  BY <1>0, <1>2, <1>4, <1>5, <1>6, <1>7 DEF List, Ensuring
<1>8. CASE Each(a)
  BY <1>0, <1>2, <1>3, <1>4, <1>5, <1>6, <1>8, Requests DEF Each, Ensuring
<1>9. CASE Name(a)
  BY <1>0, <1>4, <1>5, <1>6, <1>9 DEF Name, Ensuring
<1>10. CASE Drop(a)
  BY <1>2, <1>4, <1>5, <1>6, <1>10, Requests DEF Drop, Ensuring
<1>11. CASE Create(a)
  BY <1>2, <1>4, <1>5, <1>6, <1>11, Requests DEF Create, Ensuring, ActorsOK
<1>12. CASE Start(a)
  BY <1>2, <1>3, <1>5, <1>12, Requests DEF Start, Ensuring
<1>13. QED BY <1>7, <1>8, <1>9, <1>10, <1>11, <1>12 DEF EnsureContainer

Places == {"top", "find", "stop", "waitrun", "ping", "ensure", "watch", "follow", "restart", "sleep", "load"} \cup Ensuring

\* The keeper takes a step only while the daemon lives, and stays in its loop.
LEMMA KeeperStep ==
    ASSUME BoxesOK, ActorsOK, WatchDocker
    PROVE  at["daemon"] # "gone" /\ Moves("daemon", Places)
<1>0. engine' = engine => BoxesOK'
  BY DEF engine, BoxesOK, Live, Box
<1>1. CASE EnsureContainer("daemon")
  BY <1>1, EnsureStep DEF Actors, Ensuring, Places, Moves
<1>2. ASSUME NEW w \in Places, Step(w), BoxesOK', DOMAIN todo' = Actors, cfg' = cfg PROVE Moves("daemon", Places)
  BY <1>2 DEF Step, Goto, Moves, ActorsOK
<1>3. \A b : Takes("daemon", b) => DOMAIN todo' = Actors
  BY DEF Takes, ActorsOK
<1>4. UNCHANGED todo => DOMAIN todo' = Actors
  BY DEF ActorsOK
<1>5. ASSUME NEW w, w \in {"top", "find", "stop", "waitrun", "ping", "ensure", "watch", "follow", "restart", "sleep"} PROVE w \in Places
  BY <1>5 DEF Places
<1>6. CASE Top
  BY <1>0, <1>2, <1>4, <1>5, <1>6 DEF Top, Quietly, asked
<1>7. CASE Find
  BY <1>0, <1>2, <1>3, <1>5, <1>7 DEF Find, Waits, Capture, asked
<1>8. CASE StopForPause
  BY <1>0, <1>2, <1>3, <1>5, <1>8, Requests DEF StopForPause, Waits, Capture
<1>9. CASE Resume
  BY <1>0, <1>2, <1>4, <1>5, <1>9 DEF Resume, Capture
<1>10. CASE Wake \/ Ping
  BY <1>0, <1>2, <1>4, <1>5, <1>10 DEF Wake, Ping, Quietly, asked
<1>11. CASE Ensure
  <2>1. CASE GiveUp("daemon")
    BY <1>0, <1>5, <1>11, <2>1 DEF GiveUp, Goto, Forgets, Takes, asked, Moves, ActorsOK, Ensure, Configs, Actors
  <2>2. ASSUME NEW i, Settle("daemon", i), UNCHANGED engine PROVE Moves("daemon", Places)
    <3>1. Goto("daemon", "watch") /\ cfg' = cfg /\ Forgets("daemon")
      BY <2>2 DEF Settle, asked
    <3>2. DOMAIN todo' = Actors /\ want' \in [Actors -> Configs]
      BY <3>1 DEF Forgets, Takes, ActorsOK, Configs
    <3>3. "watch" \in Places /\ BoxesOK' /\ cfg' \in Configs
      BY <1>0, <2>2, <3>1 DEF Places, ActorsOK
    <3>4. QED BY <3>1, <3>2, <3>3, Zenon DEF Moves, Goto
  <2>3. CASE want' = [want EXCEPT !["daemon"] = cfg] /\ Goto("daemon", "list") /\ UNCHANGED <<engine, todo, cfg>>
    <3>1. "list" \in Places /\ BoxesOK' /\ cfg' = cfg /\ DOMAIN todo' = Actors /\ at["daemon"] # "gone"
      BY <1>0, <1>11, <2>3 DEF Places, Ensuring, ActorsOK, Ensure
    <3>2. want' \in [Actors -> Configs] /\ cfg' \in Configs
      BY <2>3, <3>1 DEF ActorsOK
    <3>3. QED BY <2>3, <3>1, <3>2, Zenon DEF Goto, Moves
  <2>4. QED BY <1>11, <2>1, <2>2, <2>3 DEF Ensure
<1>12. CASE Watch
  BY <1>0, <1>5, <1>12 DEF Watch, Goto, Capture, Moves, ActorsOK
<1>13. CASE Follow
  <2>1. StreamEnds \/ Poll => at["daemon"] # "gone" /\ Moves("daemon", Places)
    BY <1>0, <1>2, <1>4, <1>5 DEF StreamEnds, Poll, Quietly, asked, Capture
  <2>2. NoticePause => at["daemon"] # "gone" /\ Moves("daemon", Places)
    BY <1>0, <1>2, <1>4, <1>5, Requests DEF NoticePause, Capture
  <2>3. Recreate \/ AskRestart => at["daemon"] # "gone" /\ Moves("daemon", Places)
    BY <1>0, <1>2, <1>4, <1>5 DEF Recreate, AskRestart, TakeToken
  <2>4. RestartBox => at["daemon"] # "gone" /\ Moves("daemon", Places)
    BY <1>0, <1>2, <1>4, <1>5, Requests DEF RestartBox, asked
  <2>5. QED BY <1>13, <2>1, <2>2, <2>3, <2>4 DEF Follow
<1>14. QED BY <1>1, <1>6, <1>7, <1>8, <1>9, <1>10, <1>11, <1>12, <1>13 DEF WatchDocker

\* A command's steps up to what it does to the daemon, while it installs or starts.
LEMMA InstallStep ==
    ASSUME Stilled,
           SetUp \/ Legacy \/ StandDown \/ Image \/ Ensures \/ KeepStopped \/ WaitUntil
             \/ Refused \/ Check
    PROVE  Stilled'
<1>0. engine' = engine => BoxesOK'
  BY DEF Stilled, engine, BoxesOK, Live, Box
<1>1. at["installer"] \notin Switching \cup {"idle"} /\ ~off /\ UNCHANGED <<job, off>> /\ short' \in BOOLEAN
  BY DEF SetUp, Legacy, StandDown, Image, Ensures, EnsureContainer, List, Each, Name, Drop, Create, Start,
         KeepStopped, WaitUntil, Refused, Check, Gave, Installing, launchd, Stilled, Stopping, Switching, ActorsOK
<1> DEFINE Spots == {"legacy", "stand", "image", "load", "idle", "bootstrap", "check", "kick", "watch", "sleep"} \cup Ensuring
<1>2. ASSUME Moves("installer", Spots) PROVE Stilled'
  <2>1. at'["daemon"] = at["daemon"] /\ at'["installer"] \in Spots /\ DOMAIN at' = Actors
    BY <1>2 DEF Moves, Stilled, ActorsOK, Actors
  <2>2. Spots \cap Switching = {}
    BY DEF Switching, Ensuring
  <2> HIDE DEF Spots
  <2>3. QED BY <1>1, <1>2, <2>1, <2>2 DEF Stilled, Moves, ActorsOK, Stopping, Listing, StoppedStaysStopped, Switching
<1>3. ASSUME NEW w \in Spots, Goto("installer", w), BoxesOK', DOMAIN todo' = Actors, want' \in [Actors -> Configs],
             UNCHANGED cfg
      PROVE  Moves("installer", Spots)
  BY <1>3, Zenon DEF Goto, Moves, Stilled, ActorsOK
<1>4. \A b : Takes("installer", b) => DOMAIN todo' = Actors
  BY DEF Takes, Stilled, ActorsOK
<1>5. UNCHANGED todo => DOMAIN todo' = Actors
  BY DEF Stilled, ActorsOK
<1>6. \A w \in {"legacy", "stand", "image", "load", "idle", "bootstrap", "check", "kick", "list"} : w \in Spots
  BY DEF Ensuring
<1>7. Ensures => Moves("installer", Spots)
  BY EnsureStep, <1>2 DEF Ensures, Stilled, Actors, Moves
<1>8. UNCHANGED want => want' \in [Actors -> Configs]
  BY DEF Stilled, ActorsOK
<1> HIDE DEF Spots
<1>9. SetUp \/ WaitUntil => Moves("installer", Spots)
  BY <1>0, <1>3, <1>5, <1>6, <1>8 DEF SetUp, WaitUntil, Installing, Nothing, asked
<1>10. Legacy \/ Image => Moves("installer", Spots)
  BY <1>0, <1>3, <1>4, <1>5, <1>6, <1>8 DEF Legacy, Image, Installing, asked
<1>11. StandDown => Moves("installer", Spots)
  BY <1>0, <1>3, <1>4, <1>5, <1>6, <1>8, Requests DEF StandDown, Installing, asked, Stilled
<1>12. ASSUME NEW cut, Gave(cut) PROVE Moves("installer", Spots)
  <2>1. DOMAIN todo' = Actors /\ want' \in [Actors -> Configs]
    BY <1>12 DEF Gave, Forgets, Takes, Stilled, ActorsOK, Configs
  <2>2. QED BY <1>0, <1>3, <1>6, <1>12, <2>1 DEF Gave, asked
<1>13. KeepStopped \/ Refused \/ Check => Moves("installer", Spots)
  BY <1>0, <1>3, <1>5, <1>6, <1>8, <1>12 DEF KeepStopped, Refused, Check, Installing, Nothing, asked
<1>14. QED BY <1>2, <1>7, <1>9, <1>10, <1>11, <1>13

\* A daemon that starts, or has ended.
LEMMA DaemonStep ==
    ASSUME ActorsOK, NEW left, NewDaemon(left)
    PROVE  DOMAIN todo' = Actors /\ want' \in [Actors -> Configs] /\ cfg' \in Configs
BY DEF NewDaemon, Forgets, Takes, ActorsOK, Configs

\* What changes no container: those of ours that run stay the same.
LEMMA SameBoxes ==
    ASSUME BoxesOK, UNCHANGED boxes
    PROVE  BoxesOK' /\ UNCHANGED Ours
BY DEF BoxesOK, Live, Ours, ListByLabel, Labelled, Running

\* launchd's steps.
LEMMA LaunchStep ==
    ASSUME Stilled, Load \/ Bootstrap \/ Kickstart \/ Unloaded \/ Crash
    PROVE  Stilled'
<1>0. UNCHANGED boxes => BoxesOK' /\ UNCHANGED Ours
  BY SameBoxes DEF Stilled
<1> USE DEF Stilled, ActorsOK, Stopping, Switching, Listing, StoppedStaysStopped
<1>1. CASE Unloaded
  <2>1. UNCHANGED <<boxes, off, short>> /\ job = "leaving" /\ job' = "none" /\ DOMAIN at' = Actors
        /\ at'["daemon"] = "gone" /\ UNCHANGED at["installer"]
    BY <1>1 DEF Unloaded, engine, Goto, Actors
  <2>2. DOMAIN todo' = Actors /\ want' \in [Actors -> Configs] /\ cfg' \in Configs
    BY <1>1, DaemonStep DEF Unloaded
  <2>3. QED BY <1>0, <2>1, <2>2
<1>2. CASE Crash
  <2>1. UNCHANGED <<boxes, job, off, short>> /\ job = "loaded" /\ DOMAIN at' = Actors
        /\ at'["daemon"] = "top" /\ UNCHANGED at["installer"]
    BY <1>2 DEF Crash, engine, launchd, Goto, Actors
  <2>2. DOMAIN todo' = Actors /\ want' \in [Actors -> Configs] /\ cfg' \in Configs
    BY <1>2, DaemonStep DEF Crash
  <2>3. QED BY <1>0, <2>1, <2>2
<1>3. CASE Load
  <2>1. UNCHANGED <<boxes, off, short, cfg>> /\ ~off /\ job' \in {"loaded", "leaving", "none"}
        /\ (job' = "none" <=> job = "none")
    BY <1>3 DEF Load, Bootout, engine, asked
  <2>2. DOMAIN at' = Actors /\ UNCHANGED at["daemon"] /\ at'["installer"] = "wait"
    BY <1>3 DEF Load, Bootout, Goto, Actors
  <2>3. DOMAIN todo' = Actors /\ want' \in [Actors -> Configs]
    BY <1>3 DEF Load, Bootout, Forgets, Takes, Configs
  <2>4. QED BY <1>0, <2>1, <2>2, <2>3
<1>4. ASSUME Loaded, ~off PROVE Stilled'
  <2>1. UNCHANGED <<boxes, off>> /\ job' = "loaded" /\ ~short' /\ short' \in BOOLEAN
        /\ at' = [daemon |-> "top", installer |-> "idle"]
    BY <1>4 DEF Loaded, engine
  <2>2. DOMAIN todo' = Actors /\ want' \in [Actors -> Configs] /\ cfg' \in Configs
    BY <1>4, DaemonStep DEF Loaded
  <2>3. DOMAIN at' = Actors /\ at'["daemon"] = "top" /\ at'["installer"] = "idle"
    BY <2>1 DEF Actors
  <2>4. QED BY <1>0, <1>4, <2>1, <2>2, <2>3
<1>5. CASE Bootstrap
  <2>1. CASE Nothing /\ Installing("check")
    <3>1. UNCHANGED <<boxes, todo, want, cfg, job, off, short>>
      BY <2>1 DEF Nothing, Installing, launchd, engine, asked
    <3>2. DOMAIN at' = Actors /\ UNCHANGED at["daemon"] /\ at'["installer"] = "check"
      BY <2>1 DEF Installing, Goto, Actors
    <3>3. QED BY <1>0, <1>5, <3>1, <3>2 DEF Bootstrap
  <2>2. QED BY <1>4, <1>5, <2>1 DEF Bootstrap
<1>6. CASE Kickstart
  <2>1. CASE Gave(TRUE)
    <3>1. UNCHANGED <<boxes, cfg, job, off>> /\ short' = TRUE
      BY <2>1 DEF Gave, engine, asked
    <3>2. DOMAIN at' = Actors /\ UNCHANGED at["daemon"] /\ at'["installer"] = "idle"
      BY <2>1 DEF Gave, Goto, Actors
    <3>3. DOMAIN todo' = Actors /\ want' \in [Actors -> Configs]
      BY <2>1 DEF Gave, Forgets, Takes, Configs
    <3>4. QED BY <1>0, <1>6, <3>1, <3>2, <3>3 DEF Kickstart
  <2>2. QED BY <1>4, <1>6, <2>1 DEF Kickstart
<1>7. QED BY <1>1, <1>2, <1>3, <1>5, <1>6

\* A stop or an uninstall, from asking launchd to unload the daemon to the last of the containers it
\* listed.
LEMMA StopStep ==
    ASSUME Stilled,
           (\E o \in {"stop", "uninstall", "purge"}, failed \in BOOLEAN : Stop(o, failed))
             \/ ForgetState \/ ListOurs \/ HaltOne \/ Halted
    PROVE  Stilled'
<1>0. UNCHANGED boxes => BoxesOK' /\ UNCHANGED Ours
  BY SameBoxes DEF Stilled
<1> USE DEF Stilled, ActorsOK, Stopping, Switching, Listing
<1>1. ASSUME NEW o \in {"stop", "uninstall", "purge"}, NEW failed \in BOOLEAN, Stop(o, failed) PROVE Stilled'
  <2>1. /\ UNCHANGED <<boxes, off, cfg>> /\ short' = failed /\ job' \in {"loaded", "leaving", "none"}
        /\ (job' = "none" <=> job = "none") /\ (~failed => job' # "loaded")
    BY <1>1 DEF Stop, Bootout, engine, asked
  <2>2. DOMAIN at' = Actors /\ UNCHANGED at["daemon"] /\ at'["installer"] \in {"running", "state"}
    BY <1>1 DEF Stop, Bootout, Goto, Actors
  <2>3. DOMAIN todo' = Actors /\ want' \in [Actors -> Configs]
    BY <1>1 DEF Stop, Bootout, Forgets, Takes, Configs
  <2>4. QED BY <1>0, <2>1, <2>2, <2>3 DEF Ours, StoppedStaysStopped
<1>2. CASE ForgetState
  <2>1. UNCHANGED <<boxes, todo, want, cfg, job, off, short>>
    BY <1>2 DEF ForgetState, Nothing, engine
  <2>2. DOMAIN at' = Actors /\ UNCHANGED at["daemon"] /\ at'["installer"] = "running"
    BY <1>2 DEF ForgetState, Goto, Actors
  <2>3. QED BY <1>0, <1>2, <2>1, <2>2 DEF ForgetState, Ours, StoppedStaysStopped
<1>3. CASE ListOurs
  <2>1. /\ UNCHANGED <<boxes, want, cfg, job>> /\ at["installer"] = "running"
        /\ short' = (short \/ job = "leaving") /\ short' \in BOOLEAN /\ (~short' => ~short /\ job = "none")
    BY <1>3 DEF ListOurs, engine, asked
  <2>2. CASE Targets # {} /\ Takes("installer", {Shown(i) : i \in Targets}) /\ Goto("installer", "halt") /\ UNCHANGED off
    <3>1. todo'["installer"] = {Shown(i) : i \in Targets} /\ DOMAIN todo' = Actors
      BY <2>2 DEF Takes, Actors
    <3>2. \A i \in Ours : i \in {t.id : t \in todo'["installer"]}
      <4> TAKE i \in Ours
      <4>1. i \in Targets
        BY DEF Ours, Targets
      <4>2. Shown(i) \in todo'["installer"] /\ Shown(i).id = i
        BY <3>1, <4>1 DEF Shown
      <4>3. QED BY <4>2
    <3>3. DOMAIN at' = Actors /\ at'["installer"] = "halt" /\ UNCHANGED at["daemon"]
      BY <2>2 DEF Goto, Actors
    <3>4. QED BY <1>0, <2>1, <2>2, <3>1, <3>2, <3>3 DEF Ours, StoppedStaysStopped
  <2>3. CASE (up => Targets = {}) /\ Goto("installer", "idle") /\ UNCHANGED todo /\ off' = IF up THEN ~short' ELSE off
    <3>1. DOMAIN at' = Actors /\ at'["installer"] = "idle" /\ UNCHANGED at["daemon"]
      BY <2>3 DEF Goto, Actors
    <3>2. up => Ours = {}
      BY <2>3 DEF Targets, Ours
    <3>3. off' \in BOOLEAN /\ (off' => job = "none" /\ Ours = {})
      BY <2>1, <2>3, <3>2 DEF StoppedStaysStopped, Ours
    <3>4. QED BY <1>0, <2>1, <2>3, <3>1, <3>3 DEF Ours, StoppedStaysStopped
  <2>4. QED BY <1>3, <2>2, <2>3 DEF ListOurs
<1>4. CASE HaltOne
  <2>1. PICK t \in todo["installer"] :
        /\ Takes("installer", todo["installer"] \ {t})
        /\ \/ short' = short /\ (Removed(t.id) \/ StoppedBox(t.id))
           \/ UNCHANGED engine /\ short' = TRUE
    BY <1>4 DEF HaltOne
  <2>2. todo'["installer"] = todo["installer"] \ {t} /\ DOMAIN todo' = Actors
    BY <2>1 DEF Takes, Actors
  <2>3. UNCHANGED <<at, want, cfg, job, off>>
    BY <1>4 DEF HaltOne, asked
  <2>4. CASE short' = short /\ (Removed(t.id) \/ StoppedBox(t.id))
    <3>1. BoxesOK' /\ Ours' = Ours \ {t.id}
      BY <2>4, Requests
    <3>2. Listing'
      BY <2>2, <2>3, <2>4, <3>1
    <3>3. QED BY <2>2, <2>3, <2>4, <3>1, <3>2 DEF Ours, StoppedStaysStopped
  <2>5. CASE UNCHANGED engine /\ short' = TRUE
    BY <1>0, <2>2, <2>3, <2>5 DEF engine, Ours, StoppedStaysStopped
  <2>6. QED BY <2>1, <2>4, <2>5
<1>5. CASE Halted
  <2>1. UNCHANGED <<boxes, want, todo, cfg, job, short>> /\ todo["installer"] = {} /\ at["installer"] = "halt"
    BY <1>5 DEF Halted, engine, asked
  <2>2. DOMAIN at' = Actors /\ at'["installer"] = "idle" /\ UNCHANGED at["daemon"]
    BY <1>5 DEF Halted, Goto, Actors
  <2>3. off' = ~short /\ (off' => Ours = {} /\ job = "none")
    BY <1>5, <2>1 DEF Halted
  <2>4. QED BY <1>0, <2>1, <2>2, <2>3 DEF Ours, StoppedStaysStopped
<1>6. QED BY <1>1, <1>2, <1>3, <1>4, <1>5

\* What changes neither who is where nor what runs, except that it may stop.
LEMMA StillStep ==
    ASSUME Stilled, BoxesOK', Ours' \subseteq Ours, UNCHANGED <<at, want, todo, job, off, short>>, cfg' \in Configs
    PROVE  Stilled'
BY DEF Stilled, ActorsOK, Stopping, Listing, StoppedStaysStopped, Ours

\* Every step keeps it.
LEMMA StilledStep == Stilled /\ [Next]_vars => Stilled'
<1> SUFFICES ASSUME Stilled, [Next]_vars PROVE Stilled'
  OBVIOUS
<1>0. UNCHANGED boxes => BoxesOK' /\ Ours' \subseteq Ours
  BY SameBoxes DEF Stilled
<1>1. cfg \in Configs
  BY DEF Stilled, ActorsOK
<1>2. CASE UNCHANGED vars
  BY <1>0, <1>1, <1>2, StillStep DEF vars, keeper, launchd, engine, asked
<1>3. CASE Beside(WatchDocker)
  <2>1. at["daemon"] # "gone" /\ Moves("daemon", Places) /\ UNCHANGED <<job, off, short>>
    BY <1>3, KeeperStep DEF Beside, launchd, Stilled
  <2>2. at'["daemon"] # "gone" /\ at'["installer"] = at["installer"] /\ DOMAIN at' = Actors
    BY <2>1 DEF Moves, Stilled, ActorsOK, Actors, Places, Ensuring
  <2>3. QED BY <2>1, <2>2 DEF Stilled, ActorsOK, Moves, Stopping, Switching, Listing, StoppedStaysStopped
<1>4. CASE Command
  BY <1>4, InstallStep, LaunchStep, StopStep DEF Command
<1>5. CASE Beside(SignalReload) \/ Beside(EngineComesBack) \/ Beside(EngineGoesAway) \/ Beside(SignalRestart)
  BY <1>0, <1>1, <1>5, StillStep DEF Beside, launchd, SignalReload, EngineComesBack, ComeBack, EngineGoesAway, GoAway,
                                     SignalRestart, engine, asked
<1>6. CASE Beside(RemovedByHand)
  BY <1>1, <1>6, StillStep, Requests DEF Beside, launchd, RemovedByHand, RemoveByHand, asked, Stilled
<1>7. ASSUME NEW old \in Settings, NEW fresh \in Settings, Beside(StoreConfig(old, fresh)) PROVE Stilled'
  BY <1>0, <1>7, StillStep DEF Beside, launchd, StoreConfig, engine, Configs
<1>8. ASSUME NEW on \in BOOLEAN, Switch(on) PROVE Stilled'
  BY <1>0, <1>1, <1>8, StillStep DEF Switch, SetPaused, engine
<1>9. ASSUME NEW c \in Settings, Install(c) PROVE Stilled'
  <2>1. DOMAIN at' = Actors /\ at'["installer"] = "asked" /\ UNCHANGED <<boxes, todo, cfg, job, short, at["daemon"]>> /\ ~off'
    BY <1>9 DEF Install, Goto, Actors, Stilled, ActorsOK, engine, asked
  <2>2. want' \in [Actors -> Configs] /\ off' \in BOOLEAN
    BY <1>9 DEF Install, Stilled, ActorsOK, Configs
  <2>3. QED BY <1>0, <2>1, <2>2 DEF Stilled, ActorsOK, Stopping, Switching, Listing, StoppedStaysStopped
<1>10. CASE StartCommand
  <2>1. DOMAIN at' = Actors /\ at'["installer"] = "load" /\ UNCHANGED <<boxes, todo, want, cfg, job, short, at["daemon"]>>
        /\ off' = FALSE
    BY <1>10 DEF StartCommand, Goto, Actors, Stilled, ActorsOK, engine, asked
  <2>2. QED BY <1>0, <2>1 DEF Stilled, ActorsOK, Stopping, Switching, Listing, StoppedStaysStopped
<1>11. QED BY <1>2, <1>3, <1>4, <1>5, <1>6, <1>7, <1>8, <1>9, <1>10, LaunchStep, StopStep DEF Next, Programs, Reloaded, World

\* For any containers, configurations, engine outages, overlapping reloads and unloads that are slow
\* or fail: once a stop or an uninstall has stopped what it found, and found it after the daemon was
\* gone, none of our containers runs until something is started or installed (StoppedStaysStopped).
THEOREM StopsForGood == Spec => []StoppedStaysStopped
<1>1. Init => Stilled
  <2> SUFFICES ASSUME Init PROVE Stilled
    OBVIOUS
  <2>1. ActorsOK /\ Stopping /\ Listing /\ StoppedStaysStopped
    BY DEF Init, KeeperInit, ActorsOK, Configs, Settings, Actors, Stopping, Switching, Listing, StoppedStaysStopped
  <2>2. BoxesOK
    <3>1. CASE boxes = <<>>
      BY <3>1 DEF BoxesOK, Live
    <3>2. ASSUME NEW i \in Ids, NEW l \in {"compose", "other"},
                 boxes = [j \in {i} |-> [label |-> l, name |-> "vpn", spec |-> None, running |-> TRUE]]
          PROVE  BoxesOK
      BY <3>2 DEF BoxesOK, Live, Box, Configs
    <3>3. QED BY <3>1, <3>2 DEF Init, KeeperInit, EngineInit
  <2>3. QED BY <2>1, <2>2 DEF Stilled
<1>2. Stilled => StoppedStaysStopped
  BY DEF Stilled
<1>3. QED BY <1>1, <1>2, StilledStep, PTL DEF Spec
=============================================================================
