----------------------------- MODULE FilesProofs -----------------------------
(***************************************************************************)
(* What MCFiles checks of the pause switch with one caller next to the     *)
(* daemon's start, proved of PauseSwitch for any number of callers,        *)
(* suffixes, addresses and configurations.                                 *)
(***************************************************************************)
EXTENDS MCFiles, TLAPS

Threads == Switch!Threads

SwitchOK ==
    /\ paused \in BOOLEAN /\ pauseFile \in BOOLEAN /\ cfg \in Configs
    /\ dir \in [Domains -> Switch!Files]
    /\ at \in [Threads -> Switch!Places] /\ want \in [Threads -> {"pause", "resume", "none"}]
    /\ conf \in [Threads -> Configs \cup {None}] /\ todo \in [Threads -> SUBSET Domains]
    /\ \A t \in Threads : at[t] \notin {"idle", "write", "config"} => conf[t] \in Configs

\* A daemon that is gone is in no call, and calls that do not overlap are one at a time.
Lone ==
    /\ ~up => Switch!Idle
    /\ ~overlapped => \A t, u \in Threads : at[t] # "idle" /\ at[u] # "idle" => t = u

\* What a file is after Apply has looked at it.
Right(d) ==
    dir[d] = Switch!Written(cfg) \/ (dir[d].owner = "admin" /\ dir[d].to # cfg.listen)

InLine == Switch!Agrees /\ shown = Switch!States(cfg)

\* How far the one call in progress has brought the directory.
Stage(t) ==
    /\ at[t] \in {"load", "swap"} => conf[t] = cfg /\ InLine
    /\ at[t] \in {"switch", "apply", "prune", "remove", "refresh"} => conf[t] = cfg
    /\ at[t] \in {"apply", "prune"} => ~paused /\ \A d \in cfg.enabled \ todo[t] : Right(d)
    /\ at[t] = "prune" => /\ todo[t] \subseteq Switch!Managed \ cfg.enabled
                          /\ Switch!Managed \subseteq cfg.enabled \cup todo[t]
    /\ at[t] = "remove" => paused /\ Switch!Managed \subseteq todo[t]
    /\ at[t] = "refresh" => Switch!Agrees

Followed == up /\ ~touched /\ ~overlapped => (Switch!Idle => InLine) /\ \A t \in Threads : Stage(t)

\* What a call is about to remove is no foreign file, unless somebody edited one meanwhile.
Ours ==
    ~touched => \A t \in Threads : at[t] \in {"prune", "remove"} =>
                    \A d \in todo[t] : dir[d].owner # "admin"

\* The pause file follows the switch, but for the one call that is about to write it.
Remembered ==
    /\ \A t \in Threads : /\ at[t] \in {"idle", "load", "swap", "store"} => want[t] = "none"
                          /\ at[t] = "write" => want[t] # "none"
    /\ promised \in {"pause", "resume", "open", "mixed"}
    /\ promised \in {"pause", "resume"} =>
          /\ promised = Switch!Call(pauseFile) /\ (up => paused = pauseFile)
          /\ \A t \in Threads : want[t] = "none"
    /\ promised = "open" /\ up =>
          \E t \in Threads : /\ want[t] = Switch!Call(paused) /\ (at[t] = "write" \/ pauseFile = paused)
                             /\ \A u \in Threads \ {t} : want[u] = "none"
----------------------------------------------------------------------------
(* The switch's variables keep their types.                                *)

\* Every step keeps the types, and a call that needs a configuration has one.
LEMMA SwitchSteps == SwitchOK /\ [Switch!Next]_(Switch!vars) => SwitchOK'
<1> SUFFICES ASSUME SwitchOK, [Switch!Next]_(Switch!vars) PROVE SwitchOK'
  OBVIOUS
<1> USE DEF Threads
<1>1. ASSUME NEW t \in Threads, NEW p \in Switch!Places, Switch!Goto(t, p)
      PROVE  /\ at' \in [Threads -> Switch!Places] /\ at'[t] = p
             /\ \A u \in Threads \ {t} : at'[u] = at[u]
  BY <1>1 DEF Switch!Goto, SwitchOK
<1>2. ASSUME NEW t \in Threads, Switch!Return(t)
      PROVE  /\ at' \in [Threads -> Switch!Places] /\ conf' \in [Threads -> Configs \cup {None}]
             /\ at'[t] = "idle" /\ \A u \in Threads \ {t} : at'[u] = at[u] /\ conf'[u] = conf[u]
  BY <1>2 DEF Switch!Return, Switch!Goto, SwitchOK, Switch!Places
<1>3. ASSUME NEW t \in Threads, Switch!Answer(t)
      PROVE  /\ at' \in [Threads -> Switch!Places] /\ conf' \in [Threads -> Configs \cup {None}]
             /\ want' \in [Threads -> {"pause", "resume", "none"}]
             /\ at'[t] = "idle" /\ \A u \in Threads \ {t} : at'[u] = at[u] /\ conf'[u] = conf[u]
  BY <1>2, <1>3 DEF Switch!Answer, SwitchOK
<1>4. \A t \in Callers : t \in Threads
  BY DEF Switch!Threads
<1>5. ASSUME NEW t \in Callers, Switch!CallReload(t) PROVE SwitchOK'
  BY <1>1, <1>4, <1>5 DEF Switch!CallReload, Switch!Places, SwitchOK
<1>6. ASSUME NEW t \in Callers, NEW on \in BOOLEAN, Switch!CallSetPaused(t, on) PROVE SwitchOK'
  BY <1>1, <1>4, <1>6 DEF Switch!CallSetPaused, Switch!Places, Switch!Call, SwitchOK
<1>7. ASSUME NEW t \in Threads, Switch!WritePaused(t) PROVE SwitchOK'
  BY <1>1, <1>7 DEF Switch!WritePaused, Switch!Places, SwitchOK
<1>8. ASSUME NEW t \in Threads, Switch!ReadConfig(t) PROVE SwitchOK'
  BY <1>1, <1>8 DEF Switch!ReadConfig, Switch!Places, SwitchOK
<1>9. ASSUME NEW t \in Threads, Switch!ReadSwitch(t) PROVE SwitchOK'
  <2>1. conf[t] \in Configs
    BY <1>9 DEF Switch!ReadSwitch, SwitchOK
  <2>2. conf[t].enabled \in SUBSET Domains
    BY <2>1, FilesAssumption DEF Switch!PauseAssumption
  <2>3. QED BY <1>1, <1>9, <2>1, <2>2 DEF Switch!ReadSwitch, Switch!Managed, Switch!Places, SwitchOK
<1>10. ASSUME NEW t \in Threads, NEW d \in Domains, Switch!ApplyFile(t, d) PROVE SwitchOK'
  <2>1. conf[t] \in Configs /\ at[t] = "apply"
    BY <1>10 DEF Switch!ApplyFile, SwitchOK
  <2>2. Switch!Written(conf[t]) \in Switch!Files
    BY <2>1, FilesAssumption DEF Switch!Written, Switch!Files, Switch!PauseAssumption
  <2>3. QED BY <1>10, <2>2 DEF Switch!ApplyFile, SwitchOK
<1>11. ASSUME NEW t \in Threads, Switch!Prune(t) PROVE SwitchOK'
  BY <1>1, <1>11 DEF Switch!Prune, Switch!Managed, Switch!Places, SwitchOK
<1>12. ASSUME NEW t \in Threads, NEW d \in Domains, Switch!RemoveFile(t, d) PROVE SwitchOK'
  BY <1>3, <1>12 DEF Switch!RemoveFile, Switch!Files, SwitchOK
<1>13. ASSUME NEW t \in Threads, Switch!Applied(t) PROVE SwitchOK'
  BY <1>1, <1>13 DEF Switch!Applied, Switch!Places, SwitchOK
<1>14. ASSUME NEW t \in Threads, Switch!Refresh(t) PROVE SwitchOK'
  BY <1>3, <1>14 DEF Switch!Refresh, SwitchOK
<1>15. ASSUME NEW t \in Threads, Switch!LoadConfig(t) PROVE SwitchOK'
  BY <1>1, <1>2, <1>15 DEF Switch!LoadConfig, Switch!Places, SwitchOK
<1>16. ASSUME NEW t \in Threads, Switch!StoreConfig(t) PROVE SwitchOK'
  BY <1>1, <1>2, <1>16 DEF Switch!StoreConfig, Switch!Places, SwitchOK
<1>17. CASE Switch!Start
  BY <1>1, <1>17 DEF Switch!Start, Switch!Places, Switch!Threads, SwitchOK
<1>18. CASE Switch!Die
  BY <1>18 DEF Switch!Die, Switch!Places, SwitchOK
<1>19. ASSUME NEW d \in Domains, NEW f \in Switch!Files, Switch!EditFile(d, f) PROVE SwitchOK'
  BY <1>19 DEF Switch!EditFile, Switch!calls, SwitchOK
<1>20. CASE UNCHANGED Switch!vars
  BY <1>20 DEF Switch!vars, Switch!calls, SwitchOK
<1>21. QED BY <1>5, <1>6, <1>7, <1>8, <1>9, <1>10, <1>11, <1>12, <1>13, <1>14, <1>15, <1>16, <1>17,
              <1>18, <1>19, <1>20 DEF Switch!Next, Switch!ApplyResolvers
\* Only one goroutine moves in a step, and one that leaves its place is in a call, unless it begins one.
LEMMA Moves ==
    ASSUME SwitchOK, [Switch!Next]_(Switch!vars)
    PROVE  \/ UNCHANGED <<up, at, overlapped>>
           \/ \E t \in Threads : /\ at[t] # "idle" /\ UNCHANGED <<up, overlapped>>
                                 /\ \A u \in Threads \ {t} : at'[u] = at[u]
           \/ \E t \in Threads : /\ up /\ up' /\ (overlapped' <=> overlapped \/ ~Switch!Idle)
                                 /\ \A u \in Threads \ {t} : at'[u] = at[u]
           \/ \E t \in Threads : /\ ~up /\ up' /\ (overlapped' <=> overlapped)
                                 /\ \A u \in Threads \ {t} : at'[u] = at[u]
           \/ ~up' /\ \A t \in Threads : at'[t] = "idle"
<1> USE DEF Threads
<1>1. ASSUME NEW t \in Threads, NEW p, Switch!Goto(t, p) PROVE \A u \in Threads \ {t} : at'[u] = at[u]
  BY <1>1 DEF Switch!Goto, SwitchOK
<1>2. ASSUME NEW t \in Threads, Switch!Return(t) PROVE \A u \in Threads \ {t} : at'[u] = at[u]
  BY <1>1, <1>2 DEF Switch!Return
<1>3. ASSUME NEW t \in Threads, Switch!Answer(t) PROVE \A u \in Threads \ {t} : at'[u] = at[u]
  BY <1>2, <1>3 DEF Switch!Answer
<1>4. \A t \in Callers : t \in Threads
  BY DEF Switch!Threads
<1>5. ASSUME NEW t \in Callers, Switch!CallReload(t) \/ \E on \in BOOLEAN : Switch!CallSetPaused(t, on)
      PROVE  /\ up /\ up' /\ (overlapped' <=> overlapped \/ ~Switch!Idle)
             /\ \A u \in Threads \ {t} : at'[u] = at[u]
  <2>1. Switch!Free(t) /\ up' = up
    BY <1>5 DEF Switch!CallReload, Switch!CallSetPaused
  <2>2. up /\ up' /\ (overlapped' <=> overlapped \/ ~Switch!Idle)
    BY <2>1, Zenon DEF Switch!Free
  <2>3. \A u \in Threads \ {t} : at'[u] = at[u]
    BY <1>1, <1>4, <1>5 DEF Switch!CallReload, Switch!CallSetPaused
  <2>4. QED BY <2>2, <2>3
<1>6. ASSUME NEW t \in Threads, Switch!WritePaused(t) \/ Switch!LoadConfig(t) \/ Switch!StoreConfig(t)
      PROVE  /\ at[t] # "idle" /\ UNCHANGED <<up, overlapped>>
             /\ \A u \in Threads \ {t} : at'[u] = at[u]
  BY <1>1, <1>2, <1>6 DEF Switch!WritePaused, Switch!LoadConfig, Switch!StoreConfig
<1>7. ASSUME NEW t \in Threads, Switch!ApplyResolvers(t)
      PROVE  /\ at[t] # "idle" /\ UNCHANGED <<up, overlapped>>
             /\ \A u \in Threads \ {t} : at'[u] = at[u]
  BY <1>1, <1>3, <1>7 DEF Switch!ApplyResolvers, Switch!ReadConfig, Switch!ReadSwitch, Switch!Prune,
       Switch!Applied, Switch!Refresh, Switch!ApplyFile, Switch!RemoveFile
<1>8. CASE Switch!Start
  BY <1>1, <1>8 DEF Switch!Start, Switch!Threads
<1>9. CASE Switch!Die
  BY <1>9 DEF Switch!Die
<1>10. CASE \E d \in Domains, f \in Switch!Files : Switch!EditFile(d, f)
  BY <1>10 DEF Switch!EditFile, Switch!calls
<1>11. CASE UNCHANGED Switch!vars
  BY <1>11 DEF Switch!vars, Switch!calls
<1>12. QED
  BY <1>4, <1>5, <1>6, <1>7, <1>8, <1>9, <1>10, <1>11 DEF Switch!Next

\* The daemon dies out of its calls, and calls that do not overlap stay one at a time.
LEMMA LoneStep == SwitchOK /\ Lone /\ [Switch!Next]_(Switch!vars) => Lone'
<1> SUFFICES ASSUME SwitchOK, Lone, [Switch!Next]_(Switch!vars) PROVE Lone'
  OBVIOUS
<1> USE DEF Threads
<1>1. CASE UNCHANGED <<up, at, overlapped>>
  BY <1>1 DEF Lone, Switch!Idle
<1>2. ASSUME NEW t \in Threads, at[t] # "idle", UNCHANGED <<up, overlapped>>,
             \A u \in Threads \ {t} : at'[u] = at[u]
      PROVE  Lone'
  BY <1>2 DEF Lone, Switch!Idle
<1>3. ASSUME NEW t \in Threads, up', Switch!Idle \/ overlapped',
             \A u \in Threads \ {t} : at'[u] = at[u]
      PROVE  Lone'
  BY <1>3 DEF Lone, Switch!Idle
<1>4. CASE ~up' /\ \A t \in Threads : at'[t] = "idle"
  BY <1>4 DEF Lone, Switch!Idle
<1>5. QED BY <1>1, <1>2, <1>3, <1>4, Moves DEF Lone
\* What a call is about to remove is listed after the last edit, and nobody but an edit makes a
\* file an administrator's.
LEMMA OursStep == SwitchOK /\ Ours /\ [Switch!Next]_(Switch!vars) => Ours'
<1> SUFFICES ASSUME SwitchOK, Ours, [Switch!Next]_(Switch!vars), ~touched' PROVE Ours'
  BY DEF Ours
<1> USE DEF Threads
<1>1. ASSUME ~touched, NEW t \in Threads, UNCHANGED dir, \A u \in Threads \ {t} : at'[u] = at[u] /\ todo'[u] = todo[u],
             at'[t] \in {"prune", "remove"} => \A d \in todo'[t] : dir[d].owner # "admin"
      PROVE  Ours'
  BY <1>1 DEF Ours
<1>2. ASSUME ~touched, NEW t \in Threads, UNCHANGED <<dir, todo>>, NEW p,
             p \notin {"prune", "remove"}, at' = [at EXCEPT ![t] = p]
      PROVE  Ours'
  <2>1. at'[t] = p /\ \A u \in Threads \ {t} : at'[u] = at[u]
    BY <1>2 DEF SwitchOK
  <2>2. QED BY <1>1, <1>2, <2>1
<1>3. ASSUME ~touched, UNCHANGED <<dir, todo, at>> PROVE Ours'
  BY <1>3 DEF Ours
<1>4. \A t \in Callers : t \in Threads
  BY DEF Switch!Threads
<1>5. ASSUME NEW t \in Callers, Switch!CallReload(t) PROVE Ours'
  BY <1>2, <1>4, <1>5 DEF Switch!CallReload, Switch!Goto
<1>6. ASSUME NEW t \in Callers, NEW on \in BOOLEAN, Switch!CallSetPaused(t, on) PROVE Ours'
  BY <1>2, <1>3, <1>4, <1>6 DEF Switch!CallSetPaused, Switch!Goto
<1>7. ASSUME NEW t \in Threads, Switch!WritePaused(t) PROVE Ours'
  BY <1>2, <1>7 DEF Switch!WritePaused, Switch!Goto
<1>8. ASSUME NEW t \in Threads, Switch!ReadConfig(t) PROVE Ours'
  <2>1. at' = [at EXCEPT ![t] = "switch"] /\ UNCHANGED <<dir, todo>>
    BY <1>8 DEF Switch!ReadConfig, Switch!Goto
  <2>2. ~touched \/ \A u \in Threads \ {t} : at[u] = "idle"
    BY <1>8 DEF Switch!ReadConfig
  <2>3. CASE \A u \in Threads \ {t} : at[u] = "idle"
    BY <2>1, <2>3 DEF Ours, SwitchOK
  <2>4. QED BY <1>2, <2>1, <2>2, <2>3
<1>9. ASSUME NEW t \in Threads, Switch!ReadSwitch(t) \/ Switch!Prune(t) PROVE Ours'
  <2>1. /\ ~touched /\ UNCHANGED dir /\ \A u \in Threads \ {t} : at'[u] = at[u] /\ todo'[u] = todo[u]
        /\ at'[t] \in {"prune", "remove"} => todo'[t] \subseteq Switch!Managed
    BY <1>9 DEF Switch!ReadSwitch, Switch!Prune, Switch!Goto, SwitchOK
  <2>2. \A d \in Switch!Managed : dir[d].owner # "admin"
    BY DEF Switch!Managed
  <2>3. QED BY <1>1, <2>1, <2>2
<1>10. ASSUME NEW t \in Threads, NEW d \in Domains, Switch!ApplyFile(t, d) PROVE Ours'
  <2>1. /\ ~touched /\ UNCHANGED at /\ \A u \in Threads : todo'[u] \subseteq todo[u]
        /\ \A e \in Domains : dir'[e] = dir[e] \/ dir'[e].owner = "vpnctl"
    BY <1>10 DEF Switch!ApplyFile, Switch!Written, SwitchOK
  <2>2. QED BY <2>1 DEF Ours, SwitchOK
<1>11. ASSUME NEW t \in Threads, NEW d \in Domains, Switch!RemoveFile(t, d) PROVE Ours'
  <2>1. /\ ~touched /\ \A u \in Threads : todo'[u] \subseteq todo[u] /\ at'[u] \in {at[u], "idle"}
        /\ \A e \in Domains : dir'[e] = dir[e] \/ dir'[e].owner = "none"
    BY <1>11 DEF Switch!RemoveFile, Switch!Answer, Switch!Return, Switch!Goto, Switch!Absent, SwitchOK
  <2>2. QED BY <2>1 DEF Ours, SwitchOK
<1>12. ASSUME NEW t \in Threads, Switch!Applied(t) PROVE Ours'
  BY <1>2, <1>12 DEF Switch!Applied, Switch!Goto
<1>13. ASSUME NEW t \in Threads, Switch!Refresh(t) PROVE Ours'
  BY <1>2, <1>13 DEF Switch!Refresh, Switch!Answer, Switch!Return, Switch!Goto
<1>14. ASSUME NEW t \in Threads, Switch!LoadConfig(t) PROVE Ours'
  BY <1>2, <1>14 DEF Switch!LoadConfig, Switch!Return, Switch!Goto
<1>15. ASSUME NEW t \in Threads, Switch!StoreConfig(t) PROVE Ours'
  BY <1>2, <1>15 DEF Switch!StoreConfig, Switch!Return, Switch!Goto
<1>16. CASE Switch!Start
  BY <1>2, <1>16 DEF Switch!Start, Switch!Goto, Switch!Threads
<1>17. CASE Switch!Die
  BY <1>17 DEF Switch!Die, Ours
<1>18. ASSUME NEW d \in Domains, NEW f \in Switch!Files, Switch!EditFile(d, f) PROVE Ours'
  BY <1>18 DEF Switch!EditFile
<1>19. CASE UNCHANGED Switch!vars
  BY <1>3, <1>19 DEF Switch!vars, Switch!calls
<1>20. QED BY <1>5, <1>6, <1>7, <1>8, <1>9, <1>10, <1>11, <1>12, <1>13, <1>14, <1>15, <1>16, <1>17,
              <1>18, <1>19 DEF Switch!Next, Switch!ApplyResolvers

\* Before the daemon's first start.
LEMMA SwitchFirst == Switch!Init => SwitchOK /\ Lone /\ Ours /\ Followed
BY DEF Switch!Init, SwitchOK, Lone, Ours, Followed, Switch!Idle, Switch!Files, Switch!Places, Threads

\* For any callers, suffixes, addresses and configurations: a resolver somebody else wrote before
\* the call is never removed, and never overwritten while it sends its suffix elsewhere.
THEOREM ForeignAlwaysKept == Switch!Spec => ForeignKept
<1>1. SwitchOK /\ Ours =>
        \A t \in Switch!Threads, d \in Domains :
            ~touched /\ dir[d].owner = "admin" /\ dir'[d] # dir[d] /\ Switch!ApplyResolvers(t) =>
                dir[d].to = conf[t].listen /\ dir'[d] = Switch!Written(conf[t])
  <2> SUFFICES ASSUME SwitchOK, Ours, NEW t \in Switch!Threads, NEW d \in Domains,
                      ~touched, dir[d].owner = "admin", dir'[d] # dir[d], Switch!ApplyResolvers(t)
               PROVE  dir[d].to = conf[t].listen /\ dir'[d] = Switch!Written(conf[t])
    OBVIOUS
  <2>1. CASE UNCHANGED dir
    BY <2>1
  <2>2. ASSUME NEW e \in Domains, Switch!ApplyFile(t, e)
        PROVE  dir[d].to = conf[t].listen /\ dir'[d] = Switch!Written(conf[t])
    BY <2>2 DEF Switch!ApplyFile, Switch!Takes, SwitchOK
  <2>3. ASSUME NEW e \in Domains, Switch!RemoveFile(t, e) PROVE FALSE
    BY <2>3 DEF Switch!RemoveFile, Ours, SwitchOK, Threads
  <2>4. QED
    BY <2>1, <2>2, <2>3 DEF Switch!ApplyResolvers, Switch!ReadConfig, Switch!ReadSwitch, Switch!Prune,
                            Switch!Applied, Switch!Refresh
<1>2. QED
  BY <1>1, SwitchFirst, SwitchSteps, OursStep, PTL DEF Switch!Spec, ForeignKept, Switch!ForeignKept
\* Which call the pause file waits for, step by step: those that pause or resume ...
LEMMA RememberedPauses ==
    ASSUME SwitchOK, Lone, Remembered, NEW t \in Threads, NEW on \in BOOLEAN,
           Switch!CallSetPaused(t, on) \/ Switch!WritePaused(t)
    PROVE  Remembered'
<1> USE DEF Threads
<1>1. CASE Switch!CallSetPaused(t, on) /\ paused = on
  <2>1. /\ up /\ UNCHANGED <<up, pauseFile, paused, at, want>>
        /\ promised' = IF Switch!Pausing \/ promised = "mixed" THEN "mixed" ELSE Switch!Call(on)
    BY <1>1 DEF Switch!CallSetPaused, Switch!Free
  <2>2. CASE Switch!Pausing \/ promised = "mixed"
    BY <2>1, <2>2 DEF Remembered
  <2>3. CASE ~Switch!Pausing /\ promised # "mixed"
    <3>1. promised \in {"pause", "resume"}
      BY <2>1, <2>3 DEF Remembered, Switch!Pausing, Switch!Call
    <3>2. promised' = promised
      BY <1>1, <2>1, <2>3, <3>1 DEF Remembered
    <3>3. QED BY <2>1, <3>2 DEF Remembered
  <2>4. QED BY <2>2, <2>3
<1>2. CASE Switch!CallSetPaused(t, on) /\ paused # on
  <2>1. /\ up /\ UNCHANGED <<up, pauseFile>> /\ paused' = on /\ at[t] = "idle"
        /\ promised' = IF Switch!Pausing THEN "mixed" ELSE "open"
        /\ at'[t] = "write" /\ want'[t] = Switch!Call(on)
        /\ \A u \in Threads \ {t} : at'[u] = at[u] /\ want'[u] = want[u]
    BY <1>2 DEF Switch!CallSetPaused, Switch!Free, Switch!Goto, SwitchOK
  <2>2. Switch!Call(on) # "none"
    BY DEF Switch!Call
  <2>3. CASE Switch!Pausing
    BY <2>1, <2>2, <2>3 DEF Remembered
  <2>4. CASE ~Switch!Pausing
    BY <2>1, <2>2, <2>4 DEF Remembered, Switch!Pausing
  <2>5. QED BY <2>3, <2>4
<1>3. CASE Switch!WritePaused(t)
  <2>1. /\ UNCHANGED <<up, paused, want, promised>> /\ at[t] = "write" /\ pauseFile' = (want[t] = "pause")
        /\ at'[t] = "config" /\ \A u \in Threads \ {t} : at'[u] = at[u]
    BY <1>3 DEF Switch!WritePaused, Switch!Goto, SwitchOK
  <2>2. want[t] # "none" /\ promised \notin {"pause", "resume"}
    BY <2>1 DEF Remembered
  <2>3. up
    BY <2>1 DEF Lone, Switch!Idle
  <2>4. ASSUME promised = "open" PROVE want[t] = Switch!Call(paused) /\ pauseFile' = paused
    <3>1. want[t] = Switch!Call(paused)
      BY <2>2, <2>3, <2>4 DEF Remembered
    <3>2. CASE paused = TRUE
      BY <2>1, <3>1, <3>2 DEF Switch!Call
    <3>3. CASE paused = FALSE
      BY <2>1, <3>1, <3>3 DEF Switch!Call
    <3>4. QED BY <3>1, <3>2, <3>3 DEF SwitchOK
  <2>5. QED BY <2>1, <2>2, <2>4 DEF Remembered
<1>4. QED BY <1>1, <1>2, <1>3

\* ... and all other steps.
LEMMA RememberedStep == SwitchOK /\ Lone /\ Remembered /\ [Switch!Next]_(Switch!vars) => Remembered'
<1> SUFFICES ASSUME SwitchOK, Lone, Remembered, [Switch!Next]_(Switch!vars) PROVE Remembered'
  OBVIOUS
<1> USE DEF Threads
<1>1. ASSUME NEW t \in Threads, NEW p \in Switch!Places, at' = [at EXCEPT ![t] = p], at[t] # "write", p # "write",
             p \in {"idle", "load", "swap", "store"} => want[t] = "none",
             UNCHANGED <<up, paused, pauseFile, want, promised>>
      PROVE  Remembered'
  <2>1. at'[t] = p /\ \A u \in Threads \ {t} : at'[u] = at[u]
    BY <1>1 DEF SwitchOK
  <2>2. \A u \in Threads : at'[u] = "write" <=> at[u] = "write"
    BY <1>1, <2>1
  <2>3. QED BY <1>1, <2>1, <2>2 DEF Remembered
<1>2. ASSUME UNCHANGED <<up, paused, pauseFile, want, promised, at>> PROVE Remembered'
  BY <1>2 DEF Remembered
<1>3. \A t \in Callers : t \in Threads
  BY DEF Switch!Threads
<1>4. ASSUME NEW t \in Threads, Switch!Answer(t), at[t] # "write", up, UNCHANGED <<up, paused, pauseFile>>
      PROVE  Remembered'
  <2>1. /\ at'[t] = "idle" /\ want'[t] = "none"
        /\ \A u \in Threads \ {t} : at'[u] = at[u] /\ want'[u] = want[u]
        /\ promised' = IF promised = "open" /\ want[t] # "none" THEN want[t] ELSE promised
    BY <1>4 DEF Switch!Answer, Switch!Return, Switch!Goto, SwitchOK
  <2>2. CASE promised = "open" /\ want[t] # "none"
    <3>1. /\ want[t] = Switch!Call(paused) /\ pauseFile = paused
          /\ \A u \in Threads \ {t} : want[u] = "none"
      BY <1>4, <2>2 DEF Remembered
    <3>2. QED BY <1>4, <2>1, <2>2, <3>1 DEF Remembered, Switch!Call
  <2>3. CASE promised = "open" /\ want[t] = "none"
    BY <1>4, <2>1, <2>3 DEF Remembered, Switch!Call
  <2>4. CASE promised # "open"
    BY <1>4, <2>1, <2>4 DEF Remembered
  <2>5. QED BY <2>2, <2>3, <2>4
<1>5. ASSUME NEW t \in Callers, Switch!CallReload(t) PROVE Remembered'
  BY <1>1, <1>3, <1>5 DEF Switch!CallReload, Switch!Free, Switch!Goto, Switch!Places, Remembered
<1>6. ASSUME NEW t \in Threads, Switch!ReadConfig(t) \/ Switch!ReadSwitch(t) \/ Switch!Prune(t) \/ Switch!Applied(t)
      PROVE  Remembered'
  BY <1>1, <1>6 DEF Switch!ReadConfig, Switch!ReadSwitch, Switch!Prune, Switch!Applied, Switch!Goto, Switch!Places
<1>7. ASSUME NEW t \in Threads, NEW d \in Domains, Switch!ApplyFile(t, d) PROVE Remembered'
  BY <1>2, <1>7 DEF Switch!ApplyFile
<1>8. ASSUME NEW t \in Threads, NEW d \in Domains, Switch!RemoveFile(t, d) PROVE Remembered'
  <2>1. up /\ at[t] # "write" /\ UNCHANGED <<up, paused, pauseFile>>
    BY <1>8 DEF Switch!RemoveFile, Lone, Switch!Idle
  <2>2. Switch!Answer(t) \/ UNCHANGED <<at, want, promised>>
    BY <1>8 DEF Switch!RemoveFile
  <2>3. QED BY <1>2, <1>4, <2>1, <2>2
<1>9. ASSUME NEW t \in Threads, Switch!Refresh(t) PROVE Remembered'
  <2>1. up /\ at[t] # "write" /\ UNCHANGED <<up, paused, pauseFile>> /\ Switch!Answer(t)
    BY <1>9 DEF Switch!Refresh, Lone, Switch!Idle
  <2>2. QED BY <1>4, <2>1
<1>10. ASSUME NEW t \in Threads, Switch!LoadConfig(t) PROVE Remembered'
  BY <1>1, <1>10 DEF Switch!LoadConfig, Switch!Return, Switch!Goto, Switch!Places, Remembered
<1>11. ASSUME NEW t \in Threads, Switch!StoreConfig(t) PROVE Remembered'
  BY <1>1, <1>11 DEF Switch!StoreConfig, Switch!Return, Switch!Goto, Switch!Places, Remembered
<1>12. CASE Switch!Start
  <2>1. /\ UNCHANGED <<pauseFile, want>> /\ paused' = pauseFile /\ promised' = Switch!Call(pauseFile) /\ ~up
        /\ Startup \in Threads /\ at'[Startup] = "config" /\ \A u \in Threads \ {Startup} : at'[u] = at[u]
    BY <1>12 DEF Switch!Start, Switch!Goto, Switch!Threads, SwitchOK
  <2>2. \A u \in Threads : want[u] = "none" /\ at[u] = "idle"
    BY <2>1 DEF Lone, Switch!Idle, Remembered
  <2>3. QED BY <2>1, <2>2 DEF Remembered, Switch!Call
<1>13. CASE Switch!Die
  BY <1>13 DEF Switch!Die, Remembered
<1>14. ASSUME NEW d \in Domains, NEW f \in Switch!Files, Switch!EditFile(d, f) PROVE Remembered'
  BY <1>2, <1>14 DEF Switch!EditFile, Switch!calls
<1>15. CASE UNCHANGED Switch!vars
  BY <1>2, <1>15 DEF Switch!vars, Switch!calls
<1>16. QED
  BY <1>3, <1>5, <1>6, <1>7, <1>8, <1>9, <1>10, <1>11, <1>12, <1>13, <1>14, <1>15, RememberedPauses
     DEF Switch!Next, Switch!ApplyResolvers

\* For any number of callers: a daemon starts with the switch where the last answered call put it,
\* unless an earlier one died inside a call or a pause and a resume had overlapped.
THEOREM PauseAlwaysSurvives == Switch!Spec => PauseSurvives
<1>1. Switch!Init => Remembered
  BY DEF Switch!Init, Remembered, Switch!Call, Threads
<1>2. Remembered => (Switch!Start => promised \in {"open", "mixed"} \/ promised = Switch!Call(paused'))
  BY DEF Remembered, Switch!Start
<1>3. QED
  BY <1>1, <1>2, SwitchFirst, SwitchSteps, LoneStep, RememberedStep, PTL
     DEF Switch!Spec, PauseSurvives, Switch!PauseSurvives
----------------------------------------------------------------------------
(* One call at a time brings the directory in line.                        *)

\* It is enough to look at the goroutine that moved: the others are in no call.
LEMMA OneMoves ==
    ASSUME SwitchOK', Lone, ~overlapped, NEW t \in Threads, at[t] # "idle",
           \A u \in Threads \ {t} : at'[u] = at[u],
           Stage(t)', at'[t] = "idle" => InLine'
    PROVE  Followed'
<1>1. \A u \in Threads \ {t} : at'[u] = "idle"
  BY DEF Lone
<1>2. \A u \in Threads \ {t} : Stage(u)'
  BY <1>1 DEF Stage
<1>3. Switch!Idle' => InLine'
  BY DEF Switch!Idle, Threads
<1>4. QED BY <1>2, <1>3 DEF Followed

\* A call begins when there is none, and everything is in line.
LEMMA Begins ==
    ASSUME SwitchOK, SwitchOK', NEW t \in Threads, Switch!Idle,
           \A u \in Threads \ {t} : at'[u] = at[u], at'[t] # "idle", Stage(t)'
    PROVE  Followed'
<1>1. \A u \in Threads \ {t} : at'[u] = "idle"
  BY DEF Switch!Idle, Threads
<1>2. \A u \in Threads \ {t} : Stage(u)'
  BY <1>1 DEF Stage
<1>3. ~Switch!Idle'
  BY DEF Switch!Idle, Threads
<1>4. QED BY <1>2, <1>3 DEF Followed

\* Apply and RemoveAll, file by file.
LEMMA FileStep ==
    ASSUME SwitchOK, SwitchOK', Lone, Followed, up, ~touched, ~overlapped,
           NEW t \in Threads, NEW d \in Domains, Switch!ApplyFile(t, d) \/ Switch!RemoveFile(t, d)
    PROVE  Followed'
<1>1. Stage(t) /\ UNCHANGED <<paused, cfg>> /\ at[t] # "idle" /\ d \in todo[t]
  BY DEF Followed, Switch!ApplyFile, Switch!RemoveFile
<1>2. cfg.enabled \subseteq Domains
  BY FilesAssumption DEF SwitchOK, Switch!PauseAssumption
<1>3. CASE Switch!ApplyFile(t, d)
  <2>1. /\ at[t] = "apply" /\ UNCHANGED <<at, conf>> /\ conf[t] = cfg /\ todo'[t] = todo[t] \ {d}
        /\ \A e \in Domains \ {d} : dir'[e] = dir[e]
        /\ dir'[d] = IF Switch!Takes(dir[d], cfg) THEN Switch!Written(cfg) ELSE dir[d]
    BY <1>1, <1>3 DEF Switch!ApplyFile, Stage, SwitchOK
  <2>2. Right(d)'
    BY <1>1, <2>1 DEF Right, Switch!Takes, Switch!Written
  <2>3. \A e \in cfg.enabled \ todo[t] : Right(e)'
    BY <1>1, <1>2, <2>1, <2>2 DEF Stage, Right, Switch!Written
  <2>4. Stage(t)'
    BY <1>1, <2>1, <2>2, <2>3 DEF Stage
  <2>5. QED BY <1>1, <2>1, <2>4, OneMoves
<1>4. CASE Switch!RemoveFile(t, d)
  <2>1. /\ at[t] \in {"prune", "remove"} /\ conf[t] = cfg /\ (d \in Switch!Managed \/ at[t] = "remove")
        /\ \A e \in Domains \ {d} : dir'[e] = dir[e]
        /\ dir'[d].owner = "none"
    BY <1>1, <1>4 DEF Switch!RemoveFile, Switch!Absent, Stage, SwitchOK
  <2>2. /\ at' = at /\ UNCHANGED conf /\ todo'[t] = todo[t] \ {d}
    BY <1>1, <1>4, <2>1 DEF Switch!RemoveFile, Switch!Absent, Switch!Managed, Stage, SwitchOK
  <2>3. Switch!Managed' = Switch!Managed \ {d}
    BY <1>1, <2>1, <1>4 DEF Switch!Managed, SwitchOK
  <2>4. CASE at[t] = "prune"
    <3>1. d \notin cfg.enabled /\ conf[t] = cfg
      BY <1>1, <2>4 DEF Stage
    <3>2. \A e \in cfg.enabled \ todo'[t] : Right(e)'
      BY <1>1, <1>2, <2>1, <2>2, <2>4, <3>1 DEF Stage, Right, Switch!Written
    <3>3. Stage(t)'
      BY <1>1, <2>2, <2>3, <2>4, <3>1, <3>2 DEF Stage
    <3>4. QED BY <1>1, <2>2, <2>4, <3>3, OneMoves
  <2>5. CASE at[t] = "remove"
    <3>1. Stage(t)'
      BY <1>1, <2>2, <2>3, <2>5 DEF Stage
    <3>2. QED BY <1>1, <2>2, <2>5, <3>1, OneMoves
  <2>6. QED BY <1>4, <2>4, <2>5 DEF Switch!RemoveFile
<1>5. QED BY <1>3, <1>4
\* Reload, which applies the resolvers only when that would change something.
LEMMA ReloadStep ==
    ASSUME SwitchOK, SwitchOK', Lone, Followed, up, ~touched, ~overlapped, NEW t \in Threads,
           Switch!LoadConfig(t) \/ Switch!StoreConfig(t)
    PROVE  Followed'
<1>1. Stage(t) /\ at[t] # "idle" /\ UNCHANGED <<paused, dir, shown>>
  BY DEF Followed, Switch!LoadConfig, Switch!StoreConfig
<1>2. \A u \in Threads \ {t} : at'[u] = at[u]
  BY DEF Switch!LoadConfig, Switch!StoreConfig, Switch!Return, Switch!Goto, SwitchOK
<1>3. CASE Switch!LoadConfig(t)
  <2>1. at[t] = "load" /\ conf[t] = cfg /\ InLine /\ UNCHANGED cfg
    BY <1>1, <1>3 DEF Switch!LoadConfig, Stage
  <2>2. InLine'
    BY <1>1, <2>1 DEF InLine, Switch!Agrees, Switch!States, Switch!Managed, Switch!Written
  <2>3. CASE Switch!Return(t)
    <3>1. at'[t] = "idle"
      BY <2>3 DEF Switch!Return, Switch!Goto, SwitchOK
    <3>2. Stage(t)'
      BY <3>1 DEF Stage
    <3>3. QED BY <1>1, <1>2, <2>2, <3>2, OneMoves
  <2>4. ASSUME NEW c \in Configs, conf' = [conf EXCEPT ![t] = c],
               Switch!Goto(t, IF Switch!NeedsApply(conf[t], c) THEN "store" ELSE "swap")
        PROVE  Followed'
    <3>1. at'[t] = (IF Switch!NeedsApply(cfg, c) THEN "store" ELSE "swap") /\ conf'[t] = c
      BY <2>1, <2>4 DEF Switch!Goto, SwitchOK
    <3>2. ~Switch!NeedsApply(cfg, c) => c = cfg
      BY FilesAssumption DEF Switch!NeedsApply, Switch!PauseAssumption, SwitchOK
    <3>3. Stage(t)'
      BY <2>1, <2>2, <3>1, <3>2 DEF Stage
    <3>4. QED BY <1>1, <1>2, <3>1, <3>3, OneMoves
  <2>5. QED BY <1>3, <2>3, <2>4 DEF Switch!LoadConfig
<1>4. CASE Switch!StoreConfig(t)
  <2>1. CASE at[t] = "store"
    <3>1. at'[t] = "config"
      BY <1>4, <2>1 DEF Switch!StoreConfig, Switch!Goto, SwitchOK
    <3>2. Stage(t)'
      BY <3>1 DEF Stage
    <3>3. QED BY <1>1, <1>2, <3>1, <3>2, OneMoves
  <2>2. CASE at[t] = "swap"
    <3>1. at'[t] = "idle" /\ cfg' = cfg /\ InLine
      BY <1>1, <1>4, <2>2 DEF Switch!StoreConfig, Switch!Return, Switch!Goto, Stage, SwitchOK
    <3>2. InLine' /\ Stage(t)'
      BY <1>1, <3>1 DEF InLine, Switch!Agrees, Switch!States, Switch!Managed, Switch!Written, Stage
    <3>3. QED BY <1>1, <1>2, <3>2, OneMoves
  <2>3. QED BY <1>4, <2>1, <2>2 DEF Switch!StoreConfig
<1>5. QED BY <1>3, <1>4

\* SetPaused up to the apply, and the steps of the apply between the files.
LEMMA ApplyStep ==
    ASSUME SwitchOK, SwitchOK', Lone, Followed, up, ~touched', ~overlapped, NEW t \in Threads,
           \/ Switch!WritePaused(t) \/ Switch!ReadConfig(t) \/ Switch!ReadSwitch(t) \/ Switch!Prune(t)
           \/ Switch!Applied(t) \/ Switch!Refresh(t)
    PROVE  Followed'
<1>1. at[t] # "idle" /\ UNCHANGED <<paused, cfg, dir>>
  BY DEF Switch!WritePaused, Switch!ReadConfig, Switch!ReadSwitch, Switch!Prune, Switch!Applied, Switch!Refresh
<1>2. \A u \in Threads \ {t} : at'[u] = at[u]
  BY DEF Switch!WritePaused, Switch!ReadConfig, Switch!ReadSwitch, Switch!Prune, Switch!Applied,
         Switch!Refresh, Switch!Answer, Switch!Return, Switch!Goto, SwitchOK
<1>3. Switch!Managed' = Switch!Managed /\ \A d : Right(d)' <=> Right(d)
  BY <1>1 DEF Switch!Managed, Right, Switch!Written
<1>4. CASE Switch!WritePaused(t)
  <2>1. at'[t] = "config"
    BY <1>4 DEF Switch!WritePaused, Switch!Goto, SwitchOK
  <2>2. QED BY <1>1, <1>2, <2>1, OneMoves DEF Stage
<1>5. CASE Switch!ReadConfig(t)
  <2>1. at'[t] = "switch" /\ conf'[t] = cfg
    BY <1>5 DEF Switch!ReadConfig, Switch!Goto, SwitchOK
  <2>2. Stage(t)'
    BY <1>1, <2>1 DEF Stage
  <2>3. QED BY <1>1, <1>2, <2>1, <2>2, OneMoves
<1>6. ASSUME Switch!ReadSwitch(t) \/ Switch!Prune(t) \/ Switch!Applied(t) \/ Switch!Refresh(t)
      PROVE  Stage(t) /\ conf[t] = cfg
  BY <1>6 DEF Followed, Stage, Switch!ReadSwitch, Switch!Prune, Switch!Applied, Switch!Refresh
<1>7. CASE Switch!ReadSwitch(t)
  <2>1. /\ at'[t] = (IF paused THEN "remove" ELSE "apply") /\ conf' = conf
        /\ todo'[t] = IF paused THEN Switch!Managed ELSE cfg.enabled
    BY <1>6, <1>7 DEF Switch!ReadSwitch, Switch!Goto, SwitchOK
  <2>2. Stage(t)'
    BY <1>1, <1>3, <1>6, <1>7, <2>1 DEF Stage
  <2>3. QED BY <1>1, <1>2, <2>1, <2>2, OneMoves
<1>8. CASE Switch!Prune(t)
  <2>1. /\ at[t] = "apply" /\ todo[t] = {} /\ at'[t] = "prune" /\ conf' = conf
        /\ todo'[t] = Switch!Managed \ cfg.enabled
    BY <1>6, <1>8 DEF Switch!Prune, Switch!Goto, SwitchOK
  <2>2. Stage(t)'
    BY <1>1, <1>3, <1>6, <1>8, <2>1 DEF Stage
  <2>3. QED BY <1>1, <1>2, <2>1, <2>2, OneMoves
<1>9. CASE Switch!Applied(t)
  <2>1. at[t] \in {"prune", "remove"} /\ todo[t] = {} /\ at'[t] = "refresh" /\ conf' = conf
    BY <1>9 DEF Switch!Applied, Switch!Goto, SwitchOK
  <2>2. Switch!Agrees
    BY <1>6, <1>9, <2>1 DEF Stage, Right, Switch!Agrees
  <2>3. Switch!Agrees'
    BY <1>1, <2>2 DEF Switch!Agrees, Switch!Managed, Switch!Written
  <2>4. Stage(t)'
    BY <1>1, <1>6, <1>9, <2>1, <2>3 DEF Stage
  <2>5. QED BY <1>1, <1>2, <2>1, <2>4, OneMoves
<1>10. CASE Switch!Refresh(t)
  <2>1. at[t] = "refresh" /\ at'[t] = "idle" /\ shown' = Switch!States(cfg)
    BY <1>10 DEF Switch!Refresh, Switch!Answer, Switch!Return, Switch!Goto, SwitchOK
  <2>2. InLine' /\ Stage(t)'
    BY <1>1, <1>6, <1>10, <2>1 DEF Stage, InLine, Switch!Agrees, Switch!Managed, Switch!Written, Switch!States
  <2>3. QED BY <1>1, <1>2, <2>2, OneMoves
<1>11. QED BY <1>4, <1>5, <1>7, <1>8, <1>9, <1>10

\* Every step, while no two calls have overlapped and nobody has edited a file.
LEMMA FollowedStep == SwitchOK /\ Lone /\ Followed /\ [Switch!Next]_(Switch!vars) => Followed'
<1> SUFFICES ASSUME SwitchOK, Lone, Followed, [Switch!Next]_(Switch!vars), up', ~touched', ~overlapped'
             PROVE  Followed'
  BY DEF Followed
<1>1. SwitchOK'
  BY SwitchSteps
<1> USE DEF Threads
<1>2. \A t \in Callers : t \in Threads
  BY DEF Switch!Threads
<1>3. ASSUME NEW t \in Callers, Switch!CallReload(t) PROVE Followed'
  <2>1. Switch!Free(t) /\ UNCHANGED <<up, touched, paused, cfg, dir, shown>>
    BY <1>3 DEF Switch!CallReload
  <2>2. up /\ ~touched /\ ~overlapped /\ Switch!Idle
    BY <2>1, Zenon DEF Switch!Free
  <2>3. InLine
    BY <2>2 DEF Followed
  <2>4. InLine'
    BY <2>1, <2>3 DEF InLine, Switch!Agrees, Switch!Managed, Switch!Written, Switch!States
  <2>5. at'[t] = "load" /\ conf'[t] = cfg /\ \A u \in Threads \ {t} : at'[u] = at[u]
    BY <1>2, <1>3 DEF Switch!CallReload, Switch!Goto, SwitchOK
  <2>6. Stage(t)'
    BY <2>1, <2>4, <2>5 DEF Stage
  <2>7. QED BY <1>1, <1>2, <2>2, <2>5, <2>6, Begins
<1>4. ASSUME NEW t \in Callers, NEW on \in BOOLEAN, Switch!CallSetPaused(t, on) PROVE Followed'
  <2>1. Switch!Free(t) /\ UNCHANGED <<up, touched, cfg, dir, shown, conf, todo>>
    BY <1>4 DEF Switch!CallSetPaused
  <2>2. up /\ ~touched /\ ~overlapped /\ Switch!Idle
    BY <2>1, Zenon DEF Switch!Free
  <2>3. CASE UNCHANGED <<paused, at>>
    BY <2>1, <2>2, <2>3 DEF Followed, Stage, InLine, Right, Switch!Agrees, Switch!Managed, Switch!Written,
                            Switch!States, Switch!Idle
  <2>4. CASE at' = [at EXCEPT ![t] = "write"]
    <3>1. at'[t] = "write" /\ \A u \in Threads \ {t} : at'[u] = at[u]
      BY <1>2, <2>4 DEF SwitchOK
    <3>2. Stage(t)'
      BY <3>1 DEF Stage
    <3>3. QED BY <1>1, <1>2, <2>2, <3>1, <3>2, Begins
  <2>5. QED BY <1>4, <2>3, <2>4 DEF Switch!CallSetPaused, Switch!Goto
<1>5. ASSUME NEW t \in Threads, Switch!WritePaused(t) \/ Switch!ApplyResolvers(t) PROVE Followed'
  <2>1. up /\ ~overlapped
    <3>1. up' = up /\ overlapped' = overlapped
      BY <1>5 DEF Switch!WritePaused, Switch!ApplyResolvers, Switch!ReadConfig, Switch!ReadSwitch, Switch!Prune,
                  Switch!Applied, Switch!Refresh, Switch!ApplyFile, Switch!RemoveFile
    <3>2. QED BY <3>1, Zenon
  <2>2. ASSUME NEW d \in Domains, Switch!ApplyFile(t, d) \/ Switch!RemoveFile(t, d) PROVE Followed'
    <3>1. ~touched
      BY <2>2 DEF Switch!ApplyFile, Switch!RemoveFile
    <3>2. QED BY <1>1, <2>1, <2>2, <3>1, FileStep
  <2>3. QED BY <1>1, <1>5, <2>1, <2>2, ApplyStep DEF Switch!ApplyResolvers
<1>6. ASSUME NEW t \in Threads, Switch!LoadConfig(t) \/ Switch!StoreConfig(t) PROVE Followed'
  <2>1. up /\ ~touched /\ ~overlapped
    <3>1. up' = up /\ touched' = touched /\ overlapped' = overlapped
      BY <1>6 DEF Switch!LoadConfig, Switch!StoreConfig
    <3>2. QED BY <3>1, Zenon
  <2>2. QED BY <1>1, <1>6, <2>1, ReloadStep
<1>7. CASE Switch!Start
  <2>1. Startup \in Threads /\ ~up
    BY <1>7 DEF Switch!Start, Switch!Threads
  <2>2. at'[Startup] = "config" /\ (\A u \in Threads \ {Startup} : at'[u] = at[u]) /\ Switch!Idle
    BY <1>7, <2>1 DEF Switch!Start, Switch!Goto, SwitchOK, Lone
  <2>3. Stage(Startup)'
    BY <2>2 DEF Stage
  <2>4. QED BY <1>1, <2>1, <2>2, <2>3, Begins
<1>8. CASE Switch!Die
  BY <1>8 DEF Switch!Die
<1>9. ASSUME NEW d \in Domains, NEW f \in Switch!Files, Switch!EditFile(d, f) PROVE Followed'
  BY <1>9 DEF Switch!EditFile
<1>10. CASE UNCHANGED Switch!vars
  BY <1>10 DEF Switch!vars, Switch!calls, Followed, Stage, InLine, Right, Switch!Agrees, Switch!Managed,
               Switch!Written, Switch!States, Switch!Idle
<1>11. QED BY <1>2, <1>3, <1>4, <1>5, <1>6, <1>7, <1>8, <1>9, <1>10 DEF Switch!Next

\* For any callers, suffixes, addresses and configurations: when no call is in progress, no two have
\* overlapped and no file was edited since an apply began, the directory is what the switch and the
\* live configuration ask for, and the status shows it.
THEOREM DirectoryAlwaysFollows == Switch!Spec => []DirectoryFollows
<1>1. Followed => DirectoryFollows
  BY DEF Followed, DirectoryFollows, Switch!DirectoryFollows, Switch!Settled, InLine
<1>2. QED
  BY <1>1, SwitchFirst, SwitchSteps, LoneStep, FollowedStep, PTL DEF Switch!Spec
=============================================================================
