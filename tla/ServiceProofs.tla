---------------------------- MODULE ServiceProofs ----------------------------
(***************************************************************************)
(* Type correctness of Service; and for any number of runs and             *)
(* configurations: outside runServiceOnce no goroutine of the service      *)
(* lives, and however Reloads overlap, a run on an older configuration has *)
(* its restart ahead of it, except where one of them hides the change.     *)
(***************************************************************************)
EXTENDS Service, TLAPS

\* Data keep their types over every step of the loop and of everybody else.
LEMMA DataStep == DataOK /\ [Next]_vars => DataOK'
<1> SUFFICES ASSUME DataOK, [Next]_vars PROVE DataOK'
  OBVIOUS
<1> USE DEF DataOK, loop, procs, env, reloads
<1>1. CASE ShutDown \/ HoldForPause \/ Resume
  BY <1>1, ServiceAssumption DEF ShutDown, HoldForPause, Resume
<1>2. ASSUME NEW r \in Runs, Serve(r) PROVE DataOK'
  BY <1>2 DEF Serve
<1>3. CASE Ends
  BY <1>3 DEF Ends
<1>4. ASSUME NEW w \in {"restart", "pause", "done"}, Interrupt(w) PROVE DataOK'
  BY <1>4 DEF Interrupt
<1>5. CASE Stopped \/ Again \/ PortInUse
  BY <1>5, ServiceAssumption DEF Stopped, Again, PortInUse
<1>6. CASE LeaveFailed \/ EnterBackoff \/ LeaveWaiting
  BY <1>6, ServiceAssumption DEF LeaveFailed, EnterBackoff, LeaveWaiting
<1>7. CASE LeaveBackoff
  BY <1>7, ServiceAssumption DEF LeaveBackoff, Doubled
<1>8. ASSUME NEW r \in Runs, Goroutine(r) \/ Fail(r) PROVE DataOK'
  BY <1>8 DEF Goroutine, Fail, ReadConfig, Listen, Leave
<1>9. ASSUME NEW old \in Configs, NEW fresh \in Configs, StoreConfig(old, fresh) PROVE DataOK'
  BY <1>9 DEF StoreConfig, Affected
<1>10. ASSUME NEW on \in BOOLEAN, SetPaused(on) PROVE DataOK'
  BY <1>10 DEF SetPaused
<1>11. CASE BeginReload \/ SignalReload \/ SignalRestart \/ TakePort \/ Cancel
  BY <1>11 DEF BeginReload, SignalReload, SignalRestart, TakePort, Cancel
<1>12. CASE Tick
  BY <1>12, ServiceAssumption DEF Tick
<1>13. CASE UNCHANGED vars
  BY <1>13 DEF vars
<1>14. QED
  BY <1>1, <1>2, <1>3, <1>4, <1>5, <1>6, <1>7, <1>8, <1>9, <1>10, <1>11, <1>12, <1>13
     DEF Next, RunService

\* A channel holds a token or not, a switch is on or off: kept by every step.
LEMMA FlagsStep == FlagsOK /\ [Next]_vars => FlagsOK'
<1> SUFFICES ASSUME FlagsOK, [Next]_vars PROVE FlagsOK'
  OBVIOUS
<1> USE DEF FlagsOK, loop, procs, env, reloads
<1>1. CASE ShutDown \/ HoldForPause \/ Resume
  BY <1>1 DEF ShutDown, HoldForPause, Resume
<1>2. ASSUME NEW r \in Runs, Serve(r) PROVE FlagsOK'
  BY <1>2 DEF Serve
<1>3. CASE Ends \/ Stopped \/ Again \/ PortInUse
  BY <1>3 DEF Ends, Stopped, Again, PortInUse
<1>4. ASSUME NEW w \in {"restart", "pause", "done"}, Interrupt(w) PROVE FlagsOK'
  BY <1>4 DEF Interrupt
<1>5. CASE LeaveFailed \/ EnterBackoff \/ LeaveBackoff \/ LeaveWaiting
  BY <1>5 DEF LeaveFailed, EnterBackoff, LeaveBackoff, LeaveWaiting
<1>6. ASSUME NEW r \in Runs, Goroutine(r) \/ Fail(r) PROVE FlagsOK'
  BY <1>6 DEF Goroutine, Fail, ReadConfig, Listen, Leave
<1>7. ASSUME NEW old \in Configs, NEW fresh \in Configs, StoreConfig(old, fresh) PROVE FlagsOK'
  BY <1>7 DEF StoreConfig, Affected
<1>8. ASSUME NEW on \in BOOLEAN, SetPaused(on) PROVE FlagsOK'
  BY <1>8 DEF SetPaused
<1>9. CASE BeginReload \/ SignalReload \/ SignalRestart \/ TakePort \/ Cancel \/ Tick
  BY <1>9 DEF BeginReload, SignalReload, SignalRestart, TakePort, Cancel, Tick
<1>10. CASE UNCHANGED vars
  BY <1>10 DEF vars
<1>11. QED
  BY <1>1, <1>2, <1>3, <1>4, <1>5, <1>6, <1>7, <1>8, <1>9, <1>10 DEF Next, RunService

\* The types hold at the start.
LEMMA TypeInit == Init => TypeOK
<1>1. Init => DataOK
  BY ServiceAssumption DEF Init, DataOK
<1>2. Init => FlagsOK
  BY DEF Init, FlagsOK
<1>3. QED BY <1>1, <1>2 DEF TypeOK

\* Every variable has its type in every state.
THEOREM ServiceType == Spec => []TypeOK
<1>1. TypeOK /\ [Next]_vars => TypeOK'
  BY DataStep, FlagsStep DEF TypeOK
<1>2. QED BY <1>1, TypeInit, PTL DEF Spec

\* The strengthening of GoneOutsideRun: a goroutine that has not been waited for
\* is the one runServiceOnce waits for, and there is one only inside it.
Awaited == \A r \in Runs : fn[r] # "none" => r = run /\ pc \in {"serving", "stopping"}

\* Every step of the loop, of the goroutine and of anybody else keeps it.
LEMMA AwaitedStep == DataOK /\ Awaited /\ [Next]_vars => Awaited'
<1> SUFFICES ASSUME DataOK, Awaited, [Next]_vars PROVE Awaited'
  OBVIOUS
<1> USE DEF DataOK, Awaited, loop, procs, env, reloads
<1>1. CASE ShutDown \/ HoldForPause \/ Resume
  BY <1>1 DEF ShutDown, HoldForPause, Resume
<1>2. ASSUME NEW r \in Runs, Serve(r) PROVE Awaited'
  BY <1>2 DEF Serve
<1>3. CASE Ends \/ Stopped
  BY <1>3 DEF Ends, Stopped
<1>4. ASSUME NEW w \in {"restart", "pause", "done"}, Interrupt(w) PROVE Awaited'
  BY <1>4 DEF Interrupt
<1>5. CASE Again \/ PortInUse \/ LeaveFailed
  BY <1>5 DEF Again, PortInUse, LeaveFailed
<1>6. CASE EnterBackoff \/ LeaveBackoff \/ LeaveWaiting
  BY <1>6 DEF EnterBackoff, LeaveBackoff, LeaveWaiting
<1>7. ASSUME NEW r \in Runs, Goroutine(r) \/ Fail(r) PROVE Awaited'
  BY <1>7 DEF Goroutine, Fail, ReadConfig, Listen, Leave
<1>8. ASSUME NEW old \in Configs, NEW fresh \in Configs, StoreConfig(old, fresh) PROVE Awaited'
  BY <1>8 DEF StoreConfig, Affected
<1>9. ASSUME NEW on \in BOOLEAN, SetPaused(on) PROVE Awaited'
  BY <1>9 DEF SetPaused
<1>10. CASE BeginReload \/ SignalReload \/ SignalRestart \/ TakePort \/ Cancel \/ Tick
  BY <1>10 DEF BeginReload, SignalReload, SignalRestart, TakePort, Cancel, Tick
<1>11. CASE UNCHANGED vars
  BY <1>11 DEF vars
<1>12. QED
  BY <1>1, <1>2, <1>3, <1>4, <1>5, <1>6, <1>7, <1>8, <1>9, <1>10, <1>11 DEF Next, RunService

\* runServiceOnce waits for the service before it returns: outside it none of its
\* goroutines lives (GoneOutsideRun, supervisor.go:346-360).
THEOREM GoneWhenStopped == Spec => []GoneOutsideRun
<1>1. Init => Awaited
  BY DEF Init, Awaited
<1>2. Awaited => GoneOutsideRun
  BY DEF Awaited, GoneOutsideRun
<1>3. QED BY <1>1, <1>2, ServiceType, AwaitedStep, PTL DEF Spec, TypeOK

\* Two runs of the service never hold the port together, and outside
\* runServiceOnce none holds it.
THEOREM OneHolder ==
    Spec => [](/\ \A r, s \in bound : r = s
               /\ pc \notin {"serving", "stopping"} => bound = {})
<1>1. Init => Awaited
  BY DEF Init, Awaited
<1>2. DataOK /\ Awaited =>
        /\ \A r, s \in bound : r = s
        /\ pc \notin {"serving", "stopping"} => bound = {}
  BY DEF DataOK, Awaited
<1>3. QED BY <1>1, <1>2, ServiceType, AwaitedStep, PTL DEF Spec, TypeOK

\* A step keeps ConfigApplied: a run reads what is live, and what replaces that
\* leaves a reload in progress, then a token, that only ends the run; or it puts
\* back what the Reload had found, and is remembered as having done so.
LEMMA AppliedStep == DataOK /\ Awaited /\ ConfigApplied /\ [Next]_vars => ConfigApplied'
<1> SUFFICES ASSUME DataOK, Awaited, ConfigApplied, [Next]_vars PROVE ConfigApplied'
  OBVIOUS
<1> USE DEF DataOK, ConfigApplied, loop, procs, env, reloads
<1>1. CASE ShutDown \/ HoldForPause \/ Resume \/ Ends \/ Stopped
  BY <1>1 DEF ShutDown, HoldForPause, Resume, Ends, Stopped
<1>2. ASSUME NEW r \in Runs, Serve(r) PROVE ConfigApplied'
  BY <1>2 DEF Serve
<1>3. ASSUME NEW w \in {"restart", "pause", "done"}, Interrupt(w) PROVE ConfigApplied'
  BY <1>3 DEF Interrupt
<1>4. CASE Again \/ PortInUse \/ LeaveFailed \/ EnterBackoff \/ LeaveBackoff \/ LeaveWaiting
  BY <1>4 DEF Again, PortInUse, LeaveFailed, EnterBackoff, LeaveBackoff, LeaveWaiting
<1>5. ASSUME NEW r \in Runs, ReadConfig(r) PROVE ConfigApplied'
  BY <1>5 DEF ReadConfig, Awaited
<1>6. ASSUME NEW r \in Runs, Listen(r) \/ Leave(r) \/ Fail(r) PROVE ConfigApplied'
  BY <1>6 DEF Listen, Leave, Fail
<1>7. ASSUME NEW old \in Configs, NEW fresh \in Configs, StoreConfig(old, fresh) PROVE ConfigApplied'
  BY <1>7 DEF StoreConfig, Affected
<1>8. ASSUME NEW on \in BOOLEAN, SetPaused(on) PROVE ConfigApplied'
  BY <1>8 DEF SetPaused
<1>9. CASE BeginReload \/ SignalReload \/ SignalRestart \/ TakePort \/ Cancel \/ Tick
  BY <1>9 DEF BeginReload, SignalReload, SignalRestart, TakePort, Cancel, Tick
<1>10. CASE UNCHANGED vars
  BY <1>10 DEF vars
<1>11. QED
  BY <1>1, <1>2, <1>3, <1>4, <1>5, <1>6, <1>7, <1>8, <1>9, <1>10
     DEF Next, RunService, Goroutine

\* For any number of overlapping Reloads: a service that has read an older
\* configuration has the restart that applies the new one ahead of it
\* (ConfigApplied, supervisor.go:222-223), unless a Reload that saw no change has
\* put back what it had found at its start over what another stored since.
THEOREM NewConfigAhead == Spec => []ConfigApplied
<1>1. Init => ConfigApplied /\ Awaited
  BY DEF Init, ConfigApplied, Awaited
<1>2. QED BY <1>1, ServiceType, AwaitedStep, AppliedStep, PTL DEF Spec, TypeOK
=============================================================================
