------------------------ MODULE SingboxRunnerProofs ------------------------
(***************************************************************************)
(* Type correctness of SingboxRunner; but for a process that hangs in its  *)
(* stop, no sing-box exists outside runOnce, and never two at a time; the  *)
(* runner implements OneRun; and its breaker bounds the launches.          *)
(***************************************************************************)
EXTENDS SingboxRunner, TLAPS

\* Counting one more failure, or growing older by a tick, keeps a count a count.
LEMMA CountsType ==
    ASSUME NEW counts \in [Ages -> Nat]
    PROVE  /\ Never \in [Ages -> Nat]
           /\ Once(counts) \in [Ages -> Nat]
           /\ Older(counts) \in [Ages -> Nat]
<1>1. Never \in [Ages -> Nat]
  BY RunnerAssumption DEF Never
<1>2. Once(counts) \in [Ages -> Nat]
  BY RunnerAssumption DEF Once, Ages
<1>3. Older(counts) \in [Ages -> Nat]
  <2>1. \A a \in Ages : a # 0 => a - 1 \in Ages
    BY RunnerAssumption DEF Ages
  <2>2. QED BY <2>1, RunnerAssumption DEF Older
<1>4. QED BY <1>1, <1>2, <1>3

\* What the runner does to its breaker and its backoff keeps their types.
LEMMA CountedType ==
    ASSUME TypeOK
    PROVE  Counted \in [Ages -> Nat] /\ Forgiven \in MinDelay .. MaxDelay
<1>1. (IF age = LongRun THEN Never ELSE failures) \in [Ages -> Nat]
  BY CountsType DEF TypeOK, DataOK
<1>2. Counted \in [Ages -> Nat]
  BY <1>1, CountsType DEF Counted
<1>3. Forgiven \in MinDelay .. MaxDelay
  BY RunnerAssumption DEF Forgiven, TypeOK, DataOK
<1>4. QED BY <1>2, <1>3

\* The data part of TypeOK is preserved by every step of the runner and of its environment.
LEMMA DataStep == TypeOK /\ [Next]_vars => DataOK'
<1> SUFFICES ASSUME TypeOK, [Next]_vars PROVE DataOK'
  OBVIOUS
<1> USE DEF TypeOK, DataOK, InRunOnce, loop, procs, tokens, gate, docs
<1>1. CASE ShutDown
  BY <1>1 DEF ShutDown, Return
<1>2. CASE HoldForPause
  BY <1>2 DEF HoldForPause
<1>3. CASE Resume
  BY <1>3, RunnerAssumption DEF Resume
<1>4. CASE BeginRun
  BY <1>4, RunnerAssumption DEF BeginRun, LongRun
<1>5. CASE LaunchFails
  BY <1>5 DEF LaunchFails
<1>6. ASSUME NEW r \in Runs, Launch(r) PROVE DataOK'
  BY <1>6, CountsType DEF Launch
<1>7. CASE TakeExit
  BY <1>7 DEF TakeExit
<1>8. CASE StopRun
  BY <1>8 DEF StopRun
<1>9. CASE StopTimeout
  BY <1>9 DEF StopTimeout
<1>10. CASE EndedByShutdown
  BY <1>10 DEF EndedByShutdown, Return
<1>11. CASE EnterSafeMode
  BY <1>11, CountedType, RunnerAssumption DEF EnterSafeMode, LongRun
<1>12. CASE LeaveSafeMode
  BY <1>12, CountsType, RunnerAssumption DEF LeaveSafeMode
<1>13. CASE EnterBackoff
  BY <1>13, CountedType, RunnerAssumption DEF EnterBackoff, LongRun
<1>14. CASE LeaveBackoff
  BY <1>14, RunnerAssumption DEF LeaveBackoff, Doubled
<1>15. CASE LeaveWaiting
  BY <1>15 DEF LeaveWaiting, Return
<1>16. ASSUME NEW r \in Runs, WatchEnds(r) \/ WatchReports(r) PROVE DataOK'
  BY <1>16 DEF WatchEnds, WatchReports
<1>17. ASSUME NEW r \in Runs, ComeUp(r) \/ ShimStops(r) \/ Crash(r) PROVE DataOK'
  BY <1>17 DEF ComeUp, ShimStops, Crash, Exit
<1>18. ASSUME NEW c \in Callers, NEW d \in Docs, SetDocument(c, d) PROVE DataOK'
  BY <1>18 DEF SetDocument
<1>19. ASSUME NEW c \in Callers, CallRestart(c) \/ PostRetry(c) \/ PostRestart(c) \/ Retry(c)
       PROVE  DataOK'
  BY <1>19 DEF CallRestart, PostRetry, PostRestart, Retry
<1>20. ASSUME NEW on \in BOOLEAN, SetPaused(on) PROVE DataOK'
  BY <1>20 DEF SetPaused
<1>21. CASE Hang \/ Cancel
  BY <1>21 DEF Hang, Cancel
<1>22. CASE Tick
  BY <1>22, CountsType, RunnerAssumption DEF Tick, LongRun
<1>23. CASE UNCHANGED vars
  BY <1>23 DEF vars
<1>24. QED
  BY <1>1, <1>2, <1>3, <1>4, <1>5, <1>6, <1>7, <1>8, <1>9, <1>10, <1>11, <1>12, <1>13, <1>14,
     <1>15, <1>16, <1>17, <1>18, <1>19, <1>20, <1>21, <1>22, <1>23
     DEF Next, Runner, Environment

\* A channel holds a token or not, the switch is on or off: kept by every step.
LEMMA FlagsStep == FlagsOK /\ [Next]_vars => FlagsOK'
<1> SUFFICES ASSUME FlagsOK, [Next]_vars PROVE FlagsOK'
  OBVIOUS
<1> USE DEF FlagsOK, loop, procs, tokens, gate, docs
<1>1. CASE Runner
  <2>1. CASE ShutDown \/ EndedByShutdown \/ LeaveWaiting
    BY <2>1 DEF ShutDown, EndedByShutdown, LeaveWaiting, Return
  <2>2. CASE HoldForPause \/ Resume \/ BeginRun \/ LaunchFails
    BY <2>2 DEF HoldForPause, Resume, BeginRun, LaunchFails
  <2>3. ASSUME NEW r \in Runs, Launch(r) PROVE FlagsOK'
    BY <2>3 DEF Launch
  <2>4. CASE TakeExit \/ StopRun \/ StopTimeout
    BY <2>4 DEF TakeExit, StopRun, StopTimeout
  <2>5. CASE EnterSafeMode \/ LeaveSafeMode
    BY <2>5 DEF EnterSafeMode, LeaveSafeMode
  <2>6. CASE EnterBackoff \/ LeaveBackoff
    BY <2>6 DEF EnterBackoff, LeaveBackoff
  <2>7. QED BY <1>1, <2>1, <2>2, <2>3, <2>4, <2>5, <2>6 DEF Runner
<1>2. CASE Environment
  <2>1. ASSUME NEW r \in Runs,
               WatchEnds(r) \/ WatchReports(r) \/ ComeUp(r) \/ ShimStops(r) \/ Crash(r)
        PROVE  FlagsOK'
    BY <2>1 DEF WatchEnds, WatchReports, ComeUp, ShimStops, Crash, Exit
  <2>2. ASSUME NEW c \in Callers, NEW d \in Docs, SetDocument(c, d) PROVE FlagsOK'
    BY <2>2 DEF SetDocument
  <2>3. ASSUME NEW c \in Callers, CallRestart(c) \/ PostRetry(c) \/ PostRestart(c) \/ Retry(c)
        PROVE  FlagsOK'
    BY <2>3 DEF CallRestart, PostRetry, PostRestart, Retry
  <2>4. ASSUME NEW on \in BOOLEAN, SetPaused(on) PROVE FlagsOK'
    BY <2>4 DEF SetPaused
  <2>5. CASE Hang \/ Cancel \/ Tick
    BY <2>5 DEF Hang, Cancel, Tick
  <2>6. QED BY <1>2, <2>1, <2>2, <2>3, <2>4, <2>5 DEF Environment
<1>3. CASE UNCHANGED vars
  BY <1>3 DEF vars
<1>4. QED BY <1>1, <1>2, <1>3 DEF Next

\* The variables of Run, of runOnce, of the watchers and of the callers always
\* have the types the code gives them.
THEOREM RunnerType == Spec => []TypeOK
<1>1. Init => TypeOK
  <2>1. Init => DataOK
    <3>1. Never \in [Ages -> Nat]
      BY DEF Never
    <3>2. 0 \in 0 .. LongRun /\ MinDelay \in MinDelay .. MaxDelay /\ 0 \in 0 .. MaxDelay
      BY RunnerAssumption DEF LongRun
    <3>3. QED BY <3>1, <3>2 DEF Init, DataOK
  <2>2. Init => FlagsOK
    BY DEF Init, FlagsOK
  <2>3. QED BY <2>1, <2>2 DEF TypeOK
<1>2. TypeOK /\ [Next]_vars => TypeOK'
  BY DataStep, FlagsStep DEF TypeOK
<1>3. QED BY <1>1, <1>2, PTL DEF Spec

----------------------------------------------------------------------------

InSelect == pc \in {"running", "stopping"}

\* The only process that does not hang is the one runOnce waits for, an exit value is only ever
\* that of a process that is gone, and only a process that exists hangs.
Accounted ==
    /\ alive \ hung \subseteq (IF InSelect THEN {run} ELSE {})
    /\ alive \cap exited = {}
    /\ hung \subseteq alive

LEMMA AccountedStep == TypeOK /\ Accounted /\ [Next]_vars => Accounted'
<1> SUFFICES ASSUME TypeOK, Accounted, [Next]_vars PROVE Accounted'
  OBVIOUS
<1> USE DEF Accounted, InSelect, loop, procs, tokens, gate, docs
<1>1. CASE ShutDown \/ EndedByShutdown \/ LeaveWaiting
  BY <1>1 DEF ShutDown, EndedByShutdown, LeaveWaiting, Return
<1>2. CASE HoldForPause \/ Resume \/ BeginRun \/ LaunchFails
  BY <1>2 DEF HoldForPause, Resume, BeginRun, LaunchFails
<1>3. ASSUME NEW r \in Runs, Launch(r) PROVE Accounted'
  <2>1. alive \ hung = {} /\ hung' = hung /\ run' = r /\ pc' = "running" /\ alive' = alive \cup {r}
    BY <1>3 DEF Launch
  <2>2. alive' \cap exited' = {} /\ hung' \subseteq alive'
    BY <1>3 DEF Launch
  <2>3. QED BY <2>1, <2>2
<1>4. CASE TakeExit
  <2>1. run \notin alive
    BY <1>4 DEF TakeExit
  <2>2. QED BY <1>4, <2>1 DEF TakeExit
<1>5. CASE StopRun
  BY <1>5 DEF StopRun
<1>6. CASE StopTimeout
  BY <1>6 DEF StopTimeout, StopOver
<1>7. CASE EnterSafeMode \/ LeaveSafeMode \/ EnterBackoff \/ LeaveBackoff
  BY <1>7 DEF EnterSafeMode, LeaveSafeMode, EnterBackoff, LeaveBackoff
<1>8. ASSUME NEW r \in Runs, WatchEnds(r) \/ WatchReports(r) PROVE Accounted'
  BY <1>8 DEF WatchEnds, WatchReports
<1>9. ASSUME NEW r \in Runs, ComeUp(r) \/ ShimStops(r) \/ Crash(r) PROVE Accounted'
  BY <1>9 DEF ComeUp, ShimStops, Crash, Exit
<1>10. ASSUME NEW c \in Callers, NEW d \in Docs, SetDocument(c, d) PROVE Accounted'
  BY <1>10 DEF SetDocument
<1>11. ASSUME NEW c \in Callers, CallRestart(c) \/ PostRetry(c) \/ PostRestart(c) \/ Retry(c)
       PROVE  Accounted'
  BY <1>11 DEF CallRestart, PostRetry, PostRestart, Retry
<1>12. ASSUME NEW on \in BOOLEAN, SetPaused(on) PROVE Accounted'
  BY <1>12 DEF SetPaused
<1>13. CASE Hang \/ Cancel \/ Tick
  BY <1>13 DEF Hang, Cancel, Tick
<1>14. CASE UNCHANGED vars
  BY <1>14 DEF vars
<1>15. QED
  BY <1>1, <1>2, <1>3, <1>4, <1>5, <1>6, <1>7, <1>8, <1>9, <1>10, <1>11, <1>12, <1>13, <1>14
     DEF Next, Runner, Environment

LEMMA RunnerAccounted == Spec => []Accounted
<1>1. Init => Accounted
  BY DEF Init, Accounted
<1>2. QED BY <1>1, AccountedStep, RunnerType, PTL DEF Spec

\* While the stack is paused, backing off, in safe mode or shut down, no
\* sing-box of an earlier run is left but one that hangs: runOnce waits for
\* what it stops.
THEOREM DownWhenStopped == Spec => []DownOutsideRun
<1>1. Accounted => DownOutsideRun
  BY DEF Accounted, DownOutsideRun, InSelect
<1>2. QED BY <1>1, RunnerAccounted, PTL

\* Restarts, pauses and crashes never leave two sing-box processes running,
\* unless one of them outlasted its stop.
THEOREM NeverTwo == Spec => []OneSingBox
<1>1. Accounted => OneSingBox
  BY DEF Accounted, OneSingBox
<1>2. QED BY <1>1, RunnerAccounted, PTL

----------------------------------------------------------------------------

\* The initial states of the runner are initial states of OneRun.
LEMMA PromiseInit == Init => Seen!Init
  BY DEF Init, Seen!Init

\* Every step of the runner and of its environment is a step of OneRun or leaves what it shows
\* alone: Launch starts, StopRun ends, an exit or a hang lets go, TakeExit and StopTimeout settle.
LEMMA PromiseStep ==
    TypeOK /\ Accounted /\ [Next]_vars => [Seen!Next]_(Seen!vars)
<1> SUFFICES ASSUME TypeOK, Accounted, [Next]_vars PROVE [Seen!Next]_(Seen!vars)
  OBVIOUS
<1> USE DEF Accounted, InSelect, loop, procs, tokens, gate, docs
<1>1. CASE ShutDown \/ EndedByShutdown \/ LeaveWaiting
  BY <1>1 DEF ShutDown, EndedByShutdown, LeaveWaiting, Return, Seen!vars
<1>2. CASE HoldForPause \/ Resume \/ BeginRun \/ LaunchFails
  BY <1>2 DEF HoldForPause, Resume, BeginRun, LaunchFails, Seen!vars
<1>3. ASSUME NEW r \in Runs, Launch(r) PROVE Seen!Next
  <2>1. alive \ hung = {} /\ pc = "launch"
    BY <1>3 DEF Launch
  <2>2. alive' \ hung' = {r} \ hung
    BY <1>3, <2>1 DEF Launch
  <2>3. r \notin hung
    BY <1>3 DEF Launch
  <2>4. QED BY <1>3, <2>1, <2>2, <2>3 DEF Launch, Seen!Start, Seen!Next
<1>4. CASE TakeExit
  <2>1. alive \ hung = {} /\ alive' = alive /\ hung' = hung
    BY <1>4 DEF TakeExit
  <2>2. QED BY <1>4, <2>1 DEF TakeExit, Seen!Settle, Seen!Next
<1>5. CASE StopRun
  BY <1>5 DEF StopRun, Seen!End, Seen!Next
<1>6. CASE StopTimeout
  <2>1. alive \ hung = {} /\ alive' = alive /\ hung' = hung
    BY <1>6 DEF StopTimeout, StopOver
  <2>2. QED BY <1>6, <2>1 DEF StopTimeout, Seen!Settle, Seen!Next
<1>7. CASE EnterSafeMode \/ LeaveSafeMode \/ EnterBackoff \/ LeaveBackoff
  BY <1>7 DEF EnterSafeMode, LeaveSafeMode, EnterBackoff, LeaveBackoff, Seen!vars
<1>8. ASSUME NEW r \in Runs, WatchEnds(r) \/ WatchReports(r) PROVE UNCHANGED Seen!vars
  BY <1>8 DEF WatchEnds, WatchReports, Seen!vars
<1>9. ASSUME NEW r \in Runs, ComeUp(r) PROVE UNCHANGED Seen!vars
  BY <1>9 DEF ComeUp, Seen!vars
<1>10. ASSUME NEW r \in Runs, ShimStops(r) \/ Crash(r) PROVE [Seen!Next]_(Seen!vars)
  <2>1. Exit(r)
    BY <1>10 DEF ShimStops, Crash
  <2>2. UNCHANGED <<pc, staged, applied>>
    BY <2>1 DEF Exit
  <2>3. alive' \ hung' = (alive \ hung) \ {r}
    BY <2>1 DEF Exit
  <2>4. CASE r \in hung
    BY <2>2, <2>3, <2>4 DEF Seen!vars
  <2>5. CASE r \notin hung
    <3>1. alive \ hung = {run} /\ r = run /\ pc \in {"running", "stopping"}
      BY <2>1, <2>5 DEF Exit
    <3>2. alive' \ hung' = {}
      BY <2>3, <3>1
    <3>3. QED BY <2>2, <3>1, <3>2 DEF Seen!Gone, Seen!Next
  <2>6. QED BY <2>4, <2>5
<1>11. ASSUME NEW c \in Callers, NEW d \in Docs, SetDocument(c, d) PROVE Seen!Next
  BY <1>11 DEF SetDocument, Seen!Stage, Seen!Next
<1>12. ASSUME NEW c \in Callers, CallRestart(c) \/ PostRetry(c) \/ PostRestart(c) \/ Retry(c)
       PROVE  UNCHANGED Seen!vars
  BY <1>12 DEF CallRestart, PostRetry, PostRestart, Retry, Seen!vars
<1>13. ASSUME NEW on \in BOOLEAN, SetPaused(on) PROVE UNCHANGED Seen!vars
  BY <1>13 DEF SetPaused, Seen!vars
<1>14. CASE Hang
  <2>1. alive \ hung = {run} /\ pc = "stopping" /\ alive' \ hung' = {}
    BY <1>14 DEF Hang
  <2>2. QED BY <1>14, <2>1 DEF Hang, Seen!Gone, Seen!Next
<1>15. CASE Cancel \/ Tick
  BY <1>15 DEF Cancel, Tick, Seen!vars
<1>16. CASE UNCHANGED vars
  BY <1>16 DEF vars, Seen!vars
<1>17. QED
  BY <1>1, <1>2, <1>3, <1>4, <1>5, <1>6, <1>7, <1>8, <1>9, <1>10, <1>11, <1>12, <1>13, <1>14,
     <1>15, <1>16
     DEF Next, Runner, Environment

\* The supervision loop implements what it promises: one sing-box at a time, on the staged
\* document, and none when no run is in progress.
THEOREM Implements == Spec => Promise
<1>1. QED BY PromiseInit, PromiseStep, RunnerType, RunnerAccounted, PTL DEF Spec, Promise, Seen!Spec

----------------------------------------------------------------------------

\* Between a launch and the failure that is counted for it.
Uncounted == pc \in {"running", "stopping", "ended", "returned"}

\* The counts are those of a window that grows.
Growing(counts) == \A a \in Ages : a # 0 => counts[a - 1] <= counts[a]

\* The strengthening of FlapBound.  Every launch but the last has been counted as
\* a failure that is no older than it; what a run that lasted forgives is older
\* than any window, so forgiving it forgets no launch; and the breaker has not
\* been reached where the next launch may follow.
Breaker ==
    /\ Growing(failures) /\ Growing(launches)
    /\ \A a \in Ages : launches[a] <= failures[a] + (IF Uncounted THEN 1 ELSE 0)
    /\ pc = "launch" => \A a \in Ages : a < age => launches[a] = 0
    /\ Uncounted => \A a \in Ages : a < age => launches[a] <= 1
    /\ pc \in {"top", "paused", "safe", "backoff"} => age = 0
    /\ FlapBound
    /\ Failures > 0 /\ pc \in {"top", "paused", "launch", "backoff"} => Total(failures) < Failures

\* What counting and growing older do to a count, at each age.
LEMMA CountsGrow ==
    ASSUME NEW counts \in [Ages -> Nat], Growing(counts)
    PROVE  /\ Window - 1 \in Ages
           /\ Growing(Never) /\ \A a \in Ages : Never[a] = 0
           /\ Growing(Once(counts)) /\ \A a \in Ages : Once(counts)[a] = counts[a] + 1
           /\ Growing(Older(counts)) /\ \A a \in Ages : Older(counts)[a] <= counts[a]
           /\ \A a \in Ages : Older(counts)[a] = IF a = 0 THEN 0 ELSE counts[a - 1]
           /\ \A a \in Ages : a # 0 => a - 1 \in Ages
<1>1. Window - 1 \in Ages /\ \A a \in Ages : a # 0 => a - 1 \in Ages
  BY RunnerAssumption DEF Ages
<1>2. Growing(Never) /\ \A a \in Ages : Never[a] = 0
  BY <1>1 DEF Growing, Never
<1>3. \A a \in Ages : Once(counts)[a] = counts[a] + 1
  BY DEF Once
<1>4. Growing(Once(counts))
  BY <1>1, <1>3 DEF Growing
<1>5. \A a \in Ages : Older(counts)[a] = IF a = 0 THEN 0 ELSE counts[a - 1]
  BY DEF Older
<1>6. \A a \in Ages : Older(counts)[a] <= counts[a]
  BY <1>1, <1>5 DEF Growing
<1>7. Growing(Older(counts))
  BY <1>1, <1>5, RunnerAssumption DEF Growing, Ages
<1>8. QED BY <1>1, <1>2, <1>3, <1>4, <1>5, <1>6, <1>7

\* Every step keeps the breaker's books.
LEMMA BreakerStep == TypeOK /\ Breaker /\ [Next]_vars => Breaker'
<1> SUFFICES ASSUME TypeOK, Breaker, [Next]_vars PROVE Breaker'
  OBVIOUS
<1> USE DEF loop, procs, tokens, gate, docs
<1>1. failures \in [Ages -> Nat] /\ launches \in [Ages -> Nat] /\ age \in 0 .. LongRun
  BY DEF TypeOK, DataOK
<1>2. Window - 1 \in Ages /\ \A a \in Ages : a \in Nat /\ (a # 0 => a - 1 \in Ages)
  BY RunnerAssumption DEF Ages
<1>3. TypeOK' /\ \A a \in Ages : a < LongRun
  BY DataStep, FlagsStep, RunnerAssumption DEF TypeOK, Ages, LongRun
<1>4. failures' \in [Ages -> Nat] /\ launches' \in [Ages -> Nat] /\ age' \in 0 .. LongRun
  BY <1>3 DEF TypeOK, DataOK
<1>5. CASE UNCHANGED <<pc, age, failures, launches>>
  BY <1>5 DEF Breaker, Uncounted, Growing, FlapBound, Total
<1>6. CASE ShutDown \/ EndedByShutdown \/ LeaveWaiting
  <2>1. pc \in {"top", "paused", "safe", "backoff", "ended"} /\ pc' = "returned"
    BY <1>6 DEF ShutDown, EndedByShutdown, LeaveWaiting, Return
  <2>2. UNCHANGED <<age, failures, launches>>
    BY <1>6 DEF ShutDown, EndedByShutdown, LeaveWaiting, Return
  <2>3. \A a \in Ages : a < age => launches[a] <= 1
    <3>1. pc = "ended" \/ age = 0
      BY <2>1 DEF Breaker
    <3>2. CASE pc = "ended"
      BY <3>2 DEF Breaker, Uncounted
    <3>3. CASE age = 0
      BY <1>2, <3>3
    <3>4. QED BY <3>1, <3>2, <3>3
  <2>4. \A a \in Ages : launches[a] <= failures[a] + 1
    BY <1>1 DEF Breaker
  <2>5. QED BY <2>1, <2>2, <2>3, <2>4 DEF Breaker, Uncounted, Growing, FlapBound, Total
<1>7. CASE HoldForPause \/ Resume
  BY <1>7 DEF HoldForPause, Resume, Breaker, Uncounted, Growing, FlapBound, Total
<1>8. CASE BeginRun
  BY <1>1, <1>2, <1>8 DEF BeginRun, Breaker, Uncounted, Growing, FlapBound, Total
<1>9. CASE LaunchFails
  BY <1>1, <1>9 DEF LaunchFails, Breaker, Uncounted, Growing, FlapBound, Total
<1>10. ASSUME NEW r \in Runs, Launch(r) PROVE Breaker'
  <2>1. pc = "launch" /\ pc' = "running" /\ launches' = Once(launches) /\ UNCHANGED <<age, failures>>
    BY <1>10 DEF Launch
  <2>2. Growing(launches') /\ \A a \in Ages : launches'[a] = launches[a] + 1
    BY <1>1, <2>1, CountsGrow DEF Breaker
  <2>3. FlapBound'
    BY <1>1, <1>2, <2>1, <2>2, RunnerAssumption DEF Breaker, Uncounted, FlapBound, Total
  <2>4. QED BY <1>1, <2>1, <2>2, <2>3 DEF Breaker, Uncounted, Growing
<1>11. CASE TakeExit \/ StopRun \/ StopTimeout
  BY <1>1, <1>11 DEF TakeExit, StopRun, StopTimeout, Breaker, Uncounted, Growing, FlapBound, Total
<1>12. ASSUME pc = "ended" PROVE Growing(Counted) /\ \A a \in Ages : launches[a] <= Counted[a]
  <2>1. CASE age = LongRun
    <3>1. Counted = Once(Never) /\ Never \in [Ages -> Nat] /\ Growing(Never)
      BY <1>1, <2>1, CountsType, CountsGrow DEF Counted, Breaker
    <3>2. Growing(Once(Never)) /\ \A a \in Ages : Once(Never)[a] = 1
      BY <3>1, CountsGrow DEF Never
    <3>3. QED BY <1>3, <1>12, <2>1, <3>1, <3>2 DEF Breaker, Uncounted
  <2>2. CASE age # LongRun
    <3>1. Counted = Once(failures)
      BY <2>2 DEF Counted
    <3>2. Growing(Once(failures)) /\ \A a \in Ages : Once(failures)[a] = failures[a] + 1
      BY <1>1, CountsGrow DEF Breaker
    <3>3. QED BY <1>12, <3>1, <3>2 DEF Breaker, Uncounted
  <2>3. QED BY <2>1, <2>2
<1>13. CASE EnterSafeMode
  <2>1. pc = "ended" /\ pc' = "safe" /\ failures' = Counted /\ age' = 0 /\ launches' = launches
    BY <1>13 DEF EnterSafeMode
  <2>2. QED BY <1>1, <1>4, <1>12, <2>1 DEF Breaker, Uncounted, FlapBound, Total
<1>14. CASE EnterBackoff
  <2>1. /\ pc = "ended" /\ pc' = "backoff" /\ failures' = Counted /\ age' = 0
        /\ launches' = launches
        /\ Failures > 0 => ~(Total(Counted) >= Failures)
    BY <1>14 DEF EnterBackoff, TooMany
  <2>2. Failures > 0 => Total(failures') < Failures
    BY <1>2, <1>4, <2>1, RunnerAssumption DEF Total
  <2>3. QED BY <1>1, <1>4, <1>12, <2>1, <2>2 DEF Breaker, Uncounted, FlapBound, Total
<1>15. CASE LeaveSafeMode
  <2>1. pc = "safe" /\ pc' = "top" /\ failures' = Never /\ launches' = Never /\ age' = age
    BY <1>15 DEF LeaveSafeMode
  <2>2. Growing(Never) /\ \A a \in Ages : Never[a] = 0
    BY <1>1, CountsGrow DEF Breaker
  <2>3. FlapBound' /\ (Failures > 0 => Total(failures') < Failures)
    BY <1>2, <2>1, <2>2, RunnerAssumption DEF FlapBound, Total
  <2>4. QED BY <2>1, <2>2, <2>3 DEF Breaker, Uncounted
<1>16. CASE LeaveBackoff
  BY <1>1, <1>16 DEF LeaveBackoff, Breaker, Uncounted, Growing, FlapBound, Total
<1>17. CASE Tick
  <2>1. /\ pc' = pc /\ pc # "returned" /\ failures' = Older(failures) /\ launches' = Older(launches)
        /\ age' = IF pc \in InRunOnce /\ age < LongRun THEN age + 1 ELSE age
    BY <1>17 DEF Tick
  <2>2. /\ Growing(failures') /\ \A a \in Ages : failures'[a] <= failures[a]
        /\ \A a \in Ages : failures'[a] = IF a = 0 THEN 0 ELSE failures[a - 1]
    BY <1>1, <2>1, CountsGrow DEF Breaker
  <2>3. /\ Growing(launches') /\ \A a \in Ages : launches'[a] <= launches[a]
        /\ \A a \in Ages : launches'[a] = IF a = 0 THEN 0 ELSE launches[a - 1]
    BY <1>1, <2>1, CountsGrow DEF Breaker
  <2>4. \A a \in Ages : launches'[a] <= failures'[a] + (IF Uncounted' THEN 1 ELSE 0)
    BY <1>2, <2>1, <2>2, <2>3 DEF Breaker, Uncounted
  <2>5. \A a \in Ages : a < age' /\ a # 0 => a - 1 < age
    BY <1>1, <2>1 DEF Ages
  <2>6. pc' = "launch" => \A a \in Ages : a < age' => launches'[a] = 0
    BY <1>2, <2>1, <2>3, <2>5 DEF Breaker
  <2>7. Uncounted' => \A a \in Ages : a < age' => launches'[a] <= 1
    BY <1>2, <2>1, <2>3, <2>5 DEF Breaker, Uncounted
  <2>8. FlapBound'
    BY <1>1, <1>2, <1>4, <2>1, <2>3, RunnerAssumption DEF Breaker, FlapBound, Total
  <2>9. Failures > 0 /\ pc' \in {"top", "paused", "launch", "backoff"} => Total(failures') < Failures
    BY <1>1, <1>2, <1>4, <2>1, <2>2, RunnerAssumption DEF Breaker, Total
  <2>10. pc' \in {"top", "paused", "safe", "backoff"} => age' = 0
    BY <2>1 DEF Breaker, InRunOnce
  <2>11. QED BY <2>2, <2>3, <2>4, <2>6, <2>7, <2>8, <2>9, <2>10 DEF Breaker
<1>18. ASSUME NEW r \in Runs,
              WatchEnds(r) \/ WatchReports(r) \/ ComeUp(r) \/ ShimStops(r) \/ Crash(r)
       PROVE  UNCHANGED <<pc, age, failures, launches>>
  BY <1>18 DEF WatchEnds, WatchReports, ComeUp, ShimStops, Crash, Exit
<1>19. ASSUME NEW c \in Callers,
              \/ \E d \in Docs : SetDocument(c, d)
              \/ CallRestart(c) \/ PostRetry(c) \/ PostRestart(c) \/ Retry(c)
       PROVE  UNCHANGED <<pc, age, failures, launches>>
  BY <1>19 DEF SetDocument, CallRestart, PostRetry, PostRestart, Retry
<1>20. ASSUME (\E on \in BOOLEAN : SetPaused(on)) \/ Hang \/ Cancel \/ UNCHANGED vars
       PROVE  UNCHANGED <<pc, age, failures, launches>>
  BY <1>20 DEF SetPaused, Hang, Cancel, vars
<1>21. QED
  BY <1>5, <1>6, <1>7, <1>8, <1>9, <1>10, <1>11, <1>13, <1>14, <1>15, <1>16, <1>17, <1>18, <1>19,
     <1>20
     DEF Next, Runner, Environment

\* The breaker bounds the launches, for every threshold, window and backoff: between two requests
\* that end a safe mode sing-box is never launched more than Failures times within one Window.
THEOREM BreakerBounds == Spec => []FlapBound
<1>1. Init => Breaker
  <2> SUFFICES ASSUME Init PROVE Breaker
    OBVIOUS
  <2>2. failures = Never /\ launches = Never /\ pc = "top" /\ age = 0
    BY DEF Init
  <2>3. \A a \in Ages : Never[a] = 0
    BY DEF Never
  <2>4. Window - 1 \in Ages /\ \A a \in Ages : a # 0 => a - 1 \in Ages
    BY RunnerAssumption DEF Ages
  <2>5. Growing(Never)
    BY <2>3, <2>4 DEF Growing
  <2>6. QED BY <2>2, <2>3, <2>4, <2>5, RunnerAssumption DEF Breaker, Uncounted, FlapBound, Total
<1>2. Breaker => FlapBound
  BY DEF Breaker
<1>3. QED BY <1>1, <1>2, BreakerStep, RunnerType, PTL DEF Spec
=============================================================================
