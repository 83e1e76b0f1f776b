----------------------------- MODULE TablesProofs -----------------------------
(***************************************************************************)
(* What MCTables checks of four tables on small instances, proved of       *)
(* LiveDocument, UpdateWatcher, LogBus and TraceTable for any: between     *)
(* calls a trace has a time limit and the document is the live             *)
(* configuration's; what the menu offers stands; a repeat finds its line;  *)
(* and a row says of its connection what was last reported.                *)
(***************************************************************************)
EXTENDS MCTables, SequenceTheorems, FiniteSetTheorems, TLAPS

Threads == Document!Threads

\* Where a call may be, and the record of one.
Places == {"idle", "begin", "render", "level", "validate", "arm", "disarm", "deactivate", "swap",
           "store", "stage", "restart"}

Calls == [at : Places, job : Document!Jobs \cup {None},
          conf : Configs \cup {None}, doc : Document!Documents \cup {None}]

\* Outside a call a thread is as it was at first, and each step has what the earlier
\* ones left it.
Sound(c) ==
    /\ c.at = "idle" => c = Document!Idle
    /\ c.at \notin {"idle", "restart"} => c.job \in Document!Jobs
    /\ c.at \in {"disarm", "deactivate"} => c.job = "stop"
    /\ c.at = "render" => c.job # "reload"
    /\ c.at = "validate" => c.job # "stop"
    /\ c.at \in {"level", "validate", "swap", "store"} => c.conf \in Configs
    /\ c.at \in {"validate", "arm", "swap", "store", "stage"} => c.doc \in Document!Documents

CallsOK ==
    /\ call \in [Threads -> Calls] /\ cfg \in Configs /\ tracingNow \in BOOLEAN
    /\ \A t \in Threads : Sound(call[t])

\* The calls that will give the running trace its time limit, or end it.
Limits(c) ==
    \/ c.job = "start" /\ c.at \in {"render", "level", "validate", "arm"}
    \/ c.at \in {"disarm", "deactivate"}

\* A trace without a limit is one that a call will still limit or end.
Limited == tracingNow => armed \/ \E t \in Threads : Limits(call[t])

\* A staged document that sing-box does not run with has its restart ahead.
Told == restart \/ applied = staged \/ \E t \in Threads : call[t].at = "restart"

\* What holds at each step of a call that is alone.
Progress(c) ==
    /\ \/ c.at \in {"begin", "disarm", "deactivate", "restart"}
       \/ c.at \in {"level", "validate"} /\ c.job = "reload"
       => staged = Document!Wanted
    /\ c.at = "begin" /\ c.job = "start" => ~tracingNow
    /\ c.at \in {"render", "level", "validate"} /\ c.job = "start" =>
            tracingNow /\ staged = [from |-> cfg, debug |-> FALSE]
    /\ c.at = "arm" \/ (c.at \in {"level", "validate"} /\ c.job # "reload") => c.conf = cfg
    /\ c.at \in {"validate", "arm", "swap", "store"} => c.doc = [from |-> c.conf, debug |-> tracingNow]
    /\ c.at = "swap" => staged = c.doc
    /\ c.at = "stage" => c.doc = Document!Wanted

\* Unless calls overlapped, whoever is in a call is alone with what it knows.
Alone ==
    overlapped \/ /\ (\A t \in Threads : call[t].at = "idle") => staged = Document!Wanted
                  /\ \A t \in Threads : call[t].at # "idle" =>
                        Progress(call[t]) /\ \A u \in Threads : u # t => call[u].at = "idle"

Books == CallsOK /\ Limited /\ Told /\ Alone

----------------------------------------------------------------------------

\* A step of one call changes the record of its thread alone.
LEMMA Moves ==
    ASSUME CallsOK, NEW t \in Threads, NEW r \in Calls, Sound(r),
           call' = [call EXCEPT ![t] = r], cfg' \in Configs, tracingNow' \in BOOLEAN
    PROVE  CallsOK' /\ call'[t] = r /\ \A u \in Threads : u # t => call'[u] = call[u]
<1>1. call'[t] = r /\ \A u \in Threads : u # t => call'[u] = call[u]
  BY DEF CallsOK
<1>2. call' \in [Threads -> Calls]
  BY DEF CallsOK
<1>3. \A u \in Threads : Sound(call'[u])
  BY <1>1 DEF CallsOK
<1>4. QED BY <1>1, <1>2, <1>3 DEF CallsOK, Sound

\* It stays alone, if it was, when it knows what it has to after its step.
LEMMA StaysAlone ==
    ASSUME CallsOK, Alone, NEW t \in Threads, NEW r \in Calls,
           call'[t] = r, \A u \in Threads : u # t => call'[u] = call[u],
           call[t].at # "idle", overlapped' = overlapped,
           ~overlapped /\ Progress(call[t]) =>
               IF r.at = "idle" THEN staged' = Document!Wanted' ELSE Progress(call[t])'
    PROVE  Alone'
<1>1. CASE overlapped
  BY <1>1 DEF Alone
<1>2. CASE ~overlapped
  <2>1. Progress(call[t]) /\ \A u \in Threads : u # t => call'[u].at = "idle"
    BY <1>2 DEF Alone
  <2>2. CASE r.at = "idle"
    BY <1>2, <2>1, <2>2 DEF Alone
  <2>3. CASE r.at # "idle"
    <3>1. Progress(call[t])'
      BY <1>2, <2>1, <2>3
    <3>2. QED BY <2>1, <2>3, <3>1 DEF Alone
  <2>4. QED BY <2>2, <2>3
<1>3. QED BY <1>1, <1>2

\* A call begins: whatever it is, it has not changed anything yet.
LEMMA BeginStep ==
    ASSUME Books, NEW t \in Threads, NEW j \in Document!Jobs, NEW place \in {"begin", "disarm"},
           Document!Begin(t, j, place), place = "begin" /\ j = "start" => ~tracingNow, place = "disarm" => j = "stop",
           armed' = armed \/ place = "disarm"
    PROVE  Books'
<1> DEFINE r == [call[t] EXCEPT !.job = j, !.at = place]
<1>1. /\ call[t] = Document!Idle
      /\ UNCHANGED <<cfg, tracingNow, staged, restart, applied>>
      /\ overlapped' = (overlapped \/ ~Document!Settled)
  BY DEF Document!Begin
<1>2. call' = [call EXCEPT ![t] = r]
  BY DEF Document!Begin, Books, CallsOK
<1>3. r.job = j /\ r.at = place /\ r \in Calls /\ Sound(r)
  BY <1>1 DEF Document!Idle, Calls, Places, Sound, Books, CallsOK
<1> HIDE DEF r
<1>4. CallsOK' /\ call'[t] = r /\ \A u \in Threads : u # t => call'[u] = call[u]
  BY <1>1, <1>2, <1>3, Moves DEF Books, CallsOK
<1>5. Limited'
  BY <1>1, <1>3, <1>4 DEF Books, Limited, Limits, Document!Idle
<1>6. Told'
  BY <1>1, <1>4 DEF Books, Told, Document!Idle
<1>7. Alone'
  <2>1. CASE overlapped'
    BY <2>1 DEF Alone
  <2>2. CASE ~overlapped'
    <3>1. ~overlapped /\ Document!Settled
      BY <1>1, <2>2
    <3>2. \A u \in Threads : call[u].at = "idle"
      BY <3>1 DEF Document!Settled, Document!Idle, Threads
    <3>3. ~overlapped /\ (\A u \in Threads : call[u].at = "idle") /\ staged = Document!Wanted
      BY <3>1, <3>2 DEF Books, Alone
    <3>4. Progress(call[t])'
      BY <1>1, <1>3, <1>4, <3>3 DEF Progress, Document!Wanted
    <3>5. QED BY <1>3, <1>4, <3>3, <3>4 DEF Alone
  <2>3. QED BY <2>1, <2>2
<1>8. QED BY <1>4, <1>5, <1>6, <1>7 DEF Books

\* Each later step of a call keeps the books.
LEMMA CallStep ==
    ASSUME Books, NEW t \in Threads, Document!Steps(t)
    PROVE  Books'
<1> USE DEF Document!At, Document!Goto, Document!Return
<1>0. CallsOK /\ Sound(call[t]) /\ call[t] \in Calls /\ tracingNow \in BOOLEAN
  BY DEF Books, CallsOK
<1>1. ASSUME NEW r \in Calls, Sound(r), call' = [call EXCEPT ![t] = r],
             cfg' \in Configs, tracingNow' \in BOOLEAN, overlapped' = overlapped,
             call[t].at # "idle",
             Limited => (tracingNow' => armed' \/ Limits(r) \/ (~Limits(call[t]) /\ tracingNow /\ ~armed)),
             Told => (restart' \/ applied' = staged' \/ r.at = "restart"
                      \/ (call[t].at # "restart" /\ UNCHANGED <<restart, applied, staged>>)),
             ~overlapped /\ Progress(call[t]) =>
                 IF r.at = "idle" THEN staged' = Document!Wanted' ELSE Progress(call[t])'
      PROVE  Books'
  <2>1. CallsOK' /\ call'[t] = r /\ \A u \in Threads : u # t => call'[u] = call[u]
    BY <1>0, <1>1, Moves
  <2>2. Limited'
    BY <1>1, <2>1 DEF Books, Limited
  <2>3. Told'
    BY <1>1, <2>1 DEF Books, Told
  <2>4. Alone'
    BY <1>0, <1>1, <2>1, StaysAlone DEF Books
  <2>5. QED BY <2>1, <2>2, <2>3, <2>4 DEF Books
<1>2. ASSUME NEW c \in Configs, Document!LoadConfig(t, c)
      PROVE  Books'
  <2> DEFINE r == [call[t] EXCEPT !.at = "level", !.conf = c]
  <2>1. call' = [call EXCEPT ![t] = r] /\ call[t].at # "idle"
    BY <1>0, <1>2 DEF Document!LoadConfig, Books, CallsOK
  <2>2. r \in Calls /\ Sound(r) /\ cfg' \in Configs /\ tracingNow' \in BOOLEAN
    BY <1>0, <1>2 DEF Document!LoadConfig, Books, CallsOK, Calls, Places, Sound, Document!Idle, Document!Jobs,
                      Document!Documents
  <2>3. overlapped' = overlapped
    BY <1>2 DEF Document!LoadConfig
  <2>4. Limited => (tracingNow' => armed' \/ Limits(r) \/ (~Limits(call[t]) /\ tracingNow /\ ~armed))
    BY <1>0, <1>2 DEF Document!LoadConfig, Limited, Limits
  <2>5. Told => (restart' \/ applied' = staged' \/ r.at = "restart"
                 \/ (call[t].at # "restart" /\ UNCHANGED <<restart, applied, staged>>))
    BY <1>2 DEF Document!LoadConfig
  <2>6. call'[t] = r
    BY <1>0, <2>1 DEF Books, CallsOK
  <2>7. ~overlapped /\ Progress(call[t]) =>
            IF r.at = "idle" THEN staged' = Document!Wanted' ELSE Progress(call[t])'
    <3>1. /\ call'[t].at = r.at /\ call'[t].job = r.job /\ call'[t].conf = r.conf /\ call'[t].doc = r.doc
          /\ r.at = "level" /\ r.job = call[t].job /\ r.conf = c
      BY <1>0, <1>2, <2>6 DEF Document!LoadConfig, Calls, Document!Idle
    <3> HIDE DEF r
    <3>2. QED BY <1>0, <1>2, <3>1 DEF Document!LoadConfig, Progress, Sound, Document!Wanted
  <2> HIDE DEF r
  <2>8. QED BY <1>1, <2>1, <2>2, <2>3, <2>4, <2>5, <2>7
<1>3. ASSUME Document!Activate(t), tracingNow' = tracingNow, call' = [call EXCEPT ![t] = Document!Idle]
      PROVE  Books'
  <2> DEFINE r == Document!Idle
  <2>1. call' = [call EXCEPT ![t] = r] /\ call[t].at # "idle"
    BY <1>0, <1>3 DEF Document!Activate, Books, CallsOK
  <2>2. r \in Calls /\ Sound(r) /\ cfg' \in Configs /\ tracingNow' \in BOOLEAN
    BY <1>0, <1>3 DEF Document!Activate, Books, CallsOK, Calls, Places, Sound, Document!Idle, Document!Jobs,
                      Document!Documents
  <2>3. overlapped' = overlapped
    BY <1>3 DEF Document!Activate
  <2>4. Limited => (tracingNow' => armed' \/ Limits(r) \/ (~Limits(call[t]) /\ tracingNow /\ ~armed))
    BY <1>0, <1>3 DEF Document!Activate, Limited, Limits
  <2>5. Told => (restart' \/ applied' = staged' \/ r.at = "restart"
                 \/ (call[t].at # "restart" /\ UNCHANGED <<restart, applied, staged>>))
    BY <1>3 DEF Document!Activate
  <2>6. call'[t] = r
    BY <1>0, <2>1 DEF Books, CallsOK
  <2>7. ~overlapped /\ Progress(call[t]) =>
            IF r.at = "idle" THEN staged' = Document!Wanted' ELSE Progress(call[t])'
    BY <1>0, <1>3, <2>6 DEF Document!Activate, Calls, Progress, Sound, Document!Wanted, Document!Idle
  <2> HIDE DEF r
  <2>8. QED BY <1>1, <2>1, <2>2, <2>3, <2>4, <2>5, <2>7
<1>4. ASSUME Document!Activate(t), tracingNow' = TRUE, call' = [call EXCEPT ![t].at = "render"]
      PROVE  Books'
  <2> DEFINE r == [call[t] EXCEPT !.at = "render"]
  <2>1. call' = [call EXCEPT ![t] = r] /\ call[t].at # "idle"
    BY <1>0, <1>4 DEF Document!Activate, Books, CallsOK
  <2>2. r \in Calls /\ Sound(r) /\ cfg' \in Configs /\ tracingNow' \in BOOLEAN
    BY <1>0, <1>4 DEF Document!Activate, Books, CallsOK, Calls, Places, Sound, Document!Idle, Document!Jobs,
                      Document!Documents
  <2>3. overlapped' = overlapped
    BY <1>4 DEF Document!Activate
  <2>4. Limited => (tracingNow' => armed' \/ Limits(r) \/ (~Limits(call[t]) /\ tracingNow /\ ~armed))
    BY <1>0, <1>4 DEF Document!Activate, Limited, Limits
  <2>5. Told => (restart' \/ applied' = staged' \/ r.at = "restart"
                 \/ (call[t].at # "restart" /\ UNCHANGED <<restart, applied, staged>>))
    BY <1>4 DEF Document!Activate
  <2>6. call'[t] = r
    BY <1>0, <2>1 DEF Books, CallsOK
  <2>7. ~overlapped /\ Progress(call[t]) =>
            IF r.at = "idle" THEN staged' = Document!Wanted' ELSE Progress(call[t])'
    <3>1. /\ call'[t].at = r.at /\ call'[t].job = r.job /\ call'[t].conf = r.conf /\ call'[t].doc = r.doc
          /\ r.at = "render" /\ r.job = call[t].job
      BY <1>0, <1>4, <2>6 DEF Document!Activate, Calls, Document!Idle
    <3> HIDE DEF r
    <3>2. QED BY <1>0, <1>4, <3>1 DEF Document!Activate, Progress, Sound, Document!Wanted
  <2> HIDE DEF r
  <2>8. QED BY <1>1, <2>1, <2>2, <2>3, <2>4, <2>5, <2>7
<1>5. ASSUME Document!Disarm(t)
      PROVE  Books'
  <2> DEFINE r == [call[t] EXCEPT !.at = "deactivate"]
  <2>1. call' = [call EXCEPT ![t] = r] /\ call[t].at # "idle"
    BY <1>0, <1>5 DEF Document!Disarm, Books, CallsOK
  <2>2. r \in Calls /\ Sound(r) /\ cfg' \in Configs /\ tracingNow' \in BOOLEAN
    BY <1>0, <1>5 DEF Document!Disarm, Books, CallsOK, Calls, Places, Sound, Document!Idle, Document!Jobs,
                      Document!Documents
  <2>3. overlapped' = overlapped
    BY <1>5 DEF Document!Disarm
  <2>4. Limited => (tracingNow' => armed' \/ Limits(r) \/ (~Limits(call[t]) /\ tracingNow /\ ~armed))
    BY <1>0, <1>5 DEF Document!Disarm, Limited, Limits
  <2>5. Told => (restart' \/ applied' = staged' \/ r.at = "restart"
                 \/ (call[t].at # "restart" /\ UNCHANGED <<restart, applied, staged>>))
    BY <1>5 DEF Document!Disarm
  <2>6. call'[t] = r
    BY <1>0, <2>1 DEF Books, CallsOK
  <2>7. ~overlapped /\ Progress(call[t]) =>
            IF r.at = "idle" THEN staged' = Document!Wanted' ELSE Progress(call[t])'
    BY <1>0, <1>5, <2>6 DEF Document!Disarm, Calls, Progress, Sound, Document!Wanted, Document!Idle
  <2> HIDE DEF r
  <2>8. QED BY <1>1, <2>1, <2>2, <2>3, <2>4, <2>5, <2>7
<1>6. ASSUME Document!Deactivate(t)
      PROVE  Books'
  <2> DEFINE r == [call[t] EXCEPT !.at = "render"]
  <2>1. call' = [call EXCEPT ![t] = r] /\ call[t].at # "idle"
    BY <1>0, <1>6 DEF Document!Deactivate, Books, CallsOK
  <2>2. r \in Calls /\ Sound(r) /\ cfg' \in Configs /\ tracingNow' \in BOOLEAN
    BY <1>0, <1>6 DEF Document!Deactivate, Books, CallsOK, Calls, Places, Sound, Document!Idle, Document!Jobs,
                      Document!Documents
  <2>3. overlapped' = overlapped
    BY <1>6 DEF Document!Deactivate
  <2>4. Limited => (tracingNow' => armed' \/ Limits(r) \/ (~Limits(call[t]) /\ tracingNow /\ ~armed))
    BY <1>0, <1>6 DEF Document!Deactivate, Limited, Limits
  <2>5. Told => (restart' \/ applied' = staged' \/ r.at = "restart"
                 \/ (call[t].at # "restart" /\ UNCHANGED <<restart, applied, staged>>))
    BY <1>6 DEF Document!Deactivate
  <2>6. call'[t] = r
    BY <1>0, <2>1 DEF Books, CallsOK
  <2>7. ~overlapped /\ Progress(call[t]) =>
            IF r.at = "idle" THEN staged' = Document!Wanted' ELSE Progress(call[t])'
    <3>1. /\ call'[t].at = r.at /\ call'[t].job = r.job /\ call'[t].conf = r.conf /\ call'[t].doc = r.doc
          /\ r.at = "render" /\ r.job = call[t].job
      BY <1>0, <1>6, <2>6 DEF Document!Deactivate, Calls, Document!Idle
    <3> HIDE DEF r
    <3>2. QED BY <1>0, <1>6, <3>1 DEF Document!Deactivate, Progress, Sound, Document!Wanted
  <2> HIDE DEF r
  <2>8. QED BY <1>1, <2>1, <2>2, <2>3, <2>4, <2>5, <2>7
<1>7. ASSUME Document!ReadConfig(t)
      PROVE  Books'
  <2> DEFINE r == [call[t] EXCEPT !.at = "level", !.conf = cfg]
  <2>1. call' = [call EXCEPT ![t] = r] /\ call[t].at # "idle"
    BY <1>0, <1>7 DEF Document!ReadConfig, Books, CallsOK
  <2>2. r \in Calls /\ Sound(r) /\ cfg' \in Configs /\ tracingNow' \in BOOLEAN
    BY <1>0, <1>7 DEF Document!ReadConfig, Books, CallsOK, Calls, Places, Sound, Document!Idle, Document!Jobs,
                      Document!Documents
  <2>3. overlapped' = overlapped
    BY <1>7 DEF Document!ReadConfig
  <2>4. Limited => (tracingNow' => armed' \/ Limits(r) \/ (~Limits(call[t]) /\ tracingNow /\ ~armed))
    BY <1>0, <1>7 DEF Document!ReadConfig, Limited, Limits
  <2>5. Told => (restart' \/ applied' = staged' \/ r.at = "restart"
                 \/ (call[t].at # "restart" /\ UNCHANGED <<restart, applied, staged>>))
    BY <1>7 DEF Document!ReadConfig
  <2>6. call'[t] = r
    BY <1>0, <2>1 DEF Books, CallsOK
  <2>7. ~overlapped /\ Progress(call[t]) =>
            IF r.at = "idle" THEN staged' = Document!Wanted' ELSE Progress(call[t])'
    <3>1. /\ call'[t].at = r.at /\ call'[t].job = r.job /\ call'[t].conf = r.conf /\ call'[t].doc = r.doc
          /\ r.at = "level" /\ r.job = call[t].job /\ r.conf = cfg
      BY <1>0, <1>7, <2>6 DEF Document!ReadConfig, Calls, Document!Idle
    <3> HIDE DEF r
    <3>2. QED BY <1>0, <1>7, <3>1 DEF Document!ReadConfig, Progress, Sound, Document!Wanted
  <2> HIDE DEF r
  <2>8. QED BY <1>1, <2>1, <2>2, <2>3, <2>4, <2>5, <2>7
<1>8. ASSUME Document!Render(t)
      PROVE  Books'
  <2> DEFINE r == [call[t] EXCEPT !.doc = [from |-> call[t].conf, debug |-> tracingNow],
                                 !.at = IF call[t].job = "stop" THEN "stage" ELSE "validate"]
  <2>1. call' = [call EXCEPT ![t] = r] /\ call[t].at # "idle"
    BY <1>0, <1>8 DEF Document!Render, Document!Level, Books, CallsOK
  <2>2. r \in Calls /\ Sound(r) /\ cfg' \in Configs /\ tracingNow' \in BOOLEAN
    BY <1>0, <1>8 DEF Document!Render, Document!Level, Books, CallsOK, Calls, Places, Sound, Document!Idle, Document!Jobs,
                      Document!Documents
  <2>3. overlapped' = overlapped
    BY <1>8 DEF Document!Render, Document!Level
  <2>4. Limited => (tracingNow' => armed' \/ Limits(r) \/ (~Limits(call[t]) /\ tracingNow /\ ~armed))
    BY <1>0, <1>8 DEF Document!Render, Document!Level, Limited, Limits
  <2>5. Told => (restart' \/ applied' = staged' \/ r.at = "restart"
                 \/ (call[t].at # "restart" /\ UNCHANGED <<restart, applied, staged>>))
    BY <1>8 DEF Document!Render, Document!Level
  <2>6. call'[t] = r
    BY <1>0, <2>1 DEF Books, CallsOK
  <2>7. ~overlapped /\ Progress(call[t]) =>
            IF r.at = "idle" THEN staged' = Document!Wanted' ELSE Progress(call[t])'
    <3>1. /\ call'[t].at = r.at /\ call'[t].job = r.job /\ call'[t].conf = r.conf /\ call'[t].doc = r.doc
          /\ r.at \in {"stage", "validate"} /\ (r.at = "stage" <=> call[t].job = "stop")
          /\ r.job = call[t].job /\ r.conf = call[t].conf
          /\ r.doc = [from |-> call[t].conf, debug |-> tracingNow]
      BY <1>0, <1>8, <2>6 DEF Document!Render, Document!Level, Calls, Document!Idle
    <3> HIDE DEF r
    <3>2. QED BY <1>0, <1>8, <3>1 DEF Document!Render, Document!Level, Progress, Sound, Document!Wanted
  <2> HIDE DEF r
  <2>8. QED BY <1>1, <2>1, <2>2, <2>3, <2>4, <2>5, <2>7
<1>9. ASSUME Document!Refuse(t)
      PROVE  Books'
  <2> DEFINE r == Document!Idle
  <2>1. call' = [call EXCEPT ![t] = r] /\ call[t].at # "idle"
    BY <1>0, <1>9 DEF Document!Refuse, Books, CallsOK
  <2>2. r \in Calls /\ Sound(r) /\ cfg' \in Configs /\ tracingNow' \in BOOLEAN
    BY <1>0, <1>9 DEF Document!Refuse, Books, CallsOK, Calls, Places, Sound, Document!Idle, Document!Jobs,
                      Document!Documents
  <2>3. overlapped' = overlapped
    BY <1>9 DEF Document!Refuse
  <2>4. Limited => (tracingNow' => armed' \/ Limits(r) \/ (~Limits(call[t]) /\ tracingNow /\ ~armed))
    BY <1>0, <1>9 DEF Document!Refuse, Limited, Limits
  <2>5. Told => (restart' \/ applied' = staged' \/ r.at = "restart"
                 \/ (call[t].at # "restart" /\ UNCHANGED <<restart, applied, staged>>))
    BY <1>9 DEF Document!Refuse
  <2>6. call'[t] = r
    BY <1>0, <2>1 DEF Books, CallsOK
  <2>7. ~overlapped /\ Progress(call[t]) =>
            IF r.at = "idle" THEN staged' = Document!Wanted' ELSE Progress(call[t])'
    <3>1. /\ call'[t].at = r.at /\ call'[t].job = r.job /\ call'[t].conf = r.conf /\ call'[t].doc = r.doc
          /\ r.at = "idle"
      BY <1>0, <1>9, <2>6 DEF Document!Refuse, Calls, Document!Idle
    <3> HIDE DEF r
    <3>2. staged' = staged /\ cfg' = cfg /\ call[t].at = "validate" /\ call[t].job \in {"start", "reload"}
      BY <1>0, <1>9 DEF Document!Refuse, Sound, Document!Jobs
    <3>3. CASE call[t].job = "start"
      <4>1. tracingNow' = FALSE
        BY <1>9, <3>3 DEF Document!Refuse
      <4>2. QED BY <3>1, <3>2, <3>3, <4>1 DEF Progress, Document!Wanted
    <3>4. CASE call[t].job = "reload"
      <4>1. tracingNow' = tracingNow
        BY <1>0, <1>9, <3>4 DEF Document!Refuse
      <4>2. QED BY <3>1, <3>2, <3>4, <4>1 DEF Progress, Document!Wanted
    <3>5. QED BY <3>2, <3>3, <3>4
  <2> HIDE DEF r
  <2>8. QED BY <1>1, <2>1, <2>2, <2>3, <2>4, <2>5, <2>7
<1>10. ASSUME Document!Accept(t)
      PROVE  Books'
  <2> DEFINE r == [call[t] EXCEPT !.at = IF call[t].job = "start" THEN "arm"
                                         ELSE IF staged = call[t].doc THEN "swap" ELSE "store"]
  <2>1. call' = [call EXCEPT ![t] = r] /\ call[t].at # "idle"
    BY <1>0, <1>10 DEF Document!Accept, Books, CallsOK
  <2>2. r \in Calls /\ Sound(r) /\ cfg' \in Configs /\ tracingNow' \in BOOLEAN
    BY <1>0, <1>10 DEF Document!Accept, Books, CallsOK, Calls, Places, Sound, Document!Idle, Document!Jobs,
                      Document!Documents
  <2>3. overlapped' = overlapped
    BY <1>10 DEF Document!Accept
  <2>4. Limited => (tracingNow' => armed' \/ Limits(r) \/ (~Limits(call[t]) /\ tracingNow /\ ~armed))
    BY <1>0, <1>10 DEF Document!Accept, Limited, Limits
  <2>5. Told => (restart' \/ applied' = staged' \/ r.at = "restart"
                 \/ (call[t].at # "restart" /\ UNCHANGED <<restart, applied, staged>>))
    BY <1>10 DEF Document!Accept
  <2>6. call'[t] = r
    BY <1>0, <2>1 DEF Books, CallsOK
  <2>7. ~overlapped /\ Progress(call[t]) =>
            IF r.at = "idle" THEN staged' = Document!Wanted' ELSE Progress(call[t])'
    BY <1>0, <1>10, <2>6 DEF Document!Accept, Calls, Progress, Sound, Document!Wanted, Document!Idle
  <2> HIDE DEF r
  <2>8. QED BY <1>1, <2>1, <2>2, <2>3, <2>4, <2>5, <2>7
<1>11. ASSUME Document!ArmLimit(t)
      PROVE  Books'
  <2> DEFINE r == [call[t] EXCEPT !.at = "stage"]
  <2>1. call' = [call EXCEPT ![t] = r] /\ call[t].at # "idle"
    BY <1>0, <1>11 DEF Document!ArmLimit, Books, CallsOK
  <2>2. r \in Calls /\ Sound(r) /\ cfg' \in Configs /\ tracingNow' \in BOOLEAN
    BY <1>0, <1>11 DEF Document!ArmLimit, Books, CallsOK, Calls, Places, Sound, Document!Idle, Document!Jobs,
                      Document!Documents
  <2>3. overlapped' = overlapped
    BY <1>11 DEF Document!ArmLimit
  <2>4. Limited => (tracingNow' => armed' \/ Limits(r) \/ (~Limits(call[t]) /\ tracingNow /\ ~armed))
    BY <1>0, <1>11 DEF Document!ArmLimit, Limited, Limits
  <2>5. Told => (restart' \/ applied' = staged' \/ r.at = "restart"
                 \/ (call[t].at # "restart" /\ UNCHANGED <<restart, applied, staged>>))
    BY <1>11 DEF Document!ArmLimit
  <2>6. call'[t] = r
    BY <1>0, <2>1 DEF Books, CallsOK
  <2>7. ~overlapped /\ Progress(call[t]) =>
            IF r.at = "idle" THEN staged' = Document!Wanted' ELSE Progress(call[t])'
    BY <1>0, <1>11, <2>6 DEF Document!ArmLimit, Calls, Progress, Sound, Document!Wanted, Document!Idle
  <2> HIDE DEF r
  <2>8. QED BY <1>1, <2>1, <2>2, <2>3, <2>4, <2>5, <2>7
<1>12. ASSUME Document!StoreConfig(t)
      PROVE  Books'
  <2> DEFINE r == IF call[t].at = "store" THEN [call[t] EXCEPT !.at = "stage"] ELSE Document!Idle
  <2>1. call' = [call EXCEPT ![t] = r] /\ call[t].at # "idle"
    BY <1>0, <1>12 DEF Document!StoreConfig, Books, CallsOK
  <2>2. r \in Calls /\ Sound(r) /\ cfg' \in Configs /\ tracingNow' \in BOOLEAN
    BY <1>0, <1>12 DEF Document!StoreConfig, Books, CallsOK, Calls, Places, Sound, Document!Idle, Document!Jobs,
                      Document!Documents
  <2>3. overlapped' = overlapped
    BY <1>12 DEF Document!StoreConfig
  <2>4. Limited => (tracingNow' => armed' \/ Limits(r) \/ (~Limits(call[t]) /\ tracingNow /\ ~armed))
    BY <1>0, <1>12 DEF Document!StoreConfig, Limited, Limits
  <2>5. Told => (restart' \/ applied' = staged' \/ r.at = "restart"
                 \/ (call[t].at # "restart" /\ UNCHANGED <<restart, applied, staged>>))
    BY <1>12 DEF Document!StoreConfig
  <2>6. call'[t] = r
    BY <1>0, <2>1 DEF Books, CallsOK
  <2>7. ~overlapped /\ Progress(call[t]) =>
            IF r.at = "idle" THEN staged' = Document!Wanted' ELSE Progress(call[t])'
    BY <1>0, <1>12, <2>6 DEF Document!StoreConfig, Calls, Progress, Sound, Document!Wanted, Document!Idle
  <2> HIDE DEF r
  <2>8. QED BY <1>1, <2>1, <2>2, <2>3, <2>4, <2>5, <2>7
<1>13. ASSUME Document!SetDocument(t)
      PROVE  Books'
  <2> DEFINE r == [Document!Idle EXCEPT !.at = "restart"]
  <2>1. call' = [call EXCEPT ![t] = r] /\ call[t].at # "idle"
    BY <1>0, <1>13 DEF Document!SetDocument, Books, CallsOK
  <2>2. r \in Calls /\ Sound(r) /\ cfg' \in Configs /\ tracingNow' \in BOOLEAN
    BY <1>0, <1>13 DEF Document!SetDocument, Books, CallsOK, Calls, Places, Sound, Document!Idle, Document!Jobs,
                      Document!Documents
  <2>3. overlapped' = overlapped
    BY <1>13 DEF Document!SetDocument
  <2>4. Limited => (tracingNow' => armed' \/ Limits(r) \/ (~Limits(call[t]) /\ tracingNow /\ ~armed))
    BY <1>0, <1>13 DEF Document!SetDocument, Limited, Limits
  <2>5. Told => (restart' \/ applied' = staged' \/ r.at = "restart"
                 \/ (call[t].at # "restart" /\ UNCHANGED <<restart, applied, staged>>))
    BY <1>13 DEF Document!SetDocument
  <2>6. call'[t] = r
    BY <1>0, <2>1 DEF Books, CallsOK
  <2>7. ~overlapped /\ Progress(call[t]) =>
            IF r.at = "idle" THEN staged' = Document!Wanted' ELSE Progress(call[t])'
    BY <1>0, <1>13, <2>6 DEF Document!SetDocument, Calls, Progress, Sound, Document!Wanted, Document!Idle
  <2> HIDE DEF r
  <2>8. QED BY <1>1, <2>1, <2>2, <2>3, <2>4, <2>5, <2>7
<1>14. ASSUME Document!Restart(t)
      PROVE  Books'
  <2> DEFINE r == Document!Idle
  <2>1. call' = [call EXCEPT ![t] = r] /\ call[t].at # "idle"
    BY <1>0, <1>14 DEF Document!Restart, Books, CallsOK
  <2>2. r \in Calls /\ Sound(r) /\ cfg' \in Configs /\ tracingNow' \in BOOLEAN
    BY <1>0, <1>14 DEF Document!Restart, Books, CallsOK, Calls, Places, Sound, Document!Idle, Document!Jobs,
                      Document!Documents
  <2>3. overlapped' = overlapped
    BY <1>14 DEF Document!Restart
  <2>4. Limited => (tracingNow' => armed' \/ Limits(r) \/ (~Limits(call[t]) /\ tracingNow /\ ~armed))
    BY <1>0, <1>14 DEF Document!Restart, Limited, Limits
  <2>5. Told => (restart' \/ applied' = staged' \/ r.at = "restart"
                 \/ (call[t].at # "restart" /\ UNCHANGED <<restart, applied, staged>>))
    BY <1>14 DEF Document!Restart
  <2>6. call'[t] = r
    BY <1>0, <2>1 DEF Books, CallsOK
  <2>7. ~overlapped /\ Progress(call[t]) =>
            IF r.at = "idle" THEN staged' = Document!Wanted' ELSE Progress(call[t])'
    BY <1>0, <1>14, <2>6 DEF Document!Restart, Calls, Progress, Sound, Document!Wanted, Document!Idle
  <2> HIDE DEF r
  <2>8. QED BY <1>1, <2>1, <2>2, <2>3, <2>4, <2>5, <2>7
<1>15. QED
  BY <1>2, <1>3, <1>4, <1>5, <1>6, <1>7, <1>8, <1>9, <1>10, <1>11, <1>12, <1>13, <1>14
     DEF Document!Steps, Document!Activate

\* Every step of a call, of a time limit and of the runner keeps the books.
LEMMA BooksStep == Books /\ [Document!Next]_(Document!vars) => Books'
<1> SUFFICES ASSUME Books, [Document!Next]_(Document!vars) PROVE Books'
  OBVIOUS
<1>1. Callers \subseteq Threads /\ Timers \subseteq Threads
  BY DEF Threads, Document!Threads
<1>2. ASSUME NEW t \in Callers, Document!CallReload(t) PROVE Books'
  BY <1>1, <1>2, BeginStep DEF Document!CallReload, Document!Jobs
<1>3. ASSUME NEW t \in Callers, Document!CallStartTrace(t) PROVE Books'
  BY <1>1, <1>3, BeginStep DEF Document!CallStartTrace, Document!Jobs
<1>4. ASSUME NEW t \in Callers, Document!CallStopTrace(t) PROVE Books'
  BY <1>1, <1>4, BeginStep DEF Document!CallStopTrace, Document!Jobs
<1>5. ASSUME NEW t \in Timers, Document!Limit(t) PROVE Books'
  <2>1. CASE tracingNow
    BY <1>1, <1>5, <2>1, BeginStep DEF Document!Limit, Document!Jobs
  <2>2. CASE ~tracingNow
    <3>1. UNCHANGED <<cfg, tracingNow, staged, restart, applied, call, overlapped>>
      BY <1>5, <2>2 DEF Document!Limit
    <3>2. QED
      BY <2>2, <3>1 DEF Books, CallsOK, Limited, Told, Alone, Progress, Document!Wanted
  <2>3. QED BY <2>1, <2>2
<1>6. ASSUME NEW t \in Threads, Document!Steps(t) PROVE Books'
  BY <1>6, CallStep
<1>7. CASE Document!Relaunch
  BY <1>7 DEF Document!Relaunch, Books, CallsOK, Limited, Told, Alone, Progress, Document!Wanted
<1>8. CASE UNCHANGED Document!vars
  BY <1>8 DEF Document!vars, Books, CallsOK, Limited, Told, Alone, Progress, Document!Wanted
<1>9. QED
  BY <1>2, <1>3, <1>4, <1>5, <1>6, <1>7, <1>8 DEF Document!Next, Threads

LEMMA BooksKept == Document!Spec => []Books
<1>1. Document!Init => Books
  <2> SUFFICES ASSUME Document!Init PROVE Books
    OBVIOUS
  <2>1. \A t \in Threads : call[t] = Document!Idle
    BY DEF Document!Init, Threads
  <2>2. Document!Idle \in Calls /\ Sound(Document!Idle) /\ Document!Idle.at = "idle"
    BY DEF Calls, Places, Sound, Document!Idle
  <2>3. CallsOK
    BY <2>1, <2>2 DEF CallsOK, Document!Init, Threads
  <2>4. Limited /\ Told /\ Alone
    BY <2>1, <2>2 DEF Document!Init, Limited, Told, Alone, Document!Wanted
  <2>5. QED BY <2>3, <2>4 DEF Books
<1>2. QED BY <1>1, BooksStep, PTL DEF Document!Spec

\* However starts, stops, refusals and expired limits overlap, no trace runs without a time limit
\* once the calls are through: whoever takes the limit away goes on to end the trace.
THEOREM LimitKept == Document!Spec => []TraceLimited
<1>1. Books => TraceLimited
  BY DEF Books, Limited, Limits, TraceLimited, Document!TraceLimited, Document!Settled,
         Document!Idle, Threads
<1>2. QED BY <1>1, BooksKept, PTL

\* Between calls that did not overlap the staged document is the live configuration's at the level
\* the trace calls for; and, overlap or not, sing-box runs with what was staged last once it has
\* seen the last restart.
THEOREM DocumentFollows == Document!Spec => []DocumentMatches
<1>1. Books => DocumentMatches
  <2> SUFFICES ASSUME Books PROVE DocumentMatches
    OBVIOUS
  <2>1. Document!Settled => \A t \in Threads : call[t].at = "idle"
    BY DEF Document!Settled, Document!Idle, Threads
  <2>2. QED BY <2>1 DEF Books, Alone, Told, DocumentMatches, Document!DocumentMatches
<1>2. QED BY <1>1, BooksKept, PTL

----------------------------------------------------------------------------
(* The menu's offer.                                                       *)

\* A release that is known is newer; the answer about to be shown says so; nothing can be clicked
\* before it is shown, and what is shown then is what an update puts back.
Offered ==
    /\ found # Updates!Unknown => Updates!IsNewer(found, Version)
    /\ ask = "asked" => found = Updates!Unknown
    /\ ask = "answered" =>
            IF found # Updates!Unknown THEN answer = Updates!Title("offer", found)
            ELSE answer.says # "offer"
    /\ found = Updates!Unknown \/ ask = "answered" => ~item.on /\ ~updating
    /\ found # Updates!Unknown /\ ask # "answered" =>
        /\ updateTitle = Updates!Title("offer", found)
        /\ \/ item = Updates!Shown(updateTitle, TRUE)
           \/ item = Updates!Shown(Updates!Title("updating", Updates!Unknown), FALSE)

LEMMA OfferedStep == Offered /\ [Updates!Next]_(Updates!vars) => Offered'
<1> SUFFICES ASSUME Offered, [Updates!Next]_(Updates!vars) PROVE Offered'
  OBVIOUS
<1> USE DEF Offered, Updates!Title, Updates!Shown
<1>1. CASE Updates!MenuOpened
  BY <1>1 DEF Updates!MenuOpened
<1>2. CASE Updates!Latest
  <2>1. ASSUME NEW st, Updates!Answered(st), st.says # "offer", st.newer = Updates!Unknown
        PROVE  Offered'
    BY <2>1 DEF Updates!Answered
  <2>2. ASSUME NEW tag \in Tags, Updates!IsNewer(tag, Version),
               Updates!Answered(Updates!Title("offer", tag))
        PROVE  Offered'
    <3>1. tag # Updates!Unknown
      BY <2>2 DEF Updates!IsNewer, Updates!Unknown
    <3>2. found' = tag /\ answer' = Updates!Title("offer", tag)
      BY <2>2, <3>1 DEF Updates!Answered
    <3>3. QED BY <2>2, <3>1, <3>2 DEF Updates!Answered
  <2>3. QED BY <1>2, <2>1, <2>2 DEF Updates!Latest
<1>3. CASE Updates!ShowVersion
  <2>1. CASE found = Updates!Unknown
    BY <1>3, <2>1 DEF Updates!ShowVersion
  <2>2. CASE found # Updates!Unknown
    <3>1. answer = Updates!Title("offer", found) /\ (answer.says = "offer") = TRUE
      BY <1>3, <2>2 DEF Updates!ShowVersion
    <3>2. item' = Updates!Shown(answer, TRUE) /\ updateTitle' = answer
      BY <1>3, <3>1 DEF Updates!ShowVersion
    <3>3. QED BY <1>3, <2>2, <3>1, <3>2 DEF Updates!ShowVersion
  <2>3. QED BY <2>1, <2>2
<1>4. CASE Updates!AskDone
  BY <1>4 DEF Updates!AskDone
<1>5. CASE Updates!RunUpdate
  BY <1>5 DEF Updates!RunUpdate
<1>6. CASE Updates!UpdateDone
  BY <1>6 DEF Updates!UpdateDone
<1>7. CASE Updates!Tick
  BY <1>7 DEF Updates!Tick
<1>8. CASE UNCHANGED Updates!vars
  BY <1>8 DEF Updates!vars
<1>9. QED BY <1>1, <1>2, <1>3, <1>4, <1>5, <1>6, <1>7, <1>8 DEF Updates!Next

\* For any version, tags and cooldown: once a newer release is known and shown, the item offers
\* just that release or is busy with it, and nothing else can ever be clicked.
THEOREM OfferKept == Updates!Spec => []OfferStands
<1>1. Updates!Init => Offered
  BY DEF Updates!Init, Offered, Updates!Title, Updates!Shown
<1>2. Offered => OfferStands
  BY DEF Offered, OfferStands, Updates!OfferStands, Updates!Title, Updates!Shown
<1>3. QED BY <1>1, <1>2, OfferedStep, PTL DEF Updates!Spec

----------------------------------------------------------------------------
(* The ring.                                                               *)

Entry == [seq : Nat, key : Keys, count : Nat]

\* Numbers are given out one by one, and the ring holds the last of them.
RingOK ==
    /\ seq \in Nat /\ ring \in Seq(Entry) /\ Len(ring) <= seq
    /\ \A i \in 1 .. Len(ring) : ring[i].seq = seq - Len(ring) + i

\* A key maps to an entry of its own, and to none older than its newest.
KeysOK ==
    /\ recent \in [Keys -> Nat] /\ \A k \in Keys : recent[k] <= seq
    /\ \A i \in 1 .. Len(ring) :
        /\ recent[ring[i].key] = 0 \/ recent[ring[i].key] >= ring[i].seq
        /\ \A k \in Keys : recent[k] = ring[i].seq => ring[i].key = k

\* A message as a subscriber gets it is an entry, as it was at some time.
Heard(m) ==
    /\ m \in Nat \X Nat /\ m[1] <= seq
    /\ \A i \in 1 .. Len(ring) : ring[i].seq = m[1] => m[2] <= ring[i].count

\* So is what a publisher is about to broadcast, and what has been.
HeardOK ==
    /\ at \in [Publishers -> {"idle", "offered", "send"}]
    /\ held = [p \in Publishers |-> held[p]]
    /\ \A p \in Publishers : at[p] = "offered" => held[p][1] \in Keys
    /\ \A p \in Publishers : at[p] = "send" => Heard(held[p])
    /\ sub \in Seq(Nat \X Nat) /\ \A j \in 1 .. Len(sub) : Heard(sub[j])

Kept == RingOK /\ KeysOK /\ HeardOK

\* A ring that only counts more, drops its oldest and gets a new number, has nothing else in it.
LEMMA StillHeard ==
    ASSUME RingOK, RingOK', seq' >= seq,
           \A i \in 1 .. Len(ring') : ring'[i].seq = seq + 1 \/
               \E j \in 1 .. Len(ring) : ring'[i].seq = ring[j].seq /\ ring'[i].count >= ring[j].count,
           NEW m, Heard(m)
    PROVE  Heard(m)'
<1>1. m \in Nat \X Nat /\ m[1] <= seq'
  BY DEF Heard, RingOK
<1>2. ASSUME NEW i \in 1 .. Len(ring'), ring'[i].seq = m[1] PROVE m[2] <= ring'[i].count
  <2>1. m[1] <= seq /\ m[1] \in Nat /\ m[2] \in Nat
    BY DEF Heard
  <2>2. ring'[i].seq # seq + 1
    BY <1>2, <2>1 DEF RingOK
  <2>3. PICK j \in 1 .. Len(ring) : ring'[i].seq = ring[j].seq /\ ring'[i].count >= ring[j].count
    BY <2>2
  <2>4. m[2] <= ring[j].count
    BY <1>2, <2>3 DEF Heard
  <2>5. ring'[i] \in Entry /\ ring[j] \in Entry
    BY <2>3 DEF RingOK
  <2>6. QED BY <2>1, <2>3, <2>4, <2>5 DEF Entry
<1>3. QED BY <1>1, <1>2 DEF Heard

\* What Appended makes of a ring: the new entry at the end, the others moved by at most one.
LEMMA AppendedRing ==
    ASSUME RingOK, NEW e \in Entry
    PROVE  /\ Appended(e) \in Seq(Entry) /\ Len(Appended(e)) \in 1 .. Len(ring) + 1
           /\ Appended(e)[Len(Appended(e))] = e
           /\ \A i \in 1 .. Len(Appended(e)) - 1 :
                /\ i + Len(ring) + 1 - Len(Appended(e)) \in 1 .. Len(ring)
                /\ Appended(e)[i] = ring[i + Len(ring) + 1 - Len(Appended(e))]
<1>1. ring \in Seq(Entry) /\ Cap \in Nat \ {0}
  BY LogBusAssumption DEF RingOK
<1>2. CASE Len(ring) = Cap
  <2>1. Appended(e) = Append(Tail(ring), e)
    BY <1>2 DEF Appended
  <2>2. Tail(ring) \in Seq(Entry) /\ Len(Tail(ring)) = Len(ring) - 1
    BY <1>1, <1>2
  <2>3. \A i \in 1 .. Len(ring) - 1 : Tail(ring)[i] = ring[i + 1]
    BY <1>1, <1>2
  <2>4. Appended(e) \in Seq(Entry) /\ Len(Appended(e)) = Len(ring) /\ Appended(e)[Len(ring)] = e
    BY <1>1, <2>1, <2>2
  <2>5. \A i \in 1 .. Len(ring) - 1 : Appended(e)[i] = ring[i + 1]
    BY <1>1, <2>1, <2>2, <2>3
  <2>6. QED BY <1>1, <1>2, <2>4, <2>5
<1>3. CASE Len(ring) # Cap
  <2>1. Appended(e) = Append(ring, e)
    BY <1>3 DEF Appended
  <2>2. QED BY <1>1, <2>1
<1>4. QED BY <1>2, <1>3

\* find: a live key is at the position that is computed for it.
LEMMA FoundThere ==
    ASSUME RingOK, KeysOK, NEW k \in Keys, Found(k)
    PROVE  Index(k) \in 1 .. Len(ring) /\ ring[Index(k)].seq = recent[k] /\ ring[Index(k)].key = k
<1>1. Index(k) \in 1 .. Len(ring) /\ 1 \in 1 .. Len(ring) /\ recent[k] \in Nat
  BY DEF Found, RingOK, KeysOK
<1>2. ring[1].seq = seq - Len(ring) + 1 /\ seq \in Nat /\ Len(ring) \in Nat
  BY <1>1 DEF RingOK
<1>3. Index(k) = recent[k] - (seq - Len(ring) + 1) + 1
  BY <1>2 DEF Index
<1>4. ring[Index(k)].seq = seq - Len(ring) + Index(k)
  BY <1>1 DEF RingOK
<1>5. ring[Index(k)].seq = recent[k]
  BY <1>1, <1>2, <1>3, <1>4
<1>6. QED BY <1>1, <1>5 DEF KeysOK

\* A repeated message is counted in its entry.
LEMMA RepeatStep == ASSUME Kept, NEW p \in Publishers, Repeat(p) PROVE Kept'
<1> DEFINE k == held[p][1]
           x == Index(k)
<1>1. k \in Keys /\ RingOK /\ KeysOK /\ HeardOK
  BY DEF Repeat, Kept, HeardOK
<1>2. x \in 1 .. Len(ring) /\ ring[x].seq = recent[k] /\ ring[x] \in Entry
  BY <1>1, FoundThere DEF Repeat, RingOK
<1>3. /\ ring' = [ring EXCEPT ![x] = [ring[x] EXCEPT !.count = ring[x].count + 1]]
      /\ UNCHANGED <<seq, recent, sub>>
      /\ held' = [held EXCEPT ![p] = <<recent[k], ring[x].count + 1>>]
      /\ at' = [at EXCEPT ![p] = "send"]
  BY <1>1, <1>2 DEF Repeat, tail, RingOK
<1> HIDE DEF k, x
<1>4. /\ ring' \in Seq(Entry) /\ Len(ring') = Len(ring)
      /\ ring'[x] = [ring[x] EXCEPT !.count = ring[x].count + 1]
      /\ \A i \in 1 .. Len(ring) : i # x => ring'[i] = ring[i]
  <2>1. [ring[x] EXCEPT !.count = ring[x].count + 1] \in Entry
    BY <1>2 DEF Entry
  <2>2. ring \in Seq(Entry)
    BY <1>1 DEF RingOK
  <2>3. QED BY <1>2, <1>3, <2>1, <2>2, ExceptSeq
<1>5. \A i \in 1 .. Len(ring) :
        ring'[i].seq = ring[i].seq /\ ring'[i].key = ring[i].key /\ ring'[i].count >= ring[i].count
  <2>1. \A i \in 1 .. Len(ring) : ring[i] \in Entry
    BY <1>1 DEF RingOK
  <2>2. ring'[x].seq = ring[x].seq /\ ring'[x].key = ring[x].key /\ ring'[x].count = ring[x].count + 1
    BY <1>2, <1>4 DEF Entry
  <2>3. ring[x].count \in Nat /\ \A i \in 1 .. Len(ring) : ring[i].count \in Nat
    BY <1>2, <2>1 DEF Entry
  <2>4. ASSUME NEW i \in 1 .. Len(ring)
        PROVE  ring'[i].seq = ring[i].seq /\ ring'[i].key = ring[i].key /\ ring'[i].count >= ring[i].count
    <3>1. CASE i = x
      BY <2>2, <2>3, <3>1
    <3>2. CASE i # x
      BY <1>4, <2>3, <3>2
    <3>3. QED BY <3>1, <3>2
  <2>5. QED BY <2>4
<1>6. RingOK'
  BY <1>1, <1>3, <1>4, <1>5 DEF RingOK
<1>7. KeysOK'
  BY <1>1, <1>3, <1>4, <1>5 DEF KeysOK
<1>8. ASSUME NEW m, Heard(m) PROVE Heard(m)'
  <2>1. seq' >= seq
    BY <1>1, <1>3 DEF RingOK
  <2>2. QED BY <1>1, <1>4, <1>5, <1>6, <1>8, <2>1, StillHeard
<1>9. /\ recent[k] \in Nat /\ recent[k] <= seq /\ ring[x].count + 1 \in Nat
      /\ ring'[x].count = ring[x].count + 1
  BY <1>1, <1>2, <1>4 DEF KeysOK, Entry
<1>10. \A i \in 1 .. Len(ring) : ring[i].seq = recent[k] => i = x
  BY <1>1, <1>2 DEF RingOK
<1>11. held'[p] = <<recent[k], ring[x].count + 1>>
  BY <1>1, <1>3 DEF HeardOK
<1>12. Heard(held[p])'
  <2>1. ASSUME NEW i \in 1 .. Len(ring'), ring'[i].seq = recent[k]
        PROVE  ring[x].count + 1 <= ring'[i].count
    <3>1. i = x
      BY <1>4, <1>5, <1>10, <2>1
    <3>2. QED BY <1>9, <3>1
  <2>2. held'[p] \in Nat \X Nat /\ held'[p][1] = recent[k] /\ held'[p][2] = ring[x].count + 1
    BY <1>9, <1>11
  <2>3. QED BY <1>3, <1>9, <2>1, <2>2 DEF Heard
<1>13. HeardOK'
  <2>1. \A j \in 1 .. Len(sub') : Heard(sub[j])'
    BY <1>1, <1>3, <1>8 DEF HeardOK, Heard
  <2>2. \A u \in Publishers : u # p => at'[u] = at[u] /\ held'[u] = held[u]
    BY <1>1, <1>3 DEF HeardOK
  <2>3. at'[p] = "send" /\ at' \in [Publishers -> {"idle", "offered", "send"}]
    BY <1>1, <1>3 DEF HeardOK
  <2>4. \A u \in Publishers : at'[u] = "send" => Heard(held[u])'
    BY <1>1, <1>8, <1>12, <2>2 DEF HeardOK, Heard
  <2>5. QED BY <1>1, <1>3, <2>1, <2>2, <2>3, <2>4 DEF HeardOK
<1>14. QED BY <1>6, <1>7, <1>13 DEF Kept

\* A new one gets the next number, and its key.
LEMMA RecordStep == ASSUME Kept, NEW p \in Publishers, Record(p) PROVE Kept'
<1> DEFINE k == held[p][1]
           e == [seq |-> seq + 1, key |-> k, count |-> 1]
           n == Len(ring')
           d == Len(ring) + 1 - n
<1>1. k \in Keys /\ RingOK /\ KeysOK /\ HeardOK
  BY DEF Record, Kept, HeardOK
<1>2. /\ ring' = Appended(e) /\ seq' = seq + 1 /\ sub' = sub
      /\ recent' = Pruned([recent EXCEPT ![k] = seq + 1], since', k)
      /\ held' = [held EXCEPT ![p] = <<seq + 1, 1>>] /\ at' = [at EXCEPT ![p] = "send"]
  BY DEF Record, tail
<1>3. e \in Entry /\ e.seq = seq + 1 /\ e.key = k /\ e.count = 1 /\ seq \in Nat /\ Len(ring) \in Nat
  BY <1>1 DEF Entry, RingOK
<1> HIDE DEF k, e
<1>4. /\ ring' \in Seq(Entry) /\ n \in 1 .. Len(ring) + 1 /\ ring'[n] = e
      /\ \A i \in 1 .. n - 1 : i + d \in 1 .. Len(ring) /\ ring'[i] = ring[i + d]
  <2>1. /\ Appended(e) \in Seq(Entry) /\ Len(Appended(e)) \in 1 .. Len(ring) + 1
        /\ Appended(e)[Len(Appended(e))] = e
        /\ \A i \in 1 .. Len(Appended(e)) - 1 :
            /\ i + Len(ring) + 1 - Len(Appended(e)) \in 1 .. Len(ring)
            /\ Appended(e)[i] = ring[i + Len(ring) + 1 - Len(Appended(e))]
    BY <1>1, <1>3, AppendedRing
  <2>2. \A i \in 1 .. n - 1 : i + d = i + Len(ring) + 1 - n
    BY <1>2, <1>3, <2>1
  <2>3. QED BY <1>2, <2>1, <2>2
<1>5. \A i \in 1 .. n : i = n \/ i \in 1 .. n - 1
  BY <1>3, <1>4
<1>6. RingOK'
  <2>1. Len(ring) <= seq /\ \A i \in 1 .. Len(ring) : ring[i].seq = seq - Len(ring) + i
    BY <1>1 DEF RingOK
  <2>2. n <= seq' /\ seq' \in Nat
    BY <1>2, <1>3, <1>4, <2>1
  <2>3. \A i \in 1 .. n - 1 : ring'[i].seq = seq - Len(ring) + (i + d)
    BY <1>4, <2>1
  <2>4. \A i \in 1 .. n : ring'[i].seq = seq' - n + i
    BY <1>2, <1>3, <1>4, <1>5, <2>3
  <2>5. QED BY <1>4, <2>2, <2>4 DEF RingOK
<1>7. /\ recent' \in [Keys -> Nat]
      /\ \A y \in Keys : recent'[y] = 0 \/ recent'[y] = (IF y = k THEN seq + 1 ELSE recent[y])
  <2> DEFINE r == [recent EXCEPT ![k] = seq + 1]
  <2>1. r \in [Keys -> Nat] /\ \A y \in Keys : r[y] = IF y = k THEN seq + 1 ELSE recent[y]
    BY <1>1, <1>3 DEF KeysOK
  <2>2. recent' = Pruned(r, since', k)
    BY <1>2
  <2> HIDE DEF r
  <2>3. recent' \in [Keys -> Nat] /\ \A y \in Keys : recent'[y] \in {0, r[y]}
    BY <2>1, <2>2 DEF Pruned
  <2>4. QED BY <2>1, <2>3
<1>8. KeysOK'
  <2>1. \A y \in Keys : recent'[y] <= seq'
    <3>1. \A y \in Keys : recent[y] \in Nat /\ recent[y] <= seq
      BY <1>1 DEF KeysOK
    <3>2. ASSUME NEW y \in Keys PROVE recent'[y] <= seq + 1
      <4>1. recent'[y] = 0 \/ recent'[y] = seq + 1 \/ recent'[y] = recent[y]
        BY <1>7
      <4>2. QED BY <1>3, <3>1, <4>1
    <3>3. QED BY <1>2, <3>2
  <2>2. ASSUME NEW i \in 1 .. n
        PROVE  /\ recent'[ring'[i].key] = 0 \/ recent'[ring'[i].key] >= ring'[i].seq
               /\ \A y \in Keys : recent'[y] = ring'[i].seq => ring'[i].key = y
    <3>1. ring'[i] \in Entry /\ ring'[i].seq > 0
      BY <1>4, <1>6 DEF RingOK
    <3>2. CASE i = n
      <4>1. ring'[i].seq = seq + 1 /\ ring'[i].key = k
        BY <1>3, <1>4, <3>2
      <4>2. \A y \in Keys : recent[y] \in Nat /\ recent[y] <= seq
        BY <1>1 DEF KeysOK
      <4>3. \A y \in Keys : y # k => recent'[y] # seq + 1
        BY <1>3, <1>7, <4>2
      <4>4. recent'[k] = 0 \/ recent'[k] = seq + 1
        BY <1>1, <1>7
      <4>5. QED BY <1>1, <1>3, <4>1, <4>3, <4>4
    <3>3. CASE i \in 1 .. n - 1
      <4>1. PICK j \in 1 .. Len(ring) : ring'[i] = ring[j]
        BY <1>4, <3>3
      <4>2. ring[j].seq <= seq /\ ring[j].key \in Keys /\ ring[j].seq \in Nat
        BY <1>1, <3>1, <4>1 DEF RingOK, Entry
      <4>3. /\ recent[ring[j].key] = 0 \/ recent[ring[j].key] >= ring[j].seq
            /\ \A y \in Keys : recent[y] = ring[j].seq => ring[j].key = y
        BY <1>1 DEF KeysOK
      <4>4. QED BY <1>3, <1>7, <3>1, <4>1, <4>2, <4>3
    <3>4. QED BY <1>5, <3>2, <3>3
  <2>3. QED BY <1>7, <2>1, <2>2 DEF KeysOK
<1>9. ASSUME NEW m, Heard(m) PROVE Heard(m)'
  <2>1. seq' >= seq
    BY <1>2, <1>3
  <2>2. \A i \in 1 .. n : ring'[i].seq = seq + 1 \/ \E j \in 1 .. Len(ring) : ring'[i] = ring[j]
    <3>1. ring'[n].seq = seq + 1
      BY <1>3, <1>4
    <3>2. \A i \in 1 .. n - 1 : \E j \in 1 .. Len(ring) : ring'[i] = ring[j]
      BY <1>4
    <3>3. QED BY <1>5, <3>1, <3>2
  <2>3. \A j \in 1 .. Len(ring) : ring[j].count >= ring[j].count
    <3>1. \A j \in 1 .. Len(ring) : ring[j] \in Entry
      BY <1>1 DEF RingOK
    <3>2. \A j \in 1 .. Len(ring) : ring[j].count \in Nat
      BY <3>1 DEF Entry
    <3>3. QED BY <3>2
  <2>4. \A i \in 1 .. Len(ring') : ring'[i].seq = seq + 1 \/
            \E j \in 1 .. Len(ring) : ring'[i].seq = ring[j].seq /\ ring'[i].count >= ring[j].count
    BY <2>2, <2>3
  <2>5. QED BY <1>1, <1>6, <1>9, <2>1, <2>4, StillHeard
<1>10. Heard(held[p])'
  <2>1. held'[p] = <<seq + 1, 1>>
    BY <1>1, <1>2 DEF HeardOK
  <2>2. \A i \in 1 .. n : ring'[i].seq = seq + 1 => i = n
    BY <1>2, <1>3, <1>4, <1>6 DEF RingOK
  <2>3. QED BY <1>2, <1>3, <1>4, <2>1, <2>2 DEF Heard
<1>11. HeardOK'
  <2>1. \A j \in 1 .. Len(sub') : Heard(sub[j])'
    BY <1>1, <1>2, <1>9 DEF HeardOK, Heard
  <2>2. \A u \in Publishers : u # p => at'[u] = at[u] /\ held'[u] = held[u]
    BY <1>1, <1>2 DEF HeardOK
  <2>3. at'[p] = "send" /\ at' \in [Publishers -> {"idle", "offered", "send"}]
    BY <1>1, <1>2 DEF HeardOK
  <2>4. \A u \in Publishers : at'[u] = "send" => Heard(held[u])'
    BY <1>1, <1>9, <1>10, <2>2 DEF HeardOK, Heard
  <2>5. QED BY <1>1, <1>2, <2>1, <2>2, <2>3, <2>4 DEF HeardOK
<1>12. QED BY <1>6, <1>8, <1>11 DEF Kept

\* A broadcast hands on what its publisher recorded.
LEMMA BroadcastStep == ASSUME Kept, NEW p \in Publishers, Broadcast(p) PROVE Kept'
<1>1. RingOK /\ KeysOK /\ HeardOK /\ Heard(held[p])
  BY DEF Kept, HeardOK, Broadcast
<1>2. /\ UNCHANGED <<seq, ring, recent>> /\ at' = [at EXCEPT ![p] = "idle"]
      /\ held' = [held EXCEPT ![p] = NoEntry] /\ sub' \in {sub, Append(sub, held[p])}
  BY DEF Broadcast, book
<1>3. RingOK' /\ KeysOK'
  BY <1>1, <1>2 DEF RingOK, KeysOK
<1>4. sub' \in Seq(Nat \X Nat) /\ \A j \in 1 .. Len(sub') : Heard(sub'[j])
  <2>1. sub \in Seq(Nat \X Nat) /\ held[p] \in Nat \X Nat /\ \A j \in 1 .. Len(sub) : Heard(sub[j])
    BY <1>1 DEF HeardOK, Heard
  <2>2. CASE sub' = sub
    BY <2>1, <2>2
  <2>3. CASE sub' = Append(sub, held[p])
    <3>1. /\ sub' \in Seq(Nat \X Nat) /\ Len(sub') = Len(sub) + 1 /\ sub'[Len(sub')] = held[p]
          /\ \A j \in 1 .. Len(sub) : sub'[j] = sub[j]
      BY <2>1, <2>3
    <3>2. \A j \in 1 .. Len(sub') : j = Len(sub') \/ j \in 1 .. Len(sub)
      BY <2>1, <3>1
    <3>3. QED BY <1>1, <2>1, <3>1, <3>2
  <2>4. QED BY <1>2, <2>2, <2>3
<1>5. \A j \in 1 .. Len(sub') : Heard(sub[j])'
  BY <1>2, <1>4 DEF Heard
<1>6. \A u \in Publishers : u # p => at'[u] = at[u] /\ held'[u] = held[u]
  BY <1>1, <1>2 DEF HeardOK
<1>7. at'[p] = "idle" /\ at' \in [Publishers -> {"idle", "offered", "send"}]
  BY <1>1, <1>2 DEF HeardOK
<1>8. \A u \in Publishers : at'[u] = "send" => Heard(held[u])'
  BY <1>1, <1>2, <1>6, <1>7 DEF HeardOK, Heard
<1>9. HeardOK'
  BY <1>1, <1>2, <1>4, <1>5, <1>6, <1>7, <1>8 DEF HeardOK
<1>10. QED BY <1>3, <1>9 DEF Kept

\* Every step of a publisher, of a follower and of time keeps the books.
LEMMA KeptStep == Kept /\ [Next]_vars => Kept'
<1> SUFFICES ASSUME Kept, [Next]_vars PROVE Kept'
  OBVIOUS
<1> USE DEF book, tail
<1>1. ASSUME NEW p \in Publishers, NEW k \in Keys, Offer(p, k) PROVE Kept'
  BY <1>1 DEF Offer, Kept, RingOK, KeysOK, HeardOK, Heard
<1>2. ASSUME NEW p \in Publishers, Publish(p) PROVE Kept'
  BY <1>1, <1>2, RepeatStep, RecordStep, BroadcastStep
     DEF Publish, Consume, vars, Kept, RingOK, KeysOK, HeardOK, Heard
<1>3. CASE Snapshot \/ Subscribe \/ SetTracing \/ Tick \/ UNCHANGED vars
  BY <1>3 DEF Snapshot, Subscribe, SetTracing, Tick, vars, Kept, RingOK, KeysOK, HeardOK, Heard
<1>4. CASE Receive \/ Release
  <2>1. UNCHANGED <<seq, ring, recent, at, held>>
    BY <1>4 DEF Receive, Release
  <2>2. sub \in Seq(Nat \X Nat) /\ Len(sub) \in Nat
    BY DEF Kept, HeardOK
  <2>3. sub' \in Seq(Nat \X Nat) /\ \A j \in 1 .. Len(sub') : \E i \in 1 .. Len(sub) : sub'[j] = sub[i]
    <3>1. CASE Receive
      <4>1. sub # << >> /\ sub' = Tail(sub)
        BY <3>1 DEF Receive
      <4>2. /\ sub' \in Seq(Nat \X Nat) /\ Len(sub') = Len(sub) - 1
            /\ \A j \in 1 .. Len(sub') : sub'[j] = sub[j + 1]
        BY <2>2, <4>1, HeadTailProperties
      <4>3. \A j \in 1 .. Len(sub') : j + 1 \in 1 .. Len(sub)
        BY <2>2, <4>2
      <4>4. QED BY <4>2, <4>3
    <3>2. CASE Release
      BY <3>2 DEF Release
    <3>3. QED BY <1>4, <3>1, <3>2
  <2>4. \A j \in 1 .. Len(sub') : Heard(sub'[j])
    BY <2>3 DEF Kept, HeardOK
  <2>5. \A j \in 1 .. Len(sub') : Heard(sub[j])'
    BY <2>1, <2>4 DEF Heard
  <2>6. QED BY <2>1, <2>3, <2>5 DEF Kept, RingOK, KeysOK, HeardOK, Heard
<1>5. QED BY <1>2, <1>3, <1>4 DEF Next

\* For any number of publishers and keys, any capacity, window and buffer: the ring holds the
\* last entries recorded, each where find looks for it, a live key is mapped to its newest entry,
\* and no subscriber hears of a count its entry has not reached.
THEOREM LocatedAlways == Spec => []Located
<1>1. Init => Kept
  BY DEF Init, Kept, RingOK, KeysOK, HeardOK
<1>2. Kept => Located
  <2> SUFFICES ASSUME Kept PROVE Located
    OBVIOUS
  <2>1. DOMAIN ring = 1 .. Len(ring) /\ DOMAIN sub = 1 .. Len(sub) /\ Len(ring) \in Nat /\ seq \in Nat
    BY DEF Kept, RingOK, HeardOK
  <2>2. ring # << >> => Len(ring) \in 1 .. Len(ring) /\ 1 \in 1 .. Len(ring)
    BY DEF Kept, RingOK
  <2>3. ring # << >> => ring[Len(ring)].seq = seq
    BY <2>1, <2>2 DEF Kept, RingOK
  <2>4. ASSUME NEW i \in 1 .. Len(ring) PROVE ring[i].seq = ring[1].seq + i - 1
    <3>1. 1 \in 1 .. Len(ring)
      BY <2>1
    <3>2. ring[i].seq = seq - Len(ring) + i /\ ring[1].seq = seq - Len(ring) + 1
      BY <3>1 DEF Kept, RingOK
    <3>3. QED BY <2>1, <3>2
  <2>5. ASSUME NEW i \in 1 .. Len(ring), NEW j \in 1 .. Len(sub), ring[i].seq = sub[j][1]
        PROVE  sub[j][2] <= ring[i].count
    BY <2>5 DEF Kept, HeardOK, Heard
  <2>6. QED BY <2>1, <2>3, <2>4, <2>5 DEF Kept, KeysOK, Located
<1>3. QED BY <1>1, <1>2, KeptStep, PTL DEF Spec

----------------------------------------------------------------------------
(* The rows of a trace.                                                    *)

Lines == {"process", "domain"}

\* The sizes the table compares are those of the sets.
LEMMA SameSize == \A S : Trace!Cardinality(S) = Cardinality(S)
BY DEF Trace!Cardinality, Cardinality, Trace!IsFiniteSet, IsFiniteSet

\* Whether a line is among these, as the collector holds it.
Says(lines, line) == IF line \in lines THEN TRUE ELSE FALSE

\* What is pending of a connection is what its lines said, but for those that were half described
\* when there were too many; and there is never too much of it.
Described ==
    /\ said \in [Conns -> SUBSET Lines] /\ \A r \in DOMAIN rows : rows[r] \in Nat
    /\ \A c \in DOMAIN pending : pending[c] \in [process : BOOLEAN, domain : BOOLEAN, age : Nat]
    /\ DOMAIN pending \subseteq Trace!HalfSaid /\ IsFiniteSet(Trace!HalfSaid)
    /\ Cardinality(DOMAIN pending) <= MaxPending
    /\ active => \A c \in Conns \ crowded :
            /\ Trace!Pending(c).process = Says(said[c], "process")
            /\ Trace!Pending(c).domain = Says(said[c], "domain")

\* An outbound line makes a row, counts in it, or says that there is no room.
LEMMA Recorded ==
    ASSUME Described, NEW row, Trace!Record(row)
    PROVE  /\ \A r \in DOMAIN rows' : rows'[r] \in Nat
           /\ IF row \in DOMAIN rows'
              THEN rows'[row] = 1 + (IF row \in DOMAIN rows THEN rows[row] ELSE 0) ELSE full'
<1>1. CASE row \in DOMAIN rows
  BY <1>1 DEF Trace!Record, Described
<1>2. CASE row \notin DOMAIN rows /\ Cardinality(DOMAIN rows) >= MaxRows
  BY <1>2, SameSize DEF Trace!Record, Described
<1>3. CASE row \notin DOMAIN rows /\ ~(Cardinality(DOMAIN rows) >= MaxRows)
  BY <1>3, SameSize DEF Trace!Record, Described
<1>4. QED BY <1>1, <1>2, <1>3

\* The pruning leaves room for one more, and everything is in place when there was room before.
LEMMA PrunedRoom ==
    ASSUME Described
    PROVE  /\ DOMAIN Trace!Pruned \subseteq DOMAIN pending
           /\ \A c \in DOMAIN Trace!Pruned : Trace!Pruned[c] = pending[c]
           /\ Cardinality(DOMAIN Trace!Pruned) < MaxPending
           /\ Cardinality(Trace!HalfSaid) < MaxPending => DOMAIN Trace!Pruned = DOMAIN pending
<1> DEFINE fresh == {c \in DOMAIN pending : pending[c].age <= TTL}
           kept == IF Cardinality(DOMAIN pending) < MaxPending THEN DOMAIN pending
                   ELSE IF Cardinality(fresh) < MaxPending THEN fresh ELSE {}
<1>1. Trace!Pruned = [c \in kept |-> pending[c]]
  BY SameSize DEF Trace!Pruned
<1>2. Cardinality(kept) < MaxPending
  <2>1. Cardinality({}) < MaxPending
    BY TablesAssumption, FS_EmptySet DEF Trace!TraceAssumption
  <2> HIDE DEF fresh
  <2>2. CASE Cardinality(DOMAIN pending) < MaxPending
    BY <2>2
  <2>3. CASE ~(Cardinality(DOMAIN pending) < MaxPending) /\ Cardinality(fresh) < MaxPending
    BY <2>3
  <2>4. CASE ~(Cardinality(DOMAIN pending) < MaxPending) /\ ~(Cardinality(fresh) < MaxPending)
    BY <2>1, <2>4
  <2>5. QED BY <2>2, <2>3, <2>4
<1>3. Cardinality(DOMAIN pending) <= Cardinality(Trace!HalfSaid)
  BY FS_Subset DEF Described
<1>4. Cardinality(Trace!HalfSaid) \in Nat /\ Cardinality(DOMAIN pending) \in Nat
  BY FS_Subset, FS_CardinalityType DEF Described
<1>5. Cardinality(Trace!HalfSaid) < MaxPending => kept = DOMAIN pending
  BY <1>3, <1>4, TablesAssumption DEF Trace!TraceAssumption
<1>6. QED BY <1>1, <1>2, <1>5

\* What is pending of a connection is a record, whether there is any or not.
LEMMA PendingType ==
    ASSUME Described, NEW c
    PROVE  Trace!Pending(c) \in [process : BOOLEAN, domain : BOOLEAN, age : Nat]
BY DEF Described, Trace!Pending, Trace!Empty

\* A line that describes half a connection.
LEMMA HalfStep ==
    ASSUME Described, NEW c \in Conns, NEW line \in Lines, Trace!Half(c, line)
    PROVE  Described'
<1> DEFINE half == [Trace!Pending(c) EXCEPT ![line] = TRUE, !.age = 0]
<1>1. /\ active /\ UNCHANGED <<active, rows, full>> /\ pending' = Trace!With(Trace!Pruned, c, half)
      /\ said' = [said EXCEPT ![c] = said[c] \cup {line}]
      /\ crowded' = IF Cardinality(Trace!HalfSaid) >= MaxPending THEN crowded \cup (Trace!HalfSaid \ {c})
                    ELSE crowded
  BY SameSize DEF Trace!Half, Trace!Noted
<1>2. /\ half \in [process : BOOLEAN, domain : BOOLEAN, age : Nat]
      /\ half.process = IF line = "process" THEN TRUE ELSE Trace!Pending(c).process
      /\ half.domain = IF line = "domain" THEN TRUE ELSE Trace!Pending(c).domain
  <2>1. CASE line = "process"
    BY <2>1, PendingType
  <2>2. CASE line = "domain"
    BY <2>2, PendingType
  <2>3. QED BY <2>1, <2>2 DEF Lines
<1> HIDE DEF half
<1>3. /\ DOMAIN pending' = DOMAIN Trace!Pruned \cup {c} /\ pending'[c] = half
      /\ \A d \in DOMAIN Trace!Pruned : d # c => pending'[d] = pending[d]
  BY <1>1, PrunedRoom DEF Trace!With
<1>4. /\ said' \in [Conns -> SUBSET Lines] /\ said'[c] = said[c] \cup {line}
      /\ \A d \in Conns \ {c} : said'[d] = said[d]
  BY <1>1 DEF Described
<1>5. Trace!HalfSaid' = Trace!HalfSaid \cup {c}
  BY <1>4 DEF Trace!HalfSaid
<1>6. DOMAIN pending' \subseteq Trace!HalfSaid' /\ IsFiniteSet(Trace!HalfSaid)'
  BY <1>3, <1>5, PrunedRoom, FS_AddElement DEF Described
<1>7. Cardinality(DOMAIN pending') <= MaxPending
  <2>1. IsFiniteSet(DOMAIN Trace!Pruned)
    BY PrunedRoom, FS_Subset DEF Described
  <2>2. /\ Cardinality(DOMAIN Trace!Pruned) \in Nat
        /\ \/ Cardinality(DOMAIN pending') = Cardinality(DOMAIN Trace!Pruned) + 1
           \/ Cardinality(DOMAIN pending') = Cardinality(DOMAIN Trace!Pruned)
    BY <1>3, <2>1, FS_AddElement, FS_CardinalityType
  <2>3. QED BY <2>2, PrunedRoom, TablesAssumption DEF Trace!TraceAssumption
<1>8. \A d \in DOMAIN pending' : pending'[d] \in [process : BOOLEAN, domain : BOOLEAN, age : Nat]
  BY <1>2, <1>3, PrunedRoom DEF Described
<1>9. ASSUME NEW d \in Conns, d \notin crowded'
      PROVE  /\ Trace!Pending(d)'.process = Says(said'[d], "process")
             /\ Trace!Pending(d)'.domain = Says(said'[d], "domain")
  <2>1. d \notin crowded
    BY <1>1, <1>9
  <2>2. /\ Trace!Pending(d).process = Says(said[d], "process")
        /\ Trace!Pending(d).domain = Says(said[d], "domain")
    BY <1>1, <2>1 DEF Described
  <2>3. CASE d = c
    <3>1. Trace!Pending(d)' = half
      BY <1>3, <2>3 DEF Trace!Pending
    <3>2. CASE line = "process"
      BY <1>2, <1>4, <2>2, <2>3, <3>1, <3>2 DEF Says
    <3>3. CASE line = "domain"
      BY <1>2, <1>4, <2>2, <2>3, <3>1, <3>3 DEF Says
    <3>4. QED BY <3>2, <3>3 DEF Lines
  <2>4. CASE d # c
    <3>1. said'[d] = said[d] /\ (d \in DOMAIN pending' <=> d \in DOMAIN Trace!Pruned)
      BY <1>3, <1>4, <2>4
    <3>2. CASE d \in DOMAIN Trace!Pruned
      <4>1. Trace!Pending(d)' = Trace!Pending(d)
        BY <1>3, <2>4, <3>1, <3>2, PrunedRoom DEF Trace!Pending
      <4>2. QED BY <2>2, <3>1, <4>1
    <3>3. CASE d \notin DOMAIN pending
      <4>1. Trace!Pending(d)' = Trace!Pending(d)
        BY <3>1, <3>3, PrunedRoom DEF Trace!Pending, Trace!Empty
      <4>2. QED BY <2>2, <3>1, <4>1
    <3>4. CASE d \in DOMAIN pending /\ d \notin DOMAIN Trace!Pruned
      <4>1. ~(Cardinality(Trace!HalfSaid) < MaxPending)
        BY <3>4, PrunedRoom
      <4>2. Cardinality(Trace!HalfSaid) \in Nat
        BY FS_CardinalityType DEF Described
      <4>3. Cardinality(Trace!HalfSaid) >= MaxPending
        BY <4>1, <4>2, TablesAssumption DEF Trace!TraceAssumption
      <4>4. d \in Trace!HalfSaid
        BY <3>4 DEF Described
      <4>5. QED BY <1>1, <1>9, <2>4, <4>3, <4>4
    <3>5. QED BY <3>2, <3>3, <3>4
  <2>5. QED BY <2>3, <2>4
<1>10. QED BY <1>1, <1>4, <1>6, <1>7, <1>8, <1>9 DEF Described

\* The line that names the outbound of a connection ends what is pending of it.
LEMMA OutboundStep ==
    ASSUME Described, NEW c \in Conns, Trace!Outbound(c)
    PROVE  Described'
<1>1. /\ active' = active /\ pending' = [i \in DOMAIN pending \ {c} |-> pending[i]]
      /\ said' = [said EXCEPT ![c] = {}] /\ crowded' = crowded \ {c}
  BY DEF Trace!Outbound
<1>2. \A r \in DOMAIN rows' : rows'[r] \in Nat
  BY Recorded DEF Trace!Outbound
<1>3. said' \in [Conns -> SUBSET Lines] /\ said'[c] = {} /\ \A d \in Conns \ {c} : said'[d] = said[d]
  BY <1>1 DEF Described
<1>4. Trace!HalfSaid' = Trace!HalfSaid \ {c} /\ DOMAIN pending' = DOMAIN pending \ {c}
  BY <1>1, <1>3 DEF Trace!HalfSaid
<1>5. DOMAIN pending' \subseteq Trace!HalfSaid' /\ IsFiniteSet(Trace!HalfSaid)'
  BY <1>4, FS_RemoveElement DEF Described
<1>6. Cardinality(DOMAIN pending') <= MaxPending
  <2>1. IsFiniteSet(DOMAIN pending)
    BY FS_Subset DEF Described
  <2>2. /\ Cardinality(DOMAIN pending') <= Cardinality(DOMAIN pending)
        /\ Cardinality(DOMAIN pending) \in Nat /\ Cardinality(DOMAIN pending') \in Nat
    BY <1>4, <2>1, FS_Subset, FS_CardinalityType
  <2>3. Cardinality(DOMAIN pending) <= MaxPending
    BY DEF Described
  <2>4. QED BY <2>2, <2>3, TablesAssumption DEF Trace!TraceAssumption
<1>7. \A d \in DOMAIN pending' : pending'[d] \in [process : BOOLEAN, domain : BOOLEAN, age : Nat]
  BY <1>1 DEF Described
<1>8. ASSUME active, NEW d \in Conns, d \notin crowded'
      PROVE  /\ Trace!Pending(d)'.process = Says(said'[d], "process")
             /\ Trace!Pending(d)'.domain = Says(said'[d], "domain")
  <2>1. CASE d = c
    <3>1. Trace!Pending(d)' = Trace!Empty
      BY <1>4, <2>1 DEF Trace!Pending, Trace!Empty
    <3>2. QED BY <1>3, <2>1, <3>1 DEF Trace!Empty, Says
  <2>2. CASE d # c
    <3>1. Trace!Pending(d)' = Trace!Pending(d) /\ d \notin crowded
      BY <1>1, <1>8, <2>2 DEF Trace!Pending, Trace!Empty
    <3>2. QED BY <1>3, <1>8, <2>2, <3>1 DEF Described
  <2>3. QED BY <2>1, <2>2
<1>9. QED BY <1>1, <1>2, <1>3, <1>5, <1>6, <1>7, <1>8 DEF Described

\* A trace starts from nothing, stops, and ages.
LEMMA DescribedStep == Described /\ [Trace!Next]_(Trace!vars) => Described'
<1> SUFFICES ASSUME Described, [Trace!Next]_(Trace!vars) PROVE Described'
  OBVIOUS
<1>1. DOMAIN Trace!Nowhere = {} /\ Cardinality({}) = 0 /\ IsFiniteSet({}) /\ 0 <= MaxPending
  BY FS_EmptySet, TablesAssumption DEF Trace!Nowhere, Trace!TraceAssumption
<1>2. CASE Trace!Start
  <2>1. /\ pending' = Trace!Nowhere /\ rows' = Trace!Nowhere /\ said' = [c \in Conns |-> {}]
        /\ Trace!HalfSaid' = {}
    BY <1>2 DEF Trace!Start, Trace!HalfSaid
  <2>2. \A c \in Conns : /\ Trace!Pending(c)'.process = FALSE /\ Trace!Pending(c)'.domain = FALSE
                         /\ said'[c] = {}
    BY <1>1, <2>1 DEF Trace!Pending, Trace!Empty
  <2>3. \A c \in Conns : /\ Trace!Pending(c)'.process = Says(said'[c], "process")
                         /\ Trace!Pending(c)'.domain = Says(said'[c], "domain")
    BY <2>2 DEF Says
  <2>4. DOMAIN pending' = {} /\ DOMAIN rows' = {} /\ said' \in [Conns -> SUBSET Lines]
    BY <1>1, <2>1
  <2>5. QED BY <1>1, <2>1, <2>3, <2>4 DEF Described
<1>3. CASE Trace!Stop
  BY <1>1, <1>3 DEF Trace!Stop, Described, Trace!HalfSaid
<1>4. CASE Trace!Tick
  <2>1. /\ UNCHANGED <<active, rows, said, crowded>> /\ DOMAIN pending' = DOMAIN pending
        /\ \A c \in DOMAIN pending : pending'[c] =
              [pending[c] EXCEPT !.age = IF pending[c].age <= TTL THEN pending[c].age + 1 ELSE pending[c].age]
    BY <1>4 DEF Trace!Tick
  <2>2. \A c \in DOMAIN pending :
            /\ pending'[c] \in [process : BOOLEAN, domain : BOOLEAN, age : Nat]
            /\ pending'[c].process = pending[c].process /\ pending'[c].domain = pending[c].domain
    BY <2>1 DEF Described
  <2>3. \A c \in Conns : /\ Trace!Pending(c)'.process = Trace!Pending(c).process
                         /\ Trace!Pending(c)'.domain = Trace!Pending(c).domain
    BY <2>1, <2>2 DEF Trace!Pending
  <2>4. Trace!HalfSaid' = Trace!HalfSaid
    BY <2>1 DEF Trace!HalfSaid
  <2>5. QED BY <2>1, <2>2, <2>3, <2>4 DEF Described
<1>5. CASE UNCHANGED Trace!vars
  BY <1>5 DEF Trace!vars, Described, Trace!HalfSaid, Trace!Pending
<1>6. QED BY <1>2, <1>3, <1>4, <1>5, HalfStep, OutboundStep DEF Trace!Next, Lines

\* For any connections and limits: never do more than MaxPending wait, and an outbound line counts
\* in the row its connection's other lines describe, unless the table is full and says so, or too
\* many were half described.
THEOREM RowsAlwaysRight == Trace!Spec => RowsRight
<1>1. Trace!Init => Described
  <2>1. DOMAIN Trace!Nowhere = {} /\ Cardinality({}) = 0 /\ IsFiniteSet({}) /\ 0 <= MaxPending
    BY FS_EmptySet, TablesAssumption DEF Trace!Nowhere, Trace!TraceAssumption
  <2>2. Trace!Init => Trace!HalfSaid = {}
    BY DEF Trace!Init, Trace!HalfSaid
  <2>3. QED BY <2>1, <2>2 DEF Trace!Init, Described
<1>2. Described =>
        /\ Trace!Cardinality(DOMAIN pending) <= MaxPending
        /\ \A c \in Conns \ crowded :
             LET row == Trace!Row(c, "process" \in said[c], "domain" \in said[c])
             IN  Trace!Outbound(c) =>
                    IF row \in DOMAIN rows' THEN rows'[row] = 1 + (IF row \in DOMAIN rows THEN rows[row] ELSE 0)
                    ELSE full'
  <2>1. ASSUME Described, NEW c \in Conns \ crowded, Trace!Outbound(c)
        PROVE  LET row == Trace!Row(c, "process" \in said[c], "domain" \in said[c])
               IN  IF row \in DOMAIN rows' THEN rows'[row] = 1 + (IF row \in DOMAIN rows THEN rows[row] ELSE 0)
                   ELSE full'
    <3>1. /\ Trace!Pending(c).process = Says(said[c], "process")
          /\ Trace!Pending(c).domain = Says(said[c], "domain")
      BY <2>1 DEF Described, Trace!Outbound
    <3>2. Trace!Record(Trace!Row(c, Trace!Pending(c).process, Trace!Pending(c).domain))
      BY <2>1 DEF Trace!Outbound
    <3> DEFINE row == Trace!Row(c, "process" \in said[c], "domain" \in said[c])
    <3>3. Trace!Record(row)
      BY <3>1, <3>2 DEF Says, Trace!Row
    <3> HIDE DEF row
    <3>4. IF row \in DOMAIN rows' THEN rows'[row] = 1 + (IF row \in DOMAIN rows THEN rows[row] ELSE 0)
          ELSE full'
      BY <2>1, <3>3, Recorded
    <3>5. QED BY <3>4 DEF row
  <2>2. QED BY <2>1, SameSize DEF Described
<1>3. QED BY <1>1, <1>2, DescribedStep, PTL DEF Trace!Spec, RowsRight, Trace!RowsRight
=============================================================================
