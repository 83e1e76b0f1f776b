------------------------------- MODULE MCLoops -------------------------------
(***************************************************************************)
(* Two loops of the supervisor that share no state, model checked side by  *)
(* side: the loop of a service, and the health loop.  `moving` says which  *)
(* of them a behaviour is about.                                           *)
(***************************************************************************)
EXTENDS Service

CONSTANTS Failures, Window, Changing    \* of HealthLoop

VARIABLES wifi, bind, fault, vpn, off, sb, exits, restartCh, retryCh, services, measuring, asked, good, strikes
VARIABLE moving

Health == INSTANCE HealthLoop WITH paused <- off

health == <<wifi, bind, fault, vpn, off, sb, exits, restartCh, retryCh, services, measuring, asked, good, strikes>>

ASSUME LoopsAssumption == Health!HealthAssumption

\* The other one stays in one of its initial states, where nothing is promised.
\* One configuration, and one slot, is as good as another to begin with.
LoopsInit ==
    /\ Init /\ Health!Init
    /\ moving \in {"service", "health"}
    /\ cfg = (CHOOSE c \in Configs : TRUE) /\ run = CHOOSE r \in Runs : TRUE
    /\ moving # "service" => paused
    /\ moving # "health" => ~wifi /\ ~vpn /\ off /\ bind = "none"

LoopsNext ==
    \/ moving = "service" /\ Next /\ UNCHANGED <<health, moving>>
    \/ moving = "health" /\ Health!Next /\ UNCHANGED <<vars, moving>>

LoopsSpec ==
    /\ LoopsInit /\ [][LoopsNext]_<<vars, health, moving>>
    /\ \/ moving = "service" /\ Fairness
       \/ moving = "health" /\ Health!Fairness

\* HealthLoop's properties.
LeftAlone == Health!LeftAlone
BrokenIsActedOn == Health!BrokenIsActedOn
=============================================================================
