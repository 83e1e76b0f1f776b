-------------------------------- MODULE OneRun --------------------------------
(***************************************************************************)
(* What the supervision of sing-box promises the rest of the machine: at   *)
(* most one sing-box holds the routes; it was started with the document    *)
(* that was staged when it started; and whoever sees that no run is in     *)
(* progress (a pause, a backoff, safe mode, the end of the daemon) knows   *)
(* that nobody holds them.  SingboxRunner implements this.                 *)
(***************************************************************************)

CONSTANTS
    Runs,       \* runs of sing-box
    Docs        \* sing-box documents

VARIABLES
    holder,     \* the sing-box that may hold the routes: a set of at most one
    place,      \* no run is in progress, one is, or it is being ended
    staged,     \* the document the next run will use
    applied     \* the one the last run used

vars == <<holder, place, staged, applied>>

Init == holder = {} /\ place = "off" /\ staged \in Docs /\ applied \in Docs

Start(r) ==
    /\ place = "off" /\ holder = {}
    /\ place' = "on" /\ holder' = {r} /\ applied' = staged /\ UNCHANGED staged

End ==
    /\ place = "on" /\ place' = "ending" /\ UNCHANGED <<holder, staged, applied>>

\* It has exited, or is given up on.
Gone ==
    /\ place # "off" /\ holder # {} /\ holder' = {}
    /\ UNCHANGED <<place, staged, applied>>

Settle ==
    /\ place # "off" /\ holder = {} /\ place' = "off"
    /\ UNCHANGED <<holder, staged, applied>>

Stage(d) == staged' = d /\ UNCHANGED <<holder, place, applied>>

Next ==
    \/ End \/ Gone \/ Settle
    \/ \E r \in Runs : Start(r)
    \/ \E d \in Docs : Stage(d)

Spec == Init /\ [][Next]_vars
=============================================================================
