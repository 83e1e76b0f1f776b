----------------------------- MODULE MCInstaller -----------------------------
(* The container's keeper and the installer on a few containers, with a bound *)
(* on what is done to them and goes wrong; one configuration, and one id, is  *)
(* the first by symmetry; what an earlier setup left waits for the switch to  *)
(* be turned on, which is one of the moves.                                   *)
EXTENDS Installer

CONSTANT MaxMoves

VARIABLE moves

MCInit ==
    /\ Init /\ moves = MaxMoves
    /\ up /\ cfg = (CHOOSE c \in Specs : TRUE)
    /\ DOMAIN boxes \subseteq {CHOOSE i \in Ids : TRUE} /\ (boxes # <<>> => paused)

Moved(from, to) == at["installer"] \in from /\ at'["installer"] \in to

\* An edit of the file that no Reload has shown; launchctl failing.
FoundEdit == cfg' # cfg \/ (Moved({"idle"}, {"asked"}) /\ want'["installer"] # cfg)
Fails ==
    \/ Moved({"load"}, {"wait"}) /\ job = "loaded" /\ job' = "loaded"
    \/ Moved({"idle"}, {"running", "state"}) /\ short'
    \/ Moved({"bootstrap"}, {"check"}) /\ job = "none"
Extra == IF FoundEdit \/ Fails THEN 1 ELSE 0

MCNext ==
    \/ Programs /\ Extra <= moves /\ moves' = moves - Extra
    \/ moves > 0 /\ Reloaded /\ moves' = moves - 1
    \/ moves > 0 /\ World /\ Extra < moves /\ moves' = moves - 1 - Extra

MCSpec == MCInit /\ [][MCNext]_<<vars, moves>> /\ Fairness
=============================================================================
