------------------------------- MODULE Engine -------------------------------
(***************************************************************************)
(* The container engine as the client of internal/dockerctl sees it: the   *)
(* containers there are, the requests that change them, and what happens   *)
(* to them when the engine goes away with the user's session, or somebody  *)
(* uses it by hand.  Every request is one step, and fails while the engine *)
(* is away.                                                                *)
(***************************************************************************)
EXTENDS Naturals, FiniteSets

CONSTANTS
    Ids,        \* container ids
    Specs,      \* specifications a container can be created from
    None

VARIABLES
    up,         \* the engine answers
    boxes       \* the containers, by id

engine == <<up, boxes>>

\* label: the owner label's vpnctl, compose's project, or another label;
\* running: also of what ran when the engine went away.
Boxes ==
    [label : {"vpnctl", "compose", "other"}, name : {"vpn", "aside"}, spec : Specs \cup {None},
     running : BOOLEAN]

Live == DOMAIN boxes
Running == {i \in Live : boxes[i].running}
Named == {i \in Live : boxes[i].name = "vpn"}
Labelled(l) == {i \in Live : boxes[i].label = l}

EngineTypeOK ==
    /\ up \in BOOLEAN /\ Live \subseteq Ids /\ boxes \in [Live -> Boxes]

\* Nothing yet, or what the compose-based setup or an earlier label left.
EngineInit ==
    /\ up \in BOOLEAN
    /\ \/ boxes = <<>>
       \/ \E i \in Ids, l \in {"compose", "other"} :
            boxes = [j \in {i} |-> [label |-> l, name |-> "vpn", spec |-> None, running |-> TRUE]]

----------------------------------------------------------------------------
(* Requests.                                                               *)

\* All of them, whether they run or not.
ListByLabel(l) == Labelled(l)

FindByComposeProject == Labelled("compose")
FindByName == Named

\* One published port: the engine refuses to start a second container on it.
CanStart(i) == i \in Live /\ Running \subseteq {i}

Started(i) ==
    /\ boxes' = [boxes EXCEPT ![i].running = TRUE] /\ up' = up

StoppedBox(i) ==
    /\ boxes' = [boxes EXCEPT ![i].running = FALSE] /\ up' = up

Removed(i) ==
    /\ boxes' = [j \in Live \ {i} |-> boxes[j]] /\ up' = up

Renamed(i) ==
    /\ boxes' = [boxes EXCEPT ![i].name = "aside"] /\ up' = up

CanCreate == Named = {}

Created(i, spec) ==
    /\ boxes' = [j \in Live \cup {i} |->
                    IF j = i THEN [label |-> "vpnctl", name |-> "vpn", spec |-> spec, running |-> FALSE]
                    ELSE boxes[j]]
    /\ up' = up

----------------------------------------------------------------------------
(* What happens to it otherwise.                                           *)

\* The user logs out, or stops the engine.
GoAway == up /\ up' = FALSE /\ boxes' = boxes

\* It comes back, and with it what ran ("unless-stopped").
ComeBack ==
    /\ ~up /\ up' = TRUE /\ boxes' = boxes

\* docker rm -f.
RemoveByHand(i) == up /\ i \in Live /\ Removed(i)
=============================================================================
