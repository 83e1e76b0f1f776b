------------------------------- MODULE MCFiles -------------------------------
(***************************************************************************)
(* What is read, changed and written back, model checked side by side: the *)
(* resolver directory and the pause file, the force-VPN rules, and a list  *)
(* in config.yaml.  They share no state; `moving` says which of them a     *)
(* behaviour is about.                                                     *)
(***************************************************************************)
EXTENDS MCDomainEdits

CONSTANTS
    Callers, Startup, Addresses, Elsewhere, Configs, None,    \* of PauseSwitch
    p1, p2,                                             \* addresses
    Requests, Fields, Typed, Refused                    \* of RuleEdits

VARIABLES up, paused, pauseFile, cfg, dir, shown, at, want, conf, todo, promised, touched, overlapped
VARIABLES ruleFile, asked
VARIABLE moving

\* Two suffixes, the first of them switched off; another address; the second
\* removed and the first switched on.
SwitchConfigs ==
    {[listen |-> p1, listed |-> {"d1", "d2"}, enabled |-> {"d2"}],
     [listen |-> p2, listed |-> {"d1", "d2"}, enabled |-> {"d2"}],
     [listen |-> p1, listed |-> {"d1"}, enabled |-> {"d1"}]}

\* Values that are as typed, one that is changed and one that is refused; rules
\* the page edits, rules it leaves alone, and some that say the same twice.
Normal == [v \in Typed |-> CASE v = "V1" -> "v1" [] v = "junk" -> Refused [] OTHER -> v]

OfOneField == {[f \in {"domain"} |-> vs] : vs \in {<<"v1">>, <<"v2", "v1">>, <<"V1">>}} \cup {[f \in {"ip"} |-> <<"v1">>]}
Others     == {[f \in {"domain", "port"} |-> <<"v1">>], [f \in {"port"} |-> <<"v1">>]}
HandRules  == UNION {[1 .. n -> OfOneField \cup Others] : n \in 0 .. 3}

Switch == INSTANCE PauseSwitch WITH file <- pauseFile
Rules  == INSTANCE RuleEdits WITH file <- ruleFile, HandMade <- HandRules

switch == <<up, paused, pauseFile, cfg, dir, shown, at, want, conf, todo, promised, touched, overlapped>>
rules  == <<ruleFile, asked>>

ASSUME FilesAssumption == Switch!PauseAssumption

\* The others stay in one of their initial states.
FilesInit ==
    /\ Init /\ Switch!Init /\ Rules!Init
    /\ moving \in {"list", "switch", "rules"}
    /\ moving # "switch" =>
          /\ cfg = CHOOSE c \in Configs : c.listen = p2
          /\ \A d \in Domains : dir[d] = Switch!Absent

\* Rules are edited by hand before the page edits them.
RulesNext ==
    \/ \E r \in Requests : Rules!Store(r) \/ \E op \in Rules!Ops : Rules!Load(r, op)
    \/ ruleFile = <<>> /\ \E doc \in HandRules : Rules!ByHand(doc)

FilesNext ==
    \/ moving = "list" /\ MCNext /\ UNCHANGED <<switch, rules, moving>>
    \/ moving = "switch" /\ Switch!Next /\ UNCHANGED <<vars, rules, moving>>
    \/ moving = "rules" /\ RulesNext /\ UNCHANGED <<vars, switch, moving>>

FilesSpec == FilesInit /\ [][FilesNext]_<<vars, switch, rules, moving>>

\* PauseSwitch's properties.
DirectoryFollows == Switch!DirectoryFollows
ForeignKept == Switch!ForeignKept
PauseSurvives == Switch!PauseSurvives

\* RuleEdits' property.
EditsOnlyThat == Rules!EditsOnlyThat
=============================================================================
