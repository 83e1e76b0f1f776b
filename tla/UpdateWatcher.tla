---------------------------- MODULE UpdateWatcher ----------------------------
(***************************************************************************)
(* The menu's offer of a newer vpnctl (internal/ui/menubar/update.go, the  *)
(* item of menubar.go, the comparison of internal/release/release.go):     *)
(* opening a menu may start a question to GitHub, whose answer a goroutine *)
(* writes into the item later; a click on the item installs.               *)
(*                                                                         *)
(* A version is the sequence of its numbers, << >> one that does not       *)
(* parse.                                                                  *)
(***************************************************************************)
EXTENDS Naturals, Sequences

CONSTANTS
    Version,    \* the version that runs
    Tags,       \* what GitHub may call its latest release
    Cooldown    \* the shortest gap between two questions, in ticks

VARIABLES
    ask,            \* the goroutine that asks: w.asking says whether there is one
    since,          \* time since w.lastAsk, saturating
    found,          \* w.found
    answer,         \* the updateStatus about to be shown
    item,           \* what the item says, of which release, and whether it can be clicked
    updateTitle,    \* a.updateTitle
    updating        \* runUpdate is waiting for the authorised command

vars == <<ask, since, found, answer, item, updateTitle, updating>>

Unknown == << >>
Says    == {"checking", "current", "failed", "offer", "updating"}
Titles  == [says : Says, newer : Tags \cup {Unknown}]
Title(says, newer) == [says |-> says, newer |-> newer]
Shown(title, on)   == [title |-> title, on |-> on]

TypeOK ==
    /\ ask \in {"no", "asked", "answered", "shown"} /\ since \in 0 .. Cooldown
    /\ found \in Tags \cup {Unknown} /\ answer \in Titles
    /\ item \in [title : Titles, on : BOOLEAN] /\ updateTitle \in Titles /\ updating \in BOOLEAN

Init ==
    /\ ask = "no" /\ since = Cooldown /\ found = Unknown /\ answer = Title("checking", Unknown)
    /\ item = Shown(Title("checking", Unknown), FALSE)
    /\ updateTitle = Title("checking", Unknown) /\ updating = FALSE

\* The first number that differs decides, or more numbers than the version that
\* runs has; anything that parses is newer than what does not.
IsNewer(candidate, current) ==
    \E i \in DOMAIN candidate :
        /\ \A j \in 1 .. i - 1 : j \in DOMAIN current /\ candidate[j] = current[j]
        /\ i \in DOMAIN current => candidate[i] > current[i]

\* Mutant: a release that is known already does not keep the menu from asking.
MenuOpenedAnew ==
    /\ ask = "no" /\ since = Cooldown
    /\ ask' = "asked"
    /\ UNCHANGED <<since, found, answer, item, updateTitle, updating>>

MenuOpened ==
    /\ ask = "no" /\ found = Unknown /\ since = Cooldown
    /\ ask' = "asked"
    /\ UNCHANGED <<since, found, answer, item, updateTitle, updating>>

\* The cooldown starts with the answer, whatever it is.
Answered(st) ==
    /\ ask = "asked" /\ ask' = "answered" /\ answer' = st /\ since' = 0
    /\ found' = IF st.newer # Unknown THEN st.newer ELSE found
    /\ UNCHANGED <<item, updateTitle, updating>>

Latest ==
    \/ Answered(Title("failed", Unknown))
    \/ \E tag \in Tags :
        Answered(IF IsNewer(tag, Version) THEN Title("offer", tag) ELSE Title("current", Unknown))

\* showVersion, from the goroutine; then asking is cleared.
ShowVersion ==
    /\ ask = "answered" /\ ask' = "shown"
    /\ updateTitle' = answer /\ item' = Shown(answer, answer.says = "offer")
    /\ UNCHANGED <<since, found, answer, updating>>

AskDone ==
    /\ ask = "shown" /\ ask' = "no" /\ answer' = Title("checking", Unknown)
    /\ UNCHANGED <<since, found, item, updateTitle, updating>>

RunUpdate ==
    /\ item.on /\ ~updating
    /\ updating' = TRUE /\ item' = Shown(Title("updating", Unknown), FALSE)
    /\ UNCHANGED <<ask, since, found, answer, updateTitle>>

\* The dialog was dismissed, or nothing could be downloaded or verified: what
\* the item said is put back.  Otherwise the handover ends this process.
UpdateDone ==
    /\ updating /\ updating' = FALSE
    /\ \/ item' = Shown(updateTitle, TRUE)
       \/ item' = item
    /\ UNCHANGED <<ask, since, found, answer, updateTitle>>

Tick ==
    /\ since < Cooldown /\ since' = since + 1
    /\ UNCHANGED <<ask, found, answer, item, updateTitle, updating>>

Next == MenuOpened \/ Latest \/ ShowVersion \/ AskDone \/ RunUpdate \/ UpdateDone \/ Tick

Spec == Init /\ [][Next]_vars

\* An offer stands: once a newer release is known and shown, the item offers just
\* that release for a click, or is busy installing it, whatever is asked, answered
\* late, failed or dismissed after (update.go:111-115); and what can be clicked is
\* always a release newer than what runs.
OfferStands ==
    /\ item.on => item.title = Title("offer", found) /\ IsNewer(found, Version)
    /\ found # Unknown /\ ask # "answered" =>
        \/ item = Shown(Title("offer", found), TRUE)
        \/ item = Shown(Title("updating", Unknown), FALSE)
=============================================================================
