------------------------------- MODULE MCTables -------------------------------
(***************************************************************************)
(* The log and what a trace makes of it, model checked side by side: the   *)
(* ring and its tap, the rows of a trace, the document and the limit it    *)
(* runs with; and the menu's newer release.  They share no state; `moving` *)
(* says which of them a behaviour is about.                                *)
(***************************************************************************)
EXTENDS LogBus, TLC

CONSTANTS
    Conns, Shared, TTL, MaxPending, MaxRows, MaxRepeats,    \* of TraceTable, and a bound
    Callers, Timers, Configs, None,                         \* of LiveDocument
    Cooldown                                                \* of UpdateWatcher

VARIABLES active, pending, rows, full, said, crowded
VARIABLES cfg, tracingNow, armed, staged, restart, applied, call, overlapped
VARIABLES ask, age, found, answer, item, updateTitle, updating
VARIABLE moving

\* A running version, and releases that are older, the same, newer in the second
\* number, newer by having a third, or unreadable.
Version == <<1, 2>>
Tags    == {<<1, 1>>, <<1, 2>>, <<2>>, <<1, 2, 1>>, << >>}

Trace    == INSTANCE TraceTable
Document == INSTANCE LiveDocument WITH active <- tracingNow
Updates  == INSTANCE UpdateWatcher WITH since <- age

trace    == <<active, pending, rows, full, said, crowded>>
document == <<cfg, tracingNow, armed, staged, restart, applied, call, overlapped>>
updates  == <<ask, age, found, answer, item, updateTitle, updating>>

ASSUME TablesAssumption == Document!DocumentAssumption /\ Trace!TraceAssumption

TablesInit ==
    /\ Init /\ Trace!Init /\ Document!Init /\ Updates!Init
    /\ moving \in {"log", "trace", "document", "updates"}

TablesNext ==
    \/ moving = "log" /\ Next /\ UNCHANGED <<trace, document, updates, moving>>
    \/ /\ moving = "trace" /\ Trace!Next /\ UNCHANGED <<vars, document, updates, moving>>
       /\ \A r \in DOMAIN rows' : rows'[r] <= MaxRepeats
    \/ moving = "document" /\ Document!Next /\ UNCHANGED <<vars, trace, updates, moving>>
    \/ moving = "updates" /\ Updates!Next /\ UNCHANGED <<vars, trace, document, moving>>

TablesSpec == TablesInit /\ [][TablesNext]_<<vars, trace, document, updates, moving>>

\* Publishers are interchangeable, as are callers, which have the same names; and
\* so are configurations.
Symmetry == Permutations(Publishers) \cup Permutations(Configs)

\* TraceTable's property.
RowsRight == Trace!RowsRight

\* LiveDocument's properties.
DocumentMatches == Document!DocumentMatches
TraceLimited == Document!TraceLimited

\* UpdateWatcher's property.
OfferStands == Updates!OfferStands
=============================================================================
