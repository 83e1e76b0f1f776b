------------------------------ MODULE TraceTable ------------------------------
(***************************************************************************)
(* The table a trace fills (Collector, internal/trace): sing-box describes *)
(* each connection on up to three lines, mixed with those of others, and   *)
(* the last one, which names the outbound, makes a row.  What is half      *)
(* described is dropped when there is too much of it.                      *)
(***************************************************************************)
EXTENDS Naturals, FiniteSets

CONSTANTS
    Conns,                      \* connections, by sing-box's id
    Shared,                     \* those that are one process reaching one name
    TTL, MaxPending, MaxRows    \* pendingTTL in ticks, maxPending, maxRows

TraceAssumption == MaxPending \in Nat \ {0}

VARIABLES
    active, pending, rows, full,    \* of the Collector
    said,       \* history: the lines of each connection since Start
    crowded     \* history: connections half described when MaxPending were, and
                \* another line came

vars == <<active, pending, rows, full, said, crowded>>

Nowhere == [i \in {} |-> 0]

\* Lines that say nothing of their own: the process and the name are the same
\* for all connections in Shared.
Who(c) == IF c \in Shared THEN "shared" ELSE c

\* A row: whose process and whose name; "" and "addr" when nothing said so.
Row(c, process, domain) ==
    [process |-> IF process THEN Who(c) ELSE "", host |-> IF domain THEN Who(c) ELSE "addr"]

Init ==
    /\ active = FALSE /\ pending = Nowhere /\ rows = Nowhere /\ full = FALSE
    /\ said = [c \in Conns |-> {}] /\ crowded = {}

Start ==
    /\ active' = TRUE /\ pending' = Nowhere /\ rows' = Nowhere /\ full' = FALSE
    /\ said' = [c \in Conns |-> {}] /\ crowded' = {}

Stop ==
    /\ active /\ active' = FALSE /\ pending' = Nowhere /\ UNCHANGED <<rows, full, said, crowded>>

----------------------------------------------------------------------------

Empty == [process |-> FALSE, domain |-> FALSE, age |-> 0]

Pending(c) == IF c \in DOMAIN pending THEN pending[c] ELSE Empty

\* prunePendingLocked: first what is old, then everything.
Pruned ==
    LET recent == {c \in DOMAIN pending : pending[c].age <= TTL}
        kept == IF Cardinality(DOMAIN pending) < MaxPending THEN DOMAIN pending
                ELSE IF Cardinality(recent) < MaxPending THEN recent ELSE {}
    IN  [c \in kept |-> pending[c]]

With(p, c, half) == [i \in DOMAIN p \cup {c} |-> IF i = c THEN half ELSE p[i]]

\* Mutant: the entry is read after the pruning.
NotedLate(c, line) ==
    LET half == IF c \in DOMAIN Pruned THEN Pruned[c] ELSE Empty
    IN  With(Pruned, c, [half EXCEPT ![line] = TRUE, !.age = 0])

Noted(c, line) == With(Pruned, c, [Pending(c) EXCEPT ![line] = TRUE, !.age = 0])

HalfSaid == {c \in Conns : said[c] # {}}

\* "router: found process path", "router: sniffed protocol".
Half(c, line) ==
    /\ active /\ line \notin said[c]
    /\ pending' = Noted(c, line) /\ said' = [said EXCEPT ![c] = @ \cup {line}]
    /\ crowded' = IF Cardinality(HalfSaid) >= MaxPending THEN crowded \cup (HalfSaid \ {c}) ELSE crowded
    /\ UNCHANGED <<active, rows, full>>

Record(row) ==
    IF row \in DOMAIN rows THEN rows' = [rows EXCEPT ![row] = @ + 1] /\ full' = full
    ELSE IF Cardinality(DOMAIN rows) >= MaxRows THEN full' = TRUE /\ rows' = rows
    ELSE rows' = [r \in DOMAIN rows \cup {row} |-> IF r = row THEN 1 ELSE rows[r]] /\ full' = full

\* "outbound connection to"; the id may then be another connection's.
Outbound(c) ==
    /\ active /\ Record(Row(c, Pending(c).process, Pending(c).domain))
    /\ pending' = [i \in DOMAIN pending \ {c} |-> pending[i]]
    /\ said' = [said EXCEPT ![c] = {}] /\ crowded' = crowded \ {c}
    /\ UNCHANGED active

\* A tick, and half-described connections age.
Tick ==
    /\ \E c \in DOMAIN pending : pending[c].age <= TTL
    /\ pending' = [c \in DOMAIN pending |->
                      [pending[c] EXCEPT !.age = IF @ <= TTL THEN @ + 1 ELSE @]]
    /\ UNCHANGED <<active, rows, full, said, crowded>>

Next ==
    \/ Start \/ Stop \/ Tick
    \/ \E c \in Conns : Outbound(c) \/ \E line \in {"process", "domain"} : Half(c, line)

Spec == Init /\ [][Next]_vars

----------------------------------------------------------------------------

\* "Dropping it all loses the process on connections in flight, and that is better
\* than growing without bound", and what is missing "is missing because of the
\* limit" (trace.go:63-66, 271-273): an outbound line counts in the row its
\* connection's other lines describe, unless the table is full and says so or
\* too many were half described or it was given up as old; and never do more than
\* MaxPending wait.
RowsRight ==
    [][/\ Cardinality(DOMAIN pending) <= MaxPending
       /\ \A c \in Conns \ crowded :
            LET row == Row(c, "process" \in said[c], "domain" \in said[c])
            IN  Outbound(c) => IF row \in DOMAIN rows' THEN rows'[row] = 1 + (IF row \in DOMAIN rows THEN rows[row] ELSE 0)
                               ELSE full']_vars
=============================================================================
