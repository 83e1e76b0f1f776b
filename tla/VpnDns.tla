-------------------------------- MODULE VpnDns --------------------------------
(***************************************************************************)
(* Where the DNS router's list of internal name servers comes from: the    *)
(* container's capture-dns.sh writes what the VPN pushed to two files,     *)
(* internal/vpndns reads one of them, and the refresh loop of internalDNS  *)
(* (internal/dnsrouter) keeps what it read.                                *)
(***************************************************************************)

CONSTANT Servers    \* name servers the VPN may push

VARIABLES
    known,              \* internalDNS.addrs
    list, script,       \* what the VPN pushed last, and where the script is
    inside, shared,     \* the file in the container; {}, or what the shared one holds
    mounted,            \* the container has the shared directory
    found               \* the container is identified and Docker answers

vars == <<known, list, script, inside, shared, mounted, found>>

TypeOK ==
    /\ {known, list, inside} \subseteq SUBSET Servers /\ shared \in SUBSET SUBSET Servers
    /\ script \in {"idle", "fill", "move"} /\ {mounted, found} \subseteq BOOLEAN

Init ==
    /\ known = {} /\ list = {} /\ script = "idle" /\ inside = {} /\ shared = {}
    /\ mounted \in BOOLEAN /\ found = FALSE

\* The tunnel comes up again: capture-dns.sh truncates the container's file,
\* fills it, and replaces the shared one.
Pushed ==
    /\ script = "idle" /\ list' \in SUBSET Servers
    /\ script' = "fill" /\ inside' = {} /\ UNCHANGED <<known, shared, mounted, found>>

Filled ==
    /\ script = "fill" /\ inside' = list /\ script' = IF mounted THEN "move" ELSE "idle"
    /\ UNCHANGED <<known, list, shared, mounted, found>>

Moved ==
    /\ script = "move" /\ shared' = {inside} /\ script' = "idle"
    /\ UNCHANGED <<known, list, inside, mounted, found>>

\* Docker, or the container, goes away or comes back.
Docker ==
    /\ found' = ~found /\ UNCHANGED <<known, list, script, inside, shared, mounted>>

\* Source.Servers, the set of what it returns: nothing after an error.
Read ==
    IF shared \notin {{}, {{}}} THEN shared ELSE IF found THEN {inside} ELSE {}

\* Mutant: an empty list keeps it, too.
RefreshNonEmpty ==
    /\ known' = IF Read \in {{}, {{}}} THEN known ELSE CHOOSE s \in Read : TRUE
    /\ UNCHANGED <<list, script, inside, shared, mounted, found>>

\* An error keeps what is known; an empty list is a list.
Refresh ==
    /\ known' = IF Read = {} THEN known ELSE CHOOSE s \in Read : TRUE
    /\ UNCHANGED <<list, script, inside, shared, mounted, found>>

Script == Filled \/ Moved

Next == Pushed \/ Script \/ Docker \/ Refresh

\* The refresh loop runs, and a script that started ends.
Fairness == WF_vars(Refresh) /\ WF_vars(Script)

Spec == Init /\ [][Next]_vars /\ Fairness

----------------------------------------------------------------------------

\* "Losing a working source" keeps the known servers (dnsrouter.go:104-112), and
\* once the VPN stays as it is and a file can be read for long enough now and
\* then, they are the ones it pushed last: also when the container's file was
\* read between being truncated and filled.
Follows ==
    <>[](script = "idle" /\ (found \/ shared \notin {{}, {{}}})) => <>[](known = list)
=============================================================================
