---------------------------- MODULE MCDomainEdits ----------------------------
(* DomainEdits over the texts a person may leave config.yaml in: the shipped *)
(* one, or up to four lines after the section's head, or no section at all.  *)
EXTENDS DomainEdits

CONSTANT MaxLines

Lines ==
    {Line(i, k) : i \in {0, 2}, k \in {"other", "comment"}} \cup
    {Line(4, "comment"), Blank, Line(2, "key"), Line(2, "key []")} \cup
    {Entry(i, [name |-> "d1", on |-> o]) : i \in {2, 4}, o \in BOOLEAN} \cup
    {Entry(4, [name |-> "d2", on |-> TRUE])}

Below == {s \in UNION {[1 .. n -> Lines] : n \in 0 .. 4} : Loads(<<Section>> \o s)}

MCHandMade ==
    {<<Section>> \o s : s \in Below} \cup
    {<<Line(0, "other")>>, <<Line(0, "other"), Line(2, "other"), Section>>, <<Line(0, "comment"), Blank>>}

\* People edit the shipped text, or return to it.
MCNext ==
    \/ Len(file) <= MaxLines /\ Load
    \/ Write
    \/ ByHand(Default)
    \/ file = Default /\ \E text \in HandMade : ByHand(text)

MCSpec == Init /\ [][MCNext]_vars
=============================================================================
