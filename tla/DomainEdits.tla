----------------------------- MODULE DomainEdits -----------------------------
(***************************************************************************)
(* How the page and the menu bar change dns_router.resolver_domains        *)
(* (internal/config/edit.go, resolverdomain.go): the configuration is      *)
(* loaded, the list changed, and the lines of its block replaced in the    *)
(* text as it is by then, which people also edit by hand.                  *)
(*                                                                         *)
(* A text is a sequence of lines, of which only the indentation and what   *)
(* they are matter.  A disabled domain is two lines in the file and one    *)
(* here: the second is always the deeper one.                              *)
(***************************************************************************)
EXTENDS Naturals, Sequences, FiniteSets

CONSTANTS
    Domains,        \* suffixes
    HandMade,       \* texts people leave the file in
    NoRequest

VARIABLES
    file,       \* config.yaml
    request     \* the list a request is about to write

vars == <<file, request>>

Line(ind, is) == [ind |-> ind, is |-> is, dom |-> "none"]
Section  == Line(0, "dns_router")
Blank    == Line(0, "blank")
Entry(ind, d) == [ind |-> ind, is |-> IF d.on THEN "on" ELSE "off", dom |-> d.name]

IsEntry(l) == l.is \in {"on", "off"}
IsKey(l)   == l.is \in {"key", "key []"}

Keeping(S(_), s) == SelectSeq(s, S)

Least(S, else) == IF S = {} THEN else ELSE CHOOSE i \in S : \A j \in S : i <= j

----------------------------------------------------------------------------
(* What YAML makes of a text, for reference.                               *)

\* The line before i that is neither blank nor a comment.
Before(t, i) ==
    LET said == {j \in 1..(i - 1) : t[j].is \notin {"blank", "comment"}}
    IN  IF said = {} THEN 0 ELSE CHOOSE j \in said : \A k \in said : k <= j

\* Each line fits below the one before: settings of a section are two columns in,
\* the list may start at its key's column, and its entries are aligned.
Fits(t, i) ==
    LET b == Before(t, i) l == t[i]
    IN  \/ l.is \in {"blank", "comment"}
        \/ l.ind = 0 /\ l.is \in {"other", "dns_router"}
        \/ b > 0 /\ l.ind = 2 /\ l.is = "other"
        \/ b > 0 /\ l.ind = 2 /\ IsKey(l)
        \/ b > 0 /\ IsEntry(l) /\ t[b].is = "key" /\ l.ind >= t[b].ind
        \/ b > 0 /\ IsEntry(l) /\ IsEntry(t[b]) /\ l.ind = t[b].ind

\* It is read without an error: no key is there twice, and the list is in its section.
Loads(t) ==
    /\ \A i \in DOMAIN t : Fits(t, i)
    /\ Len(Keeping(LAMBDA l : l.is = "dns_router", t)) <= 1 /\ Len(Keeping(IsKey, t)) <= 1
    /\ \A i \in DOMAIN t : IsKey(t[i]) =>
          \E j \in 1..(i - 1) :
             /\ t[j] = Section
             /\ \A k \in (j + 1)..i : t[k].ind > 0 \/ t[k].is \in {"blank", "comment"}

Listed(t) ==
    LET entries == Keeping(IsEntry, t)
    IN  [i \in DOMAIN entries |-> [name |-> entries[i].dom, on |-> entries[i].is = "on"]]

\* A comment of the list: below the key, deeper, and before whatever follows.
OfTheList(t, i) ==
    LET b == Before(t, i)
    IN  b > 0 /\ (IsKey(t[b]) \/ IsEntry(t[b])) /\ t[i].is = "comment" /\ t[i].ind > 2

\* Everything that is not the list: the other settings and comments.
Rest(t) ==
    LET kept == [i \in DOMAIN t |-> [l |-> t[i], in |-> OfTheList(t, i)]]
        out  == SelectSeq(kept, LAMBDA k : k.l.is \in {"other", "comment"} /\ ~k.in)
    IN  [i \in DOMAIN out |-> out[i].l]

\* The column of the line after i that is neither blank nor a comment, 0 at the end.
After(t, i) ==
    LET next == Least({j \in (i + 1)..Len(t) : t[j].is \notin {"blank", "comment"}}, 0)
    IN  IF next = 0 THEN 0 ELSE t[next].ind

\* The usual layout: entries deeper than their key, a comment not to the left of
\* the line it is above, and indented further than a key only in the list.
Tidy(t) ==
    \A i \in DOMAIN t :
        /\ IsEntry(t[i]) => t[i].ind > 2
        /\ t[i].is = "comment" =>
              t[i].ind >= After(t, i) /\ (t[i].ind > 2 => OfTheList(t, i))

----------------------------------------------------------------------------
(* edit.go.                                                                *)

\* findSection: the section's line, and the line after it.
SectionStart(t) == Least({i \in DOMAIN t : t[i].ind = 0 /\ t[i].is = "dns_router"}, 0)

SectionEnd(t) ==
    Least({i \in (SectionStart(t) + 1)..Len(t) : t[i].is # "blank" /\ t[i].ind = 0}, Len(t) + 1)

KeyLine(t) == Least({i \in (SectionStart(t) + 1)..(SectionEnd(t) - 1) : IsKey(t[i])}, 0)

\* Whether line i goes on with the block of a key at the given column; a blank
\* line does if something deeper follows.
GoesOn(t, i, column) ==
    LET next == Least({j \in i..Len(t) : t[j].is # "blank"}, 0)
    IN  next > 0 /\ t[next].ind > column

\* Mutant: a line at the key's column goes on with the block.
BlockEndPast(t, key) ==
    Least({i \in (key + 1)..Len(t) : ~GoesOn(t, i, t[key].ind - 1)}, Len(t) + 1)

BlockEnd(t, key) == Least({i \in (key + 1)..Len(t) : ~GoesOn(t, i, t[key].ind)}, Len(t) + 1)

\* renderResolverBlock.
Block(ind, list) ==
    IF list = <<>> THEN <<Line(ind, "key []")>>
    ELSE <<Line(ind, "key")>> \o [i \in DOMAIN list |-> Entry(ind + 2, list[i])]

\* The text without its trailing newlines.
Trimmed(t) ==
    SubSeq(t, 1, Least({n \in 0..Len(t) : \A i \in (n + 1)..Len(t) : t[i] = Blank}, 0))

\* replaceResolverBlock.
Replaced(t, list) ==
    LET start == SectionStart(t) key == KeyLine(t)
    IN  CASE start = 0 -> Trimmed(t) \o <<Blank, Section>> \o Block(2, list) \o <<Blank>>
          [] start > 0 /\ key = 0 ->
               SubSeq(t, 1, start) \o Block(2, list) \o SubSeq(t, start + 1, Len(t))
          [] start > 0 /\ key > 0 ->
               SubSeq(t, 1, key - 1) \o Block(t[key].ind, list) \o SubSeq(t, BlockEnd(t, key), Len(t))

----------------------------------------------------------------------------
(* resolverdomain.go: the list each change makes of one, or none at all.   *)

Has(list, d) == \E i \in DOMAIN list : list[i].name = d

WithAdded(list, d) == IF Has(list, d) THEN {} ELSE {Append(list, [name |-> d, on |-> TRUE])}

WithRemoved(list, d) == IF Has(list, d) THEN {Keeping(LAMBDA e : e.name # d, list)} ELSE {}

WithToggled(list, d, on) ==
    LET first == Least({i \in DOMAIN list : list[i].name = d}, 0)
    IN  IF first = 0 THEN {} ELSE {[list EXCEPT ![first].on = on]}

Changes(list) ==
    UNION {WithAdded(list, d) \cup WithRemoved(list, d) \cup
           WithToggled(list, d, TRUE) \cup WithToggled(list, d, FALSE) : d \in Domains}

----------------------------------------------------------------------------

Default == <<Section, Line(2, "key")>>

Init == file = Default /\ request = NoRequest

\* editResolverDomains loads the configuration and changes its list.
Load ==
    /\ request = NoRequest /\ Loads(file)
    /\ \E list \in Changes(Listed(file)) : request' = [list |-> list]
    /\ UNCHANGED file

\* SetResolverDomains reads the file again.
Write ==
    /\ request # NoRequest /\ request' = NoRequest
    /\ file' = Replaced(file, request.list)

\* Somebody saves the file, or another request has been there.
ByHand(text) ==
    /\ Loads(text) /\ file' = text /\ UNCHANGED request

Next == Load \/ Write \/ \E text \in HandMade : ByHand(text)

Spec == Init /\ [][Next]_vars

----------------------------------------------------------------------------

\* "Rewrites the block in place and leaves the rest of the file byte for byte as
\* it was" (edit.go:10-20): in a file with the usual layout, whatever was saved
\* since the configuration was loaded, the list becomes the one asked for, the
\* file still loads, and the rest of it is what it was.
InPlace ==
    [][Write /\ Tidy(file) =>
        Loads(file') /\ Listed(file') = request.list /\ Rest(file') = Rest(file)]_vars

\* An edit "rewrites the dns_router.resolver_domains block in place"
\* (edit.go:10-11), and must not leave "a half-written configuration, which the
\* daemon would refuse to load on its next start" (edit.go:40-42): whatever its
\* layout, a file that loads still does after an edit.
StillLoads == [][Write => Loads(file')]_vars
=============================================================================
