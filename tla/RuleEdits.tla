------------------------------ MODULE RuleEdits ------------------------------
(***************************************************************************)
(* The force-VPN rule-set (internal/config/forcevpn.go) as the page        *)
(* changes it (handleRules, internal/ui/web): each request reads the file, *)
(* changes what it read and replaces the file, with nothing to keep two    *)
(* requests, or a request and an editor, apart.                            *)
(*                                                                         *)
(* A rule object is a function from its fields, which sing-box ANDs, to    *)
(* their values.                                                           *)
(***************************************************************************)
EXTENDS Naturals, Sequences, FiniteSets

CONSTANTS
    Requests,   \* requests of the page
    Fields,     \* ForceVPNTypes
    Typed,      \* values people type
    Normal,     \* what normaliseRule makes of each
    Refused,    \* an error, for some of them
    HandMade,   \* files people leave
    None

VARIABLES
    file,       \* the rules
    asked       \* of each request: the operation, what it read and what it will write

vars == <<file, asked>>

Init == file = <<>> /\ asked = [r \in Requests |-> None]

----------------------------------------------------------------------------

\* soleField.
Sole(rule, f) == DOMAIN rule = {f} /\ f \in Fields

Editable(rule) == \E f \in Fields : Sole(rule, f)

Least(S) == CHOOSE i \in S : \A j \in S : i <= j

\* The rules that hold nothing but f, and where v is in the first of them.
With(doc, f, v) == {i \in DOMAIN doc : Sole(doc[i], f) /\ \E j \in DOMAIN doc[i][f] : doc[i][f][j] = v}

FirstWith(doc, f, v) ==
    LET i == Least(With(doc, f, v)) IN <<i, Least({j \in DOMAIN doc[i][f] : doc[i][f][j] = v})>>

NotEmptied(doc) == SelectSeq(doc, LAMBDA rule : \E f \in DOMAIN rule : rule[f] # <<>>)

\* Mutant: a value joins the first rule that has its field.
JoinsAny(rule, f) == f \in DOMAIN rule

Joins(rule, f) == Sole(rule, f)

\* AddForceVPNRule: what it writes, if anything.
Added(doc, f, typed) ==
    LET v == Normal[typed]
        joined == {i \in DOMAIN doc : Joins(doc[i], f)}
    IN  CASE v = Refused \/ With(doc, f, v) # {} -> {}
          [] v # Refused /\ With(doc, f, v) = {} /\ joined # {} ->
               {[doc EXCEPT ![Least(joined)][f] = Append(@, v)]}
          [] OTHER -> {Append(doc, [g \in {f} |-> <<v>>])}

\* RemoveForceVPNRule takes the value as it is shown.
Removed(doc, f, v) ==
    LET without(rule) ==
          IF Sole(rule, f) THEN [rule EXCEPT ![f] = SelectSeq(@, LAMBDA e : e # v)] ELSE rule
    IN  IF With(doc, f, v) = {} THEN {}
        ELSE {NotEmptied([i \in DOMAIN doc |-> without(doc[i])])}

\* dropDuplicates: v stays where it is first.
Deduplicated(doc, f, v) ==
    LET kept(i, j) == doc[i][f][j] # v \/ <<i, j>> = FirstWith(doc, f, v)
        cut(i) ==
          LET js == SelectSeq([j \in DOMAIN doc[i][f] |-> j], LAMBDA j : kept(i, j))
          IN  [g \in {f} |-> [k \in DOMAIN js |-> doc[i][f][js[k]]]]
    IN  NotEmptied([i \in DOMAIN doc |-> IF Sole(doc[i], f) THEN cut(i) ELSE doc[i]])

\* EditForceVPNRule replaces the first occurrence of the value where it stands.
Edited(doc, f, v, typed) ==
    LET to == Normal[typed]
        at == FirstWith(doc, f, v)
    IN  IF to \in {Refused, v} \/ With(doc, f, v) = {} THEN {}
        ELSE {Deduplicated([doc EXCEPT ![at[1]][f][at[2]] = to], f, to)}

Op(op, f, v, to) == [op |-> op, field |-> f, value |-> v, to |-> to]

Result(op, doc) ==
    CASE op.op = "add" -> Added(doc, op.field, op.value)
      [] op.op = "remove" -> Removed(doc, op.field, op.value)
      [] op.op = "edit" -> Edited(doc, op.field, op.value, op.to)

\* applyRuleOp up to the write; an operation that changes nothing, or fails,
\* writes nothing.
Load(r, op) ==
    /\ asked[r] = None
    /\ \E doc \in Result(op, file) :
          asked' = [asked EXCEPT ![r] = [op |-> op, read |-> file, doc |-> doc]]
    /\ UNCHANGED file

\* writeRuleSet.
Store(r) ==
    /\ asked[r] # None /\ file' = asked[r].doc /\ asked' = [asked EXCEPT ![r] = None]

ByHand(doc) == file' = doc /\ UNCHANGED asked

Ops ==
    {Op(op, f, v, v) : op \in {"add", "remove"}, f \in Fields, v \in Typed} \cup
    {Op("edit", f, v, to) : f \in Fields, v \in Typed, to \in Typed}

Next ==
    \/ \E r \in Requests : Store(r) \/ \E op \in Ops : Load(r, op)
    \/ \E doc \in HandMade : ByHand(doc)

Spec == Init /\ [][Next]_vars

----------------------------------------------------------------------------

\* ForceVPNRules: the values the page shows of a field, and the rules it will not
\* touch.
Shown(doc, f) == {v \in Typed : With(doc, f, v) # {}}
Advanced(doc) == SelectSeq(doc, LAMBDA rule : ~Editable(rule))

Copies(doc, f, v) ==
    UNION {{<<i, j>> : j \in {j \in DOMAIN doc[i][f] : doc[i][f][j] = v}} : i \in With(doc, f, v)}

\* "Everything else is read back out as it was and written back untouched"
\* (forcevpn.go:15-18); a removed value is gone, an added one there, and an edited
\* one "leaves one, not two" (168-169), "where it stands" unless it was there
\* before; a rule without conditions never gets into the file (121-122).  For a
\* request that nothing came between.
Asked(op, doc, new) ==
    LET f == op.field v == op.value to == Normal[op.to] IN
    /\ Advanced(new) = Advanced(doc)
    /\ \A g \in Fields \ {f} : Shown(new, g) = Shown(doc, g)
    /\ \A rule \in {new[i] : i \in DOMAIN new} : \A g \in DOMAIN rule : rule[g] # <<>>
    /\ op.op = "add" => Shown(new, f) = Shown(doc, f) \cup {Normal[v]}
    /\ op.op = "remove" => Shown(new, f) = Shown(doc, f) \ {v}
    /\ op.op = "edit" =>
          /\ Cardinality(Copies(new, f, to)) = 1
          /\ Shown(new, f) \ {v, to} = Shown(doc, f) \ {v, to}
          /\ v \in Shown(new, f) <=> Cardinality(Copies(doc, f, v)) > 1
          /\ to \notin Shown(doc, f) => FirstWith(new, f, to) = FirstWith(doc, f, v)

EditsOnlyThat ==
    [][\A r \in Requests :
          Store(r) /\ asked[r].read = file => Asked(asked[r].op, file, file')]_vars
=============================================================================
