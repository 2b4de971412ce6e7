----------------------------- MODULE ExprBuilder -----------------------------
(***************************************************************************)
(* The expression builder, internal/expr/builder.go: conditions refer to   *)
(* attribute names and values through placeholders, numbered by the        *)
(* builder that hands them out.  An expression means something only        *)
(* together with the maps of names and values it is sent with.             *)
(***************************************************************************)
EXTENDS Integers, Sequences, FiniteSets, FiniteSetsExt, SequencesExt

CONSTANTS
    Reserved,   \* fields whose name is a reserved word, in whatever case
    UpperCase   \* their names in upper case

\* No two of them are the same word: their placeholders would be the same.
ASSUME ReservedAssumption == \A f, g \in Reserved : UpperCase[f] = UpperCase[g] => f = g

Empty == [x \in {} |-> x]

\* The entries of f, and those of g under other keys; g with one more entry.
Overlay(f, g) == [x \in DOMAIN f \union DOMAIN g |-> IF x \in DOMAIN f THEN f[x] ELSE g[x]]
Bind(g, key, value) == [x \in DOMAIN g \union {key} |-> IF x = key THEN value ELSE g[x]]

\* NewBuilder, NewBuilderWithConverter.
NewBuilder == [names |-> Empty, values |-> Empty, key |-> <<>>, filter |-> <<>>,
               condition |-> <<>>, update |-> <<>>, nameCounter |-> 0, valueCounter |-> 0]

\* The placeholder of a field: the one it has, #WORD for a reserved word, else the next
\* number.
NameRef(b, field) ==
    IF \E p \in DOMAIN b.names : b.names[p] = field
    THEN CHOOSE p \in DOMAIN b.names : b.names[p] = field
    ELSE IF field \in Reserved THEN <<"#", UpperCase[field]>> ELSE <<"#n", b.nameCounter + 1>>

AddName(b, field) ==
    LET p == NameRef(b, field)
    IN  [b EXCEPT !.names = Bind(b.names, p, field),
                  !.nameCounter = IF \E q \in DOMAIN b.names : b.names[q] = field THEN @ ELSE @ + 1]

AddValue(b, value) ==
    [b EXCEPT !.values = Bind(b.values, b.valueCounter + 1, value), !.valueCounter = @ + 1]

Valueless == {"attribute_exists", "attribute_not_exists"}

\* buildCondition: the builder with the placeholders of a condition.
Referring(b, c) ==
    LET named == AddName(b, c.field)
    IN  IF c.op \in Valueless THEN named ELSE AddValue(named, c.value)

\* ... and the condition in terms of them.
BuildCondition(b, c) ==
    [name |-> NameRef(b, c.field), op |-> c.op,
     value |-> IF c.op \in Valueless THEN 0 ELSE b.valueCounter + 1]

Link(logicalOp, conds) == [link |-> logicalOp, conds |-> conds]

AddKeyCondition(b, c) ==
    [Referring(b, c) EXCEPT !.key = Append(@, BuildCondition(b, c))]

AddFilterCondition(b, logicalOp, c) ==
    [Referring(b, c) EXCEPT !.filter = Append(@, Link(logicalOp, <<Link("AND", BuildCondition(b, c))>>))]

\* A list of filters, added one after the other.
AddFilters(b, links) ==
    LET after[n \in 0 .. Len(links)] ==
            IF n = 0 THEN b ELSE AddFilterCondition(after[n - 1], links[n].link, links[n].conds)
    IN  after[Len(links)]

\* A write condition, AddConditionExpressionWithOp.
AddCondition(b, logicalOp, c) ==
    [Referring(b, c) EXCEPT !.condition = Append(@, Link(logicalOp, <<Link("AND", BuildCondition(b, c))>>))]

\* A list of write conditions, added one after the other.
AddConditions(b, links) ==
    LET after[n \in 0 .. Len(links)] ==
            IF n = 0 THEN b ELSE AddCondition(after[n - 1], links[n].link, links[n].conds)
    IN  after[Len(links)]

\* AddGroupFilter: the group's placeholders go into the maps as they are.
AddGroupFilter(b, logicalOp, group) ==
    [b EXCEPT !.names = Overlay(group.names, b.names), !.values = Overlay(group.values, b.values),
              !.filter = IF group.filter = <<>> THEN @
                         ELSE Append(@, Link(logicalOp, [i \in DOMAIN group.filter |->
                                  Link(group.filter[i].link, group.filter[i].conds[1].conds)]))]

\* An update in terms of placeholders.
UpdateEntry(b, u) ==
    [form |-> u.form, name |-> NameRef(b, u.field), index |-> u.index,
     value |-> IF u.form = "remove" THEN 0 ELSE b.valueCounter + 1]

\* AddUpdateFunction: if_not_exists and list_append.
AddUpdateFunction(b, u) ==
    [AddValue(AddName(b, u.field), u.value) EXCEPT !.update = Append(@, UpdateEntry(b, u))]

\* AddUpdateSet, AddUpdateAdd, AddUpdateRemove and AddUpdateDelete: an update of a field,
\* or of an element of a list (index, 0 for none).
AddUpdate(b, u) ==
    IF u.form \in {"ifNotExists", "append", "prepend"} THEN AddUpdateFunction(b, u)
    ELSE LET named == AddName(b, u.field)
         IN  [IF u.form = "remove" THEN named ELSE AddValue(named, u.value)
                EXCEPT !.update = Append(@, UpdateEntry(b, u))]

\* Mutant of Clone: the copy starts to number its placeholders anew.
CloneAnew(b) == [b EXCEPT !.nameCounter = 0, !.valueCounter = 0]

\* Clone, which copies the maps and the counters.
Clone(b) == b

\* ResetConditions.
ResetConditions(b) == [b EXCEPT !.condition = <<>>]

-----------------------------------------------------------------------------
(* What DynamoDB makes of an expression.                                   *)

Compare(row, field, op, value) ==
    IF op = "attribute_not_exists" THEN field \notin DOMAIN row
    ELSE /\ field \in DOMAIN row
         /\ op = "=" => row[field] = value
         /\ op = "<" => row[field] < value
         /\ op = "<>" => row[field] # value

CondHolds(b, cond, row) ==
    Compare(row, b.names[cond.name], cond.op, IF cond.value = 0 THEN 0 ELSE b.values[cond.value])

\* AND binds tighter than OR: some run of conjuncts between two ORs holds.
Joined(links, Holds(_)) ==
    \E a, z \in DOMAIN links :
        /\ a <= z
        /\ a = 1 \/ links[a].link = "OR"
        /\ z = Len(links) \/ links[z + 1].link = "OR"
        /\ \A k \in a .. z : Holds(links[k].conds) /\ (k > a => links[k].link = "AND")

GroupHolds(b, group, row) == Joined(group, LAMBDA cond : CondHolds(b, cond, row))

LinksHold(b, links, row) == links = <<>> \/ Joined(links, LAMBDA group : GroupHolds(b, group, row))

FilterHolds(b, row) == LinksHold(b, b.filter, row)
=============================================================================
