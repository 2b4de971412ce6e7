------------------------------ MODULE QueryPlan ------------------------------
(***************************************************************************)
(* The query builder and its compilation, pkg/query/query.go and           *)
(* pkg/index/selector.go: conditions are collected, an index is chosen,    *)
(* and they become key conditions, filters or the key of a GetItem.        *)
(*                                                                         *)
(* A condition is a record with a field, an operator and a value; a row is *)
(* a function from the fields it has to values.                            *)
(***************************************************************************)
EXTENDS ExprBuilder

CONSTANTS
    PK, SK,        \* key fields of the table
    Indexes,       \* sequence of indexes: name, pk, sk ("" for none), type, projection
    Tables,        \* sets of rows
    Secret,        \* fields tagged encrypted
    Models,        \* the key fields set in the model object
    Wheres, Filters, FilterGroups,   \* arguments of Where, Filter and OrFilter, FilterGroup
    Names,         \* arguments of Index
    MaxCalls       \* bound on the calls that build a query

\* Rows have keys; an index has a name of its own, "" is the table.
ASSUME QueryAssumption ==
    /\ \A rows \in Tables : \A r \in rows : {PK, SK} \subseteq DOMAIN r
    /\ Indexes \in Seq([name : STRING \ {""}, pk : STRING, sk : STRING, type : STRING, projection : STRING])
    /\ \A k, m \in DOMAIN Indexes : Indexes[k].name = Indexes[m].name => k = m

VARIABLES
    table,    \* the rows of the table
    model,    \* key fields of the model object
    where,    \* q.conditions
    builder,  \* q.builder; NewBuilder stands for nil too
    filtered, \* q.builder is not nil
    asked,    \* what the caller asked of Filter, OrFilter and FilterGroup, by value
    index,    \* q.index
    builderErr,
    answer

queryVars == <<table, model, where, builder, filtered, asked, index, builderErr, answer>>
calls == Len(where) + Len(asked) + (IF index = "" THEN 0 ELSE 1)

NoAnswer == [kind |-> "none", rows |-> {}, via |-> ""]

QueryInit ==
    /\ table \in Tables /\ model \in Models
    /\ where = <<>> /\ builder = NewBuilder /\ filtered = FALSE /\ asked = <<>>
    /\ index = "" /\ builderErr = FALSE /\ answer = NoAnswer

\* No query is built: for modules that compose this one with others.
QueryUnused ==
    /\ table = {} /\ model = Empty
    /\ where = <<>> /\ builder = NewBuilder /\ filtered = FALSE /\ asked = <<>>
    /\ index = "" /\ builderErr = FALSE /\ answer = [kind |-> "error", rows |-> {}, via |-> ""]

Building == answer.kind = "none" /\ calls < MaxCalls

-----------------------------------------------------------------------------
(* Building a query.                                                       *)

\* rejectEncryptedConditionField.
Rejected(c) == c.field \in Secret

Where(c) ==
    /\ Building
    /\ IF Rejected(c) THEN builderErr' = TRUE /\ UNCHANGED where
       ELSE where' = Append(where, c) /\ UNCHANGED builderErr
    /\ UNCHANGED <<table, model, builder, filtered, asked, index, answer>>

\* What is asked: filters, and whether they are a group.
Asked(logicalOp, conds, isGroup) == [link |-> logicalOp, conds |-> conds, group |-> isGroup]

\* Filter, with AND, and OrFilter.
FilterWith(logicalOp, c) ==
    /\ Building
    /\ IF Rejected(c)
       THEN builderErr' = TRUE /\ UNCHANGED <<builder, filtered, asked>>
       ELSE /\ builder' = AddFilterCondition(builder, logicalOp, c)
            /\ asked' = Append(asked, Asked(logicalOp, <<Link("AND", c)>>, FALSE))
            /\ filtered' = TRUE /\ UNCHANGED builderErr
    /\ UNCHANGED <<table, model, where, index, answer>>

Filter(c) == FilterWith("AND", c)
OrFilter(c) == FilterWith("OR", c)

\* FilterGroup and OrFilterGroup: a builder of its own collects the group.
FilterGroup(logicalOp, group) ==
    /\ Building
    /\ builder' = AddGroupFilter(builder, logicalOp, AddFilters(NewBuilder, group))
    /\ asked' = Append(asked, Asked(logicalOp, group, TRUE)) /\ filtered' = TRUE
    /\ UNCHANGED <<table, model, where, index, builderErr, answer>>

Index(name) ==
    /\ Building /\ index' = name
    /\ UNCHANGED <<table, model, where, builder, filtered, asked, builderErr, answer>>

-----------------------------------------------------------------------------
(* Choosing an index: selector.go.                                         *)

Primary == [name |-> "", pk |-> PK, sk |-> SK, type |-> "PRIMARY", projection |-> ""]
AllIndexes == <<Primary>> \o Indexes

\* AnalyzeConditions: the first equality names the partition key, the first condition
\* on another field, looked for after it and then before it, the sort key.
PartitionAt == Min({i \in DOMAIN where : where[i].op = "="})
Others(S) == {i \in S \cap DOMAIN where : where[i].field # where[PartitionAt].field}
SortAt ==
    LET after == Others({i \in DOMAIN where : i > PartitionAt})
        before == Others({i \in DOMAIN where : i < PartitionAt})
    IN  IF after # {} THEN Min(after) ELSE IF before # {} THEN Min(before) ELSE 0

SortScore(op) == CASE op = "=" -> 50 [] op = "begins_with" -> 40 [] op = "<" -> 30 [] OTHER -> 0

ScoreIndex(i) ==
    IF i.pk # where[PartitionAt].field THEN 0
    ELSE 100 + (IF SortAt # 0 /\ i.sk = where[SortAt].field THEN SortScore(where[SortAt].op) ELSE 0)
             + (IF i.type = "GSI" THEN 10 ELSE 0) + (IF i.projection = "ALL" THEN 5 ELSE 0)

\* SelectOptimal: the first index with the best score, or none.
SelectOptimal ==
    LET Score(k) == ScoreIndex(AllIndexes[k])
        best == {k \in DOMAIN AllIndexes :
                    Score(k) > 0 /\ \A m \in DOMAIN AllIndexes :
                        Score(m) <= Score(k) /\ (m < k => Score(m) < Score(k))}
    IN  IF \E i \in DOMAIN where : where[i].op = "="
        THEN {AllIndexes[k] : k \in best} ELSE {}

-----------------------------------------------------------------------------
(* Compile.                                                                *)

\* keyNamesForIndex: an index without a sort key borrows the table's.
KeyNames(i) == [pk |-> i.pk, sk |-> IF i.sk = "" THEN SK ELSE i.sk]

IndexByName(name) ==
    IF \E k \in DOMAIN Indexes : Indexes[k].name = name
    THEN CHOOSE i \in ToSet(Indexes) : i.name = name ELSE [Primary EXCEPT !.name = name]

\* splitConditionsByKey, for a chosen index: by field alone.
IsKeyByField(keys, c) == c.field \in {keys.pk, keys.sk}

\* partitionConditionsForKeys, for an index the caller named: by field and operator.
IsKeyByOperator(keys, c) ==
    \/ c.field = keys.pk /\ c.op = "="
    \/ c.field = keys.sk /\ c.op \in {"=", "<"}

\* The conditions in keyed become key conditions, the others filters.
AddTo(part, b, c, keyed) ==
    IF part = "key" THEN (IF c \in keyed THEN AddKeyCondition(b, c) ELSE b)
    ELSE IF c \in keyed THEN b ELSE AddFilterCondition(b, "AND", c)

AddPart(part, b, keyed) ==
    LET after[n \in 0 .. Len(where)] == IF n = 0 THEN b ELSE AddTo(part, after[n - 1], where[n], keyed)
    IN  after[Len(where)]

\* applyQueryConditions and applyKeyAndFilterConditions on a clone of the builder: first
\* the key conditions, then the filters.
Compiled(keyed) == AddPart("filter", AddPart("key", Clone(builder), keyed), keyed)

QueryOf(i, b) == [op |-> "Query", index |-> i, b |-> b]
ScanOf(name) == [op |-> "Scan", index |-> IndexByName(name), b |-> Compiled({})]

HasPartitionKeyCondition(keys) == \E k \in DOMAIN where : where[k].field = keys.pk /\ where[k].op = "="

CompileWithExplicitIndex ==
    LET i == IndexByName(index)
        keys == KeyNames(i)
    IN  IF HasPartitionKeyCondition(keys)
        THEN QueryOf(i, Compiled({c \in ToSet(where) : IsKeyByOperator(keys, c)})) ELSE ScanOf(index)

CompileWithBestIndex ==
    IF SelectOptimal = {} THEN ScanOf("")
    ELSE LET i == CHOOSE x \in SelectOptimal : TRUE
         IN  QueryOf(i, Compiled({c \in ToSet(where) : IsKeyByField(KeyNames(i), c)}))

Compile == IF index # "" THEN CompileWithExplicitIndex ELSE CompileWithBestIndex

Given == [f \in {where[i].field : i \in DOMAIN where} |->
            where[Max({i \in DOMAIN where : where[i].field = f})].value]

\* Mutant of GetItemKey: the model object's key goes before the conditions.
GetItemKeyOfModel == Overlay(model, Given)

\* compileGetItem: only key equalities, no index and no filter; the model object gives
\* the key fields the conditions leave out.  The last condition on a field counts.
GetItemKey == Overlay(Given, model)

IsGetItem ==
    /\ index = "" /\ ~filtered
    /\ \A i \in DOMAIN where : where[i].field \in {PK, SK} /\ where[i].op = "="
    /\ {PK, SK} \subseteq DOMAIN GetItemKey

-----------------------------------------------------------------------------
(* DynamoDB: an index holds the rows that have its keys; a Query takes one *)
(* equality on the partition key and at most one condition on the sort     *)
(* key, and no filter on either.                                           *)

InIndex(i) == {r \in table : i.pk \in DOMAIN r /\ (i.sk # "" => i.sk \in DOMAIN r)}
Known(i) == i.name = "" \/ \E k \in DOMAIN Indexes : Indexes[k].name = i.name
FieldsOf(b, links) ==
    UNION {{b.names[links[k].conds[m].conds.name] : m \in DOMAIN links[k].conds} : k \in DOMAIN links}
Valid(p) ==
    LET On(f) == {k \in DOMAIN p.b.key : p.b.names[p.b.key[k].name] = f}
        i == p.index
    IN  /\ Known(i)
        /\ p.op = "Query" =>
             /\ \E k \in On(i.pk) : On(i.pk) = {k} /\ p.b.key[k].op = "="
             /\ On(i.pk) \union On(i.sk) = DOMAIN p.b.key /\ Cardinality(On(i.sk)) <= 1
             /\ \A k \in On(i.sk) : p.b.key[k].op \in {"=", "<"}
             /\ FieldsOf(p.b, p.b.filter) \cap {i.pk, i.sk} = {}
Selected(p) == {r \in InIndex(p.index) : FilterHolds(p.b, r)
                    /\ \A k \in DOMAIN p.b.key : CondHolds(p.b, p.b.key[k], r)}
Answer(p) == IF Valid(p) THEN [kind |-> "rows", rows |-> Selected(p), via |-> p.index.name]
             ELSE [kind |-> "error", rows |-> {}, via |-> p.index.name]

\* All and Count compile and run; a builder error is returned first.
All ==
    /\ answer.kind = "none"
    /\ answer' = IF builderErr THEN [NoAnswer EXCEPT !.kind = "error"] ELSE Answer(Compile)
    /\ UNCHANGED <<table, model, where, builder, filtered, asked, index, builderErr>>

\* Scan: every condition is a filter.
Scan ==
    /\ answer.kind = "none"
    /\ answer' = IF builderErr THEN [NoAnswer EXCEPT !.kind = "error"] ELSE Answer(ScanOf(index))
    /\ UNCHANGED <<table, model, where, builder, filtered, asked, index, builderErr>>

\* First: a GetItem if the key is known, else the first of All.
First ==
    /\ answer.kind = "none"
    /\ LET found == {r \in table : r[PK] = GetItemKey[PK] /\ r[SK] = GetItemKey[SK]}
           all == Answer(Compile)
           One(rows) == IF rows = {} THEN answer' = [NoAnswer EXCEPT !.kind = "notFound"]
                        ELSE \E r \in rows : answer' = [NoAnswer EXCEPT !.kind = "row", !.rows = {r}]
       IN  IF builderErr THEN answer' = [NoAnswer EXCEPT !.kind = "error"]
           ELSE IF IsGetItem THEN One(found)
           ELSE IF all.kind = "error" THEN answer' = all ELSE One(all.rows)
    /\ UNCHANGED <<table, model, where, builder, filtered, asked, index, builderErr>>

QueryNext ==
    \/ \E c \in Wheres : Where(c)
    \/ \E c \in Filters : Filter(c) \/ OrFilter(c)
    \/ \E logicalOp \in {"AND", "OR"}, group \in FilterGroups : FilterGroup(logicalOp, group)
    \/ \E name \in Names : Index(name)
    \/ All \/ Scan \/ First

QuerySpec == QueryInit /\ [][QueryNext]_queryVars

-----------------------------------------------------------------------------
(* Properties.                                                             *)

\* What the caller asked for, by value.
Meets(r, c) == Compare(r, c.field, c.op, c.value)
GroupMet(group, r) == Joined(group, LAMBDA c : Meets(r, c))
Wanted(r) ==
    /\ \A i \in DOMAIN where : Meets(r, where[i])
    /\ asked = <<>> \/ Joined(asked, LAMBDA group : GroupMet(group, r))

\* The filters keep their meaning next to conditions: no group, whose placeholders are
\* numbered anew, and no OR before a condition that follows with AND.
PlainFilters ==
    \A i \in DOMAIN asked : ~asked[i].group /\ (where = <<>> \/ asked[i].link = "AND")

\* A GetItem takes the last of two conditions on a key field.
Contradictory ==
    IsGetItem /\ \E i, j \in DOMAIN where :
        where[i].field = where[j].field /\ where[i].value # where[j].value

\* The rows an answer has to have.
AnswerMatches ==
    /\ answer.kind = "row" => Contradictory \/ \A r \in answer.rows : Wanted(r)
    /\ answer.kind = "rows" => answer.rows = {r \in InIndex(IndexByName(answer.via)) : Wanted(r)}

\* query.go, compileOperation: whatever index is chosen and however the conditions are
\* split into key conditions and filters, a read that succeeds returns the rows of that
\* index that satisfy the conditions, and First one of them.
ReturnsMatching == PlainFilters => AnswerMatches
=============================================================================
