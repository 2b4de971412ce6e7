------------------------------ MODULE Aggregates ------------------------------
(***************************************************************************)
(* Aggregates over the items a query returned, pkg/query/aggregates.go.    *)
(* An item is a record of numbers; a field with Go's zero value counts as  *)
(* a number for sums and as missing for everything else.  The items of a   *)
(* group are given by their positions S.                                   *)
(***************************************************************************)
EXTENDS Integers, Sequences, FiniteSets, SequencesExt

Nil == -1000

\* extractFieldValue.
FieldValue(item, field) == IF item[field] = 0 THEN Nil ELSE item[field]

\* The sum of the first n numbers of a list.
Total(numbers, n) ==
    LET after[m \in 0 .. n] == IF m = 0 THEN 0 ELSE after[m - 1] + numbers[m]
    IN  after[n]

\* sumAndCountNumeric; Sum.
SumOf(items, S, field) ==
    Total([i \in DOMAIN items |-> IF i \in S THEN items[i][field] ELSE 0], Len(items))

\* A quotient, as a pair: an average is a sum over the number of items.
Ratio(above, below) == <<above, below>>
Above(quotient, bound) == quotient[1] > bound * quotient[2]
AverageOf(items, S, field) == IF S = {} THEN Ratio(0, 1) ELSE Ratio(SumOf(items, S, field), Cardinality(S))

\* compareValues.
Beats(v, acc, direction) == direction * v > direction * acc

\* Mutant of ExtremeValue: the first item is compared with the zero value.
ExtremeValueFromZero(items, S, field, direction) ==
    LET after[n \in 0 .. Len(items)] ==
            IF n = 0 THEN 0
            ELSE IF n \in S /\ Beats(items[n][field], after[n - 1], direction) THEN items[n][field]
            ELSE after[n - 1]
    IN  after[Len(items)]

\* extremeFieldValue and extremeValue: the first value, then every one that beats it.
Pick(acc, v, direction) == IF v # Nil /\ (acc = Nil \/ Beats(v, acc, direction)) THEN v ELSE acc
ExtremeValue(items, S, field, direction) ==
    LET after[n \in 0 .. Len(items)] ==
            IF n = 0 THEN Nil
            ELSE IF n \in S THEN Pick(after[n - 1], FieldValue(items[n], field), direction)
            ELSE after[n - 1]
    IN  after[Len(items)]

\* Aggregate: everything in one pass.
Aggregate(items, field) ==
    [count |-> Len(items), sum |-> SumOf(items, DOMAIN items, field),
     average |-> AverageOf(items, DOMAIN items, field),
     min |-> ExtremeValue(items, DOMAIN items, field, -1), max |-> ExtremeValue(items, DOMAIN items, field, 1)]

\* The values of a field that are set.
ValuesOf(items, field) == {FieldValue(items[i], field) : i \in DOMAIN items} \ {Nil}

CountDistinct(items, field) == Cardinality(ValuesOf(items, field))

\* GroupBy: the grouping of GroupByQuery.Execute.
Groups(items, field) ==
    [key \in ValuesOf(items, field) |-> {i \in DOMAIN items : FieldValue(items[i], field) = key}]

\* calculateAggregate.
CalculateAggregate(items, S, function, field) ==
    [count |-> IF function = "COUNT" THEN Cardinality(S) ELSE 0,
     sum |-> IF function = "SUM" THEN SumOf(items, S, field) ELSE 0,
     average |-> IF function = "AVG" THEN AverageOf(items, S, field) ELSE Ratio(0, 1),
     min |-> IF function = "MIN" THEN ExtremeValue(items, S, field, -1) ELSE Nil,
     max |-> IF function = "MAX" THEN ExtremeValue(items, S, field, 1) ELSE Nil]

\* aggregateResultValue: the first part of the result that is set.
AggregateResultValue(r) ==
    IF r.min # Nil THEN Ratio(r.min, 1) ELSE IF r.max # Nil THEN Ratio(r.max, 1)
    ELSE IF r.count # 0 THEN Ratio(r.count, 1) ELSE IF r.sum # 0 THEN Ratio(r.sum, 1) ELSE r.average

\* aggregateValue: the items of the group, or an aggregate of theirs.
AggregateValue(items, S, function, field) ==
    IF function = "COUNT(*)" THEN Ratio(Cardinality(S), 1)
    ELSE AggregateResultValue(CalculateAggregate(items, S, function, field))

\* evaluateHaving on the groups: those whose aggregate is above the bound are kept.
HavingAbove(items, groupField, function, field, bound) ==
    LET groups == Groups(items, groupField)
    IN  {key \in DOMAIN groups : Above(AggregateValue(items, groups[key], function, field), bound)}
=============================================================================
