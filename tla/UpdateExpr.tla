------------------------------ MODULE UpdateExpr ------------------------------
(***************************************************************************)
(* Conditional writes of one item: the update builder,                     *)
(* pkg/query/update_builder.go, the write items of a transaction,          *)
(* pkg/transaction/builder.go, and the encryption of update expressions,   *)
(* internal/encryption/update_expression.go.                               *)
(*                                                                         *)
(* A call is a record with a form, a field, an index (0 for none) and a    *)
(* value.  A row is a function from fields to values: numbers, sequences   *)
(* for lists and sets, sealed numbers for encrypted fields.                *)
(***************************************************************************)
EXTENDS ExprBuilder

CONSTANTS
    StoredRows,     \* rows the item may have
    UpdateCalls,    \* Set, SetIfNotExists, Add, Remove, Delete, AppendToList, ...
    UpdateConds,    \* arguments of Condition and OrCondition
    WriteConds,     \* arguments of the query's WithCondition, conditions of a transaction
    RawConds,       \* arguments of WithConditionExpression: ref is its value placeholder
    Sealed,         \* fields tagged encrypted
    MaxUpdateCalls  \* bound on the calls of one update

\* A value and its envelope are numbers below and above SealBase.
SealBase == 100
Seal(v) == SealBase + v

UpdateForms == {"set", "ifNotExists", "add", "remove", "append", "prepend", "delete"}

\* Encrypted fields were sealed when they were stored, and are set to values that can be;
\* 0 is no placeholder.
ASSUME UpdateAssumption ==
    /\ \A r \in StoredRows : \A f \in Sealed \cap DOMAIN r : r[f] > SealBase
    /\ \A u \in UpdateCalls : u.form \in UpdateForms /\ u.index \in Nat
    /\ \A u \in UpdateCalls : u.index > 0 => u.form \in {"set", "remove"}
    /\ \A u \in UpdateCalls : (u.field \in Sealed /\ u.form \in {"set", "ifNotExists"}) => u.value \in Nat \ {0}
    /\ \A raw \in RawConds : raw.ref # 0

VARIABLES
    row,        \* the item
    before,     \* the item when Execute was called
    expr,       \* ub.expr: the builder that the update calls go into
    changes,    \* the update calls, by value
    guards,     \* ub.conditions: what Condition and OrCondition recorded
    demands,    \* q.writeConditions, or op.conditions of a transaction
    given,      \* the conditions the caller gave the query or the transaction
    raws,       \* q.rawConditionExpressions, or those of a transaction
    keyed,      \* the query names the whole primary key
    inTransaction,  \* the write is an item of a transaction, not a query's update
    buildErr,   \* ub.buildErr
    queryErr,   \* q.builderErr of the query the update was made from
    wrote,      \* the kind of write that was executed
    updateResult

updateVars == <<row, before, expr, changes, guards, demands, given, raws, keyed, inTransaction, buildErr,
                queryErr, wrote, updateResult>>

UpdateInit ==
    /\ row \in StoredRows /\ before = row /\ expr = NewBuilder
    /\ changes = <<>> /\ guards = <<>> /\ demands = <<>> /\ given = <<>> /\ raws = <<>>
    /\ keyed \in BOOLEAN /\ inTransaction \in BOOLEAN /\ buildErr = FALSE /\ queryErr = FALSE
    /\ wrote = "" /\ updateResult = "building"

\* No update is built: for modules that compose this one with others.
UpdateUnused ==
    /\ row = Empty /\ before = Empty /\ expr = NewBuilder
    /\ changes = <<>> /\ guards = <<>> /\ demands = <<>> /\ given = <<>> /\ raws = <<>>
    /\ keyed = FALSE /\ inTransaction = FALSE /\ buildErr = FALSE /\ queryErr = FALSE
    /\ wrote = "" /\ updateResult = "unused"

Open ==
    /\ updateResult = "building"
    /\ Len(changes) + Len(guards) + Len(given) + Len(raws) < MaxUpdateCalls

\* The calls that add an update.
Change(u) ==
    /\ Open /\ changes' = Append(changes, u) /\ expr' = AddUpdate(expr, u)
    /\ UNCHANGED <<row, before, guards, demands, given, raws, keyed, inTransaction, buildErr, queryErr, wrote,
                   updateResult>>

\* Condition and OrCondition refuse an encrypted field.
Condition(logicOp, c) ==
    /\ Open
    /\ IF c.field \in Sealed THEN buildErr' = TRUE /\ UNCHANGED guards
       ELSE guards' = Append(guards, Link(logicOp, c)) /\ UNCHANGED buildErr
    /\ UNCHANGED <<row, before, expr, changes, demands, given, raws, keyed, inTransaction, queryErr, wrote,
                   updateResult>>

\* WithCondition on the query the update was made from: an encrypted field is an error of
\* the query, and the condition is left out.
WithCondition(c) ==
    /\ Open /\ ~inTransaction /\ given' = Append(given, c)
    /\ IF c.field \in Sealed THEN queryErr' = TRUE /\ UNCHANGED demands
       ELSE demands' = Append(demands, c) /\ UNCHANGED queryErr
    /\ UNCHANGED <<row, before, expr, changes, guards, raws, keyed, inTransaction, buildErr, wrote, updateResult>>

\* A condition of an operation of a transaction.
TransactCondition(c) ==
    /\ Open /\ inTransaction /\ given' = Append(given, c) /\ demands' = Append(demands, c)
    /\ UNCHANGED <<row, before, expr, changes, guards, raws, keyed, inTransaction, buildErr, queryErr, wrote,
                   updateResult>>

WithConditionExpression(raw) ==
    /\ Open /\ raws' = Append(raws, raw)
    /\ UNCHANGED <<row, before, expr, changes, guards, demands, given, keyed, inTransaction, buildErr, queryErr,
                   wrote, updateResult>>

-----------------------------------------------------------------------------
(* Compiling the update.                                                   *)

\* Execute adds every condition with AND, ExecuteWithResult with its own operator.
ConditionLink(how, g) == IF how = "Execute" THEN "AND" ELSE g.link

WithGuards(how, conditions) ==
    AddConditions(expr, [i \in DOMAIN conditions |-> Link(ConditionLink(how, conditions[i]), conditions[i].conds)])

\* addWriteConditions.
Demanding(b) == AddConditions(b, [i \in DOMAIN demands |-> Link("AND", demands[i])])

\* buildConditionExpression with the query's write conditions on a clone without the
\* update's own.
WithDemands(b) == Demanding(ResetConditions(Clone(b)))

\* mergeConditionExpressions: the raw conditions' values, none under a placeholder that
\* is taken.
MergeConditionExpressions(p) ==
    LET refs == {raws[i].ref : i \in DOMAIN raws}
        ValueOf(ref) == raws[CHOOSE i \in DOMAIN raws : raws[i].ref = ref].value
    IN  [p EXCEPT !.clash = refs \cap DOMAIN p.values # {} \/ Cardinality(refs) < Len(raws),
                  !.values = Overlay(p.values, [ref \in refs |-> ValueOf(ref)])]

\* The request: both condition expressions, and the clone's names and values over the
\* builder's.
CompiledUpdate(how, conditions) ==
    LET b == WithGuards(how, conditions)
        q == WithDemands(b)
    IN  MergeConditionExpressions(
          [update |-> b.update, guard |-> b.condition, demand |-> q.condition,
           names |-> Overlay(q.names, b.names), values |-> Overlay(q.values, b.values), clash |-> FALSE])

\* encryptSetAssignment and rejectEncryptedAddDelete...: what may be done to an
\* encrypted field.  Nothing looks at what is removed.
Encryptable(u) == u.form = "remove" \/ (u.index = 0 /\ u.form \in {"set", "ifNotExists"})

\* Mutant of SealedValue: the default of if_not_exists is sent as it is.
SealedValueOfSet(p, k) ==
    IF \E i \in DOMAIN p.update : p.update[i].value = k /\ p.update[i].form = "set"
                                   /\ p.names[p.update[i].name] \in Sealed
    THEN Seal(p.values[k]) ELSE p.values[k]

\* encryptValueRef.
SealedValue(p, k) ==
    IF \E i \in DOMAIN p.update : p.update[i].value = k /\ p.names[p.update[i].name] \in Sealed
    THEN Seal(p.values[k]) ELSE p.values[k]

\* EncryptUpdateExpressionValues, which does nothing for an update without values.
EncryptUpdate(p) == [p EXCEPT !.values = [k \in DOMAIN p.values |-> SealedValue(p, k)]]
Refused(p) ==
    DOMAIN p.values # {} /\ \E i \in DOMAIN p.update :
        p.names[p.update[i].name] \in Sealed /\ ~Encryptable(p.update[i])

-----------------------------------------------------------------------------
(* DynamoDB.                                                               *)

\* Two updates of one field, or of a field and its element, are refused.
Overlap(p) ==
    \E i, j \in DOMAIN p.update :
        /\ i < j /\ p.names[p.update[i].name] = p.names[p.update[j].name]
        /\ p.update[i].index = 0 \/ p.update[j].index = 0 \/ p.update[i].index = p.update[j].index

\* An update with its field and its value in place of the placeholders.
Resolved(p) ==
    {[form |-> e.form, field |-> p.names[e.name], index |-> e.index,
      value |-> IF e.value = 0 THEN 0 ELSE p.values[e.value]] : e \in ToSet(p.update)}

\* The value a field of the row gets.
NewValue(r, u) ==
    LET has == u.field \in DOMAIN r
    IN  IF u.form = "ifNotExists" THEN (IF has THEN r[u.field] ELSE u.value)
        ELSE IF u.form = "add" THEN (IF has THEN r[u.field] ELSE 0) + u.value
        ELSE IF u.form = "append" THEN r[u.field] \o u.value
        ELSE IF u.form = "prepend" THEN u.value \o r[u.field]
        ELSE IF u.form = "delete" THEN SelectSeq(r[u.field], LAMBDA e : e \notin ToSet(u.value))
        ELSE u.value

\* The list after updates of its elements: the places that are left, each with its value.
\* A place after the end becomes the next one.
NewElements(old, us) ==
    LET Changed(form) == {u.index : u \in {v \in us : v.form = form}}
        places == SetToSortSeq((DOMAIN old \ Changed("remove")) \union Changed("set"), LAMBDA i, j : i < j)
    IN  [k \in DOMAIN places |->
            IF places[k] \in Changed("set")
            THEN (CHOOSE u \in us : u.form = "set" /\ u.index = places[k]).value ELSE old[places[k]]]

NeedsList(u) == u.form \in {"append", "prepend"} \/ u.index > 0

\* Each update sees the item as it was; a set that loses its last element is no more.
Updated(r, updates) ==
    LET Whole(f) == {u \in updates : u.field = f /\ u.index = 0}
        Inside(f) == {u \in updates : u.field = f /\ u.index > 0}
        set == {u.field : u \in {v \in updates : v.form = "delete" => v.field \in DOMAIN r}}
        gone == {f \in DOMAIN r \union set : \E u \in Whole(f) :
                    u.form = "remove" \/ (u.form = "delete" /\ ToSet(r[f]) \subseteq ToSet(u.value))}
    IN  [f \in (DOMAIN r \union set) \ gone |->
            IF Inside(f) # {} THEN NewElements(r[f], Inside(f))
            ELSE IF Whole(f) # {} THEN NewValue(r, CHOOSE u \in Whole(f) : TRUE) ELSE r[f]]

\* A conditional write of r.
Write(p, r) ==
    IF /\ LinksHold(p, p.guard, row) /\ LinksHold(p, p.demand, row)
       /\ \A i \in DOMAIN raws : Compare(row, raws[i].field, raws[i].op, p.values[raws[i].ref])
    THEN row' = r /\ updateResult' = "nil"
    ELSE UNCHANGED row /\ updateResult' = "conditionFailed"

\* An update of a list needs one, which an envelope is not.
UpdateItem(p) ==
    LET updates == Resolved(p)
        illegal == p.update = <<>> \/ Overlap(p)
                   \/ \E u \in updates : NeedsList(u) /\ u.field \notin DOMAIN row \ Sealed
    IN  IF illegal THEN UNCHANGED row /\ updateResult' = "error"
        ELSE Write(p, Updated(row, updates))

-----------------------------------------------------------------------------
(* Execution.                                                              *)

Refuse == UNCHANGED row /\ updateResult' = "error"
Sending(kind) ==
    /\ updateResult = "building"
    /\ before' = row /\ wrote' = kind
    /\ UNCHANGED <<expr, changes, guards, demands, given, raws, keyed, inTransaction, buildErr, queryErr>>

\* addWriteConditions, and Condition for the conditions of a transaction's update.
SecretDemand == \E i \in DOMAIN demands : demands[i].field \in Sealed

\* Execute and ExecuteWithResult.  An error of the builder stops them, one of the query
\* does not.
Execute(how) ==
    /\ Sending(IF how = "Execute" THEN "update" ELSE "updateWithResult") /\ ~inTransaction
    /\ LET p == CompiledUpdate(how, guards)
       IN  IF buildErr \/ ~keyed \/ SecretDemand \/ p.clash \/ Refused(p) THEN Refuse
           ELSE UpdateItem(EncryptUpdate(p))

\* mergeRawConditions of a transaction does what mergeConditionExpressions does.
MergeRawConditions(p) == MergeConditionExpressions(p)

\* applyConditionsToBuilder, and the parts of a write item.
Conditioned(b) ==
    LET c == Demanding(b)
    IN  MergeRawConditions([update |-> c.update, guard |-> c.condition, demand |-> <<>>,
                            names |-> c.names, values |-> c.values, clash |-> FALSE])

\* The fields of a struct: each set once.
Struct == /\ \A i \in DOMAIN changes : changes[i].form = "set" /\ changes[i].index = 0
          /\ IsInjective([i \in DOMAIN changes |-> changes[i].field])

\* marshalItem and encryptItemIfNeeded: the item of a put.
PutItemOf ==
    [f \in {changes[i].field : i \in DOMAIN changes} |->
        LET u == changes[CHOOSE i \in DOMAIN changes : changes[i].field = f]
        IN  IF f \in Sealed THEN Seal(u.value) ELSE u.value]

BuildPut ==
    /\ Sending("put") /\ inTransaction /\ Struct /\ guards = <<>>
    /\ LET p == Conditioned(NewBuilder) IN IF ~keyed \/ p.clash THEN Refuse ELSE Write(p, PutItemOf)

BuildDelete ==
    /\ Sending("delete") /\ inTransaction /\ changes = <<>> /\ guards = <<>>
    /\ LET p == Conditioned(NewBuilder) IN IF ~keyed \/ p.clash THEN Refuse ELSE Write(p, Empty)

BuildConditionCheck ==
    /\ Sending("check") /\ inTransaction /\ changes = <<>> /\ guards = <<>>
    /\ LET p == Conditioned(NewBuilder)
       IN  IF ~keyed \/ p.clash \/ (p.guard = <<>> /\ raws = <<>>) THEN Refuse ELSE Write(p, row)

\* Update of some fields of a struct.
BuildFieldUpdate ==
    /\ Sending("update") /\ inTransaction /\ Struct /\ guards = <<>>
    /\ LET p == Conditioned(expr)
       IN  IF ~keyed \/ p.clash \/ Refused(p) THEN Refuse ELSE UpdateItem(EncryptUpdate(p))

\* applyConditionsToUpdateBuilder: the transaction's conditions come before those of the
\* update function, in one list.
BuilderConditions == [i \in DOMAIN demands |-> Link("AND", demands[i])] \o guards

\* UpdateWithBuilder: an executor that only keeps the request runs the update builder,
\* which belongs to a query without conditions of its own.
BuildBuilderUpdate(how) ==
    /\ Sending("transactUpdate") /\ inTransaction
    /\ LET b == WithGuards(how, BuilderConditions)
           p == MergeRawConditions([update |-> b.update, guard |-> b.condition, demand |-> <<>>,
                                    names |-> b.names, values |-> b.values, clash |-> FALSE])
       IN  IF buildErr \/ ~keyed \/ SecretDemand \/ p.clash \/ Refused(p) THEN Refuse
           ELSE UpdateItem(EncryptUpdate(p))

UpdateNext ==
    \/ \E u \in UpdateCalls : Change(u)
    \/ \E logicOp \in {"AND", "OR"}, c \in UpdateConds : Condition(logicOp, c)
    \/ \E c \in WriteConds : WithCondition(c) \/ TransactCondition(c)
    \/ \E raw \in RawConds : WithConditionExpression(raw)
    \/ \E how \in {"Execute", "ExecuteWithResult"} : Execute(how) \/ BuildBuilderUpdate(how)
    \/ BuildPut \/ BuildDelete \/ BuildConditionCheck \/ BuildFieldUpdate

UpdateSpec == UpdateInit /\ [][UpdateNext]_updateVars

-----------------------------------------------------------------------------
(* Properties.                                                             *)

\* What the caller's conditions say of the item, by value.
GuardsHold(r) ==
    /\ \A i \in DOMAIN given : Compare(r, given[i].field, given[i].op, given[i].value)
    /\ \A i \in DOMAIN raws : Compare(r, raws[i].field, raws[i].op, raws[i].value)
    /\ guards = <<>> \/ Joined(guards, LAMBDA c : Compare(r, c.field, c.op, c.value))

\* No OR that is not followed: Execute takes it for AND, and a transaction's conditions do
\* not outlive it.
OnlyAnd ==
    \A i \in DOMAIN guards :
        \/ guards[i].link = "AND" \/ wrote = "updateWithResult"
        \/ i = 1 /\ (wrote = "transactUpdate" => demands = <<>>)

\* The calls, with what is to be stored.
Called ==
    {[form |-> u.form, field |-> u.field, index |-> u.index,
      value |-> IF u.form = "remove" THEN 0 ELSE IF u.field \in Sealed THEN Seal(u.value) ELSE u.value] :
        u \in ToSet(changes)}

\* What the write does to the item.
Meant(r) ==
    IF wrote = "put" THEN PutItemOf ELSE IF wrote = "delete" THEN Empty
    ELSE IF wrote = "check" THEN r ELSE Updated(r, Called)

\* The conditions reach the request as they were given, and none was left out.
Heard == OnlyAnd /\ ~queryErr

\* update_builder.go, Execute and ExecuteWithResult, and the write items of
\* transaction/builder.go: two builders number the placeholders of one request, and raw
\* conditions bring their own.  A write that succeeds has done each call with its own
\* value to its own field and nothing else; any other write leaves the item alone.  Where
\* the query left no condition out and they are joined by AND, or by AND and OR in
\* ExecuteWithResult, the write succeeds only if the item met them as they were given, and
\* fails on a condition only if it did not.
UpdateMeansItsCalls ==
    /\ updateResult \in {"error", "conditionFailed"} => row = before
    /\ updateResult = "nil" => row = Meant(before)
    /\ (updateResult = "nil" /\ Heard) => GuardsHold(before)
    /\ (updateResult = "conditionFailed" /\ Heard) => ~GuardsHold(before)

\* No update leaves the plain value of an encrypted field in the table.
UpdatesAreSealed == \A f \in Sealed \cap DOMAIN row : row[f] > SealBase

\* core/interfaces.go: Condition "must be met for the update to succeed", OrCondition has
\* "OR logic", WithCondition adds one "for write operations"; on an encrypted field
\* docs/struct-definition-guide.md has it rejected.  So a write that succeeds met all the
\* conditions of its caller, and one that fails on them did not.
ConditionsHonoured ==
    /\ updateResult = "nil" => GuardsHold(before)
    /\ updateResult = "conditionFailed" => ~GuardsHold(before)
=============================================================================
