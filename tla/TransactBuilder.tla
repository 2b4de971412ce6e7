--------------------------- MODULE TransactBuilder ---------------------------
(***************************************************************************)
(* The fluent transaction builder, pkg/transaction/builder.go: callers add *)
(* operations to a Builder and Execute sends them as one TransactWriteItems*)
(* request, retried by the builder after a transient cancellation and by   *)
(* the AWS SDK, with the same ClientRequestToken, after a broken           *)
(* connection.  DynamoDB and the SDK are external: they are modelled from  *)
(* what the builder sends and handles.  A Builder belongs to one goroutine;*)
(* the builders share only the table.                                      *)
(*                                                                         *)
(* An operation is a record [kind, key, conds, value, form].  form says    *)
(* what the code makes of it: "ok", "rejected" (addOperation or its caller *)
(* records an error) or "unbuildable" (materializeOperations fails on it). *)
(***************************************************************************)
EXTENDS Naturals, Sequences

CONSTANTS
    Builders,               \* goroutines, each with its own Builder
    Keys,                   \* primary keys of the table
    Ops,                    \* the operations each goroutine may add
    MaxTransactOperations,  \* maxTransactOperations, 25 in the code
    RetryScheduleLen,       \* len(retrySchedule), 4 in the code
    MaxResends,             \* requests the SDK repeats in one call
    MaxAsks,                \* bound: operations each goroutine adds
    MaxExecutes             \* bound: calls of Execute by each goroutine

Kinds == {"Put", "Create", "Update", "UpdateWithBuilder", "Delete", "ConditionCheck"}
Conds == {"PrimaryKeyExists", "PrimaryKeyNotExists", "VersionEquals"}
Forms == {"ok", "rejected", "unbuildable"}

ASSUME OpsAssumption ==
    \A b \in Builders : \A op \in Ops[b] :
        /\ op \in [kind : Kinds, key : Keys, conds : SUBSET Conds, value : Nat \ {0},
                   form : Forms]
        /\ op.kind = "ConditionCheck" /\ op.form = "ok" => op.conds # {}

ASSUME BoundsAssumption ==
    /\ MaxTransactOperations \in Nat \ {0}
    /\ RetryScheduleLen \in Nat
    /\ MaxResends \in Nat
    /\ MaxAsks \in [Builders -> Nat]
    /\ MaxExecutes \in [Builders -> Nat]

VARIABLES
    table,      \* the value (its version) stored under each key, 0 when there is no item
    served,     \* the ClientRequestTokens of the transactions DynamoDB has committed
    operations, \* b.operations: entries [id, op]
    err,        \* b.err
    call,       \* the Execute in progress
    result,     \* what the last Execute returned
    execs,      \* calls of Execute so far
    asked,      \* history: every operation asked of the Builder since it last succeeded
    asks,       \* operations asked so far
    log,        \* history: the commits, in order
    ambiguous   \* history: the calls that ended without an answer from DynamoDB

vars == <<table, served, operations, err, call, result, execs, asked, asks, log, ambiguous>>
builderVars == <<operations, err>>
serviceVars == <<table, served, log>>

NoToken == <<>>
Entries == [id : Builders \X Nat, op : UNION {Ops[b] : b \in Builders}]
ExecIds == Builders \X Nat
Reasons == {"None", "ConditionalCheckFailed", "TransactionConflict"}
Replies == [kind : {"none", "ok", "validation"}, reasons : {<<>>}]
             \cup [kind : {"canceled"}, reasons : Seq(Reasons)]
NoReply == [kind |-> "none", reasons |-> <<>>]
Calls == [pc : {"idle", "calling", "answered", "lost", "backoff"}, exec : ExecIds,
          token : ExecIds \cup {NoToken}, input : Seq(Entries), attempt : Nat,
          resends : Nat, reply : Replies]
Outcomes == {"none", "nil", "builder error", "canceled", "failed", "ctx.Err", "no answer"}
Results == [outcome : Outcomes, exec : ExecIds, index : Nat,
            base : {"none", "ErrConditionFailed", "ErrTransactionFailed"},
            reasons : Seq(Reasons)]

-----------------------------------------------------------------------------
(* The Builder's own methods *)

\* Create is a put guarded by attribute_not_exists on the primary key.
Conditions(op) ==
    IF op.kind = "Create" THEN op.conds \cup {"PrimaryKeyNotExists"} ELSE op.conds

\* recordError: the first error stays, and which one it is makes no difference.
RecordError(b) ==
    /\ err' = [err EXCEPT ![b] = "error"]
    /\ UNCHANGED operations

\* Mutant of AddOperation: an operation over the limit is silently dropped.
AddDropsExcess(b, entry) ==
    \/ /\ entry.op.form = "rejected"
       /\ RecordError(b)
    \/ /\ entry.op.form # "rejected"
       /\ err[b] # "nil" \/ Len(operations[b]) >= MaxTransactOperations
       /\ UNCHANGED builderVars
    \/ /\ entry.op.form # "rejected"
       /\ err[b] = "nil"
       /\ Len(operations[b]) < MaxTransactOperations
       /\ operations' = [operations EXCEPT ![b] = Append(@, entry)]
       /\ UNCHANGED err

\* addOperation, behind Put, Create, Update, UpdateWithBuilder, Delete and ConditionCheck.
AddOperation(b, entry) ==
    \/ /\ entry.op.form = "rejected"
       /\ RecordError(b)
    \/ /\ entry.op.form # "rejected"
       /\ err[b] # "nil"
       /\ UNCHANGED builderVars
    \/ /\ entry.op.form # "rejected"
       /\ err[b] = "nil"
       /\ Len(operations[b]) >= MaxTransactOperations
       /\ RecordError(b)
    \/ /\ entry.op.form # "rejected"
       /\ err[b] = "nil"
       /\ Len(operations[b]) < MaxTransactOperations
       /\ operations' = [operations EXCEPT ![b] = Append(@, entry)]
       /\ UNCHANGED err

\* A caller chains one more operation onto its Builder.
Ask(b) ==
    /\ call[b].pc = "idle"
    /\ asks[b] < MaxAsks[b]
    /\ \E op \in Ops[b] :
          LET entry == [id |-> <<b, asks[b]>>, op |-> op]
          IN /\ AddOperation(b, entry)
             /\ asked' = [asked EXCEPT ![b] = Append(@, entry)]
    /\ asks' = [asks EXCEPT ![b] = @ + 1]
    /\ UNCHANGED <<serviceVars, call, result, execs, ambiguous>>

\* DB.Transact: the caller drops its Builder, or the callback of TransactWrite
\* fails, and a fresh Builder takes its place.
Transact(b) ==
    /\ call[b].pc = "idle"
    /\ asked[b] # <<>>
    /\ operations' = [operations EXCEPT ![b] = <<>>]
    /\ err' = [err EXCEPT ![b] = "nil"]
    /\ asked' = [asked EXCEPT ![b] = <<>>]
    /\ UNCHANGED <<serviceVars, call, result, execs, asks, ambiguous>>

Idle(b) ==
    [pc |-> "idle", exec |-> <<b, 0>>, token |-> NoToken, input |-> <<>>, attempt |-> 0,
     resends |-> 0, reply |-> NoReply]

Result(outcome, exec, index, base, reasons) ==
    [outcome |-> outcome, exec |-> exec, index |-> index, base |-> base,
     reasons |-> reasons]

Return(b, outcome) ==
    /\ call' = [call EXCEPT ![b] = Idle(b)]
    /\ result' = [result EXCEPT ![b] = Result(outcome, call[b].exec, 0, "none", <<>>)]

\* Mutant of RequestToken: the request carries no ClientRequestToken.
RequestTokenLeftOut(b) == NoToken

\* Mutant of RequestToken: drawn once for the Builder, not for every Execute.
RequestTokenOfBuilder(b) == <<b, 0>>

\* The token ExecuteWithContext gives the request: a fresh uuid per Execute.
RequestToken(b) == <<b, execs[b]>>

Buildable(b) == \A i \in DOMAIN operations[b] : operations[b][i].op.form # "unbuildable"

\* ExecuteWithContext up to the first TransactWriteItems.
Execute(b) ==
    /\ call[b].pc = "idle"
    /\ execs[b] < MaxExecutes[b]
    /\ execs' = [execs EXCEPT ![b] = @ + 1]
    /\ \/ /\ err[b] # "nil" \/ operations[b] = <<>> \/ ~Buildable(b)
          /\ result' = [result EXCEPT ![b] =
                          Result("builder error", <<b, execs[b]>>, 0, "none", <<>>)]
          /\ UNCHANGED call
       \/ /\ err[b] = "nil"
          /\ operations[b] # <<>>
          /\ Buildable(b)
          /\ call' = [call EXCEPT ![b] =
                        [pc |-> "calling", exec |-> <<b, execs[b]>>,
                         token |-> RequestToken(b), input |-> operations[b],
                         attempt |-> 0, resends |-> 0, reply |-> NoReply]]
          /\ UNCHANGED result
    /\ UNCHANGED <<serviceVars, builderVars, asked, asks, ambiguous>>

-----------------------------------------------------------------------------
(* DynamoDB and the AWS SDK (external) *)

Holds(c, op) ==
    \/ c = "PrimaryKeyExists" /\ table[op.key] # 0
    \/ c = "PrimaryKeyNotExists" /\ table[op.key] = 0
    \/ c = "VersionEquals" /\ table[op.key] = op.value

Passes(op) == \A c \in Conditions(op) : Holds(c, op)

Written(op) ==
    IF op.kind \in {"Put", "Create", "Update"} THEN op.value
    ELSE IF op.kind = "UpdateWithBuilder" THEN table[op.key] + 1
    ELSE IF op.kind = "Delete" THEN 0
    ELSE table[op.key]

OneOpPerItem(input) ==
    \A i, j \in DOMAIN input : input[i].op.key = input[j].op.key => i = j

\* Every operation has a cancellation reason: "None" for one that did not fail.
ReasonsFor(input, conflicts) ==
    [i \in 1..Len(input) |->
        IF i \in conflicts THEN "TransactionConflict"
        ELSE IF Passes(input[i].op) THEN "None" ELSE "ConditionalCheckFailed"]

Answer(b, reply) ==
    call' = [call EXCEPT ![b] = [@ EXCEPT !.pc = "answered", !.reply = reply]]

Drop(b) == call' = [call EXCEPT ![b] = [@ EXCEPT !.pc = "lost"]]

\* The service runs the request; the answer may be lost on its way back.
Serve(b) ==
    /\ call[b].pc = "calling"
    /\ LET input == call[b].input
       IN \/ /\ ~OneOpPerItem(input)
             /\ Answer(b, [kind |-> "validation", reasons |-> <<>>])
             /\ UNCHANGED serviceVars
          \/ /\ OneOpPerItem(input)
             /\ call[b].token \in served
             /\ Answer(b, [kind |-> "ok", reasons |-> <<>>])
             /\ UNCHANGED serviceVars
          \/ /\ OneOpPerItem(input)
             /\ call[b].token \notin served
             /\ \E conflicts \in SUBSET DOMAIN input :
                  /\ \/ conflicts # {}
                     \/ \E i \in DOMAIN input : ~Passes(input[i].op)
                  /\ Answer(b, [kind |-> "canceled",
                                reasons |-> ReasonsFor(input, conflicts)])
             /\ UNCHANGED serviceVars
          \/ /\ OneOpPerItem(input)
             /\ call[b].token \notin served
             /\ \A i \in DOMAIN input : Passes(input[i].op)
             /\ table' = [k \in Keys |->
                            IF \E i \in DOMAIN input : input[i].op.key = k
                            THEN Written(input[CHOOSE i \in DOMAIN input :
                                                 input[i].op.key = k].op)
                            ELSE table[k]]
             /\ served' = served \cup ({call[b].token} \ {NoToken})
             /\ log' = Append(log, [exec |-> call[b].exec, input |-> input,
                                    asked |-> asked[b]])
             /\ \/ Answer(b, [kind |-> "ok", reasons |-> <<>>])
                \/ Drop(b)
    /\ UNCHANGED <<builderVars, result, execs, asked, asks, ambiguous>>

\* The request, or an answer that changed nothing, is lost.
Lose(b) ==
    /\ call[b].pc = "calling"
    /\ Drop(b)
    /\ UNCHANGED <<serviceVars, builderVars, result, execs, asked, asks, ambiguous>>

\* The SDK repeats the request, token included.
Resend(b) ==
    /\ call[b].pc = "lost"
    /\ call[b].resends < MaxResends
    /\ call' = [call EXCEPT ![b] =
                  [@ EXCEPT !.pc = "calling", !.resends = call[b].resends + 1]]
    /\ UNCHANGED <<serviceVars, builderVars, result, execs, asked, asks, ambiguous>>

-----------------------------------------------------------------------------
(* executeWithRetry: what the builder does with the SDK's answer *)

\* isRetryableReason
IsRetryableReason(code) == code = "TransactionConflict"

\* translateError: every reason must be a transient one.
Retryable(reasons) == \A i \in DOMAIN reasons : IsRetryableReason(reasons[i])

\* buildTransactionError reports the first reason that carries a code; they all do.
ReportedIndex(reasons) == 1

ReportedError(b) ==
    LET reasons == call[b].reply.reasons
        index == ReportedIndex(reasons)
    IN Result("canceled", call[b].exec, index,
              IF reasons[index] = "ConditionalCheckFailed"
              THEN "ErrConditionFailed" ELSE "ErrTransactionFailed", reasons)

\* Mutant of Succeed: the operations stay in the Builder.
SucceedKeeps(b) ==
    /\ call[b].pc = "answered"
    /\ call[b].reply.kind = "ok"
    /\ asked' = [asked EXCEPT ![b] = <<>>]
    /\ Return(b, "nil")
    /\ UNCHANGED <<serviceVars, operations, err, execs, asks, ambiguous>>

\* err == nil: executeWithRetry returns and ExecuteWithContext clears the operations.
Succeed(b) ==
    /\ call[b].pc = "answered"
    /\ call[b].reply.kind = "ok"
    /\ operations' = [operations EXCEPT ![b] = <<>>]
    /\ asked' = [asked EXCEPT ![b] = <<>>]
    /\ Return(b, "nil")
    /\ UNCHANGED <<serviceVars, err, execs, asks, ambiguous>>

\* Mutant of Canceled: the attempts are not counted.
CanceledUncounted(b) ==
    /\ call[b].pc = "answered"
    /\ call[b].reply.kind = "canceled"
    /\ \/ /\ Retryable(call[b].reply.reasons)
          /\ call' = [call EXCEPT ![b] = [@ EXCEPT !.pc = "backoff"]]
          /\ UNCHANGED result
       \/ /\ ~Retryable(call[b].reply.reasons)
          /\ call' = [call EXCEPT ![b] = Idle(b)]
          /\ result' = [result EXCEPT ![b] = ReportedError(b)]
    /\ UNCHANGED <<serviceVars, builderVars, execs, asked, asks, ambiguous>>

\* A cancellation is retried while the schedule lasts, if all reasons are transient.
Canceled(b) ==
    /\ call[b].pc = "answered"
    /\ call[b].reply.kind = "canceled"
    /\ \/ /\ Retryable(call[b].reply.reasons)
          /\ call[b].attempt < RetryScheduleLen
          /\ call' = [call EXCEPT ![b] =
                        [@ EXCEPT !.pc = "backoff", !.attempt = call[b].attempt + 1]]
          /\ UNCHANGED result
       \/ /\ \/ ~Retryable(call[b].reply.reasons)
             \/ call[b].attempt >= RetryScheduleLen
          /\ call' = [call EXCEPT ![b] = Idle(b)]
          /\ result' = [result EXCEPT ![b] = ReportedError(b)]
    /\ UNCHANGED <<serviceVars, builderVars, execs, asked, asks, ambiguous>>

\* The timer of the backoff fires: TransactWriteItems again, with the same input.
Retry(b) ==
    /\ call[b].pc = "backoff"
    /\ call' = [call EXCEPT ![b] =
                  [@ EXCEPT !.pc = "calling", !.resends = 0, !.reply = NoReply]]
    /\ UNCHANGED <<serviceVars, builderVars, result, execs, asked, asks, ambiguous>>

\* ctx is done during the backoff.
ContextDone(b) ==
    /\ call[b].pc = "backoff"
    /\ Return(b, "ctx.Err")
    /\ UNCHANGED <<serviceVars, builderVars, execs, asked, asks, ambiguous>>

\* The session has no client to call with.
NoClient(b) ==
    /\ call[b].pc = "calling"
    /\ call[b].attempt = 0
    /\ call[b].resends = 0
    /\ Return(b, "builder error")
    /\ UNCHANGED <<serviceVars, builderVars, execs, asked, asks, ambiguous>>

\* Any other error is returned as it is: the service refused the request, or the
\* SDK gave up on a connection and the outcome is unknown.
Fail(b) ==
    /\ \/ /\ call[b].pc = "answered"
          /\ call[b].reply.kind = "validation"
          /\ Return(b, "failed")
          /\ UNCHANGED ambiguous
       \/ /\ call[b].pc = "lost"
          /\ Return(b, "no answer")
          /\ ambiguous' = ambiguous \cup {call[b].exec}
    /\ UNCHANGED <<serviceVars, builderVars, execs, asked, asks>>

-----------------------------------------------------------------------------
Init ==
    /\ table = [k \in Keys |-> 0]
    /\ served = {}
    /\ operations = [b \in Builders |-> <<>>]
    /\ err = [b \in Builders |-> "nil"]
    /\ call = [b \in Builders |-> Idle(b)]
    /\ result = [b \in Builders |-> Result("none", <<b, 0>>, 0, "none", <<>>)]
    /\ execs = [b \in Builders |-> 0]
    /\ asked = [b \in Builders |-> <<>>]
    /\ asks = [b \in Builders |-> 0]
    /\ log = <<>>
    /\ ambiguous = {}

\* The steps of an Execute in progress.
Progress(b) ==
    Serve(b) \/ Lose(b) \/ Resend(b) \/ Succeed(b) \/ Canceled(b) \/ Retry(b)
             \/ ContextDone(b) \/ NoClient(b) \/ Fail(b)

Next == \E b \in Builders : Ask(b) \/ Transact(b) \/ Execute(b) \/ Progress(b)

Spec == Init /\ [][Next]_vars

\* executeWithRetry is a loop in one goroutine: it goes on until it returns.
LiveSpec == Spec /\ \A b \in Builders : WF_vars(Progress(b))

-----------------------------------------------------------------------------
\* The types, and the two limits of the code: no request exceeds
\* maxTransactOperations and no call outruns the retry schedule.
TypeOK ==
    /\ table \in [Keys -> Nat]
    /\ served \subseteq ExecIds
    /\ operations \in [Builders -> Seq(Entries)]
    /\ \A b \in Builders : Len(operations[b]) <= MaxTransactOperations
    /\ err \in [Builders -> {"nil", "error"}]
    /\ call \in [Builders -> Calls]
    /\ \A b \in Builders : call[b].attempt <= RetryScheduleLen
    /\ result \in [Builders -> Results]
    /\ execs \in [Builders -> Nat]
    /\ asked \in [Builders -> Seq(Entries)]
    /\ asks \in [Builders -> Nat]
    /\ log \in Seq([exec : ExecIds, input : Seq(Entries), asked : Seq(Entries)])
    /\ ambiguous \subseteq ExecIds

\* One Execute commits its operations at most once, however often the SDK
\* repeats the request after a lost answer and the builder after a cancellation:
\* ExecuteWithContext draws one ClientRequestToken per Execute.
AtMostOnce ==
    \A i, j \in DOMAIN log : log[i].exec = log[j].exec => i = j

\* What is committed is everything the caller asked for, in order: an operation
\* addOperation turned away (an invalid model, one too many) poisons the Builder,
\* and the rest is never committed without it.
WholeTransaction == \A i \in DOMAIN log : log[i].input = log[i].asked

Committed(exec) == \E i \in DOMAIN log : log[i].exec = exec

\* The error Execute returns can be believed: nil means committed, and a
\* TransactionError, a context error of the backoff or a rejected request means
\* that nothing was committed.  Only a lost answer leaves it open.
HonestResult ==
    \A b \in Builders :
        /\ result[b].outcome = "nil" => Committed(result[b].exec)
        /\ result[b].outcome \in {"builder error", "canceled", "failed", "ctx.Err"}
              => ~Committed(result[b].exec)

\* A Builder may be executed again after a failure, its operations are kept.
\* An operation is committed by two calls only if the first got no answer.
NoDoubleCommit ==
    \A i, j \in DOMAIN log :
        i < j /\ (\E m \in DOMAIN log[i].input, n \in DOMAIN log[j].input :
                     log[i].input[m].id = log[j].input[n].id)
            => log[i].exec \in ambiguous

\* docs/api-reference.md:359, TransactionError.OperationIndex: "The index of the
\* operation that failed (0-based)."
OperationIndexFailed ==
    \A b \in Builders :
        result[b].outcome = "canceled"
            => result[b].reasons[result[b].index] # "None"

\* Execute returns: the retry schedule and the SDK's attempts are finite.
ExecuteReturns ==
    \A b \in Builders : call[b].pc # "idle" ~> call[b].pc = "idle"

-----------------------------------------------------------------------------
(* Why they hold: the inductive invariant of module TransactBuilderProofs. *)

\* The calls in the log were made, and their tokens are the ones DynamoDB knows.
LogServed ==
    /\ \A i \in DOMAIN log :
          /\ log[i].exec[2] < execs[log[i].exec[1]]
          /\ log[i].exec \in served
    /\ \A t \in served : Committed(t)

\* While no error is recorded the Builder has everything that was asked of it.
BuilderWhole == \A b \in Builders : err[b] = "nil" => operations[b] = asked[b]

\* An Execute in progress is the Builder's latest, sends what the Builder has
\* under its own token, and knows as much of its fate as it should.
CallSound ==
    \A b \in Builders : call[b].pc # "idle" =>
        /\ execs[b] > 0
        /\ call[b].exec = <<b, execs[b] - 1>>
        /\ call[b].token = call[b].exec
        /\ call[b].input = operations[b]
        /\ call[b].input = asked[b]
        /\ result[b].outcome # "none" => result[b].exec # call[b].exec
        /\ Committed(call[b].exec) => OneOpPerItem(call[b].input)

CallFate ==
    \A b \in Builders :
        /\ call[b].pc = "calling" /\ call[b].resends = 0 => ~Committed(call[b].exec)
        /\ call[b].pc = "backoff" => ~Committed(call[b].exec)
        /\ call[b].pc = "answered" =>
              (call[b].reply.kind = "ok" <=> Committed(call[b].exec))

\* A result belongs to a call of the Builder.
ResultOwn ==
    \A b \in Builders : result[b].outcome # "none" =>
        result[b].exec[1] = b /\ result[b].exec[2] < execs[b]

\* Operations are numbered per goroutine.
IdsOwn ==
    /\ \A b \in Builders : \A m \in DOMAIN operations[b] :
          operations[b][m].id[1] = b /\ operations[b][m].id[2] < asks[b]
    /\ \A i \in DOMAIN log : \A m \in DOMAIN log[i].input :
          /\ log[i].input[m].id[1] = log[i].exec[1]
          /\ log[i].input[m].id[2] < asks[log[i].exec[1]]

\* What an earlier, answered call committed is no longer in the Builder.
CommittedGone ==
    \A b \in Builders : \A i \in DOMAIN log :
        /\ log[i].exec \notin ambiguous
        /\ call[b].pc = "idle" \/ log[i].exec # call[b].exec
        => \A m \in DOMAIN log[i].input : \A n \in DOMAIN operations[b] :
              log[i].input[m].id # operations[b][n].id

TInv ==
    /\ TypeOK /\ LogServed /\ BuilderWhole /\ CallSound /\ CallFate /\ ResultOwn
    /\ IdsOwn /\ CommittedGone /\ AtMostOnce /\ WholeTransaction /\ HonestResult
    /\ NoDoubleCommit
=============================================================================
