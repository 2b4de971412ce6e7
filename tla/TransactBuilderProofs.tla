------------------------ MODULE TransactBuilderProofs ------------------------
(***************************************************************************)
(* Proofs about module TransactBuilder: TInv is inductive, hence every     *)
(* Execute commits at most once, in whole, and tells the truth about it,   *)
(* for any number of goroutines, operations, retries and resends.          *)
(***************************************************************************)
EXTENDS TransactBuilder, TLAPS

USE DEF serviceVars, builderVars

\* The log decides what is committed.
LEMMA CommittedSame ==
    ASSUME NEW e, log' = log
    PROVE  Committed(e)' <=> Committed(e)
  BY DEF Committed

\* The parts of the identity drawn last.
LEMMA PairFacts ==
    ASSUME NEW b, NEW n \in Nat, NEW e, e = <<b, n - 1>>
    PROVE  e[1] = b /\ e[2] < n
  OBVIOUS

\* More unanswered calls only weaken NoDoubleCommit.
LEMMA NoDoubleCommitKept ==
    ASSUME NoDoubleCommit, log' = log, ambiguous \subseteq ambiguous'
    PROVE  NoDoubleCommit'
  BY DEF NoDoubleCommit

\* CommittedGone stays if no execution has become answered.
LEMMA CommittedGoneKept ==
    ASSUME CommittedGone, log' = log, operations' = operations,
           \A a \in Builders : \A i \in DOMAIN log :
               /\ log[i].exec \notin ambiguous'
               /\ call'[a].pc = "idle" \/ log[i].exec # call'[a].exec
               => /\ log[i].exec \notin ambiguous
                  /\ call[a].pc = "idle" \/ log[i].exec # call[a].exec
    PROVE  CommittedGone'
  BY DEF CommittedGone

\* A step of an Execute in progress that leaves the table and the Builder alone
\* preserves the invariant if it claims no more than the log shows and, where it
\* returns, leaves no committed call without an answer that says so.
LEMMA CallStep ==
    ASSUME TInv, NEW b \in Builders,
           UNCHANGED <<table, served, log, operations, err, execs, asked, asks>>,
           call' \in [Builders -> Calls],
           result' \in [Builders -> Results],
           ambiguous' \subseteq ExecIds,
           ambiguous \subseteq ambiguous',
           \A a \in Builders \ {b} : call'[a] = call[a] /\ result'[a] = result[a],
           call[b].pc # "idle",
           call'[b].attempt <= RetryScheduleLen,
           call'[b].pc # "idle" =>
               /\ call'[b].exec = call[b].exec
               /\ call'[b].token = call[b].token
               /\ call'[b].input = call[b].input
               /\ result'[b] = result[b],
           call'[b].pc = "calling" /\ call'[b].resends = 0 => ~Committed(call[b].exec),
           call'[b].pc = "backoff" => ~Committed(call[b].exec),
           call'[b].pc = "answered" =>
               (call'[b].reply.kind = "ok" <=> Committed(call[b].exec)),
           call'[b].pc = "idle" =>
               /\ result'[b].exec = call[b].exec
               /\ result'[b].outcome = "nil" => Committed(call[b].exec)
               /\ result'[b].outcome \in {"builder error", "canceled", "failed", "ctx.Err"}
                     => ~Committed(call[b].exec)
               /\ Committed(call[b].exec) => call[b].exec \in ambiguous'
    PROVE  TInv'
  <1> USE DEF TInv
  <1>1. TypeOK'
    BY DEF TypeOK
  <1>2. LogServed' /\ BuilderWhole' /\ IdsOwn' /\ AtMostOnce' /\ WholeTransaction'
    <2>1. LogServed' /\ IdsOwn'
      BY DEF LogServed, IdsOwn, Committed
    <2>2. BuilderWhole'
      BY DEF BuilderWhole
    <2>3. AtMostOnce' /\ WholeTransaction'
      BY DEF AtMostOnce, WholeTransaction
    <2> QED
      BY <2>1, <2>2, <2>3
  <1>3. CallSound'
    <2> SUFFICES ASSUME NEW a \in Builders, call'[a].pc # "idle"
                 PROVE  /\ execs[a] > 0
                        /\ call'[a].exec = <<a, execs[a] - 1>>
                        /\ call'[a].token = call'[a].exec
                        /\ call'[a].input = operations[a]
                        /\ call'[a].input = asked[a]
                        /\ result'[a].outcome # "none" => result'[a].exec # call'[a].exec
                        /\ Committed(call'[a].exec) => OneOpPerItem(call'[a].input)
      BY DEF CallSound, Committed, OneOpPerItem
    <2>1. /\ call[a].pc # "idle"
          /\ call'[a].exec = call[a].exec
          /\ call'[a].token = call[a].token
          /\ call'[a].input = call[a].input
          /\ result'[a] = result[a]
      OBVIOUS
    <2>2. /\ execs[a] > 0
          /\ call[a].exec = <<a, execs[a] - 1>>
          /\ call[a].token = call[a].exec
          /\ call[a].input = operations[a]
          /\ call[a].input = asked[a]
          /\ result[a].outcome # "none" => result[a].exec # call[a].exec
          /\ Committed(call[a].exec) => OneOpPerItem(call[a].input)
      BY <2>1 DEF CallSound
    <2> QED
      BY <2>1, <2>2
  <1>4. CallFate'
    <2> SUFFICES ASSUME NEW a \in Builders
                 PROVE  /\ call'[a].pc = "calling" /\ call'[a].resends = 0
                              => ~Committed(call'[a].exec)
                        /\ call'[a].pc = "backoff" => ~Committed(call'[a].exec)
                        /\ call'[a].pc = "answered" =>
                              (call'[a].reply.kind = "ok" <=> Committed(call'[a].exec))
      BY DEF CallFate, Committed
    <2> QED
      BY DEF CallFate
  <1>5. ResultOwn'
    <2> SUFFICES ASSUME NEW a \in Builders, result'[a].outcome # "none"
                 PROVE  result'[a].exec[1] = a /\ result'[a].exec[2] < execs[a]
      BY DEF ResultOwn
    <2>1. CASE result'[a] = result[a]
      BY <2>1 DEF ResultOwn
    <2>2. CASE a = b /\ call'[b].pc = "idle"
      <3>1. execs[b] \in Nat
        BY DEF TypeOK
      <3>2. result'[b].exec = <<b, execs[b] - 1>>
        BY <2>2 DEF CallSound
      <3>3. result'[b].exec[1] = b /\ result'[b].exec[2] < execs[b]
        BY <3>1, <3>2, PairFacts, Zenon
      <3> QED
        BY <2>2, <3>3
    <2> QED
      BY <2>1, <2>2
  <1>6. HonestResult'
    <2> SUFFICES ASSUME NEW a \in Builders
                 PROVE  /\ result'[a].outcome = "nil" => Committed(result'[a].exec)
                        /\ result'[a].outcome \in
                                {"builder error", "canceled", "failed", "ctx.Err"}
                              => ~Committed(result'[a].exec)
      BY DEF HonestResult, Committed
    <2> QED
      BY DEF HonestResult
  <1>7. CommittedGone'
    <2> SUFFICES ASSUME NEW a \in Builders, NEW i \in DOMAIN log,
                        log[i].exec \notin ambiguous',
                        call'[a].pc = "idle" \/ log[i].exec # call'[a].exec
                 PROVE  /\ log[i].exec \notin ambiguous
                        /\ call[a].pc = "idle" \/ log[i].exec # call[a].exec
      BY CommittedGoneKept
    <2>1. Committed(log[i].exec)
      BY DEF Committed
    <2>2. CASE a # b
      BY <2>2
    <2>3. CASE a = b
      BY <2>1, <2>3
    <2> QED
      BY <2>2, <2>3
  <1>8. NoDoubleCommit'
    BY NoDoubleCommitKept
  <1> QED
    BY <1>1, <1>2, <1>3, <1>4, <1>5, <1>6, <1>7, <1>8

\* Committed calls are the ones whose token DynamoDB knows.
LEMMA TokenTells ==
    ASSUME TInv, NEW b \in Builders, call[b].pc # "idle"
    PROVE  /\ call[b].token = call[b].exec
           /\ Committed(call[b].exec) <=> call[b].token \in served
  <1>1. call[b].token = call[b].exec
    BY DEF TInv, CallSound
  <1>2. call[b].exec \in served => Committed(call[b].exec)
    BY DEF TInv, LogServed
  <1>3. Committed(call[b].exec) => call[b].exec \in served
    BY DEF TInv, LogServed, Committed
  <1> QED
    BY <1>1, <1>2, <1>3

\* The steps that only change the call in progress.
LEMMA CallChange ==
    ASSUME TInv, NEW b \in Builders, NEW c \in Calls,
           call' = [call EXCEPT ![b] = c],
           UNCHANGED <<table, served, log, operations, err, execs, asked, asks, result,
                       ambiguous>>,
           call[b].pc # "idle",
           c.pc # "idle",
           c.attempt <= RetryScheduleLen,
           c.exec = call[b].exec, c.token = call[b].token, c.input = call[b].input,
           c.pc = "calling" /\ c.resends = 0 => ~Committed(call[b].exec),
           c.pc = "backoff" => ~Committed(call[b].exec),
           c.pc = "answered" => (c.reply.kind = "ok" <=> Committed(call[b].exec))
    PROVE  TInv'
  <1>1. /\ call' \in [Builders -> Calls]
        /\ call'[b] = c
        /\ \A a \in Builders \ {b} : call'[a] = call[a]
    BY DEF TInv, TypeOK
  <1>2. /\ result' \in [Builders -> Results]
        /\ ambiguous' \subseteq ExecIds
        /\ ambiguous \subseteq ambiguous'
        /\ \A a \in Builders : result'[a] = result[a]
    BY DEF TInv, TypeOK
  <1> QED
    BY <1>1, <1>2, CallStep

\* The first attempt is within the schedule.
LEMMA FirstAttempt ==
    0 <= RetryScheduleLen
  BY BoundsAssumption

\* A goroutine outside Execute.
LEMMA IdleType ==
    ASSUME NEW b \in Builders
    PROVE  Idle(b) \in Calls /\ Idle(b).pc = "idle" /\ Idle(b).attempt = 0
  <1>1. NoReply \in Replies
    BY DEF NoReply, Replies
  <1>2. <<b, 0>> \in ExecIds
    BY DEF ExecIds
  <1>3. <<>> \in Seq(Entries)
    OBVIOUS
  <1> QED
    BY <1>1, <1>2, <1>3 DEF Idle, Calls

\* The steps that return and leave the Builder as it is.
LEMMA CallReturn ==
    ASSUME TInv, NEW b \in Builders, NEW r \in Results,
           call' = [call EXCEPT ![b] = Idle(b)],
           result' = [result EXCEPT ![b] = r],
           UNCHANGED <<table, served, log, operations, err, execs, asked, asks>>,
           ambiguous' \subseteq ExecIds,
           ambiguous \subseteq ambiguous',
           call[b].pc # "idle",
           r.exec = call[b].exec,
           r.outcome = "nil" => Committed(call[b].exec),
           r.outcome \in {"builder error", "canceled", "failed", "ctx.Err"}
               => ~Committed(call[b].exec),
           Committed(call[b].exec) => call[b].exec \in ambiguous'
    PROVE  TInv'
  <1>0. Idle(b) \in Calls /\ Idle(b).pc = "idle" /\ Idle(b).attempt = 0
    BY IdleType
  <1>1. /\ call' \in [Builders -> Calls]
        /\ call'[b] = Idle(b)
        /\ \A a \in Builders \ {b} : call'[a] = call[a]
    BY <1>0 DEF TInv, TypeOK
  <1>2. /\ result' \in [Builders -> Results]
        /\ result'[b] = r
        /\ \A a \in Builders \ {b} : result'[a] = result[a]
    BY DEF TInv, TypeOK
  <1>3. call'[b].pc = "idle" /\ call'[b].attempt = 0
    BY <1>0, <1>1, Zenon
  <1>4. call'[b].attempt <= RetryScheduleLen
    BY <1>3, FirstAttempt, Zenon
  <1>5. /\ result'[b].exec = call[b].exec
        /\ result'[b].outcome = "nil" => Committed(call[b].exec)
        /\ result'[b].outcome \in {"builder error", "canceled", "failed", "ctx.Err"}
              => ~Committed(call[b].exec)
    BY <1>2
  <1> QED
    BY <1>1, <1>2, <1>3, <1>4, <1>5, CallStep

\* The places a call moves to.
LEMMA CallsUpdate ==
    ASSUME NEW c \in Calls
    PROVE  /\ \A pc \in {"calling", "answered", "lost", "backoff"} :
                 [c EXCEPT !.pc = pc] \in Calls
           /\ \A reply \in Replies :
                 [c EXCEPT !.pc = "answered", !.reply = reply] \in Calls
           /\ [c EXCEPT !.pc = "calling", !.resends = c.resends + 1] \in Calls
           /\ [c EXCEPT !.pc = "backoff", !.attempt = c.attempt + 1] \in Calls
           /\ [c EXCEPT !.pc = "calling", !.resends = 0, !.reply = NoReply] \in Calls
  <1>0. c.resends + 1 \in Nat /\ c.attempt + 1 \in Nat
    BY DEF Calls
  <1>1. NoReply \in Replies
    BY DEF NoReply, Replies
  <1>2. \A pc \in {"calling", "answered", "lost", "backoff"} :
           [c EXCEPT !.pc = pc] \in Calls
    BY DEF Calls
  <1>3. \A reply \in Replies :
           [c EXCEPT !.pc = "answered", !.reply = reply] \in Calls
    BY DEF Calls
  <1>4. [c EXCEPT !.pc = "calling", !.resends = c.resends + 1] \in Calls
    BY <1>0 DEF Calls
  <1>5. [c EXCEPT !.pc = "backoff", !.attempt = c.attempt + 1] \in Calls
    BY <1>0 DEF Calls
  <1>6. [c EXCEPT !.pc = "calling", !.resends = 0, !.reply = NoReply] \in Calls
    BY <1>1 DEF Calls
  <1> QED
    BY <1>2, <1>3, <1>4, <1>5, <1>6

\* An answer is lost on its way.
LEMMA DropStep ==
    ASSUME TInv, NEW b \in Builders, call[b].pc = "calling", Drop(b),
           UNCHANGED <<table, served, log, operations, err, execs, asked, asks, result,
                       ambiguous>>
    PROVE  TInv'
  <1> DEFINE c == [call[b] EXCEPT !.pc = "lost"]
  <1>1. call[b] \in Calls /\ call[b].attempt <= RetryScheduleLen
    BY DEF TInv, TypeOK
  <1>2. c \in Calls
    BY <1>1, CallsUpdate
  <1>3. /\ c.pc = "lost" /\ c.exec = call[b].exec /\ c.token = call[b].token
        /\ c.input = call[b].input /\ c.attempt = call[b].attempt
    BY <1>1 DEF Calls
  <1>4. call' = [call EXCEPT ![b] = c]
    BY DEF Drop
  <1> HIDE DEF c
  <1> QED
    BY <1>1, <1>2, <1>3, <1>4, CallChange

\* An answer arrives that tells what was committed.
LEMMA AnswerStep ==
    ASSUME TInv, NEW b \in Builders, NEW reply \in Replies, call[b].pc = "calling",
           Answer(b, reply), reply.kind = "ok" <=> Committed(call[b].exec),
           UNCHANGED <<table, served, log, operations, err, execs, asked, asks, result,
                       ambiguous>>
    PROVE  TInv'
  <1> DEFINE c == [call[b] EXCEPT !.pc = "answered", !.reply = reply]
  <1>1. call[b] \in Calls /\ call[b].attempt <= RetryScheduleLen
    BY DEF TInv, TypeOK
  <1>2. c \in Calls
    BY <1>1, CallsUpdate
  <1>3. /\ c.pc = "answered" /\ c.exec = call[b].exec /\ c.token = call[b].token
        /\ c.input = call[b].input /\ c.attempt = call[b].attempt /\ c.reply = reply
    BY <1>1 DEF Calls
  <1>4. call' = [call EXCEPT ![b] = c]
    BY DEF Answer
  <1> HIDE DEF c
  <1> QED
    BY <1>1, <1>2, <1>3, <1>4, CallChange

\* The SDK repeats a request with its token.
LEMMA ResendStep ==
    ASSUME TInv, NEW b \in Builders, Resend(b)
    PROVE  TInv'
  <1> DEFINE c == [call[b] EXCEPT !.pc = "calling", !.resends = call[b].resends + 1]
  <1>1. call[b] \in Calls /\ call[b].attempt <= RetryScheduleLen
    BY DEF TInv, TypeOK
  <1>2. c \in Calls
    BY <1>1, CallsUpdate
  <1>3. /\ c.pc = "calling" /\ c.exec = call[b].exec /\ c.token = call[b].token
        /\ c.input = call[b].input /\ c.attempt = call[b].attempt /\ c.resends # 0
    BY <1>1 DEF Calls
  <1>4. /\ call' = [call EXCEPT ![b] = c]
        /\ call[b].pc = "lost"
        /\ UNCHANGED <<table, served, log, operations, err, execs, asked, asks, result,
                       ambiguous>>
    BY DEF Resend
  <1> HIDE DEF c
  <1> QED
    BY <1>1, <1>2, <1>3, <1>4, CallChange

\* executeWithRetry tries again.
LEMMA RetryStep ==
    ASSUME TInv, NEW b \in Builders, Retry(b)
    PROVE  TInv'
  <1> DEFINE c == [call[b] EXCEPT !.pc = "calling", !.resends = 0, !.reply = NoReply]
  <1>1. call[b] \in Calls /\ call[b].attempt <= RetryScheduleLen
    BY DEF TInv, TypeOK
  <1>2. c \in Calls
    BY <1>1, CallsUpdate
  <1>3. /\ c.pc = "calling" /\ c.exec = call[b].exec /\ c.token = call[b].token
        /\ c.input = call[b].input /\ c.attempt = call[b].attempt
    BY <1>1 DEF Calls
  <1>4. /\ call' = [call EXCEPT ![b] = c]
        /\ call[b].pc = "backoff"
        /\ UNCHANGED <<table, served, log, operations, err, execs, asked, asks, result,
                       ambiguous>>
    BY DEF Retry
  <1>5. ~Committed(call[b].exec)
    BY <1>4 DEF TInv, CallFate
  <1> HIDE DEF c
  <1> QED
    BY <1>1, <1>2, <1>3, <1>4, <1>5, CallChange

\* The results of the steps that return without changing the Builder.
LEMMA ResultType ==
    ASSUME NEW e \in ExecIds, NEW outcome \in Outcomes
    PROVE  LET r == Result(outcome, e, 0, "none", <<>>)
           IN r \in Results /\ r.outcome = outcome /\ r.exec = e
  BY DEF Result, Results

\* Execute returns an error, or nil for what was committed.
LEMMA ReturnStep ==
    ASSUME TInv, NEW b \in Builders, NEW outcome \in Outcomes, Return(b, outcome),
           UNCHANGED <<table, served, log, operations, err, execs, asked, asks>>,
           ambiguous' \subseteq ExecIds,
           ambiguous \subseteq ambiguous',
           call[b].pc # "idle",
           outcome = "nil" => Committed(call[b].exec),
           outcome \in {"builder error", "canceled", "failed", "ctx.Err"}
               => ~Committed(call[b].exec),
           Committed(call[b].exec) => call[b].exec \in ambiguous'
    PROVE  TInv'
  <1> DEFINE r == Result(outcome, call[b].exec, 0, "none", <<>>)
  <1>1. call[b].exec \in ExecIds
    BY DEF TInv, TypeOK, Calls
  <1>2. r \in Results /\ r.outcome = outcome /\ r.exec = call[b].exec
    BY <1>1, ResultType
  <1>3. /\ call' = [call EXCEPT ![b] = Idle(b)]
        /\ result' = [result EXCEPT ![b] = r]
    BY DEF Return
  <1> HIDE DEF r
  <1> QED
    BY <1>2, <1>3, CallReturn

\* The connection breaks.
LEMMA LoseStep ==
    ASSUME TInv, NEW b \in Builders, Lose(b)
    PROVE  TInv'
  BY DropStep DEF Lose

\* The context ends while the builder waits.
LEMMA ContextDoneStep ==
    ASSUME TInv, NEW b \in Builders, ContextDone(b)
    PROVE  TInv'
  <1>1. ~Committed(call[b].exec)
    BY DEF TInv, CallFate, ContextDone
  <1>2. "ctx.Err" \in Outcomes /\ ambiguous \subseteq ExecIds
    BY DEF Outcomes, TInv, TypeOK
  <1> QED
    BY <1>1, <1>2, ReturnStep DEF ContextDone

\* There is no client.
LEMMA NoClientStep ==
    ASSUME TInv, NEW b \in Builders, NoClient(b)
    PROVE  TInv'
  <1>1. ~Committed(call[b].exec)
    BY DEF TInv, CallFate, NoClient
  <1>2. "builder error" \in Outcomes /\ ambiguous \subseteq ExecIds
    BY DEF Outcomes, TInv, TypeOK
  <1> QED
    BY <1>1, <1>2, ReturnStep DEF NoClient

\* An error that is not retried.
LEMMA FailStep ==
    ASSUME TInv, NEW b \in Builders, Fail(b)
    PROVE  TInv'
  <1>1. /\ "failed" \in Outcomes /\ "no answer" \in Outcomes
        /\ ambiguous \subseteq ExecIds
        /\ call[b].exec \in ExecIds
    BY DEF Outcomes, TInv, TypeOK, Calls
  <1>2. CASE /\ call[b].pc = "answered" /\ call[b].reply.kind = "validation"
             /\ Return(b, "failed") /\ UNCHANGED ambiguous
    <2>1. ~Committed(call[b].exec)
      BY <1>2 DEF TInv, CallFate
    <2> QED
      BY <1>1, <1>2, <2>1, ReturnStep DEF Fail
  <1>3. CASE /\ call[b].pc = "lost" /\ Return(b, "no answer")
             /\ ambiguous' = ambiguous \cup {call[b].exec}
    BY <1>1, <1>3, ReturnStep DEF Fail
  <1> QED
    BY <1>2, <1>3 DEF Fail

\* A cancellation.
LEMMA CanceledStep ==
    ASSUME TInv, NEW b \in Builders, Canceled(b)
    PROVE  TInv'
  <1>1. /\ call[b] \in Calls /\ call[b].attempt \in Nat
        /\ call[b].attempt <= RetryScheduleLen
        /\ call[b].exec \in ExecIds /\ call[b].reply \in Replies
        /\ ambiguous \subseteq ExecIds
    BY DEF TInv, TypeOK, Calls
  <1>2. call[b].pc = "answered" /\ call[b].reply.kind = "canceled"
    BY DEF Canceled
  <1>3. ~Committed(call[b].exec)
    BY <1>2 DEF TInv, CallFate
  <1>4. CASE /\ call[b].attempt < RetryScheduleLen
             /\ call' = [call EXCEPT ![b] =
                           [@ EXCEPT !.pc = "backoff", !.attempt = call[b].attempt + 1]]
             /\ UNCHANGED result
    <2> DEFINE c == [call[b] EXCEPT !.pc = "backoff", !.attempt = call[b].attempt + 1]
    <2>1. c \in Calls
      BY <1>1, CallsUpdate
    <2>2. /\ c.pc = "backoff" /\ c.exec = call[b].exec /\ c.token = call[b].token
          /\ c.input = call[b].input /\ c.attempt = call[b].attempt + 1
      BY <1>1 DEF Calls
    <2>3. c.attempt <= RetryScheduleLen
      BY <1>1, <1>4, <2>2, BoundsAssumption
    <2>4. call' = [call EXCEPT ![b] = c]
      BY <1>4
    <2>5. UNCHANGED <<table, served, log, operations, err, execs, asked, asks, ambiguous>>
      BY DEF Canceled
    <2> HIDE DEF c
    <2> QED
      BY <1>2, <1>3, <1>4, <2>1, <2>2, <2>3, <2>4, <2>5, CallChange
  <1>5. CASE /\ call' = [call EXCEPT ![b] = Idle(b)]
             /\ result' = [result EXCEPT ![b] = ReportedError(b)]
    <2>1. ReportedError(b) \in Results
      <3>1. call[b].reply.reasons \in Seq(Reasons)
        BY <1>1, <1>2 DEF Replies
      <3> QED
        BY <1>1, <3>1 DEF ReportedError, Result, Results, ReportedIndex, Outcomes
    <2>2. ReportedError(b).outcome = "canceled" /\ ReportedError(b).exec = call[b].exec
      BY DEF ReportedError, Result
    <2>3. UNCHANGED <<table, served, log, operations, err, execs, asked, asks, ambiguous>>
      BY DEF Canceled
    <2> QED
      BY <1>1, <1>2, <1>3, <1>5, <2>1, <2>2, <2>3, CallReturn
  <1> QED
    BY <1>4, <1>5 DEF Canceled

LogEntries == [exec : ExecIds, input : Seq(Entries), asked : Seq(Entries)]

\* What Append does to a sequence.
LEMMA AppendFacts ==
    ASSUME NEW S, NEW s \in Seq(S), NEW r \in S
    PROVE  /\ Append(s, r) \in Seq(S)
           /\ Len(s) \in Nat
           /\ DOMAIN s = 1..Len(s)
           /\ DOMAIN Append(s, r) = 1..(Len(s) + 1)
           /\ \A i \in 1..Len(s) : Append(s, r)[i] = s[i]
           /\ Append(s, r)[Len(s) + 1] = r
  OBVIOUS

\* Two builders' calls differ.
LEMMA OwnCall ==
    ASSUME TInv, NEW b \in Builders, call[b].pc # "idle"
    PROVE  call[b].exec[1] = b /\ call[b].exec[2] < execs[b] /\ call[b].exec \in ExecIds
  <1>1. call[b].exec = <<b, execs[b] - 1>> /\ execs[b] \in Nat
    BY DEF TInv, CallSound, TypeOK
  <1>2. call[b].exec \in ExecIds
    BY DEF TInv, TypeOK, Calls
  <1> QED
    BY <1>1, <1>2, PairFacts, Zenon

\* DynamoDB commits the request: what the step adds to the log.
LEMMA CommitStep ==
    ASSUME TInv, NEW b \in Builders, NEW c \in Calls,
           call[b].pc = "calling",
           OneOpPerItem(call[b].input),
           call[b].token \notin served,
           table' \in [Keys -> Nat],
           served' = served \cup {call[b].exec},
           log' = Append(log, [exec |-> call[b].exec, input |-> call[b].input,
                               asked |-> asked[b]]),
           call' = [call EXCEPT ![b] = c],
           c.pc = "lost" \/ (c.pc = "answered" /\ c.reply.kind = "ok"),
           c.exec = call[b].exec, c.token = call[b].token, c.input = call[b].input,
           c.attempt = call[b].attempt,
           UNCHANGED <<operations, err, execs, asked, asks, result, ambiguous>>
    PROVE  TInv'
  <1> DEFINE e == call[b].exec
             L == Len(log)
             r == [exec |-> e, input |-> call[b].input, asked |-> asked[b]]
  <1>1. /\ e[1] = b /\ e[2] < execs[b] /\ e \in ExecIds
        /\ call[b].token = e /\ ~Committed(e)
    BY OwnCall, TokenTells
  <1>2. call[b].input = operations[b] /\ call[b].input = asked[b]
    BY DEF TInv, CallSound
  <1>3. r \in LogEntries /\ log \in Seq(LogEntries)
    BY <1>1 DEF TInv, TypeOK, Calls, LogEntries
  <1>4. /\ log' \in Seq(LogEntries)
        /\ L \in Nat
        /\ DOMAIN log = 1..L
        /\ DOMAIN log' = 1..(L + 1)
        /\ \A i \in 1..L : log'[i] = log[i]
        /\ log'[L + 1] = r
    BY <1>3, AppendFacts
  <1>5. r.exec = e /\ r.input = operations[b] /\ r.asked = asked[b]
    BY <1>2
  <1> HIDE DEF L, r, e
  <1>6. \A i \in DOMAIN log' : i \in DOMAIN log \/ i = L + 1
    BY <1>4
  <1>7. /\ L + 1 \in DOMAIN log' /\ L + 1 \notin DOMAIN log
        /\ \A i \in DOMAIN log : i \in DOMAIN log' /\ log'[i] = log[i]
    BY <1>4
  <1>8. \A x : Committed(x)' <=> Committed(x) \/ x = e
    BY <1>4, <1>5, <1>6, <1>7 DEF Committed
  <1>9. \A i \in DOMAIN log : Committed(log[i].exec) /\ log[i].exec # e
    BY <1>1 DEF Committed
  <1>10. /\ call' \in [Builders -> Calls]
         /\ call'[b] = c
         /\ \A a \in Builders \ {b} : call'[a] = call[a]
    BY DEF TInv, TypeOK
  <1>11. TypeOK'
    BY <1>1, <1>4, <1>10 DEF TInv, TypeOK, LogEntries
  <1>12. LogServed'
    <2>1. \A i \in DOMAIN log' : log'[i].exec[2] < execs[log'[i].exec[1]]
      BY <1>1, <1>4, <1>5, <1>6, <1>7 DEF TInv, LogServed
    <2>2. \A i \in DOMAIN log' : log'[i].exec \in served'
      BY <1>4, <1>5, <1>6, <1>7 DEF TInv, LogServed, e
    <2>3. \A t \in served' : Committed(t)'
      BY <1>8 DEF TInv, LogServed, e
    <2> QED
      BY <2>1, <2>2, <2>3 DEF LogServed
  <1>13. BuilderWhole' /\ ResultOwn'
    BY DEF TInv, BuilderWhole, ResultOwn
  <1>14. \A a \in Builders \ {b} : call[a].pc # "idle" => call[a].exec # e
    BY <1>1, OwnCall
  <1>15. CallSound'
    <2> SUFFICES ASSUME NEW a \in Builders, call'[a].pc # "idle"
                 PROVE  /\ execs[a] > 0
                        /\ call'[a].exec = <<a, execs[a] - 1>>
                        /\ call'[a].token = call'[a].exec
                        /\ call'[a].input = operations[a]
                        /\ call'[a].input = asked[a]
                        /\ result[a].outcome # "none" => result[a].exec # call'[a].exec
                        /\ Committed(call[a].exec)' => OneOpPerItem(call'[a].input)
      BY DEF CallSound, OneOpPerItem
    <2>1. /\ call[a].pc # "idle"
          /\ call'[a].exec = call[a].exec
          /\ call'[a].token = call[a].token
          /\ call'[a].input = call[a].input
      BY <1>10
    <2>2. /\ execs[a] > 0
          /\ call[a].exec = <<a, execs[a] - 1>>
          /\ call[a].token = call[a].exec
          /\ call[a].input = operations[a]
          /\ call[a].input = asked[a]
          /\ result[a].outcome # "none" => result[a].exec # call[a].exec
          /\ Committed(call[a].exec) => OneOpPerItem(call[a].input)
      BY <2>1 DEF TInv, CallSound
    <2>3. Committed(call[a].exec)' => OneOpPerItem(call[a].input)
      BY <1>8, <1>14, <2>1, <2>2
    <2> QED
      BY <2>1, <2>2, <2>3
  <1>16. CallFate'
    <2> SUFFICES ASSUME NEW a \in Builders
                 PROVE  /\ call'[a].pc = "calling" /\ call'[a].resends = 0
                              => ~Committed(call[a].exec)'
                        /\ call'[a].pc = "backoff" => ~Committed(call[a].exec)'
                        /\ call'[a].pc = "answered" =>
                              (call'[a].reply.kind = "ok" <=> Committed(call[a].exec)')
      BY DEF CallFate
    <2>1. CASE a = b
      BY <1>8, <1>10, <2>1 DEF e
    <2>2. CASE a # b
      <3>1. call'[a] = call[a] /\ (call[a].pc # "idle" => call[a].exec # e)
        BY <1>10, <1>14, <2>2
      <3> QED
        BY <1>8, <3>1 DEF TInv, CallFate
    <2> QED
      BY <2>1, <2>2
  <1>17. IdsOwn'
    <2>1. \A m \in DOMAIN operations[b] :
             operations[b][m].id[1] = b /\ operations[b][m].id[2] < asks[b]
      BY DEF TInv, IdsOwn
    <2>2. ASSUME NEW i \in DOMAIN log', NEW m \in DOMAIN log'[i].input
          PROVE  /\ log'[i].input[m].id[1] = log'[i].exec[1]
                 /\ log'[i].input[m].id[2] < asks[log'[i].exec[1]]
      <3>1. CASE i \in DOMAIN log
        BY <1>7, <3>1 DEF TInv, IdsOwn
      <3>2. CASE i = L + 1
        BY <1>1, <1>4, <1>5, <2>1, <3>2
      <3> QED
        BY <1>6, <3>1, <3>2
    <2> QED
      BY <2>2 DEF TInv, IdsOwn
  <1>18. CommittedGone'
    <2> SUFFICES ASSUME NEW a \in Builders, NEW i \in DOMAIN log',
                        log'[i].exec \notin ambiguous,
                        call'[a].pc = "idle" \/ log'[i].exec # call'[a].exec,
                        NEW m \in DOMAIN log'[i].input, NEW n \in DOMAIN operations[a]
                 PROVE  log'[i].input[m].id # operations[a][n].id
      BY DEF CommittedGone
    <2>1. CASE i \in DOMAIN log
      <3>1. log'[i] = log[i] /\ (call[a].pc = "idle" \/ log[i].exec # call[a].exec)
        BY <1>7, <1>10, <2>1
      <3> QED
        BY <2>1, <3>1 DEF TInv, CommittedGone
    <2>2. CASE i = L + 1
      <3>1. a # b
        BY <1>4, <1>5, <1>10, <2>2 DEF e
      <3>2. operations[a][n].id[1] = a
        BY DEF TInv, IdsOwn
      <3>3. log'[i].input[m].id[1] = b
        BY <1>4, <1>5, <2>2 DEF TInv, IdsOwn
      <3> QED
        BY <3>1, <3>2, <3>3
    <2> QED
      BY <1>6, <2>1, <2>2
  <1>19. AtMostOnce'
    BY <1>4, <1>5, <1>6, <1>7, <1>9 DEF TInv, AtMostOnce
  <1>20. WholeTransaction'
    BY <1>2, <1>4, <1>5, <1>6, <1>7 DEF TInv, WholeTransaction
  <1>21. HonestResult'
    <2> SUFFICES ASSUME NEW a \in Builders
                 PROVE  /\ result[a].outcome = "nil" => Committed(result[a].exec)'
                        /\ result[a].outcome \in
                                {"builder error", "canceled", "failed", "ctx.Err"}
                              => ~Committed(result[a].exec)'
      BY DEF HonestResult
    <2>1. result[a].outcome # "none" => result[a].exec # e
      <3>1. CASE a = b
        BY <3>1 DEF TInv, CallSound, e
      <3>2. CASE a # b
        BY <1>1, <3>2 DEF TInv, ResultOwn
      <3> QED
        BY <3>1, <3>2
    <2> QED
      BY <1>8, <2>1 DEF TInv, HonestResult
  <1>22. NoDoubleCommit'
    <2> SUFFICES ASSUME NEW i \in DOMAIN log', NEW j \in DOMAIN log', i < j,
                        NEW m \in DOMAIN log'[i].input, NEW n \in DOMAIN log'[j].input,
                        log'[i].input[m].id = log'[j].input[n].id
                 PROVE  log'[i].exec \in ambiguous
      BY DEF NoDoubleCommit
    <2>1. i \in DOMAIN log /\ log'[i] = log[i]
      BY <1>4
    <2>2. CASE j \in DOMAIN log
      BY <1>7, <2>1, <2>2 DEF TInv, NoDoubleCommit
    <2>3. CASE j = L + 1
      BY <1>4, <1>5, <1>9, <2>1, <2>3 DEF TInv, CommittedGone, e
    <2> QED
      BY <1>6, <2>2, <2>3
  <1> QED
    BY <1>11, <1>12, <1>13, <1>15, <1>16, <1>17, <1>18, <1>19, <1>20, <1>21, <1>22
       DEF TInv

\* What an operation writes.
LEMMA WrittenType ==
    ASSUME TInv, NEW b \in Builders, NEW i \in DOMAIN call[b].input
    PROVE  /\ call[b].input[i].op.key \in Keys
           /\ Written(call[b].input[i].op) \in Nat
  <1> DEFINE op == call[b].input[i].op
  <1>1. call[b].input[i] \in Entries
    BY DEF TInv, TypeOK, Calls
  <1>2. PICK a \in Builders : op \in Ops[a]
    BY <1>1 DEF Entries
  <1>3. op.value \in Nat /\ op.key \in Keys
    BY <1>2, OpsAssumption
  <1>4. table[op.key] \in Nat
    BY <1>3 DEF TInv, TypeOK
  <1> HIDE DEF op
  <1>5. Written(op) \in Nat
    BY <1>3, <1>4 DEF Written
  <1> QED
    BY <1>3, <1>5 DEF op

\* DynamoDB serves a request.
LEMMA ServeStep ==
    ASSUME TInv, NEW b \in Builders, Serve(b)
    PROVE  TInv'
  <1> DEFINE input == call[b].input
             Ok == [kind |-> "ok", reasons |-> <<>>]
             Invalid == [kind |-> "validation", reasons |-> <<>>]
  <1>1. /\ call[b].pc = "calling"
        /\ UNCHANGED <<operations, err, result, execs, asked, asks, ambiguous>>
    BY DEF Serve
  <1>2. /\ call[b].token = call[b].exec
        /\ Committed(call[b].exec) <=> call[b].token \in served
        /\ Committed(call[b].exec) => OneOpPerItem(input)
    BY <1>1, TokenTells DEF TInv, CallSound
  <1>3. call[b] \in Calls /\ input \in Seq(Entries)
    BY DEF TInv, TypeOK, Calls
  <1>4. Ok \in Replies /\ Invalid \in Replies
    BY DEF Replies
  <1>5. CASE ~OneOpPerItem(input) /\ Answer(b, Invalid) /\ UNCHANGED serviceVars
    <2>1. Invalid.kind # "ok"
      OBVIOUS
    <2> HIDE DEF Invalid
    <2> QED
      BY <1>1, <1>2, <1>4, <1>5, <2>1, AnswerStep
  <1>6. CASE call[b].token \in served /\ Answer(b, Ok) /\ UNCHANGED serviceVars
    <2>1. Ok.kind = "ok"
      OBVIOUS
    <2> HIDE DEF Ok
    <2> QED
      BY <1>1, <1>2, <1>4, <1>6, <2>1, AnswerStep
  <1>7. ASSUME NEW conflicts \in SUBSET DOMAIN input,
               call[b].token \notin served,
               Answer(b, [kind |-> "canceled", reasons |-> ReasonsFor(input, conflicts)]),
               UNCHANGED serviceVars
        PROVE  TInv'
    <2> DEFINE reply == [kind |-> "canceled", reasons |-> ReasonsFor(input, conflicts)]
    <2>1. ReasonsFor(input, conflicts) \in Seq(Reasons)
      BY <1>3 DEF ReasonsFor, Reasons
    <2>2. reply \in Replies /\ reply.kind # "ok" /\ Answer(b, reply)
      BY <1>7, <2>1 DEF Replies
    <2> HIDE DEF reply
    <2> QED
      BY <1>1, <1>2, <1>7, <2>2, AnswerStep
  <1>8. CASE /\ OneOpPerItem(input)
             /\ call[b].token \notin served
             /\ table' = [k \in Keys |->
                            IF \E i \in DOMAIN input : input[i].op.key = k
                            THEN Written(input[CHOOSE i \in DOMAIN input :
                                                 input[i].op.key = k].op)
                            ELSE table[k]]
             /\ served' = served \cup ({call[b].token} \ {NoToken})
             /\ log' = Append(log, [exec |-> call[b].exec, input |-> input,
                                    asked |-> asked[b]])
             /\ Answer(b, Ok) \/ Drop(b)
    <2>1. table' \in [Keys -> Nat]
      BY <1>8, WrittenType DEF TInv, TypeOK
    <2>2. served' = served \cup {call[b].exec}
      <3>1. call[b].exec # NoToken
        BY <1>1 DEF NoToken, TInv, CallSound
      <3> QED
        BY <1>2, <1>8, <3>1
    <2>3. PICK c \in Calls :
             /\ call' = [call EXCEPT ![b] = c]
             /\ c.pc = "lost" \/ (c.pc = "answered" /\ c.reply.kind = "ok")
             /\ c.exec = call[b].exec /\ c.token = call[b].token
             /\ c.input = input /\ c.attempt = call[b].attempt
      <3>1. CASE Answer(b, Ok)
        <4> DEFINE c == [call[b] EXCEPT !.pc = "answered", !.reply = Ok]
        <4>1. c \in Calls
          BY <1>3, <1>4, CallsUpdate
        <4>2. /\ c.pc = "answered" /\ c.reply.kind = "ok" /\ c.exec = call[b].exec
              /\ c.token = call[b].token /\ c.input = input
              /\ c.attempt = call[b].attempt
          BY <1>3 DEF Calls
        <4>3. call' = [call EXCEPT ![b] = c]
          BY <3>1 DEF Answer
        <4> HIDE DEF c
        <4> QED
          BY <4>1, <4>2, <4>3
      <3>2. CASE Drop(b)
        <4> DEFINE c == [call[b] EXCEPT !.pc = "lost"]
        <4>1. c \in Calls
          BY <1>3, CallsUpdate
        <4>2. /\ c.pc = "lost" /\ c.exec = call[b].exec /\ c.token = call[b].token
              /\ c.input = input /\ c.attempt = call[b].attempt
          BY <1>3 DEF Calls
        <4>3. call' = [call EXCEPT ![b] = c]
          BY <3>2 DEF Drop
        <4> HIDE DEF c
        <4> QED
          BY <4>1, <4>2, <4>3
      <3> QED
        BY <1>8, <3>1, <3>2
    <2> QED
      BY <1>1, <1>8, <2>1, <2>2, <2>3, CommitStep
  <1> QED
    BY <1>5, <1>6, <1>7, <1>8 DEF Serve

\* The identity of an execution.
LEMMA ExecIdParts ==
    ASSUME NEW e \in Builders \X Nat
    PROVE  e[1] \in Builders /\ e[2] \in Nat
  OBVIOUS

\* The identity of an operation.
LEMMA EntryId ==
    ASSUME NEW s \in Seq(Entries), NEW m \in DOMAIN s
    PROVE  s[m].id \in Builders \X Nat
  <1>1. s[m] \in Entries
    OBVIOUS
  <1> QED
    BY <1>1 DEF Entries

\* An entry of the log.
LEMMA LogEntry ==
    ASSUME TInv, NEW i \in DOMAIN log
    PROVE  log[i].exec \in ExecIds /\ log[i].input \in Seq(Entries)
  <1>1. log \in Seq(LogEntries)
    BY DEF TInv, TypeOK, LogEntries
  <1>2. log[i] \in LogEntries
    BY <1>1
  <1> QED
    BY <1>2 DEF LogEntries

\* What a step of Builder b that leaves the table and the log alone has to respect.
OthersKept(b) ==
    /\ UNCHANGED <<table, served, log, ambiguous>>
    /\ \A a \in Builders \ {b} :
          /\ call'[a] = call[a] /\ result'[a] = result[a]
          /\ operations'[a] = operations[a] /\ err'[a] = err[a]
          /\ execs'[a] = execs[a] /\ asked'[a] = asked[a] /\ asks'[a] = asks[a]
    /\ execs[b] <= execs'[b]
    /\ asks[b] <= asks'[b]

OwnCallSound(b) ==
    call'[b].pc # "idle" =>
        /\ call'[b].pc = "calling"
        /\ execs'[b] > 0
        /\ call'[b].exec = <<b, execs'[b] - 1>>
        /\ call'[b].token = call'[b].exec
        /\ call'[b].input = operations'[b]
        /\ call'[b].input = asked'[b]
        /\ result'[b].outcome # "none" => result'[b].exec # call'[b].exec
        /\ ~Committed(call'[b].exec)

OwnResult(b) ==
    /\ result'[b].outcome # "none" =>
          result'[b].exec[1] = b /\ result'[b].exec[2] < execs'[b]
    /\ result'[b].outcome = "nil" => Committed(result'[b].exec)
    /\ result'[b].outcome \in {"builder error", "canceled", "failed", "ctx.Err"}
          => ~Committed(result'[b].exec)

OwnOperations(b) ==
    /\ err'[b] = "nil" => operations'[b] = asked'[b]
    /\ \A m \in DOMAIN operations'[b] :
          operations'[b][m].id[1] = b /\ operations'[b][m].id[2] < asks'[b]
    /\ \A i \in DOMAIN log : log[i].exec \notin ambiguous =>
          \A m \in DOMAIN log[i].input : \A n \in DOMAIN operations'[b] :
              log[i].input[m].id # operations'[b][n].id

\* A step of an idle Builder, or the one that empties it, keeps what is said of the
\* other builders and of the log; what is left is to be shown of the Builder itself.
LEMMA OwnStep ==
    ASSUME TInv, TypeOK', NEW b \in Builders,
           OthersKept(b), OwnCallSound(b), OwnResult(b), OwnOperations(b)
    PROVE  TInv'
  <1>1. /\ execs \in [Builders -> Nat] /\ execs' \in [Builders -> Nat]
        /\ asks \in [Builders -> Nat] /\ asks' \in [Builders -> Nat]
    BY DEF TInv, TypeOK
  <1>2. \A i \in DOMAIN log : log[i].exec[1] \in Builders /\ log[i].exec[2] \in Nat
    <2>1. \A i \in DOMAIN log : log[i].exec \in ExecIds
      BY LogEntry
    <2> QED
      BY <2>1, ExecIdParts, Zenon DEF ExecIds
  <1>3. log' = log /\ served' = served /\ ambiguous' = ambiguous
    BY DEF OthersKept
  <1>4. \A a \in Builders : execs[a] <= execs'[a] /\ asks[a] <= asks'[a]
    BY <1>1 DEF OthersKept
  <1>5. \A x : Committed(x)' <=> Committed(x)
    BY <1>3 DEF Committed
  <1>6. LogServed'
    <2>1. \A i \in DOMAIN log : log[i].exec[2] < execs'[log[i].exec[1]]
      <3>1. \A i \in DOMAIN log : log[i].exec[2] < execs[log[i].exec[1]]
        BY DEF TInv, LogServed
      <3> QED
        BY <1>1, <1>2, <1>4, <3>1
    <2>2. \A i \in DOMAIN log : log[i].exec \in served
      BY DEF TInv, LogServed
    <2>3. \A t \in served : Committed(t)
      BY DEF TInv, LogServed
    <2> QED
      BY <1>3, <1>5, <2>1, <2>2, <2>3 DEF LogServed
  <1>7. BuilderWhole'
    BY DEF TInv, BuilderWhole, OthersKept, OwnOperations
  <1>8. CallSound'
    <2> SUFFICES ASSUME NEW a \in Builders, call'[a].pc # "idle"
                 PROVE  /\ execs'[a] > 0
                        /\ call'[a].exec = <<a, execs'[a] - 1>>
                        /\ call'[a].token = call'[a].exec
                        /\ call'[a].input = operations'[a]
                        /\ call'[a].input = asked'[a]
                        /\ result'[a].outcome # "none" => result'[a].exec # call'[a].exec
                        /\ Committed(call[a].exec)' => OneOpPerItem(call[a].input)'
      BY DEF CallSound
    <2>1. CASE a = b
      BY <1>5, <2>1 DEF OwnCallSound
    <2>2. CASE a # b
      <3>1. /\ call'[a] = call[a] /\ result'[a] = result[a]
            /\ operations'[a] = operations[a]
            /\ execs'[a] = execs[a] /\ asked'[a] = asked[a]
        BY <2>2 DEF OthersKept
      <3>2. /\ execs[a] > 0
            /\ call[a].exec = <<a, execs[a] - 1>>
            /\ call[a].token = call[a].exec
            /\ call[a].input = operations[a]
            /\ call[a].input = asked[a]
            /\ result[a].outcome # "none" => result[a].exec # call[a].exec
            /\ Committed(call[a].exec) => OneOpPerItem(call[a].input)
        BY <3>1 DEF TInv, CallSound
      <3>3. OneOpPerItem(call[a].input)' <=> OneOpPerItem(call[a].input)
        BY <3>1 DEF OneOpPerItem
      <3> QED
        BY <1>5, <3>1, <3>2, <3>3
    <2> QED
      BY <2>1, <2>2
  <1>9. CallFate'
    <2> SUFFICES ASSUME NEW a \in Builders
                 PROVE  /\ call'[a].pc = "calling" /\ call'[a].resends = 0
                              => ~Committed(call[a].exec)'
                        /\ call'[a].pc = "backoff" => ~Committed(call[a].exec)'
                        /\ call'[a].pc = "answered" =>
                              (call'[a].reply.kind = "ok" <=> Committed(call[a].exec)')
      BY DEF CallFate
    <2>1. CASE a = b
      BY <1>5, <2>1 DEF OwnCallSound
    <2>2. CASE a # b
      <3>1. call'[a] = call[a]
        BY <2>2 DEF OthersKept
      <3> QED
        BY <1>5, <3>1 DEF TInv, CallFate
    <2> QED
      BY <2>1, <2>2
  <1>10. ResultOwn'
    BY DEF TInv, ResultOwn, OthersKept, OwnResult
  <1>11. IdsOwn'
    <2>1. \A a \in Builders : \A m \in DOMAIN operations'[a] :
             operations'[a][m].id[1] = a /\ operations'[a][m].id[2] < asks'[a]
      BY DEF TInv, IdsOwn, OthersKept, OwnOperations
    <2>2. ASSUME NEW i \in DOMAIN log, NEW m \in DOMAIN log[i].input
          PROVE  /\ log[i].input[m].id[1] = log[i].exec[1]
                 /\ log[i].input[m].id[2] < asks'[log[i].exec[1]]
      <3>1. log[i].input[m].id[2] \in Nat
        <4>1. log[i].input \in Seq(Entries)
          BY LogEntry
        <4>2. log[i].input[m].id \in Builders \X Nat
          BY <4>1, EntryId, Zenon
        <4> QED
          BY <4>2, ExecIdParts, Zenon
      <3>2. /\ log[i].input[m].id[1] = log[i].exec[1]
            /\ log[i].input[m].id[2] < asks[log[i].exec[1]]
        BY DEF TInv, IdsOwn
      <3> QED
        BY <1>1, <1>2, <1>4, <3>1, <3>2
    <2> QED
      BY <1>3, <2>1, <2>2 DEF IdsOwn
  <1>12. CommittedGone'
    <2> SUFFICES ASSUME NEW a \in Builders, NEW i \in DOMAIN log,
                        log[i].exec \notin ambiguous,
                        call'[a].pc = "idle" \/ log[i].exec # call'[a].exec,
                        NEW m \in DOMAIN log[i].input, NEW n \in DOMAIN operations'[a]
                 PROVE  log[i].input[m].id # operations'[a][n].id
      BY <1>3 DEF CommittedGone
    <2>1. CASE a = b
      BY <2>1 DEF OwnOperations
    <2>2. CASE a # b
      <3>1. call'[a] = call[a] /\ operations'[a] = operations[a]
        BY <2>2 DEF OthersKept
      <3> QED
        BY <3>1 DEF TInv, CommittedGone
    <2> QED
      BY <2>1, <2>2
  <1>13. HonestResult'
    <2>1. \A a \in Builders \ {b} : result'[a] = result[a]
      BY DEF OthersKept
    <2> QED
      BY <1>5, <2>1 DEF TInv, HonestResult, OwnResult
  <1>14. AtMostOnce' /\ WholeTransaction' /\ NoDoubleCommit'
    <2>1. AtMostOnce'
      BY <1>3 DEF TInv, AtMostOnce
    <2>2. WholeTransaction'
      BY <1>3 DEF TInv, WholeTransaction
    <2>3. NoDoubleCommit'
      BY <1>3, NoDoubleCommitKept DEF TInv
    <2> QED
      BY <2>1, <2>2, <2>3
  <1> QED
    BY <1>6, <1>7, <1>8, <1>9, <1>10, <1>11, <1>12, <1>13, <1>14 DEF TInv

\* An empty builder is within the limit.
LEMMA EmptyFits ==
    Len(<<>>) <= MaxTransactOperations
  BY BoundsAssumption

\* A success empties the builder.
LEMMA SucceedStep ==
    ASSUME TInv, NEW b \in Builders, Succeed(b)
    PROVE  TInv'
  <1> DEFINE r == Result("nil", call[b].exec, 0, "none", <<>>)
  <1>1. /\ call[b].pc = "answered" /\ call[b].reply.kind = "ok"
        /\ operations' = [operations EXCEPT ![b] = <<>>]
        /\ asked' = [asked EXCEPT ![b] = <<>>]
        /\ call' = [call EXCEPT ![b] = Idle(b)]
        /\ result' = [result EXCEPT ![b] = r]
        /\ UNCHANGED <<table, served, log, err, execs, asks, ambiguous>>
    BY DEF Succeed, Return
  <1>2. Committed(call[b].exec)
    BY <1>1 DEF TInv, CallFate
  <1>3. call[b].exec[1] = b /\ call[b].exec[2] < execs[b] /\ call[b].exec \in ExecIds
    BY <1>1, OwnCall
  <1>4. r \in Results /\ r.outcome = "nil" /\ r.exec = call[b].exec
    BY <1>3, ResultType DEF Outcomes
  <1>5. Idle(b) \in Calls /\ Idle(b).pc = "idle" /\ Idle(b).attempt = 0
    BY IdleType
  <1> HIDE DEF r
  <1>6. /\ operations'[b] = <<>> /\ asked'[b] = <<>> /\ call'[b] = Idle(b)
        /\ result'[b] = r
        /\ \A a \in Builders \ {b} :
              /\ operations'[a] = operations[a] /\ asked'[a] = asked[a]
              /\ call'[a] = call[a] /\ result'[a] = result[a]
    BY <1>1 DEF TInv, TypeOK
  <1>7. TypeOK'
    <2>1. /\ operations' \in [Builders -> Seq(Entries)]
          /\ asked' \in [Builders -> Seq(Entries)]
          /\ call' \in [Builders -> Calls]
          /\ result' \in [Builders -> Results]
      BY <1>1, <1>4, <1>5 DEF TInv, TypeOK
    <2>2. \A a \in Builders : Len(operations'[a]) <= MaxTransactOperations
      <3>1. Len(operations'[b]) <= MaxTransactOperations
        BY <1>6, EmptyFits, Zenon
      <3> QED
        BY <1>6, <3>1 DEF TInv, TypeOK
    <2>3. \A a \in Builders : call'[a].attempt <= RetryScheduleLen
      <3>1. call'[b].attempt <= RetryScheduleLen
        BY <1>5, <1>6, FirstAttempt, Zenon
      <3> QED
        BY <1>6, <3>1 DEF TInv, TypeOK
    <2> QED
      BY <1>1, <2>1, <2>2, <2>3 DEF TInv, TypeOK
  <1>8. OthersKept(b)
    BY <1>1, <1>6 DEF OthersKept, TInv, TypeOK
  <1>9. OwnCallSound(b)
    BY <1>5, <1>6 DEF OwnCallSound
  <1>10. OwnResult(b)
    BY <1>1, <1>2, <1>3, <1>4, <1>6 DEF OwnResult
  <1>11. OwnOperations(b)
    BY <1>6 DEF OwnOperations
  <1> QED
    BY <1>7, <1>8, <1>9, <1>10, <1>11, OwnStep

\* DB.Transact makes a new builder.
LEMMA TransactStep ==
    ASSUME TInv, NEW b \in Builders, Transact(b)
    PROVE  TInv'
  <1>1. /\ call[b].pc = "idle"
        /\ operations' = [operations EXCEPT ![b] = <<>>]
        /\ asked' = [asked EXCEPT ![b] = <<>>]
        /\ err' = [err EXCEPT ![b] = "nil"]
        /\ UNCHANGED <<table, served, log, call, result, execs, asks, ambiguous>>
    BY DEF Transact
  <1>2. /\ operations'[b] = <<>> /\ asked'[b] = <<>>
        /\ \A a \in Builders \ {b} :
              /\ operations'[a] = operations[a] /\ asked'[a] = asked[a]
              /\ err'[a] = err[a]
    BY <1>1 DEF TInv, TypeOK
  <1>3. TypeOK'
    <2>1. /\ operations' \in [Builders -> Seq(Entries)]
          /\ asked' \in [Builders -> Seq(Entries)]
          /\ err' \in [Builders -> {"nil", "error"}]
      BY <1>1 DEF TInv, TypeOK
    <2>2. \A a \in Builders : Len(operations'[a]) <= MaxTransactOperations
      <3>1. \A a \in Builders : Len(operations[a]) <= MaxTransactOperations
        BY DEF TInv, TypeOK
      <3> QED
        BY <1>2, <3>1, EmptyFits
    <2> QED
      BY <1>1, <2>1, <2>2 DEF TInv, TypeOK
  <1>4. OthersKept(b)
    BY <1>1, <1>2 DEF OthersKept, TInv, TypeOK
  <1>5. OwnCallSound(b)
    BY <1>1 DEF OwnCallSound
  <1>6. OwnResult(b)
    BY <1>1 DEF OwnResult, TInv, ResultOwn, HonestResult
  <1>7. OwnOperations(b)
    BY <1>2 DEF OwnOperations
  <1> QED
    BY <1>3, <1>4, <1>5, <1>6, <1>7, OwnStep

\* A call that has not been made is not committed.
LEMMA FreshCall ==
    ASSUME TInv, NEW b \in Builders
    PROVE  ~Committed(<<b, execs[b]>>)
  <1> SUFFICES ASSUME NEW i \in DOMAIN log, log[i].exec = <<b, execs[b]>>
               PROVE  FALSE
    BY DEF Committed
  <1>1. log[i].exec[2] < execs[log[i].exec[1]]
    BY DEF TInv, LogServed
  <1>2. execs[b] \in Nat
    BY DEF TInv, TypeOK
  <1> QED
    BY <1>1, <1>2

\* The next identity.
LEMMA NextPair ==
    ASSUME NEW b, NEW n \in Nat, NEW n1, n1 = n + 1
    PROVE  /\ <<b, n>>[1] = b /\ <<b, n>>[2] < n1
           /\ n1 > 0 /\ n <= n1 /\ <<b, n>> = <<b, n1 - 1>>
  OBVIOUS

\* Execute builds the input and draws a token, or returns the first error.
LEMMA ExecuteStep ==
    ASSUME TInv, NEW b \in Builders, Execute(b)
    PROVE  TInv'
  <1> DEFINE e == <<b, execs[b]>>
  <1>1. /\ call[b].pc = "idle"
        /\ execs' = [execs EXCEPT ![b] = @ + 1]
        /\ UNCHANGED <<table, served, log, operations, err, asked, asks, ambiguous>>
    BY DEF Execute
  <1>2. /\ execs[b] \in Nat /\ execs'[b] = execs[b] + 1
        /\ execs' \in [Builders -> Nat]
        /\ \A a \in Builders \ {b} : execs'[a] = execs[a]
    BY <1>1 DEF TInv, TypeOK
  <1>3. e \in ExecIds
    BY <1>2 DEF ExecIds
  <1>4. /\ e[1] = b /\ e[2] < execs'[b]
        /\ execs'[b] > 0 /\ execs[b] <= execs'[b] /\ e = <<b, execs'[b] - 1>>
    BY <1>2, NextPair
  <1>5. ~Committed(e)
    BY FreshCall
  <1>6. /\ operations[b] \in Seq(Entries)
        /\ asks[b] <= asks'[b]
        /\ execs[b] <= execs'[b]
        /\ result[b] \in Results
    BY <1>1, <1>2 DEF TInv, TypeOK
  <1>7. OwnOperations(b)
    BY <1>1 DEF OwnOperations, TInv, BuilderWhole, IdsOwn, CommittedGone
  <1>8. result[b].outcome # "none" =>
           result[b].exec[1] = b /\ result[b].exec[2] < execs'[b] /\ result[b].exec # e
    <2>1. result[b].exec \in Builders \X Nat
      BY <1>6 DEF Results, ExecIds
    <2>2. result[b].exec[2] \in Nat
      BY <2>1, ExecIdParts, Zenon
    <2>3. e[2] = execs[b]
      OBVIOUS
    <2> HIDE DEF e
    <2>4. result[b].outcome # "none" =>
             result[b].exec[1] = b /\ result[b].exec[2] < execs[b]
      BY DEF TInv, ResultOwn
    <2> QED
      BY <1>2, <2>2, <2>3, <2>4
  <1>9. CASE /\ result' = [result EXCEPT ![b] = Result("builder error", e, 0, "none", <<>>)]
             /\ UNCHANGED call
    <2> DEFINE r == Result("builder error", e, 0, "none", <<>>)
    <2>1. r \in Results /\ r.outcome = "builder error" /\ r.exec = e
      BY <1>3, ResultType DEF Outcomes
    <2> HIDE DEF e, r
    <2>2. /\ result' \in [Builders -> Results]
          /\ result'[b] = r
          /\ \A a \in Builders \ {b} : result'[a] = result[a]
      BY <1>9, <2>1 DEF TInv, TypeOK, r
    <2>3. TypeOK'
      BY <1>1, <1>2, <1>9, <2>2 DEF TInv, TypeOK
    <2>4. OthersKept(b)
      BY <1>1, <1>2, <1>6, <1>9, <2>2 DEF OthersKept
    <2>5. OwnCallSound(b)
      BY <1>1, <1>9 DEF OwnCallSound
    <2>6. OwnResult(b)
      BY <1>4, <1>5, <2>1, <2>2 DEF OwnResult
    <2> QED
      BY <1>7, <2>3, <2>4, <2>5, <2>6, OwnStep
  <1>10. CASE /\ err[b] = "nil"
              /\ call' = [call EXCEPT ![b] =
                            [pc |-> "calling", exec |-> e, token |-> RequestToken(b),
                             input |-> operations[b], attempt |-> 0, resends |-> 0,
                             reply |-> NoReply]]
              /\ UNCHANGED result
    <2> DEFINE c == [pc |-> "calling", exec |-> e, token |-> RequestToken(b),
                     input |-> operations[b], attempt |-> 0, resends |-> 0,
                     reply |-> NoReply]
    <2>1. NoReply \in Replies
      BY DEF NoReply, Replies
    <2>2. RequestToken(b) = e
      BY DEF RequestToken
    <2>3. c \in Calls
      BY <1>3, <1>6, <2>1, <2>2 DEF Calls
    <2>4. /\ c.pc = "calling" /\ c.exec = e /\ c.token = e /\ c.input = operations[b]
          /\ c.attempt = 0
      BY <2>2
    <2> HIDE DEF e, c
    <2>5. /\ call' \in [Builders -> Calls]
          /\ call'[b] = c
          /\ \A a \in Builders \ {b} : call'[a] = call[a]
      BY <1>10, <2>3 DEF TInv, TypeOK, c, e
    <2>6. \A a \in Builders : call'[a].attempt <= RetryScheduleLen
      <3>1. call'[b].attempt <= RetryScheduleLen
        BY <2>4, <2>5, FirstAttempt, Zenon
      <3> QED
        BY <2>5, <3>1 DEF TInv, TypeOK
    <2>7. TypeOK'
      BY <1>1, <1>2, <1>10, <2>5, <2>6 DEF TInv, TypeOK
    <2>8. OthersKept(b)
      BY <1>1, <1>2, <1>6, <1>10, <2>5 DEF OthersKept
    <2>9. operations[b] = asked[b]
      BY <1>10 DEF TInv, BuilderWhole
    <2>10. OwnCallSound(b)
      BY <1>1, <1>4, <1>5, <1>8, <1>10, <2>4, <2>5, <2>9 DEF OwnCallSound
    <2>11. OwnResult(b)
      BY <1>8, <1>10 DEF OwnResult, TInv, HonestResult
    <2> QED
      BY <1>7, <2>7, <2>8, <2>10, <2>11, OwnStep
  <1> QED
    BY <1>9, <1>10 DEF Execute

\* The operations and the error of a Builder to which addOperation was applied.
LEMMA AddOperationFacts ==
    ASSUME TInv, NEW b \in Builders, NEW entry \in Entries, AddOperation(b, entry),
           asked' = [asked EXCEPT ![b] = Append(@, entry)]
    PROVE  /\ operations' \in [Builders -> Seq(Entries)]
           /\ err' \in [Builders -> {"nil", "error"}]
           /\ asked' \in [Builders -> Seq(Entries)]
           /\ \A a \in Builders \ {b} :
                 /\ operations'[a] = operations[a] /\ err'[a] = err[a]
                 /\ asked'[a] = asked[a]
           /\ Len(operations'[b]) <= MaxTransactOperations
           /\ err'[b] = "nil" => operations'[b] = asked'[b]
           /\ operations'[b] = operations[b] \/ operations'[b] = Append(operations[b], entry)
  <1>1. /\ operations \in [Builders -> Seq(Entries)]
        /\ err \in [Builders -> {"nil", "error"}]
        /\ asked \in [Builders -> Seq(Entries)]
        /\ Len(operations[b]) <= MaxTransactOperations
        /\ err[b] = "nil" => operations[b] = asked[b]
    BY DEF TInv, TypeOK, BuilderWhole
  <1>2. /\ asked' \in [Builders -> Seq(Entries)]
        /\ asked'[b] = Append(asked[b], entry)
        /\ \A a \in Builders \ {b} : asked'[a] = asked[a]
    BY <1>1
  <1>3. CASE operations' = operations /\ err' = [err EXCEPT ![b] = "error"]
    BY <1>1, <1>2, <1>3
  <1>4. CASE UNCHANGED builderVars /\ err[b] # "nil"
    BY <1>1, <1>2, <1>4
  <1>5. CASE /\ err[b] = "nil"
             /\ Len(operations[b]) < MaxTransactOperations
             /\ operations' = [operations EXCEPT ![b] = Append(@, entry)]
             /\ UNCHANGED err
    <2>1. /\ operations' \in [Builders -> Seq(Entries)]
          /\ operations'[b] = Append(operations[b], entry)
          /\ \A a \in Builders \ {b} : operations'[a] = operations[a]
      BY <1>1, <1>5
    <2>2. Len(operations'[b]) = Len(operations[b]) + 1 /\ Len(operations[b]) \in Nat
      BY <1>1, <2>1
    <2>3. Len(operations'[b]) <= MaxTransactOperations
      BY <1>5, <2>2, BoundsAssumption
    <2> QED
      BY <1>1, <1>2, <1>5, <2>1, <2>3
  <1> QED
    BY <1>3, <1>4, <1>5 DEF AddOperation, RecordError

\* A call of a builder method.
LEMMA AskStep ==
    ASSUME TInv, NEW b \in Builders, Ask(b)
    PROVE  TInv'
  <1>1. /\ call[b].pc = "idle"
        /\ asks' = [asks EXCEPT ![b] = @ + 1]
        /\ UNCHANGED <<table, served, log, call, result, execs, ambiguous>>
    BY DEF Ask
  <1>2. /\ asks[b] \in Nat /\ asks'[b] = asks[b] + 1 /\ asks[b] <= asks'[b]
        /\ asks' \in [Builders -> Nat]
        /\ \A a \in Builders \ {b} : asks'[a] = asks[a]
        /\ execs[b] <= execs'[b]
    BY <1>1 DEF TInv, TypeOK
  <1>3. PICK op \in Ops[b] :
           /\ AddOperation(b, [id |-> <<b, asks[b]>>, op |-> op])
           /\ asked' = [asked EXCEPT ![b] = Append(@, [id |-> <<b, asks[b]>>, op |-> op])]
    BY DEF Ask
  <1> DEFINE entry == [id |-> <<b, asks[b]>>, op |-> op]
  <1>4. entry \in Entries
    BY <1>2 DEF Entries
  <1>5. entry.id[1] = b /\ entry.id[2] = asks[b]
    OBVIOUS
  <1>6. /\ AddOperation(b, entry)
        /\ asked' = [asked EXCEPT ![b] = Append(@, entry)]
    BY <1>3
  <1> HIDE DEF entry
  <1>7. /\ operations' \in [Builders -> Seq(Entries)]
        /\ err' \in [Builders -> {"nil", "error"}]
        /\ asked' \in [Builders -> Seq(Entries)]
        /\ \A a \in Builders \ {b} :
              /\ operations'[a] = operations[a] /\ err'[a] = err[a]
              /\ asked'[a] = asked[a]
        /\ Len(operations'[b]) <= MaxTransactOperations
        /\ err'[b] = "nil" => operations'[b] = asked'[b]
        /\ operations'[b] = operations[b] \/ operations'[b] = Append(operations[b], entry)
    BY <1>4, <1>6, AddOperationFacts
  <1>8. TypeOK'
    BY <1>1, <1>2, <1>7 DEF TInv, TypeOK
  <1>9. OthersKept(b)
    BY <1>1, <1>2, <1>7 DEF OthersKept
  <1>10. OwnCallSound(b)
    BY <1>1 DEF OwnCallSound
  <1>11. OwnResult(b)
    BY <1>1 DEF OwnResult, TInv, ResultOwn, HonestResult
  <1>12. ASSUME NEW n \in DOMAIN operations'[b]
         PROVE  \/ n \in DOMAIN operations[b] /\ operations'[b][n] = operations[b][n]
                \/ operations'[b][n] = entry
    <2>1. operations[b] \in Seq(Entries)
      BY DEF TInv, TypeOK
    <2>2. /\ Len(operations[b]) \in Nat
          /\ DOMAIN operations[b] = 1..Len(operations[b])
          /\ DOMAIN Append(operations[b], entry) = 1..(Len(operations[b]) + 1)
          /\ \A i \in 1..Len(operations[b]) :
                Append(operations[b], entry)[i] = operations[b][i]
          /\ Append(operations[b], entry)[Len(operations[b]) + 1] = entry
      BY <1>4, <2>1, AppendFacts
    <2>3. n \in 1..Len(operations[b]) \/ n = Len(operations[b]) + 1
      BY <1>7, <2>2
    <2> QED
      BY <1>7, <2>2, <2>3
  <1>13. \A n \in DOMAIN operations[b] :
            /\ operations[b][n].id[1] = b /\ operations[b][n].id[2] < asks[b]
            /\ operations[b][n].id[2] \in Nat
    <2> SUFFICES ASSUME NEW n \in DOMAIN operations[b]
                 PROVE  operations[b][n].id[2] \in Nat
      BY DEF TInv, IdsOwn
    <2>1. operations[b] \in Seq(Entries)
      BY DEF TInv, TypeOK
    <2>2. operations[b][n].id \in Builders \X Nat
      BY <2>1, EntryId, Zenon
    <2> QED
      BY <2>2, ExecIdParts, Zenon
  <1>14. \A n \in DOMAIN operations'[b] :
            operations'[b][n].id[1] = b /\ operations'[b][n].id[2] < asks'[b]
    BY <1>2, <1>5, <1>12, <1>13
  <1>15. ASSUME NEW i \in DOMAIN log, log[i].exec \notin ambiguous,
                NEW m \in DOMAIN log[i].input, NEW n \in DOMAIN operations'[b]
         PROVE  log[i].input[m].id # operations'[b][n].id
    <2>1. CASE n \in DOMAIN operations[b] /\ operations'[b][n] = operations[b][n]
      BY <1>1, <1>15, <2>1 DEF TInv, CommittedGone
    <2>2. CASE operations'[b][n] = entry
      <3>1. /\ log[i].input[m].id[1] = log[i].exec[1]
            /\ log[i].input[m].id[2] < asks[log[i].exec[1]]
        BY DEF TInv, IdsOwn
      <3> QED
        BY <1>2, <1>5, <2>2, <3>1
    <2> QED
      BY <1>12, <2>1, <2>2
  <1>16. OwnOperations(b)
    BY <1>7, <1>14, <1>15 DEF OwnOperations
  <1> QED
    BY <1>8, <1>9, <1>10, <1>11, <1>16, OwnStep

-----------------------------------------------------------------------------
\* Nothing has been asked.
LEMMA InitInv ==
    ASSUME Init
    PROVE  TInv
  <1>1. TypeOK
    <2>1. \A b \in Builders : Idle(b) \in Calls /\ Idle(b).attempt <= RetryScheduleLen
      BY IdleType, FirstAttempt
    <2>2. \A b \in Builders : Result("none", <<b, 0>>, 0, "none", <<>>) \in Results
      BY DEF Result, Results, ExecIds, Outcomes
    <2>3. \A b \in Builders : Len(operations[b]) <= MaxTransactOperations
      BY EmptyFits DEF Init
    <2> QED
      BY <2>1, <2>2, <2>3 DEF Init, TypeOK
  <1>2. \A b \in Builders : call[b].pc = "idle" /\ result[b].outcome = "none"
    BY IdleType DEF Init, Result
  <1>3. LogServed /\ AtMostOnce /\ WholeTransaction /\ NoDoubleCommit
    BY DEF Init, LogServed, AtMostOnce, WholeTransaction, NoDoubleCommit
  <1>4. BuilderWhole /\ IdsOwn /\ CommittedGone
    BY DEF Init, BuilderWhole, IdsOwn, CommittedGone
  <1>5. CallSound /\ CallFate /\ ResultOwn /\ HonestResult
    BY <1>2 DEF CallSound, CallFate, ResultOwn, HonestResult
  <1> QED
    BY <1>1, <1>3, <1>4, <1>5 DEF TInv

\* Nothing happens.
LEMMA Stutter ==
    ASSUME TInv, UNCHANGED vars
    PROVE  TInv'
  <1> USE DEF vars
  <1>1. TypeOK'
    BY DEF TInv, TypeOK
  <1>2. LogServed'
    BY DEF TInv, LogServed, Committed
  <1>3. BuilderWhole'
    BY DEF TInv, BuilderWhole
  <1>4. CallSound'
    BY DEF TInv, CallSound, Committed, OneOpPerItem
  <1>5. CallFate'
    BY DEF TInv, CallFate, Committed
  <1>6. ResultOwn'
    BY DEF TInv, ResultOwn
  <1>7. IdsOwn'
    BY DEF TInv, IdsOwn
  <1>8. CommittedGone'
    BY DEF TInv, CommittedGone
  <1>9. AtMostOnce'
    BY DEF TInv, AtMostOnce
  <1>10. WholeTransaction'
    BY DEF TInv, WholeTransaction
  <1>11. HonestResult'
    BY DEF TInv, HonestResult, Committed
  <1>12. NoDoubleCommit'
    BY NoDoubleCommitKept DEF TInv
  <1> QED
    BY <1>1, <1>2, <1>3, <1>4, <1>5, <1>6, <1>7, <1>8, <1>9, <1>10, <1>11, <1>12 DEF TInv

\* TInv is inductive, and what it says holds of every reachable state.
THEOREM Inductive == Spec => []TInv
  <1>1. Init => TInv
    BY InitInv
  <1>2. TInv /\ [Next]_vars => TInv'
    BY AskStep, TransactStep, ExecuteStep, ServeStep, LoseStep, ResendStep, SucceedStep,
       CanceledStep, RetryStep, ContextDoneStep, NoClientStep, FailStep, Stutter
       DEF Next, Progress
  <1> QED
    BY <1>1, <1>2, PTL DEF Spec

\* Types, maxTransactOperations and the length of the retry schedule are respected.
THEOREM TypeCorrect == Spec => []TypeOK
  <1>1. TInv => TypeOK
    BY DEF TInv
  <1> QED
    BY <1>1, Inductive, PTL

\* However often the SDK and the builder repeat a request, one Execute commits at
\* most once: ExecuteWithContext gives all repetitions one ClientRequestToken.
THEOREM ExecuteOnce == Spec => []AtMostOnce
  <1>1. TInv => AtMostOnce
    BY DEF TInv
  <1> QED
    BY <1>1, Inductive, PTL

\* A transaction is committed with every operation its caller asked for: an
\* operation addOperation turns away leaves an error no Execute gets past.
THEOREM AllOrNothing == Spec => []WholeTransaction
  <1>1. TInv => WholeTransaction
    BY DEF TInv
  <1> QED
    BY <1>1, Inductive, PTL

\* Execute tells the truth: nil means committed, every error but a lost answer
\* means that nothing was.
THEOREM ResultsHonest == Spec => []HonestResult
  <1>1. TInv => HonestResult
    BY DEF TInv
  <1> QED
    BY <1>1, Inductive, PTL

\* Executing a Builder again repeats no operation of an answered Execute.
THEOREM CommittedOnce == Spec => []NoDoubleCommit
  <1>1. TInv => NoDoubleCommit
    BY DEF TInv
  <1> QED
    BY <1>1, Inductive, PTL
=============================================================================
