----------------------------- MODULE LeaseProofs -----------------------------
(* Proofs about module Lease, for any set of processes and any bounds.     *)
EXTENDS Lease, TLAPS

-----------------------------------------------------------------------------
(* Arithmetic of Unix seconds.                                             *)

\* Rounding down to seconds is monotone.
LEMMA UnixMonotone ==
    ASSUME NEW a \in Int, NEW b \in Int, a <= b
    PROVE  Unix(a) \in Int /\ Unix(b) \in Int /\ Unix(a) <= Unix(b)
  BY TimeAssumption DEF Unix

\* Unix of a time that is not negative is not negative.
LEMMA UnixNat ==
    ASSUME NEW a \in Nat
    PROVE  Unix(a) \in Nat
  BY TimeAssumption DEF Unix

\* LatestNow is an integer, and no admissible clock is ahead of it.
LEMMA LatestNowBounds ==
    ASSUME TypeOK
    PROVE  /\ LatestNow \in Nat
           /\ \A now \in Clocks : /\ now \in Nat
                                  /\ Unix(now) \in Int
                                  /\ Unix(now) <= LatestNow
  <1>1. clock \in Nat /\ clock + MaxSkew \in Nat
    BY TimeAssumption DEF TypeOK
  <1>2. LatestNow \in Nat
    BY <1>1, UnixNat DEF LatestNow
  <1>3. ASSUME NEW now \in Clocks
        PROVE  now \in Nat /\ Unix(now) \in Int /\ Unix(now) <= LatestNow
    <2>1. now \in Nat /\ now <= clock + MaxSkew
      BY <1>1, TimeAssumption DEF Clocks
    <2>2. QED
      BY <1>1, <2>1, UnixMonotone DEF LatestNow
  <1>4. QED
    BY <1>2, <1>3

\* A request that AcquireKey or Refresh builds.
LEMMA BuiltRequest ==
    ASSUME TypeOK, NEW d \in Durations, NEW now \in Clocks, NEW tok \in Nat,
           NEW o \in {"acquire", "refresh"}
    PROVE  LET r == [op |-> o, token |-> tok, now |-> Unix(now),
                     exp |-> Unix(now + d), ttl |-> TTLFor(Unix(now + d))]
           IN  r \in Request /\ WellTimed(r)
  <1>1. now \in Nat /\ Unix(now) \in Int /\ Unix(now) <= LatestNow
    BY LatestNowBounds
  <1>2. d \in Int /\ now + d \in Int /\ TTLBuffer \in Int
    BY <1>1, TimeAssumption
  <1>3. Unix(now + d) \in Int /\ Unix(TTLBuffer) \in Int
    BY <1>2, UnixMonotone
  <1>4. HasTTL => Unix(TTLBuffer) >= 0
    BY <1>2, UnixNat DEF HasTTL
  <1>5. QED
    BY <1>1, <1>3, <1>4 DEF Request, WellTimed, TTLFor

\* The latest second any clock can show, as a function of true time.
LEMMA SkewMonotone ==
    ASSUME NEW a \in Nat, NEW b \in Nat, a <= b
    PROVE  /\ Unix(a + MaxSkew) \in Nat /\ Unix(b + MaxSkew) \in Nat
           /\ Unix(a + MaxSkew) <= Unix(b + MaxSkew)
  <1>1. /\ a + MaxSkew \in Nat /\ b + MaxSkew \in Nat
        /\ a + MaxSkew <= b + MaxSkew
    BY TimeAssumption
  <1>2. QED
    BY <1>1, UnixMonotone, UnixNat

\* LatestNow never decreases.
LEMMA LatestNowMonotone ==
    ASSUME TypeOK, clock' \in Nat, clock <= clock'
    PROVE  LatestNow \in Nat /\ LatestNow' \in Nat /\ LatestNow <= LatestNow'
  <1>1. LatestNow' = Unix(clock' + MaxSkew)
    BY DEF LatestNow, Unix
  <1>2. clock \in Nat
    BY DEF TypeOK
  <1>3. QED
    BY <1>1, <1>2, SkewMonotone DEF LatestNow

-----------------------------------------------------------------------------
(* Type correctness.                                                       *)

\* The values that stand for nothing are well typed.
LEMMA NullTypes == NoItem \in Item /\ NoLease \in LeaseValue /\ Idle \in Call
  BY DEF NoItem, Item, NoLease, LeaseValue, Idle, Call, NoRequest, Request, NoToken

\* The initial states have the types.
LEMMA InitTypeOK == Init => TypeOK
  BY NullTypes DEF Init, TypeOK

\* A request writes an item.
LEMMA WrittenType ==
    ASSUME TypeOK, NEW r \in Request
    PROVE  Written(r) \in Item
  BY DEF TypeOK, Request, Written, RefreshedItem, Item, NoItem, NoToken

\* What a call leaves behind is a request.
LEMMA LeaveBehindType ==
    ASSUME TypeOK, NEW p \in Process, LeaveBehind(p)
    PROVE  late' \subseteq Request
  BY DEF TypeOK, LeaveBehind, Call

\* Every step keeps the types.
LEMMA NextTypeOK ==
    ASSUME TypeOK, [Next]_vars
    PROVE  TypeOK'
  <1> USE DEF TypeOK
  <1>0. \A p \in Process : call[p] \in Call /\ call[p].req \in Request
                            /\ lease[p] \in LeaseValue
    BY DEF Call
  <1>1. ASSUME NEW p \in Process, AcquireKey(p) PROVE TypeOK'
    <2>1. PICK d \in Durations, now \in Clocks :
             call' = [call EXCEPT ![p] =
                Sent([op |-> "acquire", token |-> nextToken, now |-> Unix(now),
                      exp |-> Unix(now + d), ttl |-> TTLFor(Unix(now + d))])]
      BY <1>1 DEF AcquireKey
    <2>2. [op |-> "acquire", token |-> nextToken, now |-> Unix(now),
           exp |-> Unix(now + d), ttl |-> TTLFor(Unix(now + d))] \in Request
      BY BuiltRequest
    <2>3. call' \in [Process -> Call]
      BY <2>1, <2>2 DEF Sent, Call
    <2>4. QED
      BY <1>1, <2>3 DEF AcquireKey
  <1>2. ASSUME NEW p \in Process, Refresh(p) PROVE TypeOK'
    <2>1. PICK d \in Durations, now \in Clocks :
             call' = [call EXCEPT ![p] =
                Sent([op |-> "refresh", token |-> lease[p].token, now |-> Unix(now),
                      exp |-> Unix(now + d), ttl |-> TTLFor(Unix(now + d))])]
      BY <1>2 DEF Refresh
    <2>2. [op |-> "refresh", token |-> lease[p].token, now |-> Unix(now),
           exp |-> Unix(now + d), ttl |-> TTLFor(Unix(now + d))] \in Request
      BY <1>0, BuiltRequest DEF LeaseValue
    <2>3. call' \in [Process -> Call]
      BY <2>1, <2>2 DEF Sent, Call
    <2>4. QED
      BY <1>2, <2>3 DEF Refresh
  <1>3. ASSUME NEW p \in Process, Release(p) PROVE TypeOK'
    BY <1>0, <1>3 DEF Release, Sent, Call, Request, LeaseValue, NoLease, NoToken
  <1>4. ASSUME NEW p \in Process, Serve(p) PROVE TypeOK'
    <2>1. lockItem' \in Item
      BY <1>0, <1>4, WrittenType DEF Serve
    <2>2. QED
      BY <1>0, <1>4, <2>1 DEF Serve, Answered, Call
  <1>5. ASSUME NEW r \in late, ServeLate(r) PROVE TypeOK'
    BY <1>5, WrittenType DEF ServeLate
  <1>6. CASE ExpireTTL
    BY <1>6 DEF ExpireTTL, NoItem, Item, NoToken
  <1>7. ASSUME NEW p \in Process,
               ReturnAcquire(p) \/ ReturnRefresh(p) \/ ReturnRelease(p)
        PROVE  TypeOK'
    <2>1. /\ [token |-> call[p].req.token, exp |-> call[p].req.exp] \in LeaseValue
          /\ [token |-> lease[p].token, exp |-> call[p].req.exp] \in LeaseValue
      BY <1>0 DEF Request, LeaseValue
    <2>2. QED
      BY <1>7, <2>1, NullTypes DEF ReturnAcquire, ReturnRefresh, ReturnRelease
  <1>8. ASSUME NEW p \in Process, Resend(p) PROVE TypeOK'
    BY <1>0, <1>8, LeaveBehindType DEF Resend, Resent, Call
  <1>9. ASSUME NEW p \in Process, Fail(p) \/ Crash(p) PROVE TypeOK'
    BY <1>9, LeaveBehindType, NullTypes DEF Fail, Crash
  <1>10. CASE Tick
    BY <1>10 DEF Tick
  <1>11. CASE UNCHANGED vars
    BY <1>11 DEF vars
  <1>12. QED
    BY <1>1, <1>2, <1>3, <1>4, <1>5, <1>6, <1>7, <1>8, <1>9, <1>10, <1>11 DEF Next

\* Every reachable state of the lease manager is well typed.
THEOREM TypeCorrect == Spec => []TypeOK
  <1>1. TypeOK /\ [Next]_vars => TypeOK'
    BY NextTypeOK
  <1>2. QED
    BY InitTypeOK, <1>1, PTL DEF Spec

-----------------------------------------------------------------------------
(* The inductive invariant: one lemma per kind of step.                    *)

\* What the type invariant says of the parts of one process's state.
LEMMA PartTypes ==
    ASSUME TypeOK, NEW p \in Process
    PROVE  /\ call[p].req.token \in Nat /\ lease[p].token \in Nat
           /\ call[p].req.exp \in Int /\ lease[p].exp \in Int
           /\ call[p].req.now \in Int /\ call[p].req.ttl \in Int
           /\ call[p].req \in Request /\ call[p] \in Call
  BY DEF TypeOK, Call, Request, LeaseValue

\* The parts of the row.
LEMMA RowTypes ==
    ASSUME TypeOK
    PROVE  lockItem.token \in Nat /\ lockItem.exp \in Int /\ lockItem.ttl \in Int
  BY DEF TypeOK, Item

\* Nothing is held and nothing is under way.
LEMMA InitIInv == Init => IInv
  <1> SUFFICES ASSUME Init PROVE IInv
    OBVIOUS
  <1>1. TypeOK
    BY InitTypeOK
  <1>2. LatestNow \in Nat
    BY <1>1, LatestNowBounds
  <1> USE DEF Init, NoItem, NoLease, Idle, NoRequest, NoToken
  <1>3. TokensIssued /\ TokensPrivate /\ CallTokens /\ LateHarmless
    BY DEF TokensIssued, TokensPrivate, CallTokens, LateHarmless
  <1>4. RequestsWellTimed
    BY <1>2 DEF RequestsWellTimed, WellTimed
  <1>5. GrantsStand /\ HolderOwnsRow
    BY DEF GrantsStand, HolderOwnsRow, Holders, Holds
  <1>6. QED
    BY <1>1, <1>3, <1>4, <1>5 DEF IInv

\* Building a request puts a call in flight and changes nothing else.
LEMMA AcquireKeyIInv ==
    ASSUME IInv, TypeOK', NEW p \in Process, AcquireKey(p)
    PROVE  IInv'
  <1> USE DEF IInv
  <1>1. PICK d \in Durations, now \in Clocks :
           call' = [call EXCEPT ![p] =
              Sent([op |-> "acquire", token |-> nextToken, now |-> Unix(now),
                    exp |-> Unix(now + d), ttl |-> TTLFor(Unix(now + d))])]
    BY DEF AcquireKey
  <1> DEFINE r == [op |-> "acquire", token |-> nextToken, now |-> Unix(now),
                   exp |-> Unix(now + d), ttl |-> TTLFor(Unix(now + d))]
  <1>2. r \in Request /\ WellTimed(r) /\ r.op = "acquire" /\ r.token = nextToken
    BY BuiltRequest DEF TypeOK
  <1> HIDE DEF r
  <1>3. call'[p] = Sent(r) /\ \A q \in Process \ {p} : call'[q] = call[q]
    BY <1>1 DEF TypeOK, r
  <1>4. /\ call'[p].req = r /\ call'[p].phase = "sent"
        /\ UNCHANGED <<clock, lockItem, lease, late>> /\ nextToken' = nextToken + 1
    BY <1>3 DEF Sent, AcquireKey
  <1>5. nextToken \in Nat \ {0} /\ \A q \in Process :
           call[q].req.token \in Nat /\ lease[q].token \in Nat
    BY PartTypes DEF TypeOK
  <1>6. lockItem.token \in Nat /\ \A x \in late : x.token \in Nat
    BY RowTypes DEF TypeOK, Request
  <1>7. TokensIssued'
    BY <1>2, <1>3, <1>4, <1>5, <1>6 DEF TokensIssued
  <1>8. TokensPrivate'
    BY <1>2, <1>3, <1>4, <1>5 DEF TokensPrivate, TokensIssued
  <1>9. RequestsWellTimed'
    BY <1>2, <1>3, <1>4 DEF RequestsWellTimed, WellTimed, LatestNow
  <1>10. CallTokens'
    BY <1>2, <1>3, <1>4, <1>5 DEF CallTokens, TokensIssued, NoToken
  <1>11. LateHarmless'
    BY <1>2, <1>3, <1>4, <1>5, <1>6 DEF LateHarmless, TokensIssued
  <1>12. GrantsStand' /\ HolderOwnsRow'
    BY <1>3, <1>4 DEF GrantsStand, HolderOwnsRow, Holders, Holds, LatestNow
  <1>13. QED
    BY <1>7, <1>8, <1>9, <1>10, <1>11, <1>12

\* Refresh builds its request.
LEMMA RefreshIInv ==
    ASSUME IInv, TypeOK', ExtendOnly, NEW p \in Process, Refresh(p)
    PROVE  IInv'
  <1> USE DEF IInv
  <1>1. PICK d \in Durations, now \in Clocks :
           /\ Unix(now + d) >= lease[p].exp
           /\ call' = [call EXCEPT ![p] =
              Sent([op |-> "refresh", token |-> lease[p].token, now |-> Unix(now),
                    exp |-> Unix(now + d), ttl |-> TTLFor(Unix(now + d))])]
    BY DEF Refresh
  <1> DEFINE r == [op |-> "refresh", token |-> lease[p].token, now |-> Unix(now),
                   exp |-> Unix(now + d), ttl |-> TTLFor(Unix(now + d))]
  <1>2. /\ r \in Request /\ WellTimed(r) /\ r.op = "refresh"
        /\ r.token = lease[p].token /\ r.exp >= lease[p].exp
    BY <1>1, PartTypes, BuiltRequest
  <1>3. call'[p] = Sent(r) /\ \A q \in Process \ {p} : call'[q] = call[q]
    BY <1>1 DEF TypeOK
  <1> HIDE DEF r
  <1>4. /\ call'[p].req = r /\ call'[p].phase = "sent" /\ lease[p].token # NoToken
        /\ UNCHANGED <<clock, lockItem, lease, late, nextToken>>
    BY <1>3 DEF Sent, Refresh
  <1>5. call[p].req = NoRequest
    BY DEF Refresh, CallTokens
  <1>6. TokensIssued'
    BY <1>2, <1>3, <1>4 DEF TokensIssued
  <1>7. TokensPrivate'
    BY <1>2, <1>3, <1>4 DEF TokensPrivate
  <1>8. RequestsWellTimed'
    BY <1>2, <1>3, <1>4 DEF RequestsWellTimed, WellTimed, LatestNow
  <1>9. CallTokens'
    BY <1>2, <1>3, <1>4 DEF CallTokens
  <1>10. LateHarmless'
    BY <1>2, <1>3, <1>4 DEF LateHarmless
  <1>11. GrantsStand' /\ HolderOwnsRow'
    BY <1>3, <1>4 DEF GrantsStand, HolderOwnsRow, Holders, Holds, LatestNow
  <1>12. QED
    BY <1>6, <1>7, <1>8, <1>9, <1>10, <1>11

\* Release builds its request.
LEMMA ReleaseIInv ==
    ASSUME IInv, TypeOK', NEW p \in Process, Release(p)
    PROVE  IInv'
  <1> USE DEF IInv
  <1> DEFINE r == [op |-> "release", token |-> lease[p].token, now |-> 0,
                   exp |-> 0, ttl |-> 0]
  <1>1. call'[p] = Sent(r) /\ \A q \in Process \ {p} : call'[q] = call[q]
    BY DEF Release, TypeOK
  <1>2. /\ lease'[p].token = NoToken /\ lease'[p].exp = 0
        /\ \A q \in Process \ {p} : lease'[q] = lease[q]
    BY DEF Release, TypeOK, NoLease
  <1>3. /\ r.op = "release" /\ r.token = lease[p].token /\ r.now = 0
        /\ r.ttl = 0 /\ r.exp = 0
    OBVIOUS
  <1> HIDE DEF r
  <1>4. /\ call'[p].req = r /\ call'[p].phase = "sent" /\ lease[p].token # NoToken
        /\ UNCHANGED <<clock, lockItem, late, nextToken>>
    BY <1>1 DEF Sent, Release
  <1>5. nextToken \in Nat \ {0} /\ LatestNow \in Nat
    BY LatestNowBounds DEF TypeOK
  <1>6. TokensIssued'
    BY <1>1, <1>2, <1>3, <1>4, <1>5 DEF TokensIssued, NoToken
  <1>7. TokensPrivate'
    BY <1>1, <1>2, <1>3, <1>4 DEF TokensPrivate
  <1>8. RequestsWellTimed'
    BY <1>1, <1>3, <1>4, <1>5 DEF RequestsWellTimed, WellTimed, LatestNow
  <1>9. CallTokens'
    BY <1>1, <1>2, <1>3, <1>4 DEF CallTokens
  <1>10. LateHarmless'
    BY <1>1, <1>2, <1>3, <1>4 DEF LateHarmless, TokensIssued
  <1>11. GrantsStand' /\ HolderOwnsRow'
    BY <1>1, <1>2, <1>3, <1>4 DEF GrantsStand, HolderOwnsRow, Holders, Holds, LatestNow
  <1>12. QED
    BY <1>6, <1>7, <1>8, <1>9, <1>10, <1>11

\* A conditional put succeeds only when nobody may rely on the lease and no
\* granted request is still good.
LEMMA AcquireFindsNoHolder ==
    ASSUME IInv, NEW r \in Request, r.now <= LatestNow, AcquireCondition(r)
    PROVE  /\ Holders = {}
           /\ \A q \in Process : ~(/\ call[q].phase = "ok"
                                   /\ call[q].req.op \in {"acquire", "refresh"}
                                   /\ call[q].req.exp > LatestNow)
  <1>1. LatestNow \in Nat /\ r.now \in Int
    BY LatestNowBounds DEF IInv, Request
  <1>2. lockItem.token \in Nat /\ lockItem.exp \in Int
    BY RowTypes DEF IInv
  <1>3. ASSUME NEW q \in Process, Holds(q) PROVE FALSE
    BY <1>1, <1>2, <1>3, PartTypes
       DEF IInv, HolderOwnsRow, Holders, Holds, AcquireCondition
  <1>4. ASSUME NEW q \in Process, call[q].phase = "ok",
               call[q].req.op \in {"acquire", "refresh"}, call[q].req.exp > LatestNow
        PROVE  FALSE
    BY <1>1, <1>2, <1>4, PartTypes
       DEF IInv, GrantsStand, CallTokens, AcquireCondition
  <1>5. QED
    BY <1>3, <1>4 DEF Holders

\* Answering a call leaves its request as it is.
LEMMA ServeIInv ==
    ASSUME IInv, TypeOK', NEW p \in Process, Serve(p)
    PROVE  IInv'
  <1> USE DEF IInv
  <1> DEFINE r == call[p].req
             answer == IF Condition(r) THEN "ok" ELSE "refused"
  <1>1. r \in Request /\ r.now <= LatestNow /\ (HasTTL => r.ttl >= r.exp)
    BY PartTypes DEF RequestsWellTimed, WellTimed
  <1>2. /\ call'[p].phase = answer /\ call'[p].req = r
        /\ \A q \in Process \ {p} : call'[q] = call[q]
    BY DEF Serve, Answered, TypeOK
  <1>3. /\ lockItem' = IF Condition(r) THEN Written(r) ELSE lockItem
        /\ UNCHANGED <<clock, lease, late, nextToken>>
    BY DEF Serve
  <1>4. \A q \in Process : call'[q].req = call[q].req
    BY <1>2
  <1>5. nextToken \in Nat \ {0} /\ LatestNow' = LatestNow
    BY <1>3 DEF TypeOK, LatestNow
  <1>6. TokensPrivate' /\ CallTokens' /\ LateHarmless'
    <2>1. answer # "idle" /\ call[p].phase # "idle"
      BY DEF Serve
    <2>2. \A q \in Process : call'[q].phase = "idle" => call[q].phase = "idle"
      BY <1>2, <2>1
    <2>3. \A q \in Process : call'[q].phase # "idle" => call[q].phase # "idle"
      BY <1>2, <2>1
    <2>4. TokensPrivate' /\ LateHarmless'
      BY <1>3, <1>4 DEF TokensPrivate, LateHarmless
    <2>5. QED
      BY <1>3, <1>4, <2>2, <2>3, <2>4 DEF CallTokens
  <1>7. /\ lockItem'.token < nextToken
        /\ HasTTL => lockItem'.ttl >= lockItem'.exp
    <2>1. CASE ~Condition(r)
      BY <1>3, <2>1 DEF TokensIssued, RequestsWellTimed
    <2>2. CASE r.op = "acquire" /\ Condition(r)
      BY <1>1, <1>3, <2>2 DEF TokensIssued, RequestsWellTimed, Written
    <2>3. CASE r.op = "refresh" /\ Condition(r)
      BY <1>1, <1>3, <2>3 DEF TokensIssued, RequestsWellTimed, Written, RefreshedItem
    <2>4. CASE r.op = "release" /\ Condition(r)
      BY <1>3, <1>5, <2>4 DEF TokensIssued, Written, NoItem, NoToken
    <2>5. QED
      BY <1>1, <2>1, <2>2, <2>3, <2>4 DEF Request
  <1>8. TokensIssued' /\ RequestsWellTimed'
    BY <1>3, <1>4, <1>5, <1>7 DEF TokensIssued, RequestsWellTimed, WellTimed
  <1>9. GrantsStand' /\ HolderOwnsRow'
    <2>1. Holders' = Holders /\ \A q \in Process : Holds(q) => lease[q].token # NoToken
      BY <1>3, <1>5 DEF Holders, Holds
    <2>2. CASE ~Condition(r)
      <3>1. lockItem' = lockItem /\ call'[p].phase = "refused"
        BY <1>2, <1>3, <2>2
      <3>2. QED
        BY <1>2, <1>3, <1>4, <1>5, <2>1, <3>1 DEF GrantsStand, HolderOwnsRow
    <2>3. CASE r.op = "acquire" /\ Condition(r)
      <3>1. AcquireCondition(r)
        BY <2>3 DEF Condition
      <3>2. Holders = {} /\ \A q \in Process \ {p} :
               ~(/\ call[q].phase = "ok"
                 /\ call[q].req.op \in {"acquire", "refresh"}
                 /\ call[q].req.exp > LatestNow)
        BY <1>1, <3>1, AcquireFindsNoHolder
      <3>3. lockItem'.token = r.token /\ lockItem'.exp = r.exp /\ r.exp \in Int
        BY <1>1, <1>3, <2>3 DEF Written, Request
      <3>4. QED
        BY <1>2, <1>4, <1>5, <2>1, <3>2, <3>3 DEF GrantsStand, HolderOwnsRow
    <2>4. CASE r.op = "refresh" /\ Condition(r)
      <3>1. /\ lockItem.token = r.token /\ lockItem'.token = r.token /\ lockItem'.exp = r.exp
            /\ r.exp \in Int
        BY <1>1, <1>3, <2>4 DEF Written, RefreshedItem, Condition, RefreshCondition, Request
      <3>2. r.token = lease[p].token /\ r.exp >= lease[p].exp /\ r.token # NoToken
        BY <2>4 DEF CallTokens
      <3>3. \A q \in Process \ {p} :
               lease[q].token # r.token /\ call[q].req.token # r.token
        BY <3>2 DEF TokensPrivate
      <3>4. HolderOwnsRow'
        BY <1>3, <2>1, <3>1, <3>2, <3>3 DEF HolderOwnsRow, Holders
      <3>5. GrantsStand'
        BY <1>2, <1>4, <1>5, <3>1, <3>3 DEF GrantsStand
      <3>6. QED
        BY <3>4, <3>5
    <2>5. CASE r.op = "release" /\ Condition(r)
      <3>1. lockItem.token = r.token
        BY <2>5 DEF Condition, ReleaseCondition
      <3>2. \A q \in Process \ {p} : lease[q].token # NoToken => lease[q].token # r.token
        BY DEF TokensPrivate
      <3>3. Holders = {}
        BY <2>1, <2>5, <3>1, <3>2 DEF HolderOwnsRow, Holders, CallTokens
      <3>4. \A q \in Process \ {p} : call[q].req.op \in {"acquire", "refresh"}
               => call[q].req.token # lockItem.token
        BY <3>1 DEF TokensPrivate, CallTokens
      <3>5. GrantsStand'
        BY <1>2, <1>4, <1>5, <2>5, <3>4 DEF GrantsStand
      <3>6. QED
        BY <2>1, <3>3, <3>5 DEF HolderOwnsRow
    <2>6. QED
      BY <1>1, <2>2, <2>3, <2>4, <2>5 DEF Request
  <1>10. QED
    BY <1>6, <1>8, <1>9

\* A request that arrives after its call: an acquire finds no holder, a
\* release carries a token nobody uses.
LEMMA ServeLateIInv ==
    ASSUME IInv, TypeOK', NEW r \in late, ServeLate(r)
    PROVE  IInv'
  <1> USE DEF IInv
  <1>1. /\ r \in Request /\ r.now <= LatestNow /\ (HasTTL => r.ttl >= r.exp)
        /\ r.op # "refresh" /\ r.token < nextToken
    BY DEF TypeOK, RequestsWellTimed, WellTimed, LateHarmless, TokensIssued
  <1>2. /\ lockItem' = IF Condition(r) THEN Written(r) ELSE lockItem
        /\ late' \subseteq late
        /\ UNCHANGED <<clock, lease, call, nextToken>>
    BY DEF ServeLate
  <1>3. nextToken \in Nat \ {0} /\ LatestNow' = LatestNow
    BY <1>2 DEF TypeOK, LatestNow
  <1>4. TokensPrivate' /\ CallTokens' /\ LateHarmless'
    BY <1>2 DEF TokensPrivate, CallTokens, LateHarmless
  <1>5. lockItem'.token < nextToken /\ (HasTTL => lockItem'.ttl >= lockItem'.exp)
    <2>1. CASE ~Condition(r)
      BY <1>2, <2>1 DEF TokensIssued, RequestsWellTimed
    <2>2. CASE r.op = "acquire" /\ Condition(r)
      BY <1>1, <1>2, <2>2 DEF Written
    <2>3. CASE r.op = "release" /\ Condition(r)
      BY <1>2, <1>3, <2>3 DEF Written, NoItem, NoToken
    <2>4. QED
      BY <1>1, <2>1, <2>2, <2>3 DEF Request
  <1>6. TokensIssued' /\ RequestsWellTimed'
    BY <1>2, <1>3, <1>5 DEF TokensIssued, RequestsWellTimed, WellTimed
  <1>7. GrantsStand' /\ HolderOwnsRow'
    <2>1. Holders' = Holders
      BY <1>2, <1>3 DEF Holders, Holds
    <2>2. CASE ~Condition(r)
      BY <1>2, <1>3, <2>1, <2>2 DEF GrantsStand, HolderOwnsRow
    <2>3. CASE r.op = "acquire" /\ Condition(r)
      BY <1>1, <1>2, <1>3, <2>1, <2>3, AcquireFindsNoHolder
         DEF GrantsStand, HolderOwnsRow, Condition
    <2>4. CASE r.op = "release" /\ Condition(r)
      <3>1. lockItem.token = r.token
        BY <2>4 DEF Condition, ReleaseCondition
      <3>2. \A q \in Process :
               /\ lease[q].token # r.token
               /\ call[q].req.op \in {"acquire", "refresh"} => call[q].req.token # r.token
        BY <2>4 DEF LateHarmless, CallTokens
      <3>3. QED
        BY <1>2, <1>3, <2>1, <3>1, <3>2 DEF GrantsStand, HolderOwnsRow, Holders
    <2>5. QED
      BY <1>1, <2>2, <2>3, <2>4 DEF Request
  <1>8. QED
    BY <1>4, <1>6, <1>7

\* TTL deletion comes after the expiry of the row it removes.
LEMMA ExpireTTLIInv ==
    ASSUME IInv, TypeOK', ExpireTTL
    PROVE  IInv'
  <1> USE DEF IInv
  <1>1. lockItem' = NoItem /\ UNCHANGED <<clock, lease, call, late, nextToken>>
    BY DEF ExpireTTL
  <1>2. PICK now \in Clocks : lockItem.ttl <= Unix(now)
    BY DEF ExpireTTL
  <1>3. lockItem.exp <= LatestNow
    BY <1>2, LatestNowBounds, RowTypes DEF ExpireTTL, RequestsWellTimed
  <1>4. LatestNow' = LatestNow /\ LatestNow \in Nat /\ nextToken \in Nat \ {0}
    BY <1>1, LatestNowBounds DEF LatestNow, TypeOK
  <1>5. TokensPrivate' /\ CallTokens' /\ LateHarmless'
    BY <1>1 DEF TokensPrivate, CallTokens, LateHarmless
  <1>6. TokensIssued' /\ RequestsWellTimed'
    BY <1>1, <1>4 DEF TokensIssued, RequestsWellTimed, WellTimed, NoItem, NoToken
  <1>7. HolderOwnsRow'
    BY <1>1, <1>3, <1>4, RowTypes, PartTypes DEF HolderOwnsRow, Holders, Holds
  <1>8. GrantsStand'
    BY <1>1, <1>3, <1>4, RowTypes, PartTypes DEF GrantsStand
  <1>9. QED
    BY <1>5, <1>6, <1>7, <1>8

\* A caller relies on what it was granted.
LEMMA ReturnIInv ==
    ASSUME IInv, TypeOK', NEW p \in Process,
           ReturnAcquire(p) \/ ReturnRefresh(p) \/ ReturnRelease(p)
    PROVE  IInv'
  <1> USE DEF IInv
  <1>1. /\ call'[p] = Idle /\ \A q \in Process \ {p} : call'[q] = call[q]
        /\ UNCHANGED <<clock, lockItem, late, nextToken>>
    BY DEF ReturnAcquire, ReturnRefresh, ReturnRelease, TypeOK
  <1>2. /\ call'[p].req = NoRequest /\ call'[p].phase = "idle"
        /\ call'[p].req.token = NoToken /\ call'[p].req.op = "release"
        /\ call'[p].req.now = 0 /\ call'[p].req.ttl = 0 /\ call'[p].req.exp = 0
    BY <1>1 DEF Idle, NoRequest
  <1>3. \A q \in Process \ {p} : lease'[q] = lease[q]
    BY DEF ReturnAcquire, ReturnRefresh, ReturnRelease, TypeOK
  <1>4. \/ lease'[p] = lease[p]
        \/ /\ call[p].phase = "ok" /\ call[p].req.op \in {"acquire", "refresh"}
           /\ lease'[p].token = call[p].req.token
           /\ lease'[p].exp = call[p].req.exp
    <2>1. CASE ReturnAcquire(p)
      BY <2>1 DEF ReturnAcquire, TypeOK
    <2>2. CASE ReturnRefresh(p)
      BY <2>2 DEF ReturnRefresh, TypeOK, CallTokens
    <2>3. CASE ReturnRelease(p)
      BY <2>3 DEF ReturnRelease
    <2>4. QED
      BY <2>1, <2>2, <2>3
  <1>5. LatestNow' = LatestNow /\ LatestNow \in Nat /\ nextToken \in Nat \ {0}
    BY <1>1, LatestNowBounds DEF LatestNow, TypeOK
  <1>6. TokensIssued'
    BY <1>1, <1>2, <1>3, <1>4, <1>5 DEF TokensIssued, NoToken
  <1>7. TokensPrivate'
    BY <1>1, <1>2, <1>3, <1>4 DEF TokensPrivate
  <1>8. RequestsWellTimed'
    BY <1>1, <1>2, <1>5 DEF RequestsWellTimed, WellTimed
  <1>9. CallTokens'
    BY <1>1, <1>2, <1>3 DEF CallTokens
  <1>10. LateHarmless'
    BY <1>1, <1>2, <1>3, <1>4 DEF LateHarmless, CallTokens
  <1>11. GrantsStand'
    BY <1>1, <1>2, <1>5 DEF GrantsStand
  <1>12. HolderOwnsRow'
    BY <1>1, <1>3, <1>4, <1>5 DEF HolderOwnsRow, Holders, Holds, GrantsStand
  <1>13. QED
    BY <1>6, <1>7, <1>8, <1>9, <1>10, <1>11, <1>12

\* What a call leaves behind when its refreshes do not outlive it.
LEMMA LeaveBehindLate ==
    ASSUME IInv, ~LateRefresh, NEW p \in Process, LeaveBehind(p),
           NEW r \in late', r \notin late
    PROVE  call[p].phase = "sent" /\ r = call[p].req /\ r.op # "refresh"
  BY DEF LeaveBehind

\* A call that ends or starts over: its request may be left behind, its
\* process may lose its lease.
LEMMA GiveUpIInv ==
    ASSUME IInv, TypeOK', ~LateRefresh, NEW p \in Process,
           Resend(p) \/ Fail(p) \/ Crash(p)
    PROVE  IInv'
  <1> USE DEF IInv
  <1>1. /\ LeaveBehind(p) /\ UNCHANGED <<clock, lockItem, nextToken>>
        /\ \A q \in Process \ {p} : call'[q] = call[q] /\ lease'[q] = lease[q]
    BY DEF Resend, Fail, Crash, TypeOK
  <1>2. \/ call'[p] = Idle
        \/ /\ call[p].phase # "idle" /\ call'[p].req = call[p].req
           /\ call'[p].phase = "sent" /\ lease' = lease
    BY DEF Resend, Resent, Fail, Crash, TypeOK
  <1>3. \/ call'[p].phase = "sent" /\ call'[p].req = call[p].req /\ lease' = lease
              /\ call[p].phase # "idle"
        \/ /\ call'[p].req = NoRequest /\ call'[p].phase = "idle"
           /\ call'[p].req.token = NoToken /\ call'[p].req.op = "release"
           /\ call'[p].req.now = 0 /\ call'[p].req.ttl = 0 /\ call'[p].req.exp = 0
    BY <1>2 DEF Idle, NoRequest
  <1>4. lease'[p] = lease[p] \/ (lease'[p] = NoLease /\ call'[p] = Idle)
    BY DEF Resend, Fail, Crash, TypeOK
  <1>5. lease'[p].token \in {lease[p].token, NoToken}
    BY <1>4 DEF NoLease
  <1>6. LatestNow' = LatestNow /\ LatestNow \in Nat /\ nextToken \in Nat \ {0}
    BY <1>1, LatestNowBounds DEF LatestNow, TypeOK
  <1>7. \A r \in late' : \/ r \in late
                         \/ call[p].phase = "sent" /\ r = call[p].req /\ r.op # "refresh"
    BY <1>1, LeaveBehindLate
  <1>8. TokensIssued'
    BY <1>1, <1>3, <1>5, <1>6, <1>7 DEF TokensIssued, CallTokens, NoToken
  <1>9. TokensPrivate'
    BY <1>1, <1>3, <1>5 DEF TokensPrivate
  <1>10. RequestsWellTimed'
    BY <1>1, <1>3, <1>6, <1>7 DEF RequestsWellTimed, WellTimed
  <1>11. CallTokens'
    BY <1>1, <1>3 DEF CallTokens
  <1>12. LateHarmless'
    <2>1. ASSUME NEW r \in late', r \in late PROVE
             /\ r.op # "refresh"
             /\ r.op = "release" => \A q \in Process :
                   /\ lease'[q].token # r.token
                   /\ call'[q].req.op = "acquire" => call'[q].req.token # r.token
      BY <1>1, <1>3, <1>5, <2>1 DEF LateHarmless, TokensIssued
    <2>2. ASSUME NEW r \in late', r \notin late PROVE
             /\ r.op # "refresh"
             /\ r.op = "release" => \A q \in Process :
                   /\ lease'[q].token # r.token
                   /\ call'[q].req.op = "acquire" => call'[q].req.token # r.token
      <3>1. call[p].phase = "sent" /\ r = call[p].req /\ r.op # "refresh"
        BY <1>7, <2>2
      <3>2. r.token # NoToken
        BY <3>1 DEF CallTokens
      <3>3. \A q \in Process \ {p} :
               lease[q].token # r.token /\ call[q].req.token # r.token
        BY <3>1, <3>2 DEF TokensPrivate
      <3>4. r.op = "release" => lease'[p].token # r.token /\ call'[p].req.op = "release"
        BY <1>3, <1>5, <3>1, <3>2 DEF CallTokens
      <3>5. QED
        BY <1>1, <3>1, <3>3, <3>4
    <2>3. QED
      BY <2>1, <2>2 DEF LateHarmless
  <1>13. GrantsStand'
    BY <1>1, <1>3, <1>6 DEF GrantsStand
  <1>14. HolderOwnsRow'
    BY <1>1, <1>4, <1>6 DEF HolderOwnsRow, Holders, Holds, NoLease
  <1>15. QED
    BY <1>8, <1>9, <1>10, <1>11, <1>12, <1>13, <1>14

\* Time only takes leases away.
LEMMA TickIInv ==
    ASSUME IInv, TypeOK', Tick
    PROVE  IInv'
  <1> USE DEF IInv
  <1>1. clock' = clock + 1 /\ UNCHANGED <<lockItem, lease, call, late, nextToken>>
    BY DEF Tick
  <1>2. LatestNow \in Nat /\ LatestNow' \in Nat /\ LatestNow <= LatestNow'
    <2>1. clock' \in Nat /\ clock <= clock'
      BY <1>1 DEF TypeOK
    <2>2. QED
      BY <2>1, LatestNowMonotone
  <1>3. TokensIssued' /\ TokensPrivate' /\ CallTokens' /\ LateHarmless'
    BY <1>1 DEF TokensIssued, TokensPrivate, CallTokens, LateHarmless
  <1>4. \A r \in Request : WellTimed(r) => WellTimed(r)'
    BY <1>2 DEF WellTimed, Request, HasTTL
  <1>5. RequestsWellTimed'
    BY <1>1, <1>4, PartTypes DEF RequestsWellTimed, HasTTL, TypeOK
  <1>6. GrantsStand' /\ HolderOwnsRow'
    BY <1>1, <1>2, PartTypes DEF GrantsStand, HolderOwnsRow, Holders, Holds
  <1>7. QED
    BY <1>3, <1>5, <1>6

\* Every step keeps the invariant.
LEMMA NextIInv ==
    ASSUME IInv, [Next]_vars, ExtendOnly, ~LateRefresh
    PROVE  IInv'
  <1>1. TypeOK'
    BY NextTypeOK DEF IInv
  <1>2. ASSUME NEW p \in Process,
               \/ AcquireKey(p) \/ Refresh(p) \/ Release(p)
               \/ Serve(p)
               \/ ReturnAcquire(p) \/ ReturnRefresh(p) \/ ReturnRelease(p)
               \/ Resend(p) \/ Fail(p) \/ Crash(p)
        PROVE  IInv'
    BY <1>1, <1>2, AcquireKeyIInv, RefreshIInv, ReleaseIInv, ServeIInv, ReturnIInv,
       GiveUpIInv
  <1>3. ASSUME NEW r \in late, ServeLate(r) PROVE IInv'
    BY <1>1, <1>3, ServeLateIInv
  <1>4. CASE ExpireTTL
    BY <1>1, <1>4, ExpireTTLIInv
  <1>5. CASE Tick
    BY <1>1, <1>5, TickIInv
  <1>6. CASE UNCHANGED vars
    BY <1>6 DEF vars, IInv, TypeOK, TokensIssued, TokensPrivate, RequestsWellTimed,
                WellTimed, CallTokens, LateHarmless, GrantsStand, HolderOwnsRow,
                Holders, Holds, LatestNow
  <1>7. QED
    BY <1>2, <1>3, <1>4, <1>5, <1>6 DEF Next

\* Owners of the row are unique because tokens are.
LEMMA IInvExclusion == IInv => Exclusion
  BY DEF IInv, HolderOwnsRow, TokensPrivate, Exclusion, Holders, Holds

-----------------------------------------------------------------------------

\* Two processes never both rely on the lease, for any number of processes, any
\* clock skew, any durations and any number of lost, repeated and late requests:
\* as long as callers only extend their lease and no refresh reaches the table
\* after its call has returned.
THEOREM MutualExclusion ==
    ASSUME ExtendOnly, ~LateRefresh
    PROVE  Spec => []Exclusion
  <1>1. IInv /\ [Next]_vars => IInv'
    BY NextIInv
  <1>2. QED
    BY InitIInv, <1>1, IInvExclusion, PTL DEF Spec

\* Whoever may rely on the lease owns the row until the expiry it was told.
THEOREM RowOwnership ==
    ASSUME ExtendOnly, ~LateRefresh
    PROVE  Spec => []HolderOwnsRow
  <1>1. IInv /\ [Next]_vars => IInv'
    BY NextIInv
  <1>2. IInv => HolderOwnsRow
    BY DEF IInv
  <1>3. QED
    BY InitIInv, <1>1, <1>2, PTL DEF Spec

-----------------------------------------------------------------------------
(* The lease manager implements the abstract lock of module LeaseMutex.    *)

\* A step changes the lease of one process at most, or moves the clock.
LEMMA StepIsLocal ==
    ASSUME TypeOK, [Next]_vars
    PROVE  \/ lease' = lease /\ clock' \in Nat /\ clock <= clock'
           \/ /\ clock' = clock
              /\ \E p \in Process : \A q \in Process \ {p} : lease'[q] = lease[q]
  <1> USE DEF TypeOK
  <1>1. ASSUME NEW p \in Process,
               \/ AcquireKey(p) \/ Refresh(p) \/ Release(p)
               \/ Serve(p)
               \/ ReturnAcquire(p) \/ ReturnRefresh(p) \/ ReturnRelease(p)
               \/ Resend(p) \/ Fail(p) \/ Crash(p)
        PROVE  clock' = clock /\ \A q \in Process \ {p} : lease'[q] = lease[q]
    BY <1>1 DEF AcquireKey, Refresh, Release, Serve, ReturnAcquire, ReturnRefresh,
                ReturnRelease, Resend, Fail, Crash
  <1>2. ASSUME NEW r \in late, ServeLate(r) PROVE lease' = lease /\ clock' = clock
    BY <1>2 DEF ServeLate
  <1>3. CASE ExpireTTL
    BY <1>3 DEF ExpireTTL
  <1>4. CASE Tick
    BY <1>4 DEF Tick
  <1>5. CASE UNCHANGED vars
    BY <1>5 DEF vars
  <1>6. QED
    BY <1>1, <1>2, <1>3, <1>4, <1>5 DEF Next

\* Every step is a grant, a lapse or a stutter of the abstract lock.
LEMMA StepImplements ==
    ASSUME IInv, IInv', [Next]_vars
    PROVE  [Mutex!Next]_Holders
  <1>1. Exclusion /\ Exclusion'
    BY IInvExclusion DEF IInv, Exclusion, HolderOwnsRow, TokensPrivate, Holders, Holds
  <1>2. SUFFICES ASSUME Holders' # Holders
                 PROVE  Mutex!Next
    OBVIOUS
  <1>3. CASE Holders' = {}
    BY <1>2, <1>3 DEF Mutex!Next, Mutex!Lapse
  <1>4. CASE Holders' # {}
    <2>1. PICK p \in Holders' : Holders' = {p}
      BY <1>1, <1>4 DEF Exclusion
    <2>2. p \in Process /\ p \notin Holders
      <3>1. p \in Process
        BY DEF Holders
      <3>2. ASSUME p \in Holders PROVE FALSE
        <4>1. Holders = {p}
          BY <1>1, <3>2 DEF Exclusion
        <4>2. QED
          BY <1>2, <2>1, <4>1
      <3>3. QED
        BY <3>1, <3>2
    <2>3. Holders = {}
      <3>1. CASE lease' = lease /\ clock' \in Nat /\ clock <= clock'
        <4>1. LatestNow \in Int /\ LatestNow' \in Int /\ LatestNow <= LatestNow'
          BY <3>1, LatestNowMonotone DEF IInv
        <4>2. lease[p].exp \in Int
          BY <2>2, PartTypes DEF IInv
        <4>3. p \in Holders
          BY <2>2, <3>1, <4>1, <4>2 DEF Holders, Holds
        <4>4. QED
          BY <2>2, <4>3
      <3>2. CASE /\ clock' = clock
                 /\ \E q \in Process : \A o \in Process \ {q} : lease'[o] = lease[o]
        <4>1. LatestNow' = LatestNow
          BY <3>2 DEF LatestNow
        <4>2. PICK q \in Process : \A o \in Process \ {q} : lease'[o] = lease[o]
          BY <3>2
        <4>3. p = q
          BY <2>2, <4>1, <4>2 DEF Holders, Holds
        <4>4. ASSUME NEW o \in Holders PROVE FALSE
          <5>1. o \in Process \ {q}
            BY <2>2, <4>3 DEF Holders
          <5>2. o \in Holders'
            BY <4>1, <4>2, <5>1 DEF Holders, Holds
          <5>3. QED
            BY <2>1, <4>3, <5>1, <5>2
        <4>5. QED
          BY <4>4
      <3>3. QED
        BY <3>1, <3>2, StepIsLocal DEF IInv
    <2>4. QED
      BY <2>1, <2>2, <2>3 DEF Mutex!Next, Mutex!Grant
  <1>5. QED
    BY <1>3, <1>4

\* The detailed protocol, with its clocks, lost answers and late requests, is
\* an abstract lock that is granted, lapses, and is granted again.
THEOREM Refinement ==
    ASSUME ExtendOnly, ~LateRefresh
    PROVE  Spec => ImplementsMutex
  <1>1. Init => Mutex!Init
    BY DEF Init, Mutex!Init, Holders, Holds, NoLease
  <1>2. IInv /\ [Next]_vars => IInv'
    BY NextIInv
  <1>3. IInv /\ IInv' /\ [Next]_vars => [Mutex!Next]_Holders
    BY StepImplements
  <1>4. QED
    BY InitIInv, <1>1, <1>2, <1>3, PTL DEF Spec, ImplementsMutex, Mutex!Spec

-----------------------------------------------------------------------------
(* No stealing, with no assumption on callers or on late refreshes.        *)

\* No request carries a time that has not come.
LEMMA NextWellTimed ==
    ASSUME TypeOK, RequestsWellTimed, [Next]_vars
    PROVE  RequestsWellTimed'
  <1> USE DEF RequestsWellTimed
  <1>1. LatestNow \in Nat /\ \A r \in Request : WellTimed(r) => WellTimed(r)'
    <2>1. clock' \in Nat /\ clock <= clock'
      BY StepIsLocal DEF TypeOK
    <2>2. LatestNow \in Nat /\ LatestNow' \in Nat /\ LatestNow <= LatestNow'
      BY <2>1, LatestNowMonotone
    <2>3. QED
      BY <2>2 DEF WellTimed, Request, HasTTL
  <1>2. ASSUME NEW r \in Request, WellTimed(r),
               lockItem' = IF Condition(r) THEN Written(r) ELSE lockItem
        PROVE  HasTTL => lockItem'.ttl >= lockItem'.exp
    BY <1>2 DEF WellTimed, Written, RefreshedItem, NoItem, NoToken
  <1>3. \A p \in Process : call[p].req \in Request
    BY PartTypes
  <1>4. late \subseteq Request
    BY DEF TypeOK
  <1>5. NoRequest \in Request /\ WellTimed(NoRequest)
    BY <1>1 DEF NoRequest, Request, WellTimed, NoToken
  <1>6. ASSUME NEW p \in Process, AcquireKey(p) \/ Refresh(p)
        PROVE  RequestsWellTimed'
    <2>1. PICK r \in Request :
             WellTimed(r) /\ call' = [call EXCEPT ![p] = Sent(r)]
      BY <1>6, BuiltRequest, PartTypes DEF AcquireKey, Refresh, TypeOK
    <2>2. \A q \in Process : call'[q].req \in {r, call[q].req}
      BY <2>1 DEF TypeOK, Sent
    <2>3. UNCHANGED <<clock, lockItem, late>>
      BY <1>6 DEF AcquireKey, Refresh
    <2>4. QED
      BY <1>1, <1>3, <1>4, <2>1, <2>2, <2>3
  <1>7. ASSUME NEW p \in Process, Release(p) PROVE RequestsWellTimed'
    <2>1. /\ \A q \in Process \ {p} : call'[q] = call[q]
          /\ call'[p].req = [op |-> "release", token |-> lease[p].token, now |-> 0,
                             exp |-> 0, ttl |-> 0]
          /\ UNCHANGED <<clock, lockItem, late>>
      BY <1>7 DEF Release, TypeOK, Sent
    <2>2. QED
      BY <1>1, <2>1 DEF WellTimed, LatestNow
  <1>8. ASSUME NEW p \in Process, Serve(p) PROVE RequestsWellTimed'
    <2>1. /\ \A q \in Process : call'[q].req = call[q].req
          /\ UNCHANGED <<clock, late>>
      BY <1>8 DEF Serve, TypeOK, Answered
    <2>2. HasTTL => lockItem'.ttl >= lockItem'.exp
      BY <1>2, <1>3, <1>8 DEF Serve
    <2>3. QED
      BY <1>1, <1>3, <1>4, <2>1, <2>2
  <1>9. ASSUME NEW r \in late, ServeLate(r) PROVE RequestsWellTimed'
    <2>1. HasTTL => lockItem'.ttl >= lockItem'.exp
      BY <1>2, <1>4, <1>9 DEF ServeLate
    <2>2. late' \subseteq late /\ UNCHANGED <<clock, call>>
      BY <1>9 DEF ServeLate
    <2>3. QED
      BY <1>1, <1>3, <1>4, <2>1, <2>2
  <1>10. ASSUME NEW p \in Process,
                \/ ReturnAcquire(p) \/ ReturnRefresh(p) \/ ReturnRelease(p)
                \/ Resend(p) \/ Fail(p) \/ Crash(p)
         PROVE  RequestsWellTimed'
    <2>1. /\ \A q \in Process : call'[q].req \in {call[q].req, NoRequest}
          /\ UNCHANGED <<clock, lockItem>>
      BY <1>10 DEF ReturnAcquire, ReturnRefresh, ReturnRelease, Resend, Fail, Crash,
                   Resent, Idle, TypeOK
    <2>2. \A r \in late' : r \in late \/ r = call[p].req
      BY <1>10 DEF ReturnAcquire, ReturnRefresh, ReturnRelease, Resend, Fail, Crash,
                   LeaveBehind
    <2>3. QED
      BY <1>1, <1>3, <1>4, <1>5, <2>1, <2>2
  <1>11. CASE ExpireTTL
    BY <1>1, <1>3, <1>4, <1>11 DEF ExpireTTL, NoItem
  <1>12. CASE Tick
    BY <1>1, <1>3, <1>4, <1>12 DEF Tick, HasTTL
  <1>13. CASE UNCHANGED vars
    BY <1>1, <1>3, <1>4, <1>13 DEF vars, HasTTL
  <1>14. QED
    BY <1>6, <1>7, <1>8, <1>9, <1>10, <1>11, <1>12, <1>13 DEF Next

\* A conditional write takes an unexpired row from its owner only as a release
\* with its token.
LEMMA WriteNeverSteals ==
    ASSUME TypeOK, NEW r \in Request, r.now <= LatestNow,
           lockItem.token # NoToken, lockItem.exp > LatestNow, Condition(r),
           Written(r).token # lockItem.token
    PROVE  r.op = "release" /\ r.token = lockItem.token /\ Written(r).token = NoToken
  <1>1. LatestNow \in Nat /\ lockItem.exp \in Int /\ r.now \in Int
    BY LatestNowBounds, RowTypes DEF Request
  <1>2. ~AcquireCondition(r)
    BY <1>1 DEF AcquireCondition
  <1>3. r.op # "refresh"
    BY DEF Written, RefreshedItem
  <1>4. QED
    BY <1>2, <1>3 DEF Condition, ReleaseCondition, Written, NoItem

\* A row that is not expired loses its owner only to a release with its token.
LEMMA StepNeverSteals ==
    ASSUME TypeOK, RequestsWellTimed, [Next]_vars,
           lockItem.token # NoToken, lockItem.exp > LatestNow, lockItem'.token # lockItem.token
    PROVE  /\ lockItem'.token = NoToken
           /\ \E r \in InFlight : r.op = "release" /\ r.token = lockItem.token
  <1>1. LatestNow \in Nat /\ lockItem.exp \in Int /\ lockItem.ttl \in Int
    BY LatestNowBounds, RowTypes
  <1>2. ASSUME NEW p \in Process, Serve(p)
        PROVE  /\ lockItem'.token = NoToken
               /\ \E r \in InFlight : r.op = "release" /\ r.token = lockItem.token
    <2>1. call[p].req \in Request /\ call[p].req.now <= LatestNow
      BY PartTypes DEF RequestsWellTimed, WellTimed
    <2>2. Condition(call[p].req) /\ lockItem' = Written(call[p].req)
      BY <1>2 DEF Serve
    <2>3. call[p].req \in InFlight
      BY <1>2 DEF InFlight, Serve
    <2>4. QED
      BY <2>1, <2>2, <2>3, WriteNeverSteals
  <1>3. ASSUME NEW r \in late, ServeLate(r)
        PROVE  /\ lockItem'.token = NoToken
               /\ \E x \in InFlight : x.op = "release" /\ x.token = lockItem.token
    <2>1. r \in Request /\ r.now <= LatestNow /\ r \in InFlight
      BY DEF RequestsWellTimed, WellTimed, TypeOK, InFlight
    <2>2. Condition(r) /\ lockItem' = Written(r)
      BY <1>3 DEF ServeLate
    <2>3. QED
      BY <2>1, <2>2, WriteNeverSteals
  <1>4. CASE ExpireTTL
    <2>1. PICK now \in Clocks : lockItem.ttl <= Unix(now)
      BY <1>4 DEF ExpireTTL
    <2>2. FALSE
      BY <1>1, <1>4, <2>1, LatestNowBounds DEF ExpireTTL, RequestsWellTimed
    <2>3. QED
      BY <2>2
  <1>5. ASSUME NEW p \in Process,
               \/ AcquireKey(p) \/ Refresh(p) \/ Release(p)
               \/ ReturnAcquire(p) \/ ReturnRefresh(p) \/ ReturnRelease(p)
               \/ Resend(p) \/ Fail(p) \/ Crash(p)
        PROVE  FALSE
    BY <1>5 DEF AcquireKey, Refresh, Release, ReturnAcquire, ReturnRefresh,
                ReturnRelease, Resend, Fail, Crash
  <1>6. CASE Tick \/ UNCHANGED vars
    BY <1>6 DEF Tick, vars
  <1>7. QED
    BY <1>2, <1>3, <1>4, <1>5, <1>6 DEF Next

\* An unexpired row is never taken over and never garbage-collected: it changes
\* owner only through a release by its owner, whatever requests are late.
THEOREM NeverStolen == Spec => NoStealing
  <1>1. Init => TypeOK /\ RequestsWellTimed
    <2>1. Init => RequestsWellTimed
      BY InitIInv DEF IInv
    <2>2. QED
      BY <2>1, InitTypeOK
  <1>2. (TypeOK /\ RequestsWellTimed) /\ [Next]_vars => (TypeOK /\ RequestsWellTimed)'
    BY NextTypeOK, NextWellTimed
  <1>3. (TypeOK /\ RequestsWellTimed) /\ [Next]_vars
        => [(/\ lockItem.token # NoToken
             /\ lockItem.exp > LatestNow
             /\ lockItem'.token # lockItem.token)
            => /\ lockItem'.token = NoToken
               /\ \E r \in InFlight : r.op = "release" /\ r.token = lockItem.token]_vars
    BY StepNeverSteals
  <1>4. QED
    BY <1>1, <1>2, <1>3, PTL DEF Spec, NoStealing

-----------------------------------------------------------------------------
(* Expiries, with no assumption on callers or on late refreshes.           *)

\* r is as AcquireKey or Refresh builds it now, or is a release.
Built(r) ==
    r.op # "release" =>
        \E d \in Durations, now \in Clocks :
            /\ ValidateInput => d > 0
            /\ r.now = Unix(now) /\ r.exp = Unix(now + d)

\* Where requests and the row come from: a call keeps its request or has a new
\* one, what is left behind is the request of a call, and a row is written with the
\* expiry of a request.
LEMMA RequestOrigin ==
    ASSUME TypeOK, [Next]_vars
    PROVE  /\ \A p \in Process : call'[p].req = call[p].req \/ Built(call'[p].req)
           /\ \A r \in late' : r \in late \/ \E p \in Process : r = call[p].req
           /\ \/ lockItem' = lockItem
              \/ lockItem'.token = NoToken
              \/ \E r \in late \union {call[p].req : p \in Process} :
                    r.op # "release" /\ lockItem'.exp = r.exp
  <1> USE DEF TypeOK
  <1>1. ASSUME NEW r \in Request, Condition(r), lockItem' = Written(r)
        PROVE  lockItem'.token = NoToken \/ (r.op # "release" /\ lockItem'.exp = r.exp)
    BY <1>1 DEF Written, RefreshedItem, NoItem, Request
  <1>2. \A p \in Process : call[p].req \in Request
    BY PartTypes
  <1>3. Built(NoRequest)
    BY DEF Built, NoRequest
  <1>4. ASSUME NEW p \in Process, AcquireKey(p)
        PROVE  /\ UNCHANGED <<lockItem, late>>
               /\ \A q \in Process : call'[q].req = call[q].req \/ Built(call'[q].req)
    <2>1. PICK d \in Durations, now \in Clocks :
             /\ ValidateInput => d > 0
             /\ call' = [call EXCEPT ![p] =
                Sent([op |-> "acquire", token |-> nextToken, now |-> Unix(now),
                      exp |-> Unix(now + d), ttl |-> TTLFor(Unix(now + d))])]
      BY <1>4 DEF AcquireKey
    <2>2. Built(call'[p].req) /\ \A q \in Process \ {p} : call'[q] = call[q]
      BY <2>1 DEF Built, Sent
    <2>3. QED
      BY <1>4, <2>2 DEF AcquireKey
  <1>5. ASSUME NEW p \in Process, Refresh(p)
        PROVE  /\ UNCHANGED <<lockItem, late>>
               /\ \A q \in Process : call'[q].req = call[q].req \/ Built(call'[q].req)
    <2>1. PICK d \in Durations, now \in Clocks :
             /\ ValidateInput => d > 0
             /\ call' = [call EXCEPT ![p] =
                Sent([op |-> "refresh", token |-> lease[p].token, now |-> Unix(now),
                      exp |-> Unix(now + d), ttl |-> TTLFor(Unix(now + d))])]
      BY <1>5 DEF Refresh
    <2>2. Built(call'[p].req) /\ \A q \in Process \ {p} : call'[q] = call[q]
      BY <2>1 DEF Built, Sent
    <2>3. QED
      BY <1>5, <2>2 DEF Refresh
  <1>6. ASSUME NEW p \in Process, Release(p)
        PROVE  /\ UNCHANGED <<lockItem, late>>
               /\ \A q \in Process : call'[q].req = call[q].req \/ Built(call'[q].req)
    BY <1>6 DEF Release, Built, Sent
  <1>7. ASSUME NEW p \in Process, Serve(p)
        PROVE  /\ UNCHANGED late /\ \A q \in Process : call'[q].req = call[q].req
               /\ \/ lockItem' = lockItem
                  \/ lockItem'.token = NoToken
                  \/ call[p].req.op # "release" /\ lockItem'.exp = call[p].req.exp
    BY <1>1, <1>2, <1>7 DEF Serve, Answered
  <1>8. ASSUME NEW r \in late, ServeLate(r)
        PROVE  /\ late' \subseteq late /\ UNCHANGED call
               /\ \/ lockItem' = lockItem
                  \/ lockItem'.token = NoToken
                  \/ r.op # "release" /\ lockItem'.exp = r.exp
    BY <1>1, <1>8 DEF ServeLate
  <1>9. ASSUME NEW p \in Process,
               \/ ReturnAcquire(p) \/ ReturnRefresh(p) \/ ReturnRelease(p)
               \/ Resend(p) \/ Fail(p) \/ Crash(p)
        PROVE  /\ UNCHANGED lockItem
               /\ \A q \in Process : call'[q].req \in {call[q].req, NoRequest}
               /\ \A r \in late' : r \in late \/ r = call[p].req
    BY <1>9 DEF ReturnAcquire, ReturnRefresh, ReturnRelease, Resend, Fail, Crash,
                Resent, Idle, LeaveBehind
  <1>10. CASE ExpireTTL \/ Tick \/ UNCHANGED vars
    BY <1>10 DEF ExpireTTL, Tick, vars, NoItem
  <1>11. QED
    BY <1>3, <1>4, <1>5, <1>6, <1>7, <1>8, <1>9, <1>10 DEF Next

\* An expiry is within the longest duration, on the fastest clock.
InReach(exp, t) == \E d \in Durations : exp <= Unix(t + MaxSkew + d)

\* BoundedHold is not inductive: the requests under way must be in reach too.
ReachInv ==
    /\ \A p \in Process : call[p].req.op # "release" => InReach(call[p].req.exp, clock)
    /\ \A r \in late : r.op # "release" => InReach(r.exp, clock)
    /\ BoundedHold

\* What is in reach at a time is in reach at a later one.
LEMMA ReachLater ==
    ASSUME NEW a \in Nat, NEW b \in Nat, a <= b, NEW e \in Int, InReach(e, a)
    PROVE  InReach(e, b)
  <1>1. PICK d \in Durations : e <= Unix(a + MaxSkew + d)
    BY DEF InReach
  <1>2. MaxSkew \in Int /\ d \in Int
    BY TimeAssumption
  <1>3. /\ a + MaxSkew + d \in Int /\ b + MaxSkew + d \in Int
        /\ a + MaxSkew + d <= b + MaxSkew + d
    BY <1>2
  <1>4. e <= Unix(b + MaxSkew + d)
    BY <1>1, <1>3, UnixMonotone
  <1>5. QED
    BY <1>4 DEF InReach

\* What was in reach stays in reach.
LEMMA ReachMonotone ==
    ASSUME TypeOK, [Next]_vars, NEW e \in Int, InReach(e, clock)
    PROVE  InReach(e, clock')
  <1>1. clock \in Nat /\ clock' \in Nat /\ clock <= clock'
    BY StepIsLocal DEF TypeOK
  <1>2. QED
    BY <1>1, ReachLater

\* A request is in reach when it is built.
LEMMA BuiltInReach ==
    ASSUME TypeOK, NEW r, Built(r), r.op # "release"
    PROVE  r.exp \in Int /\ InReach(r.exp, clock)
  <1>1. PICK d \in Durations, now \in Clocks : r.exp = Unix(now + d)
    BY DEF Built
  <1>2. /\ now + d \in Int /\ clock + MaxSkew + d \in Int
        /\ now + d <= clock + MaxSkew + d
    BY TimeAssumption DEF Clocks, TypeOK
  <1>3. QED
    BY <1>1, <1>2, UnixMonotone DEF InReach

\* Every step keeps all expiries in reach.
LEMMA ReachStep ==
    ASSUME TypeOK, ReachInv, [Next]_vars
    PROVE  ReachInv'
  <1> USE DEF ReachInv
  <1>1. \A p \in Process : call[p].req.exp \in Int
    BY PartTypes
  <1>2. \A r \in late : r.exp \in Int
    BY DEF TypeOK, Request
  <1>3. ASSUME NEW p \in Process, call'[p].req.op # "release"
        PROVE  InReach(call'[p].req.exp, clock')
    <2>1. call'[p].req.exp \in Int /\ InReach(call'[p].req.exp, clock)
      BY <1>1, <1>3, BuiltInReach, RequestOrigin
    <2>2. QED
      BY <2>1, ReachMonotone
  <1>4. ASSUME NEW r \in late', r.op # "release"
        PROVE  InReach(r.exp, clock')
    <2>1. r.exp \in Int /\ InReach(r.exp, clock)
      BY <1>1, <1>2, <1>4, RequestOrigin
    <2>2. QED
      BY <2>1, ReachMonotone
  <1>5. BoundedHold'
    <2>1. SUFFICES ASSUME lockItem'.token # NoToken PROVE InReach(lockItem'.exp, clock')
      BY DEF BoundedHold, InReach
    <2>2. lockItem'.exp \in Int /\ InReach(lockItem'.exp, clock)
      BY <1>1, <1>2, <2>1, RowTypes, RequestOrigin DEF BoundedHold, InReach
    <2>3. QED
      BY <2>2, ReachMonotone
  <1>6. QED
    BY <1>3, <1>4, <1>5

\* No row outlives the longest duration a caller asked for, whatever requests are
\* repeated, late or left behind by callers that crashed.
THEOREM HoldsAreBounded == Spec => []BoundedHold
  <1>1. Init => TypeOK /\ ReachInv
    BY InitTypeOK DEF Init, ReachInv, BoundedHold, NoItem, Idle, NoRequest
  <1>2. (TypeOK /\ ReachInv) /\ [Next]_vars => (TypeOK /\ ReachInv)'
    BY NextTypeOK, ReachStep
  <1>3. ReachInv => BoundedHold
    BY DEF ReachInv
  <1>4. QED
    BY <1>1, <1>2, <1>3, PTL DEF Spec

\* A duration of one second or more reaches the next whole second.
LEMMA SecondsAdvance ==
    ASSUME NEW t \in Int, NEW d \in Int, d >= TicksPerSecond
    PROVE  Unix(t) \in Int /\ Unix(t + d) \in Int /\ Unix(t + d) > Unix(t)
  <1>1. Unix(t + TicksPerSecond) = Unix(t) + 1 /\ Unix(t) \in Int
    BY TimeAssumption DEF Unix
  <1>2. t + TicksPerSecond \in Int /\ t + d \in Int /\ t + TicksPerSecond <= t + d
    BY TimeAssumption
  <1>3. QED
    BY <1>1, <1>2, UnixMonotone

\* Every request to take or to keep the lease asks for a later second than its own.
AsksLater ==
    \A p \in Process :
        call[p].req.op # "release" => call[p].req.exp > call[p].req.now

\* The documented rule "held iff lease_expires_at > now" holds of every granted
\* lease if no caller asks for less than a second; the run lease_subsecond shows
\* that it fails otherwise.
THEOREM GrantsAreHeld ==
    ASSUME ValidateInput, \A d \in Durations : d > 0 => d >= TicksPerSecond
    PROVE  Spec => []GrantedLeaseIsHeld
  <1>1. Init => TypeOK /\ AsksLater
    BY InitTypeOK DEF Init, AsksLater, Idle, NoRequest
  <1>2. ASSUME TypeOK, AsksLater, [Next]_vars
        PROVE  AsksLater'
    <2>1. ASSUME NEW p \in Process, call'[p].req.op # "release",
                 Built(call'[p].req)
          PROVE  call'[p].req.exp > call'[p].req.now
      <3>1. PICK d \in Durations, now \in Clocks :
               /\ d > 0
               /\ call'[p].req.now = Unix(now) /\ call'[p].req.exp = Unix(now + d)
        BY <2>1 DEF Built
      <3>2. now \in Int /\ d \in Int /\ d >= TicksPerSecond
        BY <1>2, <3>1, TimeAssumption, LatestNowBounds
      <3>3. QED
        BY <3>1, <3>2, SecondsAdvance
    <2>2. QED
      BY <1>2, <2>1, RequestOrigin DEF AsksLater
  <1>3. (TypeOK /\ AsksLater) /\ [Next]_vars => (TypeOK /\ AsksLater)'
    BY <1>2, NextTypeOK
  <1>4. AsksLater => GrantedLeaseIsHeld
    BY DEF AsksLater, GrantedLeaseIsHeld
  <1>5. QED
    BY <1>1, <1>3, <1>4, PTL DEF Spec
=============================================================================
