-------------------------------- MODULE Lease --------------------------------
(***************************************************************************)
(* The distributed lease of pkg/lease/lease.go: AcquireKey, Refresh and    *)
(* Release of one lock row, as several processes call them against one     *)
(* DynamoDB table.                                                         *)
(*                                                                         *)
(* A call reads the caller's clock and builds its request in one step, the *)
(* table evaluates the condition and writes in a second, and the caller    *)
(* sees the outcome in a third.  In between the clock runs, answers get    *)
(* lost, the SDK repeats the request, the caller gives up or crashes, and  *)
(* a request left behind may reach the table later.                        *)
(*                                                                         *)
(* Time is counted in ticks, TicksPerSecond to the second: the code keeps  *)
(* whole Unix seconds, while clocks and durations are finer.               *)
(***************************************************************************)
EXTENDS Integers, FiniteSets

CONSTANTS
    Process,         \* callers that contend for the lock
    TicksPerSecond,  \* resolution of time.Now and time.Duration
    Durations,       \* durations, in ticks, that callers pass
    ValidateInput,   \* WithValidateInput: reject durations that are not > 0
    IncludeTTL,      \* WithIncludeTTL
    TTLBuffer,       \* WithTTLBuffer, in ticks
    MaxSkew,         \* ticks by which any two clocks may differ
    ExtendOnly,      \* callers refresh only to a later expiry
    LateRefresh,     \* a refresh may reach the table after its call returned
    MaxClock,        \* bound: time stops here
    MaxTokens,       \* bound: number of acquire attempts
    MaxRetries,      \* bound: requests the SDK repeats within one call
    MaxLate          \* bound: requests under way without a caller

ASSUME TimeAssumption ==
    /\ TicksPerSecond \in Nat \ {0}
    /\ Durations \subseteq Int
    /\ TTLBuffer \in Int
    /\ MaxSkew \in Nat
    /\ MaxClock \in Nat

ASSUME OptionAssumption ==
    /\ ValidateInput \in BOOLEAN
    /\ IncludeTTL \in BOOLEAN
    /\ ExtendOnly \in BOOLEAN
    /\ LateRefresh \in BOOLEAN

ASSUME BoundAssumption ==
    /\ MaxTokens \in Nat
    /\ MaxRetries \in Nat
    /\ MaxLate \in Nat

VARIABLES
    clock,      \* true time, in ticks
    lockItem,   \* the lock row; NoItem when there is none
    lease,      \* lease[p]: the Lease value p relies on; NoLease when none
    call,       \* call[p]: the manager call p is in
    late,       \* requests that outlived the call that sent them
    nextToken   \* uuid.NewString: every token is new

vars == <<clock, lockItem, lease, call, late, nextToken>>

-----------------------------------------------------------------------------
(* Values.  Token 0 is no token: an absent row, no lease, no request.      *)

NoToken == 0
NoItem  == [token |-> NoToken, exp |-> 0, ttl |-> 0]
NoLease == [token |-> NoToken, exp |-> 0]

Item    == [token : Nat, exp : Int, ttl : Int]
LeaseValue == [token : Nat, exp : Int]
Request == [op : {"acquire", "refresh", "release"},
            token : Nat, now : Int, exp : Int, ttl : Int]
NoRequest == [op |-> "release", token |-> NoToken, now |-> 0, exp |-> 0, ttl |-> 0]
Call    == [phase : {"idle", "sent", "ok", "refused"}, req : Request,
            retries : Nat]
Idle    == [phase |-> "idle", req |-> NoRequest, retries |-> 0]

\* time.Time.Unix: whole seconds, rounded down.
Unix(t) == t \div TicksPerSecond

\* What a clock of the system can show now.
Clocks == clock .. (clock + MaxSkew)

\* The latest second any clock of the system can show now.
LatestNow == Unix(clock + MaxSkew)

\* The ttl attribute is written only with includeTTL and a positive buffer.
HasTTL == IncludeTTL /\ TTLBuffer > 0
TTLFor(exp) == exp + Unix(TTLBuffer)

Sent(r) == [phase |-> "sent", req |-> r, retries |-> 0]
Answered(c, answer) == [phase |-> answer, req |-> c.req, retries |-> c.retries]
Resent(c) == [phase |-> "sent", req |-> c.req, retries |-> c.retries + 1]

TypeOK ==
    /\ clock \in Nat
    /\ lockItem \in Item
    /\ lease \in [Process -> LeaseValue]
    /\ call \in [Process -> Call]
    /\ late \subseteq Request
    /\ nextToken \in Nat \ {0}

Init ==
    /\ clock = 0
    /\ lockItem = NoItem
    /\ lease = [p \in Process |-> NoLease]
    /\ call = [p \in Process |-> Idle]
    /\ late = {}
    /\ nextToken = 1

-----------------------------------------------------------------------------
(* The caller's half of each operation: read the clock, build the request. *)

\* Mutant of AcquireKey: acquireKey that takes the duration for a number of
\* seconds.
AcquireKeyUnits(p) ==
    /\ call[p].phase = "idle"
    /\ nextToken <= MaxTokens
    /\ \E d \in Durations, now \in Clocks :
          LET exp == Unix(now + d \div TicksPerSecond)
          IN  call' = [call EXCEPT ![p] =
                 Sent([op |-> "acquire", token |-> nextToken, now |-> Unix(now),
                       exp |-> exp, ttl |-> TTLFor(exp)])]
    /\ nextToken' = nextToken + 1
    /\ UNCHANGED <<clock, lockItem, lease, late>>

AcquireKey(p) ==
    /\ call[p].phase = "idle"
    /\ nextToken <= MaxTokens
    /\ \E d \in Durations, now \in Clocks :
          /\ ValidateInput => d > 0
          /\ call' = [call EXCEPT ![p] =
                Sent([op |-> "acquire", token |-> nextToken, now |-> Unix(now),
                      exp |-> Unix(now + d), ttl |-> TTLFor(Unix(now + d))])]
    /\ nextToken' = nextToken + 1
    /\ UNCHANGED <<clock, lockItem, lease, late>>

\* Mutant of Refresh: refresh that adds the duration to the old expiry instead
\* of to now.
RefreshAccumulates(p) ==
    /\ call[p].phase = "idle"
    /\ lease[p].token # NoToken
    /\ \E d \in Durations, now \in Clocks :
          /\ ValidateInput => d > 0
          /\ call' = [call EXCEPT ![p] =
                Sent([op |-> "refresh", token |-> lease[p].token, now |-> Unix(now),
                      exp |-> lease[p].exp + Unix(d), ttl |-> lease[p].exp + Unix(d)])]
    /\ UNCHANGED <<clock, lockItem, lease, late, nextToken>>

Refresh(p) ==
    /\ call[p].phase = "idle"
    /\ lease[p].token # NoToken
    /\ \E d \in Durations, now \in Clocks :
          /\ ValidateInput => d > 0
          /\ ExtendOnly => Unix(now + d) >= lease[p].exp
          /\ call' = [call EXCEPT ![p] =
                Sent([op |-> "refresh", token |-> lease[p].token, now |-> Unix(now),
                      exp |-> Unix(now + d), ttl |-> TTLFor(Unix(now + d))])]
    /\ UNCHANGED <<clock, lockItem, lease, late, nextToken>>

\* The caller stops relying on the lease when it calls Release.
Release(p) ==
    /\ call[p].phase = "idle"
    /\ lease[p].token # NoToken
    /\ call' = [call EXCEPT ![p] =
          Sent([op |-> "release", token |-> lease[p].token, now |-> 0,
                exp |-> 0, ttl |-> 0])]
    /\ lease' = [lease EXCEPT ![p] = NoLease]
    /\ UNCHANGED <<clock, lockItem, late, nextToken>>

-----------------------------------------------------------------------------
(* The table: a conditional write is atomic.                               *)

\* Mutant of AcquireCondition: acquireKey that also takes a row that expires
\* within the next second.
AcquireConditionEager(r) == lockItem.token = NoToken \/ lockItem.exp <= r.now + 1

\* "attribute_not_exists(#pk) OR #lease_expires_at <= :now"
AcquireCondition(r) == lockItem.token = NoToken \/ lockItem.exp <= r.now

\* "#lease_token = :token AND #lease_expires_at > :now"
RefreshCondition(r) == lockItem.token = r.token /\ lockItem.exp > r.now

\* Mutant of ReleaseCondition: release without its condition: an unconditional
\* DeleteItem.
ReleaseUnconditional(r) == lockItem.token # NoToken

\* "#lease_token = :token"
ReleaseCondition(r) == lockItem.token = r.token

Condition(r) == \/ r.op = "acquire" /\ AcquireCondition(r)
                \/ r.op = "refresh" /\ RefreshCondition(r)
                \/ r.op = "release" /\ ReleaseCondition(r)

\* "SET #lease_expires_at = :exp, #ttl = :ttl"; without a ttl attribute the
\* second assignment is left out.
RefreshedItem(r) == [token |-> lockItem.token, exp |-> r.exp,
                     ttl |-> IF HasTTL THEN r.ttl ELSE lockItem.ttl]

\* The row after r's write.
Written(r) ==
    IF r.op = "acquire" THEN [token |-> r.token, exp |-> r.exp, ttl |-> r.ttl]
    ELSE IF r.op = "refresh" THEN RefreshedItem(r)
    ELSE NoItem

Serve(p) ==
    /\ call[p].phase = "sent"
    /\ lockItem' = IF Condition(call[p].req) THEN Written(call[p].req) ELSE lockItem
    /\ call' = [call EXCEPT ![p] =
                   Answered(call[p], IF Condition(call[p].req) THEN "ok" ELSE "refused")]
    /\ UNCHANGED <<clock, lease, late, nextToken>>

\* A request whose caller is gone arrives.
ServeLate(r) ==
    /\ lockItem' = IF Condition(r) THEN Written(r) ELSE lockItem
    /\ late' = late \ {r}
    /\ UNCHANGED <<clock, lease, call, nextToken>>

\* DynamoDB removes a row some time after its ttl attribute has passed.
ExpireTTL ==
    /\ HasTTL
    /\ lockItem.token # NoToken
    /\ \E now \in Clocks : lockItem.ttl <= Unix(now)
    /\ lockItem' = NoItem
    /\ UNCHANGED <<clock, lease, call, late, nextToken>>

-----------------------------------------------------------------------------
(* The end of a call.                                                      *)

\* PutItem succeeded: the caller gets the Lease.  LeaseHeldError: it does not.
ReturnAcquire(p) ==
    /\ call[p].req.op = "acquire"
    /\ call[p].phase \in {"ok", "refused"}
    /\ lease' = IF call[p].phase = "ok"
                THEN [lease EXCEPT ![p] = [token |-> call[p].req.token,
                                           exp |-> call[p].req.exp]]
                ELSE lease
    /\ call' = [call EXCEPT ![p] = Idle]
    /\ UNCHANGED <<clock, lockItem, late, nextToken>>

\* UpdateItem succeeded: a copy of the Lease with the new ExpiresAt.
\* LeaseNotOwnedError: the caller is left with the value it had.
ReturnRefresh(p) ==
    /\ call[p].req.op = "refresh"
    /\ call[p].phase \in {"ok", "refused"}
    /\ lease' = IF call[p].phase = "ok"
                THEN [lease EXCEPT ![p] = [token |-> lease[p].token,
                                           exp |-> call[p].req.exp]]
                ELSE lease
    /\ call' = [call EXCEPT ![p] = Idle]
    /\ UNCHANGED <<clock, lockItem, late, nextToken>>

\* Release returns nil whether or not the condition held.
ReturnRelease(p) ==
    /\ call[p].req.op = "release"
    /\ call[p].phase \in {"ok", "refused"}
    /\ call' = [call EXCEPT ![p] = Idle]
    /\ UNCHANGED <<clock, lockItem, lease, late, nextToken>>

\* A request p still has under way stays in the network or is lost with it.
LeaveBehind(p) ==
    \/ late' = late
    \/ /\ call[p].phase = "sent"
       /\ call[p].req.op = "refresh" => LateRefresh
       /\ Cardinality(late) < MaxLate
       /\ late' = late \union {call[p].req}

\* The SDK gives an attempt up and sends the same request again.
Resend(p) ==
    /\ call[p].phase # "idle"
    /\ call[p].retries < MaxRetries
    /\ LeaveBehind(p)
    /\ call' = [call EXCEPT ![p] = Resent(call[p])]
    /\ UNCHANGED <<clock, lockItem, lease, nextToken>>

\* "acquire failed", "refresh failed", "release failed": any other error.  The
\* write may or may not have happened.
Fail(p) ==
    /\ call[p].phase # "idle"
    /\ LeaveBehind(p)
    /\ call' = [call EXCEPT ![p] = Idle]
    /\ UNCHANGED <<clock, lockItem, lease, nextToken>>

\* The process dies and comes back without its memory.
Crash(p) ==
    /\ call[p].phase # "idle" \/ lease[p] # NoLease
    /\ LeaveBehind(p)
    /\ call' = [call EXCEPT ![p] = Idle]
    /\ lease' = [lease EXCEPT ![p] = NoLease]
    /\ UNCHANGED <<clock, lockItem, nextToken>>

Tick ==
    /\ clock < MaxClock
    /\ clock' = clock + 1
    /\ UNCHANGED <<lockItem, lease, call, late, nextToken>>

Next ==
    \/ \E p \in Process :
          \/ AcquireKey(p) \/ Refresh(p) \/ Release(p)
          \/ Serve(p)
          \/ ReturnAcquire(p) \/ ReturnRefresh(p) \/ ReturnRelease(p)
          \/ Resend(p) \/ Fail(p) \/ Crash(p)
    \/ \E r \in late : ServeLate(r)
    \/ ExpireTTL
    \/ Tick

Spec == Init /\ [][Next]_vars

-----------------------------------------------------------------------------
(* Properties.                                                             *)

\* p may rely on its lease: no clock of the system has reached its ExpiresAt.
Holds(p) == lease[p].token # NoToken /\ lease[p].exp > LatestNow

Holders == {p \in Process : Holds(p)}

\* Mutual exclusion: two processes never both rely on the lease, although the
\* conditions of AcquireKey and Refresh compare the row with the caller's own
\* clock, and although answers are lost and requests are repeated.
Exclusion == \A p, q \in Holders : p = q

\* A process that may rely on its lease owns the row, and the row does not
\* expire before the ExpiresAt that AcquireKey or Refresh handed out: neither
\* another acquire, a stale release nor TTL deletion takes it away.
HolderOwnsRow ==
    \A p \in Holders : lockItem.token = lease[p].token /\ lockItem.exp >= lease[p].exp

\* No row outlives the longest duration any caller asked for: the lease of a
\* crashed holder, and one acquired by a request nobody waits for, can be taken
\* over in bounded time.
BoundedHold ==
    lockItem.token # NoToken =>
        \E d \in Durations : lockItem.exp <= Unix(clock + MaxSkew + d)

\* An unexpired row changes owner only by a Release with its own token, however
\* late, repeated or stale the requests are that arrive.
InFlight == late \union {call[p].req : p \in {q \in Process : call[q].phase = "sent"}}
NoStealing ==
    [][(/\ lockItem.token # NoToken
        /\ lockItem.exp > LatestNow
        /\ lockItem'.token # lockItem.token)
       => /\ lockItem'.token = NoToken
          /\ \E r \in InFlight : r.op = "release" /\ r.token = lockItem.token]_vars

\* The documented lock rule, "held iff lease_expires_at > now": a lease that
\* AcquireKey or Refresh was granted is held at the time the caller asked.
GrantedLeaseIsHeld ==
    \A p \in Process :
        call[p].phase = "ok" /\ call[p].req.op \in {"acquire", "refresh"}
            => call[p].req.exp > call[p].req.now

-----------------------------------------------------------------------------
(* Why Exclusion holds: the inductive invariant of module LeaseProofs.     *)

\* Tokens in use were handed out by the generator.
TokensIssued ==
    /\ lockItem.token < nextToken
    /\ \A p \in Process : lease[p].token < nextToken /\ call[p].req.token < nextToken
    /\ \A r \in late : r.token < nextToken /\ r.token # NoToken

\* Two processes never use the same token.
TokensPrivate ==
    \A p, q \in Process : p # q =>
        /\ lease[p].token # NoToken =>
              lease[p].token # lease[q].token /\ lease[p].token # call[q].req.token
        /\ call[p].req.token # NoToken => call[p].req.token # call[q].req.token

\* A request carries the time at which it was built, never a later one, and
\* a ttl that is not before its expiry.
WellTimed(r) == r.now <= LatestNow /\ (HasTTL => r.ttl >= r.exp)
RequestsWellTimed ==
    /\ \A p \in Process : WellTimed(call[p].req)
    /\ \A r \in late : WellTimed(r)
    /\ HasTTL => lockItem.ttl >= lockItem.exp

\* The token of a call: new for an acquire, the caller's for a refresh, given
\* up for a release.
CallTokens ==
    \A p \in Process :
        /\ call[p].phase = "idle" => call[p].req = NoRequest
        /\ call[p].phase # "idle" => call[p].req.token # NoToken
        /\ call[p].req.op = "acquire" =>
              call[p].req.token # NoToken /\ call[p].req.token # lease[p].token
        /\ call[p].req.op = "refresh" =>
              /\ call[p].req.token # NoToken
              /\ call[p].req.token = lease[p].token
              /\ call[p].req.exp >= lease[p].exp
        /\ call[p].req.op = "release" =>
              call[p].req.token = NoToken \/ call[p].req.token # lease[p].token

\* A request left behind is no refresh, and a release left behind carries a
\* token nobody relies on or is about to.
LateHarmless ==
    \A r \in late :
        /\ r.op # "refresh"
        /\ r.op = "release" => \A p \in Process :
              /\ lease[p].token # r.token
              /\ call[p].req.op = "acquire" => call[p].req.token # r.token

\* A granted request the caller has not seen yet is still good.
GrantsStand ==
    \A p \in Process :
        (/\ call[p].phase = "ok"
         /\ call[p].req.op \in {"acquire", "refresh"}
         /\ call[p].req.exp > LatestNow)
        => lockItem.token = call[p].req.token /\ lockItem.exp >= call[p].req.exp

IInv ==
    /\ TypeOK /\ TokensIssued /\ TokensPrivate /\ RequestsWellTimed
    /\ CallTokens /\ LateHarmless /\ GrantsStand /\ HolderOwnsRow

-----------------------------------------------------------------------------
\* The lease manager implements the abstract lock.
Mutex == INSTANCE LeaseMutex WITH holders <- Holders
ImplementsMutex == Mutex!Spec
=============================================================================
