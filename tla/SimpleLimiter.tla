---------------------------- MODULE SimpleLimiter ----------------------------
(***************************************************************************)
(* The token bucket of pkg/protection/simple_rate_limiter.go.  Allow runs  *)
(* under the limiter's mutex, so each call is one step.                    *)
(***************************************************************************)
EXTENDS Integers

CONSTANTS
    MaxTokens,   \* burst
    RefillRate,  \* time.Second / rps: ticks per token
    MaxClock     \* bound: time stops here

\* A RefillRate of 0 (more than 10^9 requests per second) makes Allow divide
\* by zero, and a burst of 0 refuses everything.
ASSUME LimiterAssumption ==
    /\ MaxTokens \in Nat \ {0}
    /\ RefillRate \in Nat \ {0}
    /\ MaxClock \in Nat

VARIABLES
    clock,
    tokens,
    lastRefill,
    allowed,      \* number of calls allowed so far
    allowedAt,    \* allowedAt[t]: number of calls allowed before time t
    lastAllowed,  \* time of the last call allowed; -1 before the first
    lastRefused   \* time of the last call refused; -1 before the first

vars == <<clock, tokens, lastRefill, allowed, allowedAt, lastAllowed, lastRefused>>

TypeOK ==
    /\ clock \in 0 .. MaxClock
    /\ tokens \in 0 .. MaxTokens
    /\ lastRefill \in 0 .. clock
    /\ allowed \in Nat
    /\ allowedAt \in [0 .. MaxClock -> Nat]
    /\ lastAllowed \in -1 .. clock
    /\ lastRefused \in -1 .. clock

\* NewSimpleLimiter
Init ==
    /\ clock = 0
    /\ tokens = MaxTokens
    /\ lastRefill = 0
    /\ allowed = 0
    /\ allowedAt = [t \in 0 .. MaxClock |-> 0]
    /\ lastAllowed = -1
    /\ lastRefused = -1

TokensToAdd == (clock - lastRefill) \div RefillRate

\* Mutant of Refilled: no cap at maxTokens.
RefilledUncapped == tokens + TokensToAdd

\* The tokens after the refill, at most maxTokens.
Refilled ==
    IF tokens + TokensToAdd > MaxTokens THEN MaxTokens ELSE tokens + TokensToAdd

\* Mutant of RefillTime: lastRefill moves with every call.
RefillTimeAlways == clock

\* lastRefill moves only when a token was added.
RefillTime == IF TokensToAdd > 0 THEN clock ELSE lastRefill

Allow ==
    /\ lastRefill' = RefillTime
    /\ IF Refilled > 0
       THEN /\ tokens' = Refilled - 1
            /\ allowed' = allowed + 1
            /\ lastAllowed' = clock
            /\ UNCHANGED lastRefused
       ELSE /\ tokens' = Refilled
            /\ lastRefused' = clock
            /\ UNCHANGED <<allowed, lastAllowed>>
    /\ UNCHANGED <<clock, allowedAt>>

Tick ==
    /\ clock < MaxClock
    /\ clock' = clock + 1
    /\ allowedAt' = [allowedAt EXCEPT ![clock + 1] = allowed]
    /\ UNCHANGED <<tokens, lastRefill, allowed, lastAllowed, lastRefused>>

Next == Allow \/ Tick

Spec == Init /\ [][Next]_vars

-----------------------------------------------------------------------------
(* Properties.                                                             *)

\* In every window of time that ends now, the limiter allows at most the burst
\* plus one call per RefillRate, plus one for the part of an interval that had
\* passed when the window began.
WindowBound ==
    \A a \in 0 .. clock :
        allowed - allowedAt[a] <= MaxTokens + (clock - a) \div RefillRate + 1

\* Refusals do not push the next token away: a call is refused only when
\* another was allowed less than RefillRate ago.
NotStarved ==
    [][lastRefused' # lastRefused =>
          lastAllowed # -1 /\ clock - lastAllowed < RefillRate]_vars

-----------------------------------------------------------------------------
(* Why they hold: the inductive invariant of module ProcessProofs.         *)

\* The calls allowed since a and the tokens left, against the refills since a.
Since(a) == allowed - allowedAt[a]
WindowBudget ==
    \A a \in 0 .. clock :
        /\ Since(a) >= 0
        /\ lastRefill >= a =>
              Since(a) + tokens <= MaxTokens + (lastRefill - a) \div RefillRate + 1
        /\ lastRefill < a =>
              /\ Since(a) + tokens <= MaxTokens
              /\ Since(a) > 0 => a - lastRefill < RefillRate

\* An empty bucket was emptied after the last refill.
EmptiedSinceRefill == tokens = 0 => lastAllowed >= lastRefill

LInv == TypeOK /\ WindowBudget /\ EmptiedSinceRefill
=============================================================================
