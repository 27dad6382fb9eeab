----------------------------- MODULE RateLimiter -----------------------------
(***************************************************************************)
(* crates/ussl-transport/src/rate_limit.rs: the token bucket every         *)
(* connection has when usld runs with --rate-limit.  process() asks it     *)
(* once per command other than PING and QUIT, on the connection's task, so *)
(* an operation is one step.                                               *)
(*                                                                         *)
(* Time is an Instant, finer than the milliseconds the limiter counts in:  *)
(* UnitsPerMs units make a millisecond.  Tokens are scaled by 1000, as in  *)
(* the code; the scaled tokens per millisecond then equal the requests per *)
(* second.                                                                 *)
(***************************************************************************)
EXTENDS Integers

CONSTANTS
    RequestsPerSecond,
    BurstSize,
    UnitsPerMs,
    MaxNow             \* bound on the clock

ASSUME ConfigAssumption ==
    /\ RequestsPerSecond \in Nat \ {0}
    /\ BurstSize \in Nat
    /\ UnitsPerMs \in Nat \ {0}
    /\ MaxNow \in Nat

VARIABLES
    now,       \* Instant::now()
    tokens,    \* tokens, scaled by 1000
    last,      \* last_refill
    since,     \* history: the beginning of a window somebody looks at
    granted,   \* history: the requests allowed in that window
    earned,    \* history: the tokens refills computed since the last reset
    origin     \* history: the time of that reset

vars == <<now, tokens, last, since, granted, earned, origin>>
-----------------------------------------------------------------------------
Cost == 1000
MaxTokens == BurstSize * 1000
TokensPerMs == (RequestsPerSecond * 1000) \div 1000

AtMost(n, bound) == IF n <= bound THEN n ELSE bound

\* Duration::as_millis of the time since the last refill.
ElapsedMs == (now - last) \div UnitsPerMs

NewTokens == TokensPerMs * ElapsedMs

\* Mutants: the clock of the bucket never moves; it moves always.
LastRefillKept == last
LastRefillAlways == now

\* refill: the clock of the bucket moves only when tokens were earned, and
\* then to `now`, whatever part of a millisecond is left over.
Refilled == IF NewTokens > 0 THEN AtMost(tokens + NewTokens, MaxTokens) ELSE tokens
LastRefill == IF NewTokens > 0 THEN now ELSE last
-----------------------------------------------------------------------------
Init ==
    /\ now = 0
    /\ tokens = MaxTokens
    /\ last = 0
    /\ since = 0 /\ granted = 0
    /\ earned = 0 /\ origin = 0

\* try_acquire, granted or refused.
TryAcquire ==
    /\ \/ /\ Refilled >= Cost
          /\ tokens' = Refilled - Cost
          /\ granted' = granted + 1
       \/ /\ Refilled < Cost
          /\ tokens' = Refilled
          /\ granted' = granted
    /\ last' = LastRefill
    /\ earned' = earned + NewTokens
    /\ UNCHANGED <<now, since, origin>>

\* would_limit and available_tokens refill, and take nothing.
Probe ==
    /\ tokens' = Refilled
    /\ last' = LastRefill
    /\ earned' = earned + NewTokens
    /\ UNCHANGED <<now, since, granted, origin>>

\* reset: a full bucket, and for the history a new beginning.
Reset ==
    /\ tokens' = MaxTokens
    /\ last' = now /\ origin' = now /\ earned' = 0
    /\ since' = now /\ granted' = 0
    /\ UNCHANGED now

Elapse ==
    /\ now < MaxNow
    /\ now' = now + 1
    /\ UNCHANGED <<tokens, last, since, granted, earned, origin>>

\* Not in the code: somebody begins to count the requests allowed.
Observe ==
    /\ since' = now /\ granted' = 0
    /\ UNCHANGED <<now, tokens, last, earned, origin>>

Next == TryAcquire \/ Probe \/ Reset \/ Elapse \/ Observe

Spec == Init /\ [][Next]_vars
-----------------------------------------------------------------------------
TypeOK ==
    /\ now \in Nat /\ last \in Nat /\ since \in Nat /\ origin \in Nat
    /\ tokens \in Nat /\ granted \in Nat /\ earned \in Nat
    /\ last <= now /\ since <= now /\ origin <= last
    /\ tokens <= MaxTokens

\* The part of a millisecond a refill leaves on the clock of the bucket.
Remainder == UnitsPerMs - 1

\* "Allows bursting up to `burst_size` requests, then limits to
\* `requests_per_second`": in every window, however its requests are timed,
\* at most a burst and what the configured rate allows for its length and
\* part of a millisecond more.  (Both sides are scaled by the 1000 of the
\* tokens and the units of the clock.)
RateLimited ==
    UnitsPerMs * (Cost * granted)
        <= UnitsPerMs * MaxTokens + TokensPerMs * (now - since + Remainder)

\* The strengthening: what the bucket holds and is still to earn counts too.
Budget ==
    UnitsPerMs * (Cost * granted)
      + AtMost(UnitsPerMs * tokens + TokensPerMs * (now - last),
               UnitsPerMs * MaxTokens + TokensPerMs * Remainder)
        <= UnitsPerMs * MaxTokens + TokensPerMs * (now - since + Remainder)

IInv == TypeOK /\ Budget

\* Refilling often does not starve a client: whatever the rhythm of its
\* requests, up to the last refill the bucket earned at least half of what
\* the rate promises.
AtLeastHalfRate ==
    TokensPerMs * (last - origin) <= 2 * UnitsPerMs * earned
=============================================================================
