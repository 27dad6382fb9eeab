-------------------------- MODULE RateLimiterProofs --------------------------
(***************************************************************************)
(* RateLimiter, proved for every rate, burst and resolution of the clock.  *)
(* The arithmetic is a few products of two unknowns; the first lemmas say  *)
(* of them what is needed, and the rest treats the products as numbers.    *)
(***************************************************************************)
EXTENDS RateLimiter, TLAPS

LEMMA Scaling ==
    ASSUME NEW a \in Int, NEW b \in Int, NEW c \in Nat, a <= b
    PROVE  c * a <= c * b
  OBVIOUS

LEMMA Distribution ==
    ASSUME NEW a \in Int, NEW b \in Int, NEW c \in Int
    PROVE  /\ c * (a + b) = c * a + c * b
           /\ c * (a - b) = c * a - c * b
  OBVIOUS

LEMMA Exchange ==
    ASSUME NEW a \in Int, NEW b \in Int, NEW c \in Int
    PROVE  c * (a * b) = a * (c * b)
  OBVIOUS

LEMMA Products ==
    ASSUME NEW a \in Nat, NEW b \in Nat
    PROVE  /\ a * b \in Nat
           /\ a * b = 0 <=> a = 0 \/ b = 0
  OBVIOUS

LEMMA Quotient ==
    ASSUME NEW n \in Nat, NEW u \in Nat \ {0}
    PROVE  /\ n \div u \in Nat
           /\ u * (n \div u) <= n
           /\ n < u * (n \div u) + u
  OBVIOUS

LEMMA Constants ==
    /\ UnitsPerMs \in Nat \ {0} /\ Remainder \in Nat
    /\ TokensPerMs \in Nat /\ MaxTokens \in Nat
  BY ConfigAssumption DEF Remainder, TokensPerMs, MaxTokens
-----------------------------------------------------------------------------
(***************************************************************************)
(* What a refill does to the two sides of Budget.  Everything is in the    *)
(* units of UnitsPerMs * token.                                            *)
(***************************************************************************)
Potential == UnitsPerMs * tokens + TokensPerMs * (now - last)
Ceiling == UnitsPerMs * MaxTokens + TokensPerMs * Remainder

LEMMA NewTokensTyped ==
    ASSUME TypeOK
    PROVE  /\ now - last \in Nat
           /\ NewTokens \in Nat
           /\ UnitsPerMs * NewTokens <= TokensPerMs * (now - last)
           /\ TokensPerMs * (now - last) \in Nat
           /\ NewTokens = 0 =>
                TokensPerMs * (now - last) <= TokensPerMs * Remainder
           /\ NewTokens > 0 =>
                TokensPerMs * (now - last) <= 2 * UnitsPerMs * NewTokens
<1> DEFINE e == now - last
           q == e \div UnitsPerMs
<1>0. e \in Nat
  BY DEF TypeOK
<1>1. q \in Nat /\ UnitsPerMs * q <= e /\ e < UnitsPerMs * q + UnitsPerMs
  BY <1>0, Constants, Quotient
<1>2. NewTokens = TokensPerMs * q
  BY DEF NewTokens, ElapsedMs
<1>3. NewTokens \in Nat /\ TokensPerMs * e \in Nat
  BY <1>0, <1>1, <1>2, Constants, Products
<1>4. UnitsPerMs * NewTokens = TokensPerMs * (UnitsPerMs * q)
  BY <1>1, <1>2, Constants, Exchange
<1>5. UnitsPerMs * q \in Nat
  BY <1>1, Constants, Products
<1>6. UnitsPerMs * NewTokens <= TokensPerMs * e
  <2> HIDE DEF q, e
  <2> QED BY <1>0, <1>1, <1>4, <1>5, Constants, Scaling
<1>7. ASSUME NewTokens = 0
      PROVE  TokensPerMs * e <= TokensPerMs * Remainder
  <2>1. CASE TokensPerMs = 0
    BY <2>1, <1>0, Constants
  <2>2. CASE q = 0
    <3>1. e <= Remainder
      BY <2>2, <1>0, <1>1, Constants DEF Remainder
    <3> HIDE DEF q, e
    <3> QED BY <3>1, <1>0, Constants, Scaling
  <2> QED BY <2>1, <2>2, <1>1, <1>2, <1>7, Constants, Products
<1>8. ASSUME NewTokens > 0
      PROVE  TokensPerMs * e <= 2 * UnitsPerMs * NewTokens
  <2>1. q >= 1
    BY <1>1, <1>2, <1>8, Constants, Products
  <2>2. UnitsPerMs * 1 <= UnitsPerMs * q
    <3> HIDE DEF q, e
    <3> QED BY <2>1, <1>1, Constants, Scaling
  <2>3. e <= 2 * (UnitsPerMs * q)
    <3> HIDE DEF q, e
    <3> QED BY <2>2, <1>0, <1>1, <1>5, Constants
  <2>4. TokensPerMs * e <= TokensPerMs * (2 * (UnitsPerMs * q))
    <3> HIDE DEF q, e
    <3> QED BY <2>3, <1>0, <1>5, Constants, Scaling
  <2>5. TokensPerMs * (2 * (UnitsPerMs * q)) = 2 * (TokensPerMs * (UnitsPerMs * q))
    <3> HIDE DEF q, e
    <3> QED BY <1>5, Constants, Exchange
  <2>6. 2 * UnitsPerMs * NewTokens = 2 * (UnitsPerMs * NewTokens)
    BY <1>3, Constants
  <2> QED BY <2>4, <2>5, <2>6, <1>4
<1> QED BY <1>0, <1>3, <1>6, <1>7, <1>8

LEMMA Refill ==
    ASSUME TypeOK
    PROVE  /\ Refilled \in Nat /\ Refilled <= MaxTokens
           /\ LastRefill \in {last, now}
           /\ UnitsPerMs * Refilled + TokensPerMs * (now - LastRefill)
                <= AtMost(Potential, Ceiling)
<1>0. /\ tokens \in Nat /\ tokens <= MaxTokens /\ now \in Nat /\ last \in Nat
      /\ last <= now
  BY DEF TypeOK
<1>1. NewTokens \in Nat
  BY NewTokensTyped
<1>2. Refilled \in Nat /\ Refilled <= MaxTokens /\ LastRefill \in {last, now}
  BY <1>0, <1>1, Constants DEF Refilled, LastRefill, AtMost
<1>3. /\ UnitsPerMs * tokens \in Nat /\ UnitsPerMs * MaxTokens \in Nat
      /\ UnitsPerMs * Refilled \in Nat /\ UnitsPerMs * NewTokens \in Nat
      /\ TokensPerMs * Remainder \in Nat /\ TokensPerMs * (now - last) \in Nat
  BY <1>0, <1>1, <1>2, Constants, Products, NewTokensTyped
<1>4. CASE NewTokens > 0
  <2>1. LastRefill = now /\ Refilled <= tokens + NewTokens
    BY <1>0, <1>1, <1>4, Constants DEF LastRefill, Refilled, AtMost
  <2>2. UnitsPerMs * Refilled <= UnitsPerMs * MaxTokens
    BY <1>2, Constants, Scaling
  <2>3. UnitsPerMs * Refilled <= UnitsPerMs * tokens + UnitsPerMs * NewTokens
    BY <2>1, <1>0, <1>1, <1>2, Constants, Scaling, Distribution
  <2>4. UnitsPerMs * NewTokens <= TokensPerMs * (now - last)
    BY NewTokensTyped
  <2>5. TokensPerMs * (now - LastRefill) = 0
    BY <2>1, <1>0, Constants
  <2> QED BY <1>2, <1>3, <2>2, <2>3, <2>4, <2>5 DEF AtMost, Potential, Ceiling
<1>5. CASE NewTokens = 0
  <2>1. LastRefill = last /\ Refilled = tokens
    BY <1>5 DEF LastRefill, Refilled
  <2>2. UnitsPerMs * tokens <= UnitsPerMs * MaxTokens
    BY <1>0, Constants, Scaling
  <2>3. TokensPerMs * (now - last) <= TokensPerMs * Remainder
    BY <1>5, NewTokensTyped
  <2> QED BY <1>2, <1>3, <2>1, <2>2, <2>3 DEF AtMost, Potential, Ceiling
<1> QED BY <1>1, <1>4, <1>5

(***************************************************************************)
(* The three facts about IInv.                                             *)
(***************************************************************************)
LEMMA InitIInv == Init => IInv
<1> SUFFICES ASSUME Init PROVE IInv
  OBVIOUS
<1>1. TypeOK
  BY Constants DEF Init, TypeOK
<1>2. UnitsPerMs * MaxTokens \in Nat /\ TokensPerMs * Remainder \in Nat
  BY Constants, Products
<1>3. /\ UnitsPerMs * (Cost * granted) = 0
      /\ now - since + Remainder = Remainder
      /\ Potential = UnitsPerMs * MaxTokens
  BY Constants DEF Init, Potential, Cost
<1>4. Budget
  BY <1>2, <1>3 DEF Budget, Potential, AtMost
<1> QED BY <1>1, <1>4 DEF IInv

\* In these units, what was granted and what the window allows.
Spent == UnitsPerMs * (Cost * granted)
Allowance == UnitsPerMs * MaxTokens + TokensPerMs * (now - since + Remainder)

LEMMA Numbers ==
    ASSUME TypeOK
    PROVE  /\ Spent \in Nat /\ Allowance \in Nat
           /\ Potential \in Nat /\ Ceiling \in Nat
           /\ Ceiling <= Allowance
<1>1. Cost * granted \in Nat /\ now - since + Remainder \in Nat /\ now - last \in Nat
  BY Constants DEF TypeOK, Cost
<1>2. /\ Spent \in Nat
      /\ UnitsPerMs * MaxTokens \in Nat /\ UnitsPerMs * tokens \in Nat
      /\ TokensPerMs * (now - since + Remainder) \in Nat
      /\ TokensPerMs * (now - last) \in Nat /\ TokensPerMs * Remainder \in Nat
  BY <1>1, Constants, Products DEF TypeOK, Spent
<1>3. TokensPerMs * Remainder <= TokensPerMs * (now - since + Remainder)
  <2>1. Remainder <= now - since + Remainder
    BY Constants DEF TypeOK
  <2> QED BY <2>1, <1>1, Constants, Scaling
<1> QED BY <1>2, <1>3 DEF Allowance, Potential, Ceiling

LEMMA BudgetSum == Budget <=> Spent + AtMost(Potential, Ceiling) <= Allowance
  BY DEF Budget, Spent, Potential, Ceiling, Allowance

LEMMA TypePreserved == TypeOK /\ [Next]_vars => TypeOK'
<1> SUFFICES ASSUME TypeOK, [Next]_vars PROVE TypeOK'
  OBVIOUS
<1> USE DEF TypeOK
<1>1. /\ Refilled \in Nat /\ Refilled <= MaxTokens /\ LastRefill \in {last, now}
      /\ NewTokens \in Nat
  BY Refill, NewTokensTyped
<1>2. CASE TryAcquire
  BY <1>1, <1>2, Constants DEF TryAcquire, Cost, MaxTokens
<1>3. CASE Probe
  BY <1>1, <1>3, Constants DEF Probe, MaxTokens
<1>4. CASE Reset
  BY <1>4, Constants DEF Reset, MaxTokens
<1>5. CASE Elapse
  BY <1>5 DEF Elapse, MaxTokens
<1>6. CASE Observe
  BY <1>6 DEF Observe, MaxTokens
<1>7. CASE UNCHANGED vars
  BY <1>7 DEF vars, MaxTokens
<1> QED BY <1>2, <1>3, <1>4, <1>5, <1>6, <1>7 DEF Next

LEMMA BudgetPreserved == TypeOK /\ Budget /\ [Next]_vars => Budget'
<1> SUFFICES ASSUME TypeOK, Budget, [Next]_vars PROVE Budget'
  OBVIOUS
<1> USE DEF TypeOK
<1>1. Spent + AtMost(Potential, Ceiling) <= Allowance
  BY BudgetSum
<1>2. SUFFICES Spent' + AtMost(Potential', Ceiling) <= Allowance'
  BY DEF Budget, Spent, Potential, Ceiling, Allowance, Remainder, MaxTokens, TokensPerMs
<1>3. /\ Spent \in Nat /\ Allowance \in Nat /\ Potential \in Nat /\ Ceiling \in Nat
      /\ Ceiling <= Allowance
  BY Numbers
<1>4. /\ Refilled \in Nat /\ Refilled <= MaxTokens /\ LastRefill \in {last, now}
      /\ UnitsPerMs * Refilled + TokensPerMs * (now - LastRefill)
           <= AtMost(Potential, Ceiling)
  BY Refill
<1>5. UnitsPerMs * Refilled \in Nat /\ TokensPerMs * (now - LastRefill) \in Nat
  BY <1>4, Constants, Products
<1>6. CASE TryAcquire
  <2>1. now' = now /\ since' = since /\ last' = LastRefill
    BY <1>6 DEF TryAcquire
  <2>2. Allowance' = Allowance
    BY <2>1 DEF Allowance, Remainder, MaxTokens, TokensPerMs
  <2>3. CASE Refilled >= Cost /\ tokens' = Refilled - Cost /\ granted' = granted + 1
    <3>1. UnitsPerMs * (Cost * (granted + 1)) = Spent + UnitsPerMs * Cost
      <4>1. Cost * (granted + 1) = Cost * granted + Cost
        BY DEF Cost
      <4>2. Cost * granted \in Int /\ Cost \in Int
        BY DEF Cost
      <4> QED BY <4>1, <4>2, Constants, Distribution DEF Spent
    <3>2. Spent' = Spent + UnitsPerMs * Cost
      BY <2>3, <3>1 DEF Spent
    <3>3. UnitsPerMs * (Refilled - Cost) = UnitsPerMs * Refilled - UnitsPerMs * Cost
      BY <1>4, Constants, Distribution DEF Cost
    <3>4. Potential' = UnitsPerMs * Refilled - UnitsPerMs * Cost
                         + TokensPerMs * (now - LastRefill)
      BY <2>1, <2>3, <3>3 DEF Potential, TokensPerMs
    <3>5. UnitsPerMs * Cost \in Nat
      BY Constants DEF Cost
    <3> QED BY <1>1, <1>3, <1>4, <1>5, <2>2, <3>2, <3>4, <3>5 DEF AtMost
  <2>4. CASE tokens' = Refilled /\ granted' = granted
    <3>1. Spent' = Spent
      BY <2>4 DEF Spent
    <3>2. Potential' = UnitsPerMs * Refilled + TokensPerMs * (now - LastRefill)
      BY <2>1, <2>4 DEF Potential, TokensPerMs
    <3> QED BY <1>1, <1>3, <1>4, <1>5, <2>2, <3>1, <3>2 DEF AtMost
  <2> QED BY <1>6, <2>3, <2>4 DEF TryAcquire
<1>7. CASE Probe
  <2>1. /\ now' = now /\ since' = since /\ last' = LastRefill
        /\ tokens' = Refilled /\ granted' = granted
    BY <1>7 DEF Probe
  <2>2. Allowance' = Allowance /\ Spent' = Spent
    BY <2>1 DEF Allowance, Remainder, MaxTokens, TokensPerMs, Spent
  <2>3. Potential' = UnitsPerMs * Refilled + TokensPerMs * (now - LastRefill)
    BY <2>1 DEF Potential, TokensPerMs
  <2> QED BY <1>1, <1>3, <1>4, <1>5, <2>2, <2>3 DEF AtMost
<1>8. CASE Reset \/ Observe
  <2>1. now' = now /\ since' = now /\ granted' = 0
    BY <1>8 DEF Reset, Observe
  <2>2. Spent' = 0
    BY <2>1, Constants DEF Spent, Cost
  <2>3. now' - since' + Remainder = Remainder
    BY <2>1, Constants
  <2>4. Allowance' = Ceiling
    BY <2>3 DEF Allowance, Ceiling, Remainder, MaxTokens, TokensPerMs
  <2>5. Potential' \in Nat
    <3>1. tokens' \in Nat /\ now' - last' \in Nat
      BY <1>8, Constants DEF Reset, Observe
    <3>2. UnitsPerMs * tokens' \in Nat /\ TokensPerMs * (now' - last') \in Nat
      BY <3>1, Constants, Products
    <3> QED BY <3>2 DEF Potential, TokensPerMs
  <2>6. AtMost(Potential', Ceiling) \in Nat /\ AtMost(Potential', Ceiling) <= Ceiling
    BY <1>3, <2>5 DEF AtMost
  <2> QED BY <1>3, <2>2, <2>4, <2>6
<1>9. CASE Elapse
  <2>1. /\ now' = now + 1 /\ last' = last /\ since' = since
        /\ tokens' = tokens /\ granted' = granted
    BY <1>9 DEF Elapse
  <2>2. Spent' = Spent
    BY <2>1 DEF Spent
  <2>3. /\ now' - last' = (now - last) + 1
        /\ now' - since' + Remainder = (now - since + Remainder) + 1
    BY <2>1, Constants
  <2>4. /\ TokensPerMs * ((now - last) + 1)
             = TokensPerMs * (now - last) + TokensPerMs
        /\ TokensPerMs * ((now - since + Remainder) + 1)
             = TokensPerMs * (now - since + Remainder) + TokensPerMs
    BY Constants, Distribution
  <2>5. /\ UnitsPerMs * tokens \in Nat /\ UnitsPerMs * MaxTokens \in Nat
        /\ TokensPerMs * (now - last) \in Nat
        /\ TokensPerMs * (now - since + Remainder) \in Nat
    <3>1. now - last \in Nat /\ now - since + Remainder \in Nat
      BY Constants
    <3> QED BY <3>1, Constants, Products
  <2>6. Potential' = Potential + TokensPerMs /\ Allowance' = Allowance + TokensPerMs
    <3>1. Potential' = UnitsPerMs * tokens + TokensPerMs * ((now - last) + 1)
      BY <2>1, <2>3 DEF Potential, TokensPerMs
    <3>2. Allowance' = UnitsPerMs * MaxTokens
                         + TokensPerMs * ((now - since + Remainder) + 1)
      BY <2>1, <2>3 DEF Allowance, TokensPerMs, MaxTokens, Remainder
    <3> HIDE DEF Potential, Allowance
    <3> QED BY <3>1, <3>2, <2>4, <2>5, Constants DEF Potential, Allowance
  <2> QED BY <1>1, <1>3, <2>2, <2>6, Constants DEF AtMost
<1>10. CASE UNCHANGED vars
  <2>1. Spent' = Spent /\ Potential' = Potential /\ Allowance' = Allowance
    BY <1>10 DEF vars, Spent, Potential, Allowance, Remainder, MaxTokens, TokensPerMs
  <2> QED BY <1>1, <2>1
<1> QED BY <1>6, <1>7, <1>8, <1>9, <1>10 DEF Next

LEMMA StepIInv == IInv /\ [Next]_vars => IInv'
  BY TypePreserved, BudgetPreserved DEF IInv

\* What the bucket grants, holds and is still to earn never exceeds what a
\* window is due, with every variable in its range (refill, try_acquire).
THEOREM Invariance == Spec => []IInv
<1>1. Init => IInv
  BY InitIInv
<1>2. IInv /\ [Next]_vars => IInv'
  BY StepIInv
<1> QED BY <1>1, <1>2, PTL DEF Spec

LEMMA IInvRateLimited == IInv => RateLimited
<1> SUFFICES ASSUME IInv PROVE RateLimited
  OBVIOUS
<1>1. TypeOK /\ Spent + AtMost(Potential, Ceiling) <= Allowance
  BY BudgetSum DEF IInv
<1>2. Spent \in Nat /\ Allowance \in Nat /\ Potential \in Nat /\ Ceiling \in Nat
  BY <1>1, Numbers
<1>3. Spent <= Allowance
  BY <1>1, <1>2 DEF AtMost
<1> QED BY <1>3 DEF RateLimited, Spent, Allowance

\* try_acquire keeps to its documentation: however the requests of a
\* connection are timed, no window sees more than a burst and its rate.
THEOREM RateSafety == Spec => []RateLimited
  BY Invariance, IInvRateLimited, PTL
-----------------------------------------------------------------------------
LEMMA StepHalfRate == TypeOK /\ AtLeastHalfRate /\ [Next]_vars => AtLeastHalfRate'
<1> SUFFICES ASSUME TypeOK, AtLeastHalfRate, [Next]_vars PROVE AtLeastHalfRate'
  OBVIOUS
<1> USE DEF TypeOK
<1>1. CASE TryAcquire \/ Probe
  <2>1. last' = LastRefill /\ earned' = earned + NewTokens /\ origin' = origin
    BY <1>1 DEF TryAcquire, Probe
  <2>2. NewTokens \in Nat
    BY NewTokensTyped
  <2>3. CASE NewTokens = 0
    <3>1. last' = last /\ earned' = earned
      BY <2>1, <2>3 DEF LastRefill
    <3> QED BY <3>1, <2>1 DEF AtLeastHalfRate, TokensPerMs
  <2>4. CASE NewTokens > 0
    <3>1. last' = now
      BY <2>1, <2>4 DEF LastRefill
    <3>2. TokensPerMs * (now - last) <= 2 * UnitsPerMs * NewTokens
      BY <2>4, NewTokensTyped
    <3>3. now - origin = (last - origin) + (now - last)
      OBVIOUS
    <3>4. TokensPerMs * ((last - origin) + (now - last))
            = TokensPerMs * (last - origin) + TokensPerMs * (now - last)
      BY Constants, Distribution
    <3>5. 2 * UnitsPerMs * (earned + NewTokens)
            = 2 * UnitsPerMs * earned + 2 * UnitsPerMs * NewTokens
      BY <2>2, Constants, Distribution
    <3>6. /\ TokensPerMs * (last - origin) \in Nat /\ TokensPerMs * (now - last) \in Nat
          /\ 2 * UnitsPerMs * earned \in Nat /\ 2 * UnitsPerMs * NewTokens \in Nat
      <4>1. last - origin \in Nat /\ now - last \in Nat /\ 2 * UnitsPerMs \in Nat
        BY Constants
      <4> QED BY <4>1, <2>2, Constants, Products
    <3>7. TokensPerMs * (last - origin) <= 2 * UnitsPerMs * earned
      BY DEF AtLeastHalfRate
    <3>8. TokensPerMs * (now - origin) <= 2 * UnitsPerMs * (earned + NewTokens)
      BY <3>2, <3>3, <3>4, <3>5, <3>6, <3>7
    <3> QED BY <3>1, <3>8, <2>1 DEF AtLeastHalfRate, TokensPerMs
  <2> QED BY <2>2, <2>3, <2>4
<1>2. CASE Reset
  <2>1. last' - origin' = 0 /\ earned' = 0
    BY <1>2 DEF Reset
  <2>2. TokensPerMs * 0 <= 2 * UnitsPerMs * 0
    BY Constants
  <2> QED BY <2>1, <2>2 DEF AtLeastHalfRate, TokensPerMs
<1>3. CASE Elapse \/ Observe \/ UNCHANGED vars
  BY <1>3 DEF Elapse, Observe, vars, AtLeastHalfRate, TokensPerMs
<1> QED BY <1>1, <1>2, <1>3 DEF Next

\* refill forgets the part of a millisecond that is running, but never more
\* than half of what was due since the bucket was last reset.
THEOREM HalfRate == Spec => []AtLeastHalfRate
<1>1. Init => AtLeastHalfRate
  BY Constants DEF Init, AtLeastHalfRate
<1>2. IInv => TypeOK
  BY DEF IInv
<1> QED BY <1>1, <1>2, Invariance, StepHalfRate, PTL DEF Spec
=============================================================================
