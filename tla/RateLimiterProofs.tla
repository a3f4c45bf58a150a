-------------------------- MODULE RateLimiterProofs ----------------------------
(***************************************************************************)
(* Theorems about RateLimiter, for any number of goroutines, any delay and *)
(* any rate.                                                               *)
(***************************************************************************)
EXTENDS RateLimiter, TLAPS

LEMMA RefillRateType == RefillRate \in Nat /\ RefillRate > 0 /\ RefillRate <= Second
  <1>1. CASE ~ HasBucket
    BY <1>1, TimesAssumption DEF RefillRate
  <1>2. CASE HasBucket
    <2>1. \A s, m \in Nat : m > 0 /\ m <= s => s \div m \in Nat /\ s \div m > 0 /\ s \div m <= s
      OBVIOUS
    <2> QED
      BY <1>2, <2>1, TimesAssumption DEF RefillRate, HasBucket
  <1> QED
    BY <1>1, <1>2

LEMMA RefilledType ==
    ASSUME TypeOK
    PROVE  Refilled \in 0 .. Capacity /\ AfterRefill \in Age
  <1>1. ToAdd \in Nat
    <2>1. \A s, r \in Nat : r > 0 => s \div r \in Nat
      OBVIOUS
    <2>2. sinceRefill \in Nat
      BY TimesAssumption DEF TypeOK, Age
    <2> QED
      BY <2>1, <2>2, RefillRateType DEF ToAdd
  <1>2. Capacity \in Nat
    BY TimesAssumption DEF Capacity
  <1> QED
    BY <1>1, <1>2, TimesAssumption DEF Refilled, AfterRefill, TypeOK, Age

LEMMA InitType == Init => TypeOK
  BY TimesAssumption DEF Init, TypeOK, Age, Capacity

LEMMA NextType == TypeOK /\ [Next]_vars => TypeOK'
  <1> SUFFICES ASSUME TypeOK, [Next]_vars PROVE TypeOK'
    OBVIOUS
  <1>1. ASSUME NEW c \in Caller, Call(c) PROVE TypeOK'
    <2>1. Remaining(sinceRequest) \in Age
      BY TimesAssumption DEF Remaining, TypeOK, Age
    <2> QED
      BY <1>1, <2>1 DEF Call, TypeOK
  <1>2. ASSUME NEW c \in Caller, Take(c) PROVE TypeOK'
    <2>1. RefillRate \in Age
      BY RefillRateType, TimesAssumption DEF Age
    <2>2. tokens' \in 0 .. Capacity
      <3>1. tokens' = 0 \/ tokens' = tokens \/ (Refilled > 0 /\ tokens' = Refilled - 1)
        BY <1>2 DEF Take
      <3> QED
        BY <3>1, RefilledType, TimesAssumption DEF TypeOK, Capacity
    <2>3. pc' \in [Caller -> {"idle", "pause", "send"}] /\ wait' \in [Caller -> Age]
      BY <1>2, <2>1 DEF Take, TypeOK
    <2>4. taken' \in [0 .. Second -> Nat]
      BY <1>2, TimesAssumption DEF Take, TypeOK
    <2> QED
      BY <1>2, <2>2, <2>3, <2>4, RefilledType DEF Take, TypeOK
  <1>3. ASSUME NEW c \in Caller, Send(c) PROVE TypeOK'
    BY <1>3, TimesAssumption DEF Send, TypeOK, Age
  <1>4. CASE Tick
    <2>1. \A age \in Age : Older(age) \in Age
      BY TimesAssumption DEF Older, Age
    <2>2. wait' \in [Caller -> Age]
      BY <1>4, TimesAssumption DEF Tick, TypeOK, Age
    <2>3. taken' \in [0 .. Second -> Nat]
      BY <1>4, TimesAssumption DEF Tick, TypeOK
    <2> QED
      BY <1>4, <2>1, <2>2, <2>3 DEF Tick, TypeOK
  <1>5. CASE UNCHANGED vars
    BY <1>5 DEF vars, TypeOK
  <1> QED
    BY <1>1, <1>2, <1>3, <1>4, <1>5 DEF Next, Step

\* The rate limiter is type correct: the bucket never holds more than its
\* capacity and never less than nothing.
THEOREM TypeCorrect == Spec => []TypeOK
  BY InitType, NextType, PTL DEF Spec

---------------------------------------------------------------------------
\* A goroutine's own last request is no later than lastRequestTime; the sleep
\* that is left makes up for what is missing of the delay since then.
OwnInv ==
    \A c \in Caller :
        /\ own[c] >= sinceRequest
        /\ pc[c] = "pause" => own[c] + wait[c] >= RequestDelay
        /\ pc[c] = "send" => own[c] >= RequestDelay

LEMMA OwnInit == Init => OwnInv
  <1> SUFFICES ASSUME Init, NEW c \in Caller
               PROVE  /\ own[c] >= sinceRequest
                      /\ pc[c] = "pause" => own[c] + wait[c] >= RequestDelay
                      /\ pc[c] = "send" => own[c] >= RequestDelay
    BY DEF OwnInv
  <1>1. own[c] = Horizon /\ pc[c] = "idle" /\ sinceRequest = 0
    BY DEF Init
  <1> QED
    BY <1>1, TimesAssumption

LEMMA OwnNext == TypeOK /\ OwnInv /\ [Next]_vars => OwnInv'
  <1> SUFFICES ASSUME TypeOK, OwnInv, [Next]_vars PROVE OwnInv'
    OBVIOUS
  <1>t. /\ RequestDelay \in Nat /\ Horizon \in Nat /\ RequestDelay <= Horizon
        /\ sinceRequest \in Nat
        /\ \A c \in Caller : own[c] \in Nat /\ wait[c] \in Nat /\ own[c] <= Horizon
    BY TimesAssumption DEF TypeOK, Age
  <1>1. ASSUME NEW c \in Caller, Call(c) PROVE OwnInv'
    <2>1. own[c] >= sinceRequest /\ own[c] + Remaining(sinceRequest) >= RequestDelay
      BY <1>t DEF Remaining, OwnInv
    <2>2. pc'[c] = "pause" /\ wait'[c] = Remaining(sinceRequest) /\ own' = own /\ sinceRequest' = sinceRequest
      BY <1>1 DEF Call, TypeOK
    <2>3. \A d \in Caller : d # c => pc'[d] = pc[d] /\ wait'[d] = wait[d]
      BY <1>1 DEF Call, TypeOK
    <2> QED
      BY <2>1, <2>2, <2>3 DEF OwnInv
  <1>2. ASSUME NEW c \in Caller, Take(c) PROVE OwnInv'
    <2>1. own[c] >= RequestDelay
      BY <1>2, <1>t DEF Take, OwnInv
    <2>2. pc'[c] \in {"pause", "send"} /\ wait'[c] \in Nat
      BY <1>2, <1>t, RefillRateType DEF Take, TypeOK
    <2>3. \A d \in Caller : d # c => pc'[d] = pc[d] /\ wait'[d] = wait[d]
      BY <1>2 DEF Take, TypeOK
    <2>4. own' = own /\ sinceRequest' = sinceRequest
      BY <1>2 DEF Take
    <2> QED
      BY <1>t, <2>1, <2>2, <2>3, <2>4 DEF OwnInv
  <1>3. ASSUME NEW c \in Caller, Send(c) PROVE OwnInv'
    BY <1>3, TimesAssumption DEF Send, OwnInv, TypeOK, Age
  <1>4. CASE Tick
    <2> SUFFICES ASSUME NEW c \in Caller
                 PROVE  /\ own'[c] >= sinceRequest'
                        /\ pc'[c] = "pause" => own'[c] + wait'[c] >= RequestDelay
                        /\ pc'[c] = "send" => own'[c] >= RequestDelay
      BY DEF OwnInv
    <2>1. /\ own'[c] = Older(own[c]) /\ sinceRequest' = Older(sinceRequest) /\ pc' = pc
          /\ wait'[c] = IF wait[c] > 0 THEN wait[c] - 1 ELSE 0
      BY <1>4 DEF Tick
    <2> QED
      BY <1>t, <2>1 DEF Older, OwnInv
  <1>5. CASE UNCHANGED vars
    BY <1>5 DEF vars, OwnInv
  <1> QED
    BY <1>1, <1>2, <1>3, <1>4, <1>5 DEF Next, Step

\* Every goroutine keeps the delay between its own requests, however the others
\* interleave with it.
THEOREM OwnDelayKept == Spec => OwnRequestsSpaced
  <1>1. OwnInv /\ [Next]_vars => [\A c \in Caller : Send(c) => own[c] >= RequestDelay]_vars
    BY DEF OwnInv, Send
  <1> QED
    BY <1>1, InitType, NextType, OwnInit, OwnNext, PTL DEF Spec, OwnRequestsSpaced

---------------------------------------------------------------------------
\* What a product and a quotient need, for the solver does not multiply.
LEMMA Products ==
    \A a, b, r \in Nat : /\ a * r \in Nat
                         /\ (a + 1) * r = a * r + r
                         /\ (a + b) * r = a * r + b * r
                         /\ a <= b => a * r <= b * r
  <1> SUFFICES ASSUME NEW a \in Nat, NEW b \in Nat, NEW r \in Nat
               PROVE  /\ a * r \in Nat
                      /\ (a + 1) * r = a * r + r
                      /\ (a + b) * r = a * r + b * r
                      /\ a <= b => a * r <= b * r
    OBVIOUS
  <1>1. a * r \in Nat /\ (a + 1) * r = a * r + r /\ (a + b) * r = a * r + b * r
    OBVIOUS
  <1>2. ASSUME a <= b PROVE a * r <= b * r
    <2>1. PICK d \in Nat : b = a + d
      <3>1. b - a \in Nat /\ b = a + (b - a)
        BY <1>2
      <3> QED
        BY <3>1
    <2>2. b * r = a * r + d * r /\ d * r \in Nat
      BY <2>1
    <2> QED
      BY <1>1, <2>2
  <1> QED
    BY <1>1, <1>2

LEMMA Quotients ==
    ASSUME NEW s \in Nat, NEW r \in Nat, r > 0
    PROVE  s \div r \in Nat /\ (s \div r) * r <= s /\ s < (s \div r) * r + r
  OBVIOUS

LEMMA QuotientBounds ==
    ASSUME NEW x \in Nat, NEW y \in Nat, NEW s \in Nat, NEW r \in Nat, r > 0,
           x * r <= y * r + s
    PROVE  x <= y + s \div r
  <1> DEFINE q == s \div r
  <1>1. q \in Nat /\ s < q * r + r
    BY Quotients
  <1> HIDE DEF q
  <1>2. CASE x <= y + q
    BY <1>2 DEF q
  <1>3. CASE y + q + 1 <= x
    <2>1. (y + q + 1) * r <= x * r
      BY <1>1, <1>3, Products
    <2>2. (y + q + 1) * r = y * r + q * r + r /\ y * r \in Nat /\ q * r \in Nat /\ x * r \in Nat
      <3>1. y + q \in Nat
        BY <1>1
      <3> QED
        BY <1>1, <3>1, Products
    <2> QED
      BY <1>1, <2>1, <2>2
  <1> QED
    BY <1>1, <1>2, <1>3

\* What the bucket could give out next, in ticks: its tokens and the time that
\* has passed since the last refill, which the rim of the bucket limits.
Rim == Capacity * RefillRate + RefillRate - 1
Credit == IF tokens * RefillRate + sinceRefill < Rim
          THEN tokens * RefillRate + sinceRefill ELSE Rim

\* What was given out in a stretch of time and what can be given out now never
\* add up to more than a full bucket and what the time brings.
WindowInv ==
    HasBucket => \A age \in 0 .. Second : taken[age] * RefillRate + Credit <= Rim + age

LEMMA CreditType == TypeOK => Rim \in Nat /\ Credit \in 0 .. Rim
  <1>1. /\ RefillRate \in Nat /\ RefillRate > 0 /\ Capacity \in Nat
        /\ TypeOK => tokens \in Nat /\ sinceRefill \in Nat
    BY RefillRateType, TimesAssumption DEF TypeOK, Age, Capacity
  <1>2. Capacity * RefillRate \in Nat /\ (TypeOK => tokens * RefillRate \in Nat)
    BY <1>1, Products
  <1> QED
    BY <1>1, <1>2 DEF Rim, Credit

\* A token taken costs the credit an interval of the bucket, whether the refill
\* before it forgets the fraction of an interval or was too early to add any.
LEMMA TokenCosts ==
    ASSUME TypeOK, HasBucket, NEW c \in Caller, Take(c), Refilled > 0, tokens' = Refilled - 1
    PROVE  Credit' + RefillRate <= Credit
  <1> DEFINE left == tokens' * RefillRate
             spent == Refilled * RefillRate
             held == tokens * RefillRate
             added == ToAdd * RefillRate
             full == Capacity * RefillRate
  <1>1. /\ RefillRate \in Nat /\ RefillRate > 0 /\ Capacity \in Nat
        /\ tokens \in Nat /\ tokens <= Capacity /\ sinceRefill \in Nat
    BY RefillRateType, TimesAssumption DEF TypeOK, Age, Capacity
  <1>2. ToAdd \in Nat /\ added \in Nat /\ added <= sinceRefill /\ sinceRefill < added + RefillRate
    BY <1>1, Quotients, Products DEF ToAdd
  <1>3. Refilled \in Nat /\ Refilled <= Capacity /\ Refilled <= tokens + ToAdd
    BY <1>1, <1>2, RefilledType DEF Refilled
  <1>4. held \in Nat /\ full \in Nat /\ held <= full
    BY <1>1, Products
  <1>5. spent \in Nat /\ spent <= full /\ spent <= held + added
    <2>1. spent <= (tokens + ToAdd) * RefillRate
      BY <1>1, <1>2, <1>3, Products
    <2> QED
      BY <1>1, <1>2, <1>3, <2>1, Products
  <1>6. left \in Nat /\ left + RefillRate = spent
    <2>1. tokens' \in Nat /\ tokens' + 1 = Refilled
      BY <1>3
    <2> QED
      BY <1>1, <2>1, Products
  <1>7. Rim = full + RefillRate - 1
    BY DEF Rim
  <1>8. Credit = IF held + sinceRefill < Rim THEN held + sinceRefill ELSE Rim
    BY DEF Credit
  <1>9. Credit' = IF left + AfterRefill < Rim THEN left + AfterRefill ELSE Rim
    <2>1. sinceRefill' = AfterRefill
      BY DEF Take
    <2>2. Rim' = Rim /\ RefillRate' = RefillRate
      BY DEF Rim, RefillRate, Capacity, HasBucket
    <2> QED
      BY <2>1, <2>2 DEF Credit
  <1>10. CASE ToAdd = 0
    <2>1. AfterRefill = sinceRefill /\ Refilled = tokens
      BY <1>1, <1>10 DEF AfterRefill, Refilled
    <2>2. spent = held /\ added = 0
      BY <1>1, <1>10, <2>1
    <2> HIDE DEF left, spent, held, added, full
    <2> QED
      BY <1>1, <1>2, <1>4, <1>5, <1>6, <1>7, <1>8, <1>9, <2>1, <2>2
  <1>11. CASE ToAdd > 0
    <2>1. AfterRefill = 0
      BY <1>11 DEF AfterRefill
    <2> HIDE DEF left, spent, held, added, full
    <2> QED
      BY <1>1, <1>2, <1>4, <1>5, <1>6, <1>7, <1>8, <1>9, <2>1
  <1> QED
    BY <1>2, <1>10, <1>11

LEMMA WindowInit == Init => WindowInv
  <1> SUFFICES ASSUME Init, NEW age \in 0 .. Second
               PROVE  taken[age] * RefillRate + Credit <= Rim + age
    BY DEF WindowInv
  <1>1. taken[age] = 0 /\ age \in Nat
    BY TimesAssumption DEF Init
  <1>2. taken[age] * RefillRate = 0
    BY <1>1, RefillRateType
  <1> QED
    BY <1>1, <1>2, InitType, CreditType

LEMMA WindowNext == TypeOK /\ WindowInv /\ [Next]_vars => WindowInv'
  <1> SUFFICES ASSUME TypeOK, WindowInv, [Next]_vars, HasBucket, NEW age \in 0 .. Second
               PROVE  taken'[age] * RefillRate + Credit' <= Rim + age
    BY DEF WindowInv, HasBucket, RefillRate, Rim, Capacity
  <1>t. /\ RefillRate \in Nat /\ Rim \in Nat /\ Credit \in 0 .. Rim /\ age \in Nat
        /\ taken[age] \in Nat /\ taken[age] * RefillRate \in Nat
    BY RefillRateType, CreditType, Products, TimesAssumption DEF TypeOK
  <1>p. Credit' \in 0 .. Rim
    <2>1. TypeOK'
      BY NextType
    <2>2. (TypeOK => Rim \in Nat /\ Credit \in 0 .. Rim)'
      BY CreditType, PTL
    <2> QED
      BY <2>1, <2>2 DEF Rim, RefillRate, Capacity, HasBucket
  <1>w. taken[age] * RefillRate + Credit <= Rim + age
    BY DEF WindowInv
  <1>1. ASSUME NEW c \in Caller, Take(c) PROVE taken'[age] * RefillRate + Credit' <= Rim + age
    <2>1. CASE Refilled > 0 /\ tokens' = Refilled - 1 /\ taken'[age] = taken[age] + 1
      <3>1. Credit' + RefillRate <= Credit
        BY <1>1, <2>1, TokenCosts
      <3>2. taken'[age] * RefillRate = taken[age] * RefillRate + RefillRate
        BY <1>t, <2>1, Products
      <3> DEFINE given == taken[age] * RefillRate
                 credit == Credit
                 rest == Credit'
                 most == Rim + age
                 interval == RefillRate
      <3>3. /\ given \in Int /\ credit \in Int /\ rest \in Int /\ most \in Int /\ interval \in Int
            /\ given + credit <= most /\ rest + interval <= credit
        <4>1. given \in Int /\ credit \in Int /\ most \in Int /\ interval \in Int
          BY <1>t
        <4>2. rest \in Int
          BY <1>t, <1>p
        <4> QED
          BY <1>w, <3>1, <4>1, <4>2, Zenon
      <3>4. taken'[age] * RefillRate = given + interval
        BY <3>2
      <3>5. (given + interval) + rest <= most
        <4> HIDE DEF given, credit, rest, most, interval
        <4> QED
          BY <3>3
      <3> QED
        BY <3>4, <3>5
    <2>2. CASE Refilled = 0 /\ UNCHANGED <<tokens, taken>>
      <3>1. ToAdd = 0
        <4>1. tokens \in Nat /\ sinceRefill \in Nat /\ Capacity \in Nat /\ Capacity > 0
          BY TimesAssumption DEF TypeOK, Age, Capacity, HasBucket
        <4>2. ToAdd \in Nat
          BY <4>1, RefillRateType, Quotients DEF ToAdd
        <4> QED
          BY <2>2, <4>1, <4>2 DEF Refilled
      <3>2. sinceRefill' = sinceRefill
        BY <1>1, <3>1 DEF Take, AfterRefill
      <3>3. Credit' = Credit
        BY <2>2, <3>2 DEF Credit, Rim, RefillRate, Capacity, HasBucket
      <3> QED
        BY <1>w, <2>2, <3>3
    <2> QED
      BY <1>1, <2>1, <2>2 DEF Take
  <1>2. CASE Tick
    <2>1. CASE age = 0
      <3>1. taken'[age] = 0
        BY <1>2, <2>1 DEF Tick
      <3>2. taken'[age] * RefillRate = 0
        BY <1>t, <3>1
      <3> QED
        BY <1>t, <1>p, <3>2
    <2>2. CASE age # 0
      <3>1. age - 1 \in 0 .. Second /\ taken'[age] = taken[age - 1] /\ taken[age - 1] \in Nat
        <4>1. age - 1 \in 0 .. Second
          BY <2>2, <1>t, TimesAssumption
        <4>2. taken' = [a \in 0 .. Second |-> IF a = 0 THEN 0 ELSE taken[a - 1]]
          BY <1>2 DEF Tick
        <4> QED
          BY <2>2, <4>1, <4>2 DEF TypeOK
      <3>2. taken[age - 1] * RefillRate + Credit <= Rim + (age - 1)
        BY <3>1 DEF WindowInv
      <3>3. Credit' <= Credit + 1
        <4>1. /\ sinceRefill' \in Nat /\ sinceRefill \in Nat /\ sinceRefill' <= sinceRefill + 1
              /\ tokens' = tokens /\ Rim' = Rim /\ RefillRate' = RefillRate
          BY <1>2, TimesAssumption DEF Tick, TypeOK, Age, Older, Rim, RefillRate, Capacity, HasBucket
        <4>2. tokens * RefillRate \in Nat
          BY RefillRateType, Products, TimesAssumption DEF TypeOK, Capacity
        <4> QED
          BY <1>t, <4>1, <4>2 DEF Credit
      <3>4. taken[age - 1] * RefillRate \in Nat
        BY <1>t, <3>1, Products
      <3> QED
        BY <1>t, <1>p, <3>1, <3>2, <3>3, <3>4
    <2> QED
      BY <2>1, <2>2
  <1>3. CASE UNCHANGED <<tokens, sinceRefill, taken>>
    <2>1. Credit' = Credit
      BY <1>3 DEF Credit, Rim, RefillRate, Capacity, HasBucket
    <2> QED
      BY <1>3, <1>w, <2>1
  <1> QED
    BY <1>1, <1>2, <1>3 DEF Next, Step, Call, Send, vars

LEMMA WindowHolds == TypeOK /\ WindowInv => WindowBound
  <1> SUFFICES ASSUME TypeOK, WindowInv, HasBucket, NEW age \in 0 .. Second
               PROVE  taken[age] <= Capacity + (age + RefillRate - 1) \div RefillRate
    BY DEF WindowBound
  <1>1. /\ RefillRate \in Nat /\ RefillRate > 0 /\ Capacity \in Nat /\ age \in Nat
        /\ taken[age] \in Nat /\ age + RefillRate - 1 \in Nat
    BY RefillRateType, TimesAssumption DEF TypeOK, Capacity
  <1>2. taken[age] * RefillRate <= Capacity * RefillRate + (age + RefillRate - 1)
    <2>1. taken[age] * RefillRate + Credit <= Rim + age
      BY DEF WindowInv
    <2>2. /\ Credit \in Nat /\ taken[age] * RefillRate \in Nat /\ Capacity * RefillRate \in Nat
          /\ Rim = Capacity * RefillRate + RefillRate - 1
      BY <1>1, Products, CreditType DEF Rim
    <2> QED
      BY <1>1, <2>1, <2>2
  <1> QED
    BY <1>1, <1>2, QuotientBounds

\* For every rate, and however many goroutines take tokens at whatever moments:
\* no stretch of time sees more tokens given out than a full bucket and what the
\* time brings.
THEOREM BucketBound == Spec => []WindowBound
  BY InitType, NextType, WindowInit, WindowNext, WindowHolds, PTL DEF Spec

===============================================================================
