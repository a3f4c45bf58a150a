----------------------------- MODULE RateLimiter -------------------------------
(***************************************************************************)
(* The rate limit of a platform's checker: the goroutines that check links *)
(* of the platform wait for a delay after the last request and for a token *)
(* of a bucket.  The configuration of a checker never changes: a reload    *)
(* makes a new checker.                                                    *)
(*                                                                         *)
(* An instant is kept as the time that has passed since, up to Horizon,    *)
(* beyond which nothing asks: no bound on the clock is needed.             *)
(***************************************************************************)
EXTENDS Integers

CONSTANTS
    Caller,                 \* bound: goroutines that check at a time
    RequestDelay,           \* RequestDelayMs, in ticks; 0: none
    MaxRequestsPerSecond,   \* 0: no bucket
    Second,                 \* ticks in a second
    Horizon                 \* the longest time that is told apart

VARIABLES
    pc,             \* where each goroutine is
    wait,           \* how long it still sleeps, at least
    sinceRequest,   \* since lastRequestTime
    tokens,         \* of the bucket
    sinceRefill,    \* since lastRefill
    taken,          \* history: how many tokens were taken lately, by how lately
    own             \* history: since each goroutine's own last request

vars == <<pc, wait, sinceRequest, tokens, sinceRefill, taken, own>>

HasBucket == MaxRequestsPerSecond > 0
Capacity == MaxRequestsPerSecond
RefillRate == IF HasBucket THEN Second \div MaxRequestsPerSecond ELSE 1
Age == 0 .. Horizon

ASSUME TimesAssumption ==
    /\ RequestDelay \in Nat
    /\ MaxRequestsPerSecond \in Nat
    /\ Second \in Nat /\ Second > 0 /\ MaxRequestsPerSecond <= Second
    /\ Horizon \in Nat /\ Horizon >= RequestDelay /\ Horizon >= Second

TypeOK ==
    /\ pc \in [Caller -> {"idle", "pause", "send"}]
    /\ wait \in [Caller -> Age]
    /\ sinceRequest \in Age
    /\ tokens \in 0 .. Capacity
    /\ sinceRefill \in Age
    /\ taken \in [0 .. Second -> Nat]
    /\ own \in [Caller -> Age]

\* A new checker: lastRequestTime and lastRefill are the present.
Init ==
    /\ pc = [c \in Caller |-> "idle"]
    /\ wait = [c \in Caller |-> 0]
    /\ sinceRequest = 0
    /\ tokens = Capacity
    /\ sinceRefill = 0
    /\ taken = [age \in 0 .. Second |-> 0]
    /\ own = [c \in Caller |-> Horizon]

\* Mutant of Remaining: the delay counts from the call.
RemainingNone(elapsed) == 0

\* How long to sleep after the last request.
Remaining(elapsed) == IF elapsed < RequestDelay THEN RequestDelay - elapsed ELSE 0

\* ApplyRateLimit: read the time of the last request, under the mutex, and
\* begin to sleep, without it.
Call(c) ==
    /\ pc[c] = "idle"
    /\ pc' = [pc EXCEPT ![c] = "pause"]
    /\ wait' = [wait EXCEPT ![c] = Remaining(sinceRequest)]
    /\ UNCHANGED <<sinceRequest, tokens, sinceRefill, taken, own>>

ToAdd == sinceRefill \div RefillRate

\* Mutant of Refilled: the bucket has no rim.
RefilledOver == tokens + ToAdd

Refilled == IF tokens + ToAdd < Capacity THEN tokens + ToAdd ELSE Capacity

\* Mutant of AfterRefill: every attempt counts as a refill ...
AfterRefillAlways == 0
\* ... or none does.
AfterRefillNever == sinceRefill

\* lastRefill moves only when at least a token was added.
AfterRefill == IF ToAdd > 0 THEN 0 ELSE sinceRefill

\* Take, when the sleep is over: on with a token, or without a bucket, or
\* another sleep.
Take(c) ==
    /\ pc[c] = "pause" /\ wait[c] = 0
    /\ sinceRefill' = AfterRefill
    /\ \/ /\ HasBucket => Refilled > 0
          /\ tokens' = IF HasBucket THEN Refilled - 1 ELSE 0
          /\ taken' = [age \in 0 .. Second |-> taken[age] + 1]
          /\ pc' = [pc EXCEPT ![c] = "send"]
          /\ UNCHANGED wait
       \/ /\ HasBucket /\ Refilled = 0
          /\ wait' = [wait EXCEPT ![c] = RefillRate]
          /\ UNCHANGED <<pc, taken, tokens>>
    /\ UNCHANGED <<sinceRequest, own>>

\* Set lastRequestTime; the caller sends its request.
Send(c) ==
    /\ pc[c] = "send"
    /\ pc' = [pc EXCEPT ![c] = "idle"]
    /\ sinceRequest' = 0
    /\ own' = [own EXCEPT ![c] = 0]
    /\ UNCHANGED <<wait, tokens, sinceRefill, taken>>

Older(age) == IF age < Horizon THEN age + 1 ELSE Horizon

\* Time passes; a goroutine may oversleep.
Tick ==
    /\ wait' = [c \in Caller |-> IF wait[c] > 0 THEN wait[c] - 1 ELSE 0]
    /\ sinceRequest' = Older(sinceRequest)
    /\ sinceRefill' = Older(sinceRefill)
    /\ taken' = [age \in 0 .. Second |-> IF age = 0 THEN 0 ELSE taken[age - 1]]
    /\ own' = [c \in Caller |-> Older(own[c])]
    /\ UNCHANGED <<pc, tokens>>

Step(c) == Take(c) \/ Send(c)

Next == (\E c \in Caller : Call(c) \/ Step(c)) \/ Tick

Spec == Init /\ [][Next]_vars

\* The clock runs, and goroutines that are awake are scheduled.
FairSpec == Spec /\ WF_vars(Tick) /\ \A c \in Caller : WF_vars(Step(c))

(***************************************************************************)
(* Properties.                                                             *)
(***************************************************************************)

Waiting == {c \in Caller : pc[c] # "idle"}

\* The bucket: within any stretch of time no more tokens are given out than the
\* bucket holds and the time brings, rounded up, although goroutines take at
\* any moment and a refill forgets the fraction of an interval.
WindowBound ==
    HasBucket => \A age \in 0 .. Second :
        taken[age] <= Capacity + (age + RefillRate - 1) \div RefillRate

\* The delay holds for each goroutine by itself, whoever else has moved
\* lastRequestTime meanwhile: within a delay every goroutine sends at most once.
OwnRequestsSpaced ==
    [][\A c \in Caller : Send(c) => own[c] >= RequestDelay]_vars

\* Nobody blocks the others for good: as long as somebody waits, somebody
\* gets through again (the attempts themselves do not hold up the refill).
SomebodyGetsThrough == (Waiting # {}) ~> (\E c \in Caller : pc[c] = "send")

\* What base_checker.go:139 says of ApplyRateLimit (it makes sure that the
\* interval between requests is the configured one): requests are a delay apart.
RequestsSpaced ==
    [][\A c \in Caller : Send(c) => sinceRequest >= RequestDelay]_vars

===============================================================================
