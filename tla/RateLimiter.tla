---------------------------- MODULE RateLimiter ----------------------------
(***************************************************************************)
(* The client-side throttle, services/rate_limit.rs: an integer token      *)
(* bucket, a semaphore of concurrency slots and a bounded number of        *)
(* callers parked in acquire().  The clock is read before the bucket's     *)
(* lock is taken, so a caller refills with a time that may have passed.    *)
(* Time is relative: `age` is the time since last_refill_millis, a         *)
(* caller's `lag` the time since it read the clock.                        *)
(***************************************************************************)
EXTENDS Integers, Sequences, FiniteSets, SequencesExt

CONSTANTS Callers,         \* tasks that share the limiter
          MilliToken,      \* thousandths of a token, 1000 in the code
          MaxRequests,     \* tokens per interval
          Interval,        \* refill window, in ticks
          Burst,           \* bucket capacity
          MaxConcurrent,   \* concurrency slots
          MaxWaiters,      \* callers parked in acquire
          MaxWait,         \* wait budget, in ticks
          WarnAt,          \* admissions from which observers are asked
          MaxLag           \* bound: ticks between reading the clock and locking

PerInterval == MaxRequests * MilliToken
Capacity == Burst * MilliToken

\* The oldest mark worth telling apart: a bucket this stale is full.
AgeCap == (Capacity * Interval) \div PerInterval + 1 + MaxLag

ASSUME RateAssumption ==
    /\ {MilliToken, MaxRequests, Interval, Burst, MaxConcurrent, MaxWaiters, MaxWait}
          \subseteq Nat \ {0}
    /\ {WarnAt, MaxLag} \subseteq Nat
    /\ IsFiniteSet(Callers)

VARIABLES tokens,    \* BucketState::tokens_milli
          age,       \* now - BucketState::last_refill_millis
          waiting,   \* RateLimiter::waiting
          line,      \* the callers queued at the semaphore, first come first
          caller,    \* where each caller is
          credit,    \* what an exact bucket would hold, in 1/Interval of a
                     \* thousandth: the reference the code's bucket is held to
          overdrawn  \* whether a token was granted that it did not hold

vars == <<tokens, age, waiting, line, caller, credit, overdrawn>>
reference == <<credit, overdrawn>>

Idle == [pc |-> "idle", left |-> 0, wake |-> 0, lag |-> 0, admitted |-> 0]

Init ==
    /\ tokens = Capacity
    /\ age = 0
    /\ waiting = 0
    /\ line = <<>>
    /\ caller = [c \in Callers |-> Idle]
    /\ credit = Capacity * Interval
    /\ overdrawn = FALSE

-----------------------------------------------------------------------------
Lesser(a, b) == IF a < b THEN a ELSE b

\* elapsed = now.saturating_sub(last_refill), with a clock read `lag` ago.
Elapsed(lag) == IF age > lag THEN age - lag ELSE 0

Gain(lag) == (Elapsed(lag) * PerInterval) \div Interval

\* Slip: the mark always jumps to now, and the remainder is lost.
RefilledToNow(lag) ==
    [tokens |-> Lesser(tokens + Gain(lag), Capacity), age |-> lag]

\* BucketState::refill.
Refilled(lag) ==
    IF Gain(lag) >= Capacity - tokens
    THEN [tokens |-> Capacity, age |-> lag]
    ELSE [tokens |-> tokens + Gain(lag),
          age |-> age - (Gain(lag) * Interval) \div PerInterval]

\* time_to_next_token: ceiling division, in ticks.
TimeToNextToken(held) ==
    IF held >= MilliToken THEN 0
    ELSE ((MilliToken - held) * Interval + PerInterval - 1) \div PerInterval

\* A token is granted: the exact bucket pays for it, as far as it can.
Charge ==
    LET price == MilliToken * Interval
    IN  /\ credit' = IF credit > price THEN credit - price ELSE 0
        /\ overdrawn' = (overdrawn \/ credit < price)

-----------------------------------------------------------------------------
(* The semaphore: a free slot belongs to the first in line.                *)

HasSlot(c) == caller[c].pc \in {"warn", "gauge", "token", "take", "sleep", "tryTake", "held"}
FreeSlots == MaxConcurrent - Cardinality({c \in Callers : HasSlot(c)})

Granted(c) == \E n \in 1..Len(line) : n <= FreeSlots /\ line[n] = c

Inside(c) == caller[c].pc \notin {"idle", "tryTake", "held", "reading"}
Parked(c) == Inside(c) /\ caller[c].pc # "refused"

Goes(c, pc) == caller' = [caller EXCEPT ![c].pc = pc]
Reads(c, pc) == caller' = [caller EXCEPT ![c].pc = pc, ![c].lag = 0]
Ends(c, pc) == caller' = [caller EXCEPT ![c] = [Idle EXCEPT !.pc = pc]]

bucketVars == <<tokens, age, reference>>

\* Slip: one caller too many is let in.
AdmitsOneMore(admitted) == admitted <= MaxWaiters + 1

Admits(admitted) == admitted <= MaxWaiters

\* The head of acquire(): counted first, then refused or parked in line.
Enter(c) ==
    LET admitted == waiting + 1 IN
    /\ caller[c].pc = "idle"
    /\ waiting' = admitted
    /\ caller' = [caller EXCEPT ![c] =
          [Idle EXCEPT !.pc = IF Admits(admitted) THEN "slot" ELSE "refused",
                       !.left = MaxWait, !.admitted = admitted]]
    /\ line' = IF Admits(admitted) THEN Append(line, c) ELSE line
    /\ UNCHANGED bucketVars

\* QueueFull: the guard counts the caller out again.
Refuse(c) ==
    /\ caller[c].pc = "refused"
    /\ waiting' = waiting - 1
    /\ Ends(c, "idle")
    /\ UNCHANGED <<line, bucketVars>>

\* The semaphore's permit arrives, even at the deadline.
GetSlot(c) ==
    /\ caller[c].pc = "slot"
    /\ Granted(c)
    /\ line' = RemoveFirst(line, c)
    /\ Goes(c, IF caller[c].admitted >= WarnAt THEN "warn" ELSE "token")
    /\ UNCHANGED <<waiting, bucketVars>>

\* The wait budget is over before a slot came: peek_retry_after follows.
MissSlot(c) ==
    /\ caller[c].pc = "slot"
    /\ caller[c].left = 0
    /\ ~Granted(c)
    /\ line' = RemoveFirst(line, c)
    /\ Reads(c, "peek")
    /\ UNCHANGED <<waiting, bucketVars>>

\* peek_retry_after refills, spends nothing, and acquire returns Exhausted.
Peek(c) ==
    LET b == Refilled(caller[c].lag) IN
    /\ caller[c].pc = "peek"
    /\ tokens' = b.tokens
    /\ age' = b.age
    /\ waiting' = waiting - 1
    /\ Ends(c, "idle")
    /\ UNCHANGED <<line, reference>>

\* Near the cap usage() is read for the observers ...
Warn(c) ==
    /\ caller[c].pc = "warn"
    /\ Reads(c, "gauge")
    /\ UNCHANGED <<waiting, line, bucketVars>>

\* ... which may refuse: the slot is released and no token was spent.
Observe(c, refuse) ==
    LET b == Refilled(caller[c].lag) IN
    /\ caller[c].pc = "gauge"
    /\ tokens' = b.tokens
    /\ age' = b.age
    /\ waiting' = IF refuse THEN waiting - 1 ELSE waiting
    /\ IF refuse THEN Ends(c, "idle") ELSE Goes(c, "token")
    /\ UNCHANGED <<line, reference>>

\* take_token reads the clock, then locks the bucket.
ReadClock(c) ==
    /\ caller[c].pc = "token"
    /\ Reads(c, "take")
    /\ UNCHANGED <<waiting, line, bucketVars>>

\* Slip: the deadline is not looked at between two naps.
OutOfTimeNever(c) == FALSE

OutOfTime(c) == caller[c].left = 0

\* A token is spent and the permit returned; or none is there, and the caller
\* gives its slot back at the deadline or sleeps until the next token.
TakeToken(c) ==
    LET b == Refilled(caller[c].lag) IN
    /\ caller[c].pc = "take"
    /\ age' = b.age
    /\ IF b.tokens >= MilliToken
       THEN /\ tokens' = b.tokens - MilliToken
            /\ Charge
            /\ waiting' = waiting - 1
            /\ Ends(c, "held")
       ELSE /\ tokens' = b.tokens
            /\ UNCHANGED reference
            /\ IF OutOfTime(c)
               THEN waiting' = waiting - 1 /\ Ends(c, "idle")
               ELSE /\ caller' = [caller EXCEPT ![c].pc = "sleep", ![c].lag = 0,
                          ![c].wake = Lesser(caller[c].left, TimeToNextToken(b.tokens))]
                    /\ UNCHANGED waiting
    /\ UNCHANGED line

Wake(c) ==
    /\ caller[c].pc = "sleep"
    /\ caller[c].wake = 0
    /\ Goes(c, "token")
    /\ UNCHANGED <<waiting, line, bucketVars>>

\* The future is dropped where it is suspended.
Cancel(c) ==
    /\ caller[c].pc \in {"slot", "sleep"}
    /\ line' = RemoveFirst(line, c)
    /\ waiting' = waiting - 1
    /\ Ends(c, "idle")
    /\ UNCHANGED bucketVars

-----------------------------------------------------------------------------
\* try_acquire: a slot nobody in line has been given, else Busy and no step.
TryAcquire(c) ==
    /\ caller[c].pc = "idle"
    /\ FreeSlots > Len(line)
    /\ Reads(c, "tryTake")
    /\ UNCHANGED <<waiting, line, bucketVars>>

TryTake(c) ==
    LET b == Refilled(caller[c].lag) IN
    /\ caller[c].pc = "tryTake"
    /\ age' = b.age
    /\ IF b.tokens >= MilliToken
       THEN /\ tokens' = b.tokens - MilliToken
            /\ Charge
            /\ Ends(c, "held")
       ELSE tokens' = b.tokens /\ Ends(c, "idle") /\ UNCHANGED reference
    /\ UNCHANGED <<waiting, line>>

\* usage() called for its own sake.
ReadUsage(c) ==
    /\ caller[c].pc = "idle"
    /\ Reads(c, "reading")
    /\ UNCHANGED <<waiting, line, bucketVars>>

Usage(c) ==
    LET b == Refilled(caller[c].lag) IN
    /\ caller[c].pc = "reading"
    /\ tokens' = b.tokens
    /\ age' = b.age
    /\ Ends(c, "idle")
    /\ UNCHANGED <<waiting, line, reference>>

\* The permit is dropped: its slot comes back, its token does not.
Release(c) ==
    /\ caller[c].pc = "held"
    /\ Ends(c, "idle")
    /\ UNCHANGED <<waiting, line, bucketVars>>

HasRead(c) == caller[c].pc \in {"peek", "gauge", "take", "tryTake", "reading"}

Tick ==
    /\ \A c \in Callers : HasRead(c) => caller[c].lag < MaxLag
    /\ age' = Lesser(age + 1, AgeCap)
    /\ credit' = Lesser(credit + PerInterval, Capacity * Interval)
    /\ caller' = [c \in Callers |->
          [caller[c] EXCEPT !.left = IF @ > 0 THEN @ - 1 ELSE 0,
                            !.wake = IF @ > 0 THEN @ - 1 ELSE 0,
                            !.lag = IF HasRead(c) THEN @ + 1 ELSE 0]]
    /\ UNCHANGED <<tokens, waiting, line, overdrawn>>

AcquireStep(c) ==
    \/ Refuse(c) \/ GetSlot(c) \/ MissSlot(c) \/ Peek(c) \/ Warn(c)
    \/ \E refuse \in BOOLEAN : Observe(c, refuse)
    \/ ReadClock(c) \/ TakeToken(c) \/ Wake(c)

Next ==
    \/ \E c \in Callers :
          \/ Enter(c) \/ AcquireStep(c) \/ Cancel(c) \/ Release(c)
          \/ TryAcquire(c) \/ TryTake(c) \/ ReadUsage(c) \/ Usage(c)
    \/ Tick

Spec == Init /\ [][Next]_vars

\* A runnable future is polled, and time diverges.  Nobody has to release a
\* permit: the wait budget is what ends a wait.
FairSpec ==
    /\ Spec
    /\ \A c \in Callers : WF_vars(AcquireStep(c)) /\ WF_vars(TryTake(c)) /\ WF_vars(Usage(c))
    /\ []<><<Tick>>_vars

-----------------------------------------------------------------------------
\* The bucket stays in its range and its mark never lies in the future.
TypeOK ==
    /\ tokens \in 0..Capacity
    /\ age \in 0..AgeCap
    /\ waiting \in 0..Cardinality(Callers)
    /\ FreeSlots \in 0..MaxConcurrent
    /\ \A c \in Callers : caller[c].left \in 0..MaxWait /\ caller[c].wake \in 0..MaxWait

\* The counter that bounds the queue counts exactly the callers inside
\* acquire(), whichever way they leave, and no more than max_waiters of them
\* are parked (rate_limit.rs acquire, WaiterGuard).
WaitersBounded ==
    /\ waiting = Cardinality({c \in Callers : Inside(c)})
    /\ Cardinality({c \in Callers : Parked(c)}) <= MaxWaiters

\* The counters stay within their bounds: waiters, permits, the bucket.
WithinBounds == TypeOK /\ WaitersBounded

\* Every caller of acquire() is answered within its budget even when no
\* permit ever comes back and others keep taking the tokens.
AcquireAnswers == \A c \in Callers : (caller[c].pc = "slot") ~> ~Parked(c)

\* The limiter never grants more than the burst plus the configured rate:
\* an exact bucket would have granted everything this one did.
Quota == ~overdrawn

\* "a slow trickle cannot starve": refilled to now, the bucket is never a
\* whole thousandth behind the exact one, however often and however late it
\* is polled (rate_limit.rs refill keeps the remainder).
NothingLost == credit < (Refilled(0).tokens + 1) * Interval

\* The bucket mints no more than the burst and the elapsed share, and loses
\* nothing of it to its own rounding, however often it is asked (refill).
BucketIsExact == Quota /\ NothingLost
=============================================================================
