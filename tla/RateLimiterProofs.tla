-------------------------- MODULE RateLimiterProofs --------------------------
(***************************************************************************)
(* What the rate limiter keeps true for any rate, burst, slots and callers *)
(* and in any order of their steps.                                        *)
(***************************************************************************)
EXTENDS RateLimiter, FiniteLemmas

\* Integer division.
LEMMA Quotient ==
    ASSUME NEW a \in Nat, NEW b \in Nat \ {0}
    PROVE  /\ a \div b \in Nat
           /\ (a \div b) * b <= a
           /\ a < (a \div b) * b + b
           /\ a = b * (a \div b) + (a % b)
<1>1. a = b * (a \div b) + (a % b) /\ a % b \in 0..(b - 1) /\ a \div b \in Int
  BY SMT
<1>2. QED
  BY <1>1, SMT

\* A quotient lies at or below whatever its dividend fits in.
LEMMA QuotientBelow ==
    ASSUME NEW a \in Nat, NEW b \in Nat \ {0}, NEW c \in Nat
    PROVE  /\ a \div b >= c <=> a >= c * b
           /\ a <= c * b => a \div b <= c
<1>1. a \div b \in Nat /\ (a \div b) * b <= a /\ a < (a \div b) * b + b
  BY Quotient
<1>2. ASSUME NEW q \in Nat, q * b <= a, a < q * b + b
      PROVE  /\ q >= c <=> a >= c * b
             /\ a <= c * b => q <= c
  <2>1. q >= c => q * b >= c * b
    BY SMT
  <2>2. q < c => q * b + b <= c * b
    <3>1. q + 1 <= c => (q + 1) * b <= c * b
      BY SMT
    <3>2. QED
      BY <3>1, SMT
  <2>3. QED
    BY <1>2, <2>1, <2>2, SMT
<1>3. QED
  BY <1>1, <1>2

\* The sizes a configuration fixes.
LEMMA Constants ==
    /\ {PerInterval, Capacity, Interval, MilliToken, MaxWait} \subseteq Nat \ {0}
    /\ AgeCap \in Nat /\ MaxLag \in 0..AgeCap
    /\ Capacity * Interval <= AgeCap * PerInterval
<1>1. {PerInterval, Capacity, Interval, MilliToken, MaxWait} \subseteq Nat \ {0}
  BY RateAssumption DEF PerInterval, Capacity
<1> DEFINE full == Capacity * Interval
           q == full \div PerInterval
<1>2. full \in Nat
  BY <1>1
<1> HIDE DEF full
<1>3. q \in Nat /\ full < q * PerInterval + PerInterval
  BY <1>1, <1>2, Quotient
<1> HIDE DEF q
<1>4. AgeCap = q + 1 + MaxLag /\ MaxLag \in Nat
  BY RateAssumption DEF AgeCap, q, full
<1>5. (q + 1) * PerInterval <= AgeCap * PerInterval
  BY <1>1, <1>3, <1>4, SMT
<1>6. (q + 1) * PerInterval = q * PerInterval + PerInterval
  BY <1>1, <1>3, SMT
<1>7. full <= AgeCap * PerInterval
  BY <1>1, <1>2, <1>3, <1>4, <1>5, <1>6, SMT
<1>8. QED
  BY <1>1, <1>3, <1>4, <1>7 DEF full

-----------------------------------------------------------------------------
\* What the bucket holds once refilled to now, in 1/Interval of a thousandth.
Worth(b) == b.tokens * Interval + b.age * PerInterval

Bucket == [tokens |-> tokens, age |-> age]

Bounded == tokens \in 0..Capacity /\ age \in 0..AgeCap

\* A refill keeps the bucket in its range; it loses nothing that had come by,
\* and adds nothing where a thousandth takes a whole number of ticks or a tick
\* brings a whole number of thousandths.
LEMMA RefilledIs ==
    ASSUME Bounded, NEW lag \in 0..MaxLag
    PROVE  LET b == Refilled(lag)
           IN  /\ b = [tokens |-> b.tokens, age |-> b.age]
               /\ b.tokens \in 0..Capacity /\ b.age \in 0..AgeCap
               /\ Worth(b) >= Worth(Bucket) \/ Worth(b) >= Capacity * Interval
               /\ lag = 0 /\ (Interval % PerInterval = 0 \/ PerInterval % Interval = 0) =>
                     /\ Worth(b) <= Capacity * Interval
                     /\ Worth(b) <= Worth(Bucket)
<1> DEFINE b == Refilled(lag)
           gain == Gain(lag)
           spent == (gain * Interval) \div PerInterval
           elapsed == Elapsed(lag)
           Exact == Interval % PerInterval = 0 \/ PerInterval % Interval = 0
<1>1. /\ {PerInterval, Capacity, Interval} \subseteq Nat \ {0}
      /\ AgeCap \in Nat /\ MaxLag \in 0..AgeCap
  BY Constants
<1>2. /\ elapsed \in Nat /\ elapsed <= age /\ tokens \in Nat /\ age \in Nat /\ lag \in Nat
      /\ lag = 0 => elapsed = age
  BY <1>1 DEF Elapsed, Bounded
<1>3. gain = (elapsed * PerInterval) \div Interval
  BY DEF Gain
<1> HIDE DEF elapsed
<1>4. elapsed * PerInterval \in Nat
  BY <1>1, <1>2
<1>5. /\ gain \in Nat
      /\ gain * Interval <= elapsed * PerInterval
      /\ elapsed * PerInterval < gain * Interval + Interval
  BY <1>1, <1>3, <1>4, Quotient
<1>6. b = IF gain >= Capacity - tokens THEN [tokens |-> Capacity, age |-> lag]
          ELSE [tokens |-> tokens + gain, age |-> age - spent]
  BY DEF Refilled
<1> HIDE DEF gain
<1>7. gain * Interval \in Nat
  BY <1>1, <1>5
<1>8. /\ spent \in Nat /\ spent * PerInterval <= gain * Interval
      /\ gain * Interval < spent * PerInterval + PerInterval
      /\ spent <= elapsed
  <2>1. spent \in Nat /\ spent * PerInterval <= gain * Interval
        /\ gain * Interval < spent * PerInterval + PerInterval
    BY <1>1, <1>7, Quotient
  <2>2. spent <= elapsed
    BY <1>1, <1>2, <1>5, <1>7, QuotientBelow
  <2>3. QED
    BY <2>1, <2>2
<1>9. CASE gain >= Capacity - tokens
  <2>1. b = [tokens |-> Capacity, age |-> lag]
    BY <1>6, <1>9
  <2> HIDE DEF b
  <2>2. b.tokens = Capacity /\ b.age = lag /\ b = [tokens |-> b.tokens, age |-> b.age]
    BY <2>1
  <2>3. Worth(b) = Capacity * Interval + lag * PerInterval
    BY <2>2 DEF Worth
  <2>4. lag * PerInterval \in Nat /\ Capacity * Interval \in Nat
        /\ lag = 0 => lag * PerInterval = 0
    BY <1>1, <1>2
  <2>5. lag = 0 => Capacity * Interval <= Worth(Bucket)
    <3>1. (Capacity - tokens) * Interval <= gain * Interval
      BY <1>1, <1>2, <1>5, <1>9, SMT DEF Bounded
    <3>2. (Capacity - tokens) * Interval = Capacity * Interval - tokens * Interval
      BY <1>1, <1>2, SMT DEF Bounded
    <3>3. Worth(Bucket) = tokens * Interval + age * PerInterval
      BY DEF Worth, Bucket
    <3>4. tokens * Interval \in Nat
      BY <1>1, <1>2
    <3>5. QED
      BY <1>1, <1>2, <1>4, <1>5, <1>7, <2>4, <3>1, <3>2, <3>3, <3>4
  <2>6. lag \in 0..AgeCap
    BY <1>1, <1>2
  <2>7. QED
    BY <1>1, <2>2, <2>3, <2>4, <2>5, <2>6 DEF b
<1>10. CASE ~(gain >= Capacity - tokens)
  <2>1. b = [tokens |-> tokens + gain, age |-> age - spent]
    BY <1>6, <1>10
  <2> HIDE DEF b, spent
  <2>2. b.tokens = tokens + gain /\ b.age = age - spent /\ b = [tokens |-> b.tokens, age |-> b.age]
    BY <2>1
  <2>3. b.tokens \in 0..Capacity /\ b.age \in 0..AgeCap
    BY <1>1, <1>2, <1>5, <1>8, <1>10, <2>2 DEF Bounded
  <2>4. /\ (tokens + gain) * Interval = tokens * Interval + gain * Interval
        /\ (age - spent) * PerInterval = age * PerInterval - spent * PerInterval
    BY <1>1, <1>2, <1>5, <1>8, SMT
  <2>5. /\ tokens * Interval \in Nat /\ age * PerInterval \in Nat
        /\ spent * PerInterval \in Nat
    BY <1>1, <1>2, <1>8
  <2>6. Worth(b) = Worth(Bucket) + (gain * Interval - spent * PerInterval)
    <3>1. Worth(Bucket) = tokens * Interval + age * PerInterval
      BY DEF Worth, Bucket
    <3>2. Worth(b) = (tokens + gain) * Interval + (age - spent) * PerInterval
      BY <2>2 DEF Worth
    <3>3. QED
      BY <1>7, <2>4, <2>5, <3>1, <3>2
  <2>7. Worth(Bucket) \in Nat
    BY <2>5 DEF Worth, Bucket
  <2>8. Exact /\ lag = 0 => gain * Interval = spent * PerInterval /\ Worth(b) <= Capacity * Interval
    <3>1. ASSUME lag = 0
          PROVE  Worth(Bucket) < Capacity * Interval
      <4>1. Worth(Bucket) < tokens * Interval + gain * Interval + Interval
        BY <1>2, <1>5, <1>7, <2>5, <3>1, <1>1 DEF Worth, Bucket
      <4>2. (tokens + gain + 1) * Interval <= Capacity * Interval
        BY <1>1, <1>2, <1>5, <1>10, SMT DEF Bounded
      <4>3. (tokens + gain + 1) * Interval = tokens * Interval + gain * Interval + Interval
        BY <1>1, <1>2, <1>5, SMT
      <4>4. QED
        BY <1>1, <1>7, <2>5, <2>7, <4>1, <4>2, <4>3
    <3>2. ASSUME Interval % PerInterval = 0
          PROVE  gain * Interval = spent * PerInterval
      <4>1. PICK k \in Nat : Interval = k * PerInterval
        <5>1. Interval = PerInterval * (Interval \div PerInterval) + (Interval % PerInterval)
              /\ Interval \div PerInterval \in Nat
          BY <1>1, Quotient
        <5>2. QED
          BY <1>1, <3>2, <5>1, SMT
      <4>2. gain * Interval = (gain * k) * PerInterval /\ gain * k \in Nat
        BY <1>1, <1>5, <4>1, SMT
      <4>3. spent >= gain * k
        BY <1>1, <1>7, <4>2, QuotientBelow DEF spent
      <4>4. spent * PerInterval >= (gain * k) * PerInterval
        BY <1>1, <1>8, <4>2, <4>3, SMT
      <4>5. QED
        BY <1>7, <1>8, <2>5, <4>2, <4>4
    <3>3. ASSUME PerInterval % Interval = 0, lag = 0
          PROVE  gain * Interval = spent * PerInterval
      <4>1. PICK k \in Nat : PerInterval = k * Interval
        <5>1. PerInterval = Interval * (PerInterval \div Interval) + (PerInterval % Interval)
              /\ PerInterval \div Interval \in Nat
          BY <1>1, Quotient
        <5>2. QED
          BY <1>1, <3>3, <5>1, SMT
      <4>2. elapsed * PerInterval = (elapsed * k) * Interval /\ elapsed * k \in Nat
        BY <1>1, <1>2, <4>1, SMT
      <4>3. gain >= elapsed * k
        BY <1>1, <1>3, <1>4, <4>2, QuotientBelow
      <4>4. gain * Interval >= (elapsed * k) * Interval
        BY <1>1, <1>5, <4>2, <4>3, SMT
      <4>5. spent >= elapsed
        BY <1>1, <1>2, <1>4, <1>7, <4>2, <4>4, QuotientBelow DEF spent
      <4>6. spent * PerInterval >= elapsed * PerInterval
        BY <1>1, <1>2, <1>8, <4>5, SMT
      <4>7. QED
        BY <1>4, <1>5, <1>7, <1>8, <2>5, <4>6
    <3>4. ASSUME gain * Interval = spent * PerInterval, lag = 0
          PROVE  Worth(b) <= Capacity * Interval
      <4>1. Worth(b) = Worth(Bucket)
        BY <1>7, <2>5, <2>6, <2>7, <3>4
      <4>2. Capacity * Interval \in Nat
        BY <1>1
      <4>3. QED
        BY <2>7, <3>1, <3>4, <4>1, <4>2
    <3>5. QED
      BY <3>2, <3>3, <3>4
  <2>9. QED
    BY <1>7, <1>8, <2>2, <2>3, <2>5, <2>6, <2>7, <2>8 DEF b
<1>11. QED
  BY <1>9, <1>10

-----------------------------------------------------------------------------
(* The bucket and the exact one.                                           *)

Full == Capacity * Interval

\* The bucket is in its range and never behind the exact one.
BucketInv ==
    /\ Bounded
    /\ credit \in 0..Full
    /\ overdrawn \in BOOLEAN
    /\ credit <= Worth(Bucket)

\* Nor is the exact one behind it, unless it is full.
ExactInv == ~overdrawn /\ (credit = Full \/ Worth(Bucket) <= credit)

\* Where no thousandth is rounded and a reading is used at once.
Exact == MaxLag = 0 /\ (Interval % PerInterval = 0 \/ PerInterval % Interval = 0)

Refills(lag) ==
    /\ tokens' = Refilled(lag).tokens /\ age' = Refilled(lag).age
    /\ UNCHANGED reference

Grants(lag) ==
    /\ Refilled(lag).tokens >= MilliToken
    /\ tokens' = Refilled(lag).tokens - MilliToken /\ age' = Refilled(lag).age
    /\ Charge

Ages ==
    /\ age' = Lesser(age + 1, AgeCap)
    /\ credit' = Lesser(credit + PerInterval, Capacity * Interval)
    /\ UNCHANGED <<tokens, overdrawn>>

\* A refill that spends nothing.
LEMMA RefillsKeep ==
    ASSUME BucketInv, NEW lag \in 0..MaxLag, Refills(lag)
    PROVE  BucketInv' /\ (Exact /\ ExactInv => ExactInv')
<1> DEFINE b == Refilled(lag)
<1>1. /\ b.tokens \in 0..Capacity /\ b.age \in 0..AgeCap
      /\ Worth(b) >= Worth(Bucket) \/ Worth(b) >= Full
      /\ Exact => Worth(b) <= Full /\ Worth(b) <= Worth(Bucket)
  BY RefilledIs DEF BucketInv, Exact, Full
<1> HIDE DEF b
<1>2. tokens' = b.tokens /\ age' = b.age /\ credit' = credit /\ overdrawn' = overdrawn
  BY DEF Refills, reference, b
<1>3. Worth(Bucket)' = Worth(b)
  BY <1>2 DEF Worth, Bucket
<1>4. Full' = Full /\ Full \in Nat
  BY Constants DEF Full
<1>5. Worth(b) \in Nat /\ Worth(Bucket) \in Nat
  BY <1>1, Constants DEF Worth, Bucket, BucketInv, Bounded
<1>6. BucketInv'
  BY <1>1, <1>2, <1>3, <1>4, <1>5 DEF BucketInv, Bounded
<1>7. ASSUME Exact, ExactInv PROVE ExactInv'
  BY <1>1, <1>2, <1>3, <1>4, <1>5, <1>7 DEF ExactInv, BucketInv
<1>8. QED
  BY <1>6, <1>7

\* A token that is granted: the exact bucket holds its price where the two
\* agree, and is charged it.
LEMMA GrantsKeep ==
    ASSUME BucketInv, NEW lag \in 0..MaxLag, Grants(lag)
    PROVE  BucketInv' /\ (Exact /\ ExactInv => ExactInv')
<1> DEFINE b == Refilled(lag)
           price == MilliToken * Interval
           worth == Worth(b)
<1>1. /\ b.tokens \in 0..Capacity /\ b.age \in 0..AgeCap
      /\ Worth(b) >= Worth(Bucket) \/ Worth(b) >= Full
      /\ Exact => Worth(b) <= Full /\ Worth(b) <= Worth(Bucket)
  BY RefilledIs DEF BucketInv, Exact, Full
<1> HIDE DEF b
<1>2. /\ b.tokens >= MilliToken /\ tokens' = b.tokens - MilliToken /\ age' = b.age
      /\ credit' = IF credit > price THEN credit - price ELSE 0
      /\ overdrawn' = (overdrawn \/ credit < price)
  BY DEF Grants, Charge, b
<1>3. MilliToken \in Nat \ {0} /\ Interval \in Nat \ {0} /\ PerInterval \in Nat
      /\ Full \in Nat /\ Full' = Full /\ price \in Nat
  BY Constants DEF Full
<1>4. worth \in Nat /\ Worth(Bucket) \in Nat
  BY <1>1, <1>3 DEF Worth, Bucket, BucketInv, Bounded
<1>5. Worth(Bucket)' = worth - price /\ price <= worth
  <2>1. Worth(Bucket)' = (b.tokens - MilliToken) * Interval + b.age * PerInterval
    BY <1>2 DEF Worth, Bucket
  <2>2. worth = b.tokens * Interval + b.age * PerInterval
    BY DEF Worth
  <2>3. (b.tokens - MilliToken) * Interval = b.tokens * Interval - price
    BY <1>1, <1>3, SMT
  <2>4. price <= b.tokens * Interval
    BY <1>1, <1>2, <1>3, SMT
  <2>5. b.tokens * Interval \in Nat /\ b.age * PerInterval \in Nat
    BY <1>1, <1>3
  <2>6. QED
    BY <1>3, <2>1, <2>2, <2>3, <2>4, <2>5
<1> HIDE DEF price, worth
<1>6. credit \in 0..Full /\ credit <= Worth(Bucket) /\ overdrawn \in BOOLEAN
  BY DEF BucketInv
<1>7. BucketInv'
  <2>1. Bounded'
    <3>1. Capacity \in Nat /\ AgeCap \in Nat
      BY Constants
    <3>2. b.tokens - MilliToken \in 0..Capacity
      BY <1>1, <1>2, <1>3, <3>1
    <3>3. QED
      BY <1>1, <1>2, <3>2 DEF Bounded
  <2>2. credit' \in 0..Full /\ credit' <= worth - price
    BY <1>1, <1>2, <1>3, <1>4, <1>5, <1>6 DEF worth
  <2>3. overdrawn' \in BOOLEAN
    BY <1>2, <1>6
  <2>4. QED
    BY <1>3, <1>5, <2>1, <2>2, <2>3 DEF BucketInv
<1>8. ASSUME Exact, ExactInv PROVE ExactInv'
  <2>1. worth <= credit
    BY <1>1, <1>3, <1>4, <1>6, <1>8 DEF ExactInv, worth
  <2>2. credit >= price
    BY <1>3, <1>4, <1>5, <1>6, <2>1
  <2>3. ~overdrawn' /\ credit' = credit - price
    BY <1>2, <1>3, <1>6, <1>8, <2>2 DEF ExactInv
  <2>4. QED
    BY <1>3, <1>4, <1>5, <1>6, <2>1, <2>3 DEF ExactInv
<1>9. QED
  BY <1>7, <1>8

\* A tick brings both the same share.
LEMMA AgesKeep ==
    ASSUME BucketInv, Ages
    PROVE  BucketInv' /\ (ExactInv => ExactInv')
<1>1. /\ {PerInterval, Capacity, Interval} \subseteq Nat \ {0} /\ AgeCap \in Nat
      /\ Full \in Nat /\ Full' = Full /\ Full <= AgeCap * PerInterval
  BY Constants DEF Full
<1>2. /\ tokens \in 0..Capacity /\ age \in 0..AgeCap /\ credit \in 0..Full
      /\ overdrawn \in BOOLEAN /\ credit <= Worth(Bucket)
  BY DEF BucketInv, Bounded
<1>3. /\ tokens' = tokens /\ overdrawn' = overdrawn
      /\ age' = IF age + 1 < AgeCap THEN age + 1 ELSE AgeCap
      /\ credit' = IF credit + PerInterval < Full THEN credit + PerInterval ELSE Full
  BY DEF Ages, Lesser, Full
<1>4. /\ Worth(Bucket) = tokens * Interval + age * PerInterval
      /\ Worth(Bucket)' = tokens * Interval + age' * PerInterval
      /\ tokens * Interval \in Nat /\ age * PerInterval \in Nat /\ AgeCap * PerInterval \in Nat
  BY <1>1, <1>2, <1>3 DEF Worth, Bucket
<1>5. (age + 1) * PerInterval = age * PerInterval + PerInterval
  BY <1>1, <1>2, SMT
<1>6. CASE age' = age + 1
  BY <1>1, <1>2, <1>3, <1>4, <1>5, <1>6 DEF BucketInv, ExactInv, Bounded
<1>7. CASE age' # age + 1
  <2>1. age' = AgeCap /\ age = AgeCap
    BY <1>1, <1>2, <1>3, <1>7
  <2>2. Worth(Bucket)' = Worth(Bucket) /\ Full <= Worth(Bucket)
    BY <1>1, <1>4, <2>1
  <2>3. BucketInv'
    BY <1>1, <1>2, <1>3, <1>4, <2>1, <2>2 DEF BucketInv, Bounded
  <2>4. ExactInv => ExactInv'
    BY <1>1, <1>2, <1>3, <1>4, <2>1, <2>2 DEF ExactInv
  <2>5. QED
    BY <2>3, <2>4
<1>8. QED
  BY <1>6, <1>7

-----------------------------------------------------------------------------
(* The callers.                                                            *)

CallerType ==
    [pc : {"idle", "refused", "slot", "peek", "warn", "gauge", "token", "take", "sleep",
           "tryTake", "held", "reading"},
     left : 0..MaxWait, wake : 0..MaxWait, lag : 0..MaxLag, admitted : Nat]

CallersInv == line \in Seq(Callers) /\ caller \in [Callers -> CallerType]

Insiders == {c \in Callers : Inside(c)}
Parkers == {c \in Callers : Parked(c)}
Slots == {c \in Callers : HasSlot(c)}

CountInv ==
    /\ waiting = Cardinality(Insiders)
    /\ Cardinality(Parkers) <= MaxWaiters
    /\ Cardinality(Slots) <= MaxConcurrent

\* Two sets of callers that differ at most in one of them.
LEMMA OneMoves ==
    ASSUME NEW S \in SUBSET Callers, NEW T \in SUBSET Callers, NEW c \in Callers,
           \A q \in Callers : q # c => (q \in S <=> q \in T)
    PROVE  /\ Cardinality(S) \in Nat /\ Cardinality(T) \in Nat
           /\ Cardinality(T) <= Cardinality(Callers)
           /\ c \in S /\ c \in T => Cardinality(T) = Cardinality(S)
           /\ c \notin S /\ c \notin T => Cardinality(T) = Cardinality(S)
           /\ c \notin S /\ c \in T => Cardinality(T) = Cardinality(S) + 1
           /\ c \in S /\ c \notin T => Cardinality(T) = Cardinality(S) - 1
<1>1. IsFiniteSet(Callers) /\ IsFiniteSet(S) /\ IsFiniteSet(T)
  BY RateAssumption, FS_Subset
<1>2. Cardinality(S) \in Nat /\ Cardinality(T) \in Nat /\ Cardinality(T) <= Cardinality(Callers)
  BY <1>1, FS_CardinalityType, FS_Subset
<1>3. (c \in S <=> c \in T) => S = T
  OBVIOUS
<1>4. ASSUME c \notin S, c \in T PROVE Cardinality(T) = Cardinality(S) + 1
  <2>1. T = S \cup {c}
    BY <1>4
  <2>2. QED
    BY <1>1, <1>4, <2>1, FS_AddElement
<1>5. ASSUME c \in S, c \notin T PROVE Cardinality(T) = Cardinality(S) - 1
  <2>1. S = T \cup {c}
    BY <1>5
  <2>2. Cardinality(S) = Cardinality(T) + 1
    BY <1>1, <1>5, <2>1, FS_AddElement
  <2>3. QED
    BY <1>2, <2>2
<1>6. QED
  BY <1>2, <1>3, <1>4, <1>5

\* One caller moves: it is counted in or out as it enters or leaves acquire(),
\* parks only where there is room, and takes a slot only where one is free.
LEMMA CountKeeps ==
    ASSUME CallersInv, CountInv, NEW c \in Callers,
           \A q \in Callers : q # c => caller'[q] = caller[q],
           waiting' = waiting + (IF Inside(c)' THEN 1 ELSE 0) - (IF Inside(c) THEN 1 ELSE 0),
           Parked(c)' => Parked(c) \/ waiting' <= MaxWaiters,
           HasSlot(c)' => HasSlot(c) \/ FreeSlots >= 1
    PROVE  CountInv'
<1>1. /\ Insiders \in SUBSET Callers /\ Insiders' \in SUBSET Callers
      /\ Parkers \in SUBSET Callers /\ Parkers' \in SUBSET Callers /\ Parkers' \subseteq Insiders'
      /\ Slots \in SUBSET Callers /\ Slots' \in SUBSET Callers
  BY DEF Insiders, Parkers, Slots, Parked
<1>2. \A q \in Callers : q # c => /\ q \in Insiders <=> q \in Insiders'
                                  /\ q \in Parkers <=> q \in Parkers'
                                  /\ q \in Slots <=> q \in Slots'
  BY DEF Insiders, Parkers, Slots, Inside, Parked, HasSlot
<1>3. /\ c \in Insiders <=> Inside(c)
      /\ c \in Insiders' <=> Inside(c)'
      /\ c \in Parkers <=> Parked(c)
      /\ c \in Parkers' <=> Parked(c)'
      /\ c \in Slots <=> HasSlot(c)
      /\ c \in Slots' <=> HasSlot(c)'
  BY DEF Insiders, Parkers, Slots
<1>4. MaxWaiters \in Nat /\ MaxConcurrent \in Nat
  BY RateAssumption
<1>5. FreeSlots = MaxConcurrent - Cardinality(Slots)
  BY DEF FreeSlots, Slots
<1> HIDE DEF Insiders, Parkers, Slots
<1>6. waiting' = Cardinality(Insiders')
  <2>1. /\ Cardinality(Insiders) \in Nat /\ Cardinality(Insiders') \in Nat
        /\ c \in Insiders /\ c \in Insiders' => Cardinality(Insiders') = Cardinality(Insiders)
        /\ c \notin Insiders /\ c \notin Insiders' => Cardinality(Insiders') = Cardinality(Insiders)
        /\ c \notin Insiders /\ c \in Insiders' => Cardinality(Insiders') = Cardinality(Insiders) + 1
        /\ c \in Insiders /\ c \notin Insiders' => Cardinality(Insiders') = Cardinality(Insiders) - 1
    BY <1>1, <1>2, OneMoves
  <2>2. waiting = Cardinality(Insiders)
    BY DEF CountInv
  <2>3. QED
    BY <1>3, <2>1, <2>2
<1>7. Cardinality(Parkers') <= MaxWaiters
  <2>1. /\ Cardinality(Parkers) \in Nat /\ Cardinality(Parkers') \in Nat
        /\ c \in Parkers /\ c \in Parkers' => Cardinality(Parkers') = Cardinality(Parkers)
        /\ c \notin Parkers /\ c \notin Parkers' => Cardinality(Parkers') = Cardinality(Parkers)
        /\ c \in Parkers /\ c \notin Parkers' => Cardinality(Parkers') = Cardinality(Parkers) - 1
    BY <1>1, <1>2, OneMoves
  <2>2. IsFiniteSet(Insiders') /\ Cardinality(Insiders') \in Nat
    BY <1>1, RateAssumption, FS_Subset, FS_CardinalityType
  <2>3. Cardinality(Parkers') <= Cardinality(Insiders')
    BY <1>1, <2>2, FS_Subset
  <2>4. Cardinality(Parkers) <= MaxWaiters
    BY DEF CountInv
  <2>5. CASE c \notin Parkers /\ c \in Parkers'
    BY <1>3, <1>4, <1>6, <2>1, <2>2, <2>3, <2>5
  <2>6. QED
    BY <1>4, <2>1, <2>4, <2>5
<1>8. Cardinality(Slots') <= MaxConcurrent
  <2>1. /\ Cardinality(Slots) \in Nat /\ Cardinality(Slots') \in Nat
        /\ c \in Slots /\ c \in Slots' => Cardinality(Slots') = Cardinality(Slots)
        /\ c \notin Slots /\ c \notin Slots' => Cardinality(Slots') = Cardinality(Slots)
        /\ c \notin Slots /\ c \in Slots' => Cardinality(Slots') = Cardinality(Slots) + 1
        /\ c \in Slots /\ c \notin Slots' => Cardinality(Slots') = Cardinality(Slots) - 1
    BY <1>1, <1>2, OneMoves
  <2>2. Cardinality(Slots) <= MaxConcurrent
    BY DEF CountInv
  <2>3. QED
    BY <1>3, <1>4, <1>5, <2>1, <2>2
<1>9. QED
  BY <1>6, <1>7, <1>8 DEF CountInv

\* A caller that moves on stays one.
LEMMA MovesOn ==
    ASSUME CallersInv, NEW c \in Callers,
           NEW pc \in {"idle", "refused", "slot", "peek", "warn", "gauge", "token", "take",
                       "sleep", "tryTake", "held", "reading"},
           Goes(c, pc) \/ Reads(c, pc) \/ Ends(c, pc)
    PROVE  /\ caller' \in [Callers -> CallerType]
           /\ caller'[c].pc = pc
           /\ \A q \in Callers : q # c => caller'[q] = caller[q]
<1>1. caller \in [Callers -> CallerType] /\ caller[c] \in CallerType
  BY DEF CallersInv
<1>2. MaxWait \in Nat /\ MaxLag \in Nat
  BY RateAssumption
<1>3. \E d \in CallerType : d.pc = pc /\ caller' = [caller EXCEPT ![c] = d]
  <2>1. CASE Goes(c, pc)
    <3>1. caller' = [caller EXCEPT ![c] = [caller[c] EXCEPT !.pc = pc]]
      BY <2>1 DEF Goes
    <3>2. [caller[c] EXCEPT !.pc = pc] \in CallerType /\ [caller[c] EXCEPT !.pc = pc].pc = pc
      BY <1>1 DEF CallerType
    <3>3. QED
      BY <3>1, <3>2
  <2>2. CASE Reads(c, pc)
    <3> DEFINE d == [caller[c] EXCEPT !.pc = pc]
               e == [d EXCEPT !.lag = 0]
    <3>1. caller' = [caller EXCEPT ![c] = e]
      BY <1>1, <2>2 DEF Reads
    <3>2. d \in CallerType /\ d.pc = pc
      BY <1>1 DEF CallerType
    <3> HIDE DEF d
    <3>3. e \in CallerType /\ e.pc = pc
      BY <1>2, <3>2 DEF CallerType
    <3>4. QED
      BY <3>1, <3>3
  <2>3. CASE Ends(c, pc)
    <3> DEFINE e == [pc |-> pc, left |-> 0, wake |-> 0, lag |-> 0, admitted |-> 0]
    <3>1. [Idle EXCEPT !.pc = pc] = e
      <4>1. Idle = [pc |-> "idle", left |-> 0, wake |-> 0, lag |-> 0, admitted |-> 0]
        BY DEF Idle
      <4>2. QED
        BY <4>1, SMT
    <3>2. e \in CallerType /\ e.pc = pc
      BY <1>2 DEF CallerType
    <3>3. QED
      BY <2>3, <3>1, <3>2 DEF Ends
  <2>4. QED
    BY <2>1, <2>2, <2>3
<1>4. QED
  BY <1>1, <1>3

\* A caller that leaves the line leaves a line.
LEMMA LeavesLine ==
    ASSUME line \in Seq(Callers), NEW c
    PROVE  RemoveFirst(line, c) \in Seq(Callers)
<1> DEFINE I == {i \in 1..Len(line) : line[i] = c}
           i == Min(I)
<1>1. CASE I = {}
  BY <1>1 DEF RemoveFirst
<1>2. CASE I # {}
  <2>1. i \in I
    <3>1. I \in SUBSET Nat
      OBVIOUS
    <3> HIDE DEF I
    <3>2. QED
      BY <1>2, <3>1, MinOfNats
  <2>2. RemoveFirst(line, c) = SubSeq(line, 1, i - 1) \o SubSeq(line, i + 1, Len(line))
    BY <1>2 DEF RemoveFirst, RemoveAt, SelectInSeq
  <2>3. i \in 1..Len(line) /\ Len(line) \in Nat
    BY <2>1
  <2> HIDE DEF i
  <2>4. SubSeq(line, 1, i - 1) \in Seq(Callers) /\ SubSeq(line, i + 1, Len(line)) \in Seq(Callers)
    BY <2>3
  <2>5. QED
    BY <2>2, <2>4
<1>3. QED
  BY <1>1, <1>2

-----------------------------------------------------------------------------
Inv == BucketInv /\ CallersInv /\ CountInv

\* A step of one caller, from its parts.
LEMMA StepKeeps ==
    ASSUME Inv, NEW c \in Callers,
           caller' \in [Callers -> CallerType],
           \A q \in Callers : q # c => caller'[q] = caller[q],
           line' \in Seq(Callers),
           waiting' = waiting + (IF Inside(c)' THEN 1 ELSE 0) - (IF Inside(c) THEN 1 ELSE 0),
           Parked(c)' => Parked(c) \/ waiting' <= MaxWaiters,
           HasSlot(c)' => HasSlot(c) \/ FreeSlots >= 1,
           \/ UNCHANGED bucketVars
           \/ Refills(caller[c].lag)
           \/ Grants(caller[c].lag)
    PROVE  Inv' /\ (Exact /\ ExactInv => ExactInv')
<1>1. CallersInv' /\ CountInv'
  BY CountKeeps DEF Inv, CallersInv
<1>2. caller[c].lag \in 0..MaxLag
  BY DEF Inv, CallersInv, CallerType
<1>3. BucketInv' /\ (Exact /\ ExactInv => ExactInv')
  <2>1. CASE UNCHANGED bucketVars
    BY <2>1 DEF Inv, BucketInv, ExactInv, Bounded, Worth, Bucket, Full, Capacity, PerInterval,
                AgeCap, bucketVars, reference
  <2>2. CASE Refills(caller[c].lag)
    BY <1>2, <2>2, RefillsKeep DEF Inv
  <2>3. CASE Grants(caller[c].lag)
    BY <1>2, <2>3, GrantsKeep DEF Inv
  <2>4. QED
    BY <2>1, <2>2, <2>3
<1>4. QED
  BY <1>1, <1>3 DEF Inv

\* Steps that only move a caller on inside acquire(), or outside it.
LEMMA QuietKeeps ==
    ASSUME Inv, NEW c \in Callers,
           \/ Refuse(c) \/ Warn(c) \/ ReadClock(c) \/ Wake(c) \/ ReadUsage(c) \/ Release(c)
           \/ Peek(c) \/ Usage(c) \/ TryAcquire(c)
           \/ \E refuse \in BOOLEAN : Observe(c, refuse)
    PROVE  Inv' /\ (Exact /\ ExactInv => ExactInv')
<1>1. line \in Seq(Callers) /\ waiting \in Int /\ Len(line) \in Nat
  <2>1. Insiders \subseteq Callers
    BY DEF Insiders
  <2>2. QED
    BY <2>1, RateAssumption, FS_Subset, FS_CardinalityType DEF Inv, CallersInv, CountInv
<1>2. CASE Refuse(c)
  <2>1. /\ caller' \in [Callers -> CallerType] /\ caller'[c].pc = "idle"
        /\ \A q \in Callers : q # c => caller'[q] = caller[q]
    BY <1>2, MovesOn DEF Refuse, Inv
  <2>2. QED
    BY <1>1, <1>2, <2>1, StepKeeps DEF Refuse, Inside, Parked, HasSlot
<1>3. CASE Warn(c)
  <2>1. /\ caller' \in [Callers -> CallerType] /\ caller'[c].pc = "gauge"
        /\ \A q \in Callers : q # c => caller'[q] = caller[q]
    BY <1>3, MovesOn DEF Warn, Inv
  <2>2. QED
    BY <1>1, <1>3, <2>1, StepKeeps DEF Warn, Inside, Parked, HasSlot
<1>4. CASE ReadClock(c)
  <2>1. /\ caller' \in [Callers -> CallerType] /\ caller'[c].pc = "take"
        /\ \A q \in Callers : q # c => caller'[q] = caller[q]
    BY <1>4, MovesOn DEF ReadClock, Inv
  <2>2. QED
    BY <1>1, <1>4, <2>1, StepKeeps DEF ReadClock, Inside, Parked, HasSlot
<1>5. CASE Wake(c)
  <2>1. /\ caller' \in [Callers -> CallerType] /\ caller'[c].pc = "token"
        /\ \A q \in Callers : q # c => caller'[q] = caller[q]
    BY <1>5, MovesOn DEF Wake, Inv
  <2>2. QED
    BY <1>1, <1>5, <2>1, StepKeeps DEF Wake, Inside, Parked, HasSlot
<1>6. CASE ReadUsage(c)
  <2>1. /\ caller' \in [Callers -> CallerType] /\ caller'[c].pc = "reading"
        /\ \A q \in Callers : q # c => caller'[q] = caller[q]
    BY <1>6, MovesOn DEF ReadUsage, Inv
  <2>2. QED
    BY <1>1, <1>6, <2>1, StepKeeps DEF ReadUsage, Inside, Parked, HasSlot
<1>7. CASE Release(c)
  <2>1. /\ caller' \in [Callers -> CallerType] /\ caller'[c].pc = "idle"
        /\ \A q \in Callers : q # c => caller'[q] = caller[q]
    BY <1>7, MovesOn DEF Release, Inv
  <2>2. QED
    BY <1>1, <1>7, <2>1, StepKeeps DEF Release, Inside, Parked, HasSlot
<1>8. CASE Peek(c)
  <2>1. /\ caller' \in [Callers -> CallerType] /\ caller'[c].pc = "idle"
        /\ \A q \in Callers : q # c => caller'[q] = caller[q]
    BY <1>8, MovesOn DEF Peek, Inv
  <2>2. Refills(caller[c].lag)
    BY <1>8 DEF Peek, Refills
  <2>3. QED
    BY <1>1, <1>8, <2>1, <2>2, StepKeeps DEF Peek, Inside, Parked, HasSlot
<1>9. CASE Usage(c)
  <2>1. /\ caller' \in [Callers -> CallerType] /\ caller'[c].pc = "idle"
        /\ \A q \in Callers : q # c => caller'[q] = caller[q]
    BY <1>9, MovesOn DEF Usage, Inv
  <2>2. Refills(caller[c].lag)
    BY <1>9 DEF Usage, Refills
  <2>3. QED
    BY <1>1, <1>9, <2>1, <2>2, StepKeeps DEF Usage, Inside, Parked, HasSlot
<1>10. CASE TryAcquire(c)
  <2>1. /\ caller' \in [Callers -> CallerType] /\ caller'[c].pc = "tryTake"
        /\ \A q \in Callers : q # c => caller'[q] = caller[q]
    BY <1>10, MovesOn DEF TryAcquire, Inv
  <2>2. FreeSlots >= 1
    <3>1. FreeSlots \in Int
      <4>1. {d \in Callers : HasSlot(d)} \subseteq Callers
        OBVIOUS
      <4>2. QED
        BY <4>1, RateAssumption, FS_Subset, FS_CardinalityType DEF FreeSlots
    <3>2. QED
      BY <1>1, <1>10, <3>1 DEF TryAcquire
  <2>3. QED
    BY <1>1, <1>10, <2>1, <2>2, StepKeeps DEF TryAcquire, Inside, Parked, HasSlot
<1>11. ASSUME NEW refuse \in BOOLEAN, Observe(c, refuse)
       PROVE  Inv' /\ (Exact /\ ExactInv => ExactInv')
  <2>1. /\ caller' \in [Callers -> CallerType]
        /\ caller'[c].pc = IF refuse THEN "idle" ELSE "token"
        /\ \A q \in Callers : q # c => caller'[q] = caller[q]
    BY <1>11, MovesOn DEF Observe, Inv
  <2>2. Refills(caller[c].lag)
    BY <1>11 DEF Observe, Refills
  <2>3. QED
    BY <1>1, <1>11, <2>1, <2>2, StepKeeps DEF Observe, Inside, Parked, HasSlot
<1>12. QED
  BY <1>2, <1>3, <1>4, <1>5, <1>6, <1>7, <1>8, <1>9, <1>10, <1>11

\* Steps that take a caller into the line or out of it.
LEMMA LineKeeps ==
    ASSUME Inv, NEW c \in Callers, Enter(c) \/ GetSlot(c) \/ MissSlot(c) \/ Cancel(c)
    PROVE  Inv' /\ (Exact /\ ExactInv => ExactInv')
<1>1. line \in Seq(Callers) /\ waiting \in Nat
  <2>1. Insiders \subseteq Callers
    BY DEF Insiders
  <2>2. QED
    BY <2>1, RateAssumption, FS_Subset, FS_CardinalityType DEF Inv, CallersInv, CountInv
<1>2. RemoveFirst(line, c) \in Seq(Callers) /\ Append(line, c) \in Seq(Callers)
  BY <1>1, LeavesLine
<1>3. CASE Enter(c)
  <2> DEFINE pc == IF Admits(waiting + 1) THEN "slot" ELSE "refused"
             d == [pc |-> pc, left |-> MaxWait, wake |-> 0, lag |-> 0, admitted |-> waiting + 1]
  <2>1. caller' = [caller EXCEPT ![c] = d]
    <3>1. [Idle EXCEPT !.pc = pc, !.left = MaxWait, !.admitted = waiting + 1]
             = [[[Idle EXCEPT !.pc = pc] EXCEPT !.left = MaxWait] EXCEPT !.admitted = waiting + 1]
      OBVIOUS
    <3>2. Idle = [pc |-> "idle", left |-> 0, wake |-> 0, lag |-> 0, admitted |-> 0]
      BY DEF Idle
    <3> HIDE DEF pc
    <3> DEFINE one == [Idle EXCEPT !.pc = pc]
               two == [one EXCEPT !.left = MaxWait]
               three == [two EXCEPT !.admitted = waiting + 1]
    <3>3. one = [pc |-> pc, left |-> 0, wake |-> 0, lag |-> 0, admitted |-> 0]
      BY <3>2, SMT
    <3> HIDE DEF one
    <3>4. two = [pc |-> pc, left |-> MaxWait, wake |-> 0, lag |-> 0, admitted |-> 0]
      BY <3>3, SMT
    <3> HIDE DEF two
    <3>5. three = d
      BY <3>4, SMT
    <3>6. QED
      BY <1>3, <3>1, <3>5 DEF Enter, one, two, three, pc
  <2>2. d \in CallerType /\ d.pc = pc
    BY <1>1, RateAssumption DEF CallerType
  <2> HIDE DEF d
  <2>3. /\ caller' \in [Callers -> CallerType] /\ caller'[c].pc = pc
        /\ \A q \in Callers : q # c => caller'[q] = caller[q]
    BY <2>1, <2>2 DEF Inv, CallersInv
  <2>4. /\ line' \in Seq(Callers) /\ waiting' = waiting + 1 /\ caller[c].pc = "idle"
        /\ UNCHANGED bucketVars
    BY <1>1, <1>2, <1>3 DEF Enter
  <2>5. pc = "slot" => waiting' <= MaxWaiters
    BY <2>4 DEF Admits
  <2>6. pc \in {"slot", "refused"}
    OBVIOUS
  <2> HIDE DEF pc
  <2>7. ~Inside(c) /\ Inside(c)' /\ ~HasSlot(c)' /\ (Parked(c)' => pc = "slot")
    BY <2>3, <2>4, <2>6 DEF Inside, Parked, HasSlot
  <2>8. QED
    BY <1>1, <2>3, <2>4, <2>5, <2>7, StepKeeps
<1>4. CASE GetSlot(c)
  <2>1. /\ caller' \in [Callers -> CallerType] /\ caller'[c].pc \in {"warn", "token"}
        /\ \A q \in Callers : q # c => caller'[q] = caller[q]
    BY <1>4, MovesOn DEF GetSlot, Inv
  <2>2. FreeSlots >= 1
    <3>1. FreeSlots \in Int
      <4>1. {d \in Callers : HasSlot(d)} \subseteq Callers
        OBVIOUS
      <4>2. QED
        BY <4>1, RateAssumption, FS_Subset, FS_CardinalityType DEF FreeSlots
    <3>2. QED
      BY <1>1, <1>4, <3>1 DEF GetSlot, Granted
  <2>3. QED
    BY <1>1, <1>2, <1>4, <2>1, <2>2, StepKeeps DEF GetSlot, Inside, Parked, HasSlot
<1>5. CASE MissSlot(c)
  <2>1. /\ caller' \in [Callers -> CallerType] /\ caller'[c].pc = "peek"
        /\ \A q \in Callers : q # c => caller'[q] = caller[q]
    BY <1>5, MovesOn DEF MissSlot, Inv
  <2>2. QED
    BY <1>1, <1>2, <1>5, <2>1, StepKeeps DEF MissSlot, Inside, Parked, HasSlot
<1>6. CASE Cancel(c)
  <2>1. /\ caller' \in [Callers -> CallerType] /\ caller'[c].pc = "idle"
        /\ \A q \in Callers : q # c => caller'[q] = caller[q]
    BY <1>6, MovesOn DEF Cancel, Inv
  <2>2. QED
    BY <1>1, <1>2, <1>6, <2>1, StepKeeps DEF Cancel, Inside, Parked, HasSlot
<1>7. QED
  BY <1>3, <1>4, <1>5, <1>6

\* Steps that spend a token, or find none: then a caller with time left sleeps
\* until one is due.
LEMMA TakeKeeps ==
    ASSUME Inv, NEW c \in Callers, TakeToken(c) \/ TryTake(c)
    PROVE  Inv' /\ (Exact /\ ExactInv => ExactInv')
<1> DEFINE b == Refilled(caller[c].lag)
<1>1. line \in Seq(Callers) /\ waiting \in Int /\ caller[c] \in CallerType
      /\ caller \in [Callers -> CallerType]
  <2>1. Insiders \subseteq Callers
    BY DEF Insiders
  <2>2. QED
    BY <2>1, RateAssumption, FS_Subset, FS_CardinalityType DEF Inv, CallersInv, CountInv
<1>2. Refills(caller[c].lag) \/ Grants(caller[c].lag)
  BY DEF TakeToken, TryTake, Refills, Grants
<1>3. ASSUME NEW pc \in {"held", "idle"}, Ends(c, pc)
      PROVE  /\ caller' \in [Callers -> CallerType] /\ caller'[c].pc = pc
             /\ \A q \in Callers : q # c => caller'[q] = caller[q]
  BY <1>3, MovesOn DEF Inv
<1>4. CASE TryTake(c)
  <2>1. PICK pc \in {"held", "idle"} : Ends(c, pc)
    BY <1>4 DEF TryTake
  <2>2. QED
    BY <1>1, <1>2, <1>3, <1>4, <2>1, StepKeeps DEF TryTake, Inside, Parked, HasSlot
<1>5. CASE TakeToken(c) /\ (b.tokens >= MilliToken \/ OutOfTime(c))
  <2>1. /\ caller[c].pc = "take" /\ waiting' = waiting - 1 /\ line' = line
        /\ Ends(c, "held") \/ Ends(c, "idle")
    BY <1>5 DEF TakeToken
  <2>2. PICK pc \in {"held", "idle"} : Ends(c, pc)
    BY <2>1
  <2>3. QED
    BY <1>1, <1>2, <1>3, <2>1, <2>2, StepKeeps DEF Inside, Parked, HasSlot
<1>6. CASE TakeToken(c) /\ ~(b.tokens >= MilliToken) /\ ~OutOfTime(c)
  <2> DEFINE wake == Lesser(caller[c].left, TimeToNextToken(b.tokens))
             one == [caller[c] EXCEPT !.pc = "sleep"]
             two == [one EXCEPT !.lag = 0]
             three == [two EXCEPT !.wake = wake]
  <2>1. caller' = [caller EXCEPT ![c] = [caller[c] EXCEPT !.pc = "sleep", !.lag = 0, !.wake = wake]]
    BY <1>1, <1>6 DEF TakeToken
  <2>2. caller' = [caller EXCEPT ![c] = three]
    BY <2>1
  <2>3. wake \in 0..MaxWait
    <3>1. b.tokens \in Nat
      BY RefilledIs, <1>1, Constants DEF Inv, BucketInv, CallerType
    <3>2. TimeToNextToken(b.tokens) \in Nat
      <4>1. CASE b.tokens >= MilliToken
        BY <4>1 DEF TimeToNextToken
      <4>2. CASE ~(b.tokens >= MilliToken)
        <5>1. (MilliToken - b.tokens) * Interval + PerInterval - 1 \in Nat
          <6>1. MilliToken - b.tokens \in Nat
            BY <3>1, <4>2, Constants
          <6>2. (MilliToken - b.tokens) * Interval \in Nat
            BY <6>1, Constants
          <6>3. QED
            BY <6>2, Constants
        <5>2. QED
          BY <4>2, <5>1, Constants, Quotient DEF TimeToNextToken
      <4>3. QED
        BY <4>1, <4>2
    <3>3. QED
      BY <1>1, <3>2, Constants DEF Lesser, CallerType
  <2>4. one \in CallerType /\ one.pc = "sleep"
    BY <1>1 DEF CallerType
  <2> HIDE DEF one, wake
  <2>5. two \in CallerType /\ two.pc = "sleep"
    BY <2>4, RateAssumption DEF CallerType
  <2> HIDE DEF two
  <2>6. three \in CallerType /\ three.pc = "sleep"
    BY <2>3, <2>5 DEF CallerType
  <2> HIDE DEF three
  <2>7. /\ caller' \in [Callers -> CallerType] /\ caller'[c].pc = "sleep"
        /\ \A q \in Callers : q # c => caller'[q] = caller[q]
    BY <1>1, <2>2, <2>6
  <2>8. caller[c].pc = "take" /\ waiting' = waiting /\ line' = line
    BY <1>6 DEF TakeToken
  <2>9. QED
    BY <1>1, <1>2, <2>7, <2>8, StepKeeps DEF Inside, Parked, HasSlot
<1>7. QED
  BY <1>4, <1>5, <1>6

\* Time goes by: no caller moves.
LEMMA TickKeeps ==
    ASSUME Inv, Tick
    PROVE  Inv' /\ (Exact /\ ExactInv => ExactInv')
<1>1. BucketInv' /\ (ExactInv => ExactInv')
  BY AgesKeep DEF Tick, Ages, Inv
<1>2. CallersInv'
  <2> DEFINE left(c) == IF caller[c].left > 0 THEN caller[c].left - 1 ELSE 0
             wake(c) == IF caller[c].wake > 0 THEN caller[c].wake - 1 ELSE 0
             lag(c) == IF HasRead(c) THEN caller[c].lag + 1 ELSE 0
  <2>1. \A c \in Callers : caller[c] \in CallerType
    BY DEF Inv, CallersInv
  <2>2. \A c \in Callers : left(c) \in 0..MaxWait /\ wake(c) \in 0..MaxWait /\ lag(c) \in 0..MaxLag
    <3>1. SUFFICES ASSUME NEW c \in Callers
                   PROVE  left(c) \in 0..MaxWait /\ wake(c) \in 0..MaxWait /\ lag(c) \in 0..MaxLag
      OBVIOUS
    <3>2. /\ caller[c].left \in 0..MaxWait /\ caller[c].wake \in 0..MaxWait
          /\ caller[c].lag \in 0..MaxLag /\ MaxWait \in Nat /\ MaxLag \in Nat
      BY <2>1, RateAssumption DEF CallerType
    <3>3. HasRead(c) => caller[c].lag < MaxLag
      BY DEF Tick
    <3>4. QED
      BY <3>2, <3>3
  <2>3. ASSUME NEW c \in Callers
        PROVE  caller'[c] \in CallerType /\ caller'[c].pc = caller[c].pc
    <3> DEFINE one == [caller[c] EXCEPT !.left = left(c)]
               two == [one EXCEPT !.wake = wake(c)]
               three == [two EXCEPT !.lag = lag(c)]
    <3>1. caller'[c] = three
      BY <2>1 DEF Tick
    <3>2. one \in CallerType /\ one.pc = caller[c].pc
      BY <2>1, <2>2 DEF CallerType
    <3> HIDE DEF one
    <3>3. two \in CallerType /\ two.pc = caller[c].pc
      BY <2>2, <3>2 DEF CallerType
    <3> HIDE DEF two
    <3>4. three \in CallerType /\ three.pc = caller[c].pc
      BY <2>2, <3>3 DEF CallerType
    <3>5. QED
      BY <3>1, <3>4
  <2>4. caller' = [c \in Callers |-> caller'[c]]
    BY DEF Tick
  <2>5. QED
    BY <2>3, <2>4 DEF Tick, Inv, CallersInv
<1>3. \A c \in Callers : caller'[c].pc = caller[c].pc
  BY DEF Tick, Inv, CallersInv, CallerType
<1>4. Insiders' = Insiders /\ Parkers' = Parkers /\ Slots' = Slots
  BY <1>3 DEF Insiders, Parkers, Slots, Inside, Parked, HasSlot
<1>5. CountInv'
  BY <1>4 DEF Tick, Inv, CountInv
<1>6. QED
  BY <1>1, <1>2, <1>5 DEF Inv

-----------------------------------------------------------------------------
\* The invariants hold of a full bucket nobody asked,
LEMMA InitEstablishes == Init => Inv /\ ExactInv
<1> SUFFICES ASSUME Init PROVE Inv /\ ExactInv
  OBVIOUS
<1>1. /\ Capacity \in Nat /\ Full \in Nat /\ AgeCap \in Nat /\ PerInterval \in Nat
      /\ MaxWait \in Nat /\ MaxLag \in Nat /\ MaxWaiters \in Nat /\ MaxConcurrent \in Nat
  BY Constants, RateAssumption DEF Full
<1>2. Worth(Bucket) = Full
  BY <1>1 DEF Init, Worth, Bucket, Full
<1>3. BucketInv /\ ExactInv
  <2>1. credit = Full
    BY DEF Init, Full
  <2>2. Bounded
    BY <1>1 DEF Init, Bounded
  <2>3. overdrawn \in BOOLEAN /\ ~overdrawn
    BY DEF Init
  <2>4. credit \in 0..Full /\ credit <= Worth(Bucket)
    BY <1>1, <1>2, <2>1
  <2>5. QED
    BY <2>1, <2>2, <2>3, <2>4, Zenon DEF BucketInv, ExactInv
<1>4. Idle \in CallerType /\ Idle.pc = "idle"
  BY <1>1 DEF Idle, CallerType
<1>5. CallersInv
  BY <1>4 DEF Init, CallersInv
<1>6. Insiders = {} /\ Parkers = {} /\ Slots = {}
  BY <1>4 DEF Init, Insiders, Parkers, Slots, Inside, Parked, HasSlot
<1>7. CountInv
  BY <1>1, <1>6, FS_EmptySet DEF Init, CountInv
<1>8. QED
  BY <1>3, <1>5, <1>7 DEF Inv

\* and every step keeps them, the exact one at an exact rate.
LEMMA NextPreserves == Inv /\ [Next]_vars => Inv' /\ (Exact /\ ExactInv => ExactInv')
<1> SUFFICES ASSUME Inv, [Next]_vars PROVE Inv' /\ (Exact /\ ExactInv => ExactInv')
  OBVIOUS
<1>1. ASSUME NEW c \in Callers, Enter(c) \/ Cancel(c)
      PROVE  Inv' /\ (Exact /\ ExactInv => ExactInv')
  BY <1>1, LineKeeps
<1>2. ASSUME NEW c \in Callers, AcquireStep(c)
      PROVE  Inv' /\ (Exact /\ ExactInv => ExactInv')
  BY <1>2, QuietKeeps, LineKeeps, TakeKeeps DEF AcquireStep
<1>3. ASSUME NEW c \in Callers, Release(c) \/ TryAcquire(c) \/ ReadUsage(c) \/ Usage(c)
      PROVE  Inv' /\ (Exact /\ ExactInv => ExactInv')
  BY <1>3, QuietKeeps
<1>4. ASSUME NEW c \in Callers, TryTake(c)
      PROVE  Inv' /\ (Exact /\ ExactInv => ExactInv')
  BY <1>4, TakeKeeps
<1>5. CASE Tick
  BY <1>5, TickKeeps
<1>6. CASE UNCHANGED vars
  <2>1. BucketInv' /\ (ExactInv => ExactInv')
    BY <1>6 DEF Inv, BucketInv, ExactInv, Bounded, Worth, Bucket, Full, Capacity, PerInterval,
                AgeCap, vars
  <2>2. CallersInv' /\ CountInv'
    BY <1>6 DEF Inv, CallersInv, CountInv, Insiders, Parkers, Slots, Inside, Parked, HasSlot, vars
  <2>3. QED
    BY <2>1, <2>2 DEF Inv
<1>7. QED
  BY <1>1, <1>2, <1>3, <1>4, <1>5, <1>6 DEF Next

\* What the invariant says of the counters.
LEMMA InvImpliesWithinBounds == Inv => WithinBounds
<1> SUFFICES ASSUME Inv PROVE WithinBounds
  OBVIOUS
<1>1. /\ Insiders \subseteq Callers /\ Parkers \subseteq Callers /\ Slots \subseteq Callers
  BY DEF Insiders, Parkers, Slots
<1>2. /\ Cardinality(Insiders) \in 0..Cardinality(Callers)
      /\ Cardinality(Slots) \in 0..MaxConcurrent
  BY <1>1, RateAssumption, FS_Subset, FS_CardinalityType DEF Inv, CountInv
<1>3. FreeSlots = MaxConcurrent - Cardinality(Slots)
  BY DEF FreeSlots, Slots
<1>4. TypeOK
  <2>1. FreeSlots \in 0..MaxConcurrent
    BY <1>2, <1>3, RateAssumption
  <2>2. waiting \in 0..Cardinality(Callers)
    BY <1>2 DEF Inv, CountInv
  <2>3. \A c \in Callers : caller[c].left \in 0..MaxWait /\ caller[c].wake \in 0..MaxWait
    BY DEF Inv, CallersInv, CallerType
  <2>4. QED
    BY <2>1, <2>2, <2>3 DEF Inv, BucketInv, Bounded, TypeOK
<1>5. WaitersBounded
  BY DEF Inv, CountInv, Insiders, Parkers, WaitersBounded
<1>6. QED
  BY <1>4, <1>5 DEF WithinBounds

\* What it says of the bucket.
LEMMA InvImpliesNothingLost == Inv => NothingLost
<1> SUFFICES ASSUME Inv PROVE NothingLost
  OBVIOUS
<1>1. /\ {PerInterval, Capacity, Interval} \subseteq Nat \ {0} /\ MaxLag \in Nat
      /\ tokens \in 0..Capacity /\ age \in Nat /\ credit \in 0..Full
      /\ credit <= tokens * Interval + age * PerInterval
      /\ Full = Capacity * Interval
  BY Constants, RateAssumption DEF Inv, BucketInv, Bounded, Worth, Bucket, Full
<1> DEFINE gain == Gain(0)
<1>2. gain = (age * PerInterval) \div Interval /\ age * PerInterval \in Nat
  BY <1>1 DEF Gain, Elapsed
<1> HIDE DEF gain
<1>3. gain \in Nat /\ age * PerInterval < gain * Interval + Interval
  BY <1>1, <1>2, Quotient
<1>4. CASE gain >= Capacity - tokens
  <2>1. Refilled(0).tokens = Capacity
    BY <1>4 DEF Refilled, gain
  <2>2. (Capacity + 1) * Interval = Full + Interval /\ Full \in Nat
    BY <1>1, SMT
  <2>3. QED
    BY <1>1, <2>1, <2>2 DEF NothingLost
<1>5. CASE ~(gain >= Capacity - tokens)
  <2>1. Refilled(0).tokens = tokens + gain
    BY <1>5 DEF Refilled, gain
  <2>2. (tokens + gain + 1) * Interval = tokens * Interval + gain * Interval + Interval
    BY <1>1, <1>3, SMT
  <2>3. tokens * Interval \in Nat /\ gain * Interval \in Nat
    BY <1>1, <1>3
  <2>4. QED
    BY <1>1, <1>2, <1>3, <2>1, <2>2, <2>3 DEF NothingLost
<1>6. QED
  BY <1>4, <1>5

-----------------------------------------------------------------------------
\* Whatever order callers enter, are refused, wait, give up, are dropped and
\* leave in: the waiter count is exact, no more than max_waiters park, no more
\* than the slots there are are taken, and the bucket stays in its range.
THEOREM CountersHold == Spec => []WithinBounds
<1>1. QED
  BY InitEstablishes, NextPreserves, InvImpliesWithinBounds, PTL DEF Spec

\* Rounding never costs a caller a thousandth of a token, at any rate and for
\* readings of the clock however late (refill keeps the remainder).
THEOREM NothingIsLost == Spec => []NothingLost
<1>1. QED
  BY InitEstablishes, NextPreserves, InvImpliesNothingLost, PTL DEF Spec

\* Where a thousandth takes a whole number of ticks, or a tick brings a whole
\* number of them, and readings are used at once, the bucket grants exactly
\* what an exact one would: no more than the burst and the elapsed share.  A
\* rate that leaves a remainder grants more.
THEOREM ExactRatesAreKept == ASSUME Exact PROVE Spec => []BucketIsExact
<1>1. Inv /\ ExactInv /\ [Next]_vars => (Inv /\ ExactInv)'
  BY NextPreserves
<1>2. Inv /\ ExactInv => BucketIsExact
  BY InvImpliesNothingLost DEF ExactInv, Quota, BucketIsExact
<1>3. QED
  BY <1>1, <1>2, InitEstablishes, PTL DEF Spec
=============================================================================
