---------------------------- MODULE DelaysProofs ----------------------------
(***************************************************************************)
(* What the pauses of Delays are, for every strategy with every            *)
(* parameters, and for every MaxBackoff, attempt and header.               *)
(*                                                                         *)
(* Power is computed by a recursive function: that it exists, and that its *)
(* values are natural numbers, is shown by looking at a smallest           *)
(* counterexample.                                                         *)
(***************************************************************************)
EXTENDS Delays, WellFoundedInduction, TLAPS

-----------------------------------------------------------------------------
(* Arithmetic. *)

\* A nonempty set of natural numbers has a smallest element.
LEMMA LeastElement ==
  ASSUME NEW S \in SUBSET Nat, S # {}
  PROVE  \E m \in S : \A n \in S : m <= n
<1>1. PICK m \in S : \A n \in S : <<n, m>> \notin OpToRel(<, Nat)
  BY WFMin, NatLessThanWellFounded, Zenon
<1>2. ASSUME NEW n \in S PROVE ~(n < m)
  BY <1>1, Zenon DEF OpToRel
<1> QED BY <1>2

\* Multiplication by a natural number keeps the order.
LEMMA TimesMonotone ==
  ASSUME NEW a \in Int, NEW b \in Int, NEW k \in Nat, a <= b
  PROVE  a * k <= b * k /\ k * a <= k * b
  OBVIOUS

\* Integer division, bounded from both sides.
LEMMA DivBounds ==
  ASSUME NEW a \in Int, NEW n \in Nat \ {0}
  PROVE  /\ a \div n \in Int
         /\ n * (a \div n) <= a
         /\ a < n * (a \div n) + n
         /\ a >= 0 => a \div n >= 0
  OBVIOUS

\* A product of natural numbers.
LEMMA TimesNat ==
  ASSUME NEW a \in Nat, NEW b \in Nat
  PROVE  a * b \in Nat
  OBVIOUS

-----------------------------------------------------------------------------
(* The growth of an exponential backoff. *)

\* f is x to the power of i, as far as i = n.
PowerTo(x, f, n) ==
  /\ f \in [0 .. n -> Nat]
  /\ \A i \in 0 .. n : f[i] = IF i = 0 THEN 1 ELSE x * f[i - 1]

\* There is such a function for every n.
LEMMA PowerToExists ==
  ASSUME NEW x \in Nat
  PROVE  \A n \in Nat : \E f : PowerTo(x, f, n)
<1> DEFINE Bad == {n \in Nat : ~ \E f : PowerTo(x, f, n)}
<1> SUFFICES ASSUME Bad # {} PROVE FALSE
  OBVIOUS
<1>1. PICK m \in Bad : \A n \in Bad : m <= n
  BY LeastElement
<1>2. CASE m = 0
  <2> DEFINE f == [i \in 0 .. 0 |-> 1]
  <2>1. PowerTo(x, f, 0)
    BY DEF PowerTo
  <2> QED BY <1>2, <2>1
<1>3. CASE m # 0
  <2>1. m - 1 \in Nat /\ m - 1 \notin Bad
    BY <1>1, <1>3
  <2>2. PICK g : PowerTo(x, g, m - 1)
    BY <2>1
  <2> DEFINE f == [i \in 0 .. m |-> IF i = m THEN x * g[m - 1] ELSE g[i]]
  <2>3. g \in [0 .. m - 1 -> Nat]
    BY <2>2 DEF PowerTo
  <2>4. x * g[m - 1] \in Nat
    BY <2>1, <2>3, TimesNat
  <2>5. f \in [0 .. m -> Nat]
    BY <2>1, <2>3, <2>4
  <2>6. ASSUME NEW i \in 0 .. m
        PROVE  f[i] = IF i = 0 THEN 1 ELSE x * f[i - 1]
    BY <1>3, <2>1, <2>2 DEF PowerTo
  <2>7. PowerTo(x, f, m)
    BY <2>5, <2>6 DEF PowerTo
  <2> QED BY <2>7
<1> QED BY <1>2, <1>3

\* Two of them agree where both are defined.
LEMMA PowerToAgrees ==
  ASSUME NEW x \in Nat, NEW m \in Nat, NEW n \in Nat,
         NEW f, PowerTo(x, f, m), NEW g, PowerTo(x, g, n)
  PROVE  \A i \in Nat : i <= m /\ i <= n => f[i] = g[i]
<1> DEFINE Bad == {i \in Nat : i <= m /\ i <= n /\ f[i] # g[i]}
<1> SUFFICES ASSUME Bad # {} PROVE FALSE
  OBVIOUS
<1>1. PICK i \in Bad : \A j \in Bad : i <= j
  BY LeastElement
<1>2. CASE i = 0
  BY <1>2 DEF PowerTo
<1>3. CASE i # 0
  <2>1. i - 1 \in Nat /\ i - 1 \notin Bad
    BY <1>1, <1>3
  <2>2. f[i - 1] = g[i - 1]
    BY <2>1
  <2> QED BY <1>3, <2>1, <2>2 DEF PowerTo
<1> QED BY <1>2, <1>3

\* The recursive function of Power is what its definition says.
LEMMA PowerExists ==
  ASSUME NEW x \in Nat
  PROVE  \E p : p = [n \in Nat |-> IF n = 0 THEN 1 ELSE x * p[n - 1]]
<1> DEFINE part(n) == CHOOSE f : PowerTo(x, f, n)
           G == [n \in Nat |-> part(n)[n]]
<1>1. \A n \in Nat : PowerTo(x, part(n), n)
  BY PowerToExists
<1>2. ASSUME NEW n \in Nat
      PROVE  part(n)[n] = IF n = 0 THEN 1 ELSE x * G[n - 1]
  <2>1. CASE n = 0
    <3> HIDE DEF part, G
    <3> QED BY <1>1, <2>1 DEF PowerTo
  <2>2. CASE n # 0
    <3>1. n - 1 \in Nat
      BY <2>2
    <3>2. part(n)[n - 1] = part(n - 1)[n - 1]
      <4> HIDE DEF part
      <4> QED BY <3>1, <1>1, PowerToAgrees
    <3>3. part(n)[n] = x * part(n)[n - 1]
      <4> HIDE DEF part
      <4> QED BY <2>2, <1>1 DEF PowerTo
    <3>4. G[n - 1] = part(n - 1)[n - 1]
      BY <3>1
    <3> HIDE DEF part, G
    <3> QED BY <2>2, <3>2, <3>3, <3>4
  <2> QED BY <2>1, <2>2
<1>3. G = [n \in Nat |-> IF n = 0 THEN 1 ELSE x * G[n - 1]]
  <2> HIDE DEF part
  <2> QED BY <1>2
<1> HIDE DEF G
<1> QED BY <1>3

\* Its values are natural numbers.
LEMMA PowerNat ==
  ASSUME NEW x \in Nat
  PROVE  \A n \in Nat : Power(x, n) \in Nat
<1> DEFINE p == CHOOSE f : f = [n \in Nat |-> IF n = 0 THEN 1 ELSE x * f[n - 1]]
<1>1. p = [n \in Nat |-> IF n = 0 THEN 1 ELSE x * p[n - 1]]
  BY PowerExists
<1>2. \A n \in Nat : Power(x, n) = p[n]
  BY DEF Power
<1> HIDE DEF p
<1> DEFINE Bad == {n \in Nat : p[n] \notin Nat}
<1>3. ASSUME Bad # {} PROVE FALSE
  <2>1. PICK m \in Bad : \A n \in Bad : m <= n
    BY <1>3, LeastElement
  <2>2. CASE m = 0
    BY <1>1, <2>1, <2>2
  <2>3. CASE m # 0
    <3>1. m - 1 \in Nat /\ p[m - 1] \in Nat
      BY <2>1, <2>3
    <3>2. p[m] = x * p[m - 1]
      BY <1>1, <2>3
    <3> QED BY <2>1, <3>1, <3>2, TimesNat
  <2> QED BY <2>2, <2>3
<1> QED BY <1>2, <1>3

-----------------------------------------------------------------------------
(* The delays. *)

\* Wrap changes nothing that a Duration can hold, and otherwise gives an integer.
LEMMA WrapFits ==
  ASSUME NEW x \in Int
  PROVE  Wrap(x) \in Int /\ (0 <= x /\ x <= MaxInt => Wrap(x) = x)
<1>1. MaxInt \in Nat
  BY DelaysAssumption
<1>2. x + MaxInt + 1 \in Int /\ 2 * (MaxInt + 1) \in Nat \ {0}
  BY <1>1
<1>3. 0 <= x /\ x <= MaxInt => (x + MaxInt + 1) % (2 * (MaxInt + 1)) = x + MaxInt + 1
  BY <1>1, <1>2
<1>4. (x + MaxInt + 1) % (2 * (MaxInt + 1)) \in Int
  BY <1>1, <1>2
<1> QED BY <1>1, <1>3, <1>4 DEF Wrap

-----------------------------------------------------------------------------
\* The longest pause that a strategy's parameters allow is a natural number.
LEMMA HighestNat ==
  ASSUME NEW b \in Backoff
  PROVE  Highest(b) \in Nat
<1>1. /\ b.kind \in {"exponential", "linear", "constant"}
      /\ b.initial \in Nat /\ b.max \in Nat /\ b.jitter \in Nat
  BY DelaysAssumption DEF Backoff
<1>2. b.max * (100 + b.jitter) \in Nat
  BY <1>1, TimesNat
<1>3. (b.max * (100 + b.jitter)) \div 100 \in Nat
  BY <1>2, DivBounds
<1> QED BY <1>1, <1>3 DEF Highest

\* An exponential delay is not negative, and at most the maximum and its jitter, if
\* that fits into a Duration.
LEMMA ExponentialBounded ==
  ASSUME NEW b \in Backoff, b.kind = "exponential", Representable(b),
         NEW attempt \in Nat, NEW d \in Exponential(b, attempt)
  PROVE  d \in 0 .. Highest(b)
<1> DEFINE e == Least(b.initial * Power(b.multiplier, attempt), b.max)
           low == IF b.jitter > 100 THEN 0 ELSE (e * (100 - b.jitter)) \div 100
           high == (e * (100 + b.jitter)) \div 100
           top == (b.max * (100 + b.jitter)) \div 100
<1>1. b.initial \in Nat /\ b.max \in Nat /\ b.multiplier \in Nat /\ b.jitter \in Nat
  BY DelaysAssumption DEF Backoff
<1>2. b.initial * Power(b.multiplier, attempt) \in Nat
  BY <1>1, PowerNat, TimesNat
<1>3. e \in Nat /\ e <= b.max
  BY <1>1, <1>2 DEF Least
<1>4. PICK x \in low .. high : d \in Converted(x)
  BY DEF Exponential
<1>5. Highest(b) = top /\ top < MaxInt
  BY DEF Highest, Representable
<1> HIDE DEF e
<1>6. e * (100 + b.jitter) \in Nat /\ b.max * (100 + b.jitter) \in Nat
  BY <1>1, <1>3, TimesNat
<1>7. e * (100 + b.jitter) <= b.max * (100 + b.jitter)
  BY <1>1, <1>3, TimesMonotone
<1>8. high \in Nat /\ top \in Nat
  BY <1>6, DivBounds
<1>9. high <= top
  <2>1. 100 * high <= e * (100 + b.jitter) /\ b.max * (100 + b.jitter) < 100 * top + 100
    BY <1>6, DivBounds
  <2> HIDE DEF high, top
  <2> QED BY <1>6, <1>7, <1>8, <2>1
<1>10. low \in Nat
  <2>1. CASE b.jitter > 100
    BY <2>1
  <2>2. CASE ~(b.jitter > 100)
    <3>1. 100 - b.jitter \in Nat
      BY <1>1, <2>2
    <3>2. e * (100 - b.jitter) \in Nat
      BY <1>3, <3>1, TimesNat
    <3> QED BY <2>2, <3>2, DivBounds
  <2> QED BY <2>1, <2>2
<1> HIDE DEF low, high, top
<1>11. x \in 0 .. top /\ x < MaxInt
  BY <1>4, <1>5, <1>8, <1>9, <1>10, DelaysAssumption
<1>12. d = x
  BY <1>4, <1>11 DEF Converted
<1> QED BY <1>5, <1>11, <1>12

\* A linear delay is neither negative nor above its maximum, although the product
\* and the sum may overflow.
LEMMA LinearBounded ==
  ASSUME NEW b \in Backoff, NEW attempt \in Nat
  PROVE  Linear(b, attempt) \in 0 .. b.max
<1> DEFINE e == Wrap(b.initial + Wrap(b.step * attempt))
<1>1. b.initial \in Int /\ b.step \in Int /\ b.max \in Nat
  BY DelaysAssumption DEF Backoff
<1>2. b.step * attempt \in Int
  BY <1>1
<1>3. e \in Int
  BY <1>1, <1>2, WrapFits
<1> HIDE DEF e
<1>4. Linear(b, attempt) = IF e > b.max THEN b.max ELSE IF e < 0 THEN 0 ELSE e
  BY DEF Linear, e
<1> QED BY <1>1, <1>3, <1>4

\* What the strategies return; an exponential one whose range a Duration cannot
\* hold may return anything that a Duration can be.
LEMMA StrategyBounded ==
  ASSUME NEW b \in Backoff, NEW attempt \in Nat, NEW d \in Strategy(b, attempt)
  PROVE  d \in Int /\ (Representable(b) => d \in 0 .. Highest(b))
<1>1. /\ b.kind \in {"exponential", "linear", "constant"}
      /\ b.initial \in Nat /\ b.max \in Nat
  BY DelaysAssumption DEF Backoff
<1>2. CASE b.kind = "exponential"
  <2>1. d \in Exponential(b, attempt)
    BY <1>2 DEF Strategy
  <2>2. d \in Int
    BY <2>1, DelaysAssumption DEF Exponential, Converted
  <2> QED BY <1>2, <2>1, <2>2, ExponentialBounded
<1>3. CASE b.kind = "linear"
  <2>1. d = Linear(b, attempt) /\ Highest(b) = b.max
    BY <1>3 DEF Strategy, Highest
  <2> QED BY <1>1, <2>1, LinearBounded
<1>4. CASE b.kind = "constant"
  <2>1. d = b.initial /\ Highest(b) = b.initial
    BY <1>4 DEF Strategy, Highest
  <2> QED BY <1>1, <2>1
<1> QED BY <1>1, <1>2, <1>3, <1>4

\* A number of seconds that passes the comparison with maxSecs does not
\* overflow; one that does not is longer than every maximum.
LEMMA SecondsBounded ==
  ASSUME NEW n \in Int
  PROVE  /\ Seconds(n) \in 0 .. MaxDelay
         /\ n <= 0 => Seconds(n) = 0
         /\ n > 0 => n * Second \in Nat \ {0} /\ Seconds(n) = Least(n * Second, MaxDelay)
<1>1. /\ MaxInt \in Nat /\ Second \in Nat \ {0} /\ MaxDelay \in Nat \ {0}
      /\ MaxDelay <= MaxInt
  BY DelaysAssumption
<1>2. CASE n < 0
  BY <1>1, <1>2 DEF Seconds
<1>3. CASE n >= 0
  <2>1. /\ n * Second \in Nat
        /\ n > 0 => n * Second > 0
        /\ n = 0 => n * Second = 0
    BY <1>1, <1>3, TimesNat, TimesMonotone
  <2>2. MaxInt \div Second \in Int
    BY <1>1, DivBounds
  <2>3. CASE n <= MaxInt \div Second
    <3>1. n * Second <= (MaxInt \div Second) * Second
      BY <1>1, <2>2, <2>3, TimesMonotone
    <3>2. (MaxInt \div Second) * Second <= MaxInt
      BY <1>1, DivBounds
    <3>3. n * Second <= MaxInt
      BY <1>1, <2>1, <2>2, <3>1, <3>2
    <3>4. Wrap(n * Second) = n * Second
      BY <2>1, <3>3, WrapFits
    <3>5. Seconds(n) = Least(n * Second, MaxDelay)
      BY <1>3, <2>2, <2>3, <3>4 DEF Seconds
    <3> QED BY <1>1, <1>3, <2>1, <3>5 DEF Least
  <2>4. CASE n > MaxInt \div Second
    <3> DEFINE q == MaxInt \div Second
    <3>1. q \in Nat /\ n >= q + 1
      BY <1>1, <2>2, <2>4, DivBounds
    <3>2. MaxInt < Second * q + Second
      BY <1>1, DivBounds
    <3> HIDE DEF q
    <3>3. (q + 1) * Second <= n * Second
      BY <1>1, <1>3, <3>1, TimesMonotone
    <3>4. (q + 1) * Second = Second * q + Second
      BY <1>1, <3>1
    <3>5. MaxDelay < n * Second
      BY <1>1, <2>1, <3>1, <3>2, <3>3, <3>4
    <3>6. Seconds(n) = MaxDelay
      BY <1>3, <2>2, <2>4 DEF Seconds
    <3> QED BY <1>1, <2>1, <2>2, <2>4, <3>1, <3>5, <3>6 DEF Least
  <2> QED BY <2>2, <2>3, <2>4
<1> QED BY <1>2, <1>3

\* What parseRetryAfter returns of a header that asks for something.
LEMMA RetryAfterHonest ==
  ASSUME NEW h \in Header
  PROVE  /\ Asked(h) \in Nat
         /\ RetryAfter(h) = Least(Asked(h), MaxDelay)
<1>1. h.kind \in {"none", "seconds", "date"} /\ h.n \in Int
  BY DEF Header
<1>2. MaxDelay \in Nat
  BY DelaysAssumption
<1>3. CASE h.kind = "seconds"
  <2>1. CASE h.n > 0
    <3>1. Asked(h) = h.n * Second /\ RetryAfter(h) = Seconds(h.n)
      BY <1>3, <2>1 DEF Asked, RetryAfter
    <3> QED BY <1>1, <2>1, <3>1, SecondsBounded
  <2>2. CASE h.n <= 0
    <3>1. Asked(h) = 0 /\ RetryAfter(h) = Seconds(h.n)
      BY <1>1, <1>3, <2>2 DEF Asked, RetryAfter
    <3> QED BY <1>1, <1>2, <2>2, <3>1, SecondsBounded DEF Least
  <2> QED BY <1>1, <2>1, <2>2
<1>4. CASE h.kind = "date"
  BY <1>1, <1>2, <1>4 DEF Asked, RetryAfter, Least
<1>5. CASE h.kind = "none"
  BY <1>2, <1>5 DEF Asked, RetryAfter, Least
<1> QED BY <1>1, <1>3, <1>4, <1>5

\* Every pause that nextDelay can return is the one that its header asks for, up to
\* MaxBackoff and 365 days; without a header, or with one in the past, it is not
\* negative and at most what the strategy's own parameters allow, if a Duration can
\* hold that.  MaxBackoff does not limit a strategy that has a maximum of its own.
THEOREM DelayHonoured ==
  ASSUME NEW b \in Backoff, NEW attempt \in Nat, NEW h \in Header,
         NEW d \in NextDelay(b, attempt, h)
  PROVE  /\ d \in Int
         /\ IF Asked(h) > 0
            THEN d = Least(Asked(h), Longest)
            ELSE Representable(b) => d \in 0 .. Highest(b)
<1>1. /\ MaxBackoff \in Nat \ {0} /\ MaxDelay \in Nat \ {0}
  BY DelaysAssumption
<1>2. Asked(h) \in Nat /\ RetryAfter(h) = Least(Asked(h), MaxDelay)
  BY RetryAfterHonest
<1>3. CASE Asked(h) > 0
  <2>1. RetryAfter(h) > 0 /\ Least(RetryAfter(h), MaxBackoff) = Least(Asked(h), Longest)
    BY <1>1, <1>2, <1>3 DEF Least, Longest
  <2>2. d = Least(Asked(h), Longest)
    BY <2>1 DEF NextDelay
  <2>3. d \in Int
    BY <1>1, <1>2, <2>2 DEF Least, Longest
  <2> QED BY <1>3, <2>2, <2>3
<1>4. CASE Asked(h) = 0
  <2>1. ~(RetryAfter(h) > 0)
    BY <1>1, <1>2, <1>4 DEF Least
  <2>2. d \in Strategy(b, attempt)
    BY <2>1 DEF NextDelay
  <2> QED BY <1>4, <2>2, StrategyBounded
<1> QED BY <1>2, <1>3, <1>4

\* With the strategy that a RetryConfig without Backoff gets, no pause at all is
\* above MaxBackoff and the jitter, nor negative.
THEOREM DefaultHonoured ==
  ASSUME NEW jitter \in 0 .. 100, (MaxBackoff * (100 + jitter)) \div 100 < MaxInt,
         NEW attempt \in Nat, NEW h \in Header,
         NEW d \in NextDelay(DefaultBackoff(jitter), attempt, h)
  PROVE  d \in 0 .. (MaxBackoff * (100 + jitter)) \div 100
<1> DEFINE b == DefaultBackoff(jitter)
           top == (MaxBackoff * (100 + jitter)) \div 100
<1>1. b \in Backoff /\ Highest(b) = top /\ Representable(b)
  BY DelaysAssumption DEF Backoff, DefaultBackoff, ExponentialBackoff, Highest, Representable
<1> HIDE DEF b
<1>2. /\ d \in Int
      /\ IF Asked(h) > 0 THEN d = Least(Asked(h), Longest) ELSE d \in 0 .. top
  BY <1>1, DelayHonoured DEF b
<1>3. top \in Nat /\ MaxBackoff <= top
  <2>1. MaxBackoff \in Nat /\ MaxBackoff * (100 + jitter) \in Nat
    BY DelaysAssumption, TimesNat
  <2>2. MaxBackoff * 100 <= MaxBackoff * (100 + jitter)
    BY <2>1, TimesMonotone
  <2>3. top \in Nat /\ MaxBackoff * (100 + jitter) < 100 * top + 100
    BY <2>1, DivBounds
  <2> HIDE DEF top
  <2> QED BY <2>1, <2>2, <2>3
<1>4. Asked(h) \in Nat
  BY RetryAfterHonest
<1> HIDE DEF top
<1>5. CASE Asked(h) > 0
  <2>1. Least(Asked(h), Longest) \in 0 .. MaxBackoff
    BY <1>4, DelaysAssumption DEF Least, Longest
  <2> QED BY <1>2, <1>3, <1>5, <2>1, DelaysAssumption DEF top
<1> QED BY <1>2, <1>5 DEF top
=============================================================================
