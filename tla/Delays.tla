------------------------------- MODULE Delays -------------------------------
(***************************************************************************)
(* How long a retry pauses: the strategies of backoff.go and the           *)
(* Retry-After header (retry.go, nextDelay and parseRetryAfter).           *)
(*                                                                         *)
(* Durations are integers that wrap at MaxInt, as int64 nanoseconds do;    *)
(* 2^63-1, a second and 365 days are scaled down.  Floats are rounded to   *)
(* whole units only where the code converts them to a Duration, and the    *)
(* random factor is any value of its range.  Each Backoff has parameters   *)
(* of its own: RetryConfig's are those of the default one only.            *)
(***************************************************************************)
EXTENDS Integers

CONSTANTS MaxInt, Second, MaxDelay,          \* 2^63-1 ns, 1 s, 365 days
          InitialDelay, MaxBackoff, Multiplier  \* of RetryConfig

ASSUME DelaysAssumption ==
  /\ {MaxInt, Second, MaxDelay, InitialDelay, MaxBackoff, Multiplier} \subseteq Nat \ {0}
  /\ {MaxDelay, InitialDelay, MaxBackoff} \subseteq 1 .. MaxInt

\* What Retry-After says: nothing that can be parsed, a number of seconds, or a
\* date, here the time until it.
Header == [kind : {"none", "seconds", "date"}, n : Int]
NoHeader == [kind |-> "none", n |-> 0]

\* The strategies of this package, each with what it uses of these parameters:
\* durations, and the jitter in per cent.
Backoff == [kind : {"exponential", "linear", "constant"},
            initial : 0 .. MaxInt, max : 0 .. MaxInt, multiplier : Nat, step : Int, jitter : Nat]

ExponentialBackoff(initial, max, multiplier, jitter) ==
  [kind |-> "exponential", initial |-> initial, max |-> max,
   multiplier |-> multiplier, step |-> 0, jitter |-> jitter]

LinearBackoff(initial, max, step) ==
  [kind |-> "linear", initial |-> initial, max |-> max,
   multiplier |-> 0, step |-> step, jitter |-> 0]

ConstantBackoff(d) ==
  [kind |-> "constant", initial |-> d, max |-> 0, multiplier |-> 0, step |-> 0, jitter |-> 0]

\* applyRetryDefaults: the one a RetryConfig without Backoff gets.
DefaultBackoff(jitter) == ExponentialBackoff(InitialDelay, MaxBackoff, Multiplier, jitter)

-----------------------------------------------------------------------------
Least(x, y) == IF x <= y THEN x ELSE y

\* Signed arithmetic of the width of a Duration.
Wrap(x) == ((x + MaxInt + 1) % (2 * (MaxInt + 1))) - MaxInt - 1

\* math.Pow.
Power(x, n) ==
  LET power[i \in Nat] == IF i = 0 THEN 1 ELSE x * power[i - 1] IN power[n]

\* time.Duration(x) of a float.  Go leaves open what it is out of range, which
\* 2^63-1, rounded up as a float, is already: the ends of the range are taken.
Converted(x) == IF x < MaxInt THEN {x} ELSE {MaxInt, -MaxInt - 1}

\* expBackoff.NextDelay: the maximum comes before the jitter.
Exponential(b, attempt) ==
  LET d == Least(b.initial * Power(b.multiplier, attempt), b.max)
      low == IF b.jitter > 100 THEN 0 ELSE (d * (100 - b.jitter)) \div 100
  IN  UNION {Converted(x) : x \in low .. (d * (100 + b.jitter)) \div 100}

\* linearBackoff.NextDelay: the product and the sum may overflow.
Linear(b, attempt) ==
  LET d == Wrap(b.initial + Wrap(b.step * attempt))
  IN  IF d > b.max THEN b.max ELSE IF d < 0 THEN 0 ELSE d

\* What r.backoff.NextDelay may return; constBackoff knows no maximum.
Strategy(b, attempt) ==
  CASE b.kind = "exponential" -> Exponential(b, attempt)
    [] b.kind = "linear" -> {Linear(b, attempt)}
    [] b.kind = "constant" -> {b.initial}

\* Mutant: the seconds are not compared with maxSecs.
SecondsUnchecked(n) == IF n < 0 THEN 0 ELSE Least(Wrap(n * Second), MaxDelay)

Seconds(n) ==
  IF n < 0 THEN 0
  ELSE IF n > MaxInt \div Second THEN MaxDelay
  ELSE Least(Wrap(n * Second), MaxDelay)

\* parseRetryAfter; time.Until does not overflow.
RetryAfter(h) ==
  CASE h.kind = "seconds" -> Seconds(h.n)
    [] h.kind = "date" -> IF h.n < 0 THEN 0 ELSE Least(h.n, MaxDelay)
    [] h.kind = "none" -> 0

\* nextDelay, for a response whose header is h if its status is 429 or 503.  The
\* MaxBackoff of RetryConfig limits what the header asks for, no strategy.
NextDelay(b, attempt, h) ==
  IF RetryAfter(h) > 0 THEN {Least(RetryAfter(h), MaxBackoff)} ELSE Strategy(b, attempt)

\* The time that h asks for, as a number without a width.
Asked(h) ==
  CASE h.kind = "seconds" /\ h.n > 0 -> h.n * Second
    [] h.kind = "date" /\ h.n > 0 -> h.n
    [] OTHER -> 0

\* The longest pause that it gets.
Longest == Least(MaxBackoff, MaxDelay)

\* The longest pause that the parameters of b allow, and whether a Duration can
\* hold it.
Highest(b) ==
  CASE b.kind = "exponential" -> (b.max * (100 + b.jitter)) \div 100
    [] b.kind = "linear" -> b.max
    [] b.kind = "constant" -> b.initial
Representable(b) == b.kind = "exponential" => Highest(b) < MaxInt
=============================================================================
