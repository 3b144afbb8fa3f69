-------------------------- MODULE RateLimitProofs --------------------------
(* Proofs about RateLimit, for any number of callers, any burst and any    *)
(* number of ticks.                                                        *)
EXTENDS RateLimit, TLAPS

USE RateLimitAssumption DEF config, bucket

\* A caller that goes on or gives up keeps the types.
LEMMA CallerTypes ==
  ASSUME TypeOK, NEW c \in Callers,
         NEW to \in {"idle", "try", "check", "parked", "passed", "denied", "ctx"}, Goto(c, to)
  PROVE  pc' \in [Callers -> {"idle", "try", "check", "parked", "passed", "denied", "ctx"}]
  BY DEF TypeOK, Goto

\* Whoever parks, leaves or is served, parked stays a list of callers, and
\* only those who were parked leave.
LEMMA LeaveTypes ==
  ASSUME parked \in Seq(Callers), NEW c \in Callers, Leave(c)
  PROVE  parked' \in Seq(Callers) /\ parked # <<>>
<1> PICK i \in 1 .. Len(parked) :
      parked' = SubSeq(parked, 1, i - 1) \o SubSeq(parked, i + 1, Len(parked))
  BY DEF Leave
<1>1. SubSeq(parked, 1, i - 1) \in Seq(Callers)
  OBVIOUS
<1>2. SubSeq(parked, i + 1, Len(parked)) \in Seq(Callers)
  OBVIOUS
<1> QED  BY <1>1, <1>2

\* Every pass takes a token or the tick that would have made one; a tick adds
\* one and takes one off the excess, or finds the excess at 0 and the channels
\* within their capacities.
LEMMA RateStep ==
  ASSUME RateInv, [Next]_vars
  PROVE  RateInv'
<1> USE DEF RateInv, TypeOK, ExcessPaid, NoIdleToken, Capacity
<1>1. ASSUME NEW c \in Callers,
             \/ Disabled(c) \/ DenyAll(c) \/ Call(c) \/ Deny(c)
             \/ TimerFirst(c) \/ CtxFirst(c)
      PROVE  RateInv'
  <2>1. pc' \in [Callers -> {"idle", "try", "check", "parked", "passed", "denied", "ctx"}]
    BY <1>1, CallerTypes DEF Disabled, DenyAll, Call, Deny, TimerFirst, CtxFirst
  <2> QED  BY <1>1, <2>1 DEF Disabled, DenyAll, Call, Deny, TimerFirst, CtxFirst
<1>2. ASSUME NEW c \in Callers, Try(c)
      PROVE  RateInv'
  <2>1. pc' \in [Callers -> {"idle", "try", "check", "parked", "passed", "denied", "ctx"}]
    BY <1>2, CallerTypes DEF Try, Pass
  <2> QED  BY <1>2, <2>1 DEF Try, Pass
<1>3. ASSUME NEW c \in Callers, Wait(c)
      PROVE  RateInv'
  <2>1. pc' \in [Callers -> {"idle", "try", "check", "parked", "passed", "denied", "ctx"}]
    BY <1>3, CallerTypes DEF Wait, Pass
  <2>2. parked' \in Seq(Callers)
    BY <1>3 DEF Wait
  <2> QED  BY <1>3, <2>1, <2>2 DEF Wait, Pass
<1>4. ASSUME NEW c \in Callers, Timeout(c) \/ CtxDone(c)
      PROVE  RateInv'
  <2>1. pc' \in [Callers -> {"idle", "try", "check", "parked", "passed", "denied", "ctx"}]
    BY <1>4, CallerTypes DEF Timeout, CtxDone
  <2>2. parked' \in Seq(Callers) /\ parked # <<>>
    BY <1>4, LeaveTypes DEF Timeout, CtxDone
  <2> QED  BY <1>4, <2>1, <2>2 DEF Timeout, CtxDone
<1>5. ASSUME NEW c \in Callers, TimePasses(c)
      PROVE  RateInv'
  BY <1>5 DEF TimePasses
<1>6. CASE Refill /\ parked # <<>>
  <2>1. Head(parked) \in Callers /\ Tail(parked) \in Seq(Callers)
    BY <1>6
  <2>2. pc' \in [Callers -> {"idle", "try", "check", "parked", "passed", "denied", "ctx"}]
    BY <1>6, <2>1, CallerTypes DEF Refill, Pass
  <2>3. /\ tokens = 0 /\ tokens' = 0
        /\ tick = 1 /\ tick' = 0
        /\ excess' = excess + 1
    BY <1>6 DEF Refill, Pass
  <2>4. TypeOK'
    <3>1. UNCHANGED <<rate, waits, loop, closed, deadline, ticks>> /\ parked' = Tail(parked)
      BY <1>6 DEF Refill
    <3> QED  BY <2>1, <2>2, <2>3, <3>1
  <2>5. ExcessPaid' /\ NoIdleToken'
    BY <2>3
  <2> QED  BY <2>4, <2>5
<1>7. CASE Refill /\ parked = <<>>
  BY <1>7 DEF Refill
<1>8. CASE Stop \/ Close
  BY <1>8 DEF Stop, Close
<1>9. CASE Tick
  BY <1>9 DEF Tick
<1>10. CASE UNCHANGED vars
  BY <1>10 DEF vars
<1> QED  BY <1>1, <1>2, <1>3, <1>4, <1>5, <1>6, <1>7, <1>8, <1>9, <1>10
         DEF Next, Execute, Terminating

\* The inductive invariant holds in every reachable state.
THEOREM RateInvariant == Spec => []RateInv
<1>1. Init => RateInv
  <2> SUFFICES ASSUME Init PROVE RateInv
    OBVIOUS
  <2> USE DEF Init
  <2>1. tokens \in 0 .. Burst /\ excess = 0 /\ tick = 0 /\ parked = <<>>
    OBVIOUS
  <2>2. parked \in Seq(Callers)
    BY <2>1
  <2>3. TypeOK
    <3>1. /\ pc \in [Callers -> {"idle", "try", "check", "parked", "passed", "denied", "ctx"}]
          /\ deadline \in [Callers -> {"ahead", "due", "past"}]
      OBVIOUS
    <3>2. loop \in {"running", "exited"} /\ ticks \in Nat /\ excess \in Nat /\ tick \in {0, 1}
      OBVIOUS
    <3>3. rate \in {"zero", "negative", "positive"} /\ waits \in BOOLEAN /\ closed \in BOOLEAN
      BY Zenon
    <3> QED  BY <2>1, <2>2, <3>1, <3>2, <3>3, Zenon DEF TypeOK
  <2>4. ExcessPaid /\ NoIdleToken
    BY <2>1 DEF ExcessPaid, NoIdleToken
  <2> QED  BY <2>3, <2>4 DEF RateInv
<1> QED  BY <1>1, RateStep, PTL DEF Spec

\* The types: the channel never holds more than Burst tokens.
THEOREM TypeCorrect == Spec => []TypeOK
<1>1. RateInv => TypeOK
  BY DEF RateInv
<1> QED  BY <1>1, RateInvariant, PTL

\* In every interval at most Burst requests pass, one per tick and one more,
\* whatever the callers, the deadlines and Close do.
THEOREM RateCorrect == Spec => []RateHolds
<1>1. RateInv => RateHolds
  BY DEF RateInv, TypeOK, ExcessPaid, RateHolds
<1> QED  BY <1>1, RateInvariant, PTL

\* A token never lies in the channel while a caller sleeps for one.
THEOREM NoIdleTokenCorrect == Spec => []NoIdleToken
<1>1. RateInv => NoIdleToken
  BY DEF RateInv
<1> QED  BY <1>1, RateInvariant, PTL

-----------------------------------------------------------------------------
(* The callers in the second select, and the refinement.                   *)

\* Whoever sleeps for a token stands in the line once, and nobody else does.
ParkedExact ==
  /\ \A i \in 1 .. Len(parked) : pc[parked[i]] = "parked"
  /\ \A i, j \in 1 .. Len(parked) : parked[i] = parked[j] => i = j
  /\ \A c \in Callers : pc[c] = "parked" => \E i \in 1 .. Len(parked) : parked[i] = c

\* Callers sleep only when they may wait; the loop only runs if there is a rate.
Configured ==
  /\ \A c \in Callers : pc[c] = "parked" => waits
  /\ loop = "running" => rate = "positive"

LineInv == RateInv /\ ParkedExact /\ Configured

\* t is s without its element k.
Without(t, s, k) ==
  /\ Len(t) = Len(s) - 1
  /\ \A i \in 1 .. Len(t) : t[i] = IF i < k THEN s[i] ELSE s[i + 1]

LEMMA TailWithout ==
  ASSUME NEW S, NEW s \in Seq(S), s # <<>>
  PROVE  Without(Tail(s), s, 1) /\ 1 \in 1 .. Len(s) /\ Head(s) = s[1]
  BY DEF Without

LEMMA CutWithout ==
  ASSUME NEW S, NEW s \in Seq(S), NEW k \in 1 .. Len(s)
  PROVE  Without(SubSeq(s, 1, k - 1) \o SubSeq(s, k + 1, Len(s)), s, k)
<1> DEFINE u == SubSeq(s, 1, k - 1)
           v == SubSeq(s, k + 1, Len(s))
<1>1. Len(s) \in Nat /\ k \in Nat /\ 1 <= k /\ k <= Len(s)
  OBVIOUS
<1>2. u \in Seq(S) /\ Len(u) = k - 1 /\ \A i \in 1 .. k - 1 : u[i] = s[i]
  BY <1>1
<1>3. v \in Seq(S) /\ Len(v) = Len(s) - k /\ \A i \in 1 .. Len(s) - k : v[i] = s[i + k]
  BY <1>1
<1> HIDE DEF u, v
<1>4. Len(u \o v) = Len(s) - 1
  <2>1. \A x, y \in Seq(S) : Len(x \o y) = Len(x) + Len(y)
    OBVIOUS
  <2>2. Len(u \o v) = Len(u) + Len(v)
    BY <1>2, <1>3, <2>1
  <2> QED  BY <1>1, <1>2, <1>3, <2>2
<1>5. ASSUME NEW i \in 1 .. Len(u \o v)
      PROVE  (u \o v)[i] = IF i < k THEN s[i] ELSE s[i + 1]
  <2>1. i \in 1 .. Len(s) - 1
    BY <1>4
  <2>2. CASE i < k
    BY <1>1, <1>2, <1>3, <2>1, <2>2
  <2>3. CASE i >= k
    <3>1. (u \o v)[i] = v[i - (k - 1)]
      BY <1>1, <1>2, <1>3, <2>1, <2>3
    <3>2. i - (k - 1) \in 1 .. Len(s) - k /\ (i - (k - 1)) + k = i + 1
      BY <1>1, <2>1, <2>3
    <3> QED  BY <1>1, <1>3, <2>1, <2>3, <3>1, <3>2
  <2> QED  BY <1>1, <2>1, <2>2, <2>3
<1>6. Without(u \o v, s, k)
  BY <1>4, <1>5 DEF Without
<1> QED  BY <1>6 DEF u, v

\* When the caller at k goes elsewhere, the line is exact without it.
LEMMA LineShrinks ==
  ASSUME TypeOK, ParkedExact, NEW k \in 1 .. Len(parked), Without(parked', parked, k),
         NEW to \in {"try", "passed", "ctx"}, Goto(parked[k], to), parked' \in Seq(Callers)
  PROVE  ParkedExact'
<1> DEFINE at(i) == IF i < k THEN i ELSE i + 1
<1>1. Len(parked) \in Nat /\ Len(parked') \in Nat /\ k \in Nat /\ parked[k] \in Callers
  BY DEF TypeOK
<1>2. \A i \in 1 .. Len(parked') : at(i) \in 1 .. Len(parked) \ {k} /\ parked'[i] = parked[at(i)]
  BY <1>1 DEF Without
<1>3. \A i, j \in 1 .. Len(parked') : at(i) = at(j) => i = j
  BY <1>1
<1>4. \A j \in 1 .. Len(parked) \ {k} : \E i \in 1 .. Len(parked') : at(i) = j
  <2> TAKE j \in 1 .. Len(parked) \ {k}
  <2>1. CASE j < k
    <3>1. j \in 1 .. Len(parked') /\ at(j) = j
      BY <1>1, <2>1 DEF Without
    <3> QED  BY <3>1
  <2>2. CASE j > k
    <3>1. j - 1 \in 1 .. Len(parked') /\ at(j - 1) = j
      BY <1>1, <2>2 DEF Without
    <3> QED  BY <3>1
  <2> QED  BY <1>1, <2>1, <2>2
<1> HIDE DEF at
<1>5. \A c \in Callers : pc'[c] = IF c = parked[k] THEN to ELSE pc[c]
  BY DEF TypeOK, Goto
<1>6. ASSUME NEW i \in 1 .. Len(parked') PROVE pc'[parked'[i]] = "parked"
  <2>1. parked[at(i)] \in Callers /\ parked[at(i)] # parked[k] /\ pc[parked[at(i)]] = "parked"
    BY <1>2 DEF TypeOK, ParkedExact
  <2> QED  BY <1>2, <1>5, <2>1
<1>7. ASSUME NEW i \in 1 .. Len(parked'), NEW j \in 1 .. Len(parked'), parked'[i] = parked'[j]
      PROVE  i = j
  <2>1. at(i) = at(j)
    BY <1>2, <1>7 DEF ParkedExact
  <2> QED  BY <1>3, <2>1
<1>8. ASSUME NEW c \in Callers, pc'[c] = "parked"
      PROVE  \E i \in 1 .. Len(parked') : parked'[i] = c
  <2>1. c # parked[k] /\ pc[c] = "parked"
    BY <1>5, <1>8
  <2>2. PICK j \in 1 .. Len(parked) : parked[j] = c
    BY <2>1 DEF ParkedExact
  <2>3. PICK i \in 1 .. Len(parked') : at(i) = j
    BY <1>4, <2>1, <2>2
  <2> QED  BY <1>2, <2>2, <2>3
<1> QED  BY <1>6, <1>7, <1>8 DEF ParkedExact

\* A caller that parks was not in the line.
LEMMA LineGrows ==
  ASSUME TypeOK, ParkedExact, NEW c \in Callers, pc[c] # "parked",
         Goto(c, "parked"), parked' = Append(parked, c)
  PROVE  ParkedExact'
<1> DEFINE n == Len(parked)
<1>1. /\ n \in Nat /\ Len(parked') = n + 1 /\ parked'[n + 1] = c
      /\ \A i \in 1 .. n : parked'[i] = parked[i] /\ parked[i] \in Callers
  BY DEF TypeOK
<1>2. \A i \in 1 .. n : parked[i] # c
  BY DEF ParkedExact
<1>3. \A d \in Callers : pc'[d] = IF d = c THEN "parked" ELSE pc[d]
  BY DEF TypeOK, Goto
<1>4. \A i \in 1 .. n + 1 : i \in 1 .. n \/ i = n + 1
  BY <1>1
<1>5. n + 1 \in 1 .. n + 1 /\ \A i \in 1 .. n : i \in 1 .. n + 1
  BY <1>1
<1> HIDE DEF n
<1>6. \A i \in 1 .. n + 1 : pc'[parked'[i]] = "parked"
  BY <1>1, <1>2, <1>3, <1>4 DEF ParkedExact, n
<1>7. \A i, j \in 1 .. n + 1 : parked'[i] = parked'[j] => i = j
  BY <1>1, <1>2, <1>4 DEF ParkedExact, n
<1>8. ASSUME NEW d \in Callers, pc'[d] = "parked"
      PROVE  \E i \in 1 .. n + 1 : parked'[i] = d
  <2>1. CASE d = c
    BY <1>1, <1>5, <2>1
  <2>2. CASE d # c
    <3>1. PICK i \in 1 .. n : parked[i] = d
      BY <1>3, <1>8, <2>2 DEF ParkedExact, n
    <3> QED  BY <1>1, <1>5, <3>1
  <2> QED  BY <2>1, <2>2
<1> QED  BY <1>1, <1>6, <1>7, <1>8 DEF ParkedExact

\* A caller whose step is not about the line neither was in it nor enters it.
LEMMA LineStays ==
  ASSUME TypeOK, ParkedExact, NEW c \in Callers, pc[c] # "parked",
         NEW to, to # "parked", Goto(c, to), UNCHANGED parked
  PROVE  ParkedExact'
<1>1. \A d \in Callers : pc'[d] = IF d = c THEN to ELSE pc[d]
  BY DEF TypeOK, Goto
<1>2. \A i \in 1 .. Len(parked) : parked[i] \in Callers
  BY DEF TypeOK
<1> QED  BY <1>1, <1>2 DEF ParkedExact

LEMMA LeaveShrinks ==
  ASSUME TypeOK, ParkedExact, NEW c \in Callers, Leave(c), NEW to \in {"try", "ctx"}, Goto(c, to)
  PROVE  ParkedExact'
<1>1. PICK k \in 1 .. Len(parked) :
        /\ parked[k] = c
        /\ parked' = SubSeq(parked, 1, k - 1) \o SubSeq(parked, k + 1, Len(parked))
  BY DEF Leave
<1>2. Without(parked', parked, k)
  BY <1>1, CutWithout DEF TypeOK
<1>3. parked' \in Seq(Callers)
  BY LeaveTypes DEF TypeOK
<1> QED  BY <1>1, <1>2, <1>3, LineShrinks

LEMMA RefillShrinks ==
  ASSUME LineInv, Refill, parked # <<>>
  PROVE  ParkedExact' /\ Head(parked) \in Callers /\ pc[Head(parked)] = "parked"
<1> USE DEF LineInv, RateInv
<1>1. parked \in Seq(Callers)
  BY DEF TypeOK
<1>2. Without(Tail(parked), parked, 1) /\ 1 \in 1 .. Len(parked) /\ Head(parked) = parked[1]
  BY <1>1, TailWithout
<1>3. parked' = Tail(parked) /\ Goto(parked[1], "passed")
  BY <1>2 DEF Refill, Pass
<1>4. parked' \in Seq(Callers)
  BY <1>1, <1>3
<1>5. ParkedExact'
  BY <1>2, <1>3, <1>4, LineShrinks
<1> QED  BY <1>1, <1>2, <1>5 DEF ParkedExact

LEMMA LineStep ==
  ASSUME LineInv, [Next]_vars
  PROVE  LineInv'
<1> USE DEF LineInv, RateInv
<1>1. RateInv'
  BY RateStep
<1>2. ASSUME NEW c \in Callers,
             \/ Disabled(c) \/ DenyAll(c) \/ Call(c) \/ Try(c) \/ Deny(c)
             \/ TimerFirst(c) \/ CtxFirst(c)
      PROVE  ParkedExact' /\ Configured'
  <2>1. PICK to \in {"try", "check", "passed", "denied", "ctx"} :
          Goto(c, to) /\ pc[c] # "parked" /\ UNCHANGED <<parked, waits, loop, rate>>
    BY <1>2 DEF Disabled, DenyAll, Call, Try, Deny, Pass, TimerFirst, CtxFirst
  <2>2. ParkedExact'
    BY <2>1, LineStays
  <2> QED  BY <2>1, <2>2 DEF Configured, Goto, TypeOK
<1>3. ASSUME NEW c \in Callers, Wait(c)
      PROVE  ParkedExact' /\ Configured'
  <2>1. pc[c] = "check" /\ waits /\ UNCHANGED <<waits, loop, rate>>
    BY <1>3 DEF Wait
  <2>2. \/ Goto(c, "passed") /\ UNCHANGED parked
        \/ Goto(c, "parked") /\ parked' = Append(parked, c)
    BY <1>3 DEF Wait, Pass
  <2>3. ParkedExact'
    BY <2>1, <2>2, LineStays, LineGrows
  <2> QED  BY <2>1, <2>3 DEF Configured
<1>4. ASSUME NEW c \in Callers, Timeout(c) \/ CtxDone(c)
      PROVE  ParkedExact' /\ Configured'
  <2>1. PICK to \in {"try", "ctx"} : Goto(c, to) /\ Leave(c) /\ UNCHANGED <<waits, loop, rate>>
    BY <1>4 DEF Timeout, CtxDone
  <2>2. ParkedExact'
    BY <2>1, LeaveShrinks
  <2> QED  BY <2>1, <2>2 DEF Configured, Goto, TypeOK
<1>5. ASSUME Refill PROVE ParkedExact' /\ Configured'
  <2>1. CASE parked # <<>>
    BY <1>5, <2>1, RefillShrinks DEF Refill, Pass, Goto, Configured, TypeOK
  <2>2. CASE parked = <<>>
    BY <1>5, <2>2 DEF Refill, ParkedExact, Configured
  <2> QED  BY <2>1, <2>2
<1>6. ASSUME NEW c \in Callers, TimePasses(c) PROVE ParkedExact' /\ Configured'
  BY <1>6 DEF TimePasses, ParkedExact, Configured
<1>7. ASSUME Stop \/ Close \/ Tick \/ UNCHANGED vars PROVE ParkedExact' /\ Configured'
  BY <1>7 DEF Stop, Close, Tick, vars, ParkedExact, Configured
<1> QED  BY <1>1, <1>2, <1>3, <1>4, <1>5, <1>6, <1>7 DEF Next, Execute, Terminating

\* The callers that sleep for a token are those in the line, each once.
THEOREM LineInvariant == Spec => []LineInv
<1>1. Init /\ RateInv => LineInv
  BY DEF Init, LineInv, ParkedExact, Configured
<1>2. RateInv /\ LineInv /\ [Next]_vars => LineInv'
  BY LineStep
<1> QED  BY <1>1, <1>2, RateInvariant, PTL DEF Spec

\* Whenever the timer or the context of a sleeping caller fires, it can leave the
\* line: what Answered needs of the state.
CanLeave ==
  \A c \in Callers : pc[c] = "parked" =>
    \E i \in 1 .. Len(parked) :
      /\ parked[i] = c
      /\ \A j \in 1 .. Len(parked) : parked[j] = c => j = i

\* No sleeping caller is out of reach of its timer.
THEOREM LeavingCorrect == Spec => []CanLeave
<1>1. LineInv => CanLeave
  BY DEF LineInv, ParkedExact, CanLeave
<1> QED  BY <1>1, LineInvariant, PTL

\* What a step of c does to the stages.
LEMMA StageStep ==
  ASSUME TypeOK, NEW c \in Callers, NEW to, Goto(c, to), NEW s,
         s = CASE to = "try" -> "asking" [] to \in {"check", "parked"} -> "short" [] OTHER -> to
  PROVE  Abstract!Enter(c, s)
<1>1. Stage(c)' = s /\ \A d \in Callers \ {c} : Stage(d)' = Stage(d)
  BY DEF TypeOK, Goto, Stage
<1> QED  BY <1>1 DEF Abstract!Enter

LEMMA DecideRefines ==
  ASSUME LineInv, NEW c \in Callers, Disabled(c) \/ DenyAll(c) \/ Call(c)
  PROVE  Abstract!Decide(c)
<1> USE DEF LineInv, RateInv
<1>1. Stage(c) = "idle" /\ UNCHANGED <<rate, waits, tokens, tick, deadline>>
  BY DEF Disabled, DenyAll, Call, Stage
<1>2. \/ rate = "zero" /\ Abstract!Enter(c, "passed")
      \/ rate = "negative" /\ Abstract!Enter(c, "denied")
      \/ rate = "positive" /\ Abstract!Enter(c, "asking")
  BY StageStep DEF Disabled, DenyAll, Call
<1> QED  BY <1>1, <1>2 DEF Abstract!Decide

LEMMA TryRefines ==
  ASSUME LineInv, NEW c \in Callers, Try(c)
  PROVE  Abstract!Pass(c) \/ Abstract!Miss(c)
<1> USE DEF LineInv, RateInv
<1>1. Stage(c) = "asking" /\ UNCHANGED <<rate, waits, tick, deadline>>
  BY DEF Try, Stage
<1>2. tokens \in Nat /\ tick \in {0, 1}
  BY DEF TypeOK
<1>3. CASE tokens > 0
  <2>1. Abstract!Enter(c, "passed") /\ tokens' = tokens - 1
    BY <1>3, StageStep DEF Try, Pass
  <2>2. tokens + tick > 0 /\ tokens' + tick' = (tokens + tick) - 1
    BY <1>1, <1>2, <1>3, <2>1
  <2> QED  BY <1>1, <2>1, <2>2 DEF Abstract!Pass
<1>4. CASE ~(tokens > 0)
  <2>1. Abstract!Enter(c, "short") /\ UNCHANGED tokens
    BY <1>4, StageStep DEF Try
  <2>2. tokens + tick <= 1
    BY <1>2, <1>4
  <2> QED  BY <1>1, <2>1, <2>2 DEF Abstract!Miss
<1> QED  BY <1>3, <1>4

LEMMA DenyRefines ==
  ASSUME LineInv, NEW c \in Callers, Deny(c)
  PROVE  Abstract!Refuse(c)
<1> USE DEF LineInv, RateInv
<1>1. /\ Stage(c) = "short" /\ UNCHANGED <<rate, waits, tokens, tick, deadline>>
      /\ waits => c \in {d \in Callers : deadline[d] = "past"}
  BY DEF Deny, Stage
<1>2. Abstract!Enter(c, "denied")
  BY StageStep DEF Deny
<1> QED  BY <1>1, <1>2 DEF Abstract!Refuse

\* To park is no step of the abstract limiter.
LEMMA WaitRefines ==
  ASSUME LineInv, NEW c \in Callers, Wait(c)
  PROVE  Abstract!Pass(c) \/ UNCHANGED Abstract!avars
<1> USE DEF LineInv, RateInv
<1>1. Stage(c) = "short" /\ UNCHANGED <<rate, waits, tick, deadline>>
  BY DEF Wait, Stage
<1>2. tokens \in Nat /\ tick \in {0, 1}
  BY DEF TypeOK
<1>3. CASE tokens > 0
  <2>1. Abstract!Enter(c, "passed") /\ tokens' = tokens - 1
    BY <1>3, StageStep DEF Wait, Pass
  <2>2. tokens + tick > 0 /\ tokens' + tick' = (tokens + tick) - 1
    BY <1>1, <1>2, <1>3, <2>1
  <2> QED  BY <1>1, <2>1, <2>2 DEF Abstract!Pass
<1>4. CASE ~(tokens > 0)
  <2>1. \A d \in Callers : Stage(d)' = Stage(d)
    BY <1>4 DEF Wait, TypeOK, Goto, Stage
  <2>2. UNCHANGED tokens
    BY <1>4 DEF Wait
  <2> QED  BY <1>1, <2>1, <2>2 DEF Abstract!avars
<1> QED  BY <1>3, <1>4

LEMMA LeaveRefines ==
  ASSUME LineInv, NEW c \in Callers,
         Timeout(c) \/ CtxDone(c) \/ TimerFirst(c) \/ CtxFirst(c)
  PROVE  Abstract!Again(c) \/ Abstract!GiveUp(c)
<1> USE DEF LineInv, RateInv
<1>1. Stage(c) = "short" /\ waits /\ UNCHANGED <<rate, waits, tokens, tick, deadline>>
  BY DEF Timeout, CtxDone, TimerFirst, CtxFirst, Stage, Configured
<1>2. Abstract!Enter(c, "asking") \/ Abstract!Enter(c, "ctx")
  BY StageStep DEF Timeout, CtxDone, TimerFirst, CtxFirst
<1> QED  BY <1>1, <1>2 DEF Abstract!Again, Abstract!GiveUp

\* A refill for a parked caller is its pass; into the buffer it moves a credit from
\* the ticker's channel; and one that finds it full is spilt.
LEMMA RefillRefines ==
  ASSUME LineInv, Refill
  PROVE  \/ \E c \in Callers : Abstract!Pass(c)
         \/ Abstract!Spill
         \/ UNCHANGED Abstract!avars
<1> USE DEF LineInv, RateInv
<1>1. /\ tokens \in 0 .. Burst /\ tick = 1 /\ tick' = 0
      /\ UNCHANGED <<rate, waits, deadline>>
  BY DEF Refill, TypeOK
<1>2. CASE parked # <<>>
  <2>1. PICK c \in Callers : c = Head(parked) /\ Stage(c) = "short"
    BY <1>2, RefillShrinks DEF Stage
  <2>2. Abstract!Enter(c, "passed") /\ tokens' = tokens
    BY <1>2, <2>1, StageStep DEF Refill, Pass
  <2>3. tokens + tick > 0 /\ tokens' + tick' = (tokens + tick) - 1
    BY <1>1, <2>2
  <2>4. Abstract!Pass(c)
    BY <1>1, <2>1, <2>2, <2>3 DEF Abstract!Pass
  <2> QED  BY <2>4
<1>3. CASE parked = <<>>
  <2>1. \A d \in Callers : Stage(d)' = Stage(d)
    BY <1>3 DEF Refill, Stage
  <2>2. CASE tokens < Burst
    <3>1. tokens' + tick' = tokens + tick
      BY <1>1, <1>3, <2>2 DEF Refill, Capacity
    <3> QED  BY <1>1, <2>1, <3>1 DEF Abstract!avars
  <2>3. CASE tokens = Burst
    <3>1. tokens + tick > Burst /\ tokens' + tick' = (tokens + tick) - 1
      BY <1>1, <1>3, <2>3 DEF Refill, Capacity
    <3> QED  BY <1>1, <2>1, <3>1 DEF Abstract!Spill
  <2> QED  BY <1>1, <2>2, <2>3
<1> QED  BY <1>2, <1>3

LEMMA TickRefines ==
  ASSUME LineInv, Tick
  PROVE  Abstract!Earn \/ UNCHANGED Abstract!avars
<1> USE DEF LineInv, RateInv
<1>1. /\ tokens \in 0 .. Burst /\ tick \in {0, 1} /\ tick' = 1 /\ rate = "positive"
      /\ UNCHANGED <<rate, waits, tokens, deadline, pc>>
  BY DEF Tick, TypeOK, Configured
<1>2. \A d \in Callers : Stage(d)' = Stage(d)
  BY <1>1 DEF Stage
<1>3. CASE tick = 1
  BY <1>1, <1>2, <1>3 DEF Abstract!avars
<1>4. CASE tick = 0
  <2>1. tokens + tick <= Burst /\ tokens' + tick' = (tokens + tick) + 1
    BY <1>1, <1>4
  <2> QED  BY <1>1, <1>2, <2>1 DEF Abstract!Earn
<1> QED  BY <1>1, <1>3, <1>4

LEMMA TimeRefines ==
  ASSUME LineInv, NEW c \in Callers, TimePasses(c)
  PROVE  Abstract!Expire(c) \/ UNCHANGED Abstract!avars
<1> USE DEF LineInv, RateInv
<1> DEFINE gone == {d \in Callers : deadline[d] = "past"}
<1>1. waits /\ Stage(c) \in {"asking", "short"} /\ UNCHANGED <<rate, waits, tokens, tick, pc>>
  BY DEF TimePasses, Stage
<1>2. \A d \in Callers : Stage(d)' = Stage(d)
  BY <1>1 DEF Stage
<1>3. {d \in Callers : deadline'[d] = "past"} \in {gone, gone \cup {c}}
  <2>1. deadline' = [deadline EXCEPT ![c] = IF @ = "ahead" THEN "due" ELSE "past"] /\ deadline[c] # "past"
    BY DEF TimePasses
  <2>2. CASE deadline[c] = "ahead"
    BY <2>1, <2>2 DEF TypeOK
  <2>3. CASE deadline[c] # "ahead"
    BY <2>1, <2>3 DEF TypeOK
  <2> QED  BY <2>2, <2>3
<1>4. CASE {d \in Callers : deadline'[d] = "past"} = gone
  BY <1>1, <1>2, <1>4 DEF Abstract!avars
<1>5. CASE {d \in Callers : deadline'[d] = "past"} = gone \cup {c}
  BY <1>1, <1>2, <1>5 DEF Abstract!Expire
<1> QED  BY <1>3, <1>4, <1>5

\* Channels, ticker and parked callers implement the abstract limiter.
THEOREM Refinement == Spec => ImplementsRateLimitSpec
<1>1. Init => Abstract!Init
  <2> SUFFICES ASSUME Init PROVE Abstract!Init
    OBVIOUS
  <2>1. [c \in Callers |-> Stage(c)] = [c \in Callers |-> "idle"]
    BY DEF Init, Stage
  <2>2. {c \in Callers : deadline[c] = "past"} = {}
    BY DEF Init
  <2>3. /\ rate \in {"zero", "negative", "positive"} /\ waits \in BOOLEAN
        /\ tick = 0 /\ tokens = IF rate = "positive" THEN Burst ELSE 0
    BY Zenon DEF Init
  <2>4. tokens + tick = IF rate = "positive" THEN Burst ELSE 0
    BY <2>3
  <2> QED  BY <2>1, <2>2, <2>3, <2>4, Zenon DEF Abstract!Init
<1>2. LineInv /\ [Next]_vars => [Abstract!Next]_(Abstract!avars)
  <2> SUFFICES ASSUME LineInv, [Next]_vars
               PROVE  Abstract!Next \/ UNCHANGED Abstract!avars
    OBVIOUS
  <2>1. ASSUME NEW c \in Callers,
               \/ Disabled(c) \/ DenyAll(c) \/ Call(c)
               \/ Execute(c) \/ CtxFirst(c) \/ CtxDone(c) \/ TimePasses(c)
        PROVE  Abstract!Next \/ UNCHANGED Abstract!avars
    BY <2>1, DecideRefines, TryRefines, DenyRefines, WaitRefines, LeaveRefines, TimeRefines
    DEF Execute, Abstract!Next
  <2>2. CASE Refill \/ Tick
    BY <2>2, RefillRefines, TickRefines DEF Abstract!Next
  <2>3. CASE Stop \/ Close \/ UNCHANGED vars
    <3>1. UNCHANGED <<rate, waits, tokens, tick, pc, deadline>>
      BY <2>3 DEF Stop, Close, vars
    <3> QED  BY <3>1 DEF Abstract!avars, Stage
  <2> QED  BY <2>1, <2>2, <2>3 DEF Next, Terminating
<1> QED
  BY <1>1, <1>2, LineInvariant, PTL DEF Spec, ImplementsRateLimitSpec, Abstract!ASpec
=============================================================================
