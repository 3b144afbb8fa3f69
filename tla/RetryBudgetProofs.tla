-------------------------- MODULE RetryBudgetProofs --------------------------
(***************************************************************************)
(* Invariants of a RetryBudget under any calls of Allow, and their proofs. *)
(* Nothing is said of who calls it: RetryProofs uses them for RetryPolicy. *)
(***************************************************************************)
EXTENDS RetryBudget, FiniteSetTheorems, TLAPS

\* Any caller may start Allow or take its next step, at any time.
BudgetNext == Tick \/ \E c \in Callers : Allow(c) \/ AllowStep(c)

BudgetSpec == BudgetInit /\ [][BudgetNext]_budgetVars

Resetting(c) == apc[c] \in {"zeroTotal", "zeroRetries", "moveWindow"}

\* rb.mu lets one caller at a time reset the window.
OneReset == \A c, d \in Callers : Resetting(c) /\ Resetting(d) => c = d

\* A caller that waits for rb.mu has seen a window expire; the window that a
\* caller resets is still the one it saw.
ExpirySeen ==
  /\ windowStart <= clock
  /\ \A c \in Callers :
       /\ apc[c] = "lock" => now[c] <= clock /\ now[c] - start[c] > Window
       /\ Resetting(c) => now[c] <= clock /\ now[c] - windowStart > Window

\* The inductive invariant of the window.
WindowInv == BudgetTypeOK /\ OneReset /\ ExpirySeen

\* The callers whose retry may come on top of the ones that total justifies: they
\* are past the comparison, or are yet to make it with a total that a reset has
\* taken back since.
Late(c) == apc[c] = "addRetry" \/ (apc[c] = "loadRetries" /\ share[c] > total)
LateCallers == {c \in Callers : Late(c)}

\* The inductive invariant of the counters: every retry but those of the late
\* callers, one for each at most, was added below the budget.  It is lost only
\* between the two stores of a reset.
CountersInv ==
  \/ \E c \in Callers : apc[c] = "zeroRetries"
  \/ (retries + Cardinality(LateCallers)) * Den < Num * total + Den * Cardinality(Callers)

\* rb.total is stored already and rb.retries not yet.
Storing == \E c \in Callers : apc[c] = "zeroRetries"

\* The callers whose next yes rb.retries may fail to show: between the two stores of
\* a reset all that are past the window's check, afterwards those whose outcome
\* the reset took back.
Forgets(c) ==
  IF Storing THEN apc[c] \in {"add", "loadTotal", "loadRetries", "addRetry"}
             ELSE apc[c] = "loadTotal" /\ total = 0
Forgetful == {c \in Callers : Forgets(c)}

\* The part of what was granted since ZeroTotal that rb.retries shows.
Shown == IF Storing THEN 0 ELSE retries

\* The inductive invariant of the grants: a reset forgets at most one of each caller
\* but the one that resets.
GrantsInv == granted + Cardinality(Forgetful) <= Shown + (Cardinality(Callers) - 1)

-----------------------------------------------------------------------------
(* Arithmetic. *)

\* What the products of the ratio are, and that they keep the order.
LEMMA Scaled ==
  ASSUME NEW a \in Int, NEW b \in Int, NEW k \in Nat, a <= b
  PROVE  /\ a * k \in Int /\ b * k \in Int /\ k * a \in Int /\ k * b \in Int
         /\ a * k <= b * k /\ k * a <= k * b
  OBVIOUS

\* More outcomes and no more retries keep the ratio.
LEMMA RatioKept ==
  ASSUME NEW r \in Int, NEW q \in Int, NEW s \in Int, NEW t \in Int, NEW n \in Nat,
         q <= r, s <= t, r * Den < Num * s + Den * n
  PROVE  q * Den < Num * t + Den * n
<1>1. Num \in Nat /\ Den \in Nat
  BY BudgetAssumption
<1>2. q * Den <= r * Den /\ q * Den \in Int /\ r * Den \in Int
  BY <1>1, Scaled
<1>3. Num * s <= Num * t /\ Num * s \in Int /\ Num * t \in Int
  BY <1>1, Scaled
<1>4. Den * n \in Int
  BY <1>1, Scaled
<1> QED BY <1>2, <1>3, <1>4

\* Below the budget, each of n callers may add a retry.
LEMMA RatioWithin ==
  ASSUME NEW r \in Int, NEW s \in Int, NEW t \in Int, NEW k \in Nat, NEW n \in Nat,
         s <= t, k <= n, r * Den < Num * s
  PROVE  (r + k) * Den < Num * t + Den * n
<1>1. Num \in Nat /\ Den \in Nat
  BY BudgetAssumption
<1>2. Num * s <= Num * t /\ Num * s \in Int /\ Num * t \in Int
  BY <1>1, Scaled
<1>3. k * Den <= n * Den /\ k * Den \in Int /\ n * Den \in Int /\ n * Den = Den * n
  BY <1>1, Scaled
<1>4. (r + k) * Den = r * Den + k * Den /\ r * Den \in Int
  BY <1>1
<1> QED BY <1>2, <1>3, <1>4

\* Nor are there too many once the counters are zero, if one caller is not late.
LEMMA RatioAtZero ==
  ASSUME NEW t \in Nat, NEW k \in Nat, NEW n \in Nat, k < n
  PROVE  k * Den < Num * t + Den * n
<1>1. Num \in Nat /\ Den \in Nat \ {0}
  BY BudgetAssumption
<1>2. (k + 1) * Den <= n * Den /\ n * Den = Den * n /\ Den * n \in Int
  BY <1>1, Scaled
<1>3. (k + 1) * Den = k * Den + Den /\ k * Den \in Int
  BY <1>1
<1>4. 0 <= Num * t /\ Num * t \in Int
  BY <1>1
<1> QED BY <1>1, <1>2, <1>3, <1>4

\* k more keep the ratio but for k more.
LEMMA RatioPlus ==
  ASSUME NEW r \in Int, NEW m \in Int, NEW t \in Int, NEW n \in Nat, NEW k \in Nat,
         m <= r + k, r * Den < Num * t + Den * n
  PROVE  m * Den < Num * t + Den * (n + k)
<1>1. Num \in Nat /\ Den \in Nat
  BY BudgetAssumption
<1>2. m * Den <= (r + k) * Den /\ m * Den \in Int /\ (r + k) * Den \in Int
  BY <1>1, Scaled
<1>3. (r + k) * Den = r * Den + Den * k /\ Den * (n + k) = Den * n + Den * k
  BY <1>1
<1>4. {r * Den, Den * k, Den * n, Num * t} \subseteq Int
  BY <1>1
<1> DEFINE a == r * Den
           b == Den * k
           d == Den * n
           e == Num * t
           f == m * Den
<1>5. a < e + d /\ {a, b, d, e, f} \subseteq Int /\ f <= a + b
  BY <1>2, <1>3, <1>4
<1>6. Den * (n + k) = d + b
  BY <1>3
<1> HIDE DEF a, b, d, e, f
<1>7. f < e + (d + b)
  BY <1>5
<1> QED BY <1>6, <1>7 DEF e, f

\* Subsets of Callers are finite; how their sizes compare.
LEMMA CallersFinite ==
  ASSUME NEW S \in SUBSET Callers
  PROVE  /\ IsFiniteSet(S)
         /\ Cardinality(S) \in Nat /\ Cardinality(Callers) \in Nat
         /\ Cardinality(S) <= Cardinality(Callers)
         /\ \A T \in SUBSET S : Cardinality(T) \in Nat /\ Cardinality(T) <= Cardinality(S)
         /\ \A c \in S : Cardinality(S \ {c}) = Cardinality(S) - 1
         /\ \A c \in Callers : Cardinality(S \cup {c}) <= Cardinality(S) + 1
<1>1. IsFiniteSet(Callers)
  BY BudgetAssumption
<1>2. IsFiniteSet(S) /\ Cardinality(S) <= Cardinality(Callers)
  BY <1>1, FS_Subset
<1>3. Cardinality(S) \in Nat /\ Cardinality(Callers) \in Nat
  BY <1>1, <1>2, FS_CardinalityType
<1>4. ASSUME NEW T \in SUBSET S
      PROVE  Cardinality(T) \in Nat /\ Cardinality(T) <= Cardinality(S)
  BY <1>2, FS_Subset, FS_CardinalityType
<1>5. ASSUME NEW c \in S PROVE Cardinality(S \ {c}) = Cardinality(S) - 1
  BY <1>2, FS_RemoveElement
<1>6. ASSUME NEW c \in Callers PROVE Cardinality(S \cup {c}) <= Cardinality(S) + 1
  BY <1>2, <1>3, FS_AddElement
<1> QED BY <1>2, <1>3, <1>4, <1>5, <1>6

-----------------------------------------------------------------------------
(* The window. *)

LEMMA WindowInit == BudgetInit => WindowInv
<1> SUFFICES ASSUME BudgetInit PROVE WindowInv
  OBVIOUS
<1>1. ~mu /\ mu \in BOOLEAN /\ \A c \in Callers : apc[c] = "out"
  BY DEF BudgetInit
<1>2. BudgetTypeOK
  BY <1>1 DEF BudgetInit, BudgetTypeOK
<1>3. OneReset /\ ExpirySeen
  BY <1>1 DEF BudgetInit, OneReset, ExpirySeen, Resetting
<1> QED BY <1>2, <1>3 DEF WindowInv

\* The invariant of the window is kept by every step.
LEMMA WindowStep == WindowInv /\ [BudgetNext]_budgetVars => WindowInv'
<1> SUFFICES ASSUME WindowInv, [BudgetNext]_budgetVars PROVE WindowInv'
  OBVIOUS
<1> USE BudgetAssumption
<1> USE DEF WindowInv, BudgetTypeOK, OneReset, ExpirySeen, Resetting
<1>1. CASE Tick
  BY <1>1 DEF Tick, counters, locals
<1>2. ASSUME NEW c \in Callers, Allow(c) PROVE WindowInv'
  BY <1>2 DEF Allow, Goto, counters
<1>3. ASSUME NEW c \in Callers, Lock(c) PROVE WindowInv'
  <2>1. ~mu /\ \A d \in Callers : ~Resetting(d)
    BY <1>3 DEF Lock
  <2>2. CASE SameWindow(c)
    <3>1. mu' /\ mu' \in BOOLEAN /\ apc' = [apc EXCEPT ![c] = "zeroTotal"]
      BY <1>3, <2>2 DEF Lock, Goto
    <3> QED BY <1>3, <2>1, <2>2, <3>1 DEF Lock, SameWindow, counters
  <2>3. CASE ~SameWindow(c)
    <3>1. ~mu' /\ mu' \in BOOLEAN /\ apc' = [apc EXCEPT ![c] = "add"]
      BY <1>3, <2>3 DEF Lock, Goto, SameWindow
    <3> QED BY <1>3, <2>1, <2>3, <3>1 DEF Lock, counters
  <2> QED BY <2>2, <2>3
<1>4. ASSUME NEW c \in Callers, ZeroTotal(c) PROVE WindowInv'
  BY <1>4 DEF ZeroTotal, Goto, locals
<1>5. ASSUME NEW c \in Callers, ZeroRetries(c) PROVE WindowInv'
  BY <1>5 DEF ZeroRetries, Goto, locals
<1>6. ASSUME NEW c \in Callers, MoveWindow(c) PROVE WindowInv'
  <2>1. ~mu' /\ mu' \in BOOLEAN
    BY <1>6 DEF MoveWindow
  <2>2. \A d \in Callers : ~Resetting(d)'
    BY <1>6 DEF MoveWindow, Goto
  <2> QED BY <1>6, <2>1, <2>2 DEF MoveWindow, Goto
<1>7. ASSUME NEW c \in Callers, AddTotal(c) PROVE WindowInv'
  BY <1>7 DEF AddTotal, Goto, locals
<1>8. ASSUME NEW c \in Callers, LoadTotal(c) PROVE WindowInv'
  BY <1>8 DEF LoadTotal, Verdict, Goto, counters
<1>9. ASSUME NEW c \in Callers, LoadRetries(c) PROVE WindowInv'
  BY <1>9 DEF LoadRetries, Verdict, Goto, counters
<1>10. ASSUME NEW c \in Callers, AddRetry(c) PROVE WindowInv'
  BY <1>10 DEF AddRetry, Verdict, Goto
<1>11. CASE UNCHANGED budgetVars
  BY <1>11 DEF budgetVars
<1> QED
  BY <1>1, <1>2, <1>3, <1>4, <1>5, <1>6, <1>7, <1>8, <1>9, <1>10, <1>11 DEF BudgetNext, AllowStep

\* The budget's window and mutex keep their invariant, whoever calls Allow.
THEOREM WindowInvariant == BudgetSpec => []WindowInv
<1>1. BudgetInit => WindowInv
  BY WindowInit
<1>2. WindowInv /\ [BudgetNext]_budgetVars => WindowInv'
  BY WindowStep
<1> QED BY <1>1, <1>2, PTL DEF BudgetSpec

\* What FreshWindowKept says of a step.
FreshStep ==
  /\ windowStart' >= windowStart
  /\ (total' < total => clock - windowStart > Window)

LEMMA FreshWindowStep == WindowInv /\ [BudgetNext]_budgetVars => [FreshStep]_budgetVars
<1> SUFFICES ASSUME WindowInv, [BudgetNext]_budgetVars PROVE FreshStep
  OBVIOUS
<1>1. {total, windowStart, clock} \subseteq Nat
  BY DEF WindowInv, BudgetTypeOK
<1>2. CASE \E c \in Callers : ZeroTotal(c)
  <2>1. PICK c \in Callers : ZeroTotal(c)
    BY <1>2
  <2>2. Resetting(c) /\ UNCHANGED windowStart /\ now[c] \in Nat
    BY <2>1 DEF ZeroTotal, Resetting, WindowInv, BudgetTypeOK
  <2>3. now[c] <= clock /\ now[c] - windowStart > Window
    BY <2>2 DEF WindowInv, ExpirySeen
  <2> QED BY <1>1, <2>2, <2>3, BudgetAssumption DEF FreshStep
<1>3. CASE \E c \in Callers : MoveWindow(c)
  <2>1. PICK c \in Callers : MoveWindow(c)
    BY <1>3
  <2>2. Resetting(c) /\ UNCHANGED total /\ windowStart' = now[c] /\ now[c] \in Nat
    BY <2>1 DEF MoveWindow, Resetting, WindowInv, BudgetTypeOK
  <2>3. now[c] - windowStart > Window
    BY <2>2 DEF WindowInv, ExpirySeen
  <2> QED BY <1>1, <2>2, <2>3, BudgetAssumption DEF FreshStep
<1>4. CASE ~(\E c \in Callers : ZeroTotal(c)) /\ ~(\E c \in Callers : MoveWindow(c))
  <2>1. UNCHANGED windowStart /\ total' \in {total, total + 1}
    BY <1>4 DEF BudgetNext, Tick, Allow, AllowStep, Lock, ZeroRetries, AddTotal, LoadTotal,
                LoadRetries, AddRetry, counters, budgetVars
  <2> QED BY <1>1, <2>1 DEF FreshStep
<1> QED BY <1>2, <1>3, <1>4

\* The window is only reset when it has expired, and its start never goes back.
THEOREM FreshWindow == BudgetSpec => FreshWindowKept
<1>1. WindowInv /\ [BudgetNext]_budgetVars => [FreshStep]_budgetVars
  BY FreshWindowStep
<1>2. BudgetSpec => [][FreshStep]_budgetVars
  BY <1>1, WindowInvariant, PTL DEF BudgetSpec
<1> QED BY <1>2 DEF FreshWindowKept, FreshStep

-----------------------------------------------------------------------------
(* The counters. *)

LEMMA CountersInit == BudgetInit => CountersInv
<1> SUFFICES ASSUME BudgetInit PROVE CountersInv
  OBVIOUS
<1>1. total = 0 /\ retries = 0 /\ LateCallers = {}
  BY DEF BudgetInit, LateCallers, Late
<1>2. Cardinality(LateCallers) = 0
  BY <1>1, FS_EmptySet
<1>3. PICK c \in Callers : TRUE
  BY BudgetAssumption
<1>4. Cardinality(Callers \ {c}) = Cardinality(Callers) - 1 /\ Cardinality(Callers \ {c}) \in Nat
      /\ Cardinality(Callers) \in Nat
  BY <1>3, CallersFinite
<1>5. 0 < Cardinality(Callers)
  BY <1>4
<1>6. 0 * Den < Num * 0 + Den * Cardinality(Callers)
  BY <1>4, <1>5, RatioAtZero
<1> QED BY <1>1, <1>2, <1>6 DEF CountersInv

\* A step after which there are no more retries and late callers together, and
\* no fewer outcomes, keeps the invariant of the counters.
LEMMA CountersKept ==
  ASSUME WindowInv, WindowInv', CountersInv,
         ~ \E c \in Callers : apc[c] = "zeroRetries" /\ apc'[c] # "zeroRetries",
         total' >= total,
         retries' + Cardinality(LateCallers') <= retries + Cardinality(LateCallers)
  PROVE  CountersInv'
<1>1. CASE \E c \in Callers : apc[c] = "zeroRetries"
  BY <1>1 DEF CountersInv
<1>2. CASE ~ \E c \in Callers : apc[c] = "zeroRetries"
  <2>1. /\ Cardinality(LateCallers) \in Nat /\ Cardinality(LateCallers') \in Nat
        /\ Cardinality(Callers) \in Nat
    BY CallersFinite DEF LateCallers
  <2>2. {total, total', retries, retries'} \subseteq Nat
    BY DEF WindowInv, BudgetTypeOK
  <2>3. (retries + Cardinality(LateCallers)) * Den < Num * total + Den * Cardinality(Callers)
    BY <1>2 DEF CountersInv
  <2> DEFINE r == retries + Cardinality(LateCallers)
             q == retries' + Cardinality(LateCallers')
  <2>4. r \in Int /\ q \in Int /\ q <= r /\ total \in Int /\ total' \in Int /\ total <= total'
    BY <2>1, <2>2
  <2>5. r * Den < Num * total + Den * Cardinality(Callers)
    BY <2>3
  <2> HIDE DEF r, q
  <2>6. q * Den < Num * total' + Den * Cardinality(Callers)
    BY <2>1, <2>4, <2>5, RatioKept
  <2> QED BY <2>6 DEF CountersInv, q
<1> QED BY <1>1, <1>2

\* The invariant of the counters is kept by every step.
LEMMA CountersStep ==
  WindowInv /\ WindowInv' /\ CountersInv /\ [BudgetNext]_budgetVars => CountersInv'
<1> SUFFICES ASSUME WindowInv, WindowInv', CountersInv, [BudgetNext]_budgetVars
             PROVE  CountersInv'
  OBVIOUS
<1>1. /\ {total, retries} \subseteq Nat
      /\ share \in [Callers -> Nat]
      /\ DOMAIN apc = Callers
  BY DEF WindowInv, BudgetTypeOK
<1>2. LateCallers \in SUBSET Callers
  BY DEF LateCallers
<1>3. Cardinality(LateCallers) \in Nat /\ Cardinality(Callers) \in Nat
  BY <1>2, CallersFinite
\* Steps that make no caller late and leave the counters alone, or count an outcome.
<1>4. ASSUME NEW c \in Callers,
             \/ Allow(c) \/ Lock(c) \/ MoveWindow(c) \/ AddTotal(c) \/ LoadTotal(c)
             \/ LoadRetries(c) /\ Spent(c)
      PROVE  CountersInv'
  <2>1. /\ retries' = retries /\ total' \in {total, total + 1}
        /\ ~ \E d \in Callers : apc[d] = "zeroRetries" /\ apc'[d] # "zeroRetries"
    BY <1>1, <1>4 DEF Allow, Lock, MoveWindow, AddTotal, LoadTotal, LoadRetries, Verdict, Goto,
                      counters, locals
  <2>2. LateCallers' \subseteq LateCallers
    BY <1>1, <1>4 DEF LateCallers, Late, Allow, Lock, MoveWindow, AddTotal, LoadTotal,
                      LoadRetries, Verdict, Goto, counters, locals
  <2>3. Cardinality(LateCallers') <= Cardinality(LateCallers) /\ Cardinality(LateCallers') \in Nat
    BY <1>2, <2>2, CallersFinite
  <2> QED BY <1>1, <1>3, <2>1, <2>3, CountersKept
<1>5. ASSUME NEW c \in Callers, ZeroTotal(c) PROVE CountersInv'
  BY <1>1, <1>5 DEF CountersInv, ZeroTotal, Goto
\* The caller that resets is not late, and leaves no retries.
<1>6. ASSUME NEW c \in Callers, ZeroRetries(c) PROVE CountersInv'
  <2>1. retries' = 0 /\ total' \in Nat /\ LateCallers' \in SUBSET (Callers \ {c})
    BY <1>1, <1>6 DEF ZeroRetries, Goto, LateCallers, Late, locals
  <2>2. Cardinality(Callers \ {c}) = Cardinality(Callers) - 1
    BY CallersFinite
  <2>3. /\ Cardinality(LateCallers') \in Nat
        /\ Cardinality(LateCallers') <= Cardinality(Callers \ {c})
    BY <2>1, CallersFinite
  <2>4. Cardinality(LateCallers') < Cardinality(Callers)
    BY <1>3, <2>2, <2>3
  <2>5. Cardinality(LateCallers') * Den < Num * total' + Den * Cardinality(Callers)
    BY <1>3, <2>1, <2>3, <2>4, RatioAtZero
  <2>6. retries' + Cardinality(LateCallers') = Cardinality(LateCallers')
    BY <2>1, <2>3
  <2> QED BY <2>5, <2>6 DEF CountersInv
\* A comparison that is passed: either the caller was late already, or the total
\* it compared with still stands.
<1>7. ASSUME NEW c \in Callers, LoadRetries(c), ~Spent(c) PROVE CountersInv'
  <2>1. /\ retries' = retries /\ total' = total /\ share' = share
        /\ apc[c] = "loadRetries" /\ apc' = [apc EXCEPT ![c] = "addRetry"]
    BY <1>7 DEF LoadRetries, Goto, counters
  <2>2. ~ \E d \in Callers : apc[d] = "zeroRetries" /\ apc'[d] # "zeroRetries"
    BY <1>1, <2>1
  <2>3. LateCallers' \in SUBSET Callers
    BY DEF LateCallers
  <2>4. CASE share[c] > total
    <3>1. LateCallers' = LateCallers
      BY <1>1, <2>1, <2>4 DEF LateCallers, Late
    <3> QED BY <1>1, <1>3, <2>1, <2>2, <3>1, CountersKept
  <2>5. CASE share[c] <= total
    <3>1. Cardinality(LateCallers') \in Nat /\ Cardinality(LateCallers') <= Cardinality(Callers)
      BY <2>3, CallersFinite
    <3>2. retries * Den < Num * share[c] /\ share[c] \in Int
      <4>1. Num \in Nat /\ Den \in Nat
        BY BudgetAssumption
      <4>2. retries * Den \in Int /\ Num * share[c] \in Int
        BY <1>1, <4>1, Scaled
      <4> QED BY <1>1, <1>7, <4>2 DEF Spent
    <3> DEFINE k == Cardinality(LateCallers')
    <3>3. retries \in Int /\ total \in Int /\ k \in Nat /\ k <= Cardinality(Callers)
      BY <1>1, <3>1
    <3>4. (retries + k) * Den < Num * total + Den * Cardinality(Callers)
      <4> HIDE DEF k
      <4> QED BY <1>3, <2>5, <3>2, <3>3, RatioWithin
    <3> QED BY <2>1, <3>4 DEF CountersInv
  <2> QED BY <1>1, <2>4, <2>5
\* A late caller adds its retry and is late no more.
<1>8. ASSUME NEW c \in Callers, AddRetry(c) PROVE CountersInv'
  <2>1. /\ retries' = retries + 1 /\ total' = total
        /\ ~ \E d \in Callers : apc[d] = "zeroRetries" /\ apc'[d] # "zeroRetries"
    BY <1>1, <1>8 DEF AddRetry, Verdict, Goto
  <2>2. c \in LateCallers
    BY <1>8 DEF AddRetry, LateCallers, Late
  <2>3. LateCallers' = LateCallers \ {c}
    BY <1>1, <1>8 DEF AddRetry, Verdict, Goto, LateCallers, Late
  <2>4. Cardinality(LateCallers') = Cardinality(LateCallers) - 1
    BY <1>2, <2>2, <2>3, CallersFinite
  <2> QED BY <1>1, <1>3, <2>1, <2>4, CountersKept
<1>9. CASE Tick \/ UNCHANGED budgetVars
  <2>1. UNCHANGED <<apc, total, retries, share>>
    BY <1>9 DEF Tick, counters, locals, budgetVars
  <2>2. LateCallers' = LateCallers
    BY <2>1 DEF LateCallers, Late
  <2> QED BY <2>1, <2>2 DEF CountersInv
<1> QED
  BY <1>4, <1>5, <1>6, <1>7, <1>8, <1>9 DEF BudgetNext, AllowStep

\* Whoever calls Allow, and however the stores of a reset interleave with it,
\* every window's retries exceed the budgeted share by less than one per caller.
THEOREM CountersInvariant == BudgetSpec => []CountersInv
<1>1. BudgetInit => CountersInv
  BY CountersInit
<1>2. WindowInv /\ WindowInv' /\ CountersInv /\ [BudgetNext]_budgetVars => CountersInv'
  BY CountersStep
<1> QED BY <1>1, <1>2, WindowInvariant, PTL DEF BudgetSpec

\* Outside of a reset, the invariant bounds the counters themselves.
LEMMA CountersWithin ==
  ASSUME WindowInv, CountersInv, ~ \E c \in Callers : apc[c] = "zeroRetries"
  PROVE  retries * Den < Num * total + Den * Cardinality(Callers)
<1>1. Cardinality(LateCallers) \in Nat /\ Cardinality(Callers) \in Nat
  BY CallersFinite DEF LateCallers
<1>2. total \in Nat /\ retries \in Nat
  BY DEF WindowInv, BudgetTypeOK
<1> DEFINE r == retries + Cardinality(LateCallers)
<1>3. r * Den < Num * total + Den * Cardinality(Callers)
  BY DEF CountersInv
<1>4. r \in Int /\ retries <= r
  BY <1>1, <1>2
<1> HIDE DEF r
<1> QED BY <1>1, <1>2, <1>3, <1>4, RatioKept

-----------------------------------------------------------------------------
(* The grants. *)

LEMMA GrantsInit == BudgetInit => GrantsInv
<1> SUFFICES ASSUME BudgetInit PROVE GrantsInv
  OBVIOUS
<1>1. granted = 0 /\ Forgetful = {} /\ Shown = 0
  BY DEF BudgetInit, Forgetful, Forgets, Storing, Shown
<1>2. Cardinality(Forgetful) = 0
  BY <1>1, FS_EmptySet
<1>3. PICK c \in Callers : TRUE
  BY BudgetAssumption
<1>4. /\ Cardinality(Callers \ {c}) = Cardinality(Callers) - 1
      /\ Cardinality(Callers \ {c}) \in Nat /\ Cardinality(Callers) \in Nat
  BY <1>3, CallersFinite
<1> QED BY <1>1, <1>2, <1>4 DEF GrantsInv

\* A step that grants nothing, and after which no other caller may be forgotten.
LEMMA GrantsKept ==
  ASSUME WindowInv, GrantsInv, granted' = granted, Shown' = Shown, Forgetful' \subseteq Forgetful
  PROVE  GrantsInv'
<1>1. /\ Cardinality(Forgetful) \in Nat /\ Cardinality(Forgetful') \in Nat
      /\ Cardinality(Forgetful') <= Cardinality(Forgetful) /\ Cardinality(Callers) \in Nat
  BY CallersFinite DEF Forgetful
<1>2. granted \in Nat /\ Shown \in Nat
  BY DEF WindowInv, BudgetTypeOK, Shown
<1> DEFINE k == Cardinality(Forgetful)
           q == Cardinality(Forgetful')
<1>3. granted + k <= Shown + (Cardinality(Callers) - 1)
  BY DEF GrantsInv
<1> HIDE DEF k, q
<1>4. granted + q <= Shown + (Cardinality(Callers) - 1)
  BY <1>1, <1>2, <1>3 DEF k, q
<1> QED BY <1>4 DEF GrantsInv, q

\* A yes to a caller that may be forgotten is its last one to be so.
LEMMA GrantsForgotten ==
  ASSUME WindowInv, GrantsInv, NEW c \in Forgetful, granted' = granted + 1, Shown' = Shown,
         Forgetful' = Forgetful \ {c}
  PROVE  GrantsInv'
<1>1. /\ Cardinality(Forgetful) \in Nat /\ Cardinality(Callers) \in Nat
      /\ Cardinality(Forgetful \ {c}) = Cardinality(Forgetful) - 1
  BY CallersFinite DEF Forgetful
<1>2. granted \in Nat /\ Shown \in Nat
  BY DEF WindowInv, BudgetTypeOK, Shown
<1>3. Cardinality(Forgetful') = Cardinality(Forgetful) - 1
  BY <1>1
<1> QED BY <1>1, <1>2, <1>3 DEF GrantsInv

\* The invariant of the grants is kept by every step.
LEMMA GrantsStep == WindowInv /\ WindowInv' /\ GrantsInv /\ [BudgetNext]_budgetVars => GrantsInv'
<1> SUFFICES ASSUME WindowInv, WindowInv', GrantsInv, [BudgetNext]_budgetVars PROVE GrantsInv'
  OBVIOUS
<1>1. /\ {total, retries, granted, clock, windowStart} \subseteq Nat
      /\ DOMAIN apc = Callers /\ DOMAIN now = Callers
      /\ now \in [Callers -> Nat]
      /\ \A c, d \in Callers : Resetting(c) /\ Resetting(d) => c = d
      /\ mu <=> \E c \in Callers : Resetting(c)
  BY DEF WindowInv, BudgetTypeOK, OneReset, Resetting
<1>2. Cardinality(Callers) \in Nat
  BY CallersFinite
\* While the counters are stored, whoever comes finds the window expired and waits.
<1>3. ASSUME NEW c \in Callers, Allow(c) PROVE GrantsInv'
  <2>1. /\ granted' = granted /\ total' = total /\ retries' = retries /\ apc[c] = "out"
        /\ \E to \in {"lock", "add"} : apc' = [apc EXCEPT ![c] = to] /\ (Storing => to = "lock")
    <3>1. CASE clock - windowStart > Window
      BY <1>3, <3>1 DEF Allow, Goto, counters
    <3>2. CASE ~(clock - windowStart > Window)
      <4>1. ~Storing
        <5> SUFFICES ASSUME NEW d \in Callers, apc[d] = "zeroRetries" PROVE FALSE
          BY DEF Storing
        <5>1. now[d] <= clock /\ now[d] - windowStart > Window /\ now[d] \in Nat
          BY <1>1 DEF WindowInv, ExpirySeen, Resetting
        <5> QED BY <1>1, <3>2, <5>1, BudgetAssumption
      <4> QED BY <1>3, <3>2, <4>1 DEF Allow, Goto, counters
    <3> QED BY <3>1, <3>2
  <2>2. Storing' = Storing
    BY <1>1, <2>1 DEF Storing
  <2>3. Forgetful' \subseteq Forgetful /\ Shown' = Shown
    BY <1>1, <2>1, <2>2 DEF Forgetful, Forgets, Shown
  <2> QED BY <2>1, <2>3, GrantsKept
<1>4. ASSUME NEW c \in Callers, Lock(c) PROVE GrantsInv'
  <2>1. /\ granted' = granted /\ total' = total /\ retries' = retries /\ apc[c] = "lock" /\ ~mu
        /\ \E to \in {"zeroTotal", "add"} : apc' = [apc EXCEPT ![c] = to]
    BY <1>4 DEF Lock, Goto, counters
  <2>2. ~Storing /\ ~Storing'
    BY <1>1, <2>1 DEF Storing, Resetting
  <2>3. Forgetful' \subseteq Forgetful /\ Shown' = Shown
    BY <1>1, <2>1, <2>2 DEF Forgetful, Forgets, Shown
  <2> QED BY <2>1, <2>3, GrantsKept
\* The window begins with no grant, and the caller that begins it asks for none yet.
<1>5. ASSUME NEW c \in Callers, ZeroTotal(c) PROVE GrantsInv'
  <2>1. granted' = 0 /\ apc' = [apc EXCEPT ![c] = "zeroRetries"]
    BY <1>5 DEF ZeroTotal, Goto
  <2>2. Storing' /\ Shown' = 0 /\ Forgetful' \in SUBSET (Callers \ {c})
    BY <1>1, <2>1 DEF Storing, Shown, Forgetful, Forgets
  <2>3. /\ Cardinality(Callers \ {c}) = Cardinality(Callers) - 1
        /\ Cardinality(Forgetful') \in Nat
        /\ Cardinality(Forgetful') <= Cardinality(Callers \ {c})
    BY <2>2, CallersFinite
  <2> QED BY <1>2, <2>1, <2>2, <2>3 DEF GrantsInv
<1>6. ASSUME NEW c \in Callers, ZeroRetries(c) PROVE GrantsInv'
  <2>1. /\ granted' = granted /\ total' = total /\ retries' = 0 /\ apc[c] = "zeroRetries"
        /\ apc' = [apc EXCEPT ![c] = "moveWindow"]
    BY <1>6 DEF ZeroRetries, Goto
  <2>2. Storing /\ ~Storing'
    BY <1>1, <2>1 DEF Storing, Resetting
  <2>3. Forgetful' \subseteq Forgetful /\ Shown' = Shown
    BY <1>1, <2>1, <2>2 DEF Forgetful, Forgets, Shown
  <2> QED BY <2>1, <2>3, GrantsKept
<1>7. ASSUME NEW c \in Callers, MoveWindow(c) PROVE GrantsInv'
  <2>1. /\ granted' = granted /\ total' = total /\ retries' = retries /\ apc[c] = "moveWindow"
        /\ apc' = [apc EXCEPT ![c] = "add"]
    BY <1>7 DEF MoveWindow, Goto
  <2>2. ~Storing /\ ~Storing'
    BY <1>1, <2>1 DEF Storing, Resetting
  <2>3. Forgetful' \subseteq Forgetful /\ Shown' = Shown
    BY <1>1, <2>1, <2>2 DEF Forgetful, Forgets, Shown
  <2> QED BY <2>1, <2>3, GrantsKept
<1>8. ASSUME NEW c \in Callers, AddTotal(c) PROVE GrantsInv'
  <2>1. /\ granted' = granted /\ total' = total + 1 /\ retries' = retries /\ apc[c] = "add"
        /\ apc' = [apc EXCEPT ![c] = "loadTotal"]
    BY <1>8 DEF AddTotal, Goto, locals
  <2>2. Storing' = Storing /\ total' # 0
    BY <1>1, <2>1 DEF Storing
  <2>3. Forgetful' \subseteq Forgetful /\ Shown' = Shown
    BY <1>1, <2>1, <2>2 DEF Forgetful, Forgets, Shown
  <2> QED BY <2>1, <2>3, GrantsKept
<1>9. ASSUME NEW c \in Callers, LoadTotal(c) PROVE GrantsInv'
  <2>1. total' = total /\ retries' = retries /\ apc[c] = "loadTotal"
    BY <1>9 DEF LoadTotal, counters
  <2>2. CASE total <= 0
    <3>1. granted' = granted + 1 /\ apc' = [apc EXCEPT ![c] = "out"] /\ total = 0
      BY <1>1, <1>9, <2>2 DEF LoadTotal, Verdict, Goto
    <3>2. Storing' = Storing
      BY <1>1, <2>1, <3>1 DEF Storing
    <3>3. c \in Forgetful /\ Forgetful' = Forgetful \ {c} /\ Shown' = Shown
      BY <1>1, <2>1, <3>1, <3>2 DEF Forgetful, Forgets, Shown
    <3> QED BY <3>1, <3>3, GrantsForgotten
  <2>3. CASE ~(total <= 0)
    <3>1. granted' = granted /\ apc' = [apc EXCEPT ![c] = "loadRetries"] /\ total # 0
      BY <1>9, <2>3 DEF LoadTotal, Goto
    <3>2. Storing' = Storing
      BY <1>1, <2>1, <3>1 DEF Storing
    <3>3. Forgetful' \subseteq Forgetful /\ Shown' = Shown
      BY <1>1, <2>1, <3>1, <3>2 DEF Forgetful, Forgets, Shown
    <3> QED BY <3>1, <3>3, GrantsKept
  <2> QED BY <2>2, <2>3
<1>10. ASSUME NEW c \in Callers, LoadRetries(c) PROVE GrantsInv'
  <2>1. /\ granted' = granted /\ total' = total /\ retries' = retries /\ apc[c] = "loadRetries"
        /\ \E to \in {"out", "addRetry"} : apc' = [apc EXCEPT ![c] = to]
    BY <1>10 DEF LoadRetries, Verdict, Goto, counters
  <2>2. Storing' = Storing
    BY <1>1, <2>1 DEF Storing
  <2>3. Forgetful' \subseteq Forgetful /\ Shown' = Shown
    BY <1>1, <2>1, <2>2 DEF Forgetful, Forgets, Shown
  <2> QED BY <2>1, <2>3, GrantsKept
\* Added between the two stores, a retry is lost; otherwise it is shown.
<1>11. ASSUME NEW c \in Callers, AddRetry(c) PROVE GrantsInv'
  <2>1. /\ granted' = granted + 1 /\ total' = total /\ retries' = retries + 1 /\ apc[c] = "addRetry"
        /\ apc' = [apc EXCEPT ![c] = "out"]
    BY <1>11 DEF AddRetry, Verdict, Goto
  <2>2. Storing' = Storing
    BY <1>1, <2>1 DEF Storing
  <2>3. CASE Storing
    <3>1. c \in Forgetful /\ Forgetful' = Forgetful \ {c} /\ Shown' = Shown
      BY <1>1, <2>1, <2>2, <2>3 DEF Forgetful, Forgets, Shown
    <3> QED BY <2>1, <3>1, GrantsForgotten
  <2>4. CASE ~Storing
    <3>1. Forgetful' = Forgetful /\ Shown' = Shown + 1 /\ Shown \in Nat
      BY <1>1, <2>1, <2>2, <2>4 DEF Forgetful, Forgets, Shown
    <3>2. Cardinality(Forgetful) \in Nat
      BY CallersFinite DEF Forgetful
    <3> QED BY <1>1, <1>2, <2>1, <3>1, <3>2 DEF GrantsInv
  <2> QED BY <2>3, <2>4
<1>12. CASE Tick \/ UNCHANGED budgetVars
  <2>1. UNCHANGED <<apc, total, retries, granted>>
    BY <1>12 DEF Tick, counters, locals, budgetVars
  <2>2. Forgetful' = Forgetful /\ Shown' = Shown
    BY <2>1 DEF Forgetful, Forgets, Shown, Storing
  <2> QED BY <2>1, <2>2, GrantsKept
<1> QED
  BY <1>3, <1>4, <1>5, <1>6, <1>7, <1>8, <1>9, <1>10, <1>11, <1>12 DEF BudgetNext, AllowStep

\* Whoever calls Allow, a reset makes the counters forget at most one grant of each
\* caller that it overtakes.
THEOREM GrantsInvariant == BudgetSpec => []GrantsInv
<1>1. BudgetInit => GrantsInv
  BY GrantsInit
<1>2. WindowInv /\ WindowInv' /\ GrantsInv /\ [BudgetNext]_budgetVars => GrantsInv'
  BY GrantsStep
<1> QED BY <1>1, <1>2, WindowInvariant, PTL DEF BudgetSpec

\* What is granted of one window, in every state.
LEMMA GrantsWithin ==
  ASSUME WindowInv, CountersInv, GrantsInv
  PROVE  granted * Den < Num * total + Den * (2 * Cardinality(Callers) - 1)
<1> DEFINE n == Cardinality(Callers)
<1>1. /\ Cardinality(Forgetful) \in Nat /\ n \in Nat
  BY CallersFinite DEF Forgetful
<1>2. {granted, total, retries} \subseteq Nat
  BY DEF WindowInv, BudgetTypeOK
<1>3. granted <= Shown + (n - 1)
  <2>1. Shown \in Nat
    BY <1>2 DEF Shown
  <2> QED BY <1>1, <1>2, <2>1 DEF GrantsInv
<1>4. n \in Nat \ {0}
  <2>1. PICK c \in Callers : TRUE
    BY BudgetAssumption
  <2>2. Cardinality(Callers \ {c}) = n - 1 /\ Cardinality(Callers \ {c}) \in Nat
    BY CallersFinite
  <2> QED BY <1>1, <2>2
<1> HIDE DEF n
<1>5. 2 * n - 1 \in Nat /\ 2 * n - 1 = n + (n - 1) /\ n - 1 \in Nat
  BY <1>4
<1>6. CASE Storing
  <2>1. granted < 2 * n - 1
    BY <1>2, <1>3, <1>4, <1>6 DEF Shown
  <2> QED BY <1>2, <1>5, <2>1, RatioAtZero DEF n
<1>7. CASE ~Storing
  <2>1. retries * Den < Num * total + Den * n
    BY <1>7, CountersWithin DEF Storing, n
  <2>2. granted <= retries + (n - 1)
    BY <1>3, <1>7 DEF Shown
  <2>3. granted \in Int /\ retries \in Int /\ total \in Int
    BY <1>2
  <2>4. granted * Den < Num * total + Den * (n + (n - 1))
    BY <1>4, <1>5, <2>1, <2>2, <2>3, RatioPlus
  <2> QED BY <1>5, <2>4 DEF n
<1> QED BY <1>6, <1>7
=============================================================================
